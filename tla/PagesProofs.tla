----------------------------- MODULE PagesProofs -----------------------------
(***************************************************************************)
(* Proofs about the pages of the web client, for every number of requests, *)
(* of files, rows, fields and runs, and for every answer order, failure    *)
(* and retry that the pages' modules have.  Each page has an inductive     *)
(* invariant of its own, with three lemmas: it holds when a visit starts,  *)
(* every step of the page keeps it, and what the page promises follows.    *)
(* The theorems at the end put them together.                              *)
(***************************************************************************)
EXTENDS Pages, MatchBoardProofs, FiniteSetTheorems, TLAPS

\* A step of a visit is one of the page that is visited, and leaves every other page.
LEMMA OnlyTheVisited ==
  ASSUME [VisitNext]_visitVars
  PROVE  /\ Verify!Next \/ UNCHANGED verifyVars
         /\ Viewer!Next \/ UNCHANGED viewerVars
         /\ Exceptions!Next \/ UNCHANGED exceptionsVars
         /\ Invoices!Next \/ UNCHANGED invoicesVars
         /\ Next \/ UNCHANGED matchVars
         /\ Analytics!Next \/ UNCHANGED analyticsVars
         /\ Benchmarks!Next \/ UNCHANGED benchmarksVars
         /\ Dropzone!Next \/ UNCHANGED uploadVars
  <1>1. CASE UNCHANGED visitVars
    <2>1. /\ UNCHANGED verifyVars /\ UNCHANGED viewerVars /\ UNCHANGED exceptionsVars
          /\ UNCHANGED invoicesVars /\ UNCHANGED matchVars /\ UNCHANGED analyticsVars
          /\ UNCHANGED benchmarksVars /\ UNCHANGED uploadVars
      BY <1>1 DEF visitVars
    <2>2. QED
      BY <2>1
  <1>2. CASE VisitNext
    BY <1>2 DEF VisitNext, OnVerify, OnViewer, OnExceptions, OnInvoices, OnMatch, OnAnalytics,
                OnBenchmarks, OnDropzone
  <1>3. QED
    BY <1>1, <1>2

-----------------------------------------------------------------------------
(***************************************************************************)
(* The dropzone                                                            *)
(***************************************************************************)

\* The files and the phases, and a row per file at most.
Taken ==
  /\ invoices \in [Contents -> 0..1]
  /\ extractJobs = invoices
  /\ phase \in [Dropzone!Uploads -> Dropzone!Phases]
  /\ content \in [Dropzone!Uploads -> Contents \cup {Dropzone!NoFile}]
  /\ state \in Dropzone!UploadState
  /\ \A u \in Dropzone!Uploads : phase[u] # "unused" => content[u] \in Contents

\* While one upload has inserted its row and not yet committed, no other upload of the
\* same file has, and there is no committed row of it; and what was answered as taken in
\* is committed.
IndexHeld ==
  /\ \A u, v \in Dropzone!Uploads :
       phase[u] = "inserted" /\ phase[v] = "inserted" /\ content[u] = content[v] => u = v
  /\ \A u \in Dropzone!Uploads : phase[u] = "inserted" => invoices[content[u]] = 0
  /\ \A u \in Dropzone!Uploads :
       phase[u] \in {"accepted", "duplicate", "taken"} => invoices[content[u]] = 1

\* What the dropzone's proofs keep.
UploadInv == Taken /\ IndexHeld

\* Before the first drop nothing is sent and there is no row.
LEMMA UploadInit == Dropzone!Init => UploadInv
  BY DEF Dropzone!Init, UploadInv, Taken, IndexHeld, Dropzone!Phases, Dropzone!UploadState

\* The INSERT is where a second upload of a file is refused; the COMMIT adds the one row
\* that no other upload of it has inserted.
LEMMA UploadStep ==
  ASSUME UploadInv, Dropzone!Next \/ UNCHANGED uploadVars
  PROVE  UploadInv'
  <1> USE DEF UploadInv, Taken, IndexHeld, Dropzone!To, Dropzone!UploadState
  <1>1. ASSUME NEW u \in Dropzone!Uploads, NEW file \in Contents, Dropzone!upload(u, file)
        PROVE  UploadInv'
    <2>1. "sent" \in Dropzone!Phases
      BY DEF Dropzone!Phases
    <2>2. QED
      BY <1>1, <2>1 DEF Dropzone!upload
  <1>2. ASSUME NEW u \in Dropzone!Uploads, Dropzone!FindByContentHash(u)
        PROVE  UploadInv'
    <2>1. "duplicate" \in Dropzone!Phases /\ "checked" \in Dropzone!Phases
      BY DEF Dropzone!Phases
    <2>2. content[u] \in Contents
      BY <1>2 DEF Dropzone!FindByContentHash
    <2>3. CASE phase' = [phase EXCEPT ![u] = "duplicate"] /\ invoices[content[u]] = 1
      BY <1>2, <2>1, <2>2, <2>3 DEF Dropzone!FindByContentHash
    <2>4. CASE phase' = [phase EXCEPT ![u] = "checked"]
      BY <1>2, <2>1, <2>2, <2>4 DEF Dropzone!FindByContentHash
    <2>5. invoices[content[u]] \in 0..1
      BY <2>2
    <2>6. invoices[content[u]] > 0 => invoices[content[u]] = 1
      BY ONLY <2>5
    <2>7. QED
      BY <1>2, <2>3, <2>4, <2>6 DEF Dropzone!FindByContentHash
  <1>3. ASSUME NEW u \in Dropzone!Uploads, Dropzone!InsertInvoice(u)
        PROVE  UploadInv'
    <2>1. "inserted" \in Dropzone!Phases /\ "refused" \in Dropzone!Phases
      BY DEF Dropzone!Phases
    <2>2. QED
      BY <1>3, <2>1 DEF Dropzone!InsertInvoice, Dropzone!unique
  <1>4. ASSUME NEW u \in Dropzone!Uploads, Dropzone!Commit(u)
        PROVE  UploadInv'
    <2>1. "accepted" \in Dropzone!Phases /\ "refused" \in Dropzone!Phases
      BY DEF Dropzone!Phases
    <2>2. content[u] \in Contents /\ invoices[content[u]] = 0
      BY <1>4 DEF Dropzone!Commit
    <2>3. invoices[content[u]] + 1 = 1 /\ 1 \in 0..1
      BY ONLY <2>2
    <2>4. invoices' = [invoices EXCEPT ![content[u]] = 1] /\ extractJobs' = invoices'
      BY <1>4, <2>3 DEF Dropzone!Commit
    <2>5. Taken'
      BY <1>4, <2>1, <2>2, <2>3, <2>4 DEF Dropzone!Commit
    <2>6. ASSUME NEW v \in Dropzone!Uploads
          PROVE  /\ phase'[v] = "inserted" => invoices'[content'[v]] = 0
                 /\ phase'[v] \in {"accepted", "duplicate", "taken"} => invoices'[content'[v]] = 1
      BY <1>4, <2>2, <2>4 DEF Dropzone!Commit
    <2>7. QED
      BY <1>4, <2>5, <2>6 DEF Dropzone!Commit
  <1>5. ASSUME NEW u \in Dropzone!Uploads, Dropzone!Abort(u)
        PROVE  UploadInv'
    <2>1. "refused" \in Dropzone!Phases
      BY DEF Dropzone!Phases
    <2>2. QED
      BY <1>5, <2>1 DEF Dropzone!Abort
  <1>6. ASSUME NEW u \in Dropzone!Uploads, Dropzone!UploadEnds(u)
        PROVE  UploadInv'
    <2>1. "taken" \in Dropzone!Phases /\ "given up" \in Dropzone!Phases
      BY DEF Dropzone!Phases
    <2>2. QED
      BY <1>6, <2>1 DEF Dropzone!UploadEnds
  <1>7. CASE UNCHANGED uploadVars
    BY <1>7 DEF uploadVars
  <1>8. QED
    BY <1>1, <1>2, <1>3, <1>4, <1>5, <1>6, <1>7 DEF Dropzone!Next

\* The inductive invariant of the uploads: the unique index lets at most one upload of a
\* file be between its INSERT and its COMMIT, and none once a row is committed.
THEOREM IndexIsHeld == Visit => []UploadInv
  <1>1. VisitInit => UploadInv
    BY UploadInit DEF VisitInit
  <1>2. UploadInv /\ [VisitNext]_visitVars => UploadInv'
    BY UploadStep, OnlyTheVisited
  <1>3. QED
    BY <1>1, <1>2, PTL DEF Visit

\* However often a file is dropped, it becomes at most one invoice with one extract job,
\* and whatever was answered 202 or 409 is in the pipeline (ingest.py:78-115).
THEOREM FilesAreTakenOnce == Visit => []OneInvoicePerFile
  <1>1. UploadInv => OneInvoicePerFile
    BY DEF UploadInv, Taken, IndexHeld, OneInvoicePerFile, Dropzone!OneInvoicePerFile
  <1>2. QED
    BY <1>1, IndexIsHeld, PTL

-----------------------------------------------------------------------------
(***************************************************************************)
(* The document viewer                                                     *)
(***************************************************************************)

\* Urls that have not come are not fetched, the document of the current one is shown once
\* it is loaded, and the tasks of the pages are about the document that is shown.
ViewerInv ==
  /\ Viewer!TypeOK
  /\ \A u \in Urls : u > fileUrl \/ ~Viewer!isPdf => documents[u] = "none"
  /\ documents[fileUrl] = "loaded" => pdfDoc = fileUrl
  /\ \A p \in Viewer!PageNumbers :
       /\ task[p] # "none" => pdfDoc # 0
       /\ task[p] \in {"rendering", "done"} => canvas[p] = pdfDoc
       /\ p \in renderedPages => canvas[p] # 0

\* A visit starts with the first url, whose document has not come.
LEMMA ViewerInit == ASSUME NEW m \in BOOLEAN, Viewer!Start(m) PROVE ViewerInv
  <1>1. numPages \in Files /\ fileUrl \in Urls /\ Urls \subseteq Nat \ {0}
    BY ViewerAssumption, FS_CardinalityType DEF Viewer!Start
  <1>2. /\ fileUrl = 1 /\ pdfDoc = 0 /\ renderedPages = {} /\ imageLoaded = FALSE
        /\ task = [p \in Viewer!PageNumbers |-> "none"]
        /\ canvas = [p \in Viewer!PageNumbers |-> 0]
    BY DEF Viewer!Start
  <1>3. /\ documents \in [Urls -> {"none", "loading", "loaded", "failed"}]
        /\ \A u \in Urls : u > 1 \/ ~Viewer!isPdf => documents[u] = "none"
        /\ documents[1] # "loaded"
    BY <1>1, <1>2 DEF Viewer!Start
  <1>4. QED
    BY <1>1, <1>2, <1>3 DEF ViewerInv, Viewer!TypeOK

\* A new url, and a document that comes for it, drop what was drawn of another.
LEMMA ViewerStep ==
  ASSUME ViewerInv, Viewer!Next \/ UNCHANGED viewerVars
  PROVE  ViewerInv'
  <1> DEFINE Pages == Viewer!PageNumbers
  <1>0. /\ Urls \subseteq Nat \ {0} /\ fileUrl \in Nat
        /\ documents \in [Urls -> {"none", "loading", "loaded", "failed"}]
    BY ViewerAssumption, FS_CardinalityType DEF ViewerInv, Viewer!TypeOK
  <1>1. CASE Viewer!SetFileUrl
    <2>1. /\ fileUrl' = fileUrl + 1 /\ fileUrl' \in Urls
          /\ renderedPages' = {} /\ imageLoaded' = FALSE
          /\ UNCHANGED <<numPages, pdfDoc, task, canvas>>
      BY <1>1 DEF Viewer!SetFileUrl
    <2>2. /\ documents' \in [Urls -> {"none", "loading", "loaded", "failed"}]
          /\ documents'[fileUrl'] # "loaded"
          /\ \A u \in Urls : u > fileUrl' \/ ~Viewer!isPdf => documents'[u] = "none"
      <3>1. CASE Viewer!isPdf
        BY <1>0, <1>1, <2>1, <3>1 DEF Viewer!SetFileUrl, ViewerInv
      <3>2. CASE ~Viewer!isPdf
        BY <1>0, <1>1, <2>1, <3>2 DEF Viewer!SetFileUrl, ViewerInv
      <3>3. QED
        BY <3>1, <3>2
    <2>3. Pages' = Pages /\ (Viewer!isPdf' <=> Viewer!isPdf)
      BY <2>1 DEF Viewer!PageNumbers, Viewer!isPdf
    <2>4. Viewer!TypeOK'
      BY <2>1, <2>2, <2>3 DEF ViewerInv, Viewer!TypeOK
    <2>5. QED
      BY <2>1, <2>2, <2>3, <2>4 DEF ViewerInv
  <1>2. ASSUME NEW u \in Urls, Viewer!DocumentLoads(u)
        PROVE  ViewerInv'
    <2>1. UNCHANGED <<numPages, fileUrl, renderedPages, imageLoaded, canvas>>
      BY <1>2 DEF Viewer!DocumentLoads
    <2>2. /\ documents' = [documents EXCEPT ![u] = "loaded"] /\ Viewer!isPdf /\ u <= fileUrl
      BY <1>0, <1>2 DEF Viewer!DocumentLoads, ViewerInv
    <2>3. \/ u = fileUrl /\ pdfDoc' = u /\ task' = [p \in Pages |-> "getPage"]
          \/ u # fileUrl /\ UNCHANGED <<pdfDoc, task>>
      BY <1>2 DEF Viewer!DocumentLoads, Viewer!Wanted
    <2>4. Pages' = Pages /\ Viewer!isPdf'
      BY <2>1, <2>2 DEF Viewer!PageNumbers, Viewer!isPdf
    <2>5. /\ pdfDoc' \in Urls \cup {0}
          /\ task' \in [Pages -> {"none", "getPage", "rendering", "done", "failed"}]
      BY <1>0, <2>3 DEF ViewerInv, Viewer!TypeOK
    <2> HIDE DEF Pages
    <2>6. documents' \in [Urls -> {"none", "loading", "loaded", "failed"}]
      BY <1>0, <2>2
    <2>7. Viewer!TypeOK'
      BY <2>1, <2>4, <2>5, <2>6 DEF ViewerInv, Viewer!TypeOK, Pages
    <2>8. \A v \in Urls : v > fileUrl' \/ ~Viewer!isPdf' => documents'[v] = "none"
      BY <1>0, <2>1, <2>2, <2>4 DEF ViewerInv
    <2>9. documents'[fileUrl'] = "loaded" => pdfDoc' = fileUrl'
      BY <1>0, <2>1, <2>2, <2>3 DEF ViewerInv
    <2>10. \A p \in Pages :
             /\ task'[p] # "none" => pdfDoc' # 0
             /\ task'[p] \in {"rendering", "done"} => canvas'[p] = pdfDoc'
             /\ p \in renderedPages' => canvas'[p] # 0
      BY <1>0, <2>1, <2>3 DEF ViewerInv, Pages
    <2>11. QED
      BY <2>4, <2>7, <2>8, <2>9, <2>10 DEF ViewerInv, Pages
  <1>3. ASSUME NEW u \in Urls, Viewer!DocumentFails(u)
        PROVE  ViewerInv'
    BY <1>0, <1>3 DEF Viewer!DocumentFails, ViewerInv, Viewer!TypeOK, Viewer!PageNumbers,
        Viewer!isPdf
  <1>4. ASSUME NEW p \in Viewer!PageNumbers, Viewer!SizeCanvas(p)
        PROVE  ViewerInv'
    BY <1>0, <1>4 DEF Viewer!SizeCanvas, ViewerInv, Viewer!TypeOK, Viewer!PageNumbers,
        Viewer!isPdf
  <1>5. ASSUME NEW p \in Viewer!PageNumbers, Viewer!PageRendered(p)
        PROVE  ViewerInv'
    BY <1>0, <1>5 DEF Viewer!PageRendered, ViewerInv, Viewer!TypeOK, Viewer!PageNumbers,
        Viewer!isPdf
  <1>6. ASSUME NEW p \in Viewer!PageNumbers, Viewer!DrawingFails(p)
        PROVE  ViewerInv'
    BY <1>0, <1>6 DEF Viewer!DrawingFails, ViewerInv, Viewer!TypeOK, Viewer!PageNumbers,
        Viewer!isPdf
  <1>7. CASE Viewer!ImageLoads
    BY <1>7 DEF Viewer!ImageLoads, ViewerInv, Viewer!TypeOK, Viewer!PageNumbers, Viewer!isPdf
  <1>8. CASE UNCHANGED viewerVars
    BY <1>8 DEF viewerVars, ViewerInv, Viewer!TypeOK, Viewer!PageNumbers, Viewer!isPdf
  <1>9. QED
    BY <1>1, <1>2, <1>3, <1>4, <1>5, <1>6, <1>7, <1>8 DEF Viewer!Next

\* Boxes of fields are laid over pages that have been drawn.
LEMMA ViewerShows == ASSUME ViewerInv PROVE Viewer!ShowsTheDocument
  <1>1. Viewer!isPdf => Viewer!Overlaid \subseteq renderedPages \cap Viewer!PageNumbers
    BY DEF Viewer!Overlaid, Viewer!MountedPages
  <1>2. QED
    BY <1>1 DEF ViewerInv, Viewer!ShowsTheDocument

-----------------------------------------------------------------------------
(***************************************************************************)
(* Requests of a page, in general                                          *)
(***************************************************************************)

\* The requests of a page, under one name for all pages.
F == INSTANCE Fetches

\* What a request may be, with its query from Q and its answer from A.
Fetch(Q, A) ==
  {F!NotSent, F!Handled} \cup [state : {"sent", "failed"}, request : Q]
    \cup [state : {"answered"}, request : Q, answer : A]

\* N requests, sent in the order of their numbers.
Fetched(fs, N, Q, A) ==
  /\ fs \in [1..N -> Fetch(Q, A)]
  /\ \A m, n \in 1..N : m < n /\ fs[m] = F!NotSent => fs[n] = F!NotSent

\* A request that was sent is the newest.
Newest(fs, n) == fs[n] # F!NotSent /\ \A m \in DOMAIN fs : m > n => fs[m] = F!NotSent

\* Only n is the newest.
OnlyNewest(fs, n) == \A m \in DOMAIN fs : Newest(fs, m) => m = n

\* Numbers of requests are comparable.
LEMMA Numbers ==
  ASSUME NEW N \in Nat
  PROVE  \A m, n \in 1..N : (m < n \/ m = n \/ m > n) /\ (m < n <=> n > m) /\ (m < n => ~(n <= m))
  OBVIOUS

\* What the five kinds of request have.
LEMMA Kinds ==
  ASSUME NEW Q, NEW A, NEW r \in Fetch(Q, A)
  PROVE  /\ r.state \in {"not sent", "sent", "answered", "failed", "handled"}
         /\ (r.state = "not sent") <=> (r = F!NotSent)
         /\ (r.state = "handled") <=> (r = F!Handled)
         /\ r.state \in {"sent", "answered", "failed"} => r.request \in Q
         /\ r.state = "answered" => r.answer \in A
         /\ F!NotSent.state = "not sent" /\ F!Handled.state = "handled"
  <1>1. F!NotSent.state = "not sent" /\ F!Handled.state = "handled"
    BY DEF F!NotSent, F!Handled
  <1>2. CASE r \in {F!NotSent, F!Handled}
    BY <1>1, <1>2
  <1>3. CASE r \in [state : {"sent", "failed"}, request : Q]
    <2>1. r.state \in {"sent", "failed"} /\ r.request \in Q
      BY <1>3
    <2>2. QED
      BY <1>1, <2>1
  <1>4. CASE r \in [state : {"answered"}, request : Q, answer : A]
    <2>1. r.state = "answered" /\ r.request \in Q /\ r.answer \in A
      BY <1>4
    <2>2. QED
      BY <1>1, <2>1
  <1>5. QED
    BY <1>2, <1>3, <1>4 DEF Fetch

\* Nothing is sent, and the first request is sent.
LEMMA FetchedFirst ==
  ASSUME NEW N \in Nat, NEW Q, NEW A, NEW q \in Q
  PROVE  /\ Fetched(F!NoneSent(N), N, Q, A)
         /\ Fetched(F!FirstSent(N, q), N, Q, A)
         /\ \A n \in 1..N : F!NoneSent(N)[n] = F!NotSent
         /\ \A n \in 1..N : /\ F!FirstSent(N, q)[n] # F!NotSent => n = 1
                            /\ n = 1 => F!FirstSent(N, q)[n] = F!Sent(q)
  <1>1. F!NotSent \in Fetch(Q, A) /\ F!Sent(q) \in Fetch(Q, A)
    BY DEF Fetch, F!Sent
  <1>2. F!NoneSent(N) \in [1..N -> Fetch(Q, A)] /\ \A n \in 1..N : F!NoneSent(N)[n] = F!NotSent
    BY <1>1 DEF F!NoneSent
  <1>3. F!FirstSent(N, q) = [n \in 1..N |-> IF n = 1 THEN F!Sent(q) ELSE F!NotSent]
    BY DEF F!FirstSent, F!NoneSent
  <1>4. F!FirstSent(N, q) \in [1..N -> Fetch(Q, A)]
    BY <1>1, <1>3
  <1>5. \A n \in 1..N : /\ F!FirstSent(N, q)[n] # F!NotSent => n = 1
                        /\ n = 1 => F!FirstSent(N, q)[n] = F!Sent(q)
    BY <1>3
  <1>6. \A m, n \in 1..N : m < n => n # 1
    OBVIOUS
  <1>7. QED
    BY <1>2, <1>4, <1>5, <1>6 DEF Fetched

\* The next request is the newest.
LEMMA FetchedSend ==
  ASSUME NEW N \in Nat, NEW Q, NEW A, NEW fs, Fetched(fs, N, Q, A), NEW n \in 1..N,
         F!IsNext(fs, n),
         NEW q \in Q, NEW gs, gs = [fs EXCEPT ![n] = F!Sent(q)]
  PROVE  /\ n \in 1..N /\ fs[n] = F!NotSent
         /\ Fetched(gs, N, Q, A)
         /\ OnlyNewest(gs, n)
  <1>1. F!Sent(q) \in Fetch(Q, A) /\ F!Sent(q) # F!NotSent
    BY DEF Fetch, F!Sent, F!NotSent
  <1>2. fs \in [1..N -> Fetch(Q, A)] /\ DOMAIN fs = 1..N
    BY DEF Fetched
  <1>3. n \in 1..N /\ fs[n].state = "not sent"
    BY <1>2 DEF F!IsNext, F!InState
  <1>4. fs[n] = F!NotSent
    BY <1>2, <1>3, Kinds
  <1>5. ASSUME NEW m \in 1..N, m < n
        PROVE  fs[m] # F!NotSent
    <2>1. fs[m].state = "not sent" => n <= m
      BY <1>2 DEF F!IsNext, F!InState
    <2>2. F!NotSent.state = "not sent"
      BY DEF F!NotSent
    <2>3. QED
      BY <1>3, <1>5, <2>1, <2>2, Numbers
  <1>6. \A m \in 1..N : n < m => fs[m] = F!NotSent
    BY <1>3, <1>4 DEF Fetched
  <1>7. gs \in [1..N -> Fetch(Q, A)]
    BY <1>1, <1>2
  <1>8. gs[n] = F!Sent(q) /\ \A m \in 1..N : m # n => gs[m] = fs[m]
    BY <1>2, <1>3
  <1>9. Fetched(gs, N, Q, A)
    BY <1>1, <1>3, <1>5, <1>6, <1>7, <1>8 DEF Fetched
  <1>10. ASSUME NEW m \in 1..N, Newest(gs, m)
         PROVE  m = n
    <2>1. ~(m > n) /\ ~(n > m)
      BY <1>1, <1>3, <1>6, <1>7, <1>8, <1>10 DEF Newest
    <2>2. QED
      BY <1>3, <2>1, Numbers
  <1>11. QED
    BY <1>3, <1>4, <1>7, <1>9, <1>10 DEF OnlyNewest

\* What is kept when a request that was sent becomes another that was.
LEMMA FetchedChange ==
  ASSUME NEW N \in Nat, NEW Q, NEW A, NEW fs, Fetched(fs, N, Q, A), NEW n \in 1..N,
         fs[n] # F!NotSent, NEW r \in Fetch(Q, A), r # F!NotSent,
         NEW gs, gs = [fs EXCEPT ![n] = r]
  PROVE  /\ Fetched(gs, N, Q, A)
         /\ gs[n] = r
         /\ \A m \in 1..N : m # n => gs[m] = fs[m]
         /\ \A m \in 1..N : Newest(gs, m) <=> Newest(fs, m)
  <1>1. fs \in [1..N -> Fetch(Q, A)]
    BY DEF Fetched
  <1>2. gs \in [1..N -> Fetch(Q, A)] /\ gs[n] = r /\ \A m \in 1..N : m # n => gs[m] = fs[m]
    BY <1>1
  <1>3. \A m \in 1..N : gs[m] = F!NotSent <=> fs[m] = F!NotSent
    BY <1>2
  <1>4. QED
    BY <1>1, <1>2, <1>3 DEF Fetched, Newest

\* The answer of the server.
LEMMA FetchedServe ==
  ASSUME NEW N \in Nat, NEW Q, NEW A, NEW fs, Fetched(fs, N, Q, A), NEW n \in 1..N, NEW a,
         fs[n].state = "sent" => a \in A, NEW gs, F!MayAnswer(fs, gs, n, a)
  PROVE  /\ fs[n].state = "sent" /\ fs[n] # F!NotSent /\ fs[n].request \in Q
         /\ \E r \in Fetch(Q, A) :
              /\ r # F!NotSent /\ r.state \in {"answered", "failed"}
              /\ r.request = fs[n].request
              /\ r.state = "answered" => r.answer = a
              /\ gs = [fs EXCEPT ![n] = r]
  <1>1. fs[n] \in Fetch(Q, A) /\ fs[n].state = "sent"
    BY DEF Fetched, F!MayAnswer
  <1>2. fs[n].request \in Q /\ fs[n] # F!NotSent /\ a \in A
    BY <1>1, Kinds DEF F!NotSent
  <1>3. PICK q \in Q : q = fs[n].request
    BY <1>2
  <1>4. /\ F!Answered(q, a) \in Fetch(Q, A) /\ F!Failed(q) \in Fetch(Q, A)
        /\ F!Answered(q, a).state = "answered" /\ F!Failed(q).state = "failed"
        /\ F!Answered(q, a).request = q /\ F!Failed(q).request = q
        /\ F!Answered(q, a).answer = a
        /\ F!Answered(q, a) # F!NotSent /\ F!Failed(q) # F!NotSent
    BY <1>2 DEF Fetch, F!Answered, F!Failed, F!NotSent
  <1>5. fs \in [1..N -> Fetch(Q, A)]
    BY DEF Fetched
  <1>6. gs \in {[fs EXCEPT ![n] = F!Answered(q, a)], [fs EXCEPT ![n] = F!Failed(q)]}
    BY <1>3, <1>5 DEF F!MayAnswer
  <1>7. QED
    BY <1>1, <1>2, <1>3, <1>4, <1>6

-----------------------------------------------------------------------------

\* The newest request asks for what is selected now, as long as it is not handled; and
\* if request `number` is what the page shows, it was sent, and what is shown is right
\* unless a newer one was sent.
Follows(fs, selected, number, right) ==
  /\ \A n \in DOMAIN fs :
       Newest(fs, n) /\ fs[n].state \in {"sent", "answered", "failed"} => fs[n].request = selected
  /\ number = 0 \/ (number \in DOMAIN fs /\ fs[number] # F!NotSent)
  /\ number # 0 /\ Newest(fs, number) => right

\* A new selection sends a request at once, which is then the newest.
LEMMA FollowsSend ==
  ASSUME NEW N \in Nat, NEW Q, NEW A, NEW fs, Fetched(fs, N, Q, A), NEW n \in 1..N,
         F!IsNext(fs, n),
         NEW q \in Q, NEW x, NEW number, NEW ok, Follows(fs, x, number, ok), NEW ok1,
         NEW gs, gs = [fs EXCEPT ![n] = F!Sent(q)]
  PROVE  Follows(gs, q, number, ok1)
  <1>1. fs[n] = F!NotSent
    BY FetchedSend
  <1>2. OnlyNewest(gs, n)
    BY FetchedSend
  <1>3. Fetched(gs, N, Q, A)
    BY FetchedSend
  <1>4. /\ gs[n] = F!Sent(q) /\ DOMAIN gs = 1..N /\ DOMAIN fs = 1..N
        /\ \A m \in 1..N : m # n => gs[m] = fs[m]
    BY <1>3 DEF Fetched
  <1>5. gs[n].request = q
    BY <1>4 DEF F!Sent
  <1>6. number = 0 \/ (number \in 1..N /\ fs[number] # F!NotSent /\ number # n)
    BY <1>1, <1>4 DEF Follows
  <1>7. QED
    BY <1>2, <1>4, <1>5, <1>6 DEF Follows, OnlyNewest

\* A request that is served, or that fails in the page, leaves what is shown.
LEMMA FollowsChange ==
  ASSUME NEW N \in Nat, NEW Q, NEW A, NEW fs, Fetched(fs, N, Q, A), NEW n \in 1..N,
         fs[n] # F!NotSent, NEW r \in Fetch(Q, A), r # F!NotSent,
         \/ r = F!Handled
         \/ fs[n].state \in {"sent", "answered", "failed"} /\ r.request = fs[n].request,
         NEW x, NEW number, NEW ok, Follows(fs, x, number, ok),
         NEW gs, gs = [fs EXCEPT ![n] = r]
  PROVE  Follows(gs, x, number, ok)
  <1>1. /\ gs[n] = r /\ \A m \in 1..N : m # n => gs[m] = fs[m]
        /\ \A m \in 1..N : Newest(gs, m) <=> Newest(fs, m)
        /\ DOMAIN gs = 1..N /\ DOMAIN fs = 1..N
    BY FetchedChange DEF Fetched
  <1>2. F!Handled.state = "handled"
    BY DEF F!Handled
  <1>3. QED
    BY <1>1, <1>2 DEF Follows

\* A request that is handled is what is shown from now on.
LEMMA FollowsArrive ==
  ASSUME NEW N \in Nat, NEW Q, NEW A, NEW fs, Fetched(fs, N, Q, A), NEW n \in 1..N,
         fs[n].state \in {"answered", "failed"},
         NEW x, NEW number, NEW ok, Follows(fs, x, number, ok),
         NEW ok1, fs[n].request = x => ok1, NEW gs, gs = [fs EXCEPT ![n] = F!Handled]
  PROVE  Follows(gs, x, n, ok1)
  <1>1. F!Handled \in Fetch(Q, A) /\ F!Handled # F!NotSent /\ F!Handled.state = "handled"
    BY DEF Fetch, F!Handled, F!NotSent
  <1>2. fs[n] # F!NotSent
    <2>1. F!NotSent.state = "not sent"
      BY DEF F!NotSent
    <2>2. QED
      BY <2>1
  <1>3. /\ gs[n] = F!Handled /\ \A m \in 1..N : m # n => gs[m] = fs[m]
        /\ \A m \in 1..N : Newest(gs, m) <=> Newest(fs, m)
        /\ DOMAIN gs = 1..N /\ DOMAIN fs = 1..N
    BY <1>1, <1>2, FetchedChange DEF Fetched
  <1>4. QED
    BY <1>1, <1>2, <1>3 DEF Follows

-----------------------------------------------------------------------------
(***************************************************************************)
(* The list of invoices                                                    *)
(***************************************************************************)

\* The pages of the list that an answer may be.
InvoicePages ==
  [items : SUBSET Invoices!InvoiceListItem, total : 0..Cardinality(Rows)]

\* The list: a page of it at most is shown, every request is for a query of the URL, and
\* the newest one is for the query that is there now.
InvoicesInv ==
  /\ status \in [Rows -> Invoices!Statuses]
  /\ query \in Invoices!InvoicesQuery
  /\ data \in InvoicePages \cup {Invoices!NoData}
  /\ broken \in BOOLEAN
  /\ opened \in {Invoices!Here, "verify", "match"}
  /\ Fetched(pages, MaxPageLoads, Invoices!InvoicesQuery, InvoicePages)
  /\ answering \in [number : 0..MaxPageLoads, query : Invoices!InvoicesQuery]
  /\ Follows(pages, query, answering.number, answering.query = query)

\* The module's own names of the operators on requests.
LEMMA InvoicesFetches ==
  /\ Invoices!NotSent = F!NotSent /\ Invoices!Handled = F!Handled
  /\ \A q : Invoices!Sent(q) = F!Sent(q)
  /\ \A fs, n : Invoices!IsNext(fs, n) <=> F!IsNext(fs, n)
  /\ \A fs, gs, n, a : Invoices!MayAnswer(fs, gs, n, a) <=> F!MayAnswer(fs, gs, n, a)
  /\ \A N, q : /\ Invoices!FirstSent(N, q) = F!FirstSent(N, q)
               /\ Invoices!NoneSent(N) = F!NoneSent(N)
  BY DEF Invoices!NotSent, F!NotSent, Invoices!Handled, F!Handled, Invoices!Sent, F!Sent,
         Invoices!IsNext, F!IsNext, Invoices!InState, F!InState, Invoices!MayAnswer,
         F!MayAnswer, Invoices!Answered, F!Answered, Invoices!Failed, F!Failed,
         Invoices!FirstSent, F!FirstSent, Invoices!NoneSent, F!NoneSent

\* A visit starts with its first request, or with none, and shows no answer.
LEMMA FollowsFirst ==
  ASSUME NEW N \in Nat, NEW Q, NEW A, NEW q \in Q, NEW ok, NEW fs,
         fs = F!NoneSent(N) \/ fs = F!FirstSent(N, q)
  PROVE  Fetched(fs, N, Q, A) /\ Follows(fs, q, 0, ok)
  <1>1. /\ Fetched(F!NoneSent(N), N, Q, A) /\ Fetched(F!FirstSent(N, q), N, Q, A)
        /\ \A n \in 1..N : F!NoneSent(N)[n] = F!NotSent
        /\ \A n \in 1..N : /\ F!FirstSent(N, q)[n] # F!NotSent => n = 1
                           /\ n = 1 => F!FirstSent(N, q)[n] = F!Sent(q)
    BY FetchedFirst
  <1>2. Fetched(fs, N, Q, A) /\ DOMAIN fs = 1..N
    BY <1>1 DEF Fetched
  <1>3. \A n \in 1..N : fs[n] \in {F!NotSent, F!Sent(q)}
    BY <1>1
  <1>4. F!Sent(q).request = q
    BY DEF F!Sent
  <1>5. QED
    BY <1>2, <1>3, <1>4 DEF Follows, Newest

\* A visit starts with a request for the unfiltered first page.
LEMMA InvoicesInit == ASSUME NEW m \in BOOLEAN, Invoices!Start(m) PROVE InvoicesInv
  <1>1. query \in Invoices!InvoicesQuery /\ MaxPageLoads \in Nat
    BY InvoicesAssumption DEF Invoices!Start, Invoices!InvoicesQuery, Invoices!Any
  <1>2. pages = F!FirstSent(MaxPageLoads, query) \/ pages = F!NoneSent(MaxPageLoads)
    BY InvoicesFetches DEF Invoices!Start
  <1>3. answering = [number |-> 0, query |-> query]
    BY DEF Invoices!Start
  <1>4. /\ Fetched(pages, MaxPageLoads, Invoices!InvoicesQuery, InvoicePages)
        /\ Follows(pages, query, answering.number, answering.query = query)
    BY <1>1, <1>2, <1>3, FollowsFirst
  <1>5. /\ Invoices!InvoiceStatus[1] = "RECEIVED"
        /\ Invoices!InvoiceStatus[2] = "NEEDS_VERIFICATION"
    BY DEF Invoices!InvoiceStatus
  <1>6. status \in [Rows -> Invoices!Statuses]
    BY <1>5 DEF Invoices!Start, Invoices!Statuses
  <1>7. /\ data = Invoices!NoData /\ broken = FALSE /\ opened \in {Invoices!Here, "match"}
    BY DEF Invoices!Start
  <1>8. answering \in [number : 0..MaxPageLoads, query : Invoices!InvoicesQuery]
    <2>1. 0 \in 0..MaxPageLoads
      BY <1>1
    <2>2. QED
      BY <1>1, <1>3, <2>1
  <1>9. QED
    BY <1>1, <1>4, <1>6, <1>7, <1>8 DEF InvoicesInv

\* The module's own name of the number of elements.
LEMMA InvoicesCardinality == \A S : Invoices!Cardinality(S) = Cardinality(S)
  BY DEF Invoices!Cardinality, Cardinality

\* An answer of the server has the type of a page of the list.
LEMMA ListsAreTyped ==
  ASSUME status \in [Rows -> Invoices!Statuses], NEW q
  PROVE  Invoices!list_invoices(q) \in InvoicePages
  <1>1. Invoices!Matching(q) \subseteq Rows
    BY DEF Invoices!Matching
  <1>2. Cardinality(Invoices!Matching(q)) \in 0..Cardinality(Rows)
    BY <1>1, InvoicesAssumption, FS_Subset, FS_CardinalityType
  <1>3. \A i \in Rows : Invoices!toItem(i) \in Invoices!InvoiceListItem
    BY DEF Invoices!toItem, Invoices!InvoiceListItem
  <1>4. PICK S \in SUBSET Rows :
          Invoices!list_invoices(q)
               = [items |-> {Invoices!toItem(i) : i \in S},
                  total |-> Cardinality(Invoices!Matching(q))]
    <2> DEFINE S == {j \in Invoices!Matching(q) :
                       Invoices!Cardinality({k \in Invoices!Matching(q) : Invoices!Before(q, k, j)})
                         \div PageSize = q.page - 1}
    <2>1. S \in SUBSET Rows
      BY <1>1
    <2>2. Invoices!list_invoices(q)
            = [items |-> {Invoices!toItem(i) : i \in S},
               total |-> Cardinality(Invoices!Matching(q))]
      BY InvoicesCardinality DEF Invoices!list_invoices
    <2> HIDE DEF S
    <2>3. QED
      BY <2>1, <2>2
  <1>5. {Invoices!toItem(i) : i \in S} \subseteq Invoices!InvoiceListItem
    BY <1>3
  <1>6. QED
    BY <1>2, <1>4, <1>5 DEF InvoicePages

\* Whatever query the URL changes to, its page is asked for at once.
LEMMA QueryIsFollowed ==
  ASSUME InvoicesInv, NEW q \in Invoices!InvoicesQuery, Invoices!setQuery(q)
  PROVE  InvoicesInv'
  <1>1. /\ query' = q /\ UNCHANGED <<status, data, broken, opened, answering>>
        /\ Invoices!Effect(q)
    BY DEF Invoices!setQuery
  <1>2. MaxPageLoads \in Nat
    BY InvoicesAssumption
  <1>3. CASE q = query
    BY <1>1, <1>3 DEF InvoicesInv, Invoices!Effect
  <1>4. CASE q # query
    <2>1. PICK n \in DOMAIN pages :
            F!IsNext(pages, n) /\ pages' = [pages EXCEPT ![n] = F!Sent(q)]
      BY <1>1, <1>4, InvoicesFetches DEF Invoices!Effect
    <2>2. n \in 1..MaxPageLoads
      BY <2>1 DEF InvoicesInv, Fetched
    <2>3. Fetched(pages', MaxPageLoads, Invoices!InvoicesQuery, InvoicePages)
      BY <1>2, <2>1, <2>2, FetchedSend DEF InvoicesInv
    <2>4. Follows(pages', q, answering.number, answering.query = q)
      BY <1>2, <2>1, <2>2, FollowsSend DEF InvoicesInv
    <2>5. QED
      BY <1>1, <2>3, <2>4 DEF InvoicesInv
  <1>5. QED
    BY <1>3, <1>4

\* Whatever changes the query sends a request for it, or stays with the query there is.
LEMMA InvoicesStep ==
  ASSUME InvoicesInv, Invoices!Next \/ UNCHANGED invoicesVars
  PROVE  InvoicesInv'
  <1> DEFINE Q == Invoices!InvoicesQuery
  <1>1. /\ MaxPageLoads \in Nat /\ DOMAIN pages = 1..MaxPageLoads
        /\ pages \in [1..MaxPageLoads -> Fetch(Q, InvoicePages)]
        /\ Fetched(pages, MaxPageLoads, Q, InvoicePages)
        /\ Follows(pages, query, answering.number, answering.query = query)
    BY InvoicesAssumption DEF InvoicesInv, Fetched
  <1>2. F!Handled \in Fetch(Q, InvoicePages) /\ F!Handled # F!NotSent
    BY DEF Fetch, F!Handled, F!NotSent
  <1>3. 1 \in 1..MaxPage
    BY InvoicesAssumption
  <1>4. query \in Q
    BY DEF InvoicesInv
  <1>5. ASSUME NEW i \in Rows, Invoices!StatusMoves(i)
        PROVE  InvoicesInv'
    <2>1. UNCHANGED <<query, data, broken, opened, pages, answering>>
      BY <1>5 DEF Invoices!StatusMoves
    <2>2. \A k \in 1..2 : k + 1 \in 1..3
      OBVIOUS
    <2>3. status' \in [Rows -> Invoices!Statuses]
      BY <1>5, <2>2 DEF InvoicesInv, Invoices!StatusMoves, Invoices!Statuses
    <2>4. QED
      BY <2>1, <2>3 DEF InvoicesInv
  <1>6. ASSUME NEW n \in DOMAIN pages, Invoices!ServePage(n)
        PROVE  InvoicesInv'
    <2> DEFINE a == Invoices!list_invoices(pages[n].request)
    <2>1. a \in InvoicePages
      BY ListsAreTyped DEF InvoicesInv
    <2>2. F!MayAnswer(pages, pages', n, a) /\ n \in 1..MaxPageLoads
      BY <1>1, <1>6, InvoicesFetches DEF Invoices!ServePage
    <2> HIDE DEF a
    <2>3. PICK r \in Fetch(Q, InvoicePages) :
            /\ r # F!NotSent /\ r.request = pages[n].request
            /\ pages' = [pages EXCEPT ![n] = r]
      BY <1>1, <2>1, <2>2, FetchedServe
    <2>4. pages[n] # F!NotSent /\ pages[n].state \in {"sent", "answered", "failed"}
      BY <1>1, <2>1, <2>2, FetchedServe
    <2>5. Fetched(pages', MaxPageLoads, Q, InvoicePages)
      BY <1>1, <2>2, <2>3, <2>4, FetchedChange
    <2>6. Follows(pages', query, answering.number, answering.query = query)
      BY <1>1, <2>2, <2>3, <2>4, FollowsChange
    <2>7. UNCHANGED <<status, query, data, broken, opened, answering>>
      BY <1>6 DEF Invoices!ServePage
    <2>8. QED
      BY <2>5, <2>6, <2>7 DEF InvoicesInv
  <1>7. ASSUME NEW n \in DOMAIN pages, Invoices!PageArrives(n)
        PROVE  InvoicesInv'
    <2>1. /\ pages[n].state = "answered" /\ pages' = [pages EXCEPT ![n] = F!Handled]
          /\ data' = pages[n].answer
          /\ answering' = [number |-> n, query |-> pages[n].request]
          /\ UNCHANGED <<status, query, broken, opened>>
      BY <1>7, InvoicesFetches DEF Invoices!PageArrives
    <2>2. n \in 1..MaxPageLoads /\ pages[n].answer \in InvoicePages /\ pages[n].request \in Q
      BY <1>1, <2>1, Kinds
    <2>3. pages[n] # F!NotSent
      BY <1>1, <2>1, Kinds DEF F!NotSent
    <2>4. Fetched(pages', MaxPageLoads, Q, InvoicePages)
      BY <1>1, <1>2, <2>1, <2>2, <2>3, FetchedChange
    <2>5. Follows(pages', query, n, pages[n].request = query)
      BY <1>1, <2>1, <2>2, FollowsArrive
    <2>6. /\ answering'.number = n /\ answering'.query = pages[n].request
          /\ answering' \in [number : 0..MaxPageLoads, query : Q]
      BY <2>1, <2>2
    <2>7. QED
      BY <2>1, <2>2, <2>4, <2>5, <2>6 DEF InvoicesInv
  <1>8. ASSUME NEW n \in DOMAIN pages, Invoices!PageFails(n)
        PROVE  InvoicesInv'
    <2>1. /\ pages[n].state = "failed" /\ pages' = [pages EXCEPT ![n] = F!Handled]
          /\ broken' = TRUE /\ n \in 1..MaxPageLoads
          /\ UNCHANGED <<status, query, data, opened, answering>>
      BY <1>1, <1>8, InvoicesFetches DEF Invoices!PageFails
    <2>2. pages[n] # F!NotSent
      BY <1>1, <2>1, Kinds DEF F!NotSent
    <2>3. Fetched(pages', MaxPageLoads, Q, InvoicePages)
      BY <1>1, <1>2, <2>1, <2>2, FetchedChange
    <2>4. Follows(pages', query, answering.number, answering.query = query)
      BY <1>1, <1>2, <2>1, <2>2, FollowsChange
    <2>5. QED
      BY <2>1, <2>3, <2>4 DEF InvoicesInv
  <1>9. ASSUME NEW s \in Filters \cup {Invoices!Any}, Invoices!FilterBy(s)
        PROVE  InvoicesInv'
    <2>1. [query EXCEPT !.status = s, !.page = 1] \in Q
      BY <1>3, <1>4 DEF Invoices!InvoicesQuery
    <2>2. QED
      BY <1>9, <2>1, QueryIsFollowed DEF Invoices!FilterBy
  <1>10. CASE Invoices!handleSortChange
    <2>1. /\ [query EXCEPT !.order = IF @ = "asc" THEN "desc" ELSE "asc", !.page = 1] \in Q
          /\ [query EXCEPT !.sort = "total", !.order = "desc", !.page = 1] \in Q
      BY <1>3, <1>4 DEF Invoices!InvoicesQuery
    <2>2. QED
      BY <1>10, <2>1, QueryIsFollowed DEF Invoices!handleSortChange
  <1>11. CASE Invoices!NextPage \/ Invoices!PreviousPage
    <2>1. query.page \in 1..MaxPage /\ MaxPage \in Nat
      BY <1>4, InvoicesAssumption DEF Invoices!InvoicesQuery
    <2>2. [query EXCEPT !.page = @ + 1] = [query EXCEPT !.page = query.page + 1]
            /\ [query EXCEPT !.page = @ - 1] = [query EXCEPT !.page = query.page - 1]
      BY <1>4 DEF Invoices!InvoicesQuery
    <2>3. PICK p \in 1..MaxPage : Invoices!setQuery([query EXCEPT !.page = p])
      <3>1. CASE Invoices!NextPage
        <4>1. query.page + 1 \in 1..MaxPage
          BY <2>1, <3>1 DEF Invoices!NextPage
        <4>2. Invoices!setQuery([query EXCEPT !.page = query.page + 1])
          BY <2>2, <3>1 DEF Invoices!NextPage
        <4>3. QED
          BY <4>1, <4>2
      <3>2. CASE Invoices!PreviousPage
        <4>1. query.page - 1 \in 1..MaxPage
          BY <2>1, <3>2 DEF Invoices!PreviousPage
        <4>2. Invoices!setQuery([query EXCEPT !.page = query.page - 1])
          BY <2>2, <3>2 DEF Invoices!PreviousPage
        <4>3. QED
          BY <4>1, <4>2
      <3>3. QED
        BY <1>11, <3>1, <3>2
    <2>4. [query EXCEPT !.page = p] \in Q
      BY <1>4 DEF Invoices!InvoicesQuery
    <2>5. QED
      BY <2>3, <2>4, QueryIsFollowed
  <1>12. CASE Invoices!Retry
    <2>1. PICK n \in DOMAIN pages :
            F!IsNext(pages, n) /\ pages' = [pages EXCEPT ![n] = F!Sent(query)]
      BY <1>12, InvoicesFetches DEF Invoices!Retry
    <2>2. n \in 1..MaxPageLoads /\ query \in Q
      BY <1>1, <2>1 DEF InvoicesInv
    <2>3. Fetched(pages', MaxPageLoads, Q, InvoicePages)
      BY <1>1, <2>1, <2>2, FetchedSend
    <2>4. Follows(pages', query, answering.number, answering.query = query)
      BY <1>1, <2>1, <2>2, FollowsSend
    <2>5. broken' = FALSE /\ UNCHANGED <<status, query, data, opened, answering>>
      BY <1>12 DEF Invoices!Retry
    <2>6. QED
      BY <2>3, <2>4, <2>5 DEF InvoicesInv
  <1>13. CASE Invoices!OpenListed
    <2>1. /\ opened' \in {"verify", "match"}
          /\ UNCHANGED <<status, query, data, broken, pages, answering>>
      BY <1>13 DEF Invoices!OpenListed, Invoices!handleOpenInvoice
    <2>2. QED
      BY <2>1 DEF InvoicesInv
  <1>14. CASE UNCHANGED invoicesVars
    BY <1>14 DEF invoicesVars, InvoicesInv
  <1>15. QED
    BY <1>5, <1>6, <1>7, <1>8, <1>9, <1>10, <1>11, <1>12, <1>13, <1>14 DEF Invoices!Next

\* The newest request was for the query in the URL, and the list shown is its answer.
LEMMA InvoicesFollowTheUrl == ASSUME InvoicesInv PROVE Invoices!FollowsTheUrl
  <1>1. DOMAIN pages = 1..MaxPageLoads /\ 0 \notin 1..MaxPageLoads
    BY DEF InvoicesInv, Fetched
  <1>2. QED
    BY <1>1, InvoicesFetches
    DEF InvoicesInv, Follows, Newest, Invoices!FollowsTheUrl, Invoices!NotSentAfter

-----------------------------------------------------------------------------
(***************************************************************************)
(* The queue of exceptions                                                 *)
(***************************************************************************)

\* The requests for the list, and what the list answers.
QueueLists ==
  /\ filter \in Exceptions!Statuses
  /\ Fetched(fetches, MaxLists, Exceptions!Statuses, Exceptions!ExceptionCards)
  /\ shown \in [number : 0..MaxLists, filter : Exceptions!Statuses]
  /\ Follows(fetches, filter, shown.number, shown.filter = filter)

\* The cards on the screen, and the selection.
QueueCards ==
  /\ exceptions \in Exceptions!ExceptionCards \cup {Exceptions!NoList}
  /\ errorShown \in BOOLEAN
  /\ selectedIds \subseteq Exceptions!Listable /\ resolvingIds \subseteq Exceptions!Listable
  /\ lastClicked \in 0..Len(Order)
  /\ clicks \in 0..MaxClicks

\* The rows, and the requests that settle them: what is answered as resolved is.
QueueRows ==
  /\ settled \in [Exceptions!Listable -> {"open"} \cup Exceptions!Settled]
  /\ resolves \in [Exceptions!Listable \X Exceptions!Origins
                     -> {"none", "sent", "resolved", "failed"}]
  /\ \A r \in Exceptions!Listable \X Exceptions!Origins :
       resolves[r] = "resolved" => settled[r[1]] = "resolved by me"

\* What the proofs about the queue keep.
ExceptionsInv == QueueLists /\ QueueCards /\ QueueRows

\* The module's own names of the operators on requests.
LEMMA ExceptionsFetches ==
  /\ Exceptions!NotSent = F!NotSent /\ Exceptions!Handled = F!Handled
  /\ \A q : Exceptions!Sent(q) = F!Sent(q)
  /\ \A fs, n : Exceptions!IsNext(fs, n) <=> F!IsNext(fs, n)
  /\ \A fs, gs, n, a : Exceptions!MayAnswer(fs, gs, n, a) <=> F!MayAnswer(fs, gs, n, a)
  /\ \A N, q : /\ Exceptions!FirstSent(N, q) = F!FirstSent(N, q)
               /\ Exceptions!NoneSent(N) = F!NoneSent(N)
  BY DEF Exceptions!NotSent, F!NotSent, Exceptions!Handled, F!Handled, Exceptions!Sent, F!Sent,
         Exceptions!IsNext, F!IsNext, Exceptions!InState, F!InState, Exceptions!MayAnswer,
         F!MayAnswer, Exceptions!Answered, F!Answered, Exceptions!Failed, F!Failed,
         Exceptions!FirstSent, F!FirstSent, Exceptions!NoneSent, F!NoneSent

\* The list has a length, and its cards are in the places up to it.
LEMMA OrderIsFinite == Len(Order) \in Nat /\ DOMAIN Order = 1..Len(Order)
  <1>1. Order \in Seq(Exceptions!Listable)
    BY ExceptionsAssumption
  <1>2. \A S : \A o \in Seq(S) : Len(o) \in Nat /\ DOMAIN o = 1..Len(o)
    OBVIOUS
  <1>3. QED
    BY <1>1, <1>2

\* A visit starts with a request for the open exceptions.
LEMMA ExceptionsInit == ASSUME NEW m \in BOOLEAN, Exceptions!Start(m) PROVE ExceptionsInv
  <1>1. filter \in Exceptions!Statuses /\ MaxLists \in Nat /\ MaxClicks \in Nat
    BY ExceptionsAssumption DEF Exceptions!Start, Exceptions!Statuses
  <1>2. fetches = F!FirstSent(MaxLists, filter) \/ fetches = F!NoneSent(MaxLists)
    BY ExceptionsFetches DEF Exceptions!Start
  <1>3. shown = [number |-> 0, filter |-> filter]
    BY DEF Exceptions!Start
  <1>4. /\ Fetched(fetches, MaxLists, Exceptions!Statuses, Exceptions!ExceptionCards)
        /\ Follows(fetches, filter, shown.number, shown.filter = filter)
    BY <1>1, <1>2, <1>3, FollowsFirst
  <1>5. shown \in [number : 0..MaxLists, filter : Exceptions!Statuses]
    BY <1>1, <1>3
  <1>6. QueueRows
    BY DEF Exceptions!Start, QueueRows
  <1>7. 0 \in 0..Len(Order) /\ 0 \in 0..MaxClicks
    BY <1>1, OrderIsFinite
  <1>8. QueueCards
    BY <1>7 DEF Exceptions!Start, QueueCards
  <1>9. QED
    BY <1>1, <1>4, <1>5, <1>6, <1>8 DEF ExceptionsInv, QueueLists

\* The module's own name of the number of elements.
LEMMA ExceptionsCardinality == \A S : Exceptions!Cardinality(S) = Cardinality(S)
  BY DEF Exceptions!Cardinality, Cardinality

\* A place in the list is at most its length.
LEMMA PlacesExist == ASSUME NEW e PROVE Exceptions!findIndex(e) \in 0..Len(Order)
  <1>1. Len(Order) \in Nat /\ DOMAIN Order = 1..Len(Order)
    BY OrderIsFinite
  <1>2. IsFiniteSet(1..Len(Order)) /\ Cardinality(1..Len(Order)) = Len(Order)
    <2>1. \A N \in Nat : IsFiniteSet(1..N) /\ Cardinality(1..N) = N
      BY FS_Interval
    <2>2. QED
      BY <1>1, <2>1
  <1> DEFINE S == {k \in DOMAIN Order :
                     Order[k] \in exceptions /\ \E l \in DOMAIN Order : Order[l] = e /\ k <= l}
  <1>3. S \subseteq 1..Len(Order)
    BY <1>1
  <1>4. Exceptions!findIndex(e) = Cardinality(S)
    BY ExceptionsCardinality DEF Exceptions!findIndex
  <1> HIDE DEF S
  <1>5. Cardinality(S) \in Nat /\ Cardinality(S) <= Len(Order)
    BY <1>2, <1>3, FS_Subset, FS_CardinalityType
  <1>6. QED
    BY <1>1, <1>4, <1>5

\* Whatever is asked of the server, it is the newest request.
LEMMA LoadIsFollowed ==
  ASSUME QueueLists, NEW q \in Exceptions!Statuses, Exceptions!Load(q), filter' = q,
         shown' = shown
  PROVE  QueueLists'
  <1>1. MaxLists \in Nat
    BY ExceptionsAssumption
  <1>2. PICK n \in DOMAIN fetches :
          F!IsNext(fetches, n) /\ fetches' = [fetches EXCEPT ![n] = F!Sent(q)]
    BY ExceptionsFetches DEF Exceptions!Load
  <1>3. n \in 1..MaxLists
    BY <1>2 DEF QueueLists, Fetched
  <1>4. Fetched(fetches', MaxLists, Exceptions!Statuses, Exceptions!ExceptionCards)
    BY <1>1, <1>2, <1>3, FetchedSend DEF QueueLists
  <1>5. Follows(fetches', q, shown.number, shown.filter = q)
    BY <1>1, <1>2, <1>3, FollowsSend DEF QueueLists
  <1>6. QED
    BY <1>4, <1>5 DEF QueueLists

\* The requests for the list, at every step of them.
LEMMA QueueListsStep ==
  ASSUME QueueLists, NEW n \in DOMAIN fetches,
         Exceptions!ServeFetch(n) \/ Exceptions!FetchArrives(n) \/ Exceptions!FetchFails(n)
  PROVE  /\ QueueLists'
         /\ fetches' # fetches
         /\ exceptions' \in Exceptions!ExceptionCards \/ exceptions' = exceptions
  <1> DEFINE Q == Exceptions!Statuses
             A == Exceptions!ExceptionCards
  <1>1. /\ MaxLists \in Nat /\ n \in 1..MaxLists
        /\ fetches \in [1..MaxLists -> Fetch(Q, A)]
        /\ Fetched(fetches, MaxLists, Q, A)
        /\ Follows(fetches, filter, shown.number, shown.filter = filter)
    BY ExceptionsAssumption DEF QueueLists, Fetched
  <1>2. F!Handled \in Fetch(Q, A) /\ F!Handled # F!NotSent /\ F!Handled.state = "handled"
    BY DEF Fetch, F!Handled, F!NotSent
  <1>3. CASE Exceptions!ServeFetch(n)
    <2> DEFINE a == Exceptions!list_exceptions(fetches[n].request)
    <2>1. a \in A
      BY DEF Exceptions!list_exceptions, Exceptions!ExceptionCards
    <2>2. F!MayAnswer(fetches, fetches', n, a)
      BY <1>3, ExceptionsFetches DEF Exceptions!ServeFetch
    <2> HIDE DEF a
    <2>3. PICK r \in Fetch(Q, A) :
            /\ r # F!NotSent /\ r.request = fetches[n].request
            /\ r.state \in {"answered", "failed"}
            /\ fetches' = [fetches EXCEPT ![n] = r]
      BY <1>1, <2>1, <2>2, FetchedServe
    <2>4. fetches[n] # F!NotSent /\ fetches[n].state = "sent"
      BY <1>1, <2>1, <2>2, FetchedServe
    <2>5. Fetched(fetches', MaxLists, Q, A)
      BY <1>1, <2>3, <2>4, FetchedChange
    <2>6. Follows(fetches', filter, shown.number, shown.filter = filter)
      BY <1>1, <2>3, <2>4, FollowsChange
    <2>7. UNCHANGED <<filter, exceptions, shown>>
      BY <1>3 DEF Exceptions!ServeFetch, Exceptions!pageVars
    <2>8. fetches' # fetches
      BY <1>1, <2>3, <2>4
    <2>9. QED
      BY <2>5, <2>6, <2>7, <2>8 DEF QueueLists
  <1>4. CASE Exceptions!FetchArrives(n)
    <2>1. /\ fetches[n].state = "answered" /\ fetches' = [fetches EXCEPT ![n] = F!Handled]
          /\ exceptions' = fetches[n].answer
          /\ shown' = [number |-> n, filter |-> fetches[n].request]
          /\ filter' = filter
      BY <1>4, ExceptionsFetches DEF Exceptions!FetchArrives
    <2>2. fetches[n].answer \in A /\ fetches[n].request \in Q
      BY <1>1, <2>1, Kinds
    <2>3. fetches[n] # F!NotSent
      BY <1>1, <2>1, Kinds DEF F!NotSent
    <2>4. Fetched(fetches', MaxLists, Q, A)
      BY <1>1, <1>2, <2>1, <2>3, FetchedChange
    <2>5. Follows(fetches', filter, n, fetches[n].request = filter)
      BY <1>1, <2>1, FollowsArrive
    <2>6. /\ shown'.number = n /\ shown'.filter = fetches[n].request
          /\ shown' \in [number : 0..MaxLists, filter : Q]
      BY <1>1, <2>1, <2>2
    <2>7. fetches' # fetches
      BY <1>1, <1>2, <2>1
    <2>8. QED
      BY <2>1, <2>2, <2>4, <2>5, <2>6, <2>7 DEF QueueLists
  <1>5. CASE Exceptions!FetchFails(n)
    <2>1. /\ fetches[n].state = "failed" /\ fetches' = [fetches EXCEPT ![n] = F!Handled]
          /\ UNCHANGED <<filter, exceptions, shown>>
      BY <1>5, ExceptionsFetches DEF Exceptions!FetchFails
    <2>2. fetches[n] # F!NotSent
      BY <1>1, <2>1, Kinds DEF F!NotSent
    <2>3. Fetched(fetches', MaxLists, Q, A)
      BY <1>1, <1>2, <2>1, <2>2, FetchedChange
    <2>4. Follows(fetches', filter, shown.number, shown.filter = filter)
      BY <1>1, <1>2, <2>1, <2>2, FollowsChange
    <2>5. fetches' # fetches
      BY <1>1, <1>2, <2>1
    <2>6. QED
      BY <2>1, <2>3, <2>4, <2>5 DEF QueueLists
  <1>6. QED
    BY <1>3, <1>4, <1>5

\* What a step of the queue may do to the rows and to the list: rows are settled once, and
\* without a new list only a card leaves that this clerk has resolved.
QueueStep ==
  /\ \A e \in Exceptions!Listable : settled[e] # "open" => settled'[e] = settled[e]
  /\ fetches' = fetches =>
       \A e \in Exceptions!Listed(exceptions) \ Exceptions!Listed(exceptions') :
          settled[e] = "resolved by me"

\* The cards, the selection and the rows, at every other step.
LEMMA QueueRest ==
  ASSUME ExceptionsInv,
         \/ \E e \in Exceptions!Listable :
              Exceptions!SettleElsewhere(e) \/ Exceptions!ClickResolve(e)
         \/ \E r \in DOMAIN resolves : \/ Exceptions!ServeResolve(r) \/ Exceptions!Resolved(r)
                                       \/ Exceptions!ResolveFails(r)
         \/ Exceptions!ClearSelection \/ Exceptions!handleResolveSelected
         \/ \E e \in Exceptions!Listable, shift \in BOOLEAN :
              Exceptions!handleToggleSelect(e, shift)
  PROVE  /\ UNCHANGED <<filter, fetches, shown>>
         /\ QueueCards' /\ QueueRows' /\ QueueStep
  <1> DEFINE L == Exceptions!Listable
             R == L \X Exceptions!Origins
  <1>1. /\ exceptions \in (SUBSET L) \cup {{"no list"}} /\ errorShown \in BOOLEAN
        /\ selectedIds \subseteq L /\ resolvingIds \subseteq L
        /\ lastClicked \in 0..Len(Order) /\ clicks \in 0..MaxClicks
        /\ "no list" \notin L /\ MaxClicks \in Nat
    BY ExceptionsAssumption DEF ExceptionsInv, QueueCards, Exceptions!ExceptionCards,
       Exceptions!NoList
  <1>2. /\ settled \in [L -> {"open"} \cup Exceptions!Settled]
        /\ resolves \in [R -> {"none", "sent", "resolved", "failed"}]
        /\ \A r \in R : resolves[r] = "resolved" => settled[r[1]] = "resolved by me"
        /\ {"resolved by me", "settled by others"} = Exceptions!Settled
        /\ \A r \in R : r[1] \in L
    BY DEF ExceptionsInv, QueueRows, Exceptions!Settled
  <1>3. Exceptions!Click => clicks' \in 0..MaxClicks
    <2>1. MaxClicks \in Nat /\ clicks \in 0..MaxClicks
      BY <1>1
    <2>2. \A k \in 0..MaxClicks : k < MaxClicks => k + 1 \in 0..MaxClicks
      BY ONLY <2>1
    <2>3. QED
      BY <2>1, <2>2 DEF Exceptions!Click
  <1>4. ASSUME NEW e \in L, Exceptions!SettleElsewhere(e)
        PROVE  UNCHANGED <<filter, fetches, shown>> /\ QueueCards' /\ QueueRows' /\ QueueStep
    <2>1. /\ settled[e] = "open" /\ settled' = [settled EXCEPT ![e] = "settled by others"]
          /\ UNCHANGED <<filter, fetches, shown, exceptions, errorShown, selectedIds,
                         resolvingIds, lastClicked, clicks, resolves>>
      BY <1>4 DEF Exceptions!SettleElsewhere, Exceptions!pageVars
    <2>2. QueueCards'
      BY <2>1 DEF ExceptionsInv, QueueCards
    <2>3. QueueRows'
      BY <1>2, <2>1 DEF QueueRows
    <2>4. QueueStep
      BY <1>2, <2>1 DEF QueueStep
    <2>5. QED
      BY <2>1, <2>2, <2>3, <2>4
  <1>5. ASSUME NEW e \in L, Exceptions!ClickResolve(e)
        PROVE  UNCHANGED <<filter, fetches, shown>> /\ QueueCards' /\ QueueRows' /\ QueueStep
    <2>1. /\ resolvingIds' = resolvingIds \cup {e}
          /\ resolves' = [resolves EXCEPT ![<<e, "card">>] = "sent"]
          /\ UNCHANGED <<filter, fetches, shown, exceptions, errorShown, selectedIds,
                         lastClicked, settled>>
          /\ Exceptions!Click
      BY <1>5 DEF Exceptions!ClickResolve
    <2>2. QueueCards'
      BY <1>3, <2>1 DEF ExceptionsInv, QueueCards
    <2>3. QueueRows'
      BY <1>2, <2>1 DEF QueueRows
    <2>4. QueueStep
      BY <2>1 DEF QueueStep
    <2>5. QED
      BY <2>1, <2>2, <2>3, <2>4
  <1>6. ASSUME NEW r \in DOMAIN resolves, Exceptions!ServeResolve(r)
        PROVE  UNCHANGED <<filter, fetches, shown>> /\ QueueCards' /\ QueueRows' /\ QueueStep
    <2>1. /\ UNCHANGED <<filter, fetches, shown, exceptions, errorShown, selectedIds,
                         resolvingIds, lastClicked, clicks>>
          /\ r \in R
      BY <1>2, <1>6 DEF Exceptions!ServeResolve, Exceptions!pageVars
    <2>2. QueueCards'
      BY <2>1 DEF ExceptionsInv, QueueCards
    <2>3. CASE /\ Exceptions!resolve_exception(r[1], "resolved by me")
               /\ resolves' \in {[resolves EXCEPT ![r] = s] : s \in {"resolved", "failed"}}
      <3>1. settled[r[1]] = "open" /\ settled' = [settled EXCEPT ![r[1]] = "resolved by me"]
        BY <2>3 DEF Exceptions!resolve_exception
      <3>2. /\ settled' \in [L -> {"open"} \cup Exceptions!Settled]
            /\ settled'[r[1]] = "resolved by me"
            /\ \A e \in L : settled[e] # "open" => settled'[e] = settled[e]
        BY <1>2, <2>1, <3>1
      <3>3. /\ resolves' \in [R -> {"none", "sent", "resolved", "failed"}]
            /\ \A s \in R : s # r => resolves'[s] = resolves[s]
        BY <1>2, <2>1, <2>3
      <3>4. \A s \in R : resolves'[s] = "resolved" => settled'[s[1]] = "resolved by me"
        BY <1>2, <3>1, <3>2, <3>3
      <3>5. QED
        BY <2>1, <2>2, <3>2, <3>3, <3>4 DEF QueueRows, QueueStep
    <2>4. CASE resolves' = [resolves EXCEPT ![r] = "failed"] /\ UNCHANGED settled
      <3>1. QueueRows'
        BY <1>2, <2>1, <2>4 DEF QueueRows
      <3>2. QED
        BY <2>1, <2>2, <2>4, <3>1 DEF QueueStep
    <2>5. QED
      BY <1>6, <2>3, <2>4 DEF Exceptions!ServeResolve
  <1>7. ASSUME NEW r \in DOMAIN resolves, Exceptions!Resolved(r)
        PROVE  UNCHANGED <<filter, fetches, shown>> /\ QueueCards' /\ QueueRows' /\ QueueStep
    <2>1. /\ resolves[r] = "resolved" /\ exceptions' = exceptions \ {r[1]}
          /\ selectedIds' = selectedIds \ {r[1]} /\ resolvingIds' = resolvingIds \ {r[1]}
          /\ resolves' = [resolves EXCEPT ![r] = "none"]
          /\ UNCHANGED <<filter, fetches, shown, errorShown, lastClicked, clicks, settled>>
          /\ r \in R /\ r[1] \in L
      BY <1>2, <1>7 DEF Exceptions!Resolved, Exceptions!Finish
    <2>2. exceptions' \in (SUBSET L) \cup {{"no list"}}
      BY <1>1, <2>1
    <2>3. QueueCards'
      BY <1>1, <2>1, <2>2 DEF QueueCards, Exceptions!ExceptionCards, Exceptions!NoList
    <2>4. QueueRows'
      BY <1>2, <2>1 DEF QueueRows
    <2>5. settled[r[1]] = "resolved by me"
      BY <1>2, <2>1
    <2>6. \A e \in Exceptions!Listed(exceptions) \ Exceptions!Listed(exceptions') : e = r[1]
      BY <1>1, <2>1 DEF Exceptions!Listed, Exceptions!NoList
    <2>7. QueueStep
      BY <2>1, <2>5, <2>6 DEF QueueStep
    <2>8. QED
      BY <2>1, <2>3, <2>4, <2>7
  <1>8. ASSUME NEW r \in DOMAIN resolves, Exceptions!ResolveFails(r)
        PROVE  UNCHANGED <<filter, fetches, shown>> /\ QueueCards' /\ QueueRows' /\ QueueStep
    <2>1. /\ errorShown' = TRUE /\ resolvingIds' = resolvingIds \ {r[1]}
          /\ resolves' = [resolves EXCEPT ![r] = "none"]
          /\ UNCHANGED <<filter, fetches, shown, exceptions, selectedIds, lastClicked, clicks,
                         settled>>
          /\ r \in R
      BY <1>2, <1>8 DEF Exceptions!ResolveFails, Exceptions!Finish
    <2>2. QueueCards'
      BY <2>1 DEF ExceptionsInv, QueueCards
    <2>3. QueueRows'
      BY <1>2, <2>1 DEF QueueRows
    <2>4. QED
      BY <2>1, <2>2, <2>3 DEF QueueStep
  <1>9. CASE Exceptions!ClearSelection
    <2>1. /\ selectedIds' = {} /\ Exceptions!Click
          /\ UNCHANGED <<filter, fetches, shown, exceptions, errorShown, resolvingIds,
                         lastClicked, settled, resolves>>
      BY <1>9 DEF Exceptions!ClearSelection
    <2>2. QueueCards'
      BY <1>3, <2>1 DEF ExceptionsInv, QueueCards
    <2>3. QueueRows'
      BY <2>1 DEF ExceptionsInv, QueueRows
    <2>4. QED
      BY <2>1, <2>2, <2>3 DEF QueueStep
  <1>10. CASE Exceptions!handleResolveSelected
    <2>1. /\ resolvingIds' = resolvingIds \cup selectedIds /\ Exceptions!Click
          /\ resolves' = [r \in R |-> IF r[1] \in selectedIds /\ r[2] = "bulk" THEN "sent"
                                      ELSE resolves[r]]
          /\ UNCHANGED <<filter, fetches, shown, exceptions, errorShown, selectedIds,
                         lastClicked, settled>>
      BY <1>2, <1>10 DEF Exceptions!handleResolveSelected
    <2>2. QueueCards'
      BY <1>3, <2>1 DEF ExceptionsInv, QueueCards
    <2>3. QueueRows'
      BY <1>2, <2>1 DEF QueueRows
    <2>4. QED
      BY <2>1, <2>2, <2>3 DEF QueueStep
  <1>11. ASSUME NEW e \in L, NEW shift \in BOOLEAN, Exceptions!handleToggleSelect(e, shift)
         PROVE  UNCHANGED <<filter, fetches, shown>> /\ QueueCards' /\ QueueRows' /\ QueueStep
    <2>1. /\ lastClicked' = Exceptions!findIndex(e) /\ Exceptions!Click
          /\ e \in Exceptions!ExceptionsGrid
          /\ UNCHANGED <<filter, fetches, shown, exceptions, errorShown, resolvingIds,
                         settled, resolves>>
      BY <1>11 DEF Exceptions!handleToggleSelect
    <2>2. exceptions \in SUBSET L
      BY <1>1, <2>1 DEF Exceptions!ExceptionsGrid, Exceptions!Listed, Exceptions!NoList
    <2>3. \A k, l : Exceptions!Between(k, l) \subseteq L
      BY <2>2 DEF Exceptions!Between
    <2>4. selectedIds' \subseteq L
      <3>1. CASE \E l : selectedIds' =
                          selectedIds \cup Exceptions!Between(Exceptions!findIndex(e), l)
        BY <1>1, <2>3, <3>1
      <3>2. CASE selectedIds' = selectedIds \ {e} \/ selectedIds' = selectedIds \cup {e}
        BY <1>1, <3>2
      <3>3. QED
        BY <1>11, <3>1, <3>2 DEF Exceptions!handleToggleSelect
    <2>5. lastClicked' \in 0..Len(Order)
      BY <2>1, PlacesExist
    <2>6. QueueCards'
      BY <1>3, <2>1, <2>4, <2>5 DEF ExceptionsInv, QueueCards
    <2>7. QueueRows'
      BY <2>1 DEF ExceptionsInv, QueueRows
    <2>8. QED
      BY <2>1, <2>6, <2>7 DEF QueueStep
  <1>12. QED
    BY <1>4, <1>5, <1>6, <1>7, <1>8, <1>9, <1>10, <1>11

\* The queue keeps its invariant, and a step does to rows and cards only what it may.
LEMMA ExceptionsStep ==
  ASSUME ExceptionsInv, Exceptions!Next \/ UNCHANGED exceptionsVars
  PROVE  ExceptionsInv' /\ QueueStep
  <1>1. ASSUME NEW n \in DOMAIN fetches,
               Exceptions!ServeFetch(n) \/ Exceptions!FetchArrives(n) \/ Exceptions!FetchFails(n)
        PROVE  ExceptionsInv' /\ QueueStep
    <2>1. QueueLists' /\ fetches' # fetches
      BY <1>1, QueueListsStep DEF ExceptionsInv
    <2>2. /\ UNCHANGED <<settled, selectedIds, resolvingIds, lastClicked, resolves, clicks>>
          /\ errorShown' = TRUE \/ errorShown' = errorShown
      BY <1>1 DEF Exceptions!ServeFetch, Exceptions!FetchArrives, Exceptions!FetchFails,
         Exceptions!pageVars
    <2>3. exceptions' \in Exceptions!ExceptionCards \/ exceptions' = exceptions
      BY <1>1, QueueListsStep DEF ExceptionsInv
    <2>4. QueueRows'
      BY <2>2 DEF ExceptionsInv, QueueRows
    <2>5. QueueCards'
      BY <2>2, <2>3 DEF ExceptionsInv, QueueCards
    <2>6. QED
      BY <2>1, <2>2, <2>4, <2>5 DEF ExceptionsInv, QueueStep
  <1>2. ASSUME NEW s \in Exceptions!Statuses, Exceptions!setFilter(s)
        PROVE  ExceptionsInv' /\ QueueStep
    <2>1. /\ filter' = s /\ Exceptions!Load(s)
          /\ UNCHANGED <<settled, exceptions, errorShown, selectedIds, resolvingIds,
                         lastClicked, resolves, clicks, shown>>
      BY <1>2 DEF Exceptions!setFilter
    <2>2. QueueLists'
      BY <2>1, LoadIsFollowed DEF ExceptionsInv
    <2>3. QueueRows' /\ QueueCards'
      BY <2>1 DEF ExceptionsInv, QueueRows, QueueCards
    <2>4. QED
      BY <2>1, <2>2, <2>3 DEF ExceptionsInv, QueueStep
  <1>3. CASE Exceptions!Retry
    <2>1. /\ errorShown' = FALSE /\ Exceptions!Load(filter)
          /\ UNCHANGED <<settled, filter, exceptions, selectedIds, resolvingIds,
                         lastClicked, resolves, clicks, shown>>
      BY <1>3 DEF Exceptions!Retry
    <2>2. QueueLists'
      BY <2>1, LoadIsFollowed DEF ExceptionsInv, QueueLists
    <2>3. QueueRows' /\ QueueCards'
      BY <2>1 DEF ExceptionsInv, QueueRows, QueueCards
    <2>4. QED
      BY <2>1, <2>2, <2>3 DEF ExceptionsInv, QueueStep
  <1>4. CASE UNCHANGED exceptionsVars
    <2>1. QueueLists' /\ QueueCards' /\ QueueRows'
      BY <1>4 DEF exceptionsVars, ExceptionsInv, QueueLists, QueueCards, QueueRows
    <2>2. QED
      BY <1>4, <2>1 DEF exceptionsVars, ExceptionsInv, QueueStep
  <1>5. ASSUME UNCHANGED <<filter, fetches, shown>>, QueueCards', QueueRows'
        PROVE  ExceptionsInv'
    BY <1>5 DEF ExceptionsInv, QueueLists
  <1>6. QED
    BY <1>1, <1>2, <1>3, <1>4, <1>5, QueueRest DEF Exceptions!Next

\* The types, and the filter of the list, from the invariant.
LEMMA ExceptionsHold ==
  ASSUME ExceptionsInv PROVE Exceptions!TypeOK /\ Exceptions!FollowsTheUrl
  <1>1. DOMAIN fetches = 1..MaxLists /\ 0 \notin 1..MaxLists
    BY DEF ExceptionsInv, QueueLists, Fetched
  <1>2. Exceptions!FollowsTheUrl
    BY <1>1, ExceptionsFetches
    DEF ExceptionsInv, QueueLists, Follows, Newest, Exceptions!FollowsTheUrl,
        Exceptions!NotSentAfter
  <1>3. \A n \in Exceptions!InState(fetches, "answered") :
          fetches[n].answer \in Exceptions!ExceptionCards
    BY <1>1, Kinds DEF ExceptionsInv, QueueLists, Fetched, Exceptions!InState
  <1>4. QED
    BY <1>2, <1>3 DEF ExceptionsInv, QueueLists, QueueCards, QueueRows, Exceptions!TypeOK

-----------------------------------------------------------------------------
(***************************************************************************)
(* The analytics page                                                      *)
(***************************************************************************)

\* Batch b is the newest of those in use.
NewestBatch(b) ==
  ended[b] # "unused" /\ \A c \in Analytics!Batches : c > b => ended[c] = "unused"

\* The batches are used in their order; the newest one is of the period in the Select, and
\* once its end was seen the page shows something; and numbers are those of a batch.
AnalyticsInv ==
  /\ Analytics!TypeOK
  /\ \A b, c \in Analytics!Batches : c > b /\ ended[b] = "unused" => ended[c] = "unused"
  /\ ended[1] # "unused" => \E b \in Analytics!Batches : NewestBatch(b)
  /\ \A b \in Analytics!Batches :
       /\ NewestBatch(b) => period[b] = days
       /\ NewestBatch(b) /\ ended[b] = "seen" => Analytics!Page # "loading"
  /\ loaded # Analytics!Loading =>
       ended[loaded.batch] # "unused" /\ loaded.days = period[loaded.batch]

\* Facts about the numbers of batches.
LEMMA BatchNumbers ==
  /\ MaxBatches \in Nat /\ 1 \in Analytics!Batches
  /\ Analytics!Batches = 1..MaxBatches
  /\ \A b \in Analytics!Batches : ~(1 > b)
  /\ \A b, c \in Analytics!Batches : (b > c \/ c > b \/ b = c) /\ ~(b > c /\ c > b) /\ ~(b > b)
  /\ \A b, c \in Analytics!Batches : c > b => b \in 1..(c - 1)
  /\ Analytics!Loading \notin Analytics!Loaded
  <1>1. MaxBatches \in Nat /\ MaxBatches # 0 /\ Analytics!Batches = 1..MaxBatches
    BY AnalyticsAssumption DEF Analytics!Batches
  <1>2. Analytics!Loading \notin Analytics!Loaded
    <2>1. 0 \notin 1..MaxBatches /\ Analytics!Loading.batch = 0
      BY <1>1 DEF Analytics!Loading
    <2>2. QED
      BY <1>1, <2>1 DEF Analytics!Loaded
  <1>3. 1 \in 1..MaxBatches
    BY <1>1
  <1>4. \A b \in 1..MaxBatches : ~(1 > b)
    OBVIOUS
  <1>5. /\ \A b, c \in 1..MaxBatches : (b > c \/ c > b \/ b = c) /\ ~(b > c /\ c > b) /\ ~(b > b)
        /\ \A b, c \in 1..MaxBatches : c > b => b \in 1..(c - 1)
    OBVIOUS
  <1>6. QED
    BY <1>1, <1>2, <1>3, <1>4, <1>5

\* A visit starts with one batch, of the default period.
LEMMA AnalyticsInit == ASSUME NEW m \in BOOLEAN, Analytics!Start(m) PROVE AnalyticsInv
  <1> DEFINE B == Analytics!Batches
  <1>1. /\ days = Default /\ loaded = Analytics!Loading /\ problem = FALSE
        /\ period = [b \in B |-> Default]
        /\ waiting = [b \in B |-> IF m /\ b = 1 THEN Analytics!Requests ELSE {}]
        /\ ended = [b \in B |-> IF m /\ b = 1 THEN "pending" ELSE "unused"]
    BY DEF Analytics!Start
  <1>2. Analytics!TypeOK
    BY <1>1, AnalyticsAssumption DEF Analytics!TypeOK
  <1>3. /\ 1 \in B
        /\ \A b \in B : ~(1 > b)
        /\ \A b, c \in B : (b > c \/ c > b \/ b = c)
    BY BatchNumbers
  <1>4. \A b \in B : ended[b] # "unused" => b = 1 /\ ended[1] = "pending"
    BY <1>1, <1>3
  <1>5. ended[1] # "unused" => NewestBatch(1)
    <2>1. \A c \in B : c > 1 => c # 1
      BY <1>3
    <2>2. QED
      BY <1>4, <2>1 DEF NewestBatch
  <1>6. \A b, c \in B : c > b /\ ended[b] = "unused" => ended[c] = "unused"
    BY <1>1, <1>3
  <1>7. QED
    BY <1>1, <1>2, <1>3, <1>4, <1>5, <1>6 DEF AnalyticsInv, NewestBatch

\* A new load is of the period it was sent for, and the page shows that it waits.
LEMMA AnalyticsLoad ==
  ASSUME AnalyticsInv, NEW d \in Periods, Analytics!Load(d), days' = d
  PROVE  AnalyticsInv'
  <1> DEFINE B == Analytics!Batches
  <1>1. PICK b \in B :
          /\ ended[b] = "unused" /\ \A c \in 1..(b - 1) : ended[c] # "unused"
          /\ ended' = [ended EXCEPT ![b] = "pending"]
          /\ period' = [period EXCEPT ![b] = d]
          /\ waiting' = [waiting EXCEPT ![b] = Analytics!Requests]
    BY DEF Analytics!Load
  <1>2. problem' = FALSE /\ loaded' = Analytics!Loading
    BY DEF Analytics!Load
  <1>3. Analytics!TypeOK'
    BY <1>1, <1>2 DEF AnalyticsInv, Analytics!TypeOK
  <1>4. /\ ended'[b] = "pending" /\ period'[b] = d
        /\ \A c \in B : c # b => ended'[c] = ended[c]
    BY <1>1 DEF AnalyticsInv, Analytics!TypeOK
  <1>5. \A c \in B : b > c => ended[c] # "unused"
    BY <1>1, BatchNumbers
  <1>6. \A c \in B : c > b => ended[c] = "unused"
    BY <1>1 DEF AnalyticsInv
  <1>7. \A c \in B : (b > c \/ c > b \/ b = c) /\ ~(b > b)
    BY BatchNumbers
  <1>8. NewestBatch(b)'
    BY <1>4, <1>6, <1>7 DEF NewestBatch
  <1>9. ASSUME NEW c \in B, NewestBatch(c)'
        PROVE  c = b
    <2>1. ~(b > c)
      BY <1>4, <1>9 DEF NewestBatch
    <2>2. ~(c > b)
      BY <1>4, <1>6, <1>7, <1>9 DEF NewestBatch
    <2>3. QED
      BY <1>7, <2>1, <2>2
  <1>10. ASSUME NEW x \in B, NEW c \in B, c > x, ended'[x] = "unused"
         PROVE  ended'[c] = "unused"
    <2>1. x # b /\ ended[x] = "unused"
      BY <1>4, <1>10
    <2>2. x > b
      BY <1>5, <1>7, <2>1
    <2>3. c # b
      BY <1>10, <2>2, BatchNumbers
    <2>4. ended[c] = "unused"
      BY <1>10, <2>1 DEF AnalyticsInv
    <2>5. QED
      BY <1>4, <2>3, <2>4
  <1>11. QED
    <2>1. \E c \in B : NewestBatch(c)'
      BY <1>8
    <2>2. \A c \in B : NewestBatch(c)' => period'[c] = days' /\ ended'[c] # "seen"
      BY <1>4, <1>9
    <2>3. QED
      BY <1>2, <1>3, <1>10, <2>1, <2>2 DEF AnalyticsInv

\* What the other steps keep: they use no batch.
LEMMA AnalyticsKept ==
  ASSUME AnalyticsInv, Analytics!TypeOK', UNCHANGED <<days, period>>,
         \A b \in Analytics!Batches : ended'[b] = "unused" <=> ended[b] = "unused",
         \A b \in Analytics!Batches :
           ended'[b] = "seen" => ended[b] = "seen" \/ Analytics!Page' # "loading",
         Analytics!Page # "loading" => Analytics!Page' # "loading",
         \/ loaded' = loaded
         \/ \E b \in Analytics!Batches :
              ended[b] # "unused" /\ loaded' = [batch |-> b, days |-> period[b]]
  PROVE  AnalyticsInv'
  <1> DEFINE B == Analytics!Batches
  <1>1. 1 \in B
    BY BatchNumbers
  <1>2. \A b \in B : NewestBatch(b)' <=> NewestBatch(b)
    BY DEF NewestBatch
  <1>3. loaded' # Analytics!Loading =>
          ended'[loaded'.batch] # "unused" /\ loaded'.days = period'[loaded'.batch]
    <2>1. CASE loaded' = loaded
      <3>1. loaded # Analytics!Loading => loaded.batch \in B
        BY DEF AnalyticsInv, Analytics!TypeOK, Analytics!Loaded
      <3>2. QED
        BY <2>1, <3>1 DEF AnalyticsInv
    <2>2. ASSUME NEW b \in B, ended[b] # "unused", loaded' = [batch |-> b, days |-> period[b]]
          PROVE  ended'[loaded'.batch] # "unused" /\ loaded'.days = period'[loaded'.batch]
      BY <2>2
    <2>3. QED
      BY <2>1, <2>2
  <1>4. ended'[1] # "unused" => \E b \in B : NewestBatch(b)'
    BY <1>1, <1>2 DEF AnalyticsInv
  <1>5. \A b \in B : /\ NewestBatch(b)' => period'[b] = days'
                     /\ NewestBatch(b)' /\ ended'[b] = "seen" => Analytics!Page' # "loading"
    BY <1>2 DEF AnalyticsInv
  <1>6. \A b, c \in B : c > b /\ ended'[b] = "unused" => ended'[c] = "unused"
    BY DEF AnalyticsInv
  <1>7. QED
    BY <1>3, <1>4, <1>5, <1>6 DEF AnalyticsInv

\* A batch ends once; only the newest one is of the period in the Select for sure.
LEMMA AnalyticsStep ==
  ASSUME AnalyticsInv, Analytics!Next \/ UNCHANGED analyticsVars
  PROVE  AnalyticsInv'
  <1> DEFINE B == Analytics!Batches
  <1>1. Analytics!TypeOK
    BY DEF AnalyticsInv
  <1>2. ASSUME NEW d \in Periods, Analytics!setDays(d)
        PROVE  AnalyticsInv'
    BY <1>2, AnalyticsLoad DEF Analytics!setDays
  <1>3. CASE Analytics!Retry
    BY <1>1, <1>3, AnalyticsLoad DEF Analytics!Retry, Analytics!TypeOK
  <1>4. ASSUME NEW b \in B, NEW request \in Analytics!Requests, Analytics!Answer(b, request)
        PROVE  AnalyticsInv'
    <2>1. /\ UNCHANGED <<days, loaded, problem, period>>
          /\ waiting' = [waiting EXCEPT ![b] = waiting[b] \ {request}]
          /\ \/ ended' = ended
             \/ ended[b] = "pending" /\ ended' = [ended EXCEPT ![b] = "resolved"]
      BY <1>1, <1>4 DEF Analytics!Answer, Analytics!TypeOK
    <2>2. Analytics!TypeOK'
      BY <1>1, <2>1 DEF Analytics!TypeOK
    <2>3. Analytics!Page' = Analytics!Page
      BY <2>1 DEF Analytics!Page
    <2>4. \A c \in B : /\ ended'[c] = "unused" <=> ended[c] = "unused"
                       /\ ended'[c] = "seen" => ended[c] = "seen"
      BY <1>1, <2>1 DEF Analytics!TypeOK
    <2>5. QED
      BY <2>1, <2>2, <2>3, <2>4, AnalyticsKept
  <1>5. ASSUME NEW b \in B, NEW request \in Analytics!Requests, Analytics!Fail(b, request)
        PROVE  AnalyticsInv'
    <2>1. /\ UNCHANGED <<days, loaded, problem, period>>
          /\ waiting' = [waiting EXCEPT ![b] = {}]
          /\ ended[b] = "pending" /\ ended' = [ended EXCEPT ![b] = "rejected"]
      BY <1>5 DEF Analytics!Fail
    <2>2. Analytics!TypeOK'
      BY <1>1, <2>1 DEF Analytics!TypeOK
    <2>3. Analytics!Page' = Analytics!Page
      BY <2>1 DEF Analytics!Page
    <2>4. \A c \in B : /\ ended'[c] = "unused" <=> ended[c] = "unused"
                       /\ ended'[c] = "seen" => ended[c] = "seen"
      BY <1>1, <2>1 DEF Analytics!TypeOK
    <2>5. QED
      BY <2>1, <2>2, <2>3, <2>4, AnalyticsKept
  <1>6. ASSUME NEW b \in B, Analytics!Arrives(b)
        PROVE  AnalyticsInv'
    <2>1. /\ UNCHANGED <<days, problem, period, waiting>>
          /\ ended[b] = "resolved" /\ ended' = [ended EXCEPT ![b] = "seen"]
          /\ loaded' = [batch |-> b, days |-> period[b]]
      BY <1>6 DEF Analytics!Arrives
    <2>2. loaded' \in Analytics!Loaded
      BY <1>1, <2>1 DEF Analytics!TypeOK, Analytics!Loaded
    <2>3. Analytics!TypeOK'
      BY <1>1, <2>1, <2>2 DEF Analytics!TypeOK
    <2>4. Analytics!Page' # "loading"
      BY <2>1, <2>2, BatchNumbers DEF Analytics!Page
    <2>5. \A c \in B : ended'[c] = "unused" <=> ended[c] = "unused"
      BY <1>1, <2>1 DEF Analytics!TypeOK
    <2>6. QED
      BY <2>1, <2>3, <2>4, <2>5, AnalyticsKept
  <1>7. ASSUME NEW b \in B, Analytics!Fails(b)
        PROVE  AnalyticsInv'
    <2>1. /\ UNCHANGED <<days, loaded, period, waiting>>
          /\ ended[b] = "rejected" /\ ended' = [ended EXCEPT ![b] = "seen"]
          /\ problem' = TRUE
      BY <1>7 DEF Analytics!Fails
    <2>2. Analytics!TypeOK'
      BY <1>1, <2>1 DEF Analytics!TypeOK
    <2>3. Analytics!Page' # "loading"
      BY <2>1 DEF Analytics!Page
    <2>4. \A c \in B : ended'[c] = "unused" <=> ended[c] = "unused"
      BY <1>1, <2>1 DEF Analytics!TypeOK
    <2>5. QED
      BY <2>1, <2>2, <2>3, <2>4, AnalyticsKept
  <1>8. CASE UNCHANGED analyticsVars
    <2>1. Analytics!TypeOK' /\ Analytics!Page' = Analytics!Page
      BY <1>1, <1>8 DEF analyticsVars, Analytics!TypeOK, Analytics!Page
    <2>2. QED
      BY <1>8, <2>1, AnalyticsKept DEF analyticsVars
  <1>9. QED
    BY <1>2, <1>3, <1>4, <1>5, <1>6, <1>7, <1>8 DEF Analytics!Next

\* Numbers of the newest batch are of the period in the Select.
LEMMA AnalyticsAgree == ASSUME AnalyticsInv PROVE Analytics!ShowsThePeriod
  <1> DEFINE B == Analytics!Batches
  <1>1. ASSUME \A b \in B : ended[b] \in {"unused", "seen"}, ended[1] = "seen"
        PROVE  Analytics!Page # "loading"
    <2>1. PICK b \in B : NewestBatch(b)
      BY <1>1 DEF AnalyticsInv
    <2>2. ended[b] = "seen"
      BY <1>1, <2>1 DEF NewestBatch
    <2>3. QED
      BY <2>1, <2>2 DEF AnalyticsInv
  <1>2. ASSUME Analytics!Page = "numbers", \A b \in B : b > loaded.batch => ended[b] = "unused"
        PROVE  loaded.days = days
    <2>1. loaded # Analytics!Loading
      BY <1>2 DEF Analytics!Page
    <2>2. loaded.batch \in B
      BY <2>1 DEF AnalyticsInv, Analytics!TypeOK, Analytics!Loaded
    <2>3. NewestBatch(loaded.batch) /\ loaded.days = period[loaded.batch]
      BY <1>2, <2>1 DEF AnalyticsInv, NewestBatch
    <2>4. QED
      BY <2>2, <2>3 DEF AnalyticsInv
  <1>3. QED
    BY <1>1, <1>2 DEF Analytics!ShowsThePeriod

-----------------------------------------------------------------------------
(***************************************************************************)
(* The benchmarks page                                                     *)
(***************************************************************************)

\* Requests for the details of a selection: their answer is of the runs they ask for.
Selection(fs, Q, selected, number, right) ==
  /\ Fetched(fs, MaxSelections, Q, Q)
  /\ \A n \in 1..MaxSelections : fs[n].state = "answered" => fs[n].answer = fs[n].request
  /\ Follows(fs, selected, number, right)

\* The same numbers have been sent.
SameSent(fs, gs) == \A n \in 1..MaxSelections : gs[n] = F!NotSent <=> fs[n] = F!NotSent

\* A new selection is asked for at once.
LEMMA SelectionSend ==
  ASSUME NEW Q, NEW fs, NEW x, NEW number, NEW ok, Selection(fs, Q, x, number, ok),
         NEW n \in 1..MaxSelections, F!IsNext(fs, n), NEW q \in Q, NEW ok1,
         NEW gs, gs = [fs EXCEPT ![n] = F!Sent(q)]
  PROVE  Selection(gs, Q, q, number, ok1)
  <1>1. MaxSelections \in Nat /\ Fetched(fs, MaxSelections, Q, Q)
    BY BenchmarksAssumption DEF Selection
  <1>2. Fetched(gs, MaxSelections, Q, Q)
    BY <1>1, FetchedSend
  <1>3. Follows(gs, q, number, ok1)
    BY <1>1, FollowsSend DEF Selection
  <1>4. gs[n].state = "sent" /\ \A m \in 1..MaxSelections : m # n => gs[m] = fs[m]
    BY <1>1 DEF Fetched, F!Sent
  <1>5. QED
    BY <1>2, <1>3, <1>4 DEF Selection

\* The server answers with what was asked for.
LEMMA SelectionServe ==
  ASSUME NEW Q, NEW fs, NEW x, NEW number, NEW ok, Selection(fs, Q, x, number, ok),
         NEW n \in 1..MaxSelections, NEW gs, F!MayAnswer(fs, gs, n, fs[n].request)
  PROVE  Selection(gs, Q, x, number, ok) /\ SameSent(fs, gs)
  <1>1. /\ MaxSelections \in Nat /\ Fetched(fs, MaxSelections, Q, Q)
        /\ fs \in [1..MaxSelections -> Fetch(Q, Q)]
    BY BenchmarksAssumption DEF Selection, Fetched
  <1> DEFINE a == fs[n].request
  <1>2. fs[n].state = "sent" => a \in Q
    BY <1>1, Kinds
  <1>3. F!MayAnswer(fs, gs, n, a)
    OBVIOUS
  <1> HIDE DEF a
  <1>4. PICK r \in Fetch(Q, Q) :
          /\ r # F!NotSent /\ r.state \in {"answered", "failed"}
          /\ r.request = fs[n].request
          /\ r.state = "answered" => r.answer = a
          /\ gs = [fs EXCEPT ![n] = r]
    BY <1>1, <1>2, <1>3, FetchedServe
  <1>5. fs[n].state = "sent" /\ fs[n] # F!NotSent
    BY <1>1, <1>2, <1>3, FetchedServe
  <1>6. Fetched(gs, MaxSelections, Q, Q)
    BY <1>1, <1>4, <1>5, FetchedChange
  <1>7. Follows(gs, x, number, ok)
    BY <1>1, <1>4, <1>5, FollowsChange DEF Selection
  <1>8. gs[n] = r /\ \A m \in 1..MaxSelections : m # n => gs[m] = fs[m]
    BY <1>1, <1>4
  <1>9. SameSent(fs, gs)
    BY <1>4, <1>5, <1>8 DEF SameSent
  <1>10. r.state = "answered" => r.answer = r.request
    BY <1>4 DEF a
  <1>11. QED
    BY <1>6, <1>7, <1>8, <1>9, <1>10 DEF Selection

\* An answer that fails leaves what is shown.
LEMMA SelectionFail ==
  ASSUME NEW Q, NEW fs, NEW x, NEW number, NEW ok, Selection(fs, Q, x, number, ok),
         NEW n \in 1..MaxSelections, fs[n].state = "failed",
         NEW gs, gs = [fs EXCEPT ![n] = F!Handled]
  PROVE  Selection(gs, Q, x, number, ok) /\ SameSent(fs, gs)
  <1>1. /\ MaxSelections \in Nat /\ Fetched(fs, MaxSelections, Q, Q)
        /\ fs \in [1..MaxSelections -> Fetch(Q, Q)]
    BY BenchmarksAssumption DEF Selection, Fetched
  <1>2. F!Handled \in Fetch(Q, Q) /\ F!Handled # F!NotSent /\ F!Handled.state = "handled"
    BY DEF Fetch, F!Handled, F!NotSent
  <1>3. fs[n] # F!NotSent
    BY <1>1, Kinds DEF F!NotSent
  <1>4. Fetched(gs, MaxSelections, Q, Q)
    BY <1>1, <1>2, <1>3, FetchedChange
  <1>5. Follows(gs, x, number, ok)
    BY <1>1, <1>2, <1>3, FollowsChange DEF Selection
  <1>6. gs[n] = F!Handled /\ \A m \in 1..MaxSelections : m # n => gs[m] = fs[m]
    BY <1>1
  <1>7. QED
    BY <1>2, <1>3, <1>4, <1>5, <1>6 DEF Selection, SameSent

\* An answer becomes what is shown.
LEMMA SelectionEnd ==
  ASSUME NEW Q, NEW fs, NEW x, NEW number, NEW ok, Selection(fs, Q, x, number, ok),
         NEW n \in 1..MaxSelections, fs[n].state \in {"answered", "failed"},
         NEW ok1, fs[n].request = x => ok1, NEW gs, gs = [fs EXCEPT ![n] = F!Handled]
  PROVE  Selection(gs, Q, x, n, ok1) /\ SameSent(fs, gs)
  <1>1. /\ MaxSelections \in Nat /\ Fetched(fs, MaxSelections, Q, Q)
        /\ fs \in [1..MaxSelections -> Fetch(Q, Q)]
    BY BenchmarksAssumption DEF Selection, Fetched
  <1>2. F!Handled \in Fetch(Q, Q) /\ F!Handled # F!NotSent /\ F!Handled.state = "handled"
    BY DEF Fetch, F!Handled, F!NotSent
  <1>3. fs[n] # F!NotSent
    BY <1>1, Kinds DEF F!NotSent
  <1>4. Fetched(gs, MaxSelections, Q, Q)
    BY <1>1, <1>2, <1>3, FetchedChange
  <1>5. Follows(gs, x, n, ok1)
    BY <1>1, FollowsArrive DEF Selection
  <1>6. gs[n] = F!Handled /\ \A m \in 1..MaxSelections : m # n => gs[m] = fs[m]
    BY <1>1
  <1>7. QED
    BY <1>2, <1>3, <1>4, <1>5, <1>6 DEF Selection, SameSent

-----------------------------------------------------------------------------

\* The details of one run or two.
RunIds == {ids \in Seq(Benchmarks!EvalRuns) : Len(ids) <= 2}

\* What the selector has.
Chosen == Benchmarks!Selected(runAId, runBId)

\* The selection, what is asked for it and what is shown of it.
SelectionInv ==
  /\ runAId \in Benchmarks!EvalFailures /\ runBId \in Benchmarks!EvalFailures
  /\ runDetails \in RunIds /\ failures \in Benchmarks!EvalFailures
  /\ latest \in [details : 0..MaxSelections, galleries : 0..MaxSelections]
  /\ Selection(details, RunIds, Chosen, latest.details, runDetails = Chosen)
  /\ Selection(galleries, Benchmarks!EvalRuns, runAId, latest.galleries,
               failures \in {runAId, Benchmarks!NoRun})
  /\ SameSent(details, galleries)

\* The list of runs: when there is one to select from, one is selected.
RunsInv ==
  /\ recorded \in 0..Len(AllRuns)
  /\ runs = Benchmarks!NoRuns \/ runs \in Seq(Benchmarks!EvalRuns)
  /\ fault \in BOOLEAN
  /\ Fetched(runLoads, MaxRunLoads, {Benchmarks!NoRun}, Seq(Benchmarks!EvalRuns))
  /\ runs # Benchmarks!NoRuns /\ runs # <<>> => runAId \in Benchmarks!EvalRuns

\* What the proofs about the benchmarks page keep.
BenchmarksInv == SelectionInv /\ RunsInv

\* The module's own names of the operators on requests.
LEMMA BenchmarksFetches ==
  /\ Benchmarks!NotSent = F!NotSent /\ Benchmarks!Handled = F!Handled
  /\ \A q : Benchmarks!Sent(q) = F!Sent(q)
  /\ \A fs, n : Benchmarks!IsNext(fs, n) <=> F!IsNext(fs, n)
  /\ \A fs, gs, n, a : Benchmarks!MayAnswer(fs, gs, n, a) <=> F!MayAnswer(fs, gs, n, a)
  /\ \A N, q : /\ Benchmarks!FirstSent(N, q) = F!FirstSent(N, q)
               /\ Benchmarks!NoneSent(N) = F!NoneSent(N)
  BY DEF Benchmarks!NotSent, F!NotSent, Benchmarks!Handled, F!Handled, Benchmarks!Sent, F!Sent,
         Benchmarks!IsNext, F!IsNext, Benchmarks!InState, F!InState, Benchmarks!MayAnswer,
         F!MayAnswer, Benchmarks!Answered, F!Answered, Benchmarks!Failed, F!Failed,
         Benchmarks!FirstSent, F!FirstSent, Benchmarks!NoneSent, F!NoneSent

\* The ids of a selection are those of one run or two.
LEMMA SelectedIds ==
  ASSUME NEW a \in Benchmarks!EvalRuns, NEW b \in Benchmarks!EvalFailures
  PROVE  Benchmarks!Selected(a, b) \in RunIds
  <1>1. CASE b = Benchmarks!NoRun
    BY <1>1 DEF Benchmarks!Selected, RunIds
  <1>2. CASE b # Benchmarks!NoRun
    <2>1. b \in Benchmarks!EvalRuns
      BY <1>2 DEF Benchmarks!EvalFailures
    <2>2. <<a, b>> \in Seq(Benchmarks!EvalRuns) /\ Len(<<a, b>>) <= 2
      BY <2>1
    <2>3. QED
      BY <1>2, <2>2 DEF Benchmarks!Selected, RunIds
  <1>3. QED
    BY <1>1, <1>2

\* A list of runs has runs, and one of AllRuns that is not too long.
LEMMA RunsAreTyped ==
  ASSUME recorded \in 0..Len(AllRuns)
  PROVE  Benchmarks!list_runs \in Seq(Benchmarks!EvalRuns)
  <1>1. AllRuns \in Seq(Benchmarks!EvalRuns)
    BY BenchmarksAssumption
  <1>2. \A S : \A s \in Seq(S) : \A k \in 0..Len(s) : SubSeq(s, Len(s) - k + 1, Len(s)) \in Seq(S)
    OBVIOUS
  <1>3. QED
    BY <1>1, <1>2 DEF Benchmarks!list_runs

\* A visit starts with a request for the list of runs, and nothing selected.
LEMMA BenchmarksInit == ASSUME NEW m \in BOOLEAN, Benchmarks!Start(m) PROVE BenchmarksInv
  <1>1. MaxRunLoads \in Nat /\ MaxSelections \in Nat /\ Len(AllRuns) \in Nat
    <2>1. AllRuns \in Seq(Benchmarks!EvalRuns)
      BY BenchmarksAssumption
    <2>2. \A S : \A s \in Seq(S) : Len(s) \in Nat
      OBVIOUS
    <2>3. QED
      BY <2>1, <2>2, BenchmarksAssumption
  <1>2. /\ runs = Benchmarks!NoRuns /\ runAId = Benchmarks!NoRun /\ runBId = Benchmarks!NoRun
        /\ runDetails = <<>> /\ failures = Benchmarks!NoRun /\ fault = FALSE
        /\ latest = [details |-> 0, galleries |-> 0]
        /\ recorded \in 0..Len(AllRuns) \/ recorded = 0
        /\ \/ runLoads = F!FirstSent(MaxRunLoads, Benchmarks!NoRun)
           \/ runLoads = F!NoneSent(MaxRunLoads)
        /\ details = F!NoneSent(MaxSelections) /\ galleries = F!NoneSent(MaxSelections)
    BY BenchmarksFetches DEF Benchmarks!Start
  <1>3. recorded \in 0..Len(AllRuns)
    BY <1>1, <1>2
  <1>4. RunsInv
    <2>1. Fetched(runLoads, MaxRunLoads, {Benchmarks!NoRun}, Seq(Benchmarks!EvalRuns))
      BY <1>1, <1>2, FetchedFirst
    <2>2. QED
      BY <1>2, <1>3, <2>1 DEF RunsInv
  <1>5. ASSUME NEW Q, NEW x, NEW ok
        PROVE  Selection(F!NoneSent(MaxSelections), Q, x, 0, ok)
    <2>1. \A n \in 1..MaxSelections : F!NoneSent(MaxSelections)[n] = F!NotSent
      BY DEF F!NoneSent
    <2>2. F!NoneSent(MaxSelections) \in [1..MaxSelections -> Fetch(Q, Q)]
      BY DEF F!NoneSent, Fetch
    <2>3. F!NotSent.state = "not sent"
      BY DEF F!NotSent
    <2>4. QED
      BY <2>1, <2>2, <2>3 DEF Selection, Fetched, Follows, Newest
  <1>6. latest \in [details : 0..MaxSelections, galleries : 0..MaxSelections]
    <2>1. 0 \in 0..MaxSelections
      BY <1>1
    <2>2. QED
      BY <1>2, <2>1
  <1>7. runDetails \in RunIds
    BY <1>2 DEF RunIds
  <1>8. SelectionInv
    BY <1>2, <1>5, <1>6, <1>7 DEF SelectionInv, SameSent, Benchmarks!EvalFailures
  <1>9. QED
    BY <1>4, <1>8 DEF BenchmarksInv

\* Whatever becomes selected is asked for at once.
LEMMA SelectionIsFollowed ==
  ASSUME SelectionInv, NEW a \in Benchmarks!EvalRuns, NEW b \in Benchmarks!EvalFailures,
         Benchmarks!Effect(a, b), runAId' = a, runBId' = b,
         UNCHANGED <<runDetails, failures, latest>>
  PROVE  SelectionInv'
  <1>1. CASE a = runAId /\ b = runBId
    BY <1>1 DEF SelectionInv, Benchmarks!Effect, Chosen
  <1>2. CASE ~(a = runAId /\ b = runBId)
    <2>1. PICK n \in DOMAIN details :
            /\ F!IsNext(details, n)
            /\ details' = [details EXCEPT ![n] = F!Sent(Benchmarks!Selected(a, b))]
            /\ galleries' = [galleries EXCEPT ![n] = F!Sent(a)]
      BY <1>2, BenchmarksFetches DEF Benchmarks!Effect
    <2>2. /\ details \in [1..MaxSelections -> Fetch(RunIds, RunIds)]
          /\ galleries \in [1..MaxSelections -> Fetch(Benchmarks!EvalRuns, Benchmarks!EvalRuns)]
          /\ n \in 1..MaxSelections
      BY <2>1 DEF SelectionInv, Selection, Fetched
    <2>3. \A m \in 1..MaxSelections :
            /\ details[m].state = "not sent" <=> details[m] = F!NotSent
            /\ galleries[m].state = "not sent" <=> galleries[m] = F!NotSent
      BY <2>2, Kinds
    <2>4. F!InState(details, "not sent") = F!InState(galleries, "not sent")
      BY <2>2, <2>3 DEF SelectionInv, SameSent, F!InState
    <2>5. F!IsNext(galleries, n)
      BY <2>1, <2>4 DEF F!IsNext
    <2>6. Chosen' = Benchmarks!Selected(a, b) /\ Benchmarks!Selected(a, b) \in RunIds
      BY SelectedIds DEF Chosen
    <2>7. \A ok1 : Selection(details', RunIds, Chosen', latest.details, ok1)
      BY <2>1, <2>2, <2>6, SelectionSend DEF SelectionInv
    <2>8. \A ok1 : Selection(galleries', Benchmarks!EvalRuns, a, latest.galleries, ok1)
      BY <2>1, <2>2, <2>5, SelectionSend DEF SelectionInv
    <2>9. SameSent(details', galleries')
      <3>1. F!Sent(a) # F!NotSent /\ F!Sent(Benchmarks!Selected(a, b)) # F!NotSent
        BY DEF F!Sent, F!NotSent
      <3>2. QED
        BY <2>1, <2>2, <3>1 DEF SelectionInv, SameSent
    <2>10. runAId' \in Benchmarks!EvalFailures
      BY DEF Benchmarks!EvalFailures
    <2>11. QED
      BY <2>7, <2>8, <2>9, <2>10 DEF SelectionInv
  <1>3. QED
    BY <1>1, <1>2

\* The list of runs, at the steps that do not touch it or its requests.
LEMMA RunsKept ==
  ASSUME RunsInv, UNCHANGED <<recorded, runs, runLoads>>, fault' \in BOOLEAN,
         runAId' = runAId \/ runAId' \in Benchmarks!EvalRuns
  PROVE  RunsInv'
  BY DEF RunsInv

\* The requests for the list.
LEMMA RunsStep ==
  ASSUME RunsInv, NEW n \in DOMAIN runLoads,
         Benchmarks!ServeRuns(n) \/ Benchmarks!RunsArrive(n) \/ Benchmarks!RunsFail(n)
  PROVE  RunsInv'
  <1> DEFINE Q == {Benchmarks!NoRun}
             A == Seq(Benchmarks!EvalRuns)
  <1>1. /\ MaxRunLoads \in Nat /\ n \in 1..MaxRunLoads
        /\ runLoads \in [1..MaxRunLoads -> Fetch(Q, A)] /\ Fetched(runLoads, MaxRunLoads, Q, A)
    BY BenchmarksAssumption DEF RunsInv, Fetched
  <1>2. F!Handled \in Fetch(Q, A) /\ F!Handled # F!NotSent
    BY DEF Fetch, F!Handled, F!NotSent
  <1>3. CASE Benchmarks!ServeRuns(n)
    <2> DEFINE a == Benchmarks!list_runs
    <2>1. a \in A
      BY RunsAreTyped DEF RunsInv
    <2>2. F!MayAnswer(runLoads, runLoads', n, a)
      BY <1>3, BenchmarksFetches DEF Benchmarks!ServeRuns
    <2> HIDE DEF a
    <2>3. PICK r \in Fetch(Q, A) : r # F!NotSent /\ runLoads' = [runLoads EXCEPT ![n] = r]
      BY <1>1, <2>1, <2>2, FetchedServe
    <2>4. runLoads[n] # F!NotSent
      BY <1>1, <2>1, <2>2, FetchedServe
    <2>5. Fetched(runLoads', MaxRunLoads, Q, A)
      BY <1>1, <2>3, <2>4, FetchedChange
    <2>6. UNCHANGED <<recorded, runs, runAId, fault>>
      BY <1>3 DEF Benchmarks!ServeRuns
    <2>7. QED
      BY <2>5, <2>6 DEF RunsInv
  <1>4. CASE Benchmarks!RunsArrive(n)
    <2>1. /\ runLoads[n].state = "answered" /\ runLoads' = [runLoads EXCEPT ![n] = F!Handled]
          /\ runs' = runLoads[n].answer /\ UNCHANGED <<recorded, fault>>
          /\ runs' # <<>> => runAId' = Head(runs')
      BY <1>4, BenchmarksFetches DEF Benchmarks!RunsArrive
    <2>2. runs' \in Seq(Benchmarks!EvalRuns) /\ runLoads[n] # F!NotSent
      BY <1>1, <2>1, Kinds DEF F!NotSent
    <2>3. Fetched(runLoads', MaxRunLoads, Q, A)
      BY <1>1, <1>2, <2>1, <2>2, FetchedChange
    <2>4. \A s \in Seq(Benchmarks!EvalRuns) : s # <<>> => Head(s) \in Benchmarks!EvalRuns
      OBVIOUS
    <2>5. runs' # <<>> => runAId' \in Benchmarks!EvalRuns
      BY <2>1, <2>2, <2>4
    <2>6. QED
      BY <2>1, <2>2, <2>3, <2>5 DEF RunsInv
  <1>5. CASE Benchmarks!RunsFail(n)
    <2>1. /\ runLoads[n].state = "failed" /\ runLoads' = [runLoads EXCEPT ![n] = F!Handled]
          /\ fault' = TRUE /\ UNCHANGED <<recorded, runs, runAId>>
      BY <1>5, BenchmarksFetches DEF Benchmarks!RunsFail
    <2>2. runLoads[n] # F!NotSent
      BY <1>1, <2>1, Kinds DEF F!NotSent
    <2>3. Fetched(runLoads', MaxRunLoads, Q, A)
      BY <1>1, <1>2, <2>1, <2>2, FetchedChange
    <2>4. QED
      BY <2>1, <2>3 DEF RunsInv
  <1>6. QED
    BY <1>3, <1>4, <1>5

\* Every change of the selection asks for its details and its failures at once.
LEMMA BenchmarksStep ==
  ASSUME BenchmarksInv, Benchmarks!Next \/ UNCHANGED benchmarksVars
  PROVE  BenchmarksInv'
  <1>1. /\ DOMAIN details = 1..MaxSelections
        /\ SelectionInv /\ RunsInv
        /\ runAId \in Benchmarks!EvalFailures /\ runBId \in Benchmarks!EvalFailures
        /\ fault \in BOOLEAN
    BY DEF BenchmarksInv, SelectionInv, Selection, Fetched, RunsInv
  <1>2. ASSUME NEW n \in DOMAIN runLoads, Benchmarks!ServeRuns(n) \/ Benchmarks!RunsFail(n)
        PROVE  BenchmarksInv'
    <2>1. UNCHANGED <<runAId, runBId, runDetails, failures, details, galleries, latest>>
      BY <1>2 DEF Benchmarks!ServeRuns, Benchmarks!RunsFail
    <2>2. SelectionInv'
      BY <1>1, <2>1 DEF SelectionInv, Chosen
    <2>3. QED
      BY <1>1, <1>2, <2>2, RunsStep DEF BenchmarksInv
  <1>3. ASSUME NEW n \in DOMAIN runLoads, Benchmarks!RunsArrive(n)
        PROVE  BenchmarksInv'
    <2>1. RunsInv'
      BY <1>1, <1>3, RunsStep
    <2>2. UNCHANGED <<runBId, runDetails, failures, latest>>
      BY <1>3 DEF Benchmarks!RunsArrive
    <2>3. CASE runs' = <<>>
      BY <1>1, <1>3, <2>1, <2>2, <2>3 DEF Benchmarks!RunsArrive, BenchmarksInv, SelectionInv, Chosen
    <2>4. CASE runs' # <<>>
      <3>1. runAId' = Head(runs') /\ Benchmarks!Effect(runAId', runBId)
        BY <1>3, <2>4 DEF Benchmarks!RunsArrive
      <3>2. runs' \in Seq(Benchmarks!EvalRuns)
        <4>1. runLoads[n] \in Fetch({Benchmarks!NoRun}, Seq(Benchmarks!EvalRuns))
          BY <1>1, <1>3 DEF RunsInv, Fetched
        <4>2. QED
          BY <1>3, <4>1, Kinds DEF Benchmarks!RunsArrive
      <3>3. \A s \in Seq(Benchmarks!EvalRuns) : s # <<>> => Head(s) \in Benchmarks!EvalRuns
        OBVIOUS
      <3>4. PICK a \in Benchmarks!EvalRuns : a = runAId'
        BY <2>4, <3>1, <3>2, <3>3
      <3>5. SelectionInv'
        BY <1>1, <2>2, <3>1, <3>4, SelectionIsFollowed
      <3>6. QED
        BY <2>1, <3>5 DEF BenchmarksInv
    <2>5. QED
      BY <2>3, <2>4
  <1>4. ASSUME NEW n \in 1..MaxSelections, Benchmarks!ServeDetails(n)
        PROVE  BenchmarksInv'
    <2>1. /\ F!MayAnswer(details, details', n, details[n].request)
          /\ UNCHANGED <<recorded, runs, runAId, runBId, runDetails, failures, fault, runLoads,
                         galleries, latest>>
      BY <1>4, BenchmarksFetches DEF Benchmarks!ServeDetails
    <2>2. /\ Selection(details', RunIds, Chosen, latest.details, runDetails = Chosen)
          /\ SameSent(details, details')
      BY <1>1, <2>1, SelectionServe DEF SelectionInv
    <2>3. SelectionInv'
      BY <1>1, <2>1, <2>2 DEF SelectionInv, SameSent, Chosen
    <2>4. QED
      BY <1>1, <2>1, <2>3, RunsKept DEF BenchmarksInv
  <1>5. ASSUME NEW n \in 1..MaxSelections, Benchmarks!ServeFailures(n)
        PROVE  BenchmarksInv'
    <2>1. /\ F!MayAnswer(galleries, galleries', n, galleries[n].request)
          /\ UNCHANGED <<recorded, runs, runAId, runBId, runDetails, failures, fault, runLoads,
                         details, latest>>
      BY <1>5, BenchmarksFetches DEF Benchmarks!ServeFailures
    <2>2. /\ Selection(galleries', Benchmarks!EvalRuns, runAId, latest.galleries,
                       failures \in {runAId, Benchmarks!NoRun})
          /\ SameSent(galleries, galleries')
      BY <1>1, <2>1, SelectionServe DEF SelectionInv
    <2>3. SelectionInv'
      BY <1>1, <2>1, <2>2 DEF SelectionInv, SameSent, Chosen
    <2>4. QED
      BY <1>1, <2>1, <2>3, RunsKept DEF BenchmarksInv
  <1>6. CASE Benchmarks!RecordRun
    <2>1. /\ recorded' \in 0..Len(AllRuns)
          /\ UNCHANGED <<runs, runAId, runBId, runDetails, failures, fault, runLoads, details,
                         galleries, latest>>
      <3>1. recorded \in 0..Len(AllRuns) /\ recorded < Len(AllRuns) /\ recorded' = recorded + 1
        BY <1>1, <1>6 DEF Benchmarks!RecordRun, RunsInv
      <3>2. Len(AllRuns) \in Nat
        <4>1. AllRuns \in Seq(Benchmarks!EvalRuns)
          BY BenchmarksAssumption
        <4>2. \A S : \A s \in Seq(S) : Len(s) \in Nat
          OBVIOUS
        <4>3. QED
          BY <4>1, <4>2
      <3>3. recorded' \in 0..Len(AllRuns)
        BY <3>1, <3>2
      <3>4. QED
        BY <1>6, <3>3 DEF Benchmarks!RecordRun
    <2>2. SelectionInv'
      BY <1>1, <2>1 DEF SelectionInv, Chosen
    <2>3. QED
      BY <1>1, <2>1, <2>2 DEF BenchmarksInv, RunsInv
  <1>7. CASE Benchmarks!Retry
    <2>1. PICK n \in DOMAIN runLoads :
            F!IsNext(runLoads, n) /\ runLoads' = [runLoads EXCEPT ![n] = F!Sent(Benchmarks!NoRun)]
      BY <1>7, BenchmarksFetches DEF Benchmarks!Retry
    <2>2. /\ fault' = FALSE
          /\ UNCHANGED <<recorded, runs, runAId, runBId, runDetails, failures, details,
                         galleries, latest>>
      BY <1>7 DEF Benchmarks!Retry
    <2>3. SelectionInv'
      BY <1>1, <2>2 DEF SelectionInv, Chosen
    <2>4. /\ MaxRunLoads \in Nat /\ n \in 1..MaxRunLoads
          /\ Fetched(runLoads, MaxRunLoads, {Benchmarks!NoRun}, Seq(Benchmarks!EvalRuns))
      BY <1>1, <2>1, BenchmarksAssumption DEF RunsInv, Fetched
    <2>5. Fetched(runLoads', MaxRunLoads, {Benchmarks!NoRun}, Seq(Benchmarks!EvalRuns))
      BY <2>1, <2>4, FetchedSend
    <2>6. QED
      BY <1>1, <2>2, <2>3, <2>5 DEF BenchmarksInv, RunsInv
  <1>8. ASSUME NEW k, Benchmarks!onChangeA(k) \/ Benchmarks!onChangeB(k)
        PROVE  BenchmarksInv'
    <2>1. /\ Benchmarks!Page = "selector"
          /\ UNCHANGED <<recorded, runs, runDetails, failures, fault, runLoads, latest>>
      BY <1>8 DEF Benchmarks!onChangeA, Benchmarks!onChangeB
    <2>2. runs # Benchmarks!NoRuns /\ runs # <<>>
      BY <2>1 DEF Benchmarks!Page
    <2>3. runs \in Seq(Benchmarks!EvalRuns) /\ runAId \in Benchmarks!EvalRuns
      BY <1>1, <2>2 DEF RunsInv
    <2>4. \A s \in Seq(Benchmarks!EvalRuns) : \A i \in DOMAIN s : s[i] \in Benchmarks!EvalRuns
      OBVIOUS
    <2>5. PICK a \in Benchmarks!EvalRuns, b \in Benchmarks!EvalFailures :
            Benchmarks!Effect(a, b) /\ runAId' = a /\ runBId' = b
      <3>1. CASE Benchmarks!onChangeA(k)
        BY <1>1, <2>3, <2>4, <3>1 DEF Benchmarks!onChangeA
      <3>2. CASE Benchmarks!onChangeB(k)
        <4>1. runBId' \in Benchmarks!EvalFailures
          BY <2>3, <2>4, <3>2 DEF Benchmarks!onChangeB, Benchmarks!EvalFailures
        <4>2. QED
          BY <2>3, <3>2, <4>1 DEF Benchmarks!onChangeB
      <3>3. QED
        BY <1>8, <3>1, <3>2
    <2>6. SelectionInv'
      BY <1>1, <2>1, <2>5, SelectionIsFollowed
    <2>7. RunsInv'
      BY <1>1, <2>1, <2>5, RunsKept
    <2>8. QED
      BY <2>6, <2>7 DEF BenchmarksInv
  <1>9. ASSUME NEW n \in 1..MaxSelections, Benchmarks!DetailsArrive(n)
        PROVE  BenchmarksInv'
    <2>1. /\ details[n].state = "answered" /\ details' = [details EXCEPT ![n] = F!Handled]
          /\ runDetails' = details[n].answer /\ latest' = [latest EXCEPT !.details = n]
          /\ UNCHANGED <<recorded, runs, runAId, runBId, failures, fault, runLoads, galleries>>
      BY <1>9, BenchmarksFetches DEF Benchmarks!DetailsArrive
    <2>2. runDetails' = details[n].request /\ details[n].answer \in RunIds
      <3>1. details[n] \in Fetch(RunIds, RunIds)
        BY <1>1 DEF SelectionInv, Selection, Fetched
      <3>2. QED
        BY <1>1, <2>1, <3>1, Kinds DEF SelectionInv, Selection
    <2>3. /\ Selection(details', RunIds, Chosen, n, runDetails' = Chosen)
          /\ SameSent(details, details')
      BY <1>1, <2>1, <2>2, SelectionEnd DEF SelectionInv
    <2>4. /\ latest' \in [details : 0..MaxSelections, galleries : 0..MaxSelections]
          /\ latest'.details = n /\ latest'.galleries = latest.galleries
      BY <1>1, <2>1 DEF SelectionInv
    <2>5. Chosen' = Chosen
      BY <2>1 DEF Chosen
    <2>6. SelectionInv'
      BY <1>1, <2>1, <2>2, <2>3, <2>4, <2>5 DEF SelectionInv, SameSent
    <2>7. QED
      BY <1>1, <2>1, <2>6, RunsKept DEF BenchmarksInv
  <1>10. ASSUME NEW n \in 1..MaxSelections, Benchmarks!DetailsFail(n)
         PROVE  BenchmarksInv'
    <2>1. /\ details[n].state = "failed" /\ details' = [details EXCEPT ![n] = F!Handled]
          /\ fault' = TRUE
          /\ UNCHANGED <<recorded, runs, runAId, runBId, runDetails, failures, runLoads,
                         galleries, latest>>
      BY <1>10, BenchmarksFetches DEF Benchmarks!DetailsFail
    <2>2. /\ Selection(details', RunIds, Chosen, latest.details, runDetails = Chosen)
          /\ SameSent(details, details')
      BY <1>1, <2>1, SelectionFail DEF SelectionInv
    <2>3. SelectionInv'
      BY <1>1, <2>1, <2>2 DEF SelectionInv, SameSent, Chosen
    <2>4. QED
      BY <1>1, <2>1, <2>3, RunsKept DEF BenchmarksInv
  <1>11. ASSUME NEW n \in 1..MaxSelections, Benchmarks!FailuresEnd(n)
         PROVE  BenchmarksInv'
    <2>1. /\ galleries[n].state \in {"answered", "failed"}
          /\ galleries' = [galleries EXCEPT ![n] = F!Handled]
          /\ failures' = IF galleries[n].state = "answered" THEN galleries[n].answer
                         ELSE Benchmarks!NoRun
          /\ latest' = [latest EXCEPT !.galleries = n]
          /\ UNCHANGED <<recorded, runs, runAId, runBId, runDetails, fault, runLoads, details>>
      BY <1>11, BenchmarksFetches DEF Benchmarks!FailuresEnd
    <2>2. /\ failures' \in Benchmarks!EvalFailures
          /\ failures' \in {galleries[n].request, Benchmarks!NoRun}
      <3>1. galleries[n] \in Fetch(Benchmarks!EvalRuns, Benchmarks!EvalRuns)
        BY <1>1 DEF SelectionInv, Selection, Fetched
      <3>2. QED
        BY <1>1, <2>1, <3>1, Kinds DEF SelectionInv, Selection, Benchmarks!EvalFailures
    <2>3. /\ Selection(galleries', Benchmarks!EvalRuns, runAId, n,
                       failures' \in {runAId, Benchmarks!NoRun})
          /\ SameSent(galleries, galleries')
      BY <1>1, <2>1, <2>2, SelectionEnd DEF SelectionInv
    <2>4. /\ latest' \in [details : 0..MaxSelections, galleries : 0..MaxSelections]
          /\ latest'.galleries = n /\ latest'.details = latest.details
      BY <1>1, <2>1 DEF SelectionInv
    <2>5. Chosen' = Chosen
      BY <2>1 DEF Chosen
    <2>6. SelectionInv'
      BY <1>1, <2>1, <2>2, <2>3, <2>4, <2>5 DEF SelectionInv, SameSent
    <2>7. QED
      BY <1>1, <2>1, <2>6, RunsKept DEF BenchmarksInv
  <1>12. CASE UNCHANGED benchmarksVars
    <2>1. SelectionInv'
      BY <1>1, <1>12 DEF SelectionInv, Chosen, benchmarksVars
    <2>2. QED
      BY <1>1, <1>12, <2>1, RunsKept DEF BenchmarksInv, benchmarksVars
  <1>13. QED
    BY <1>1, <1>2, <1>3, <1>4, <1>5, <1>6, <1>7, <1>8, <1>9, <1>10, <1>11, <1>12
    DEF Benchmarks!Next, Benchmarks!Proceed

\* The types, and what is shown of the selection, from the invariant.
LEMMA BenchmarksHold ==
  ASSUME BenchmarksInv PROVE Benchmarks!TypeOK /\ Benchmarks!ShowsTheSelection
  <1>1. /\ DOMAIN details = 1..MaxSelections /\ DOMAIN galleries = 1..MaxSelections
        /\ 0 \notin 1..MaxSelections
    BY DEF BenchmarksInv, SelectionInv, Selection, Fetched
  <1>2. Benchmarks!ShowsTheSelection
    <2>1. Benchmarks!NotSentAfter(details, latest.details) =>
            latest.details # 0 /\ Newest(details, latest.details)
      BY <1>1, BenchmarksFetches
      DEF BenchmarksInv, SelectionInv, Selection, Follows, Newest, Benchmarks!NotSentAfter
    <2>2. Benchmarks!NotSentAfter(galleries, latest.galleries) =>
            latest.galleries # 0 /\ Newest(galleries, latest.galleries)
      BY <1>1, BenchmarksFetches
      DEF BenchmarksInv, SelectionInv, Selection, Follows, Newest, Benchmarks!NotSentAfter
    <2>3. QED
      BY <2>1, <2>2
      DEF BenchmarksInv, SelectionInv, Selection, Follows, Chosen, Benchmarks!ShowsTheSelection
  <1>3. \A n \in Benchmarks!InState(runLoads, "answered") :
          runLoads[n].answer \in Seq(Benchmarks!EvalRuns)
    BY Kinds DEF BenchmarksInv, RunsInv, Fetched, Benchmarks!InState
  <1>4. \A n \in Benchmarks!InState(details, "sent") \cup Benchmarks!InState(details, "answered") :
          details[n].request \in RunIds
    BY Kinds DEF BenchmarksInv, SelectionInv, Selection, Fetched, Benchmarks!InState
  <1>5. \A n \in Benchmarks!InState(galleries, "sent") :
          galleries[n].request \in Benchmarks!EvalRuns
    BY Kinds DEF BenchmarksInv, SelectionInv, Selection, Fetched, Benchmarks!InState
  <1>6. \A ids \in RunIds : Benchmarks!IsRunDetails(ids)
    BY DEF RunIds, Benchmarks!IsRunDetails
  <1>7. QED
    BY <1>2, <1>3, <1>4, <1>5, <1>6
    DEF BenchmarksInv, SelectionInv, RunsInv, Benchmarks!TypeOK, Benchmarks!EvalFailures

-----------------------------------------------------------------------------
(***************************************************************************)
(* The verification screen                                                 *)
(***************************************************************************)

\* The types of the screen's state, with those of the requests.
VerifyTyped ==
  /\ stored \in [Fields -> Values] /\ fixed \subseteq Fields
  /\ rerun \in BOOLEAN /\ failure \in BOOLEAN /\ rerunning \in BOOLEAN /\ left \in BOOLEAN
  /\ invoice \in Verify!VerificationInvoice \cup {Verify!NoInvoice}
  /\ editor \in [Fields -> Verify!EditableValue]
  /\ reads \in [1..MaxInvoiceLoads -> Fetch({Verify!None}, Verify!VerificationInvoice)]
  /\ saves \in [1..MaxSaves -> Fetch(Verify!SaveRequest, Values)]
  /\ reruns \in {F!NotSent, F!Sent(Verify!None), F!Answered(Verify!None, Verify!None),
                 F!Failed(Verify!None)}
  /\ acked \in [Fields -> Values \cup {Verify!None}]

\* What counts as corrected somewhere is, and a re-run that was answered is committed.
Confirmed ==
  /\ invoice # Verify!NoInvoice => invoice.corrected \subseteq fixed
  /\ \A n \in 1..MaxInvoiceLoads :
       reads[n].state = "answered" => reads[n].answer.corrected \subseteq fixed
  /\ \A n \in 1..MaxSaves :
       saves[n].state = "answered" =>
         saves[n].request.field \in fixed /\ saves[n].answer = saves[n].request.text
  /\ reruns = F!Answered(Verify!None, Verify!None) => rerun = TRUE
  /\ left = TRUE => rerun = TRUE

\* The request is sent, and its continuation has not run.
Underway(r) == r.state \in {"sent", "answered", "failed"}

\* Editors are there exactly as long as the panel is, and the saves that are not orphans
\* have theirs.
Mounted ==
  /\ \A f \in Fields : editor[f].mode = "absent" <=> ~Verify!PanelMounted
  /\ \A n \in 1..MaxSaves :
       Underway(saves[n]) =>
         /\ invoice # Verify!NoInvoice
         /\ saves[n].request.orphan = FALSE => Verify!PanelMounted

\* The column keeps its own values, and an acknowledged text is one of what is stored,
\* both in `invoice` and in the editor.
Acknowledged ==
  /\ \A f \in Fields : Column[stored[f]] = stored[f]
  /\ \A f \in Fields : acked[f] # Verify!None =>
       /\ invoice # Verify!NoInvoice => Column[invoice.values[f]] = stored[f]
       /\ editor[f].mode # "absent" => Column[editor[f].display] = stored[f]

\* What the proofs about the verification screen keep.
VerifyInv == VerifyTyped /\ Confirmed /\ Mounted /\ Acknowledged

\* The module's own names of the operators on requests.
LEMMA VerifyFetches ==
  /\ Verify!NotSent = F!NotSent /\ Verify!Handled = F!Handled
  /\ \A q : Verify!Sent(q) = F!Sent(q) /\ Verify!Failed(q) = F!Failed(q)
  /\ \A q, a : Verify!Answered(q, a) = F!Answered(q, a)
  /\ \A fs, n : Verify!IsNext(fs, n) => n \in DOMAIN fs
  /\ \A fs, gs, n, a : Verify!MayAnswer(fs, gs, n, a) <=> F!MayAnswer(fs, gs, n, a)
  /\ \A N, q : /\ Verify!FirstSent(N, q) = F!FirstSent(N, q)
               /\ Verify!NoneSent(N) = F!NoneSent(N)
  BY DEF Verify!NotSent, F!NotSent, Verify!Handled, F!Handled, Verify!Sent, F!Sent,
         Verify!IsNext, Verify!InState, Verify!MayAnswer,
         F!MayAnswer, Verify!Answered, F!Answered, Verify!Failed, F!Failed,
         Verify!FirstSent, F!FirstSent, Verify!NoneSent, F!NoneSent

\* N requests, whatever the order of their sending.
Requested(fs, N, Q, A) == fs \in [1..N -> Fetch(Q, A)]

\* What the server may make of a request, whatever has become of the others.
LEMMA FetchAnswered ==
  ASSUME NEW N, NEW Q, NEW A, NEW fs, Requested(fs, N, Q, A), NEW n \in 1..N, NEW a,
         a \in A, NEW gs, F!MayAnswer(fs, gs, n, a)
  PROVE  /\ fs[n].state = "sent" /\ fs[n].request \in Q
         /\ \E r \in Fetch(Q, A) :
              /\ r.state \in {"answered", "failed"} /\ r.request = fs[n].request
              /\ r.state = "answered" => r.answer = a
              /\ gs = [fs EXCEPT ![n] = r]
  <1>1. fs[n] \in Fetch(Q, A) /\ fs[n].state = "sent" /\ fs \in [1..N -> Fetch(Q, A)]
    BY DEF F!MayAnswer, Requested
  <1>2. fs[n].request \in Q
    BY <1>1, Kinds
  <1>3. PICK q \in Q : q = fs[n].request
    BY <1>2
  <1>4. /\ F!Answered(q, a) \in Fetch(Q, A) /\ F!Failed(q) \in Fetch(Q, A)
        /\ F!Answered(q, a).state = "answered" /\ F!Failed(q).state = "failed"
        /\ F!Answered(q, a).request = q /\ F!Failed(q).request = q
        /\ F!Answered(q, a).answer = a
    BY <1>2 DEF Fetch, F!Answered, F!Failed
  <1>5. gs \in {[fs EXCEPT ![n] = F!Answered(q, a)], [fs EXCEPT ![n] = F!Failed(q)]}
    BY <1>3 DEF F!MayAnswer
  <1>6. QED
    BY <1>1, <1>2, <1>3, <1>4, <1>5

\* What the column keeps of a text.
LEMMA Kept ==
  ASSUME NEW v \in Values, Column[v] # Unparsable
  PROVE  Column[v] \in Values /\ Column[Column[v]] = Column[v]
  BY VerifyAssumption

\* An orphan is the request it was.
LEMMA Orphan ==
  ASSUME NEW r \in Fetch(Verify!SaveRequest, Values), Underway(r),
         NEW o, o = [r EXCEPT !.request.orphan = TRUE]
  PROVE  /\ o \in Fetch(Verify!SaveRequest, Values)
         /\ o.state = r.state /\ o.request.orphan = TRUE
         /\ o.request.field = r.request.field /\ o.request.text = r.request.text
         /\ r.state = "answered" => o.answer = r.answer
  <1>1. r.request \in Verify!SaveRequest
    BY Kinds DEF Underway
  <1>2. PICK q \in Verify!SaveRequest : q = [r.request EXCEPT !.orphan = TRUE]
    BY <1>1 DEF Verify!SaveRequest
  <1>3. q.orphan = TRUE /\ q.field = r.request.field /\ q.text = r.request.text
    BY <1>1, <1>2 DEF Verify!SaveRequest
  <1>4. o = [r EXCEPT !.request = q]
    BY <1>2
  <1>5. CASE r \in [state : {"sent", "failed"}, request : Verify!SaveRequest]
    <2>1. o \in [state : {"sent", "failed"}, request : Verify!SaveRequest]
      BY <1>4, <1>5
    <2>2. o.state = r.state /\ o.request = q /\ r.state # "answered"
      BY <1>4, <1>5
    <2>3. QED
      BY <1>3, <2>1, <2>2 DEF Fetch
  <1>6. CASE r \in [state : {"answered"}, request : Verify!SaveRequest, answer : Values]
    <2>1. o \in [state : {"answered"}, request : Verify!SaveRequest, answer : Values]
      BY <1>4, <1>6
    <2>2. o.state = r.state /\ o.request = q /\ o.answer = r.answer
      BY <1>4, <1>6
    <2>3. QED
      BY <1>3, <2>1, <2>2 DEF Fetch
  <1>7. r \notin {F!NotSent, F!Handled}
    <2>1. F!NotSent.state = "not sent" /\ F!Handled.state = "handled"
      BY DEF F!NotSent, F!Handled
    <2>2. QED
      BY <2>1 DEF Underway
  <1>8. QED
    BY <1>5, <1>6, <1>7 DEF Fetch

\* A visit starts with a request for the invoice, whose stored texts are the column's.
LEMMA VerifyInit == ASSUME NEW m \in BOOLEAN, Verify!Start(m) PROVE VerifyInv
  <1>1. Verify!Initial \in Values /\ Column[Verify!Initial] = Verify!Initial
    BY VerifyAssumption DEF Verify!Initial
  <1>2. MaxInvoiceLoads \in Nat
    BY VerifyAssumption
  <1>3. /\ reads = F!FirstSent(MaxInvoiceLoads, Verify!None)
             \/ reads = F!NoneSent(MaxInvoiceLoads)
        /\ saves = F!NoneSent(MaxSaves)
    BY VerifyFetches DEF Verify!Start
  <1>4. /\ reads \in [1..MaxInvoiceLoads -> Fetch({Verify!None}, Verify!VerificationInvoice)]
        /\ \A n \in 1..MaxInvoiceLoads : reads[n].state # "answered"
    <2>1. /\ Fetched(F!NoneSent(MaxInvoiceLoads), MaxInvoiceLoads, {Verify!None},
                     Verify!VerificationInvoice)
          /\ Fetched(F!FirstSent(MaxInvoiceLoads, Verify!None), MaxInvoiceLoads, {Verify!None},
                     Verify!VerificationInvoice)
      BY <1>2, FetchedFirst
    <2>2. /\ \A n \in 1..MaxInvoiceLoads : F!NoneSent(MaxInvoiceLoads)[n] = F!NotSent
          /\ \A n \in 1..MaxInvoiceLoads :
               F!FirstSent(MaxInvoiceLoads, Verify!None)[n]
                 \in {F!NotSent, F!Sent(Verify!None)}
      BY <1>2, FetchedFirst
    <2>3. F!NotSent.state # "answered" /\ F!Sent(Verify!None).state # "answered"
      BY DEF F!NotSent, F!Sent
    <2>4. QED
      BY <1>3, <2>1, <2>2, <2>3 DEF Fetched
  <1>5. /\ saves \in [1..MaxSaves -> Fetch(Verify!SaveRequest, Values)]
        /\ \A n \in 1..MaxSaves : saves[n] = F!NotSent
    BY <1>3 DEF F!NoneSent, Fetch
  <1>6. \A n \in 1..MaxSaves : ~Underway(saves[n])
    <2>1. F!NotSent.state = "not sent"
      BY DEF F!NotSent
    <2>2. QED
      BY <1>5, <2>1 DEF Underway
  <1>7. /\ stored = [f \in Fields |-> Verify!Initial] /\ fixed = {}
        /\ rerun = FALSE /\ failure = FALSE /\ rerunning = FALSE /\ left = FALSE
        /\ invoice = Verify!NoInvoice /\ reruns = F!NotSent
        /\ editor = [f \in Fields |-> Verify!Absent] /\ acked = [f \in Fields |-> Verify!None]
    BY VerifyFetches DEF Verify!Start
  <1>8. Verify!Absent \in Verify!EditableValue /\ Verify!Absent.mode = "absent"
    BY <1>1 DEF Verify!Absent, Verify!EditableValue
  <1>9. VerifyTyped
    BY <1>1, <1>4, <1>5, <1>7, <1>8 DEF VerifyTyped
  <1>10. Confirmed
    <2>1. F!NotSent # F!Answered(Verify!None, Verify!None)
      BY DEF F!NotSent, F!Answered
    <2>2. QED
      BY <1>4, <1>6, <1>7, <2>1 DEF Confirmed, Underway
  <1>11. Mounted
    BY <1>6, <1>7, <1>8 DEF Mounted, Verify!PanelMounted
  <1>12. Acknowledged
    BY <1>1, <1>7 DEF Acknowledged
  <1>13. QED
    BY <1>9, <1>10, <1>11, <1>12 DEF VerifyInv

\* What the verification screen has, as the steps below need it.
LEMMA VerifyHas ==
  ASSUME VerifyInv
  PROVE  /\ stored \in [Fields -> Values] /\ fixed \subseteq Fields
         /\ rerun \in BOOLEAN /\ failure \in BOOLEAN /\ rerunning \in BOOLEAN /\ left \in BOOLEAN
         /\ editor \in [Fields -> Verify!EditableValue]
         /\ DOMAIN reads = 1..MaxInvoiceLoads /\ DOMAIN saves = 1..MaxSaves
         /\ reads \in [1..MaxInvoiceLoads -> Fetch({Verify!None}, Verify!VerificationInvoice)]
         /\ saves \in [1..MaxSaves -> Fetch(Verify!SaveRequest, Values)]
         /\ acked \in [Fields -> Values \cup {Verify!None}]
         /\ invoice # Verify!NoInvoice =>
              /\ invoice \in Verify!VerificationInvoice
              /\ invoice.values \in [Fields -> Values]
         /\ \A v \in Values : Verify!Showing(v) \in Verify!EditableValue
                              /\ Verify!Showing(v).mode = "view" /\ Verify!Showing(v).display = v
         /\ Verify!Absent \in Verify!EditableValue /\ Verify!Absent.mode = "absent"
         /\ \A i \in Verify!VerificationInvoice : i # Verify!NoInvoice
  <1>1. Verify!Initial \in Values
    BY VerifyAssumption DEF Verify!Initial
  <1>2. Verify!Absent \in Verify!EditableValue /\ Verify!Absent.mode = "absent"
    BY <1>1 DEF Verify!Absent, Verify!EditableValue
  <1>3. \A v \in Values : Verify!Showing(v) \in Verify!EditableValue
                          /\ Verify!Showing(v).mode = "view" /\ Verify!Showing(v).display = v
    BY DEF Verify!Showing, Verify!EditableValue
  <1>4. \A i \in Verify!VerificationInvoice : i # Verify!NoInvoice
    BY DEF Verify!VerificationInvoice, Verify!NoInvoice
  <1>5. invoice # Verify!NoInvoice =>
          invoice \in Verify!VerificationInvoice /\ invoice.values \in [Fields -> Values]
    BY DEF VerifyInv, VerifyTyped, Verify!VerificationInvoice
  <1>6. QED
    BY <1>2, <1>3, <1>4, <1>5 DEF VerifyInv, VerifyTyped

\* A correction of a field, committed, leaves the column with a text of its own.
LEMMA CorrectionKept ==
  ASSUME VerifyInv, NEW f \in Fields, NEW text \in Values, Verify!correct_field(f, text),
         acked' = [acked EXCEPT ![f] = Verify!None], UNCHANGED <<invoice, editor>>
  PROVE  /\ stored' \in [Fields -> Values] /\ fixed' \subseteq Fields
         /\ acked' \in [Fields -> Values \cup {Verify!None}]
         /\ fixed \subseteq fixed' /\ f \in fixed'
         /\ Acknowledged'
  <1>1. /\ Column[text] \in Values /\ Column[Column[text]] = Column[text]
        /\ stored' = [stored EXCEPT ![f] = Column[text]] /\ fixed' = fixed \cup {f}
    BY Kept DEF Verify!correct_field
  <1>2. /\ stored' \in [Fields -> Values] /\ stored'[f] = Column[text]
        /\ \A g \in Fields : g # f => stored'[g] = stored[g]
    BY <1>1, VerifyHas
  <1>3. /\ acked' \in [Fields -> Values \cup {Verify!None}] /\ acked'[f] = Verify!None
        /\ \A g \in Fields : g # f => acked'[g] = acked[g]
    BY VerifyHas
  <1>4. Acknowledged'
    BY <1>1, <1>2, <1>3 DEF VerifyInv, Acknowledged
  <1>5. QED
    BY <1>1, <1>2, <1>3, <1>4, VerifyHas

\* Once a re-run or a correction was answered, it stays committed.
LEMMA ConfirmedKept ==
  ASSUME Confirmed, fixed \subseteq fixed', rerun' = rerun, left' = left,
         UNCHANGED <<invoice, reads, saves, reruns>>
  PROVE  Confirmed'
  BY DEF Confirmed

\* What the server does: corrections by others, and the answers to loads, saves and
\* re-runs.  A text it stores is the column's reading of what was typed.
LEMMA VerifyServerStep ==
  ASSUME VerifyInv,
         \/ \E f \in Fields, text \in Typed : Verify!CorrectElsewhere(f, text)
         \/ \E n \in DOMAIN reads : Verify!ServeLoad(n)
         \/ \E n \in DOMAIN saves : Verify!ServeSave(n)
         \/ Verify!ServeRerun
  PROVE  VerifyInv'
  <1>1. ASSUME NEW f \in Fields, NEW text \in Typed, Verify!CorrectElsewhere(f, text)
        PROVE  VerifyInv'
    <2>1. /\ text \in Values /\ Verify!correct_field(f, text)
          /\ acked' = [acked EXCEPT ![f] = Verify!None]
          /\ UNCHANGED <<rerun, invoice, failure, rerunning, left, editor, reads, saves, reruns>>
      BY <1>1, VerifyAssumption DEF Verify!CorrectElsewhere
    <2>2. /\ stored' \in [Fields -> Values] /\ fixed' \subseteq Fields
          /\ acked' \in [Fields -> Values \cup {Verify!None}]
          /\ fixed \subseteq fixed' /\ Acknowledged'
      BY <2>1, CorrectionKept
    <2>3. VerifyTyped'
      BY <2>1, <2>2 DEF VerifyInv, VerifyTyped
    <2>4. Confirmed'
      BY <2>1, <2>2, ConfirmedKept DEF VerifyInv
    <2>5. Mounted'
      BY <2>1 DEF VerifyInv, Mounted, Verify!PanelMounted
    <2>6. QED
      BY <2>2, <2>3, <2>4, <2>5 DEF VerifyInv
  <1>2. ASSUME NEW n \in DOMAIN reads, Verify!ServeLoad(n)
        PROVE  VerifyInv'
    <2> DEFINE a == Verify!toInvoice(stored, fixed)
    <2>1. /\ F!MayAnswer(reads, reads', n, a)
          /\ UNCHANGED <<stored, fixed, rerun, invoice, failure, rerunning, left, editor, saves,
                         reruns, acked>>
      BY <1>2, VerifyFetches DEF Verify!ServeLoad, Verify!server
    <2>2. a \in Verify!VerificationInvoice /\ a.corrected = fixed
      BY VerifyHas DEF Verify!toInvoice, Verify!VerificationInvoice
    <2> HIDE DEF a
    <2>3. /\ n \in 1..MaxInvoiceLoads
          /\ Requested(reads, MaxInvoiceLoads, {Verify!None}, Verify!VerificationInvoice)
      BY VerifyHas DEF Requested
    <2>4. PICK r \in Fetch({Verify!None}, Verify!VerificationInvoice) :
            /\ r.state = "answered" => r.answer = a
            /\ reads' = [reads EXCEPT ![n] = r]
      BY <2>1, <2>2, <2>3, FetchAnswered
    <2>5. /\ reads' \in [1..MaxInvoiceLoads -> Fetch({Verify!None}, Verify!VerificationInvoice)]
          /\ reads'[n] = r /\ \A m \in 1..MaxInvoiceLoads : m # n => reads'[m] = reads[m]
      BY <2>3, <2>4, VerifyHas
    <2>6. VerifyTyped'
      BY <2>1, <2>5 DEF VerifyInv, VerifyTyped
    <2>7. Confirmed'
      BY <2>1, <2>2, <2>4, <2>5 DEF VerifyInv, Confirmed
    <2>8. Mounted' /\ Acknowledged'
      BY <2>1 DEF VerifyInv, Mounted, Acknowledged, Verify!PanelMounted
    <2>9. QED
      BY <2>6, <2>7, <2>8 DEF VerifyInv
  <1>3. ASSUME NEW n \in DOMAIN saves, Verify!ServeSave(n)
        PROVE  VerifyInv'
    <2> DEFINE s == saves[n].request
    <2>1. /\ saves[n].state = "sent" /\ n \in 1..MaxSaves
          /\ UNCHANGED <<rerun, invoice, failure, rerunning, left, editor, reads, reruns>>
      BY <1>3, VerifyHas DEF Verify!ServeSave
    <2>2. s \in Verify!SaveRequest
      BY <2>1, VerifyHas, Kinds
    <2>3. s.field \in Fields /\ s.text \in Values
      BY <2>2 DEF Verify!SaveRequest
    <2>4. ASSUME NEW r \in Fetch(Verify!SaveRequest, Values),
                 r.state \in {"answered", "failed"}, r.request = s,
                 saves' = [saves EXCEPT ![n] = r]
          PROVE  /\ saves' \in [1..MaxSaves -> Fetch(Verify!SaveRequest, Values)]
                 /\ saves'[n] = r /\ \A m \in 1..MaxSaves : m # n => saves'[m] = saves[m]
                 /\ Mounted'
      <3>1. /\ saves' \in [1..MaxSaves -> Fetch(Verify!SaveRequest, Values)]
            /\ saves'[n] = r /\ \A m \in 1..MaxSaves : m # n => saves'[m] = saves[m]
        BY <2>1, <2>4, VerifyHas
      <3>2. Verify!PanelMounted' = Verify!PanelMounted
        BY <2>1 DEF Verify!PanelMounted
      <3>3. QED
        BY <2>1, <2>4, <3>1, <3>2 DEF VerifyInv, Mounted, Underway
    <2>5. CASE /\ Verify!correct_field(s.field, s.text)
               /\ F!MayAnswer(saves, saves', n, s.text)
               /\ acked' = [acked EXCEPT ![s.field] = Verify!None]
      <3>1. PICK r \in Fetch(Verify!SaveRequest, Values) :
              /\ r.state \in {"answered", "failed"} /\ r.request = s
              /\ r.state = "answered" => r.answer = s.text
              /\ saves' = [saves EXCEPT ![n] = r]
        <4>1. PICK a \in Values : a = s.text
          BY <2>3
        <4>2. F!MayAnswer(saves, saves', n, a)
          BY <2>5, <4>1
        <4>3. Requested(saves, MaxSaves, Verify!SaveRequest, Values)
          BY VerifyHas DEF Requested
        <4>4. \E r \in Fetch(Verify!SaveRequest, Values) :
                /\ r.state \in {"answered", "failed"} /\ r.request = saves[n].request
                /\ r.state = "answered" => r.answer = a
                /\ saves' = [saves EXCEPT ![n] = r]
          BY <2>1, <4>2, <4>3, FetchAnswered
        <4>5. QED
          BY <4>1, <4>4
      <3>2. /\ stored' \in [Fields -> Values] /\ fixed' \subseteq Fields
            /\ acked' \in [Fields -> Values \cup {Verify!None}]
            /\ fixed \subseteq fixed' /\ s.field \in fixed' /\ Acknowledged'
        <4>1. PICK f \in Fields, text \in Values : f = s.field /\ text = s.text
          BY <2>3
        <4>2. QED
          BY <2>1, <2>5, <4>1, CorrectionKept
      <3>3. /\ saves' \in [1..MaxSaves -> Fetch(Verify!SaveRequest, Values)]
            /\ saves'[n] = r /\ \A m \in 1..MaxSaves : m # n => saves'[m] = saves[m]
            /\ Mounted'
        BY <2>4, <3>1
      <3>4. VerifyTyped'
        BY <2>1, <3>2, <3>3 DEF VerifyInv, VerifyTyped
      <3>5. Confirmed'
        BY <2>1, <3>1, <3>2, <3>3 DEF VerifyInv, Confirmed
      <3>6. QED
        BY <3>2, <3>3, <3>4, <3>5 DEF VerifyInv
    <2>6. CASE /\ saves' = [saves EXCEPT ![n] = F!Failed(s)]
               /\ UNCHANGED <<stored, fixed, acked>>
      <3>1. /\ F!Failed(s) \in Fetch(Verify!SaveRequest, Values)
            /\ F!Failed(s).state = "failed" /\ F!Failed(s).request = s
        BY <2>2 DEF F!Failed, Fetch
      <3>2. /\ saves' \in [1..MaxSaves -> Fetch(Verify!SaveRequest, Values)]
            /\ saves'[n] = F!Failed(s) /\ \A m \in 1..MaxSaves : m # n => saves'[m] = saves[m]
            /\ Mounted'
        BY <2>4, <2>6, <3>1
      <3>3. VerifyTyped'
        BY <2>1, <2>6, <3>2 DEF VerifyInv, VerifyTyped
      <3>4. Confirmed'
        BY <2>1, <2>6, <3>1, <3>2 DEF VerifyInv, Confirmed
      <3>5. Acknowledged'
        BY <2>1, <2>6 DEF VerifyInv, Acknowledged
      <3>6. QED
        BY <3>2, <3>3, <3>4, <3>5 DEF VerifyInv
    <2>7. QED
      BY <1>3, <2>5, <2>6, VerifyFetches DEF Verify!ServeSave
  <1>4. CASE Verify!ServeRerun
    <2>1. /\ reruns' \in {F!Answered(Verify!None, Verify!None), F!Failed(Verify!None)}
          /\ rerun' = TRUE \/ rerun' = rerun
          /\ reruns' = F!Answered(Verify!None, Verify!None) => rerun' = TRUE
          /\ UNCHANGED <<stored, fixed, invoice, failure, rerunning, left, editor, reads, saves,
                         acked>>
      <3>1. F!Answered(Verify!None, Verify!None) # F!Failed(Verify!None)
        BY DEF F!Answered, F!Failed
      <3>2. QED
        BY <1>4, <3>1, VerifyFetches DEF Verify!ServeRerun
    <2>2. VerifyTyped'
      <3>1. rerun' \in BOOLEAN
        BY <2>1 DEF VerifyInv, VerifyTyped
      <3>2. QED
        BY <2>1, <3>1 DEF VerifyInv, VerifyTyped
    <2>3. Confirmed'
      <3>1. left' = TRUE => rerun' = TRUE
        BY <2>1 DEF VerifyInv, Confirmed
      <3>2. QED
        BY <2>1, <3>1 DEF VerifyInv, Confirmed
    <2>4. Mounted' /\ Acknowledged'
      BY <2>1 DEF VerifyInv, Mounted, Acknowledged, Verify!PanelMounted
    <2>5. QED
      BY <2>2, <2>3, <2>4 DEF VerifyInv
  <1>5. QED
    BY <1>1, <1>2, <1>3, <1>4

-----------------------------------------------------------------------------

\* An editor that stays mounted and shows what it showed.
LEMMA EditorKept ==
  ASSUME VerifyInv, NEW f \in Fields, editor[f].mode # "absent",
         NEW e \in Verify!EditableValue, e.mode # "absent", e.display = editor[f].display,
         editor' = [editor EXCEPT ![f] = e], UNCHANGED <<stored, invoice, failure, acked>>
  PROVE  /\ editor' \in [Fields -> Verify!EditableValue]
         /\ Verify!PanelMounted' = Verify!PanelMounted /\ Verify!PanelMounted
         /\ \A g \in Fields : editor'[g].mode = "absent" <=> ~Verify!PanelMounted'
         /\ Acknowledged'
  <1>1. /\ editor' \in [Fields -> Verify!EditableValue] /\ editor'[f] = e
        /\ \A g \in Fields : g # f => editor'[g] = editor[g]
    BY VerifyHas
  <1>2. Verify!PanelMounted' = Verify!PanelMounted
    BY DEF Verify!PanelMounted
  <1>3. Verify!PanelMounted
    BY DEF VerifyInv, Mounted
  <1>4. \A g \in Fields : editor'[g].mode = "absent" <=> ~Verify!PanelMounted'
    BY <1>1, <1>2, <1>3 DEF VerifyInv, Mounted
  <1>5. Acknowledged'
    BY <1>1 DEF VerifyInv, Acknowledged
  <1>6. QED
    BY <1>1, <1>2, <1>3, <1>4, <1>5

\* Editing changes one mounted editor; a save is sent from it, and is no orphan.
LEMMA VerifyEditStep ==
  ASSUME VerifyInv, NEW f \in Fields,
         \/ Verify!startEdit(f) \/ \E text \in Typed : Verify!TypeDraft(f, text)
         \/ Verify!cancelEdit(f) \/ Verify!commitEdit(f)
  PROVE  VerifyInv'
  <1>1. editor[f] \in Verify!EditableValue /\ editor[f].display \in Values
    BY VerifyHas DEF Verify!EditableValue
  <1>2. ASSUME NEW e \in Verify!EditableValue, editor[f].mode # "absent", e.mode # "absent",
               e.display = editor[f].display, editor' = [editor EXCEPT ![f] = e],
               UNCHANGED <<stored, fixed, rerun, invoice, failure, rerunning, left, reads, saves,
                           reruns, acked>>
        PROVE  VerifyInv'
    <2>1. /\ editor' \in [Fields -> Verify!EditableValue]
          /\ Verify!PanelMounted' = Verify!PanelMounted
          /\ \A g \in Fields : editor'[g].mode = "absent" <=> ~Verify!PanelMounted'
          /\ Acknowledged'
      BY <1>2, EditorKept
    <2>2. VerifyTyped'
      BY <1>2, <2>1 DEF VerifyInv, VerifyTyped
    <2>3. Confirmed'
      BY <1>2, ConfirmedKept DEF VerifyInv
    <2>4. Mounted'
      BY <1>2, <2>1 DEF VerifyInv, Mounted
    <2>5. QED
      BY <2>1, <2>2, <2>3, <2>4 DEF VerifyInv
  <1>3. CASE Verify!startEdit(f)
    <2> DEFINE e == [editor[f] EXCEPT !.mode = "edit", !.draft = editor[f].display]
    <2>1. e \in Verify!EditableValue /\ e.mode = "edit" /\ e.display = editor[f].display
      BY <1>1 DEF Verify!EditableValue
    <2>2. editor' = [editor EXCEPT ![f] = e]
      BY <1>1, <1>3, VerifyHas DEF Verify!startEdit, Verify!EditableValue
    <2> HIDE DEF e
    <2>3. QED
      BY <1>2, <1>3, <2>1, <2>2 DEF Verify!startEdit, Verify!server
  <1>4. ASSUME NEW text \in Typed, Verify!TypeDraft(f, text)
        PROVE  VerifyInv'
    <2> DEFINE e == [editor[f] EXCEPT !.draft = text]
    <2>1. e \in Verify!EditableValue /\ e.mode = editor[f].mode /\ e.display = editor[f].display
      BY <1>1, VerifyAssumption DEF Verify!EditableValue
    <2>2. editor' = [editor EXCEPT ![f] = e]
      BY <1>1, <1>4, VerifyHas DEF Verify!TypeDraft, Verify!EditableValue
    <2> HIDE DEF e
    <2>3. QED
      BY <1>2, <1>4, <2>1, <2>2 DEF Verify!TypeDraft, Verify!server
  <1>5. ASSUME editor[f].mode = "edit", editor' = [editor EXCEPT ![f] = Verify!Showing(@.display)],
               UNCHANGED <<stored, fixed, rerun, invoice, failure, rerunning, left, reads, saves,
                           reruns, acked>>
        PROVE  VerifyInv'
    <2> DEFINE e == Verify!Showing(editor[f].display)
    <2>1. e \in Verify!EditableValue /\ e.mode = "view" /\ e.display = editor[f].display
      BY <1>1, VerifyHas
    <2>2. editor' = [editor EXCEPT ![f] = e]
      BY <1>5, VerifyHas
    <2> HIDE DEF e
    <2>3. QED
      BY <1>2, <1>5, <2>1, <2>2
  <1>6. CASE Verify!cancelEdit(f)
    BY <1>5, <1>6 DEF Verify!cancelEdit, Verify!server
  <1>7. ASSUME Verify!commitEdit(f), editor[f].draft = editor[f].display
        PROVE  VerifyInv'
    BY <1>5, <1>7 DEF Verify!commitEdit, Verify!server
  <1>8. ASSUME Verify!commitEdit(f), editor[f].draft # editor[f].display
        PROVE  VerifyInv'
    <2> DEFINE q == [field |-> f, text |-> editor[f].draft, orphan |-> FALSE]
               e == [editor[f] EXCEPT !.mode = "saving"]
    <2>1. PICK n \in DOMAIN saves : saves' = [saves EXCEPT ![n] = F!Sent(q)]
      BY <1>8, VerifyFetches DEF Verify!commitEdit
    <2>2. /\ q \in Verify!SaveRequest
          /\ F!Sent(q) \in Fetch(Verify!SaveRequest, Values) /\ F!Sent(q).state = "sent"
      <3>1. q \in Verify!SaveRequest
        BY <1>1 DEF Verify!SaveRequest, Verify!EditableValue
      <3>2. QED
        BY <3>1 DEF F!Sent, Fetch
    <2>3. e \in Verify!EditableValue /\ e.mode = "saving" /\ e.display = editor[f].display
      BY <1>1 DEF Verify!EditableValue
    <2>4. /\ editor' = [editor EXCEPT ![f] = e] /\ editor[f].mode = "edit"
          /\ UNCHANGED <<stored, fixed, rerun, invoice, failure, rerunning, left, reads, reruns,
                         acked>>
      BY <1>1, <1>8, VerifyHas DEF Verify!commitEdit, Verify!EditableValue, Verify!server
    <2> HIDE DEF e, q
    <2>5. /\ editor' \in [Fields -> Verify!EditableValue]
          /\ Verify!PanelMounted' = Verify!PanelMounted /\ Verify!PanelMounted
          /\ \A g \in Fields : editor'[g].mode = "absent" <=> ~Verify!PanelMounted'
          /\ Acknowledged'
      BY <2>3, <2>4, EditorKept
    <2>6. /\ saves' \in [1..MaxSaves -> Fetch(Verify!SaveRequest, Values)]
          /\ saves'[n].state = "sent" /\ \A m \in 1..MaxSaves : m # n => saves'[m] = saves[m]
      BY <2>1, <2>2, VerifyHas
    <2>7. VerifyTyped'
      BY <2>4, <2>5, <2>6 DEF VerifyInv, VerifyTyped
    <2>8. Confirmed'
      BY <2>4, <2>6 DEF VerifyInv, Confirmed
    <2>9. Mounted'
      <3>1. invoice' # Verify!NoInvoice
        BY <2>4, <2>5 DEF Verify!PanelMounted
      <3>2. QED
        BY <2>5, <3>1 DEF Mounted
    <2>10. QED
      BY <2>5, <2>7, <2>8, <2>9 DEF VerifyInv
  <1>9. QED
    BY <1>3, <1>4, <1>6, <1>7, <1>8

\* The error page: no panel, no editor, and all that is under way is an orphan.
LEMMA ErrorShown ==
  ASSUME VerifyInv, Verify!ShowError, saves' = Verify!Orphaned(saves),
         UNCHANGED <<stored, fixed, rerun, invoice, left, acked>>,
         rerunning' \in BOOLEAN,
         reads' \in [1..MaxInvoiceLoads -> Fetch({Verify!None}, Verify!VerificationInvoice)],
         \A n \in 1..MaxInvoiceLoads : reads'[n].state = "answered" => reads'[n] = reads[n],
         reruns' \in {F!NotSent, reruns}
  PROVE  VerifyInv'
  <1>1. failure' = TRUE /\ editor' = [f \in Fields |-> Verify!Absent]
    BY DEF Verify!ShowError
  <1>2. /\ editor' \in [Fields -> Verify!EditableValue]
        /\ \A f \in Fields : editor'[f].mode = "absent"
    BY <1>1, VerifyHas
  <1>3. ~Verify!PanelMounted'
    BY <1>1 DEF Verify!PanelMounted
  <1>4. ASSUME NEW n \in 1..MaxSaves
        PROVE  /\ saves'[n] \in Fetch(Verify!SaveRequest, Values)
               /\ Underway(saves'[n]) <=> Underway(saves[n])
               /\ Underway(saves[n]) =>
                    /\ saves'[n].request.orphan = TRUE
                    /\ saves'[n].state = saves[n].state
                    /\ saves'[n].request.field = saves[n].request.field
                    /\ saves'[n].request.text = saves[n].request.text
                    /\ saves[n].state = "answered" => saves'[n].answer = saves[n].answer
    <2>1. saves[n] \in Fetch(Verify!SaveRequest, Values) /\ n \in DOMAIN saves
      BY VerifyHas
    <2>2. saves'[n] = IF Underway(saves[n]) THEN [saves[n] EXCEPT !.request.orphan = TRUE]
                      ELSE saves[n]
      BY <2>1 DEF Verify!Orphaned, Underway
    <2>3. CASE Underway(saves[n])
      <3>1. PICK r \in Fetch(Verify!SaveRequest, Values) : r = saves[n]
        BY <2>1
      <3>2. Underway(r) /\ saves'[n] = [r EXCEPT !.request.orphan = TRUE]
        BY <2>2, <2>3, <3>1
      <3>3. /\ saves'[n] \in Fetch(Verify!SaveRequest, Values)
            /\ saves'[n].state = r.state /\ saves'[n].request.orphan = TRUE
            /\ saves'[n].request.field = r.request.field
            /\ saves'[n].request.text = r.request.text
            /\ r.state = "answered" => saves'[n].answer = r.answer
        BY <3>2, Orphan
      <3>4. QED
        BY <2>3, <3>1, <3>3 DEF Underway
    <2>4. CASE ~Underway(saves[n])
      BY <2>1, <2>2, <2>4
    <2>5. QED
      BY <2>3, <2>4
  <1>5. saves' \in [1..MaxSaves -> Fetch(Verify!SaveRequest, Values)]
    <2>1. saves' = [n \in 1..MaxSaves |-> saves'[n]]
      BY VerifyHas DEF Verify!Orphaned
    <2>2. QED
      BY <1>4, <2>1
  <1>6. VerifyTyped'
    <2>1. reruns' \in {F!NotSent, F!Sent(Verify!None), F!Answered(Verify!None, Verify!None),
                       F!Failed(Verify!None)}
      BY DEF VerifyInv, VerifyTyped
    <2>2. QED
      BY <1>1, <1>2, <1>5, <2>1 DEF VerifyInv, VerifyTyped
  <1>7. Confirmed'
    <2>1. F!NotSent # F!Answered(Verify!None, Verify!None)
      BY DEF F!NotSent, F!Answered
    <2>2. \A n \in 1..MaxSaves :
            saves'[n].state = "answered" =>
              saves'[n].request.field \in fixed /\ saves'[n].answer = saves'[n].request.text
      <3>1. ASSUME NEW n \in 1..MaxSaves, saves'[n].state = "answered"
            PROVE  saves'[n].request.field \in fixed /\ saves'[n].answer = saves'[n].request.text
        <4>1. Underway(saves'[n])
          BY <3>1 DEF Underway
        <4>2. saves[n].state = "answered"
          BY <1>4, <3>1, <4>1
        <4>3. QED
          BY <1>4, <4>1, <4>2 DEF VerifyInv, Confirmed
      <3>2. QED
        BY <3>1
    <2>3. QED
      BY <2>1, <2>2 DEF VerifyInv, Confirmed
  <1>8. Mounted'
    <2>1. \A n \in 1..MaxSaves :
            Underway(saves'[n]) =>
              invoice # Verify!NoInvoice /\ saves'[n].request.orphan # FALSE
      BY <1>4 DEF VerifyInv, Mounted
    <2>2. QED
      BY <1>2, <1>3, <2>1 DEF Mounted
  <1>9. Acknowledged'
    BY <1>2 DEF VerifyInv, Acknowledged
  <1>10. QED
    BY <1>6, <1>7, <1>8, <1>9 DEF VerifyInv

\* The answer to a load mounts the panel anew or shows the error page; the saves that
\* were under way are orphans then.
LEMMA VerifyLoadStep ==
  ASSUME VerifyInv,
         \/ \E n \in DOMAIN reads : Verify!LoadArrives(n) \/ Verify!LoadFails(n)
         \/ Verify!Retry
  PROVE  VerifyInv'
  <1> DEFINE I == Verify!VerificationInvoice
  <1>1. /\ F!Handled \in Fetch({Verify!None}, I) /\ F!Handled.state = "handled"
        /\ F!Sent(Verify!None) \in Fetch({Verify!None}, I)
        /\ F!Sent(Verify!None).state = "sent"
    BY DEF Fetch, F!Handled, F!Sent
  <1>2. ASSUME NEW values \in [Fields -> Values]
        PROVE  /\ Verify!FieldsPanel(values) \in [Fields -> Verify!EditableValue]
               /\ \A f \in Fields : /\ Verify!FieldsPanel(values)[f].mode # "absent"
                                    /\ Verify!FieldsPanel(values)[f].display = values[f]
    <2>1. \A f \in Fields : values[f] \in Values
      BY <1>2
    <2>2. QED
      BY <2>1, VerifyHas DEF Verify!FieldsPanel
  <1>3. ASSUME NEW n \in DOMAIN reads, Verify!LoadArrives(n)
        PROVE  VerifyInv'
    <2>1. reads[n].state = "answered" /\ n \in 1..MaxInvoiceLoads
          /\ reads[n] \in Fetch({Verify!None}, I)
      BY <1>3, VerifyHas DEF Verify!LoadArrives
    <2>2. PICK answer \in I : answer = reads[n].answer
      BY <2>1, Kinds
    <2>3. /\ invoice' = answer
          /\ editor' = IF invoice = Verify!NoInvoice /\ ~failure
                         THEN Verify!FieldsPanel(answer.values) ELSE editor
          /\ acked' = [f \in Fields |-> IF answer.values[f] = stored[f] THEN acked[f]
                                        ELSE Verify!None]
          /\ reads' = [reads EXCEPT ![n] = F!Handled]
          /\ UNCHANGED <<stored, fixed, rerun, failure, rerunning, left, saves, reruns>>
      BY <1>3, <2>2, VerifyFetches DEF Verify!LoadArrives, Verify!server
    <2>4. answer # Verify!NoInvoice /\ answer.values \in [Fields -> Values]
      BY VerifyHas DEF Verify!VerificationInvoice
    <2>5. answer.corrected \subseteq fixed
      BY <2>1, <2>2 DEF VerifyInv, Confirmed
    <2>6. /\ editor' \in [Fields -> Verify!EditableValue]
          /\ invoice = Verify!NoInvoice /\ ~failure =>
               \A f \in Fields : /\ editor'[f].mode # "absent"
                                 /\ editor'[f].display = answer.values[f]
          /\ ~(invoice = Verify!NoInvoice /\ ~failure) => editor' = editor
      BY <1>2, <2>3, <2>4, VerifyHas
    <2>7. /\ reads' \in [1..MaxInvoiceLoads -> Fetch({Verify!None}, I)]
          /\ reads'[n].state = "handled"
          /\ \A m \in 1..MaxInvoiceLoads : m # n => reads'[m] = reads[m]
      BY <1>1, <2>1, <2>3, VerifyHas
    <2>8. acked' \in [Fields -> Values \cup {Verify!None}]
      BY <2>3, VerifyHas
    <2>9. VerifyTyped'
      BY <2>3, <2>6, <2>7, <2>8 DEF VerifyInv, VerifyTyped
    <2>10. Confirmed'
      BY <2>3, <2>5, <2>7 DEF VerifyInv, Confirmed
    <2>11. Mounted'
      <3>1. Verify!PanelMounted' <=> ~failure
        BY <2>3, <2>4 DEF Verify!PanelMounted
      <3>2. Verify!PanelMounted => ~failure
        BY DEF Verify!PanelMounted
      <3>3. \A f \in Fields : editor'[f].mode = "absent" <=> failure
        <4>1. CASE invoice = Verify!NoInvoice /\ ~failure
          BY <2>6, <4>1
        <4>2. CASE ~(invoice = Verify!NoInvoice /\ ~failure)
          <5>1. editor' = editor /\ (Verify!PanelMounted <=> ~failure)
            BY <2>6, <4>2 DEF Verify!PanelMounted
          <5>2. QED
            BY <5>1 DEF VerifyInv, Mounted
        <4>3. QED
          BY <4>1, <4>2
      <3>4. QED
        BY <2>3, <2>4, <3>1, <3>2, <3>3 DEF VerifyInv, Mounted
    <2>12. Acknowledged'
      <3>1. ASSUME NEW f \in Fields, acked'[f] # Verify!None
            PROVE  /\ Column[answer.values[f]] = stored[f]
                   /\ editor'[f].mode # "absent" => Column[editor'[f].display] = stored[f]
        <4>1. answer.values[f] = stored[f] /\ acked[f] # Verify!None
          BY <2>3, <3>1
        <4>2. Column[stored[f]] = stored[f]
          BY DEF VerifyInv, Acknowledged
        <4>3. QED
          BY <2>6, <4>1, <4>2 DEF VerifyInv, Acknowledged
      <3>2. QED
        BY <2>3, <3>1 DEF VerifyInv, Acknowledged
    <2>13. QED
      BY <2>9, <2>10, <2>11, <2>12 DEF VerifyInv
  <1>4. ASSUME NEW n \in DOMAIN reads, Verify!LoadFails(n)
        PROVE  VerifyInv'
    <2>1. /\ reads' = [reads EXCEPT ![n] = F!Handled] /\ n \in 1..MaxInvoiceLoads
          /\ Verify!ShowError /\ saves' = Verify!Orphaned(saves)
          /\ UNCHANGED <<stored, fixed, rerun, invoice, rerunning, left, reruns, acked>>
      BY <1>4, VerifyFetches, VerifyHas DEF Verify!LoadFails, Verify!server
    <2>2. /\ reads' \in [1..MaxInvoiceLoads -> Fetch({Verify!None}, I)]
          /\ \A m \in 1..MaxInvoiceLoads :
               reads'[m].state = "answered" => reads'[m] = reads[m]
      BY <1>1, <2>1, VerifyHas
    <2>3. rerunning' \in BOOLEAN
      BY <2>1, VerifyHas
    <2>4. QED
      BY <2>1, <2>2, <2>3, ErrorShown
  <1>5. CASE Verify!Retry
    <2>1. PICK n \in DOMAIN reads : reads' = [reads EXCEPT ![n] = F!Sent(Verify!None)]
      BY <1>5, VerifyFetches DEF Verify!Retry
    <2>2. /\ failure = TRUE /\ failure' = FALSE
          /\ editor' = IF invoice = Verify!NoInvoice THEN editor
                       ELSE Verify!FieldsPanel(invoice.values)
          /\ UNCHANGED <<stored, fixed, rerun, invoice, rerunning, left, saves, reruns, acked>>
      BY <1>5, VerifyHas DEF Verify!Retry, Verify!server
    <2>3. /\ editor' \in [Fields -> Verify!EditableValue]
          /\ invoice = Verify!NoInvoice => editor' = editor
          /\ invoice # Verify!NoInvoice =>
               \A f \in Fields : /\ editor'[f].mode # "absent"
                                 /\ editor'[f].display = invoice.values[f]
      BY <1>2, <2>2, VerifyHas
    <2>4. /\ reads' \in [1..MaxInvoiceLoads -> Fetch({Verify!None}, I)]
          /\ reads'[n].state = "sent"
          /\ \A m \in 1..MaxInvoiceLoads : m # n => reads'[m] = reads[m]
      BY <1>1, <2>1, VerifyHas
    <2>5. VerifyTyped'
      BY <2>2, <2>3, <2>4 DEF VerifyInv, VerifyTyped
    <2>6. Confirmed'
      BY <2>2, <2>4 DEF VerifyInv, Confirmed
    <2>7. ~Verify!PanelMounted /\ (Verify!PanelMounted' <=> invoice # Verify!NoInvoice)
      BY <2>2 DEF Verify!PanelMounted
    <2>8. Mounted'
      BY <2>2, <2>3, <2>7 DEF VerifyInv, Mounted
    <2>9. Acknowledged'
      BY <2>2, <2>3 DEF VerifyInv, Acknowledged
    <2>10. QED
      BY <2>5, <2>6, <2>8, <2>9 DEF VerifyInv
  <1>6. QED
    BY <1>3, <1>4, <1>5

\* The answer to a save changes the invoice, and its editor unless that is gone.
LEMMA VerifySaveStep ==
  ASSUME VerifyInv, NEW n \in DOMAIN saves, Verify!SaveAnswered(n) \/ Verify!SaveFails(n)
  PROVE  VerifyInv'
  <1> DEFINE s == saves[n].request
  <1>1. /\ saves[n].state \in {"answered", "failed"} /\ n \in 1..MaxSaves
        /\ saves[n] \in Fetch(Verify!SaveRequest, Values)
        /\ saves' = [saves EXCEPT ![n] = F!Handled]
        /\ UNCHANGED <<stored, fixed, rerun, failure, rerunning, left, reads, reruns>>
    BY VerifyFetches, VerifyHas DEF Verify!SaveAnswered, Verify!SaveFails, Verify!server
  <1>2. s \in Verify!SaveRequest
    BY <1>1, Kinds
  <1>3. s.field \in Fields /\ s.text \in Values /\ s.orphan \in BOOLEAN
    BY <1>2 DEF Verify!SaveRequest
  <1>4. /\ saves' \in [1..MaxSaves -> Fetch(Verify!SaveRequest, Values)]
        /\ ~Underway(saves'[n]) /\ saves'[n].state # "answered"
        /\ \A m \in 1..MaxSaves : m # n => saves'[m] = saves[m]
    <2>1. F!Handled \in Fetch(Verify!SaveRequest, Values) /\ F!Handled.state = "handled"
      BY DEF Fetch, F!Handled
    <2>2. QED
      BY <1>1, <2>1, VerifyHas DEF Underway
  <1>5. /\ invoice # Verify!NoInvoice
        /\ s.orphan = FALSE => Verify!PanelMounted
    BY <1>1 DEF VerifyInv, Mounted, Underway
  <1>6. ASSUME s.orphan = FALSE
        PROVE  editor[s.field].mode # "absent"
    BY <1>3, <1>5, <1>6 DEF VerifyInv, Mounted
  <1>7. CASE Verify!SaveAnswered(n)
    <2>1. /\ invoice' = Verify!applyCorrection(invoice, s.field, saves[n].answer)
          /\ editor' = IF s.orphan THEN editor
                       ELSE [editor EXCEPT ![s.field] = Verify!Showing(s.text)]
          /\ acked' = [acked EXCEPT ![s.field] =
                         IF stored[s.field] = Column[s.text] /\ ~(s.orphan /\ Verify!PanelMounted)
                           THEN s.text ELSE Verify!None]
      BY <1>7 DEF Verify!SaveAnswered, Verify!animateToNewValue
    <2>2. s.field \in fixed /\ saves[n].answer = s.text
      BY <1>1, <1>7 DEF VerifyInv, Confirmed, Verify!SaveAnswered
    <2>3. invoice \in Verify!VerificationInvoice /\ invoice.values \in [Fields -> Values]
          /\ invoice.corrected \subseteq Fields
      BY <1>5, VerifyHas DEF Verify!VerificationInvoice
    <2>4. /\ invoice'.values = [invoice.values EXCEPT ![s.field] = s.text]
          /\ invoice'.corrected = invoice.corrected \cup {s.field}
          /\ invoice' \in Verify!VerificationInvoice
      <3>1. invoice' = [invoice EXCEPT !.values[s.field] = s.text,
                                       !.corrected = invoice.corrected \cup {s.field}]
        BY <2>1, <2>2, <2>3 DEF Verify!applyCorrection, Verify!VerificationInvoice
      <3>2. invoice'.values = [invoice.values EXCEPT ![s.field] = s.text]
        BY <2>3, <3>1 DEF Verify!VerificationInvoice
      <3>3. invoice'.corrected = invoice.corrected \cup {s.field}
        BY <2>3, <3>1 DEF Verify!VerificationInvoice
      <3>4. [invoice.values EXCEPT ![s.field] = s.text] \in [Fields -> Values]
        BY <1>3, <2>3
      <3>5. invoice' = [values |-> [invoice.values EXCEPT ![s.field] = s.text],
                        corrected |-> invoice.corrected \cup {s.field}]
        BY <2>3, <3>1 DEF Verify!VerificationInvoice
      <3>6. invoice' \in Verify!VerificationInvoice
        BY <1>3, <2>3, <3>4, <3>5 DEF Verify!VerificationInvoice
      <3>7. QED
        BY <3>2, <3>3, <3>6
    <2>5. invoice' # Verify!NoInvoice
      BY <2>4, VerifyHas
    <2>6. Verify!PanelMounted' = Verify!PanelMounted
      BY <1>1, <1>5, <2>5 DEF Verify!PanelMounted
    <2>7. /\ editor' \in [Fields -> Verify!EditableValue]
          /\ \A f \in Fields : f # s.field => editor'[f] = editor[f]
          /\ s.orphan = TRUE => editor'[s.field] = editor[s.field]
          /\ s.orphan = FALSE =>
               editor'[s.field].mode = "view" /\ editor'[s.field].display = s.text
      BY <1>3, <2>1, VerifyHas
    <2>8. /\ acked' \in [Fields -> Values \cup {Verify!None}]
          /\ \A f \in Fields : f # s.field => acked'[f] = acked[f]
          /\ acked'[s.field] # Verify!None =>
               stored[s.field] = Column[s.text] /\ ~(s.orphan /\ Verify!PanelMounted)
      BY <1>3, <2>1, VerifyHas
    <2>9. VerifyTyped'
      BY <1>1, <1>4, <2>4, <2>7, <2>8 DEF VerifyInv, VerifyTyped
    <2>10. Confirmed'
      <3>1. invoice'.corrected \subseteq fixed'
        BY <1>1, <1>5, <2>2, <2>4 DEF VerifyInv, Confirmed
      <3>2. QED
        BY <1>1, <1>4, <3>1 DEF VerifyInv, Confirmed
    <2>11. Mounted'
      <3>1. \A f \in Fields : editor'[f].mode = "absent" <=> ~Verify!PanelMounted
        <4>1. \A f \in Fields : editor[f].mode = "absent" <=> ~Verify!PanelMounted
          BY DEF VerifyInv, Mounted
        <4>2. QED
          BY <1>3, <1>5, <2>7, <4>1
      <3>2. \A m \in 1..MaxSaves :
              Underway(saves'[m]) /\ saves'[m].request.orphan = FALSE => Verify!PanelMounted
        BY <1>4 DEF VerifyInv, Mounted
      <3>3. QED
        BY <2>5, <2>6, <3>1, <3>2 DEF Mounted
    <2>12. Acknowledged'
      <3>1. ASSUME NEW f \in Fields, acked'[f] # Verify!None
            PROVE  /\ Column[invoice'.values[f]] = stored[f]
                   /\ editor'[f].mode # "absent" => Column[editor'[f].display] = stored[f]
        <4>1. CASE f = s.field
          <5>1. stored[f] = Column[s.text] /\ ~(s.orphan /\ Verify!PanelMounted)
            BY <2>8, <3>1, <4>1
          <5>2. invoice'.values[f] = s.text
            BY <1>3, <2>3, <2>4, <4>1
          <5>3. s.orphan = TRUE => editor'[f].mode = "absent"
            BY <1>3, <2>7, <4>1, <5>1 DEF VerifyInv, Mounted
          <5>4. QED
            BY <1>3, <2>7, <4>1, <5>1, <5>2, <5>3
        <4>2. CASE f # s.field
          <5>1. acked[f] # Verify!None /\ editor'[f] = editor[f]
            BY <2>7, <2>8, <3>1, <4>2
          <5>2. invoice'.values[f] = invoice.values[f]
            BY <1>3, <2>3, <2>4, <4>2
          <5>3. QED
            BY <1>5, <5>1, <5>2 DEF VerifyInv, Acknowledged
        <4>3. QED
          BY <4>1, <4>2
      <3>2. QED
        BY <1>1, <3>1 DEF VerifyInv, Acknowledged
    <2>13. QED
      BY <2>9, <2>10, <2>11, <2>12 DEF VerifyInv
  <1>8. CASE Verify!SaveFails(n)
    <2>1. UNCHANGED <<invoice, acked>>
      BY <1>8 DEF Verify!SaveFails
    <2>2. /\ editor' \in [Fields -> Verify!EditableValue]
          /\ Verify!PanelMounted' = Verify!PanelMounted
          /\ \A g \in Fields : editor'[g].mode = "absent" <=> ~Verify!PanelMounted'
          /\ Acknowledged'
      <3>1. CASE s.orphan = TRUE
        <4>1. editor' = editor
          BY <1>8, <3>1 DEF Verify!SaveFails
        <4>2. Verify!PanelMounted' = Verify!PanelMounted
          BY <1>1, <2>1 DEF Verify!PanelMounted
        <4>3. QED
          BY <1>1, <2>1, <4>1, <4>2, VerifyHas DEF VerifyInv, Mounted, Acknowledged
      <3>2. CASE s.orphan = FALSE
        <4>1. editor[s.field] \in Verify!EditableValue
          BY <1>3, VerifyHas
        <4>2. PICK e \in Verify!EditableValue :
                /\ e = [editor[s.field] EXCEPT !.mode = "edit"] /\ e.mode = "edit"
                /\ e.display = editor[s.field].display
          <5> DEFINE d == [editor[s.field] EXCEPT !.mode = "edit"]
          <5>1. /\ d \in Verify!EditableValue /\ d.mode = "edit"
                /\ d.display = editor[s.field].display
            BY <4>1 DEF Verify!EditableValue
          <5>2. QED
            BY <5>1
        <4>3. editor' = [editor EXCEPT ![s.field] = e]
          BY <1>3, <1>8, <3>2, <4>2, VerifyHas DEF Verify!SaveFails
        <4>4. PICK f \in Fields : f = s.field
          BY <1>3
        <4>5. QED
          BY <1>1, <1>6, <2>1, <3>2, <4>2, <4>3, <4>4, EditorKept
      <3>3. QED
        BY <1>3, <3>1, <3>2
    <2>3. VerifyTyped'
      BY <1>1, <1>4, <2>1, <2>2 DEF VerifyInv, VerifyTyped
    <2>4. Confirmed'
      BY <1>1, <1>4, <2>1 DEF VerifyInv, Confirmed
    <2>5. Mounted'
      BY <1>4, <2>1, <2>2 DEF VerifyInv, Mounted
    <2>6. QED
      BY <2>2, <2>3, <2>4, <2>5 DEF VerifyInv
  <1>9. QED
    BY <1>7, <1>8

\* A re-run that fails shows the error page, one that is answered leaves the screen.
LEMMA VerifyRerunStep ==
  ASSUME VerifyInv, Verify!handleRerunMatch \/ Verify!RerunAnswered \/ Verify!RerunFails
  PROVE  VerifyInv'
  <1>1. /\ F!Sent(Verify!None) # F!Answered(Verify!None, Verify!None)
        /\ F!NotSent # F!Answered(Verify!None, Verify!None)
    BY DEF F!NotSent, F!Answered, F!Sent
  <1>2. CASE Verify!handleRerunMatch
    <2>1. /\ rerunning' = TRUE /\ reruns' = F!Sent(Verify!None)
          /\ UNCHANGED <<stored, fixed, rerun, invoice, failure, left, editor, reads, saves, acked>>
      BY <1>2, VerifyFetches DEF Verify!handleRerunMatch, Verify!server
    <2>2. VerifyTyped'
      BY <2>1 DEF VerifyInv, VerifyTyped
    <2>3. Confirmed'
      BY <1>1, <2>1 DEF VerifyInv, Confirmed
    <2>4. Mounted' /\ Acknowledged'
      BY <2>1 DEF VerifyInv, Mounted, Acknowledged, Verify!PanelMounted
    <2>5. QED
      BY <2>2, <2>3, <2>4 DEF VerifyInv
  <1>3. CASE Verify!RerunAnswered
    <2>1. /\ reruns = F!Answered(Verify!None, Verify!None) /\ reruns' = F!NotSent
          /\ left' = TRUE
          /\ reads' = [n \in 1..MaxInvoiceLoads |-> F!Handled]
          /\ saves' = [n \in 1..MaxSaves |-> F!Handled]
          /\ UNCHANGED <<stored, fixed, rerun, invoice, failure, rerunning, editor, acked>>
      BY <1>3, VerifyFetches, VerifyHas DEF Verify!RerunAnswered, Verify!server
    <2>2. /\ F!Handled \in Fetch({Verify!None}, Verify!VerificationInvoice)
          /\ F!Handled \in Fetch(Verify!SaveRequest, Values) /\ F!Handled.state = "handled"
      BY DEF Fetch, F!Handled
    <2>3. /\ reads' \in [1..MaxInvoiceLoads -> Fetch({Verify!None}, Verify!VerificationInvoice)]
          /\ saves' \in [1..MaxSaves -> Fetch(Verify!SaveRequest, Values)]
          /\ \A n \in 1..MaxInvoiceLoads : reads'[n].state = "handled"
          /\ \A n \in 1..MaxSaves : saves'[n].state = "handled"
      BY <2>1, <2>2
    <2>4. VerifyTyped'
      BY <2>1, <2>3 DEF VerifyInv, VerifyTyped
    <2>5. Confirmed'
      BY <1>1, <2>1, <2>3 DEF VerifyInv, Confirmed
    <2>6. Mounted'
      BY <2>1, <2>3 DEF VerifyInv, Mounted, Underway, Verify!PanelMounted
    <2>7. Acknowledged'
      BY <2>1 DEF VerifyInv, Acknowledged
    <2>8. QED
      BY <2>4, <2>5, <2>6, <2>7 DEF VerifyInv
  <1>4. CASE Verify!RerunFails
    <2>1. /\ reruns' = F!NotSent /\ rerunning' = FALSE
          /\ Verify!ShowError /\ saves' = Verify!Orphaned(saves)
          /\ UNCHANGED <<stored, fixed, rerun, invoice, left, reads, acked>>
      BY <1>4, VerifyFetches DEF Verify!RerunFails, Verify!server
    <2>2. /\ reads' \in [1..MaxInvoiceLoads -> Fetch({Verify!None}, Verify!VerificationInvoice)]
          /\ \A n \in 1..MaxInvoiceLoads :
               reads'[n].state = "answered" => reads'[n] = reads[n]
          /\ rerunning' \in BOOLEAN /\ reruns' \in {F!NotSent, reruns}
      BY <2>1, VerifyHas
    <2>3. QED
      BY <2>1, <2>2, ErrorShown
  <1>5. QED
    BY <1>2, <1>3, <1>4

\* Every step of the verification screen keeps its invariant.
LEMMA VerifyStep ==
  ASSUME VerifyInv, Verify!Next \/ UNCHANGED verifyVars
  PROVE  VerifyInv'
  <1>1. CASE UNCHANGED verifyVars
    <2>1. /\ UNCHANGED <<stored, fixed, rerun, invoice, failure, rerunning, left, editor>>
          /\ UNCHANGED <<reads, saves, reruns, acked>>
      BY <1>1 DEF verifyVars
    <2>2. Verify!PanelMounted' = Verify!PanelMounted
      BY <2>1 DEF Verify!PanelMounted
    <2>3. VerifyTyped' /\ Confirmed'
      BY <2>1 DEF VerifyInv, VerifyTyped, Confirmed
    <2>4. Mounted' /\ Acknowledged'
      BY <2>1, <2>2 DEF VerifyInv, Mounted, Acknowledged
    <2>5. QED
      BY <2>3, <2>4 DEF VerifyInv
  <1>2. CASE Verify!Next
    <2>1. ASSUME NEW f \in Fields, NEW text \in Typed,
                 Verify!CorrectElsewhere(f, text) \/ Verify!TypeDraft(f, text)
          PROVE  VerifyInv'
      BY <2>1, VerifyServerStep, VerifyEditStep
    <2>2. ASSUME NEW n \in DOMAIN reads,
                 Verify!ServeLoad(n) \/ Verify!LoadArrives(n) \/ Verify!LoadFails(n)
          PROVE  VerifyInv'
      BY <2>2, VerifyServerStep, VerifyLoadStep
    <2>3. ASSUME NEW n \in DOMAIN saves,
                 Verify!ServeSave(n) \/ Verify!SaveAnswered(n) \/ Verify!SaveFails(n)
          PROVE  VerifyInv'
      BY <2>3, VerifyServerStep, VerifySaveStep
    <2>4. ASSUME \/ Verify!ServeRerun \/ Verify!RerunAnswered \/ Verify!RerunFails
                 \/ Verify!handleRerunMatch \/ Verify!Retry
          PROVE  VerifyInv'
      BY <2>4, VerifyServerStep, VerifyRerunStep, VerifyLoadStep
    <2>5. ASSUME NEW f \in Fields,
                 Verify!startEdit(f) \/ Verify!cancelEdit(f) \/ Verify!commitEdit(f)
          PROVE  VerifyInv'
      BY <2>5, VerifyEditStep
    <2>6. QED
      BY <1>2, <2>1, <2>2, <2>3, <2>4, <2>5 DEF Verify!Next
  <1>3. QED
    BY <1>1, <1>2

\* What the screen promises, from its invariant.
LEMMA VerifyHolds ==
  ASSUME VerifyInv
  PROVE  Verify!TypeOK /\ Verify!CorrectionsAreReal /\ Verify!AckedStaysShown
  <1>1. \A n \in Verify!InState(reads, "answered") : reads[n].answer \in Verify!VerificationInvoice
    BY VerifyHas, Kinds DEF Verify!InState
  <1>2. \A n \in Verify!InState(saves, "sent") \cup Verify!InState(saves, "answered") :
          saves[n].request \in Verify!SaveRequest
    BY VerifyHas, Kinds DEF Verify!InState
  <1>3. Verify!TypeOK
    BY <1>1, <1>2, VerifyFetches DEF VerifyInv, VerifyTyped, Verify!TypeOK
  <1>4. Verify!CorrectionsAreReal
    <2>1. Verify!PanelMounted => invoice.corrected \subseteq fixed
      BY DEF VerifyInv, Confirmed, Verify!PanelMounted
    <2>2. left => rerun
      BY VerifyHas DEF VerifyInv, Confirmed
    <2>3. QED
      BY <2>1, <2>2 DEF Verify!CorrectionsAreReal, Verify!FieldRow, Verify!VerifyFooter
  <1>5. Verify!AckedStaysShown
    BY DEF VerifyInv, Acknowledged, Verify!AckedStaysShown, Verify!FieldRow
  <1>6. QED
    BY <1>3, <1>4, <1>5

-----------------------------------------------------------------------------
(***************************************************************************)
(* The visit                                                               *)
(***************************************************************************)

\* The list of invoices has its types.
LEMMA InvoicesTyped == ASSUME InvoicesInv PROVE Invoices!TypeOK
  <1>1. DOMAIN pages = 1..MaxPageLoads
        /\ pages \in [1..MaxPageLoads -> Fetch(Invoices!InvoicesQuery, InvoicePages)]
    BY DEF InvoicesInv, Fetched
  <1>2. ASSUME NEW n \in Invoices!InState(pages, "sent") \cup Invoices!InState(pages, "answered")
        PROVE  pages[n].request \in Invoices!InvoicesQuery
    <2>1. n \in 1..MaxPageLoads /\ pages[n].state \in {"sent", "answered"}
      BY <1>1, <1>2 DEF Invoices!InState
    <2>2. pages[n] \in Fetch(Invoices!InvoicesQuery, InvoicePages)
      BY <1>1, <2>1
    <2>3. QED
      BY <2>1, <2>2, Kinds
  <1>3. \/ data = Invoices!NoData
        \/ /\ data.items \subseteq Invoices!InvoiceListItem
           /\ data.total \in 0..Invoices!Cardinality(Rows)
    <2>1. Invoices!Cardinality(Rows) = Cardinality(Rows)
      BY InvoicesCardinality
    <2>2. \A d \in InvoicePages :
            d.items \subseteq Invoices!InvoiceListItem /\ d.total \in 0..Cardinality(Rows)
      BY DEF InvoicePages
    <2>3. QED
      BY <2>1, <2>2 DEF InvoicesInv
  <1>4. QED
    BY <1>2, <1>3 DEF InvoicesInv, Invoices!TypeOK

\* The dropzone has its types.
LEMMA UploadTyped == ASSUME UploadInv PROVE Dropzone!TypeOK
  <1>1. 0..1 \subseteq 0..MaxUploads
    BY UploadAssumption
  <1>2. invoices \in [Contents -> 0..MaxUploads]
    BY <1>1 DEF UploadInv, Taken
  <1>3. QED
    BY <1>2 DEF UploadInv, Taken, Dropzone!TypeOK

\* The match screen of a visit, with the inductive invariants of MatchBoardProofs.
BoardInv == ClaimsInv /\ FirstEntrance /\ ElementsOK

\* The match screen starts with its first request, or is not visited.
LEMMA BoardInit == ASSUME NEW m \in BOOLEAN, Start(m) PROVE BoardInv
  BY ClaimsInit, FirstEntranceInit, ElementsInit DEF BoardInv

\* The lemmas of MatchBoardProofs are about any step of the match screen.
LEMMA BoardStep == ASSUME BoardInv, Next \/ UNCHANGED matchVars PROVE BoardInv'
  <1>1. [Next]_vars
    BY DEF matchVars, vars, server
  <1>2. QED
    BY <1>1, ClaimsStep, FirstEntranceStep, ElementsStep DEF BoardInv

\* What every page keeps, in one formula.
VisitInv ==
  /\ VerifyInv /\ ViewerInv /\ ExceptionsInv /\ InvoicesInv
  /\ BoardInv /\ AnalyticsInv /\ BenchmarksInv /\ UploadInv

\* The inductive invariant of a visit.
THEOREM PagesKeepTheirInvariants == Visit => []VisitInv
  <1>1. VisitInit => VisitInv
    BY VerifyInit, ViewerInit, ExceptionsInit, InvoicesInit, BoardInit, AnalyticsInit,
       BenchmarksInit, UploadInit DEF VisitInit, VisitInv
  <1>2. VisitInv /\ [VisitNext]_visitVars => VisitInv'
    BY OnlyTheVisited, VerifyStep, ViewerStep, ExceptionsStep, InvoicesStep, BoardStep,
       AnalyticsStep, BenchmarksStep, UploadStep DEF VisitInv
  <1>3. QED
    BY <1>1, <1>2, PTL DEF Visit

\* A visit of the match screen is a behaviour of MatchBoard, so that the theorems of
\* MatchBoardProofs hold of it: an acknowledged decision is the last of the visit, and
\* every click on a decision is answered (match-board.tsx:162-207).
THEOREM MatchScreenIsVisited == Visit /\ page = "match" => Spec
  <1>1. VisitInit /\ page = "match" => Init
    BY DEF VisitInit, Init
  <1>2. [VisitNext]_visitVars => [Next]_vars
    BY OnlyTheVisited DEF matchVars, vars, server
  <1>3. QED
    BY <1>1, <1>2, PTL DEF Visit, Spec

\* Whichever page is visited, the match screen claims no more than the server has
\* committed (match-board.tsx:184-207, 228-251, 303-366).
THEOREM ClaimsStand == Visit => []NeverClaimsTooMuch
  <1>1. VisitInv => NeverClaimsTooMuch
    BY ClaimsAreBacked DEF VisitInv, BoardInv
  <1>2. QED
    BY <1>1, PagesKeepTheirInvariants, PTL

\* Types: what a page shows is an answer of its server or its null value, its requests are
\* for things it can ask for, and its flags, editors and selections stay within theirs.
THEOREM PagesAreTyped == Visit => []PagesTypeOK
  <1>1. VisitInv => PagesTypeOK
    BY VerifyHolds, ExceptionsHold, InvoicesTyped, TypesHold, BenchmarksHold, UploadTyped
    DEF VisitInv, BoardInv, ViewerInv, AnalyticsInv, PagesTypeOK
  <1>2. QED
    BY <1>1, PagesKeepTheirInvariants, PTL

\* The verification screen (verify-page-client.tsx:57-153, editable-value.tsx:36-124): for
\* every number of fields, loads and saves, whatever others write and in whichever order
\* the answers come, a field is marked as corrected only when its correction is committed,
\* the screen is left only with a committed re-run, and what a save was acknowledged for
\* stays on the screen, through error page and "Retry", until an older answer overtakes it.
THEOREM CorrectionsAreShown == Visit => []CorrectionsStand
  <1>1. VisitInv => CorrectionsStand
    BY VerifyHolds DEF VisitInv, CorrectionsStand
  <1>2. QED
    BY <1>1, PagesKeepTheirInvariants, PTL

\* The viewer shows the document of the current url and no slower one of an earlier url,
\* and lays boxes on pages that have been given a size (document-viewer.tsx:80-93, :181-219),
\* for every number of urls and pages; and a board of the match screen that has had its
\* entrance is visible as long as nobody has clicked "Retry" (match-board.tsx:93).
THEOREM SubjectIsShown == Visit => []ShowsTheSubject
  <1>1. VisitInv => ShowsTheSubject
    BY ViewerShows, FirstEntranceShows DEF VisitInv, BoardInv, ShowsTheSubject
  <1>2. QED
    BY <1>1, PagesKeepTheirInvariants, PTL

\* The lists of exceptions and of invoices are of the filter, the order and the page in the
\* URL once everything is answered, when the newest answer was the last
\* (exceptions-page-client.tsx:41-58, invoices-page-client.tsx:40-60): every change of the
\* query sends a request of its own, for any number of requests, failures and retries.
THEOREM ListsAreOfTheUrl == Visit => []ListsFollowTheUrl
  <1>1. VisitInv => ListsFollowTheUrl
    BY ExceptionsHold, InvoicesFollowTheUrl DEF VisitInv, ListsFollowTheUrl
  <1>2. QED
    BY <1>1, PagesKeepTheirInvariants, PTL

\* The numbers of the analytics page are of the period in its Select, and the details and
\* failures of the benchmarks page of the runs in its selector, once everything is answered
\* and the newest answer was the last (analytics-page-client.tsx:62-81,
\* benchmarks-page-client.tsx:52-66).
THEOREM DashboardsAreOfTheSelection == Visit => []DashboardsAgree
  <1>1. VisitInv => DashboardsAgree
    BY AnalyticsAgree, BenchmarksHold DEF VisitInv, DashboardsAgree
  <1>2. QED
    BY <1>1, PagesKeepTheirInvariants, PTL

\* The steps of a visit do to the queue what a step of the queue may do.
LEMMA QueueSteps == VisitInv /\ [VisitNext]_visitVars => QueueStep
  BY OnlyTheVisited, ExceptionsStep DEF VisitInv

\* However the same exception is resolved, by its button, by the bulk action, by both or by
\* others before: without a new list its card leaves the queue only when this clerk's
\* request has resolved it (exceptions-page-client.tsx:80-106).
THEOREM CardsLeaveWhenResolved == Visit => OnlyResolvedLeave
  <1>1. VisitInv /\ [VisitNext]_visitVars =>
          [fetches' = fetches =>
             \A e \in Exceptions!Listed(exceptions) \ Exceptions!Listed(exceptions') :
               settled[e] = "resolved by me"]_Exceptions!vars
    BY QueueSteps DEF QueueStep
  <1>2. QED
    BY <1>1, PagesKeepTheirInvariants, PTL
    DEF Visit, OnlyResolvedLeave, Exceptions!OnlyResolvedLeave

\* An exception that is settled, by whomever, is never settled again
\* (exceptions_view.py:41-50, :149-183).
THEOREM SettlementsAreFinal == Visit => SettlementStands
  <1>1. VisitInv /\ [VisitNext]_visitVars =>
          [\A e \in Exceptions!Listable :
             settled[e] # "open" => settled'[e] = settled[e]]_Exceptions!vars
    BY QueueSteps DEF QueueStep
  <1>2. QED
    BY <1>1, PagesKeepTheirInvariants, PTL
    DEF Visit, SettlementStands, Exceptions!SettlementStands
==============================================================================
