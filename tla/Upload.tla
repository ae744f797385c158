------------------------------- MODULE Upload -------------------------------
(***************************************************************************)
(* Files dropped on the board                                              *)
(* (apps/web/components/pipeline/upload-dropzone.tsx) and taken in by      *)
(* ingest_invoice (apps/api/api/ingest.py) in one transaction each, in     *)
(* several processes of the API: the same file may be dropped again while  *)
(* its first upload is under way.                                          *)
(*                                                                         *)
(* The checks of size and type, the rate limit and the storage are one     *)
(* possible refusal; the dragging is left out.                             *)
(***************************************************************************)
EXTENDS Naturals, FiniteSets

CONSTANTS
  Contents,    \* the files, by content
  MaxUploads   \* bound: how many uploads are sent

VARIABLES
  invoices,    \* committed rows of invoices by content_hash
  extractJobs, \* committed extract jobs by content_hash
  content,     \* the content of each upload
  phase,       \* how far each upload is
  state        \* state of the dropzone

vars == <<invoices, extractJobs, content, phase, state>>

Uploads == 1..MaxUploads
NoFile == "no file"

Phases == {"unused", "sent", "checked", "inserted",   \* ingest_invoice
           "accepted", "duplicate", "refused",        \* answered: 202, 409, or anything else
           "taken", "given up"}                       \* seen by the dropzone

UploadState == {"idle", "uploading", "error"}

TypeOK ==
  /\ invoices \in [Contents -> 0..MaxUploads]
  /\ extractJobs \in [Contents -> 0..MaxUploads]
  /\ content \in [Uploads -> Contents \cup {NoFile}]
  /\ phase \in [Uploads -> Phases]
  /\ state \in UploadState

\* Nothing distinguishes a dropzone that is not mounted: it has sent nothing.
Init ==
  /\ invoices = [c \in Contents |-> 0]
  /\ extractJobs = [c \in Contents |-> 0]
  /\ content = [u \in Uploads |-> NoFile]
  /\ phase = [u \in Uploads |-> "unused"]
  /\ state = "idle"

To(u, p) == phase' = [phase EXCEPT ![u] = p]

-----------------------------------------------------------------------------

\* upload up to its await, from a drop or the file dialog; several may be under way.
upload(u, file) ==
  /\ phase[u] = "unused" /\ \A v \in 1..(u - 1) : phase[v] # "unused"
  /\ content' = [content EXCEPT ![u] = file]
  /\ To(u, "sent")
  /\ state' = "uploading"
  /\ UNCHANGED <<invoices, extractJobs>>

\* find_invoice_by_content_hash, which sees committed rows: a duplicate, or on to the
\* storage.
FindByContentHash(u) ==
  /\ phase[u] = "sent"
  /\ To(u, IF invoices[content[u]] > 0 THEN "duplicate" ELSE "checked")
  /\ UNCHANGED <<invoices, extractJobs, content, state>>

\* Mutant: the table has no unique constraint.
Mutant_unique(u) == TRUE

\* unique (tenant_id, content_hash).
unique(u) == invoices[content[u]] = 0

\* insert_invoice, enqueue_job and the audit row.  The index makes the insert wait for
\* an uncommitted one of the same content; a committed one is an error nobody catches.
InsertInvoice(u) ==
  /\ phase[u] = "checked"
  /\ \/ /\ unique(u)
        /\ \A v \in Uploads : content[v] = content[u] => phase[v] # "inserted"
        /\ To(u, "inserted")
     \/ ~unique(u) /\ To(u, "refused")
  /\ UNCHANGED <<invoices, extractJobs, content, state>>

\* conn.commit(), and the answer arrives or is lost.
Commit(u) ==
  /\ phase[u] = "inserted"
  /\ invoices' = [invoices EXCEPT ![content[u]] = @ + 1]
  /\ extractJobs' = [extractJobs EXCEPT ![content[u]] = @ + 1]
  /\ \/ To(u, "accepted")
     \/ To(u, "refused")
  /\ UNCHANGED <<content, state>>

\* Refused (413, 415, 429, 502), or the process or the connection dies: rolled back.
Abort(u) ==
  /\ phase[u] \in {"sent", "checked", "inserted"}
  /\ To(u, "refused")
  /\ UNCHANGED <<invoices, extractJobs, content, state>>

\* Mutant: the catch does not set the state.
Mutant_UploadEnds(u) ==
  /\ \/ phase[u] \in {"accepted", "duplicate"} /\ To(u, "taken") /\ state' = "idle"
     \/ phase[u] = "refused" /\ To(u, "given up") /\ UNCHANGED state
  /\ UNCHANGED <<invoices, extractJobs, content>>

\* upload goes on.  A 409 is as good as a 202.  The state is of the upload that ended
\* last, whatever the others are doing or came to.
UploadEnds(u) ==
  /\ \/ phase[u] \in {"accepted", "duplicate"} /\ To(u, "taken") /\ state' = "idle"
     \/ phase[u] = "refused" /\ To(u, "given up") /\ state' = "error"
  /\ UNCHANGED <<invoices, extractJobs, content>>

Next ==
  \E u \in Uploads :
    \/ \E file \in Contents : upload(u, file)
    \/ FindByContentHash(u) \/ InsertInvoice(u) \/ Commit(u)
    \/ Abort(u) \/ UploadEnds(u)

Spec == Init /\ [][Next]_vars

\* A request that is not aborted goes on; answers are handled.
Proceed ==
  \E u \in Uploads :
    FindByContentHash(u) \/ InsertInvoice(u) \/ Commit(u) \/ UploadEnds(u)

Fairness == WF_vars(Proceed)

\* What the dropzone waits for.
Waiting == IF state = "uploading" THEN {"upload"} ELSE {}

-----------------------------------------------------------------------------
(***************************************************************************)
(* Properties                                                              *)
(***************************************************************************)

\* However often a file is dropped, and whatever its uploads overtake or lose, it
\* becomes at most one invoice with one extract job; and a dropzone that reports no
\* error has handed it over: the file is in the pipeline, exactly once
\* (ingest.py:78-115, upload-dropzone.tsx:72).
OneInvoicePerFile ==
  /\ \A c \in Contents : invoices[c] <= 1 /\ extractJobs[c] = invoices[c]
  /\ \A u \in Uploads :
       phase[u] \in {"accepted", "duplicate", "taken"} => invoices[content[u]] = 1
=============================================================================
