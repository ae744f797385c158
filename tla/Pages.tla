-------------------------------- MODULE Pages --------------------------------
(***************************************************************************)
(* The web client shows one page at a time: each behaviour is one visit of *)
(* one of the pages.  They share nothing in the browser; the pages that    *)
(* are not visited keep the state they have before they are mounted.  The  *)
(* match screen is here under its own names, the others are instances.     *)
(***************************************************************************)
EXTENDS MatchBoard, Sequences

CONSTANTS
  Fields, Values, Typed, Column, Unparsable, MaxInvoiceLoads, MaxSaves,   \* VerifyPage
  Urls, Files,                                                            \* DocumentViewer
  Order, MaxLists, MaxClicks,                                             \* ExceptionsPage
  Rows, Filters, PageSize, MaxPage, MaxPageLoads,                         \* InvoicesPage
  Periods, Default, Shared, PerPeriod, MaxBatches,                        \* AnalyticsPage
  AllRuns, MaxRunLoads, MaxSelections,                                    \* BenchmarksPage
  Contents, MaxUploads                                                    \* Upload

VARIABLES
  page,   \* the page that is visited
  stored, fixed, rerun, invoice, failure, rerunning, left, editor, reads, saves, reruns,
  acked,                                                     \* VerifyPage
  numPages, fileUrl, documents, pdfDoc, renderedPages, imageLoaded, task, canvas,
                                                                     \* DocumentViewer
  settled, filter, exceptions, errorShown, selectedIds, resolvingIds, lastClicked, fetches,
  resolves, clicks, shown,                                           \* ExceptionsPage
  status, query, data, broken, opened, pages, answering,             \* InvoicesPage
  invoices, extractJobs, content, phase, state,                      \* Upload
  days, loaded, problem, period, waiting, ended,                     \* AnalyticsPage
  recorded, runs, runAId, runBId, runDetails, failures, fault, runLoads, details, galleries,
  latest                                                             \* BenchmarksPage

verifyVars == <<stored, fixed, rerun, invoice, failure, rerunning, left, editor,
                reads, saves, reruns, acked>>
viewerVars == <<numPages, fileUrl, documents, pdfDoc, renderedPages, imageLoaded, task,
                canvas>>
exceptionsVars == <<settled, filter, exceptions, errorShown, selectedIds, resolvingIds,
                    lastClicked, fetches, resolves, clicks, shown>>
invoicesVars == <<status, query, data, broken, opened, pages, answering>>
uploadVars == <<invoices, extractJobs, content, phase, state>>
analyticsVars == <<days, loaded, problem, period, waiting, ended>>
benchmarksVars == <<recorded, runs, runAId, runBId, runDetails, failures, fault, runLoads,
                    details, galleries, latest>>
matchVars == <<server, pageVars, loads, decide>>

Verify == INSTANCE VerifyPage WITH MaxLoads <- MaxInvoiceLoads, loads <- reads

Viewer == INSTANCE DocumentViewer

Exceptions == INSTANCE ExceptionsPage WITH MaxLoads <- MaxLists, row <- settled

Invoices == INSTANCE InvoicesPage WITH MaxLoads <- MaxPageLoads

Analytics == INSTANCE AnalyticsPage

Benchmarks == INSTANCE BenchmarksPage

Dropzone == INSTANCE Upload

\* What the column keeps of a text is a text that it keeps as it is, and the fields of an
\* invoice start with such texts.
ASSUME VerifyAssumption ==
  /\ Column \in [Values -> Values \cup {Unparsable}]
  /\ \A v \in Values : Column[v] # Unparsable =>
                          Column[v] \in Values /\ Column[Column[v]] = Column[v]
  /\ \E v \in Values : Column[v] = v
  /\ Typed \subseteq Values
  /\ MaxInvoiceLoads \in Nat \ {0} /\ MaxSaves \in Nat

ASSUME ViewerAssumption ==
  /\ IsFiniteSet(Urls) /\ Urls = 1..Cardinality(Urls) /\ 1 \in Urls
  /\ Files \subseteq Nat /\ Files # {}

\* The list has an order, and its null value is none of its cards.
ASSUME ExceptionsAssumption ==
  /\ Order \in Seq(Exceptions!Listable) /\ "no list" \notin Exceptions!Listable
  /\ MaxLists \in Nat \ {0} /\ MaxClicks \in Nat

ASSUME InvoicesAssumption ==
  /\ Rows \subseteq Nat /\ IsFiniteSet(Rows)
  /\ PageSize \in Nat \ {0} /\ MaxPage \in Nat \ {0} /\ MaxPageLoads \in Nat \ {0}

ASSUME AnalyticsAssumption == Default \in Periods /\ MaxBatches \in Nat \ {0}

ASSUME BenchmarksAssumption ==
  /\ AllRuns \in Seq(Benchmarks!EvalRuns)
  /\ MaxRunLoads \in Nat \ {0} /\ MaxSelections \in Nat

\* The types of the dropzone's state let a file have a row only when there is an upload.
ASSUME UploadAssumption == MaxUploads \in Nat \ {0}

VisitInit ==
  /\ page \in {"verify", "viewer", "exceptions", "invoices", "match", "analytics",
              "benchmarks", "upload"}
  /\ Verify!Start(page = "verify")
  /\ Viewer!Start(page = "viewer")
  /\ Exceptions!Start(page = "exceptions")
  /\ Invoices!Start(page = "invoices")
  /\ Start(page = "match")
  /\ Analytics!Start(page = "analytics")
  /\ Benchmarks!Start(page = "benchmarks")
  /\ Dropzone!Init

visitVars == <<page, verifyVars, viewerVars, exceptionsVars, invoicesVars, matchVars,
               analyticsVars, benchmarksVars, uploadVars>>

\* A visit of one page leaves the others alone.
OnVerify ==
  /\ page = "verify"
  /\ UNCHANGED <<page, viewerVars, exceptionsVars, invoicesVars, matchVars,
                  analyticsVars, benchmarksVars, uploadVars>>

OnViewer ==
  /\ page = "viewer"
  /\ UNCHANGED <<page, verifyVars, exceptionsVars, invoicesVars, matchVars,
                  analyticsVars, benchmarksVars, uploadVars>>

OnExceptions ==
  /\ page = "exceptions"
  /\ UNCHANGED <<page, verifyVars, viewerVars, invoicesVars, matchVars, analyticsVars,
                  benchmarksVars, uploadVars>>

OnInvoices ==
  /\ page = "invoices"
  /\ UNCHANGED <<page, verifyVars, viewerVars, exceptionsVars, matchVars,
                  analyticsVars, benchmarksVars, uploadVars>>

OnMatch ==
  /\ page = "match"
  /\ UNCHANGED <<page, verifyVars, viewerVars, exceptionsVars, invoicesVars,
                  analyticsVars, benchmarksVars, uploadVars>>

OnAnalytics ==
  /\ page = "analytics"
  /\ UNCHANGED <<page, verifyVars, viewerVars, exceptionsVars, invoicesVars, matchVars,
                  benchmarksVars, uploadVars>>

OnBenchmarks ==
  /\ page = "benchmarks"
  /\ UNCHANGED <<page, verifyVars, viewerVars, exceptionsVars, invoicesVars, matchVars,
                  analyticsVars, uploadVars>>

OnDropzone ==
  /\ page = "upload"
  /\ UNCHANGED <<page, verifyVars, viewerVars, exceptionsVars, invoicesVars, matchVars,
                  analyticsVars, benchmarksVars>>

VisitNext ==
  \/ OnVerify /\ Verify!Next
  \/ OnViewer /\ Viewer!Next
  \/ OnExceptions /\ Exceptions!Next
  \/ OnInvoices /\ Invoices!Next
  \/ OnMatch /\ Next
  \/ OnAnalytics /\ Analytics!Next
  \/ OnBenchmarks /\ Benchmarks!Next
  \/ OnDropzone /\ Dropzone!Next

\* The fairness of the page that is visited.
Fairness ==
  WF_visitVars(\/ OnVerify /\ Verify!Proceed
               \/ OnViewer /\ Viewer!Proceed
               \/ OnExceptions /\ Exceptions!Proceed
               \/ OnInvoices /\ Invoices!Proceed
               \/ OnMatch /\ Proceed
               \/ OnAnalytics /\ Analytics!Proceed
               \/ OnBenchmarks /\ Benchmarks!Proceed
               \/ OnDropzone /\ Dropzone!Proceed)

Visit == VisitInit /\ [][VisitNext]_visitVars /\ Fairness

-----------------------------------------------------------------------------
(***************************************************************************)
(* Properties: those of the pages                                          *)
(***************************************************************************)

\* Every page's state has its types.
PagesTypeOK ==
  /\ Verify!TypeOK /\ Viewer!TypeOK /\ Exceptions!TypeOK /\ Invoices!TypeOK
  /\ TypeOK /\ Analytics!TypeOK /\ Benchmarks!TypeOK /\ Dropzone!TypeOK

\* The verification screen: what counts as confirmed is, what was acknowledged stays on
\* the screen, and only a committed re-run leaves it.
CorrectionsStand == Verify!CorrectionsAreReal /\ Verify!AckedStaysShown

\* The viewer shows the document of the current url and lays boxes on sized pages only;
\* the rows of the match screen do not stay blank.
ShowsTheSubject == Viewer!ShowsTheDocument /\ RowsAreShown

\* The queue loses no card by a failed, refused or repeated request.
OnlyResolvedLeave == Exceptions!OnlyResolvedLeave

\* Nobody's settlement of an exception is overwritten.
SettlementStands == Exceptions!SettlementStands

\* Both lists follow the filter in the URL, as far as the newest answer is the last.
ListsFollowTheUrl == Exceptions!FollowsTheUrl /\ Invoices!FollowsTheUrl

\* What the two dashboards show is of the period, or of the runs, that are selected, as
\* far as the newest answer is the last.
DashboardsAgree == Analytics!ShowsThePeriod /\ Benchmarks!ShowsTheSelection

\* However often a file is dropped it is in the pipeline at most once, and exactly once
\* when the dropzone reports no error.
OneInvoicePerFile == Dropzone!OneInvoicePerFile
=============================================================================
