--------------------------- MODULE BenchmarksPage ---------------------------
(***************************************************************************)
(* The benchmarks page                                                     *)
(* (apps/web/components/benchmarks/benchmarks-page-client.tsx): a list of  *)
(* evaluation runs, one or two of which are selected; every change of the  *)
(* selection asks for their details and for the failures of the first.     *)
(***************************************************************************)
EXTENDS Fetches, Sequences

CONSTANTS
  AllRuns,        \* the ids of the evaluation runs, newest first, a sequence
  MaxRunLoads,    \* bound: how often the list is loaded
  MaxSelections   \* bound: how often the selection's details are asked for

VARIABLES
  recorded,     \* how many of AllRuns have been recorded by now, counted from the oldest
  runs,         \* runs, or NoRuns
  runAId,       \* runAId, or NoRun
  runBId,       \* runBId, or NoRun
  runDetails,   \* runDetails: the ids they are of
  failures,     \* failures: the run they are of, or NoRun
  fault,        \* error # null: the error page replaces everything
  runLoads,     \* fetchRuns
  details,      \* Promise.all of fetchRunDetail
  galleries,    \* fetchFailures
  latest        \* history: which of details and galleries the page shows

vars == <<recorded, runs, runAId, runBId, runDetails, failures, fault, runLoads, details,
          galleries, latest>>

EvalRuns == {AllRuns[k] : k \in DOMAIN AllRuns}
NoRuns == <<"no runs">>
NoRun == "none"

\* The details of one run or two, and the failures of one, by the ids of the runs.
IsRunDetails(ids) == ids \in Seq(EvalRuns) /\ Len(ids) <= 2
EvalFailures == EvalRuns \cup {NoRun}

\* list_runs.
list_runs == SubSeq(AllRuns, Len(AllRuns) - recorded + 1, Len(AllRuns))

TypeOK ==
  /\ recorded \in 0..Len(AllRuns)
  /\ runs = NoRuns \/ runs \in Seq(EvalRuns)
  /\ {runAId, runBId} \subseteq EvalRuns \cup {NoRun}
  /\ IsRunDetails(runDetails) /\ failures \in EvalFailures
  /\ fault \in BOOLEAN
  /\ \A n \in InState(runLoads, "answered") : runLoads[n].answer \in Seq(EvalRuns)
  /\ \A n \in InState(details, "sent") \cup InState(details, "answered") :
        IsRunDetails(details[n].request)
  /\ \A n \in InState(galleries, "sent") : galleries[n].request \in EvalRuns
  /\ latest \in [details : 0..MaxSelections, galleries : 0..MaxSelections]

\* Before the page is mounted, and mounted with its first load sent; its second effect
\* finds nothing selected.
Start(mounted) ==
  /\ recorded \in IF mounted THEN 0..Len(AllRuns) ELSE {0}
  /\ runs = NoRuns /\ runAId = NoRun /\ runBId = NoRun
  /\ runDetails = <<>> /\ failures = NoRun /\ fault = FALSE
  /\ runLoads = IF mounted THEN FirstSent(MaxRunLoads, NoRun) ELSE NoneSent(MaxRunLoads)
  /\ details = NoneSent(MaxSelections) /\ galleries = NoneSent(MaxSelections)
  /\ latest = [details |-> 0, galleries |-> 0]

-----------------------------------------------------------------------------

\* The evaluation harness records one more run.
RecordRun ==
  /\ recorded < Len(AllRuns)
  /\ recorded' = recorded + 1
  /\ UNCHANGED <<runs, runAId, runBId, runDetails, failures, fault, runLoads, details,
                 galleries, latest>>

ServeRuns(n) ==
  /\ MayAnswer(runLoads, runLoads', n, list_runs)
  /\ UNCHANGED <<recorded, runs, runAId, runBId, runDetails, failures, fault, details,
                 galleries, latest>>

\* fetchRunDetail of all that was asked for, or the first failure of them.
ServeDetails(n) ==
  /\ MayAnswer(details, details', n, details[n].request)
  /\ UNCHANGED <<recorded, runs, runAId, runBId, runDetails, failures, fault, runLoads,
                 galleries, latest>>

ServeFailures(n) ==
  /\ MayAnswer(galleries, galleries', n, galleries[n].request)
  /\ UNCHANGED <<recorded, runs, runAId, runBId, runDetails, failures, fault, runLoads,
                 details, latest>>

-----------------------------------------------------------------------------

\* The ids of the second effect.
Selected(a, b) == IF b = NoRun THEN <<a>> ELSE <<a, b>>

\* Mutant: the dependencies lack runBId.
Mutant_Effect(a, b) ==
  IF a = runAId THEN UNCHANGED <<details, galleries>>
  ELSE \E n \in DOMAIN details :
         /\ IsNext(details, n)
         /\ details' = [details EXCEPT ![n] = Sent(Selected(a, b))]
         /\ galleries' = [galleries EXCEPT ![n] = Sent(a)]

\* The second effect, on a change of the selection only.
Effect(a, b) ==
  IF a = runAId /\ b = runBId THEN UNCHANGED <<details, galleries>>
  ELSE \E n \in DOMAIN details :
         /\ IsNext(details, n)
         /\ details' = [details EXCEPT ![n] = Sent(Selected(a, b))]
         /\ galleries' = [galleries EXCEPT ![n] = Sent(a)]

\* The list arrives, and its first run is selected, whatever was selected before.
RunsArrive(n) ==
  /\ runLoads[n].state = "answered"
  /\ runLoads' = [runLoads EXCEPT ![n] = Handled]
  /\ runs' = runLoads[n].answer
  /\ IF runs' = <<>>
       THEN UNCHANGED <<runAId, details, galleries>>
       ELSE runAId' = Head(runs') /\ Effect(runAId', runBId)
  /\ UNCHANGED <<recorded, runBId, runDetails, failures, fault, latest>>

RunsFail(n) ==
  /\ runLoads[n].state = "failed"
  /\ runLoads' = [runLoads EXCEPT ![n] = Handled]
  /\ fault' = TRUE
  /\ UNCHANGED <<recorded, runs, runAId, runBId, runDetails, failures, details, galleries,
                 latest>>

\* What is on the page: the error in place of everything, or the selector, and below it
\* the details there are.
Page ==
  IF fault THEN "error" ELSE IF runs = NoRuns THEN "loading"
  ELSE IF runs = <<>> THEN "empty" ELSE "selector"

\* "Retry" loads the list, whatever has failed.  When its first run is the selected
\* one no effect runs, and details that failed are not asked for again.
Retry ==
  /\ Page = "error"
  /\ \E n \in DOMAIN runLoads :
       IsNext(runLoads, n) /\ runLoads' = [runLoads EXCEPT ![n] = Sent(NoRun)]
  /\ fault' = FALSE
  /\ UNCHANGED <<recorded, runs, runAId, runBId, runDetails, failures, details, galleries,
                 latest>>

\* RunSelector.  The first run may become the one it is compared to.
onChangeA(k) ==
  /\ Page = "selector" /\ k \in DOMAIN runs /\ runs[k] # runAId
  /\ runAId' = runs[k]
  /\ Effect(runs[k], runBId)
  /\ UNCHANGED <<recorded, runs, runBId, runDetails, failures, fault, runLoads, latest>>

onChangeB(k) ==
  /\ Page = "selector" /\ k \in {0} \cup DOMAIN runs
  /\ runBId' = IF k = 0 THEN NoRun ELSE runs[k]
  /\ runBId' \notin {runAId, runBId}
  /\ Effect(runAId, runBId')
  /\ UNCHANGED <<recorded, runs, runAId, runDetails, failures, fault, runLoads, latest>>

\* setRunDetails, of whichever selection.
DetailsArrive(n) ==
  /\ details[n].state = "answered"
  /\ details' = [details EXCEPT ![n] = Handled]
  /\ runDetails' = details[n].answer
  /\ latest' = [latest EXCEPT !.details = n]
  /\ UNCHANGED <<recorded, runs, runAId, runBId, failures, fault, runLoads, galleries>>

DetailsFail(n) ==
  /\ details[n].state = "failed"
  /\ details' = [details EXCEPT ![n] = Handled]
  /\ fault' = TRUE
  /\ UNCHANGED <<recorded, runs, runAId, runBId, runDetails, failures, runLoads, galleries,
                 latest>>

\* setFailures; a failure of the request shows no failures.
FailuresEnd(n) ==
  /\ galleries[n].state \in {"answered", "failed"}
  /\ galleries' = [galleries EXCEPT ![n] = Handled]
  /\ failures' = IF galleries[n].state = "answered" THEN galleries[n].answer ELSE NoRun
  /\ latest' = [latest EXCEPT !.galleries = n]
  /\ UNCHANGED <<recorded, runs, runAId, runBId, runDetails, fault, runLoads, details>>

-----------------------------------------------------------------------------

\* Requests end and their continuations run.
Proceed ==
  \/ \E n \in DOMAIN runLoads : ServeRuns(n) \/ RunsArrive(n) \/ RunsFail(n)
  \/ \E n \in DOMAIN details :
       \/ ServeDetails(n) \/ DetailsArrive(n) \/ DetailsFail(n)
       \/ ServeFailures(n) \/ FailuresEnd(n)

Next ==
  \/ Proceed \/ RecordRun \/ Retry
  \/ \E k \in 0..Len(AllRuns) : onChangeA(k) \/ onChangeB(k)

\* What the page waits for while it has nothing to show.
Waiting == IF runLoads[1] # NotSent /\ Page = "loading" THEN {"runs"} ELSE {}

-----------------------------------------------------------------------------

\* When nothing is under way and the details, or the failures, on the page are those of
\* the newest selection, they are of the runs in the selector, through lists that put
\* another run first, failures and "Retry".  (Nothing makes them those of the newest.)
ShowsTheSelection ==
  Quiet(details) /\ Quiet(galleries) =>
    /\ NotSentAfter(details, latest.details) => runDetails = Selected(runAId, runBId)
    /\ NotSentAfter(galleries, latest.galleries) => failures \in {runAId, NoRun}
=============================================================================
