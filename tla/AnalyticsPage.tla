--------------------------- MODULE AnalyticsPage ---------------------------
(***************************************************************************)
(* The analytics page                                                      *)
(* (apps/web/components/analytics/analytics-page-client.tsx): eight        *)
(* requests are sent at once for the chosen period and shown when the last *)
(* is answered; the first that fails makes the whole page an error.        *)
(***************************************************************************)
EXTENDS Fetches

CONSTANTS
  Periods,     \* the items of the Select: 7, 30 and 90 days
  Default,     \* 30
  Shared,      \* the requests without a period: vendors and delivery health
  PerPeriod,   \* those with one: summary, volume, exceptions by type, ...
  MaxBatches   \* bound: how often the page loads

VARIABLES
  days,      \* days
  loaded,    \* data, or Loading: the load it is of, and its period
  problem,   \* error # null: the error page replaces the Select as well
  period,    \* the period each load was sent for
  waiting,   \* the requests of each load that have no answer yet
  ended      \* its promise: "unused", "pending", "resolved", "rejected" or "seen"

vars == <<days, loaded, problem, period, waiting, ended>>

Batches == 1..MaxBatches

\* The eight requests.  The page does not look into their answers.
Requests == Shared \cup PerPeriod

Loading == [batch |-> 0]

\* The eight values of a Loaded are those of one load.
Loaded == [batch : Batches, days : Periods]

TypeOK ==
  /\ days \in Periods
  /\ loaded \in Loaded \cup {Loading}
  /\ problem \in BOOLEAN
  /\ period \in [Batches -> Periods]
  /\ waiting \in [Batches -> SUBSET Requests]
  /\ ended \in [Batches -> {"unused", "pending", "resolved", "rejected", "seen"}]

\* load: what is on the page goes, and all eight requests are sent.
Load(d) ==
  /\ \E b \in Batches :
       /\ ended[b] = "unused" /\ \A c \in 1..(b - 1) : ended[c] # "unused"
       /\ ended' = [ended EXCEPT ![b] = "pending"]
       /\ period' = [period EXCEPT ![b] = d]
       /\ waiting' = [waiting EXCEPT ![b] = Requests]
  /\ problem' = FALSE
  /\ loaded' = Loading

\* Before the page is mounted, and mounted with its first load sent.
Start(mounted) ==
  /\ days = Default /\ loaded = Loading /\ problem = FALSE
  /\ period = [b \in Batches |-> Default]
  /\ waiting = [b \in Batches |-> IF mounted /\ b = 1 THEN Requests ELSE {}]
  /\ ended = [b \in Batches |-> IF mounted /\ b = 1 THEN "pending" ELSE "unused"]

-----------------------------------------------------------------------------

\* What is on the page: the error in place of everything, or the Select with the numbers.
Page == IF problem THEN "error" ELSE IF loaded = Loading THEN "loading" ELSE "numbers"

\* The Select; the effect loads.
setDays(d) ==
  /\ Page # "error" /\ d # days
  /\ days' = d
  /\ Load(d)

\* "Retry".
Retry == Page = "error" /\ Load(days) /\ UNCHANGED days

\* One of the eight is answered, and with the last of them Promise.all resolves.
Answer(b, request) ==
  /\ request \in waiting[b]
  /\ waiting' = [waiting EXCEPT ![b] = @ \ {request}]
  /\ ended' = IF ended[b] = "pending" /\ waiting[b] = {request}
                THEN [ended EXCEPT ![b] = "resolved"] ELSE ended
  /\ UNCHANGED <<days, loaded, problem, period>>

\* One fails: Promise.all rejects at once and the others are answered for nobody.
Fail(b, request) ==
  /\ request \in waiting[b] /\ ended[b] = "pending"
  /\ waiting' = [waiting EXCEPT ![b] = {}]
  /\ ended' = [ended EXCEPT ![b] = "rejected"]
  /\ UNCHANGED <<days, loaded, problem, period>>

\* setData, whichever load it is of.
Arrives(b) ==
  /\ ended[b] = "resolved"
  /\ ended' = [ended EXCEPT ![b] = "seen"]
  /\ loaded' = [batch |-> b, days |-> period[b]]
  /\ UNCHANGED <<days, problem, period, waiting>>

Fails(b) ==
  /\ ended[b] = "rejected"
  /\ ended' = [ended EXCEPT ![b] = "seen"]
  /\ problem' = TRUE
  /\ UNCHANGED <<days, loaded, period, waiting>>

Next ==
  \/ \E d \in Periods : setDays(d)
  \/ Retry
  \/ \E b \in Batches, request \in Requests :
        Answer(b, request) \/ Fail(b, request)
  \/ \E b \in Batches : Arrives(b) \/ Fails(b)

\* Requests end and their continuations run.
Proceed ==
  \E b \in Batches :
    \/ \E request \in Requests : Answer(b, request) \/ Fail(b, request)
    \/ Arrives(b) \/ Fails(b)

\* What the page waits for while it has nothing to show.
Waiting ==
  IF ended[1] # "unused" /\ Page = "loading" THEN {"numbers"} ELSE {}

-----------------------------------------------------------------------------

\* When nothing is under way the page shows something, an error or numbers; and when they
\* are those of the newest load, they are of the period in the Select.  (Nothing makes
\* them those of the newest load.)
ShowsThePeriod ==
  (\A b \in Batches : ended[b] \in {"unused", "seen"}) =>
    /\ ended[1] = "seen" => Page # "loading"
    /\ Page = "numbers"
         /\ (\A b \in Batches : b > loaded.batch => ended[b] = "unused")
       => loaded.days = days
=============================================================================
