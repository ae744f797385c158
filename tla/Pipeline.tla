------------------------------ MODULE Pipeline ------------------------------
(***************************************************************************)
(* From upload to approval: the 'extract' and 'match' job handlers         *)
(* (apps/worker/worker/extract_handler.py, match_handler.py) run by the    *)
(* workers of JobQueue, together with what the API does to the same        *)
(* invoices: ingestion, field corrections and re-runs of the match.        *)
(*                                                                         *)
(* A handler is a sequence of small transactions on its own connection;    *)
(* each commit is one step here, so a crash or another process may come    *)
(* between any two of them.  What a handler keeps in local variables       *)
(* across commits is local[w].  Approvals are one step here (the locking   *)
(* and the tokens are module Approvals), a 'notify' handler only returns   *)
(* or raises.                                                              *)
(***************************************************************************)
EXTENDS Decision, FiniteSets

CONSTANTS
  Invoices,          \* invoice ids
  Documents,         \* what an extraction can read: records of DocumentType
  NumApprovers,      \* approver users of the tenant, by created_at: 1..NumApprovers
  Policy,            \* the tenant's active tolerance policy
  HasPolicy,         \* the tenant has an active policy that loads
  ExtractionMayFail, \* download or extraction can raise
  Reruns,            \* requests to POST /rerun-match
  MaxCorrections,    \* bound: requests to PATCH a field
  DefaultAttempts, NotifyAttempts,            \* jobs.max_attempts
  Workers, NoWorker, NoJob, MaxDowns, MaxOverruns, MaxDbErrors  \* see JobQueue

Approvers == 1..NumApprovers

ExtractJob(i) == <<"extract", i>>
MatchJob(i) == <<"match", i>>
RerunJob(r) == <<"rerun", r>>
NotifyJob(i, a) == <<"notify", i, a>>

Jobs == {ExtractJob(i) : i \in Invoices} \cup {MatchJob(i) : i \in Invoices}
        \cup {RerunJob(r) : r \in Reruns}
        \cup {NotifyJob(i, a) : i \in Invoices, a \in Approvers}

AttemptsOf == [k \in Jobs |-> IF k[1] = "notify" THEN NotifyAttempts ELSE DefaultAttempts]

\* data: whether the rows that extraction wrote can be turned into domain
\* objects ("invalid": they cannot; "incomplete": they can, but the number or a
\* total is missing).
DocumentType ==
  [data : {"valid", "invalid", "incomplete"}, confidence : Nat \cup {NoConfidence}, total : Nat]

ASSUME PipelineAssumption ==
  /\ Documents \subseteq DocumentType
  /\ NumApprovers \in Nat
  /\ IsPolicy(Policy)
  /\ HasPolicy \in BOOLEAN
  /\ ExtractionMayFail \in BOOLEAN
  /\ MaxCorrections \in Nat
  /\ DefaultAttempts \in Nat \ {0}
  /\ NotifyAttempts \in Nat \ {0}

\* What JobQueue assumes, of the jobs there are here.
ASSUME WorkersAssumption ==
  /\ NoWorker \notin Workers
  /\ NoJob \notin Jobs
  /\ MaxDowns \in Nat /\ MaxOverruns \in Nat /\ MaxDbErrors \in Nat

\* At any time only finitely many invoices and requests have come in.
ASSUME InvoicesFinite == IsFiniteSet(Invoices) /\ IsFiniteSet(Reruns)

VARIABLES
  jstatus, attempts, locked_by, due, stale, created, dead_letters,
  wstate, wjob, conn, downs, overruns, dberrors,   \* the variables of JobQueue
  istatus,       \* invoices.status
  linked,        \* invoices.vendor_id is set
  doc,           \* the extracted fields of invoices and invoice_lines
  extractions,   \* how many times invoice_lines have been inserted
  run,           \* the latest match_runs row with what hangs on it
  tokens,        \* approval_requests rows per invoice and approver
  audit,         \* the latest status_transition in audit_log: <<before, after>>
  corrections,   \* field corrections so far
  request,       \* a re-run request: how far it is, its invoice, the status it read
  local          \* local variables of the handler a worker runs

Q == INSTANCE JobQueue WITH Keys <- Jobs, MaxAttempts <- AttemptsOf
Lifecycle == INSTANCE InvoiceLifecycle

queueVars == <<jstatus, attempts, locked_by, due, stale, created, dead_letters,
               wstate, wjob, conn, downs, overruns, dberrors>>
bizVars == <<istatus, linked, doc, extractions, run, tokens, audit>>
apiVars == <<corrections, request>>
vars == <<queueVars, bizVars, apiVars, local>>

NoInvoice == Lifecycle!NoInvoice
NoDoc == [data |-> "none"]
NoDecision == [outcome |-> "none", required_approvers |-> 0]
NoRun == [result |-> "none", lines |-> FALSE, exceptions |-> FALSE, decision |-> NoDecision]
NoLocal == [pc |-> "none"]

Init ==
  /\ Q!Init
  /\ Lifecycle!Init
  /\ linked = [i \in Invoices |-> FALSE]
  /\ doc = [i \in Invoices |-> NoDoc]
  /\ extractions = [i \in Invoices |-> 0]
  /\ run = [i \in Invoices |-> NoRun]
  /\ tokens = [i \in Invoices |-> [a \in Approvers |-> 0]]
  /\ audit = [i \in Invoices |-> <<NoInvoice, NoInvoice>>]
  /\ corrections = 0
  /\ request = [r \in Reruns |-> [pc |-> "new"]]
  /\ local = [w \in Workers |-> NoLocal]

-----------------------------------------------------------------------------
(***************************************************************************)
(* Steps of a handler.  A worker in state "running" is inside a handler;   *)
(* local[w].pc says where.                                                 *)
(***************************************************************************)

\* The invoice a job is about (its payload).
InvoiceOf(k) == IF k[1] = "rerun" THEN request[k[2]].invoice ELSE k[2]

Inv(w) == InvoiceOf(wjob[w])

At(w, pc) == wstate[w] = "running" /\ local[w].pc = pc

\* The handler goes on, returns, or raises; the queue is left alone.
Goto(w, l) ==
  /\ local' = [local EXCEPT ![w] = l]
  /\ UNCHANGED queueVars
Return(w) ==
  /\ Q!HandlerReturns(w)
  /\ local' = [local EXCEPT ![w] = NoLocal]
Raise(w) ==
  /\ Q!HandlerRaises(w)
  /\ local' = [local EXCEPT ![w] = NoLocal]

\* Mutant: the audit row records the status just written as the one before.
Mutant_transition(i, from, to) ==
  /\ istatus' = [istatus EXCEPT ![i] = to]
  /\ audit' = [audit EXCEPT ![i] = <<to, to>>]

\* _transition after validation: UPDATE invoices, INSERT audit_log, commit.  The
\* UPDATE does not test that the status still is `from`.
_transition(i, from, to) ==
  /\ istatus' = [istatus EXCEPT ![i] = to]
  /\ audit' = [audit EXCEPT ![i] = <<from, to>>]

\* SELECT * FROM invoices; the snapshot is used after later commits.  A match
\* needs a vendor.
ReadInvoice(w) ==
  LET i == Inv(w) IN
  /\ At(w, "start")
  /\ wjob[w][1] \in {"extract", "match", "rerun"}
  /\ IF wjob[w][1] # "extract" /\ ~linked[i]
     THEN Raise(w)
     ELSE Goto(w, [local[w] EXCEPT !.pc = "begin", !.status = istatus[i], !.doc = doc[i]])
  /\ UNCHANGED <<bizVars, apiVars>>

\* Mutant: a handler tolerates being started again in its own status.
Mutant_Begin(w) ==
  LET i == Inv(w)
      to == IF wjob[w][1] = "extract" THEN "EXTRACTING" ELSE "MATCHING"
  IN
  /\ At(w, "begin")
  /\ IF local[w].status = to \/ Lifecycle!validate_transition(local[w].status, to)
     THEN /\ _transition(i, local[w].status, to)
          /\ Goto(w, [local[w] EXCEPT !.pc = to])
     ELSE Raise(w) /\ UNCHANGED <<istatus, audit>>
  /\ UNCHANGED <<linked, doc, extractions, run, tokens, apiVars>>

\* The first transition, validated against the status that was read.
Begin(w) ==
  LET i == Inv(w)
      to == IF wjob[w][1] = "extract" THEN "EXTRACTING" ELSE "MATCHING"
  IN
  /\ At(w, "begin")
  /\ IF Lifecycle!validate_transition(local[w].status, to)
     THEN /\ _transition(i, local[w].status, to)
          /\ Goto(w, [local[w] EXCEPT !.pc = to])
     ELSE Raise(w) /\ UNCHANGED <<istatus, audit>>
  /\ UNCHANGED <<linked, doc, extractions, run, tokens, apiVars>>

-----------------------------------------------------------------------------
(***************************************************************************)
(* handle_extract                                                          *)
(***************************************************************************)

\* Download or extraction raises.  Only on the last attempt of the claimed job,
\* and only if the exception is one that the handler catches (a transport error
\* of the storage client is not), does the invoice become EXTRACTION_FAILED.
ExtractFails(w) ==
  /\ ExtractionMayFail
  /\ At(w, "EXTRACTING")
  /\ \/ /\ local[w].attempts + 1 >= AttemptsOf[wjob[w]]
        /\ _transition(Inv(w), "EXTRACTING", "EXTRACTION_FAILED")
     \/ UNCHANGED <<istatus, audit>>
  /\ Raise(w)
  /\ UNCHANGED <<linked, doc, extractions, run, tokens, apiVars>>

\* _persist_extraction: header fields, one row per line, field confidences.
PersistExtraction(w) ==
  /\ At(w, "EXTRACTING")
  /\ \E d \in Documents : doc' = [doc EXCEPT ![Inv(w)] = d]
  /\ extractions' = [extractions EXCEPT ![Inv(w)] = @ + 1]
  /\ Goto(w, [local[w] EXCEPT !.pc = "persisted"])
  /\ UNCHANGED <<istatus, linked, run, tokens, audit, apiVars>>

FinishExtraction(w) ==
  /\ At(w, "persisted")
  /\ _transition(Inv(w), "EXTRACTING", "EXTRACTED")
  /\ Goto(w, [local[w] EXCEPT !.pc = "enqueue"])
  /\ UNCHANGED <<linked, doc, extractions, run, tokens, apiVars>>

\* Mutant: the follow-up job is forgotten.
Mutant_EnqueueMatch(w) ==
  /\ At(w, "enqueue")
  /\ Goto(w, [local[w] EXCEPT !.pc = "finished"])
  /\ UNCHANGED <<bizVars, apiVars>>

\* queue.enqueue is a transaction of its own, on the queue's connection.
EnqueueMatch(w) ==
  /\ At(w, "enqueue")
  /\ Q!Enqueue(MatchJob(Inv(w)))
  /\ local' = [local EXCEPT ![w].pc = "finished"]
  /\ UNCHANGED <<bizVars, apiVars>>

-----------------------------------------------------------------------------
(***************************************************************************)
(* handle_match                                                            *)
(***************************************************************************)

\* The header fields are those of the first SELECT, the lines are read now: what
\* a concurrent correction has made valid, or invalid, may be seen or not.
DataSeen(w) == {local[w].doc.data, doc[Inv(w)].data}

\* No active policy, or run_three_way_match's own preconditions fail: the
\* exception leaves the handler with the invoice in MATCHING.
MatchRaises(w) ==
  /\ At(w, "MATCHING")
  /\ ~HasPolicy \/ "incomplete" \in DataSeen(w)
  /\ Raise(w)
  /\ UNCHANGED <<bizVars, apiVars>>

\* The rows do not make valid domain objects: a human has to look.
MatchInvalid(w) ==
  /\ At(w, "MATCHING")
  /\ HasPolicy /\ "invalid" \in DataSeen(w)
  /\ _transition(Inv(w), "MATCHING", "NEEDS_VERIFICATION")
  /\ Return(w)
  /\ UNCHANGED <<linked, doc, extractions, run, tokens, apiVars>>

\* run_three_way_match comes to a result and _persist_match_run inserts it.
PersistMatchRun(w) ==
  /\ At(w, "MATCHING")
  /\ HasPolicy /\ "valid" \in DataSeen(w)
  /\ \E result \in MatchResults :
        /\ run' = [run EXCEPT ![Inv(w)] =
                     [result |-> result, lines |-> FALSE, exceptions |-> FALSE,
                      decision |-> NoDecision]]
        /\ Goto(w, [local[w] EXCEPT !.pc = "line_matches", !.result = result])
  /\ UNCHANGED <<istatus, linked, doc, extractions, tokens, audit, apiVars>>

PersistLineMatches(w) ==
  /\ At(w, "line_matches")
  /\ run' = [run EXCEPT ![Inv(w)].lines = TRUE]
  /\ Goto(w, [local[w] EXCEPT !.pc = "exceptions"])
  /\ UNCHANGED <<istatus, linked, doc, extractions, tokens, audit, apiVars>>

PersistMatchExceptions(w) ==
  /\ At(w, "exceptions")
  /\ run' = [run EXCEPT ![Inv(w)].exceptions = TRUE]
  /\ Goto(w, [local[w] EXCEPT !.pc = "decide"])
  /\ UNCHANGED <<istatus, linked, doc, extractions, tokens, audit, apiVars>>

\* The decision is taken on the snapshot of the invoice.
DecisionOf(w) == decide(local[w].result, local[w].doc.confidence, local[w].doc.total, Policy)

PersistDecisionReason(w) ==
  /\ At(w, "decide")
  /\ run' = [run EXCEPT ![Inv(w)].decision = DecisionOf(w)]
  /\ Goto(w, [local[w] EXCEPT !.pc = "apply"])
  /\ UNCHANGED <<istatus, linked, doc, extractions, tokens, audit, apiVars>>

\* Mutant: match_runs.result is used as the status.
Mutant_Intermediate(result) == IF result = "clean" THEN "MATCHED_CLEAN" ELSE result

Intermediate(result) == IF result = "clean" THEN "MATCHED_CLEAN" ELSE "EXCEPTIONS_RAISED"

\* Mutant: the early return for low confidence is missing.
Mutant_ApplyDecision(w) ==
  /\ At(w, "apply")
  /\ _transition(Inv(w), "MATCHING", Intermediate(local[w].result))
  /\ Goto(w, [local[w] EXCEPT !.pc = "route"])
  /\ UNCHANGED <<linked, doc, extractions, run, tokens, apiVars>>

\* _apply_decision, first transition.
ApplyDecision(w) ==
  /\ At(w, "apply")
  /\ IF DecisionOf(w).outcome = "NEEDS_VERIFICATION"
     THEN /\ _transition(Inv(w), "MATCHING", "NEEDS_VERIFICATION")
          /\ Return(w)
     ELSE /\ _transition(Inv(w), "MATCHING", Intermediate(local[w].result))
          /\ Goto(w, [local[w] EXCEPT !.pc = "route"])
  /\ UNCHANGED <<linked, doc, extractions, run, tokens, apiVars>>

\* _resolve_approver_contacts: the earliest-created approvers, at most as many
\* as the decision requires.
Contacts(required) == {a \in Approvers : a <= required}

\* Mutant: the approval branch writes AUTO_POSTED as well.
Mutant_RouteInvoice(w) ==
  /\ At(w, "route")
  /\ _transition(Inv(w), Intermediate(local[w].result), "AUTO_POSTED")
  /\ IF Contacts(DecisionOf(w).required_approvers) # {}
     THEN Goto(w, [local[w] EXCEPT !.pc = "issue", !.approver = 1])
     ELSE Return(w)
  /\ UNCHANGED <<linked, doc, extractions, run, tokens, apiVars>>

\* Mutant: the approvers are paged before the token is issued.
Mutant_RouteInvoice_page(w) ==
  LET auto == DecisionOf(w).outcome = "AUTO_POST" IN
  /\ At(w, "route")
  /\ _transition(Inv(w), Intermediate(local[w].result),
                 IF auto THEN "AUTO_POSTED" ELSE "PENDING_APPROVAL")
  /\ IF ~auto /\ Contacts(DecisionOf(w).required_approvers) # {}
     THEN Goto(w, [local[w] EXCEPT !.pc = "page", !.approver = 1])
     ELSE Return(w)
  /\ UNCHANGED <<linked, doc, extractions, run, tokens, apiVars>>

\* _apply_decision, second transition.
RouteInvoice(w) ==
  LET auto == DecisionOf(w).outcome = "AUTO_POST" IN
  /\ At(w, "route")
  /\ _transition(Inv(w), Intermediate(local[w].result),
                 IF auto THEN "AUTO_POSTED" ELSE "PENDING_APPROVAL")
  /\ IF ~auto /\ Contacts(DecisionOf(w).required_approvers) # {}
     THEN Goto(w, [local[w] EXCEPT !.pc = "issue", !.approver = 1])
     ELSE Return(w)
  /\ UNCHANGED <<linked, doc, extractions, run, tokens, apiVars>>

\* issue_approval_token commits one approval_requests row ...
IssueToken(w) ==
  /\ At(w, "issue")
  /\ tokens' = [tokens EXCEPT ![Inv(w)][local[w].approver] = @ + 1]
  /\ Goto(w, [local[w] EXCEPT !.pc = "page"])
  /\ UNCHANGED <<istatus, linked, doc, extractions, run, audit, apiVars>>

\* ... and the approver's 'notify' job is enqueued; then the next approver.
EnqueueNotify(w) ==
  LET a == local[w].approver
      more == a + 1 \in Contacts(DecisionOf(w).required_approvers)
  IN
  /\ At(w, "page")
  /\ Q!Enqueue(NotifyJob(Inv(w), a))
  /\ local' = [local EXCEPT ![w] =
                 IF more THEN [@ EXCEPT !.pc = "issue", !.approver = a + 1]
                 ELSE [@ EXCEPT !.pc = "finished"]]
  /\ UNCHANGED <<bizVars, apiVars>>

\* The handler returns after its last enqueue.
Finished(w) ==
  /\ At(w, "finished")
  /\ Return(w)
  /\ UNCHANGED <<bizVars, apiVars>>

\* A 'notify' job; its handler touches no invoice.
NotifyEnds(w) ==
  /\ At(w, "start")
  /\ wjob[w][1] = "notify"
  /\ Return(w) \/ Raise(w)
  /\ UNCHANGED <<bizVars, apiVars>>

HandlerStep(w) ==
  \/ ReadInvoice(w) \/ Begin(w)
  \/ ExtractFails(w) \/ PersistExtraction(w) \/ FinishExtraction(w) \/ EnqueueMatch(w)
  \/ MatchRaises(w) \/ MatchInvalid(w) \/ PersistMatchRun(w) \/ PersistLineMatches(w)
  \/ PersistMatchExceptions(w) \/ PersistDecisionReason(w) \/ ApplyDecision(w)
  \/ RouteInvoice(w) \/ IssueToken(w) \/ EnqueueNotify(w) \/ Finished(w)
  \/ NotifyEnds(w)

-----------------------------------------------------------------------------
(***************************************************************************)
(* The worker around the handler: JobQueue's actions, with the handler's   *)
(* local variables created on a claim and lost with the process.           *)
(***************************************************************************)

\* claim_next returns the row; job.attempts is what the handler sees of it.
Claim(w) ==
  /\ Q!Claim(w)
  /\ local' = [local EXCEPT ![w] =
                 [pc |-> "start", attempts |-> attempts[wjob'[w]], status |-> NoInvoice,
                  doc |-> NoDoc, result |-> "none", approver |-> 0]]
  /\ UNCHANGED <<bizVars, apiVars>>

\* Raises, outside the try block, on a connection whose transaction is aborted.
SetTenant(w) ==
  /\ Q!SetTenant(w)
  /\ local' = [local EXCEPT ![w] = IF conn[w] = "aborted" THEN NoLocal ELSE @]
  /\ UNCHANGED <<bizVars, apiVars>>

\* A statement of the handler fails; what was committed before stays.
HandlerHitsDbError(w) ==
  /\ Q!HandlerHitsDbError(w)
  /\ local' = [local EXCEPT ![w] = NoLocal]
  /\ UNCHANGED <<bizVars, apiVars>>

\* Mutant: a raising handler's job is completed as well.
Mutant_Complete(w) ==
  /\ wstate[w] \in {"returned", "raised"}
  /\ Q!complete(wjob[w])
  /\ wstate' = [wstate EXCEPT ![w] = "idle"]
  /\ wjob' = [wjob EXCEPT ![w] = NoJob]
  /\ UNCHANGED <<conn, downs, overruns, dberrors, bizVars, apiVars, local>>

Complete(w) == Q!Complete(w) /\ UNCHANGED <<bizVars, apiVars, local>>
Fail(w) == Q!Fail(w) /\ UNCHANGED <<bizVars, apiVars, local>>

Crash(w) ==
  /\ Q!Crash(w)
  /\ local' = [local EXCEPT ![w] = NoLocal]
  /\ UNCHANGED <<bizVars, apiVars>>

Background ==
  /\ \/ Q!Reap
     \/ \E w \in Workers : Q!Shutdown(w) \/ Q!Restart(w)
     \/ \E k \in Jobs : Q!BackoffElapses(k) \/ Q!LockGoesStale(k)
  /\ UNCHANGED <<bizVars, apiVars, local>>

-----------------------------------------------------------------------------
(***************************************************************************)
(* The API and the people                                                  *)
(***************************************************************************)

\* ingest_invoice of a new file: the row, the 'extract' job and the audit row in
\* one transaction.
Ingest(i) ==
  /\ istatus[i] = NoInvoice
  /\ _transition(i, NoInvoice, "RECEIVED")
  /\ Q!Enqueue(ExtractJob(i))
  /\ UNCHANGED <<linked, doc, extractions, run, tokens, apiVars, local>>

\* Nothing in the system sets vendor_id but a script that is run by hand.
LinkVendor(i) ==
  /\ istatus[i] # NoInvoice /\ ~linked[i]
  /\ linked' = [linked EXCEPT ![i] = TRUE]
  /\ UNCHANGED <<queueVars, istatus, doc, extractions, run, tokens, audit, apiVars, local>>

\* correct_field writes one field whatever the status is, and leaves overall_confidence
\* as extraction computed it.  What it writes before the extraction is overwritten, or
\* fills what that leaves empty: PersistExtraction's documents cover both.
CorrectField(i, d) ==
  /\ corrections < MaxCorrections
  /\ istatus[i] # NoInvoice
  /\ \/ doc[i] = NoDoc /\ UNCHANGED doc
     \/ /\ doc[i] # NoDoc /\ d.confidence = doc[i].confidence
        /\ doc' = [doc EXCEPT ![i] = d]
  /\ corrections' = corrections + 1
  /\ UNCHANGED <<queueVars, istatus, linked, extractions, run, tokens, audit, request, local>>

\* rerun_match reads the status without a lock and validates it (409 if illegal) ...
RerunRead(r, i) ==
  /\ request[r].pc = "new"
  /\ istatus[i] # NoInvoice
  /\ request' = [request EXCEPT ![r] =
       IF Lifecycle!validate_transition(istatus[i], "MATCHING")
       THEN [pc |-> "read", invoice |-> i, status |-> istatus[i]]
       ELSE [pc |-> "refused"]]
  /\ UNCHANGED <<queueVars, bizVars, corrections, local>>

\* ... then writes MATCHING, the audit row and a job with a key of its own.
RerunWrite(r) ==
  LET i == request[r].invoice IN
  /\ request[r].pc = "read"
  /\ _transition(i, request[r].status, "MATCHING")
  /\ Q!Enqueue(RerunJob(r))
  /\ request' = [request EXCEPT ![r].pc = "done"]
  /\ UNCHANGED <<linked, doc, extractions, run, tokens, corrections, local>>

\* Mutant: the status is not validated again under the lock.
Mutant_Settle(i, to) ==
  /\ istatus[i] # NoInvoice
  /\ \E a \in Approvers : tokens[i][a] > 0
  /\ _transition(i, istatus[i], to)
  /\ UNCHANGED <<queueVars, linked, doc, extractions, run, tokens, apiVars, local>>

\* An approver settles the invoice, under a lock on its row (see Approvals).
Settle(i, to) ==
  /\ istatus[i] # NoInvoice
  /\ Lifecycle!validate_transition(istatus[i], to)
  /\ \E a \in Approvers : tokens[i][a] > 0
  /\ _transition(i, istatus[i], to)
  /\ UNCHANGED <<queueVars, linked, doc, extractions, run, tokens, apiVars, local>>

-----------------------------------------------------------------------------

Next ==
  \/ \E w \in Workers :
        \/ Claim(w) \/ SetTenant(w) \/ HandlerStep(w) \/ HandlerHitsDbError(w)
        \/ Complete(w) \/ Fail(w) \/ Crash(w)
  \/ Background
  \/ \E i \in Invoices :
        \/ Ingest(i) \/ LinkVendor(i)
        \/ \E d \in Documents : CorrectField(i, d)
        \/ \E r \in Reruns : RerunRead(r, i)
        \/ Settle(i, "APPROVED") \/ Settle(i, "REJECTED")
  \/ \E r \in Reruns : RerunWrite(r)

Spec == Init /\ [][Next]_vars

\* What JobQueue assumes of the poll loop, the clock and the reaper; a handler
\* keeps making steps.  People and the API owe nothing.
Fairness ==
  /\ \A w \in Workers :
        /\ WF_vars(Claim(w)) /\ WF_vars(SetTenant(w)) /\ WF_vars(HandlerStep(w))
        /\ WF_vars(Complete(w)) /\ WF_vars(Fail(w))
        /\ WF_vars(Background /\ Q!Restart(w))
  /\ \A k \in Jobs :
        /\ WF_vars(Background /\ Q!BackoffElapses(k))
        /\ WF_vars(Background /\ ~Q!HolderBusy(k) /\ Q!LockGoesStale(k))
  /\ WF_vars(Background /\ Q!Reap)

FairSpec == Spec /\ Fairness

-----------------------------------------------------------------------------
(***************************************************************************)
(* Properties.  All are about runs without overruns (MaxOverruns = 0 in    *)
(* the models): a handler that outlives its lock shares the invoice with   *)
(* the retry of its own job, and no step of a handler tests for that.      *)
(* Likewise they are about at most one re-run request per invoice, and no  *)
(* process lost beside it: of two re-runs, or of one and the retry of a    *)
(* match that was over but not yet complete, each may begin from the same  *)
(* NEEDS_VERIFICATION, and then both match, decide and page in parallel.   *)
(***************************************************************************)

\* Types; a worker has local variables exactly while it has a job to handle.
TypeOK ==
  /\ istatus \in [Invoices -> Lifecycle!InvoiceStatus \cup {NoInvoice}]
  /\ linked \in [Invoices -> BOOLEAN]
  /\ doc \in [Invoices -> Documents \cup {NoDoc}]
  /\ extractions \in [Invoices -> Nat]
  /\ tokens \in [Invoices -> [Approvers -> Nat]]
  /\ corrections \in 0..MaxCorrections
  /\ \A w \in Workers : wstate[w] \in {"claimed", "running"} <=> local[w] # NoLocal

\* Every status change, by whichever process, is a step of the state machine:
\* the status that was validated is still the status when it is overwritten,
\* although nothing is locked in between.
FollowsLifecycle == Lifecycle!Spec

\* What the handlers and the API do to jobs is what JobQueue allows, so that what
\* is proved of JobQueue holds of the whole pipeline.
UsesQueueAsSpecified == Q!Spec

\* An audit row tells the truth: the status it names as `before` is the one the
\* row really had when the transition was written.
AuditTruthful ==
  [][\A i \in Invoices :
        istatus'[i] # istatus[i] => audit'[i] = <<istatus[i], istatus'[i]>>]_vars

\* Lines are inserted without a test for earlier ones, so only the state machine
\* stands between a retried 'extract' job and doubled invoice lines.
LinesPersistedOnce == \A i \in Invoices : extractions[i] <= 1

\* No approver is ever issued two tokens of an invoice, none is issued one that the
\* recorded decision does not ask for, and nobody is paged without a token.
TokensIssuedOnce ==
  \A i \in Invoices, a \in Approvers :
    /\ tokens[i][a] <= 1
    /\ tokens[i][a] > 0 => a \in Contacts(run[i].decision.required_approvers)
    /\ jstatus[NotifyJob(i, a)] # "absent" => tokens[i][a] > 0

\* An invoice with a live token is pending approval or settled.
TokensMeanPending ==
  \A i \in Invoices, a \in Approvers :
    tokens[i][a] > 0 => istatus[i] \in {"PENDING_APPROVAL", "APPROVED", "REJECTED"}

\* What the table of docs/ARCHITECTURE.md:319-324, with the rules below it (326-351), lets
\* past MATCHING: trusted fields, posting only of a clean and small invoice, and a second
\* approver for every large one.  It is stated apart from decide, whose thresholds have to
\* be strict on the same sides.
FollowsTable(match, fields) ==
  /\ fields.confidence # NoConfidence /\ fields.confidence >= Policy.min_field_confidence
  /\ match.decision.outcome = "AUTO_POST" <=>
        match.result = "clean" /\ fields.total < Policy.auto_approve_below
  /\ match.decision.outcome # "AUTO_POST" =>
        match.decision.required_approvers =
          IF fields.total > Policy.dual_approval_above THEN 2 ELSE 1

\* An invoice that went past MATCHING did so by the decision recorded in its
\* latest match run, whose lines and exceptions are complete, and that decision
\* is the one the extracted fields call for, unless a field was corrected.
DecisionJustified ==
  \A i \in Invoices :
    istatus[i] \in {"MATCHED_CLEAN", "EXCEPTIONS_RAISED", "AUTO_POSTED", "PENDING_APPROVAL",
                    "APPROVED", "REJECTED"} =>
      /\ run[i] # NoRun
      /\ run[i].lines /\ run[i].exceptions
      /\ istatus[i] = "AUTO_POSTED" => run[i].decision.outcome = "AUTO_POST"
      /\ istatus[i] \in {"PENDING_APPROVAL", "APPROVED", "REJECTED"} =>
            run[i].decision.outcome = "PENDING_APPROVAL"
      /\ corrections = 0 => FollowsTable(run[i], doc[i])

JobsOf(i) == {ExtractJob(i), MatchJob(i)}
             \cup {RerunJob(r) : r \in {q \in Reruns : request[q].pc = "done"
                                                       /\ request[q].invoice = i}}

\* The approvers the decision asks for have been issued a token and are being paged.
Paged(i) ==
  \A a \in Contacts(run[i].decision.required_approvers) :
    tokens[i][a] > 0 /\ jstatus[NotifyJob(i, a)] # "absent"

\* Nothing more is owed to the invoice by a worker.
AtRest(i) ==
  \/ istatus[i] \in {"EXTRACTION_FAILED", "NEEDS_VERIFICATION", "AUTO_POSTED",
                     "APPROVED", "REJECTED"}
  \/ istatus[i] = "PENDING_APPROVAL" /\ Paged(i)

\* The jobs that can bring i from its status to the next.
OwedTo(i) ==
  CASE istatus[i] \in {"RECEIVED", "EXTRACTING"} -> {ExtractJob(i)}
    [] istatus[i] = "EXTRACTED" -> {ExtractJob(i), MatchJob(i)}
    [] OTHER -> JobsOf(i) \ {ExtractJob(i)}

\* The jobs of i are over and one that its status waited for is dead.  No screen says so
\* of the invoice: dead_letters is counted for the analytics page (analytics_view.py:414),
\* and match_handler.py:625-628 calls an invoice in this state stuck "forever, silently,
\* with no user-visible error".
Stranded(i) ==
  /\ \A k \in JobsOf(i) : jstatus[k] \in {"absent", "done", "dead"}
  /\ \E k \in OwedTo(i) : jstatus[k] = "dead"

\* An invoice that waits for a worker, whatever it waits for and however often it was
\* sent back, comes to rest, or the very job it waits for dies; crashes, failed
\* extractions, unlinked vendors and a re-run beside the first match included.  No
\* invoice is left waiting by jobs that all succeeded.  It does not say that anybody is
\* told of the stall: see Stranded.
StallsOnlyByDeadJobs ==
  \A i \in Invoices :
    istatus[i] # NoInvoice /\ ~AtRest(i) ~> AtRest(i) \/ Stranded(i)

-----------------------------------------------------------------------------
(***************************************************************************)
(* What comments, tests and documents say and the code does not do         *)
(***************************************************************************)

\* test_extract_handler_integration.py:306: after a failed attempt "a future retry
\* must still be able to re-enter EXTRACTING without hitting
\* InvalidStateTransition".  So a queued 'extract' job finds a status from which
\* EXTRACTING can be entered.
RetryCanReenter ==
  \A i \in Invoices :
    jstatus[ExtractJob(i)] = "queued" => Lifecycle!validate_transition(istatus[i], "EXTRACTING")

\* docs/ARCHITECTURE.md:235: after a correction "the invoice re-enters the matching
\* pipeline from scratch".  So the job of a re-run that is asked for once the fields have
\* been corrected (the runs' specification says so) does not end in dead_letters.
RerunIsMatched == \A r \in Reruns : jstatus[RerunJob(r)] # "dead"

\* docs/ARCHITECTURE.md:209: "An illegal transition raises InvalidStateTransition".
\* So no status change is off the diagram.
NoIllegalTransition ==
  [][\A i \in Invoices :
        istatus'[i] # istatus[i] /\ istatus[i] # NoInvoice =>
          Lifecycle!validate_transition(istatus[i], istatus'[i])]_vars
=============================================================================
