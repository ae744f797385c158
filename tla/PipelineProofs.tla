--------------------------- MODULE PipelineProofs ---------------------------
(***************************************************************************)
(* Proofs about Pipeline, for any invoices, documents, workers, re-runs    *)
(* and faults.                                                             *)
(***************************************************************************)
EXTENDS Pipeline, FiniteSetTheorems, TLAPS

\* The queue with its theorems, with the jobs of the pipeline for its keys.
QP == INSTANCE JobQueueProofs WITH Keys <- Jobs, MaxAttempts <- AttemptsOf

-----------------------------------------------------------------------------
(***************************************************************************)
(* The jobs, and what is proved of the queue they are in                   *)
(***************************************************************************)

\* A job is told from another by its kind and by what it is about.
LEMMA JobFields ==
  /\ \A i : ExtractJob(i)[1] = "extract" /\ ExtractJob(i)[2] = i
  /\ \A i : MatchJob(i)[1] = "match" /\ MatchJob(i)[2] = i
  /\ \A r : RerunJob(r)[1] = "rerun" /\ RerunJob(r)[2] = r
  /\ \A i, a : NotifyJob(i, a)[1] = "notify" /\ NotifyJob(i, a)[2] = i /\ NotifyJob(i, a)[3] = a
  BY DEF ExtractJob, MatchJob, RerunJob, NotifyJob

\* There is one job of each kind for each invoice, request and approver ...
LEMMA JobsMade ==
  /\ \A i \in Invoices : ExtractJob(i) \in Jobs /\ MatchJob(i) \in Jobs
  /\ \A r \in Reruns : RerunJob(r) \in Jobs
  /\ \A i \in Invoices, a \in Approvers : NotifyJob(i, a) \in Jobs
  BY DEF Jobs

\* ... and no other job.
LEMMA JobKinds ==
  ASSUME NEW k \in Jobs
  PROVE  /\ k[1] = "extract" => k[2] \in Invoices /\ k = ExtractJob(k[2])
         /\ k[1] = "match" => k[2] \in Invoices /\ k = MatchJob(k[2])
         /\ k[1] = "rerun" => k[2] \in Reruns /\ k = RerunJob(k[2])
         /\ k[1] = "notify" => k[2] \in Invoices /\ k[3] \in Approvers
                               /\ k = NotifyJob(k[2], k[3])
         /\ k[1] \in {"extract", "match", "rerun", "notify"}
  <1>1. CASE \E i \in Invoices : k = ExtractJob(i)
    BY <1>1, JobFields
  <1>2. CASE \E i \in Invoices : k = MatchJob(i)
    BY <1>2, JobFields
  <1>3. CASE \E r \in Reruns : k = RerunJob(r)
    BY <1>3, JobFields
  <1>4. CASE \E i \in Invoices, a \in Approvers : k = NotifyJob(i, a)
    BY <1>4, JobFields
  <1>5. QED
    BY <1>1, <1>2, <1>3, <1>4 DEF Jobs

\* Finitely many invoices, requests and approvers have finitely many jobs.
LEMMA JobsFinite == IsFiniteSet(Jobs)
  <1> DEFINE E == {ExtractJob(i) : i \in Invoices}
             M == {MatchJob(i) : i \in Invoices}
             R == {RerunJob(r) : r \in Reruns}
             N == {NotifyJob(i, a) : i \in Invoices, a \in Approvers}
  <1>1. IsFiniteSet(E)
    <2>1. [i \in Invoices |-> ExtractJob(i)] \in Surjection(Invoices, E)
      BY DEF Surjection
    <2>2. QED
      BY <2>1, InvoicesFinite, FS_Surjection
  <1>2. IsFiniteSet(M)
    <2>1. [i \in Invoices |-> MatchJob(i)] \in Surjection(Invoices, M)
      BY DEF Surjection
    <2>2. QED
      BY <2>1, InvoicesFinite, FS_Surjection
  <1>3. IsFiniteSet(R)
    <2>1. [r \in Reruns |-> RerunJob(r)] \in Surjection(Reruns, R)
      BY DEF Surjection
    <2>2. QED
      BY <2>1, InvoicesFinite, FS_Surjection
  <1>4. IsFiniteSet(N)
    <2>1. IsFiniteSet(Approvers)
      <3>1. 1 \in Int /\ NumApprovers \in Int
        BY PipelineAssumption
      <3>2. QED
        BY <3>1, FS_Interval DEF Approvers
    <2>2. IsFiniteSet(Invoices \X Approvers)
      BY <2>1, InvoicesFinite, FS_Product
    <2>3. [p \in Invoices \X Approvers |-> NotifyJob(p[1], p[2])]
            \in Surjection(Invoices \X Approvers, N)
      <3>1. ASSUME NEW p \in Invoices \X Approvers PROVE NotifyJob(p[1], p[2]) \in N
        OBVIOUS
      <3>2. ASSUME NEW k \in N
            PROVE  \E p \in Invoices \X Approvers : NotifyJob(p[1], p[2]) = k
        <4>1. PICK i \in Invoices, a \in Approvers : k = NotifyJob(i, a)
          OBVIOUS
        <4>2. <<i, a>> \in Invoices \X Approvers /\ NotifyJob(<<i, a>>[1], <<i, a>>[2]) = k
          BY <4>1
        <4>3. QED
          BY <4>2
      <3>3. QED
        BY <3>1, <3>2 DEF Surjection
    <2>4. QED
      BY <2>2, <2>3, FS_Surjection
  <1>5. Jobs = ((E \cup M) \cup R) \cup N
    BY DEF Jobs
  <1>6. IsFiniteSet((E \cup M) \cup R)
    BY <1>1, <1>2, <1>3, FS_Union
  <1>7. IsFiniteSet(((E \cup M) \cup R) \cup N)
    <2> HIDE DEF E, M, R, N
    <2>1. QED
      BY <1>4, <1>6, FS_Union
  <1>8. QED
    BY <1>5, <1>7

\* Every job has a limit of attempts, and it is at least 1.
LEMMA AttemptsTyped == AttemptsOf \in [Jobs -> Nat \ {0}]
  BY PipelineAssumption DEF AttemptsOf

\* What the theorems about the queue assume is true of the jobs of the pipeline.
LEMMA QueueAssumptions == QP!ConstantsAssumption /\ QP!KeysFinite
  <1>1. QP!ConstantsAssumption
    BY WorkersAssumption, AttemptsTyped
  <1>2. QP!KeysFinite
    BY JobsFinite, Zenon DEF QP!IsFiniteSet, IsFiniteSet
  <1>3. QED
    BY <1>1, <1>2

\* The queue of the pipeline and the queue of the theorems are the same module
\* with the same substitution; the prover has to see it definition by definition.
LEMMA SameTypes == (Q!TypeOK <=> QP!TypeOK) /\ (Q!TypeOK' <=> QP!TypeOK')
  BY Zenon DEF Q!TypeOK, Q!JobStatus, Q!WorkerState, Q!Busy,
               QP!TypeOK, QP!JobStatus, QP!WorkerState, QP!Busy

\* The variables of the queue are the same.
LEMMA SameVars == Q!vars = QP!vars /\ Q!vars' = QP!vars'
  BY Zenon DEF Q!vars, Q!jobVars, Q!workerVars, Q!faultVars,
               QP!vars, QP!jobVars, QP!workerVars, QP!faultVars

\* Its actions are the same, and so is its next-state relation.
LEMMA SameSteps ==
  /\ Q!Next <=> QP!Next
  /\ \A w \in Workers : /\ Q!WorkerStep(w) <=> QP!WorkerStep(w)
                        /\ Q!Shutdown(w) <=> QP!Shutdown(w)
                        /\ Q!Crash(w) <=> QP!Crash(w)
                        /\ Q!Restart(w) <=> QP!Restart(w)
  /\ \A k \in Jobs : /\ Q!BackoffElapses(k) <=> QP!BackoffElapses(k)
                     /\ Q!LockGoesStale(k) <=> QP!LockGoesStale(k)
  /\ Q!Reap <=> QP!Reap
  <1> USE DEF
        Q!Next, Q!WorkerStep, Q!Enqueue, Q!enqueue, Q!BackoffElapses, Q!LockGoesStale,
        Q!Claim, Q!claim_next, Q!SetTenant, Q!HandlerReturns, Q!HandlerRaises,
        Q!HandlerHitsDbError, Q!Complete, Q!complete, Q!Fail, Q!fail, Q!Shutdown, Q!Crash,
        Q!Restart, Q!Reap, Q!reap_stale_locks, Q!StaleLocks, Q!HolderBusy, Q!Busy, Q!Alive,
        Q!Claimable, Q!Inserted, Q!jobVars, Q!workerVars, Q!faultVars, Q!Cardinality,
        QP!Next, QP!WorkerStep, QP!Enqueue, QP!enqueue, QP!BackoffElapses,
        QP!LockGoesStale, QP!Claim, QP!claim_next, QP!SetTenant, QP!HandlerReturns,
        QP!HandlerRaises, QP!HandlerHitsDbError, QP!Complete, QP!complete, QP!Fail, QP!fail,
        QP!Shutdown, QP!Crash, QP!Restart, QP!Reap, QP!reap_stale_locks, QP!StaleLocks,
        QP!HolderBusy, QP!Busy, QP!Alive, QP!Claimable, QP!Inserted, QP!jobVars,
        QP!workerVars, QP!faultVars, QP!Cardinality
  <1>1. Q!Next <=> QP!Next
    BY Zenon
  <1>2. \A w \in Workers : /\ Q!WorkerStep(w) <=> QP!WorkerStep(w)
                           /\ Q!Shutdown(w) <=> QP!Shutdown(w)
                           /\ Q!Crash(w) <=> QP!Crash(w)
                           /\ Q!Restart(w) <=> QP!Restart(w)
    BY Zenon
  <1>3. \A k \in Jobs : /\ Q!BackoffElapses(k) <=> QP!BackoffElapses(k)
                        /\ Q!LockGoesStale(k) <=> QP!LockGoesStale(k)
    BY Zenon
  <1>4. Q!Reap <=> QP!Reap
    BY Zenon
  <1>5. QED
    BY <1>1, <1>2, <1>3, <1>4

\* What module JobQueueProofs shows of a step of the queue.
LEMMA QueueTypeStep == Q!TypeOK /\ [Q!Next]_Q!vars => Q!TypeOK'
  BY QP!TypeStep, QueueAssumptions, SameTypes, SameVars, SameSteps

\* A step of the queue keeps every lock with the worker that is busy under it.
LEMMA QueueLockStep ==
  Q!TypeOK /\ Q!TypeOK' /\ Q!LockHeld /\ [Q!Next]_Q!vars => Q!LockHeld'
  <1>1. (Q!LockHeld <=> QP!LockHeld) /\ (Q!LockHeld' <=> QP!LockHeld')
    BY Zenon DEF Q!LockHeld, Q!Busy, QP!LockHeld, QP!Busy
  <1>2. QED
    BY <1>1, QP!LockHeldStep, QueueAssumptions, SameTypes, SameVars, SameSteps

\* That the job of a busy worker has a row says the same of both.
LEMMA SameJobsExist == (Q!JobsExist <=> QP!JobsExist) /\ (Q!JobsExist' <=> QP!JobsExist')
  BY Zenon DEF Q!JobsExist, Q!Busy, QP!JobsExist, QP!Busy

\* A step of the queue keeps the rows of the jobs that workers are busy with.
LEMMA QueueJobsStep == Q!TypeOK /\ Q!JobsExist /\ [Q!Next]_Q!vars => Q!JobsExist'
  BY SameJobsExist, QP!JobsExistStep, QueueAssumptions, SameTypes, SameVars, SameSteps

\* No row of the queue is ever deleted.
LEMMA QueueRowsStay ==
  Q!TypeOK /\ [Q!Next]_Q!vars => \A k \in Jobs : jstatus[k] # "absent" => jstatus'[k] # "absent"
  BY QP!RowsStay, QueueAssumptions, SameTypes, SameVars, SameSteps

\* Workers, the reaper and the clock insert no row.
LEMMA QueueInserts ==
  ASSUME Q!TypeOK, Q!JobsExist, NEW j \in Jobs, jstatus[j] = "absent",
         \/ \E w \in Workers : Q!WorkerStep(w) \/ Q!Shutdown(w) \/ Q!Crash(w) \/ Q!Restart(w)
         \/ \E k \in Jobs : Q!BackoffElapses(k) \/ Q!LockGoesStale(k)
         \/ Q!Reap
  PROVE  jstatus'[j] = "absent"
  BY SameJobsExist, QP!OnlyEnqueueInserts, QueueAssumptions, SameTypes, SameSteps

-----------------------------------------------------------------------------
(***************************************************************************)
(* Types                                                                   *)
(***************************************************************************)

\* A status of an invoice, or that there is none.
Statuses == Lifecycle!InvoiceStatus \cup {NoInvoice}

\* Where a handler can be: in both kinds, in 'extract' only, in 'match' only.
ExtractPcs == {"EXTRACTING", "persisted", "enqueue"}
MatchPcs ==
  {"MATCHING", "line_matches", "exceptions", "decide", "apply", "route", "issue", "page"}
HandlerPcs == {"start", "begin", "finished"} \cup ExtractPcs \cup MatchPcs

\* The local variables of a handler.
LocalType ==
  [pc : HandlerPcs, attempts : Nat, status : Statuses, doc : Documents \cup {NoDoc},
   result : MatchResults \cup {"none"}, approver : Approvers \cup {0}]

\* A request to re-run a match.
RequestType ==
  [pc : {"new", "refused"}] \cup [pc : {"read", "done"}, invoice : Invoices, status : Statuses]

\* A decision, and the match_runs row it is recorded in.
DecisionType == [outcome : {"none", "NEEDS_VERIFICATION", "AUTO_POST", "PENDING_APPROVAL"},
                 required_approvers : Nat]

RunType == [result : MatchResults \cup {"none"}, lines : BOOLEAN, exceptions : BOOLEAN,
            decision : DecisionType]

\* The worker has claimed a job and is on its way to, or in, the handler.
InHandler(w) == wstate[w] \in {"claimed", "running"}

\* Rows keep their types.
RowsTyped ==
  /\ istatus \in [Invoices -> Statuses]
  /\ linked \in [Invoices -> BOOLEAN]
  /\ doc \in [Invoices -> Documents \cup {NoDoc}]
  /\ extractions \in [Invoices -> Nat]
  /\ run \in [Invoices -> RunType]
  /\ tokens \in [Invoices -> [Approvers -> Nat]]
  /\ audit \in [Invoices -> Statuses \X Statuses]
  /\ corrections \in 0..MaxCorrections
  /\ request \in [Reruns -> RequestType]

\* A handler with local variables l, in a job of a kind, is where that can bring it.
Placed(kind, l) ==
  /\ l.pc # "start" => kind # "notify"
  /\ l.pc \in ExtractPcs => kind = "extract"
  /\ l.pc \in MatchPcs => kind \in {"match", "rerun"}
  /\ l.pc \in {"issue", "page"} => l.approver \in Approvers
  /\ l.pc = "begin" => l.status # NoInvoice

\* A worker has local variables exactly while it is in a handler.
LocalsTyped ==
  /\ local \in [Workers -> LocalType \cup {NoLocal}]
  /\ \A w \in Workers : /\ InHandler(w) <=> local[w] # NoLocal
                        /\ InHandler(w) => Placed(wjob[w][1], local[w])
                        /\ wstate[w] = "claimed" => local[w].pc = "start"

\* What a job or a request is about exists.
SubjectsExist ==
  /\ \A i \in Invoices : jstatus[ExtractJob(i)] # "absent" \/ jstatus[MatchJob(i)] # "absent"
                           => istatus[i] # NoInvoice
  /\ \A r \in Reruns : request[r].pc \in {"read", "done"}
                           => istatus[request[r].invoice] # NoInvoice
  /\ \A r \in Reruns : jstatus[RerunJob(r)] # "absent" => request[r].pc = "done"

\* The typing invariant.
WellTyped == Q!TypeOK /\ Q!JobsExist /\ RowsTyped /\ LocalsTyped /\ SubjectsExist

-----------------------------------------------------------------------------

\* The statuses that a handler or the API writes are statuses, and none says that
\* there is no invoice.
LEMMA StatusesWritten ==
  /\ {"RECEIVED", "EXTRACTING", "EXTRACTED", "EXTRACTION_FAILED", "MATCHING",
      "NEEDS_VERIFICATION", "MATCHED_CLEAN", "EXCEPTIONS_RAISED", "AUTO_POSTED",
      "PENDING_APPROVAL", "APPROVED", "REJECTED"} \subseteq Statuses \ {NoInvoice}
  /\ NoInvoice \in Statuses
  BY DEF Statuses, NoInvoice, Lifecycle!NoInvoice, Lifecycle!InvoiceStatus,
         Lifecycle!ALLOWED_TRANSITIONS

\* The edges of the diagram that are asked for.
LEMMA EdgesAsked ==
  ASSUME NEW s \in Statuses, s # NoInvoice
  PROVE  /\ Lifecycle!validate_transition(s, "EXTRACTING") <=> s = "RECEIVED"
         /\ Lifecycle!validate_transition(s, "MATCHING")
              <=> s \in {"EXTRACTED", "NEEDS_VERIFICATION"}
         /\ Lifecycle!validate_transition(s, "APPROVED") <=> s = "PENDING_APPROVAL"
         /\ Lifecycle!validate_transition(s, "REJECTED") <=> s = "PENDING_APPROVAL"
  BY DEF Statuses, NoInvoice, Lifecycle!NoInvoice, Lifecycle!InvoiceStatus,
         Lifecycle!ALLOWED_TRANSITIONS, Lifecycle!validate_transition

\* The local variables of a handler stay what they are when it goes on.
LEMMA LocalUpdates ==
  ASSUME NEW l \in LocalType, NEW pc \in HandlerPcs
  PROVE  /\ [l EXCEPT !.pc = pc] \in LocalType
         /\ \A s \in Statuses, d \in Documents \cup {NoDoc} :
              [l EXCEPT !.pc = pc, !.status = s, !.doc = d] \in LocalType
         /\ \A res \in MatchResults : [l EXCEPT !.pc = pc, !.result = res] \in LocalType
         /\ \A a \in Approvers : [l EXCEPT !.pc = pc, !.approver = a] \in LocalType
  BY DEF LocalType

\* Every place of a handler is a place, and NoLocal is none.
LEMMA Places ==
  /\ ExtractPcs \subseteq HandlerPcs /\ MatchPcs \subseteq HandlerPcs
  /\ {"start", "begin", "finished"} \subseteq HandlerPcs
  /\ NoLocal \notin LocalType
  BY DEF HandlerPcs, LocalType, NoLocal, ExtractPcs, MatchPcs

\* A decision has an outcome, and posts by itself only what matched cleanly.
LEMMA DecisionsTyped ==
  ASSUME NEW res, NEW c, NEW t, NEW p
  PROVE  /\ decide(res, c, t, p) \in DecisionType
         /\ decide(res, c, t, p).outcome
              \in {"NEEDS_VERIFICATION", "AUTO_POST", "PENDING_APPROVAL"}
         /\ decide(res, c, t, p).outcome = "AUTO_POST" => res = "clean"
  <1>1. _required_approvers(t, p) \in Nat
    BY DEF _required_approvers
  <1>2. CASE ~Trusted(c, p)
    BY <1>2 DEF decide, DecisionType
  <1>3. CASE Trusted(c, p) /\ res = "clean" /\ t < p.auto_approve_below
    BY <1>3 DEF decide, DecisionType
  <1>4. CASE Trusted(c, p) /\ ~(res = "clean" /\ t < p.auto_approve_below)
    BY <1>1, <1>4 DEF decide, DecisionType
  <1>5. QED
    BY <1>2, <1>3, <1>4

\* What a job that a worker has is about is an invoice, and one that exists.
LEMMA SubjectTyped ==
  ASSUME WellTyped, NEW w \in Workers, Q!Busy(w)
  PROVE  /\ wjob[w] \in Jobs
         /\ Inv(w) \in Invoices
         /\ wjob[w][1] # "notify" => istatus[Inv(w)] # NoInvoice
  <1> USE DEF WellTyped
  <1>1. wjob[w] \in Jobs /\ jstatus[wjob[w]] # "absent"
    BY DEF Q!TypeOK, Q!JobsExist
  <1>2. CASE wjob[w][1] \in {"extract", "match", "notify"}
    BY <1>1, <1>2, JobKinds DEF Inv, InvoiceOf, SubjectsExist
  <1>3. CASE wjob[w][1] = "rerun"
    <2>1. wjob[w][2] \in Reruns /\ request[wjob[w][2]].pc = "done"
      BY <1>1, <1>3, JobKinds DEF SubjectsExist
    <2>2. request[wjob[w][2]].invoice \in Invoices
      BY <2>1 DEF RowsTyped, RequestType
    <2>3. QED
      BY <1>1, <1>3, <2>1, <2>2 DEF Inv, InvoiceOf, SubjectsExist
  <1>4. QED
    BY <1>1, <1>2, <1>3, JobKinds

-----------------------------------------------------------------------------

\* A step of worker w inside its handler: the job stays, the others are not
\* touched, and w is where its job can bring it or out of the handler.
Inside(w) ==
  /\ local' \in [Workers -> LocalType \cup {NoLocal}]
  /\ \A v \in Workers \ {w} : local'[v] = local[v] /\ wstate'[v] = wstate[v]
  /\ wjob' = wjob
  /\ InHandler(w)' <=> local'[w] # NoLocal
  /\ InHandler(w)' => wstate'[w] = "running" /\ Placed(wjob[w][1], local'[w])

\* The handler goes on ...
LEMMA GoesOn ==
  ASSUME WellTyped, NEW w \in Workers, wstate[w] = "running",
         NEW l \in LocalType, Placed(wjob[w][1], l),
         local' = [local EXCEPT ![w] = l], wstate' = wstate, wjob' = wjob
  PROVE  Inside(w)
  BY Places DEF WellTyped, LocalsTyped, Inside, InHandler

\* ... or ends.
LEMMA Ends ==
  ASSUME WellTyped, NEW w \in Workers, Return(w) \/ Raise(w)
  PROVE  /\ Inside(w)
         /\ Q!HandlerReturns(w) \/ Q!HandlerRaises(w)
         /\ wstate[w] = "running" /\ ~InHandler(w)'
         /\ UNCHANGED Q!jobVars
  BY Places DEF WellTyped, LocalsTyped, Inside, InHandler, Return, Raise, Q!HandlerReturns,
     Q!HandlerRaises, Q!jobVars, Q!TypeOK

\* Inside its handler a worker has local variables of the types above.
LEMMA LocalTyped ==
  ASSUME WellTyped, NEW w \in Workers, InHandler(w)
  PROVE  /\ local[w] \in LocalType /\ Placed(wjob[w][1], local[w]) /\ Q!Busy(w)
         /\ local[w].pc \in HandlerPcs /\ local[w].status \in Statuses
         /\ local[w].doc \in Documents \cup {NoDoc}
         /\ local[w].result \in MatchResults \cup {"none"}
  BY DEF WellTyped, LocalsTyped, InHandler, Q!Busy, LocalType

\* What each step of a handler does to the workers and to the queue.
LEMMA HandlerInside ==
  ASSUME WellTyped, NEW w \in Workers, HandlerStep(w)
  PROVE  /\ Inside(w)
         /\ wstate[w] = "running"
         /\ \/ UNCHANGED queueVars
            \/ Q!HandlerReturns(w) \/ Q!HandlerRaises(w)
            \/ EnqueueMatch(w) /\ wjob[w][1] = "extract" /\ Q!Enqueue(MatchJob(Inv(w)))
            \/ /\ EnqueueNotify(w) /\ local[w].approver \in Approvers
               /\ Q!Enqueue(NotifyJob(Inv(w), local[w].approver))
  <1> DEFINE Goal ==
         /\ Inside(w)
         /\ wstate[w] = "running"
         /\ \/ UNCHANGED queueVars
            \/ Q!HandlerReturns(w) \/ Q!HandlerRaises(w)
            \/ EnqueueMatch(w) /\ wjob[w][1] = "extract" /\ Q!Enqueue(MatchJob(Inv(w)))
            \/ /\ EnqueueNotify(w) /\ local[w].approver \in Approvers
               /\ Q!Enqueue(NotifyJob(Inv(w), local[w].approver))
  <1>1. wstate[w] = "running"
    BY DEF HandlerStep, At, ReadInvoice, Begin, ExtractFails, PersistExtraction,
           FinishExtraction, EnqueueMatch, MatchRaises, MatchInvalid, PersistMatchRun,
           PersistLineMatches, PersistMatchExceptions, PersistDecisionReason, ApplyDecision,
           RouteInvoice, IssueToken, EnqueueNotify, Finished, NotifyEnds
  <1>2. /\ local[w] \in LocalType /\ Placed(wjob[w][1], local[w])
        /\ Inv(w) \in Invoices /\ (wjob[w][1] # "notify" => istatus[Inv(w)] # NoInvoice)
    BY <1>1, LocalTyped, SubjectTyped DEF InHandler, Q!Busy
  <1>3. ASSUME Return(w) \/ Raise(w) PROVE Goal
    BY <1>3, Ends
  <1>4. ASSUME NEW l \in LocalType, Placed(wjob[w][1], l), Goto(w, l) PROVE Goal
    BY <1>1, <1>4, GoesOn DEF Goto, queueVars
  <1>5. CASE ReadInvoice(w)
    <2>1. CASE Raise(w)
      BY <1>3, <2>1
    <2>2. CASE Goto(w, [local[w] EXCEPT !.pc = "begin", !.status = istatus[Inv(w)],
                                        !.doc = doc[Inv(w)]])
      <3> DEFINE l == [local[w] EXCEPT !.pc = "begin", !.status = istatus[Inv(w)],
                                       !.doc = doc[Inv(w)]]
      <3>1. istatus[Inv(w)] \in Statuses /\ doc[Inv(w)] \in Documents \cup {NoDoc}
        BY <1>2 DEF WellTyped, RowsTyped
      <3>2. l \in LocalType
        BY <1>2, <3>1, LocalUpdates, Places
      <3>3. l.pc = "begin" /\ l.status = istatus[Inv(w)]
        BY <1>2 DEF LocalType
      <3>4. Placed(wjob[w][1], l)
        BY <1>2, <1>5, <3>3 DEF Placed, ReadInvoice, ExtractPcs, MatchPcs
      <3>5. QED
        BY <1>4, <2>2, <3>2, <3>4
    <2>3. QED
      BY <1>5, <2>1, <2>2 DEF ReadInvoice
  <1>6. ASSUME NEW pc \in HandlerPcs, pc \notin {"start", "begin", "issue", "page"},
               pc \in ExtractPcs => wjob[w][1] = "extract",
               pc \in MatchPcs => wjob[w][1] \in {"match", "rerun"},
               local[w].pc # "start",
               Goto(w, [local[w] EXCEPT !.pc = pc])
        PROVE  Goal
    <2> DEFINE l == [local[w] EXCEPT !.pc = pc]
    <2>1. l \in LocalType /\ l.pc = pc
      BY <1>2, LocalUpdates, Zenon DEF LocalType
    <2>2. Placed(wjob[w][1], l)
      BY <1>2, <1>6, <2>1 DEF Placed
    <2>3. QED
      BY <1>4, <1>6, <2>1, <2>2
  <1>7. CASE Begin(w)
    <2>1. CASE Raise(w)
      BY <1>3, <2>1
    <2>2. CASE wjob[w][1] = "extract" /\ Goto(w, [local[w] EXCEPT !.pc = "EXTRACTING"])
      <3>1. "EXTRACTING" \in HandlerPcs /\ "EXTRACTING" \in ExtractPcs
            /\ "EXTRACTING" \notin MatchPcs
        BY DEF HandlerPcs, ExtractPcs, MatchPcs
      <3>2. local[w].pc # "start"
        BY <1>7 DEF Begin, At
      <3>3. QED
        BY <1>6, <2>2, <3>1, <3>2
    <2>3. CASE wjob[w][1] # "extract" /\ Goto(w, [local[w] EXCEPT !.pc = "MATCHING"])
      <3>1. "MATCHING" \in HandlerPcs /\ "MATCHING" \in MatchPcs /\ "MATCHING" \notin ExtractPcs
        BY DEF HandlerPcs, ExtractPcs, MatchPcs
      <3>2. local[w].pc = "begin"
        BY <1>7 DEF Begin, At
      <3>3. wjob[w][1] \in {"match", "rerun"}
        BY <1>1, <1>2, <2>3, <3>2, SubjectTyped, JobKinds DEF Placed, Q!Busy
      <3>4. QED
        BY <1>6, <2>3, <3>1, <3>2, <3>3
    <2>4. QED
      BY <1>7, <2>1, <2>2, <2>3 DEF Begin
  <1>8. CASE \/ ExtractFails(w) \/ MatchRaises(w) \/ MatchInvalid(w) \/ Finished(w)
             \/ NotifyEnds(w)
    BY <1>3, <1>8 DEF ExtractFails, MatchRaises, MatchInvalid, Finished, NotifyEnds
  <1>9. CASE PersistExtraction(w) \/ FinishExtraction(w)
    <2>1. local[w].pc \in ExtractPcs /\ local[w].pc # "start" /\ wjob[w][1] = "extract"
      BY <1>2, <1>9 DEF PersistExtraction, FinishExtraction, At, ExtractPcs, Placed
    <2>2. {"persisted", "enqueue"} \subseteq HandlerPcs
          /\ "persisted" \notin MatchPcs /\ "enqueue" \notin MatchPcs
      BY DEF HandlerPcs, ExtractPcs, MatchPcs
    <2>3. QED
      BY <1>6, <1>9, <2>1, <2>2 DEF PersistExtraction, FinishExtraction
  <1>10. CASE EnqueueMatch(w)
    <2> DEFINE l == [local[w] EXCEPT !.pc = "finished"]
    <2>1. wjob[w][1] = "extract"
      BY <1>2, <1>10 DEF EnqueueMatch, At, ExtractPcs, Placed
    <2>2. l \in LocalType /\ l.pc = "finished"
      <3>1. l \in LocalType
        BY <1>2, LocalUpdates, Places
      <3>2. l.pc = "finished"
        BY <1>2 DEF LocalType
      <3>3. QED
        BY <3>1, <3>2
    <2>3. Placed(wjob[w][1], l)
      BY <2>1, <2>2 DEF Placed, ExtractPcs, MatchPcs
    <2>4. local' = [local EXCEPT ![w] = l] /\ wstate' = wstate /\ wjob' = wjob
      BY <1>10 DEF EnqueueMatch, Q!Enqueue, Q!workerVars
    <2>5. QED
      BY <1>1, <1>10, <2>1, <2>2, <2>3, <2>4, GoesOn DEF EnqueueMatch
  <1>11. CASE PersistMatchRun(w)
    <2>1. PICK result \in MatchResults :
            Goto(w, [local[w] EXCEPT !.pc = "line_matches", !.result = result])
      BY <1>11 DEF PersistMatchRun
    <2> DEFINE l == [local[w] EXCEPT !.pc = "line_matches", !.result = result]
    <2>2. wjob[w][1] \in {"match", "rerun"}
      BY <1>2, <1>11 DEF PersistMatchRun, At, MatchPcs, Placed
    <2>3. l \in LocalType /\ l.pc = "line_matches"
      <3>1. l \in LocalType
        BY <1>2, LocalUpdates, Places DEF MatchPcs
      <3>2. l.pc = "line_matches"
        BY <1>2 DEF LocalType
      <3>3. QED
        BY <3>1, <3>2
    <2>4. Placed(wjob[w][1], l)
      BY <2>2, <2>3 DEF Placed, ExtractPcs, MatchPcs
    <2>5. QED
      BY <1>4, <2>1, <2>3, <2>4
  <1>12. CASE \/ PersistLineMatches(w) \/ PersistMatchExceptions(w)
              \/ PersistDecisionReason(w)
    <2>1. local[w].pc # "start" /\ wjob[w][1] \in {"match", "rerun"}
      BY <1>2, <1>12 DEF PersistLineMatches, PersistMatchExceptions, PersistDecisionReason,
                         At, MatchPcs, Placed
    <2>2. {"exceptions", "decide", "apply"} \subseteq HandlerPcs \ ExtractPcs
      BY DEF HandlerPcs, ExtractPcs, MatchPcs
    <2>3. QED
      BY <1>6, <1>12, <2>1, <2>2
         DEF PersistLineMatches, PersistMatchExceptions, PersistDecisionReason
  <1>13. CASE ApplyDecision(w)
    <2>1. local[w].pc # "start" /\ wjob[w][1] \in {"match", "rerun"}
      BY <1>2, <1>13 DEF ApplyDecision, At, MatchPcs, Placed
    <2>2. "route" \in HandlerPcs \ ExtractPcs
      BY DEF HandlerPcs, ExtractPcs, MatchPcs
    <2>3. QED
      BY <1>3, <1>6, <1>13, <2>1, <2>2 DEF ApplyDecision
  <1>14. ASSUME NEW a \in Approvers, wjob[w][1] \in {"match", "rerun"}
         PROVE  LET l == [local[w] EXCEPT !.pc = "issue", !.approver = a]
                IN  l \in LocalType /\ Placed(wjob[w][1], l)
    <2> DEFINE l == [local[w] EXCEPT !.pc = "issue", !.approver = a]
    <2>1. l \in LocalType /\ l.pc = "issue" /\ l.approver = a
      <3>1. l \in LocalType
        BY <1>2, LocalUpdates, Places DEF MatchPcs
      <3>2. l.pc = "issue" /\ l.approver = a
        BY <1>2 DEF LocalType
      <3>3. QED
        BY <3>1, <3>2
    <2>2. Placed(wjob[w][1], l)
      BY <1>14, <2>1 DEF Placed, ExtractPcs, MatchPcs
    <2>3. QED
      BY <2>1, <2>2
  <1>15. CASE RouteInvoice(w)
    <2>1. wjob[w][1] \in {"match", "rerun"}
      BY <1>2, <1>15 DEF RouteInvoice, At, MatchPcs, Placed
    <2>2. ASSUME Contacts(DecisionOf(w).required_approvers) # {} PROVE 1 \in Approvers
      BY <2>2, PipelineAssumption DEF Contacts, Approvers
    <2>3. CASE Return(w)
      BY <1>3, <2>3
    <2>4. CASE /\ Contacts(DecisionOf(w).required_approvers) # {}
               /\ Goto(w, [local[w] EXCEPT !.pc = "issue", !.approver = 1])
      BY <1>4, <1>14, <2>1, <2>2, <2>4
    <2>5. QED
      BY <1>15, <2>3, <2>4 DEF RouteInvoice
  <1>16. CASE IssueToken(w)
    <2> DEFINE l == [local[w] EXCEPT !.pc = "page"]
    <2>1. wjob[w][1] \in {"match", "rerun"} /\ local[w].approver \in Approvers
      BY <1>2, <1>16 DEF IssueToken, At, MatchPcs, Placed
    <2>2. l \in LocalType /\ l.pc = "page" /\ l.approver = local[w].approver
      <3>1. l \in LocalType
        BY <1>2, LocalUpdates, Places DEF MatchPcs
      <3>2. l.pc = "page" /\ l.approver = local[w].approver
        BY <1>2 DEF LocalType
      <3>3. QED
        BY <3>1, <3>2
    <2>3. Placed(wjob[w][1], l)
      BY <2>1, <2>2 DEF Placed, ExtractPcs, MatchPcs
    <2>4. QED
      BY <1>4, <1>16, <2>2, <2>3 DEF IssueToken
  <1>17. CASE EnqueueNotify(w)
    <2>1. wjob[w][1] \in {"match", "rerun"} /\ local[w].approver \in Approvers
      BY <1>2, <1>17 DEF EnqueueNotify, At, MatchPcs, Placed
    <2>2. Q!Enqueue(NotifyJob(Inv(w), local[w].approver)) /\ wstate' = wstate /\ wjob' = wjob
      BY <1>17 DEF EnqueueNotify, Q!Enqueue, Q!workerVars
    <2>3. CASE local[w].approver + 1 \in Contacts(DecisionOf(w).required_approvers)
      <3> DEFINE l == [local[w] EXCEPT !.pc = "issue", !.approver = local[w].approver + 1]
      <3>1. local[w].approver + 1 \in Approvers
        BY <2>3 DEF Contacts
      <3>2. l \in LocalType /\ Placed(wjob[w][1], l)
        BY <1>14, <2>1, <3>1
      <3>3. local' = [local EXCEPT ![w] = l]
        BY <1>17, <2>3 DEF EnqueueNotify
      <3>4. QED
        BY <1>1, <1>17, <2>1, <2>2, <3>2, <3>3, GoesOn
    <2>4. CASE local[w].approver + 1 \notin Contacts(DecisionOf(w).required_approvers)
      <3> DEFINE l == [local[w] EXCEPT !.pc = "finished"]
      <3>1. l \in LocalType /\ l.pc = "finished"
        <4>1. l \in LocalType
          BY <1>2, LocalUpdates, Places
        <4>2. l.pc = "finished"
          BY <1>2 DEF LocalType
        <4>3. QED
          BY <4>1, <4>2
      <3>2. Placed(wjob[w][1], l)
        BY <2>1, <3>1 DEF Placed, ExtractPcs, MatchPcs
      <3>3. local' = [local EXCEPT ![w] = l]
        BY <1>17, <2>4 DEF EnqueueNotify
      <3>4. QED
        BY <1>1, <1>17, <2>1, <2>2, <3>1, <3>2, <3>3, GoesOn
    <2>5. QED
      BY <2>3, <2>4
  <1>18. QED
    BY <1>5, <1>7, <1>8, <1>9, <1>10, <1>11, <1>12, <1>13, <1>15, <1>16, <1>17
       DEF HandlerStep

-----------------------------------------------------------------------------
(***************************************************************************)
(* What the pipeline does to the queue is what the queue allows            *)
(***************************************************************************)

\* A step of worker w, and a step that is no worker's.

\* The steps of one worker.
WorkerNext(w) ==
  \/ Claim(w) \/ SetTenant(w) \/ HandlerStep(w) \/ HandlerHitsDbError(w)
  \/ Complete(w) \/ Fail(w) \/ Crash(w)

\* The steps of everyone else: the clock, the reaper, the API and the people.
OtherNext ==
  \/ Background
  \/ \E i \in Invoices :
        \/ Ingest(i) \/ LinkVendor(i)
        \/ \E d \in Documents : CorrectField(i, d)
        \/ \E r \in Reruns : RerunRead(r, i)
        \/ Settle(i, "APPROVED") \/ Settle(i, "REJECTED")
  \/ \E r \in Reruns : RerunWrite(r)

\* There are no other steps.
LEMMA NextSplit == Next <=> OtherNext \/ \E w \in Workers : WorkerNext(w)
  BY DEF Next, OtherNext, WorkerNext

\* A step that leaves the variables of the queue alone leaves the queue alone.
LEMMA QueueStands == UNCHANGED queueVars => UNCHANGED Q!vars /\ UNCHANGED Q!jobVars
  BY DEF queueVars, Q!vars, Q!jobVars, Q!workerVars, Q!faultVars

\* Every step of the pipeline is a step of the queue, or leaves it alone.
LEMMA QueueStep == WellTyped /\ [Next]_vars => [Q!Next]_Q!vars
  <1> SUFFICES ASSUME WellTyped, [Next]_vars PROVE [Q!Next]_Q!vars
    OBVIOUS
  <1>1. ASSUME NEW w \in Workers,
               Claim(w) \/ SetTenant(w) \/ HandlerHitsDbError(w) \/ Complete(w) \/ Fail(w)
        PROVE  Q!Next
    BY <1>1 DEF Claim, SetTenant, HandlerHitsDbError, Complete, Fail, Q!Next, Q!WorkerStep
  <1>2. ASSUME NEW w \in Workers, Crash(w) PROVE Q!Next
    BY <1>2 DEF Crash, Q!Next
  <1>3. ASSUME NEW w \in Workers, HandlerStep(w) PROVE [Q!Next]_Q!vars
    <2>1. CASE UNCHANGED queueVars
      BY <2>1, QueueStands
    <2>2. CASE Q!HandlerReturns(w) \/ Q!HandlerRaises(w)
      BY <2>2 DEF Q!Next, Q!WorkerStep
    <2>3. Inv(w) \in Invoices
      BY <1>3, HandlerInside, SubjectTyped DEF Q!Busy
    <2>4. CASE Q!Enqueue(MatchJob(Inv(w)))
      BY <2>3, <2>4, JobsMade DEF Q!Next
    <2>5. CASE /\ local[w].approver \in Approvers
               /\ Q!Enqueue(NotifyJob(Inv(w), local[w].approver))
      BY <2>3, <2>5, JobsMade DEF Q!Next
    <2>6. QED
      BY <1>3, <2>1, <2>2, <2>4, <2>5, HandlerInside
  <1>4. CASE Background
    BY <1>4 DEF Background, Q!Next
  <1>5. ASSUME NEW i \in Invoices, Ingest(i) PROVE Q!Next
    BY <1>5, JobsMade DEF Ingest, Q!Next
  <1>6. ASSUME NEW i \in Invoices,
               \/ LinkVendor(i)
               \/ \E d \in Documents : CorrectField(i, d)
               \/ \E r \in Reruns : RerunRead(r, i)
               \/ Settle(i, "APPROVED") \/ Settle(i, "REJECTED")
        PROVE  UNCHANGED Q!vars
    BY <1>6, QueueStands DEF LinkVendor, CorrectField, RerunRead, Settle
  <1>7. ASSUME NEW r \in Reruns, RerunWrite(r) PROVE Q!Next
    BY <1>7, JobsMade DEF RerunWrite, Q!Next
  <1>8. CASE UNCHANGED vars
    BY <1>8, QueueStands DEF vars
  <1>9. QED
    BY <1>1, <1>2, <1>3, <1>4, <1>5, <1>6, <1>7, <1>8 DEF Next

\* A job of the pipeline is inserted by ingestion, by the end of an extraction, by
\* the routing of an invoice, by a re-run request, and by nothing else.
LEMMA Inserts ==
  ASSUME WellTyped, Next, NEW k \in Jobs, jstatus[k] = "absent", jstatus'[k] # "absent"
  PROVE  \/ \E i \in Invoices : Ingest(i) /\ k = ExtractJob(i)
         \/ \E w \in Workers : EnqueueMatch(w) /\ wjob[w][1] = "extract" /\ k = MatchJob(Inv(w))
         \/ \E w \in Workers : EnqueueNotify(w) /\ k = NotifyJob(Inv(w), local[w].approver)
         \/ \E r \in Reruns : RerunWrite(r) /\ k = RerunJob(r)
  <1> DEFINE Goal ==
         \/ \E i \in Invoices : Ingest(i) /\ k = ExtractJob(i)
         \/ \E w \in Workers : EnqueueMatch(w) /\ wjob[w][1] = "extract" /\ k = MatchJob(Inv(w))
         \/ \E w \in Workers : EnqueueNotify(w) /\ k = NotifyJob(Inv(w), local[w].approver)
         \/ \E r \in Reruns : RerunWrite(r) /\ k = RerunJob(r)
  <1>1. ASSUME NEW j, Q!Enqueue(j) PROVE k = j
    BY <1>1 DEF Q!Enqueue, Q!enqueue, Q!jobVars, WellTyped, Q!TypeOK
  <1>2. ~ UNCHANGED Q!jobVars
    BY DEF Q!jobVars
  <1>3. ~ \/ \E w \in Workers : Q!WorkerStep(w) \/ Q!Shutdown(w) \/ Q!Crash(w) \/ Q!Restart(w)
          \/ \E j \in Jobs : Q!BackoffElapses(j) \/ Q!LockGoesStale(j)
          \/ Q!Reap
    BY QueueInserts DEF WellTyped
  <1>4. ASSUME NEW w \in Workers, WorkerNext(w) PROVE Goal
    <2>1. HandlerStep(w)
      BY <1>3, <1>4 DEF WorkerNext, Claim, SetTenant, HandlerHitsDbError, Complete, Fail,
                        Crash, Q!WorkerStep
    <2>2. ~(Q!HandlerReturns(w) \/ Q!HandlerRaises(w))
      BY <1>3 DEF Q!WorkerStep
    <2>3. QED
      BY <1>1, <1>2, <2>1, <2>2, HandlerInside, QueueStands
  <1>5. ASSUME OtherNext PROVE Goal
    <2>1. ~Background
      BY <1>3 DEF Background
    <2>2. ASSUME NEW i \in Invoices, Ingest(i) PROVE Goal
      BY <1>1, <2>2 DEF Ingest
    <2>3. ASSUME NEW r \in Reruns, RerunWrite(r) PROVE Goal
      BY <1>1, <2>3 DEF RerunWrite
    <2>4. ~ \E i \in Invoices :
                \/ LinkVendor(i)
                \/ \E d \in Documents : CorrectField(i, d)
                \/ \E r \in Reruns : RerunRead(r, i)
                \/ Settle(i, "APPROVED") \/ Settle(i, "REJECTED")
      BY <1>2, QueueStands DEF LinkVendor, CorrectField, RerunRead, Settle
    <2>5. QED
      BY <1>5, <2>1, <2>2, <2>3, <2>4 DEF OtherNext
  <1>6. QED
    BY <1>4, <1>5, NextSplit
-----------------------------------------------------------------------------

\* Who writes invoices.status, and what: never that there is no invoice, and
\* RECEIVED only where there was none.
LEMMA StatusWrites ==
  ASSUME WellTyped, Next
  PROVE  \/ UNCHANGED <<istatus, audit>>
         \/ \E i \in Invoices, from \in Statuses, to \in Statuses \ {NoInvoice} :
               /\ _transition(i, from, to)
               /\ to = "RECEIVED" => istatus[i] = NoInvoice
  <1> DEFINE Goal ==
         \/ UNCHANGED <<istatus, audit>>
         \/ \E i \in Invoices, from \in Statuses, to \in Statuses \ {NoInvoice} :
               /\ _transition(i, from, to)
               /\ to = "RECEIVED" => istatus[i] = NoInvoice
  <1>1. ASSUME NEW w \in Workers, HandlerStep(w) PROVE Goal
    <2>1. Inv(w) \in Invoices /\ local[w].status \in Statuses
      BY <1>1, HandlerInside, SubjectTyped, LocalTyped DEF Q!Busy, InHandler
    <2>2. CASE Begin(w)
      BY <2>1, <2>2, StatusesWritten DEF Begin
    <2>3. CASE ExtractFails(w) \/ FinishExtraction(w) \/ MatchInvalid(w)
      BY <2>1, <2>3, StatusesWritten DEF ExtractFails, FinishExtraction, MatchInvalid
    <2>4. CASE ApplyDecision(w) \/ RouteInvoice(w)
      BY <2>1, <2>4, StatusesWritten DEF ApplyDecision, RouteInvoice, Intermediate
    <2>5. CASE ~ \/ Begin(w) \/ ExtractFails(w) \/ FinishExtraction(w) \/ MatchInvalid(w)
                 \/ ApplyDecision(w) \/ RouteInvoice(w)
      BY <1>1, <2>5 DEF HandlerStep, ReadInvoice, PersistExtraction, EnqueueMatch, MatchRaises,
             PersistMatchRun, PersistLineMatches, PersistMatchExceptions,
             PersistDecisionReason, IssueToken, EnqueueNotify, Finished, NotifyEnds, bizVars
    <2>6. QED
      BY <2>2, <2>3, <2>4, <2>5
  <1>2. ASSUME NEW w \in Workers,
               \/ Claim(w) \/ SetTenant(w) \/ HandlerHitsDbError(w)
               \/ Complete(w) \/ Fail(w) \/ Crash(w)
        PROVE  Goal
    BY <1>2 DEF Claim, SetTenant, HandlerHitsDbError, Complete, Fail, Crash, bizVars
  <1>3. CASE Background
    BY <1>3 DEF Background, bizVars
  <1>4. ASSUME NEW i \in Invoices, Ingest(i) PROVE Goal
    BY <1>4, StatusesWritten DEF Ingest
  <1>5. ASSUME NEW i \in Invoices,
               \/ LinkVendor(i)
               \/ \E d \in Documents : CorrectField(i, d)
               \/ \E r \in Reruns : RerunRead(r, i)
        PROVE  Goal
    BY <1>5 DEF LinkVendor, CorrectField, RerunRead, bizVars
  <1>6. ASSUME NEW i \in Invoices, Settle(i, "APPROVED") \/ Settle(i, "REJECTED") PROVE Goal
    BY <1>6, StatusesWritten DEF Settle, WellTyped, RowsTyped
  <1>7. ASSUME NEW r \in Reruns, RerunWrite(r) PROVE Goal
    <2>1. request[r].invoice \in Invoices /\ request[r].status \in Statuses
      BY <1>7 DEF RerunWrite, WellTyped, RowsTyped, RequestType
    <2>2. QED
      BY <1>7, <2>1, StatusesWritten DEF RerunWrite
  <1>8. QED
    BY <1>1, <1>2, <1>3, <1>4, <1>5, <1>6, <1>7 DEF Next

-----------------------------------------------------------------------------

\* An invoice that exists goes on existing, and every status is a status.
LEMMA InvoicesStay ==
  ASSUME WellTyped, [Next]_vars
  PROVE  /\ istatus' \in [Invoices -> Statuses] /\ audit' \in [Invoices -> Statuses \X Statuses]
         /\ \A i \in Invoices : istatus[i] # NoInvoice => istatus'[i] # NoInvoice
  <1> DEFINE Goal ==
         /\ istatus' \in [Invoices -> Statuses] /\ audit' \in [Invoices -> Statuses \X Statuses]
         /\ \A i \in Invoices : istatus[i] # NoInvoice => istatus'[i] # NoInvoice
  <1>1. CASE UNCHANGED <<istatus, audit>>
    BY <1>1 DEF WellTyped, RowsTyped
  <1>2. ASSUME NEW j \in Invoices, NEW from \in Statuses, NEW to \in Statuses \ {NoInvoice},
               _transition(j, from, to)
        PROVE  Goal
    BY <1>2 DEF _transition, WellTyped, RowsTyped
  <1>3. CASE UNCHANGED vars
    BY <1>1, <1>3 DEF vars, bizVars
  <1>4. QED
    BY <1>1, <1>2, <1>3, StatusWrites

\* Every step keeps the types of the rows.
LEMMA RowsStep == WellTyped /\ [Next]_vars => RowsTyped'
  <1> SUFFICES ASSUME WellTyped, [Next]_vars PROVE RowsTyped'
    OBVIOUS
  <1> DEFINE Rest == /\ linked' \in [Invoices -> BOOLEAN]
                     /\ doc' \in [Invoices -> Documents \cup {NoDoc}]
                     /\ extractions' \in [Invoices -> Nat]
                     /\ run' \in [Invoices -> RunType]
                     /\ tokens' \in [Invoices -> [Approvers -> Nat]]
                     /\ corrections' \in 0..MaxCorrections
                     /\ request' \in [Reruns -> RequestType]
  <1>1. /\ linked \in [Invoices -> BOOLEAN]
        /\ doc \in [Invoices -> Documents \cup {NoDoc}]
        /\ extractions \in [Invoices -> Nat]
        /\ run \in [Invoices -> RunType]
        /\ tokens \in [Invoices -> [Approvers -> Nat]]
        /\ corrections \in 0..MaxCorrections
        /\ request \in [Reruns -> RequestType]
        /\ istatus \in [Invoices -> Statuses]
    BY DEF WellTyped, RowsTyped
  <1>2. ASSUME UNCHANGED <<linked, doc, extractions, run, tokens, corrections, request>>
        PROVE  Rest
    BY <1>1, <1>2
  <1>3. ASSUME NEW w \in Workers, HandlerStep(w) PROVE Rest
    <2>1. CASE PersistExtraction(w)
      <3>1. PICK d \in Documents : doc' = [doc EXCEPT ![Inv(w)] = d]
        BY <2>1 DEF PersistExtraction
      <3>2. doc' \in [Invoices -> Documents \cup {NoDoc}]
        BY <1>1, <3>1
      <3>3. extractions' \in [Invoices -> Nat]
        <4>1. Inv(w) \in Invoices
          BY <1>3, HandlerInside, SubjectTyped DEF Q!Busy
        <4>2. extractions' = [extractions EXCEPT ![Inv(w)] = @ + 1]
          BY <2>1 DEF PersistExtraction
        <4>3. QED
          BY <1>1, <4>1, <4>2
      <3>4. UNCHANGED <<linked, run, tokens, corrections, request>>
        BY <2>1 DEF PersistExtraction, apiVars
      <3>5. QED
        BY <1>1, <3>2, <3>3, <3>4
    <2>2. CASE PersistMatchRun(w)
      <3>1. PICK result \in MatchResults :
              run' = [run EXCEPT ![Inv(w)] = [result |-> result, lines |-> FALSE,
                                              exceptions |-> FALSE, decision |-> NoDecision]]
        BY <2>2 DEF PersistMatchRun
      <3>2. [result |-> result, lines |-> FALSE, exceptions |-> FALSE, decision |-> NoDecision]
              \in RunType
        BY DEF RunType, NoDecision, DecisionType
      <3>3. UNCHANGED <<linked, doc, extractions, tokens, corrections, request>>
        BY <2>2 DEF PersistMatchRun, apiVars
      <3>4. QED
        BY <1>1, <3>1, <3>2, <3>3
    <2>3. CASE \/ PersistLineMatches(w) \/ PersistMatchExceptions(w)
               \/ PersistDecisionReason(w)
      <3>1. Inv(w) \in Invoices
        BY <1>3, HandlerInside, SubjectTyped DEF Q!Busy
      <3>2. DecisionOf(w) \in DecisionType
        BY DecisionsTyped DEF DecisionOf
      <3>3. /\ [run[Inv(w)] EXCEPT !.lines = TRUE] \in RunType
            /\ [run[Inv(w)] EXCEPT !.exceptions = TRUE] \in RunType
            /\ [run[Inv(w)] EXCEPT !.decision = DecisionOf(w)] \in RunType
        BY <1>1, <3>1, <3>2 DEF RunType
      <3>4. \E r \in RunType : run' = [run EXCEPT ![Inv(w)] = r]
        BY <2>3, <3>3
           DEF PersistLineMatches, PersistMatchExceptions, PersistDecisionReason
      <3>5. UNCHANGED <<linked, doc, extractions, tokens, corrections, request>>
        BY <2>3 DEF PersistLineMatches, PersistMatchExceptions, PersistDecisionReason, apiVars
      <3>6. QED
        BY <1>1, <3>4, <3>5
    <2>4. CASE IssueToken(w)
      <3>1. tokens' = [tokens EXCEPT ![Inv(w)][local[w].approver] = @ + 1]
        BY <2>4 DEF IssueToken
      <3>2. tokens' \in [Invoices -> [Approvers -> Nat]]
        <4>1. Inv(w) \in Invoices /\ local[w].approver \in Approvers
          BY <1>3, <2>4, HandlerInside, SubjectTyped, LocalTyped
             DEF Q!Busy, InHandler, Placed, IssueToken, At
        <4>2. tokens[Inv(w)] \in [Approvers -> Nat]
          BY <1>1, <4>1
        <4>3. [tokens[Inv(w)] EXCEPT ![local[w].approver] = @ + 1] \in [Approvers -> Nat]
          BY <4>1, <4>2
        <4>4. QED
          BY <1>1, <3>1, <4>1, <4>3
      <3>3. UNCHANGED <<linked, doc, extractions, run, corrections, request>>
        BY <2>4 DEF IssueToken, apiVars
      <3>4. QED
        BY <1>1, <3>2, <3>3
    <2>5. CASE ~ \/ PersistExtraction(w) \/ PersistMatchRun(w) \/ PersistLineMatches(w)
                 \/ PersistMatchExceptions(w) \/ PersistDecisionReason(w) \/ IssueToken(w)
      BY <1>2, <1>3, <2>5 DEF HandlerStep, ReadInvoice, Begin, ExtractFails, FinishExtraction,
             EnqueueMatch, MatchRaises, MatchInvalid, ApplyDecision, RouteInvoice,
             EnqueueNotify, Finished, NotifyEnds, bizVars, apiVars
    <2>6. QED
      BY <2>1, <2>2, <2>3, <2>4, <2>5
  <1>4. ASSUME NEW w \in Workers,
               \/ Claim(w) \/ SetTenant(w) \/ HandlerHitsDbError(w)
               \/ Complete(w) \/ Fail(w) \/ Crash(w)
        PROVE  Rest
    BY <1>2, <1>4 DEF Claim, SetTenant, HandlerHitsDbError, Complete, Fail, Crash, bizVars,
                      apiVars
  <1>5. ASSUME Background PROVE Rest
    <2>1. UNCHANGED <<linked, doc, extractions, run, tokens, corrections, request>>
      BY <1>5 DEF Background, bizVars, apiVars
    <2>2. QED
      BY <1>2, <2>1
  <1>6. ASSUME NEW i \in Invoices, Ingest(i) \/ Settle(i, "APPROVED") \/ Settle(i, "REJECTED")
        PROVE  Rest
    BY <1>2, <1>6 DEF Ingest, Settle, apiVars
  <1>7. ASSUME NEW i \in Invoices, LinkVendor(i) PROVE Rest
    <2>1. linked' \in [Invoices -> BOOLEAN]
      BY <1>1, <1>7, Zenon DEF LinkVendor
    <2>2. QED
      BY <1>1, <1>7, <2>1 DEF LinkVendor, apiVars
  <1>8. ASSUME NEW i \in Invoices, NEW d \in Documents, CorrectField(i, d) PROVE Rest
    <2>1. corrections' \in 0..MaxCorrections
      BY <1>1, <1>8, PipelineAssumption DEF CorrectField
    <2>2. QED
      BY <1>1, <1>8, <2>1 DEF CorrectField
  <1>9. ASSUME NEW i \in Invoices, NEW r \in Reruns, RerunRead(r, i) PROVE Rest
    <2>1. /\ [pc |-> "read", invoice |-> i, status |-> istatus[i]] \in RequestType
          /\ [pc |-> "refused"] \in RequestType
      BY <1>1 DEF RequestType
    <2>2. request' \in [Reruns -> RequestType]
      BY <1>1, <1>9, <2>1 DEF RerunRead
    <2>3. QED
      BY <1>1, <1>9, <2>2 DEF RerunRead, bizVars
  <1>10. ASSUME NEW r \in Reruns, RerunWrite(r) PROVE Rest
    <2>1. [request[r] EXCEPT !.pc = "done"] \in RequestType
      BY <1>1, <1>10 DEF RerunWrite, RequestType
    <2>2. QED
      BY <1>1, <1>10, <2>1 DEF RerunWrite
  <1>11. ASSUME UNCHANGED vars PROVE Rest
    <2>1. UNCHANGED <<linked, doc, extractions, run, tokens, corrections, request>>
      BY <1>11 DEF vars, bizVars, apiVars
    <2>2. QED
      BY <1>2, <2>1
  <1>12. Rest
    <2> HIDE DEF Rest
    <2>1. QED
      BY <1>3, <1>4, <1>5, <1>6, <1>7, <1>8, <1>9, <1>10, <1>11 DEF Next
  <1>13. QED
    BY <1>12, InvoicesStay DEF RowsTyped

-----------------------------------------------------------------------------

\* A worker's step leaves the other workers where they are.
LEMMA OthersStand ==
  ASSUME WellTyped, NEW w \in Workers, WorkerNext(w), NEW v \in Workers, v # w
  PROVE  local'[v] = local[v] /\ wstate'[v] = wstate[v] /\ wjob'[v] = wjob[v]
  <1>1. /\ local \in [Workers -> LocalType \cup {NoLocal}]
        /\ wstate \in [Workers -> Q!WorkerState] /\ wjob \in [Workers -> Jobs \cup {NoJob}]
    BY DEF WellTyped, LocalsTyped, Q!TypeOK
  <1>2. CASE HandlerStep(w)
    BY <1>1, <1>2, HandlerInside DEF Inside
  <1>3. CASE Claim(w)
    BY <1>1, <1>3 DEF Claim, Q!Claim
  <1>4. CASE SetTenant(w) \/ HandlerHitsDbError(w)
    BY <1>1, <1>4 DEF SetTenant, Q!SetTenant, HandlerHitsDbError, Q!HandlerHitsDbError, Q!jobVars
  <1>5. CASE Complete(w) \/ Fail(w)
    BY <1>1, <1>5 DEF Complete, Q!Complete, Fail, Q!Fail
  <1>6. CASE Crash(w)
    BY <1>1, <1>6 DEF Crash, Q!Crash
  <1>7. QED
    BY <1>2, <1>3, <1>4, <1>5, <1>6 DEF WorkerNext

\* A step that is no worker's leaves the workers in a handler where they are, and
\* puts nobody into one.
LEMMA HandlersStand ==
  ASSUME WellTyped, OtherNext \/ UNCHANGED vars
  PROVE  /\ local' = local
         /\ \A v \in Workers : /\ InHandler(v)' <=> InHandler(v)
                               /\ InHandler(v) => wstate'[v] = wstate[v] /\ wjob'[v] = wjob[v]
  <1> DEFINE Goal ==
         /\ local' = local
         /\ \A v \in Workers : /\ InHandler(v)' <=> InHandler(v)
                               /\ InHandler(v) => wstate'[v] = wstate[v] /\ wjob'[v] = wjob[v]
  <1>1. /\ wstate \in [Workers -> Q!WorkerState] /\ wjob \in [Workers -> Jobs \cup {NoJob}]
    BY DEF WellTyped, Q!TypeOK
  <1>2. ASSUME UNCHANGED <<wstate, wjob, local>> PROVE Goal
    BY <1>2 DEF InHandler
  <1>3. ASSUME Background PROVE Goal
    <2>1. local' = local
      BY <1>3 DEF Background
    <2>2. CASE Q!Reap \/ \E k \in Jobs : Q!BackoffElapses(k) \/ Q!LockGoesStale(k)
      BY <1>2, <2>1, <2>2 DEF Q!Reap, Q!BackoffElapses, Q!LockGoesStale, Q!workerVars
    <2>3. ASSUME NEW w \in Workers, Q!Shutdown(w) \/ Q!Restart(w) PROVE Goal
      BY <1>1, <2>1, <2>3 DEF Q!Shutdown, Q!Restart, Q!Alive, InHandler
    <2>4. QED
      BY <1>3, <2>2, <2>3 DEF Background
  <1>4. ASSUME NEW i \in Invoices,
               \/ Ingest(i) \/ LinkVendor(i)
               \/ \E d \in Documents : CorrectField(i, d)
               \/ \E r \in Reruns : RerunRead(r, i)
               \/ Settle(i, "APPROVED") \/ Settle(i, "REJECTED")
        PROVE  Goal
    <2>1. UNCHANGED <<wstate, wjob, local>>
      BY <1>4 DEF Ingest, Q!Enqueue, Q!workerVars, LinkVendor, CorrectField, RerunRead, Settle,
                  queueVars
    <2>2. QED
      BY <1>2, <2>1
  <1>5. ASSUME NEW r \in Reruns, RerunWrite(r) PROVE Goal
    BY <1>2, <1>5 DEF RerunWrite, Q!Enqueue, Q!workerVars
  <1>6. ASSUME UNCHANGED vars PROVE Goal
    BY <1>2, <1>6 DEF vars, queueVars
  <1>7. QED
    BY <1>3, <1>4, <1>5, <1>6 DEF OtherNext

\* A handler starts with fresh local variables.
LEMMA Claims ==
  ASSUME WellTyped, NEW w \in Workers, Claim(w)
  PROVE  /\ local' \in [Workers -> LocalType \cup {NoLocal}]
         /\ local'[w] \in LocalType /\ local'[w].pc = "start"
         /\ wstate[w] = "idle" /\ wstate'[w] = "claimed"
         /\ wjob'[w] \in Jobs /\ jstatus[wjob'[w]] = "queued"
  <1>1. /\ wstate \in [Workers -> Q!WorkerState] /\ wjob \in [Workers -> Jobs \cup {NoJob}]
        /\ attempts \in [Jobs -> Nat]
    BY DEF WellTyped, Q!TypeOK
  <1>2. /\ wstate[w] = "idle" /\ wstate'[w] = "claimed"
        /\ wjob'[w] \in Jobs /\ jstatus[wjob'[w]] = "queued"
    BY <1>1 DEF Claim, Q!Claim, Q!claim_next, Q!Claimable
  <1> DEFINE l == [pc |-> "start", attempts |-> attempts[wjob'[w]], status |-> NoInvoice,
                   doc |-> NoDoc, result |-> "none", approver |-> 0]
  <1>3. l \in LocalType
    BY <1>1, <1>2, Places, StatusesWritten DEF LocalType
  <1>4. local' = [local EXCEPT ![w] = l]
    BY DEF Claim
  <1>5. l.pc = "start"
    OBVIOUS
  <1>6. QED
    <2> HIDE DEF l
    <2>1. QED
      BY <1>2, <1>3, <1>4, <1>5 DEF WellTyped, LocalsTyped

\* Handlers stay where their jobs can bring them.
LEMMA LocalsStep == WellTyped /\ [Next]_vars => LocalsTyped'
  <1> SUFFICES ASSUME WellTyped, [Next]_vars PROVE LocalsTyped'
    OBVIOUS
  <1> DEFINE OK(v) == /\ InHandler(v) <=> local[v] # NoLocal
                      /\ InHandler(v) => Placed(wjob[v][1], local[v])
                      /\ wstate[v] = "claimed" => local[v].pc = "start"
  <1>1. /\ local \in [Workers -> LocalType \cup {NoLocal}]
        /\ wstate \in [Workers -> Q!WorkerState] /\ wjob \in [Workers -> Jobs \cup {NoJob}]
        /\ \A v \in Workers : OK(v)
    BY DEF WellTyped, LocalsTyped, Q!TypeOK
  <1>2. ASSUME NEW v \in Workers, local'[v] = local[v], wstate'[v] = wstate[v], wjob'[v] = wjob[v]
        PROVE  OK(v)'
    BY <1>1, <1>2 DEF InHandler, Placed
  <1>3. ASSUME NEW w \in Workers, WorkerNext(w), OK(w)',
               local' \in [Workers -> LocalType \cup {NoLocal}]
        PROVE  LocalsTyped'
    <2>1. ASSUME NEW v \in Workers, v # w PROVE OK(v)'
      BY <1>2, <1>3, <2>1, OthersStand
    <2>2. QED
      BY <1>3, <2>1 DEF LocalsTyped
  <1>4. ASSUME NEW w \in Workers, HandlerStep(w) PROVE LocalsTyped'
    <2>1. Inside(w)
      BY <1>4, HandlerInside
    <2>2. OK(w)'
      BY <2>1 DEF Inside, InHandler, Placed
    <2>3. QED
      BY <1>3, <1>4, <2>1, <2>2 DEF Inside, WorkerNext
  <1>5. ASSUME NEW w \in Workers, Claim(w) PROVE LocalsTyped'
    <2>1. OK(w)'
      BY <1>5, Claims, Places DEF InHandler, Placed, ExtractPcs, MatchPcs
    <2>2. QED
      BY <1>3, <1>5, <2>1, Claims DEF WorkerNext
  <1>6. ASSUME NEW w \in Workers, SetTenant(w) PROVE LocalsTyped'
    <2>1. /\ wstate[w] = "claimed"
          /\ wstate' = [wstate EXCEPT ![w] = IF conn[w] = "aborted" THEN "died" ELSE "running"]
          /\ wjob' = wjob
          /\ local' = [local EXCEPT ![w] = IF conn[w] = "aborted" THEN NoLocal ELSE @]
      BY <1>6 DEF SetTenant, Q!SetTenant
    <2>2. OK(w)'
      BY <1>1, <2>1 DEF InHandler, Placed
    <2>3. local' \in [Workers -> LocalType \cup {NoLocal}]
      BY <1>1, <2>1
    <2>4. WorkerNext(w)
      BY <1>6 DEF WorkerNext
    <2>5. QED
      BY <1>3, <2>2, <2>3, <2>4
  <1>7. ASSUME NEW w \in Workers, HandlerHitsDbError(w) \/ Crash(w) PROVE LocalsTyped'
    <2>1. /\ wstate'[w] \in {"raised", "crashed"}
          /\ local' = [local EXCEPT ![w] = NoLocal]
      BY <1>1, <1>7 DEF HandlerHitsDbError, Q!HandlerHitsDbError, Crash, Q!Crash
    <2>2. OK(w)'
      BY <1>1, <2>1 DEF InHandler, Placed
    <2>3. local' \in [Workers -> LocalType \cup {NoLocal}]
      BY <1>1, <2>1
    <2>4. WorkerNext(w)
      BY <1>7 DEF WorkerNext
    <2>5. QED
      BY <1>3, <2>2, <2>3, <2>4
  <1>8. ASSUME NEW w \in Workers, Complete(w) \/ Fail(w) PROVE LocalsTyped'
    <2>1. wstate[w] \in {"returned", "raised"} /\ wstate'[w] = "idle" /\ local' = local
      BY <1>1, <1>8 DEF Complete, Q!Complete, Fail, Q!Fail
    <2>2. OK(w)'
      BY <1>1, <2>1 DEF InHandler, Placed
    <2>3. QED
      BY <1>1, <1>3, <1>8, <2>1, <2>2 DEF WorkerNext
  <1>9. ASSUME OtherNext \/ UNCHANGED vars PROVE LocalsTyped'
    <2>1. ASSUME NEW v \in Workers PROVE OK(v)'
      BY <1>1, <1>9, HandlersStand DEF InHandler, Placed
    <2>2. QED
      BY <1>1, <1>9, <2>1, HandlersStand DEF LocalsTyped
  <1>10. QED
    BY <1>4, <1>5, <1>6, <1>7, <1>8, <1>9, NextSplit DEF WorkerNext

\* Re-run requests move by the two halves of rerun_match only.
LEMMA RequestWrites ==
  ASSUME WellTyped, [Next]_vars
  PROVE  \/ request' = request
         \/ \E r \in Reruns, i \in Invoices : RerunRead(r, i)
         \/ \E r \in Reruns : RerunWrite(r)
  <1>1. ASSUME NEW w \in Workers, WorkerNext(w) PROVE request' = request
    BY <1>1 DEF WorkerNext, Claim, SetTenant, HandlerStep, HandlerHitsDbError, Complete, Fail,
           Crash, ReadInvoice, Begin, ExtractFails, PersistExtraction, FinishExtraction,
           EnqueueMatch, MatchRaises, MatchInvalid, PersistMatchRun, PersistLineMatches,
           PersistMatchExceptions, PersistDecisionReason, ApplyDecision, RouteInvoice,
           IssueToken, EnqueueNotify, Finished, NotifyEnds, apiVars
  <1>2. ASSUME Background PROVE request' = request
    BY <1>2 DEF Background, apiVars
  <1>3. ASSUME NEW i \in Invoices,
               \/ Ingest(i) \/ LinkVendor(i)
               \/ \E d \in Documents : CorrectField(i, d)
               \/ Settle(i, "APPROVED") \/ Settle(i, "REJECTED")
        PROVE  request' = request
    BY <1>3 DEF Ingest, LinkVendor, CorrectField, Settle, apiVars
  <1>4. ASSUME UNCHANGED vars PROVE request' = request
    BY <1>4 DEF vars, apiVars
  <1>5. QED
    BY <1>1, <1>2, <1>3, <1>4, NextSplit DEF OtherNext

\* What a job or a request is about goes on existing.
LEMMA SubjectsStep == WellTyped /\ [Next]_vars => SubjectsExist'
  <1> SUFFICES ASSUME WellTyped, [Next]_vars PROVE SubjectsExist'
    OBVIOUS
  <1> USE DEF WellTyped
  <1>1. ASSUME NEW i \in Invoices, jstatus'[ExtractJob(i)] # "absent" PROVE istatus'[i] # NoInvoice
    <2>1. CASE jstatus[ExtractJob(i)] # "absent"
      BY <2>1, InvoicesStay DEF SubjectsExist
    <2>2. CASE jstatus[ExtractJob(i)] = "absent"
      <3>1. Next
        BY <1>1, <2>2 DEF vars, queueVars
      <3>2. PICK j \in Invoices : Ingest(j) /\ ExtractJob(i) = ExtractJob(j)
        BY <1>1, <2>2, <3>1, Inserts, JobsMade, JobFields
      <3>3. i = j
        BY <3>2, JobFields
      <3>4. QED
        BY <3>2, <3>3, StatusesWritten DEF Ingest, _transition, RowsTyped
    <2>3. QED
      BY <2>1, <2>2
  <1>2. ASSUME NEW i \in Invoices, jstatus'[MatchJob(i)] # "absent" PROVE istatus'[i] # NoInvoice
    <2>1. CASE jstatus[MatchJob(i)] # "absent"
      BY <2>1, InvoicesStay DEF SubjectsExist
    <2>2. CASE jstatus[MatchJob(i)] = "absent"
      <3>1. Next
        BY <1>2, <2>2 DEF vars, queueVars
      <3>2. PICK w \in Workers :
              EnqueueMatch(w) /\ wjob[w][1] = "extract" /\ MatchJob(i) = MatchJob(Inv(w))
        BY <1>2, <2>2, <3>1, Inserts, JobsMade, JobFields
      <3>3. i = Inv(w)
        BY <3>2, JobFields
      <3>4. istatus[i] # NoInvoice
        BY <3>2, <3>3, SubjectTyped DEF EnqueueMatch, At, Q!Busy
      <3>5. QED
        BY <3>4, InvoicesStay
    <2>3. QED
      BY <2>1, <2>2
  <1>3. \/ request' = request
        \/ \E r \in Reruns, i \in Invoices : RerunRead(r, i)
        \/ \E r \in Reruns : RerunWrite(r)
    BY RequestWrites
  <1>4. ASSUME NEW r \in Reruns, request'[r].pc \in {"read", "done"}
        PROVE  istatus'[request'[r].invoice] # NoInvoice
    <2>1. CASE request'[r] = request[r]
      <3>1. request[r].invoice \in Invoices
        BY <1>4, <2>1 DEF RowsTyped, RequestType
      <3>2. QED
        BY <1>4, <2>1, <3>1, InvoicesStay DEF SubjectsExist
    <2>2. CASE \E s \in Reruns, i \in Invoices : RerunRead(s, i) /\ request'[r] # request[r]
      <3>1. PICK i \in Invoices : istatus[i] # NoInvoice /\ request'[r].invoice = i
        BY <1>4, <2>2 DEF RerunRead, RowsTyped
      <3>2. QED
        BY <3>1, InvoicesStay
    <2>3. CASE \E s \in Reruns : RerunWrite(s) /\ request'[r] # request[r]
      <3>1. /\ RerunWrite(r) /\ request'[r] = [request[r] EXCEPT !.pc = "done"]
            /\ request[r].pc = "read" /\ request[r] \in RequestType
        BY <1>4, <2>3 DEF RerunWrite, RowsTyped
      <3>2. request'[r].invoice = request[r].invoice /\ request[r].invoice \in Invoices
        BY <3>1 DEF RequestType
      <3>3. QED
        BY <3>1, <3>2, InvoicesStay DEF SubjectsExist
    <2>4. QED
      BY <1>3, <2>1, <2>2, <2>3
  <1>5. ASSUME NEW r \in Reruns, jstatus'[RerunJob(r)] # "absent" PROVE request'[r].pc = "done"
    <2>1. CASE jstatus[RerunJob(r)] # "absent"
      <3>1. request[r].pc = "done"
        BY <2>1 DEF SubjectsExist
      <3>2. QED
        BY <1>3, <3>1 DEF RerunRead, RerunWrite, RowsTyped
    <2>2. CASE jstatus[RerunJob(r)] = "absent"
      <3>1. Next
        BY <1>5, <2>2 DEF vars, queueVars
      <3>2. PICK s \in Reruns : RerunWrite(s) /\ RerunJob(r) = RerunJob(s)
        <4>1. \/ \E i \in Invoices : RerunJob(r) = ExtractJob(i)
              \/ \E w \in Workers : RerunJob(r) = MatchJob(Inv(w))
              \/ \E w \in Workers : RerunJob(r) = NotifyJob(Inv(w), local[w].approver)
              \/ \E s \in Reruns : RerunWrite(s) /\ RerunJob(r) = RerunJob(s)
          <5>1. RerunJob(r) \in Jobs
            BY JobsMade
          <5>2. QED
            BY <1>5, <2>2, <3>1, <5>1, Inserts
        <4>2. QED
          BY <4>1, JobFields
      <3>3. r = s
        BY <3>2, JobFields
      <3>4. request[r] \in RequestType /\ request[r].pc = "read"
        BY <3>2, <3>3 DEF RerunWrite, RowsTyped
      <3>5. QED
        BY <3>2, <3>3, <3>4 DEF RerunWrite, RowsTyped, RequestType
    <2>3. QED
      BY <2>1, <2>2
  <1>6. QED
    BY <1>1, <1>2, <1>4, <1>5 DEF SubjectsExist

-----------------------------------------------------------------------------

\* The typing is inductive.
LEMMA WellTypedStep == WellTyped /\ [Next]_vars => WellTyped'
  BY QueueStep, QueueTypeStep, QueueJobsStep, RowsStep, LocalsStep, SubjectsStep DEF WellTyped

\* The typing holds in the beginning ...
LEMMA WellTypedInit == Init => WellTyped
  <1> SUFFICES ASSUME Init PROVE WellTyped
    OBVIOUS
  <1>1. Q!TypeOK
    BY WorkersAssumption DEF Init, Q!Init, Q!TypeOK, Q!JobStatus, Q!WorkerState, Q!Busy
  <1>2. Q!JobsExist
    BY DEF Init, Q!Init, Q!JobsExist, Q!Busy
  <1>3. RowsTyped
    <2>1. NoRun \in RunType
      BY DEF NoRun, RunType, NoDecision, DecisionType
    <2>2. [pc |-> "new"] \in RequestType
      BY DEF RequestType
    <2>3. linked \in [Invoices -> BOOLEAN]
      BY Zenon DEF Init
    <2>4. corrections \in 0..MaxCorrections
      BY PipelineAssumption DEF Init
    <2>5. istatus \in [Invoices -> Statuses]
      BY StatusesWritten DEF Init, Lifecycle!Init, NoInvoice
    <2>6. /\ doc \in [Invoices -> Documents \cup {NoDoc}]
          /\ extractions \in [Invoices -> Nat]
          /\ run \in [Invoices -> RunType]
          /\ tokens \in [Invoices -> [Approvers -> Nat]]
          /\ audit \in [Invoices -> Statuses \X Statuses]
          /\ request \in [Reruns -> RequestType]
      BY <2>1, <2>2, StatusesWritten DEF Init
    <2>7. QED
      BY <2>3, <2>4, <2>5, <2>6 DEF RowsTyped
  <1>4. LocalsTyped
    BY DEF Init, Q!Init, LocalsTyped, InHandler
  <1>5. SubjectsExist
    <2>1. /\ \A k \in Jobs : jstatus[k] = "absent"
          /\ \A r \in Reruns : request[r].pc = "new"
      BY DEF Init, Q!Init
    <2>2. QED
      BY <2>1, JobsMade DEF SubjectsExist
  <1>6. QED
    BY <1>1, <1>2, <1>3, <1>4, <1>5 DEF WellTyped

\* ... and so it always holds.
LEMMA WellTypedAlways == Spec => []WellTyped
  BY WellTypedInit, WellTypedStep, PTL DEF Spec

\* Rows and local variables keep their types, and a worker has local variables exactly
\* while it has a job to handle.
THEOREM TypeCorrect == Spec => []TypeOK
  <1>1. WellTyped => TypeOK
    BY DEF WellTyped, RowsTyped, LocalsTyped, InHandler, TypeOK, Statuses
  <1>2. QED
    BY <1>1, WellTypedAlways, PTL

\* The handlers, the API and the workers use the queue as the module JobQueue specifies
\* it: the pipeline implements the queue.
THEOREM ImplementsQueue == Spec => UsesQueueAsSpecified
  <1>1. Init => Q!Init
    BY DEF Init
  <1>2. QED
    BY <1>1, QueueStep, WellTypedAlways, PTL DEF Spec, UsesQueueAsSpecified, Q!Spec

-----------------------------------------------------------------------------

\* Unless a worker has overrun its lock, no two workers are in the same job.
Exclusive ==
  overruns = 0 => \A v, w \in Workers : Q!Busy(v) /\ Q!Busy(w) /\ wjob[v] = wjob[w] => v = w

\* Without an overrun the worker that is busy with a job holds its lock: what is proved
\* of JobQueue holds here.
LEMMA LockHeldAlways == Spec => []Q!LockHeld
  <1>1. Init => Q!LockHeld
    BY DEF Init, Q!Init, Q!LockHeld, Q!Busy
  <1>2. WellTyped /\ Q!LockHeld /\ [Next]_vars => Q!LockHeld'
    BY QueueStep, WellTypedStep, QueueLockStep DEF WellTyped
  <1>3. QED
    BY <1>1, <1>2, WellTypedAlways, PTL DEF Spec

\* Two workers that hold the lock of one job are one.
LEMMA ExclusiveWhileLocked == WellTyped /\ Q!LockHeld => Exclusive
  BY DEF WellTyped, Q!TypeOK, Q!LockHeld, Exclusive, Q!Busy

-----------------------------------------------------------------------------
(***************************************************************************)
(* Who touches what: the frame of the arguments below                      *)
(***************************************************************************)

\* Overruns are never forgotten.
LEMMA OverrunsGrow == WellTyped /\ [Next]_vars /\ overruns' = 0 => overruns = 0
  <1> SUFFICES ASSUME Q!TypeOK, [Q!Next]_Q!vars, overruns' = 0 PROVE overruns = 0
    BY QueueStep DEF WellTyped
  <1>1. overruns' = overruns \/ (overruns \in Nat /\ overruns' = overruns + 1)
    BY DEF Q!TypeOK, Q!Next, Q!vars, Q!faultVars, Q!workerVars, Q!WorkerStep, Q!Enqueue,
           Q!BackoffElapses, Q!LockGoesStale, Q!Claim, Q!SetTenant, Q!HandlerReturns,
           Q!HandlerRaises, Q!HandlerHitsDbError, Q!Complete, Q!Fail, Q!Shutdown, Q!Crash,
           Q!Restart, Q!Reap
  <1>2. QED
    BY <1>1

\* A worker's job goes on being about the same invoice.
LEMMA InvStays ==
  ASSUME WellTyped, [Next]_vars, NEW w \in Workers, Q!Busy(w), wjob'[w] = wjob[w]
  PROVE  Inv(w)' = Inv(w)
  <1>1. wjob[w] \in Jobs /\ jstatus[wjob[w]] # "absent"
    BY DEF WellTyped, Q!TypeOK, Q!JobsExist
  <1>2. CASE wjob[w][1] # "rerun"
    BY <1>2 DEF Inv, InvoiceOf
  <1>3. CASE wjob[w][1] = "rerun"
    <2>1. wjob[w][2] \in Reruns /\ request[wjob[w][2]].pc = "done"
      BY <1>1, <1>3, JobKinds DEF WellTyped, SubjectsExist
    <2>2. request'[wjob[w][2]] = request[wjob[w][2]]
      BY <2>1, RequestWrites DEF RerunRead, RerunWrite, WellTyped, RowsTyped
    <2>3. QED
      BY <1>3, <2>2 DEF Inv, InvoiceOf
  <1>4. QED
    BY <1>2, <1>3

\* A worker that is in a handler after a step has taken a step of it, has just
\* entered it, or was where it is.
LEMMA HandlerMoves ==
  ASSUME WellTyped, [Next]_vars, NEW v \in Workers, InHandler(v)'
  PROVE  \/ HandlerStep(v) /\ InHandler(v) /\ wjob'[v] = wjob[v]
         \/ local'[v].pc = "start"
         \/ InHandler(v) /\ local'[v] = local[v] /\ wjob'[v] = wjob[v]
  <1> DEFINE Goal ==
         \/ HandlerStep(v) /\ InHandler(v) /\ wjob'[v] = wjob[v]
         \/ local'[v].pc = "start"
         \/ InHandler(v) /\ local'[v] = local[v] /\ wjob'[v] = wjob[v]
  <1>1. wstate \in [Workers -> Q!WorkerState] /\ local \in [Workers -> LocalType \cup {NoLocal}]
    BY DEF WellTyped, Q!TypeOK, LocalsTyped
  <1>2. ASSUME NEW w \in Workers, w # v, WorkerNext(w) PROVE Goal
    BY <1>2, OthersStand DEF InHandler
  <1>3. ASSUME WorkerNext(v) PROVE Goal
    <2>1. CASE Claim(v)
      BY <2>1, Claims
    <2>2. CASE SetTenant(v)
      <3>1. /\ wstate[v] = "claimed" /\ wjob' = wjob
            /\ wstate'[v] = IF conn[v] = "aborted" THEN "died" ELSE "running"
            /\ local'[v] = IF conn[v] = "aborted" THEN NoLocal ELSE local[v]
        BY <1>1, <2>2 DEF SetTenant, Q!SetTenant
      <3>2. conn[v] # "aborted"
        BY <3>1 DEF InHandler
      <3>3. QED
        BY <3>1, <3>2 DEF InHandler
    <2>3. CASE HandlerStep(v)
      BY <2>3, HandlerInside DEF Inside, InHandler
    <2>4. CASE HandlerHitsDbError(v) \/ Crash(v)
      BY <1>1, <2>4 DEF HandlerHitsDbError, Q!HandlerHitsDbError, Crash, Q!Crash, InHandler
    <2>5. CASE Complete(v) \/ Fail(v)
      BY <1>1, <2>5 DEF Complete, Q!Complete, Fail, Q!Fail, InHandler
    <2>6. QED
      BY <1>3, <2>1, <2>2, <2>3, <2>4, <2>5 DEF WorkerNext
  <1>4. ASSUME OtherNext \/ UNCHANGED vars PROVE Goal
    BY <1>4, HandlersStand
  <1>5. QED
    BY <1>2, <1>3, <1>4, NextSplit

\* The rows of an invoice stay what they are; what was never corrected was not.
Untouched(i) ==
  /\ istatus'[i] = istatus[i] /\ doc'[i] = doc[i] /\ extractions'[i] = extractions[i]
  /\ run'[i] = run[i] /\ tokens'[i] = tokens[i]
  /\ corrections' = 0 => corrections = 0

\* The steps that may touch the rows of an invoice.
Touches(i) ==
  \/ \E w \in Workers : HandlerStep(w) /\ Inv(w) = i /\ wjob[w][1] # "notify"
  \/ Ingest(i) \/ Settle(i, "APPROVED") \/ Settle(i, "REJECTED")
  \/ \E d \in Documents : CorrectField(i, d)
  \/ \E r \in Reruns : RerunWrite(r) /\ request[r].invoice = i

\* A handler of another invoice, or of a 'notify' job, leaves the rows alone.
LEMMA HandlerFrame ==
  ASSUME WellTyped, NEW w \in Workers, HandlerStep(w), NEW i \in Invoices,
         Inv(w) # i \/ wjob[w][1] = "notify"
  PROVE  Untouched(i)
  <1> USE DEF WellTyped, RowsTyped
  <1>1. CASE wjob[w][1] = "notify"
    <2>1. local[w].pc = "start" /\ At(w, "start")
      BY <1>1, HandlerInside, LocalTyped DEF Placed, InHandler, At
    <2>2. UNCHANGED <<bizVars, apiVars>>
      BY <1>1, <2>1 DEF HandlerStep, At, ReadInvoice, Begin, ExtractFails, PersistExtraction,
           FinishExtraction, EnqueueMatch, MatchRaises, MatchInvalid, PersistMatchRun,
           PersistLineMatches, PersistMatchExceptions, PersistDecisionReason, ApplyDecision,
           RouteInvoice, IssueToken, EnqueueNotify, Finished, NotifyEnds
    <2>3. QED
      BY <2>2 DEF bizVars, apiVars, Untouched
  <1>2. CASE Inv(w) # i
    <2>1. CASE Begin(w) \/ ExtractFails(w) \/ FinishExtraction(w) \/ MatchInvalid(w)
               \/ ApplyDecision(w) \/ RouteInvoice(w)
      BY <1>2, <2>1 DEF Begin, ExtractFails, FinishExtraction, MatchInvalid, ApplyDecision,
                        RouteInvoice, _transition, apiVars, Untouched
    <2>2. CASE PersistExtraction(w)
      BY <1>2, <2>2 DEF PersistExtraction, apiVars, Untouched
    <2>3. CASE PersistMatchRun(w) \/ PersistLineMatches(w) \/ PersistMatchExceptions(w)
               \/ PersistDecisionReason(w)
      BY <1>2, <2>3 DEF PersistMatchRun, PersistLineMatches, PersistMatchExceptions,
                        PersistDecisionReason, apiVars, Untouched
    <2>4. CASE IssueToken(w)
      BY <1>2, <2>4 DEF IssueToken, apiVars, Untouched
    <2>5. CASE ReadInvoice(w) \/ EnqueueMatch(w) \/ MatchRaises(w) \/ EnqueueNotify(w)
               \/ Finished(w) \/ NotifyEnds(w)
      BY <2>5 DEF ReadInvoice, EnqueueMatch, MatchRaises, EnqueueNotify, Finished, NotifyEnds,
                  bizVars, apiVars, Untouched
    <2>6. QED
      BY <2>1, <2>2, <2>3, <2>4, <2>5 DEF HandlerStep
  <1>3. QED
    BY <1>1, <1>2

\* No other step touches the rows of an invoice.
LEMMA WhoWrites ==
  ASSUME WellTyped, [Next]_vars, NEW i \in Invoices
  PROVE  Untouched(i) \/ Touches(i)
  <1> DEFINE Goal == Untouched(i) \/ Touches(i)
  <1> USE DEF WellTyped, RowsTyped
  <1>1. ASSUME NEW w \in Workers, HandlerStep(w) PROVE Goal
    BY <1>1, HandlerFrame DEF Touches
  <1>2. ASSUME NEW w \in Workers,
               \/ Claim(w) \/ SetTenant(w) \/ HandlerHitsDbError(w)
               \/ Complete(w) \/ Fail(w) \/ Crash(w)
        PROVE  Goal
    BY <1>2 DEF Claim, SetTenant, HandlerHitsDbError, Complete, Fail, Crash, bizVars, apiVars,
                Untouched
  <1>3. ASSUME Background \/ UNCHANGED vars PROVE Goal
    BY <1>3 DEF Background, vars, bizVars, apiVars, Untouched
  <1>4. ASSUME NEW j \in Invoices,
               LinkVendor(j) \/ \E r \in Reruns : RerunRead(r, j)
        PROVE  Goal
    BY <1>4 DEF LinkVendor, RerunRead, bizVars, apiVars, Untouched
  <1>5. ASSUME NEW j \in Invoices, Ingest(j) \/ Settle(j, "APPROVED") \/ Settle(j, "REJECTED")
        PROVE  Goal
    <2>1. CASE j = i
      BY <1>5, <2>1 DEF Touches
    <2>2. CASE j # i
      BY <1>5, <2>2 DEF Ingest, Settle, _transition, apiVars, Untouched
    <2>3. QED
      BY <2>1, <2>2
  <1>6. ASSUME NEW j \in Invoices, NEW d \in Documents, CorrectField(j, d) PROVE Goal
    <2>1. CASE j = i
      BY <1>6, <2>1 DEF Touches
    <2>2. CASE j # i
      <3>1. corrections' # 0
        BY <1>6 DEF CorrectField
      <3>2. QED
        BY <1>6, <2>2, <3>1 DEF CorrectField, Untouched
    <2>3. QED
      BY <2>1, <2>2
  <1>7. ASSUME NEW r \in Reruns, RerunWrite(r) PROVE Goal
    <2>1. CASE request[r].invoice = i
      BY <1>7, <2>1 DEF Touches
    <2>2. CASE request[r].invoice # i
      BY <1>7, <2>2 DEF RerunWrite, _transition, Untouched
    <2>3. QED
      BY <2>1, <2>2
  <1>8. QED
    BY <1>1, <1>2, <1>3, <1>4, <1>5, <1>6, <1>7, NextSplit DEF OtherNext, WorkerNext

-----------------------------------------------------------------------------
(***************************************************************************)
(* Invoice lines are inserted once                                         *)
(***************************************************************************)

\* Which step a handler takes, by where it is.
LEMMA StepsAt ==
  ASSUME NEW w \in Workers, HandlerStep(w)
  PROVE  /\ local[w].pc = "start" => ReadInvoice(w) \/ NotifyEnds(w)
         /\ local[w].pc = "begin" => Begin(w)
         /\ local[w].pc = "EXTRACTING" => ExtractFails(w) \/ PersistExtraction(w)
         /\ local[w].pc = "persisted" => FinishExtraction(w)
         /\ local[w].pc = "enqueue" => EnqueueMatch(w)
         /\ local[w].pc = "finished" => Finished(w)
         /\ local[w].pc = "MATCHING" => MatchRaises(w) \/ MatchInvalid(w) \/ PersistMatchRun(w)
         /\ local[w].pc = "line_matches" => PersistLineMatches(w)
         /\ local[w].pc = "exceptions" => PersistMatchExceptions(w)
         /\ local[w].pc = "decide" => PersistDecisionReason(w)
         /\ local[w].pc = "apply" => ApplyDecision(w)
         /\ local[w].pc = "route" => RouteInvoice(w)
         /\ local[w].pc = "issue" => IssueToken(w)
         /\ local[w].pc = "page" => EnqueueNotify(w)
  <1>1. /\ ReadInvoice(w) \/ NotifyEnds(w) => local[w].pc = "start"
        /\ Begin(w) => local[w].pc = "begin"
        /\ ExtractFails(w) \/ PersistExtraction(w) => local[w].pc = "EXTRACTING"
        /\ FinishExtraction(w) => local[w].pc = "persisted"
        /\ EnqueueMatch(w) => local[w].pc = "enqueue"
        /\ Finished(w) => local[w].pc = "finished"
    BY DEF At, ReadInvoice, NotifyEnds, Begin, ExtractFails, PersistExtraction,
           FinishExtraction, EnqueueMatch, Finished
  <1>2. /\ MatchRaises(w) \/ MatchInvalid(w) \/ PersistMatchRun(w) => local[w].pc = "MATCHING"
        /\ PersistLineMatches(w) => local[w].pc = "line_matches"
        /\ PersistMatchExceptions(w) => local[w].pc = "exceptions"
        /\ PersistDecisionReason(w) => local[w].pc = "decide"
        /\ ApplyDecision(w) => local[w].pc = "apply"
        /\ RouteInvoice(w) => local[w].pc = "route"
        /\ IssueToken(w) => local[w].pc = "issue"
        /\ EnqueueNotify(w) => local[w].pc = "page"
    BY DEF At, MatchRaises, MatchInvalid, PersistMatchRun, PersistLineMatches,
           PersistMatchExceptions, PersistDecisionReason, ApplyDecision, RouteInvoice,
           IssueToken, EnqueueNotify
  <1>3. QED
    BY <1>1, <1>2 DEF HandlerStep

\* Nobody has started to extract the invoice.
Unread == {NoInvoice, "RECEIVED"}

\* The worker is handling job k.
Handles(w, k) == InHandler(w) /\ wjob[w] = k

\* The handler has read a status that says extraction has begun, or begun it.
PastReceived(w) ==
  local[w].pc # "start" /\ (local[w].pc = "begin" => local[w].status \notin Unread)

\* Who has seen the extraction begun is right.
Started(i) ==
  /\ \A w \in Workers : InHandler(w) /\ wjob[w][1] # "notify" /\ Inv(w) = i /\ PastReceived(w)
                          => istatus[i] \notin Unread
  /\ \A r \in Reruns : request[r].pc \in {"read", "done"} /\ request[r].invoice = i
                          => istatus[i] \notin Unread

\* Lines are inserted by the handler that moved the invoice from RECEIVED.
LinesOnce(i) ==
  /\ extractions[i] <= 1
  /\ istatus[i] \in Unread => extractions[i] = 0
  /\ \A w \in Workers : Handles(w, ExtractJob(i)) =>
       /\ local[w].pc = "begin" /\ local[w].status = "RECEIVED" => istatus[i] = "RECEIVED"
       /\ local[w].pc = "EXTRACTING" => extractions[i] = 0

\* RECEIVED is never entered again.
LEMMA ReadStays ==
  ASSUME WellTyped, [Next]_vars, NEW i \in Invoices, istatus[i] \notin Unread
  PROVE  istatus'[i] \notin Unread
  <1>1. CASE UNCHANGED <<istatus, audit>> \/ UNCHANGED vars
    BY <1>1 DEF vars, bizVars
  <1>2. ASSUME NEW j \in Invoices, NEW from \in Statuses, NEW to \in Statuses \ {NoInvoice},
               _transition(j, from, to), to = "RECEIVED" => istatus[j] = NoInvoice
        PROVE  istatus'[i] \notin Unread
    BY <1>2 DEF _transition, WellTyped, RowsTyped, Unread
  <1>3. QED
    BY <1>1, <1>2, StatusWrites

\* What a handler that has just read, or just begun, knows.
LEMMA ReadsWhatIs ==
  ASSUME WellTyped, NEW w \in Workers, HandlerStep(w), InHandler(w)', local[w].pc = "start"
  PROVE  /\ ReadInvoice(w) /\ wjob[w][1] # "notify" /\ UNCHANGED <<bizVars, apiVars>>
         /\ local'[w].pc = "begin" /\ local'[w].status = istatus[Inv(w)]
         /\ local'[w].doc = doc[Inv(w)]
  <1>1. local[w] \in LocalType /\ local \in [Workers -> LocalType \cup {NoLocal}]
    BY HandlerInside, LocalTyped DEF InHandler, WellTyped, LocalsTyped
  <1>2. ~(Return(w) \/ Raise(w))
    BY Ends
  <1>3. ReadInvoice(w)
    BY <1>2, StepsAt DEF NotifyEnds
  <1>4. Goto(w, [local[w] EXCEPT !.pc = "begin", !.status = istatus[Inv(w)],
                                 !.doc = doc[Inv(w)]])
    BY <1>2, <1>3 DEF ReadInvoice
  <1>5. local'[w] = [local[w] EXCEPT !.pc = "begin", !.status = istatus[Inv(w)],
                                     !.doc = doc[Inv(w)]]
    BY <1>1, <1>4 DEF Goto
  <1>6. /\ local'[w].pc = "begin" /\ local'[w].status = istatus[Inv(w)]
        /\ local'[w].doc = doc[Inv(w)]
    BY <1>1, <1>5 DEF LocalType
  <1>7. QED
    BY <1>3, <1>6 DEF ReadInvoice

\* ... and what a handler that has just begun has done.
LEMMA BeginsFromWhatWasRead ==
  ASSUME WellTyped, NEW w \in Workers, HandlerStep(w), InHandler(w)', local[w].pc = "begin"
  PROVE  /\ \/ /\ wjob[w][1] = "extract" /\ local[w].status = "RECEIVED"
               /\ local'[w] = [local[w] EXCEPT !.pc = "EXTRACTING"]
               /\ local'[w].pc = "EXTRACTING"
               /\ _transition(Inv(w), "RECEIVED", "EXTRACTING")
            \/ /\ wjob[w][1] \in {"match", "rerun"}
               /\ local[w].status \in {"EXTRACTED", "NEEDS_VERIFICATION"}
               /\ local'[w] = [local[w] EXCEPT !.pc = "MATCHING"]
               /\ local'[w].pc = "MATCHING"
               /\ _transition(Inv(w), local[w].status, "MATCHING")
         /\ UNCHANGED <<linked, doc, extractions, run, tokens, apiVars, queueVars>>
  <1>1. /\ local[w] \in LocalType /\ local \in [Workers -> LocalType \cup {NoLocal}]
        /\ Placed(wjob[w][1], local[w]) /\ wjob[w] \in Jobs /\ local[w].status \in Statuses
    BY HandlerInside, LocalTyped, SubjectTyped DEF InHandler, WellTyped, LocalsTyped
  <1>2. ~(Return(w) \/ Raise(w))
    BY Ends
  <1>3. Begin(w)
    BY StepsAt
  <1>4. local[w].status # NoInvoice /\ wjob[w][1] \in {"extract", "match", "rerun"}
    BY <1>1, JobKinds DEF Placed
  <1>5. UNCHANGED <<linked, doc, extractions, run, tokens, apiVars, queueVars>>
    BY <1>2, <1>3 DEF Begin, Goto
  <1>6. CASE wjob[w][1] = "extract"
    <2>1. /\ Lifecycle!validate_transition(local[w].status, "EXTRACTING")
          /\ _transition(Inv(w), local[w].status, "EXTRACTING")
          /\ local' = [local EXCEPT ![w] = [local[w] EXCEPT !.pc = "EXTRACTING"]]
      BY <1>2, <1>3, <1>6 DEF Begin, Goto
    <2>2. local[w].status = "RECEIVED"
      BY <1>1, <1>4, <2>1, EdgesAsked
    <2>3. /\ local'[w] = [local[w] EXCEPT !.pc = "EXTRACTING"]
          /\ local'[w].pc = "EXTRACTING"
      BY <1>1, <2>1 DEF LocalType
    <2>4. QED
      BY <1>5, <1>6, <2>1, <2>2, <2>3
  <1>7. CASE wjob[w][1] # "extract"
    <2>1. /\ Lifecycle!validate_transition(local[w].status, "MATCHING")
          /\ _transition(Inv(w), local[w].status, "MATCHING")
          /\ local' = [local EXCEPT ![w] = [local[w] EXCEPT !.pc = "MATCHING"]]
      BY <1>2, <1>3, <1>7 DEF Begin, Goto
    <2>2. local[w].status \in {"EXTRACTED", "NEEDS_VERIFICATION"}
      BY <1>1, <1>4, <2>1, EdgesAsked
    <2>3. /\ local'[w] = [local[w] EXCEPT !.pc = "MATCHING"]
          /\ local'[w].pc = "MATCHING"
      BY <1>1, <2>1 DEF LocalType
    <2>4. QED
      BY <1>4, <1>5, <1>7, <2>1, <2>2, <2>3
  <1>8. QED
    BY <1>6, <1>7

-----------------------------------------------------------------------------

\* Started is kept by every step, overruns and re-runs included.
LEMMA StartedStep ==
  ASSUME WellTyped, [Next]_vars, NEW i \in Invoices, Started(i)
  PROVE  Started(i)'
  <1>1. ASSUME NEW v \in Workers, InHandler(v)', wjob'[v][1] # "notify", Inv(v)' = i,
               PastReceived(v)'
        PROVE  istatus'[i] \notin Unread
    <2>1. CASE local'[v].pc = "start"
      BY <1>1, <2>1 DEF PastReceived
    <2>2. CASE InHandler(v) /\ local'[v] = local[v] /\ wjob'[v] = wjob[v]
      <3>1. Inv(v) = i /\ PastReceived(v)
        BY <1>1, <2>2, InvStays DEF Q!Busy, InHandler, PastReceived
      <3>2. istatus[i] \notin Unread
        BY <1>1, <2>2, <3>1 DEF Started
      <3>3. QED
        BY <3>2, ReadStays
    <2>3. CASE HandlerStep(v) /\ InHandler(v) /\ wjob'[v] = wjob[v]
      <3>1. Inv(v) = i
        BY <1>1, <2>3, InvStays DEF Q!Busy, InHandler
      <3>2. CASE PastReceived(v)
        <4>1. istatus[i] \notin Unread
          BY <1>1, <2>3, <3>1, <3>2 DEF Started
        <4>2. QED
          BY <4>1, ReadStays
      <3>3. CASE local[v].pc = "start"
        BY <1>1, <2>3, <3>1, <3>3, ReadsWhatIs DEF PastReceived, bizVars
      <3>4. CASE local[v].pc = "begin" /\ local[v].status \in Unread
        BY <1>1, <2>3, <3>1, <3>4, BeginsFromWhatWasRead
           DEF _transition, WellTyped, RowsTyped, Unread, NoInvoice, Lifecycle!NoInvoice
      <3>5. QED
        BY <3>2, <3>3, <3>4 DEF PastReceived
    <2>4. QED
      BY <1>1, <2>1, <2>2, <2>3, HandlerMoves
  <1>2. ASSUME NEW r \in Reruns, request'[r].pc \in {"read", "done"}, request'[r].invoice = i
        PROVE  istatus'[i] \notin Unread
    <2>1. CASE request'[r] = request[r]
      BY <1>2, <2>1, ReadStays DEF Started
    <2>2. CASE request'[r] # request[r] /\ \E s \in Reruns, j \in Invoices : RerunRead(s, j)
      <3>1. PICK j \in Invoices : RerunRead(r, j)
        <4>1. PICK s \in Reruns, j \in Invoices : RerunRead(s, j)
          BY <2>2
        <4>2. s = r
          BY <2>2, <4>1 DEF RerunRead, WellTyped, RowsTyped
        <4>3. QED
          BY <4>1, <4>2
      <3>2. j = i /\ Lifecycle!validate_transition(istatus[j], "MATCHING") /\ istatus[j] # NoInvoice
        BY <1>2, <3>1 DEF RerunRead, WellTyped, RowsTyped
      <3>3. istatus[i] \in {"EXTRACTED", "NEEDS_VERIFICATION"}
        BY <3>2, EdgesAsked DEF WellTyped, RowsTyped
      <3>4. istatus[i] \notin Unread
        BY <3>3 DEF Unread, NoInvoice, Lifecycle!NoInvoice
      <3>5. QED
        BY <3>4, ReadStays
    <2>3. CASE request'[r] # request[r] /\ \E s \in Reruns : RerunWrite(s)
      <3>1. /\ RerunWrite(r) /\ request[r].pc = "read"
            /\ request'[r] = [request[r] EXCEPT !.pc = "done"]
        BY <2>3 DEF RerunWrite, WellTyped, RowsTyped
      <3>2. request'[r].invoice = request[r].invoice
        BY <3>1 DEF WellTyped, RowsTyped, RequestType
      <3>3. istatus[i] \notin Unread
        BY <1>2, <3>1, <3>2 DEF Started
      <3>4. QED
        BY <3>3, ReadStays
    <2>4. QED
      BY <2>1, <2>2, <2>3, RequestWrites
  <1>3. QED
    BY <1>1, <1>2 DEF Started

\* Two handlers of the same job are one, unless a worker has overrun its lock.
LEMMA OneHandler ==
  ASSUME Exclusive, overruns = 0, NEW v \in Workers, NEW w \in Workers, InHandler(v), InHandler(w),
         wjob[v] = wjob[w]
  PROVE  v = w
  BY DEF Exclusive, InHandler, Q!Busy

\* An extraction of the invoice is run by the handler of its one 'extract' job.
LEMMA ExtractJobOf ==
  ASSUME WellTyped, NEW w \in Workers, InHandler(w), wjob[w][1] = "extract"
  PROVE  wjob[w] = ExtractJob(Inv(w)) /\ Inv(w) \in Invoices
  <1>1. wjob[w] \in Jobs
    BY SubjectTyped DEF InHandler, Q!Busy
  <1>2. QED
    BY <1>1, JobKinds DEF Inv, InvoiceOf

\* Only the handler of the invoice's 'extract' job moves it from RECEIVED.
LEMMA LeavesReceived ==
  ASSUME WellTyped, [Next]_vars, NEW i \in Invoices, Started(i), istatus[i] = "RECEIVED",
         istatus'[i] # "RECEIVED"
  PROVE  \E w \in Workers : HandlerStep(w) /\ Handles(w, ExtractJob(i)) /\ local[w].pc = "begin"
  <1>1. Touches(i)
    BY WhoWrites DEF Untouched
  <1>2. ~(Ingest(i) \/ Settle(i, "APPROVED") \/ Settle(i, "REJECTED"))
    <2>1. "RECEIVED" # NoInvoice /\ "RECEIVED" \in Statuses
      BY StatusesWritten
    <2>2. QED
      BY <2>1, EdgesAsked DEF Ingest, Settle
  <1>3. ~ \E d \in Documents : CorrectField(i, d)
    BY DEF CorrectField
  <1>4. ~ \E r \in Reruns : RerunWrite(r) /\ request[r].invoice = i
    BY DEF RerunWrite, Started, Unread
  <1>5. PICK w \in Workers : HandlerStep(w) /\ Inv(w) = i /\ wjob[w][1] # "notify"
    BY <1>1, <1>2, <1>3, <1>4 DEF Touches
  <1>6. InHandler(w)
    BY <1>5, HandlerInside DEF InHandler
  <1>7. ~PastReceived(w)
    BY <1>5, <1>6 DEF Started, Unread
  <1>8. local[w].pc # "start"
    <2>1. ReadInvoice(w) \/ NotifyEnds(w) => istatus' = istatus
      BY DEF ReadInvoice, NotifyEnds, bizVars
    <2>2. QED
      BY <1>5, <2>1, StepsAt
  <1>9. local[w].pc = "begin"
    BY <1>7, <1>8 DEF PastReceived
  <1>10. InHandler(w)'
    <2>1. Begin(w)
      BY <1>5, <1>9, StepsAt
    <2>2. PICK l \in {"EXTRACTING", "MATCHING"} : Goto(w, [local[w] EXCEPT !.pc = l])
      <3>1. ~ UNCHANGED <<istatus, audit>>
        OBVIOUS
      <3>2. QED
        BY <2>1, <3>1 DEF Begin
    <2>3. local'[w] # NoLocal
      <3>1. l \in HandlerPcs /\ local' = [local EXCEPT ![w] = [local[w] EXCEPT !.pc = l]]
        BY <2>2, Places DEF Goto, ExtractPcs, MatchPcs
      <3>2. local[w] \in LocalType /\ local \in [Workers -> LocalType \cup {NoLocal}]
        BY <1>6, LocalTyped DEF WellTyped, LocalsTyped
      <3>3. [local[w] EXCEPT !.pc = l] \in LocalType
        BY <3>1, <3>2, LocalUpdates
      <3>4. QED
        BY <3>1, <3>2, <3>3, Places
    <2>4. QED
      BY <1>5, <2>3, HandlerInside DEF Inside
  <1>11. wjob[w][1] = "extract"
    <2>1. ~(local[w].status \in {"EXTRACTED", "NEEDS_VERIFICATION"})
      BY <1>7, <1>9 DEF PastReceived, Unread, NoInvoice, Lifecycle!NoInvoice
    <2>2. QED
      BY <1>5, <1>9, <1>10, <2>1, BeginsFromWhatWasRead
  <1>12. QED
    BY <1>5, <1>6, <1>9, <1>11, ExtractJobOf DEF Handles

-----------------------------------------------------------------------------

\* A handler goes from `from` to `to` and keeps what it has read.
Moves(w, from, to) ==
  /\ local[w].pc = from /\ local'[w].pc = to
  /\ local'[w].status = local[w].status /\ local'[w].doc = local[w].doc

\* Where an extraction goes on to.
LEMMA ExtractMoves ==
  ASSUME WellTyped, NEW w \in Workers, HandlerStep(w), InHandler(w)', wjob[w][1] = "extract"
  PROVE  \/ ReadInvoice(w) /\ local[w].pc = "start" /\ local'[w].pc = "begin"
         \/ Begin(w) /\ Moves(w, "begin", "EXTRACTING")
         \/ PersistExtraction(w) /\ Moves(w, "EXTRACTING", "persisted")
         \/ FinishExtraction(w) /\ Moves(w, "persisted", "enqueue")
         \/ EnqueueMatch(w) /\ Moves(w, "enqueue", "finished")
  <1> DEFINE Goal ==
         \/ ReadInvoice(w) /\ local[w].pc = "start" /\ local'[w].pc = "begin"
         \/ Begin(w) /\ Moves(w, "begin", "EXTRACTING")
         \/ PersistExtraction(w) /\ Moves(w, "EXTRACTING", "persisted")
         \/ FinishExtraction(w) /\ Moves(w, "persisted", "enqueue")
         \/ EnqueueMatch(w) /\ Moves(w, "enqueue", "finished")
  <1>1. /\ local[w] \in LocalType /\ local \in [Workers -> LocalType \cup {NoLocal}]
        /\ Placed(wjob[w][1], local[w]) /\ local[w].pc \in HandlerPcs
    BY HandlerInside, LocalTyped DEF InHandler, WellTyped, LocalsTyped
  <1>2. ~(Return(w) \/ Raise(w))
    BY Ends
  <1>3. ASSUME NEW to \in HandlerPcs, local' = [local EXCEPT ![w] = [local[w] EXCEPT !.pc = to]]
        PROVE  Moves(w, local[w].pc, to)
    <2>1. local'[w] = [local[w] EXCEPT !.pc = to]
      BY <1>1, <1>3
    <2>2. QED
      BY <1>1, <2>1, Zenon DEF Moves, LocalType
  <1>4. {"persisted", "enqueue", "finished"} \subseteq HandlerPcs
    BY Places DEF ExtractPcs
  <1>5. CASE local[w].pc = "start"
    BY <1>5, ReadsWhatIs
  <1>6. CASE local[w].pc = "begin"
    <2>1. Begin(w)
      BY <1>6, StepsAt
    <2>2. local'[w] = [local[w] EXCEPT !.pc = "EXTRACTING"]
      BY <1>6, BeginsFromWhatWasRead
    <2>3. Moves(w, "begin", "EXTRACTING")
      BY <1>1, <1>6, <2>2 DEF Moves, LocalType
    <2>4. QED
      BY <2>1, <2>3
  <1>7. CASE local[w].pc = "EXTRACTING"
    <2>1. PersistExtraction(w)
      BY <1>2, <1>7, StepsAt DEF ExtractFails
    <2>2. QED
      BY <1>3, <1>4, <1>7, <2>1 DEF PersistExtraction, Goto
  <1>8. CASE local[w].pc = "persisted"
    BY <1>3, <1>4, <1>8, StepsAt DEF FinishExtraction, Goto
  <1>9. CASE local[w].pc = "enqueue"
    BY <1>3, <1>4, <1>9, StepsAt DEF EnqueueMatch
  <1>10. CASE local[w].pc = "finished"
    BY <1>2, <1>10, StepsAt DEF Finished
  <1>11. local[w].pc \notin MatchPcs
    BY <1>1 DEF Placed
  <1>12. QED
    BY <1>1, <1>5, <1>6, <1>7, <1>8, <1>9, <1>10, <1>11 DEF HandlerPcs, ExtractPcs

\* Only an extraction inserts invoice lines.
LEMMA InsertsLines ==
  ASSUME WellTyped, [Next]_vars, NEW i \in Invoices, extractions'[i] # extractions[i]
  PROVE  \E w \in Workers : /\ HandlerStep(w) /\ PersistExtraction(w)
                            /\ Handles(w, ExtractJob(i)) /\ local[w].pc = "EXTRACTING"
                            /\ Inv(w) = i
  <1>1. Touches(i)
    BY WhoWrites DEF Untouched
  <1>2. PICK w \in Workers : HandlerStep(w) /\ Inv(w) = i
    BY <1>1 DEF Touches, Ingest, Settle, CorrectField, RerunWrite
  <1>3. PersistExtraction(w)
    BY <1>2 DEF HandlerStep, ReadInvoice, Begin, ExtractFails, FinishExtraction, EnqueueMatch,
           MatchRaises, MatchInvalid, PersistMatchRun, PersistLineMatches,
           PersistMatchExceptions, PersistDecisionReason, ApplyDecision, RouteInvoice,
           IssueToken, EnqueueNotify, Finished, NotifyEnds, bizVars
  <1>4. InHandler(w) /\ local[w].pc = "EXTRACTING"
    BY <1>3 DEF PersistExtraction, At, InHandler
  <1>5. wjob[w][1] = "extract"
    BY <1>4, LocalTyped DEF Placed, ExtractPcs
  <1>6. QED
    BY <1>2, <1>3, <1>4, <1>5, ExtractJobOf DEF Handles

\* The lines of an invoice are inserted once, whatever crashes, retries and re-runs.
LEMMA LinesStep ==
  ASSUME WellTyped, Exclusive, [Next]_vars, overruns' = 0, NEW i \in Invoices, Started(i),
         LinesOnce(i)
  PROVE  LinesOnce(i)'
  <1>1. overruns = 0
    BY OverrunsGrow
  <1>2. extractions \in [Invoices -> Nat] /\ extractions' \in [Invoices -> Nat]
    BY RowsStep DEF WellTyped, RowsTyped
  <1>3. istatus'[i] \in Unread => istatus[i] \in Unread
    BY ReadStays
  <1>4. CASE extractions'[i] # extractions[i]
    <2>1. PICK w \in Workers : /\ HandlerStep(w) /\ PersistExtraction(w)
                               /\ Handles(w, ExtractJob(i)) /\ local[w].pc = "EXTRACTING"
                               /\ Inv(w) = i
      BY <1>4, InsertsLines
    <2>2. extractions'[i] = 1
      BY <1>2, <2>1 DEF PersistExtraction, LinesOnce
    <2>3. wjob[w][1] = "extract"
      BY <2>1, JobFields DEF Handles
    <2>4. istatus'[i] \notin Unread
      BY <1>3, <2>1, <2>3 DEF Started, PastReceived, Handles
    <2>5. ASSUME NEW v \in Workers, Handles(v, ExtractJob(i))'
          PROVE  local'[v].pc = "start" \/ local'[v].pc = "persisted"
      <3>1. CASE v = w
        BY <2>1, <2>3, <2>5, <3>1, ExtractMoves DEF Handles, Moves
      <3>2. CASE v # w
        <4>1. ~(InHandler(v) /\ wjob[v] = ExtractJob(i))
          BY <1>1, <2>1, <3>2, OneHandler DEF Handles
        <4>2. QED
          BY <2>5, <4>1, HandlerMoves, Zenon DEF Handles, ExtractJob
      <3>3. QED
        BY <3>1, <3>2
    <2>6. QED
      BY <2>2, <2>4, <2>5 DEF LinesOnce
  <1>5. CASE extractions'[i] = extractions[i]
    <2>1. ASSUME NEW v \in Workers, Handles(v, ExtractJob(i))'
          PROVE  /\ local'[v].pc = "begin" /\ local'[v].status = "RECEIVED"
                      => istatus'[i] = "RECEIVED"
                 /\ local'[v].pc = "EXTRACTING" => extractions'[i] = 0
      <3>1. CASE local'[v].pc = "start"
        BY <3>1
      <3>2. CASE InHandler(v) /\ local'[v] = local[v] /\ wjob'[v] = wjob[v]
        <4>1. Handles(v, ExtractJob(i))
          BY <2>1, <3>2 DEF Handles, ExtractJob
        <4>2. ASSUME local[v].pc = "begin", local[v].status = "RECEIVED"
              PROVE  istatus'[i] = "RECEIVED"
          <5>1. istatus[i] = "RECEIVED"
            BY <4>1, <4>2 DEF LinesOnce
          <5>2. ASSUME istatus'[i] # "RECEIVED" PROVE FALSE
            <6>1. PICK w \in Workers : /\ HandlerStep(w) /\ Handles(w, ExtractJob(i))
                                       /\ local[w].pc = "begin"
              BY <5>1, <5>2, LeavesReceived
            <6>2. v = w
              BY <1>1, <4>1, <6>1, OneHandler DEF Handles
            <6>3. local'[v].pc # "begin"
              BY <2>1, <6>1, <6>2, BeginsFromWhatWasRead DEF Handles
            <6>4. QED
              BY <3>2, <4>2, <6>3
          <5>3. QED
            BY <5>2
        <4>3. QED
          BY <1>5, <3>2, <4>1, <4>2 DEF LinesOnce
      <3>3. CASE HandlerStep(v) /\ InHandler(v) /\ wjob'[v] = wjob[v]
        <4>1. Handles(v, ExtractJob(i)) /\ wjob[v][1] = "extract" /\ InHandler(v)' /\ Inv(v) = i
          BY <2>1, <3>3, JobFields, ExtractJobOf DEF Handles, ExtractJob
        <4>2. CASE ReadInvoice(v) /\ local[v].pc = "start" /\ local'[v].pc = "begin"
          BY <3>3, <4>1, <4>2, ReadsWhatIs DEF bizVars
        <4>3. CASE Begin(v) /\ Moves(v, "begin", "EXTRACTING")
          <5>1. local[v].status = "RECEIVED"
            BY <3>3, <4>1, <4>3, BeginsFromWhatWasRead DEF Moves
          <5>2. extractions[i] = 0
            BY <4>1, <4>3, <5>1 DEF LinesOnce, Moves, Unread
          <5>3. QED
            BY <1>5, <4>3, <5>2 DEF Moves
        <4>4. QED
          BY <3>3, <4>1, <4>2, <4>3, ExtractMoves DEF Moves
      <3>4. QED
        BY <2>1, <3>1, <3>2, <3>3, HandlerMoves DEF Handles
    <2>2. QED
      BY <1>3, <1>5, <2>1 DEF LinesOnce
  <1>6. QED
    BY <1>4, <1>5

\* The lines invariant.
LinesInv == /\ \A i \in Invoices : Started(i)
            /\ overruns = 0 => \A i \in Invoices : LinesOnce(i)

\* The invariant always holds.
LEMMA LinesInvAlways == Spec => []LinesInv
  <1>1. Init => LinesInv
    <2> SUFFICES ASSUME Init PROVE LinesInv
      OBVIOUS
    <2>1. /\ \A w \in Workers : ~InHandler(w)
          /\ \A r \in Reruns : request[r].pc = "new"
          /\ \A i \in Invoices : extractions[i] = 0
      BY DEF Init, Q!Init, InHandler
    <2>2. QED
      BY <2>1 DEF LinesInv, Started, LinesOnce, Handles
  <1>2. WellTyped /\ Exclusive /\ LinesInv /\ [Next]_vars => LinesInv'
    BY StartedStep, LinesStep, OverrunsGrow DEF LinesInv
  <1>3. WellTyped /\ Q!LockHeld => Exclusive
    BY ExclusiveWhileLocked
  <1>4. QED
    BY <1>1, <1>2, <1>3, WellTypedAlways, LockHeldAlways, PTL DEF Spec

\* As long as no lock is overrun, the lines of an invoice are inserted once, whatever
\* crashes, retries and re-runs there are.
THEOREM LinesAreInsertedOnce == Spec => [](overruns = 0 => LinesPersistedOnce)
  <1>1. LinesInv => (overruns = 0 => LinesPersistedOnce)
    BY DEF LinesInv, LinesOnce, LinesPersistedOnce
  <1>2. QED
    BY <1>1, LinesInvAlways, PTL
=============================================================================
