---------------------------- MODULE JobQueueProofs ----------------------------
(***************************************************************************)
(* Proofs about JobQueue, for any number of jobs, workers, attempts and    *)
(* faults.                                                                 *)
(***************************************************************************)
EXTENDS JobQueue, FiniteSetTheorems, TLAPS

\* created_at stays a natural number: the positions are counts of a finite set.
LEMMA InsertedCounted == Cardinality(Inserted) \in Nat
  <1>1. IsFiniteSet(Inserted)
    BY KeysFinite, FS_Subset DEF Inserted
  <1>2. QED
    BY <1>1, FS_CardinalityType

\* Every step keeps the types of the queue, of the workers and of the faults.
LEMMA TypeStep == TypeOK /\ [Next]_vars => TypeOK'
  <1> USE ConstantsAssumption DEF JobStatus, WorkerState, Busy, Alive
  <1> SUFFICES ASSUME TypeOK, [Next]_vars
               PROVE  TypeOK'
    OBVIOUS
  <1> USE DEF TypeOK, workerVars, faultVars, jobVars
  <1>1. ASSUME NEW k \in Keys, Enqueue(k) PROVE TypeOK'
    <2>1. CASE jstatus[k] = "absent"
      <3>1. due' \in [Keys -> BOOLEAN]
        BY <1>1, <2>1, Zenon DEF Enqueue, enqueue
      <3>2. QED
        BY <1>1, <2>1, <3>1, InsertedCounted DEF Enqueue, enqueue
    <2>2. CASE jstatus[k] # "absent"
      BY <1>1, <2>2 DEF Enqueue, enqueue
    <2>3. QED
      BY <2>1, <2>2
  <1>2. ASSUME NEW k \in Keys, BackoffElapses(k) PROVE TypeOK'
    BY <1>2 DEF BackoffElapses
  <1>3. ASSUME NEW k \in Keys, LockGoesStale(k) PROVE TypeOK'
    BY <1>3 DEF LockGoesStale
  <1>4. ASSUME NEW w \in Workers, Claim(w) PROVE TypeOK'
    BY <1>4 DEF Claim, claim_next
  <1>5. ASSUME NEW w \in Workers, SetTenant(w) PROVE TypeOK'
    BY <1>5 DEF SetTenant
  <1>6. ASSUME NEW w \in Workers, HandlerReturns(w) \/ HandlerRaises(w) PROVE TypeOK'
    BY <1>6 DEF HandlerReturns, HandlerRaises
  <1>7. ASSUME NEW w \in Workers, HandlerHitsDbError(w) PROVE TypeOK'
    BY <1>7 DEF HandlerHitsDbError
  <1>8. ASSUME NEW w \in Workers, Complete(w) PROVE TypeOK'
    BY <1>8 DEF Complete, complete
  <1>9. ASSUME NEW w \in Workers, Fail(w) PROVE TypeOK'
    <2>1. wjob[w] \in Keys
      BY <1>9 DEF Fail
    <2>2. CASE attempts[wjob[w]] + 1 >= MaxAttempts[wjob[w]]
      BY <1>9, <2>1, <2>2 DEF Fail, fail
    <2>3. CASE ~(attempts[wjob[w]] + 1 >= MaxAttempts[wjob[w]])
      <3>1. due' \in [Keys -> BOOLEAN] /\ stale' \in [Keys -> BOOLEAN]
        BY <1>9, <2>1, <2>3, Zenon DEF Fail, fail
      <3>2. QED
        BY <1>9, <2>1, <2>3, <3>1 DEF Fail, fail
    <2>4. QED
      BY <2>2, <2>3
  <1>10. ASSUME NEW w \in Workers, Shutdown(w) \/ Crash(w) PROVE TypeOK'
    BY <1>10 DEF Shutdown, Crash
  <1>11. ASSUME NEW w \in Workers, Restart(w) PROVE TypeOK'
    BY <1>11 DEF Restart
  <1>12. CASE Reap
    <2>1. /\ jstatus' \in [Keys -> JobStatus]
          /\ attempts' \in [Keys -> Nat]
      BY <1>12 DEF Reap, reap_stale_locks
    <2>2. locked_by' \in [Keys -> Workers \cup {NoWorker}]
      BY <1>12 DEF Reap, reap_stale_locks
    <2>3. stale' \in [Keys -> BOOLEAN]
      BY <1>12, Zenon DEF Reap, reap_stale_locks
    <2>4. QED
      BY <1>12, <2>1, <2>2, <2>3 DEF Reap, reap_stale_locks
  <1>13. CASE UNCHANGED vars
    BY <1>13 DEF vars
  <1>14. QED
    BY <1>1, <1>2, <1>3, <1>4, <1>5, <1>6, <1>7, <1>8, <1>9, <1>10, <1>11, <1>12, <1>13
       DEF Next, WorkerStep

\* Type correctness of the queue: every row and every worker keeps its type, and
\* a worker inside run_one_job has a job.
THEOREM TypeCorrect == Spec => []TypeOK
  <1>1. Init => TypeOK
    BY ConstantsAssumption DEF Init, TypeOK, JobStatus, WorkerState, Busy
  <1>2. QED
    BY <1>1, TypeStep, PTL DEF Spec
-----------------------------------------------------------------------------

\* Only enqueue inserts a row: no other step makes a job of one that is absent.
LEMMA OnlyEnqueueInserts ==
  ASSUME TypeOK, JobsExist, NEW j \in Keys, jstatus[j] = "absent",
         \/ \E w \in Workers : WorkerStep(w) \/ Shutdown(w) \/ Crash(w) \/ Restart(w)
         \/ \E k \in Keys : BackoffElapses(k) \/ LockGoesStale(k)
         \/ Reap
  PROVE  jstatus'[j] = "absent"
  <1> USE DEF TypeOK, Busy, jobVars
  <1>1. ASSUME NEW w \in Workers, Claim(w) PROVE jstatus'[j] = "absent"
    BY <1>1 DEF Claim, claim_next, Claimable
  <1>2. ASSUME NEW w \in Workers, Complete(w) PROVE jstatus'[j] = "absent"
    BY <1>2 DEF Complete, complete, JobsExist
  <1>3. ASSUME NEW w \in Workers, Fail(w) PROVE jstatus'[j] = "absent"
    BY <1>3 DEF Fail, fail, JobsExist
  <1>4. ASSUME Reap PROVE jstatus'[j] = "absent"
    BY <1>4 DEF Reap, reap_stale_locks, StaleLocks
  <1>5. ASSUME NEW w \in Workers,
               \/ SetTenant(w) \/ HandlerReturns(w) \/ HandlerRaises(w)
               \/ HandlerHitsDbError(w) \/ Shutdown(w) \/ Crash(w) \/ Restart(w)
        PROVE  jstatus'[j] = "absent"
    BY <1>5 DEF SetTenant, HandlerReturns, HandlerRaises, HandlerHitsDbError,
                Shutdown, Crash, Restart
  <1>6. ASSUME NEW k \in Keys, BackoffElapses(k) \/ LockGoesStale(k)
        PROVE  jstatus'[j] = "absent"
    BY <1>6 DEF BackoffElapses, LockGoesStale
  <1>7. QED
    BY <1>1, <1>2, <1>3, <1>4, <1>5, <1>6 DEF WorkerStep

\* No step deletes a row.
LEMMA RowsStay ==
  ASSUME TypeOK, [Next]_vars, NEW j \in Keys, jstatus[j] # "absent"
  PROVE  jstatus'[j] # "absent"
  <1> USE DEF TypeOK, Busy, jobVars
  <1>1. ASSUME NEW k \in Keys, Enqueue(k) \/ BackoffElapses(k) \/ LockGoesStale(k)
        PROVE  jstatus'[j] # "absent"
    BY <1>1 DEF Enqueue, enqueue, BackoffElapses, LockGoesStale
  <1>2. ASSUME NEW w \in Workers, Claim(w) \/ Complete(w) \/ Fail(w)
        PROVE  jstatus'[j] # "absent"
    BY <1>2 DEF Claim, claim_next, Complete, complete, Fail, fail
  <1>3. ASSUME NEW w \in Workers,
               \/ SetTenant(w) \/ HandlerReturns(w) \/ HandlerRaises(w)
               \/ HandlerHitsDbError(w) \/ Shutdown(w) \/ Crash(w) \/ Restart(w)
        PROVE  jstatus'[j] # "absent"
    BY <1>3 DEF SetTenant, HandlerReturns, HandlerRaises, HandlerHitsDbError,
                Shutdown, Crash, Restart
  <1>4. CASE Reap
    BY <1>4 DEF Reap, reap_stale_locks
  <1>5. CASE UNCHANGED vars
    BY <1>5 DEF vars
  <1>6. QED
    BY <1>1, <1>2, <1>3, <1>4, <1>5 DEF Next, WorkerStep

\* A worker takes a job that exists, and it goes on existing.
LEMMA JobsExistStep == TypeOK /\ JobsExist /\ [Next]_vars => JobsExist'
  <1> SUFFICES ASSUME TypeOK, JobsExist, [Next]_vars, NEW v \in Workers, Busy(v)'
               PROVE  jstatus'[wjob'[v]] # "absent"
    BY DEF JobsExist
  <1> USE DEF TypeOK, Busy
  <1>1. CASE \E w \in Workers : Claim(w)
    <2>1. PICK w \in Workers : Claim(w)
      BY <1>1
    <2>2. CASE v = w
      BY <2>1, <2>2 DEF Claim, claim_next
    <2>3. CASE v # w
      <3>1. Busy(v) /\ wjob'[v] = wjob[v]
        BY <2>1, <2>3 DEF Claim
      <3>2. QED
        BY <3>1, RowsStay DEF JobsExist
    <2>4. QED
      BY <2>2, <2>3
  <1>2. CASE ~(\E w \in Workers : Claim(w))
    <2>1. Busy(v) /\ wjob'[v] = wjob[v]
      BY <1>2 DEF Next, WorkerStep, vars, workerVars, Enqueue, BackoffElapses, LockGoesStale,
                  SetTenant, HandlerReturns, HandlerRaises, HandlerHitsDbError, Complete,
                  Fail, Shutdown, Crash, Restart, Reap
    <2>2. QED
      BY <2>1, RowsStay DEF JobsExist
  <1>3. QED
    BY <1>1, <1>2
-----------------------------------------------------------------------------

\* Every step keeps LockHeld: as long as nobody overruns, a busy worker's job is
\* running, locked by it and not stale.  Only LockGoesStale could spoil the lock
\* of a busy worker, and then it counts an overrun; fail, complete and the
\* reaper touch other jobs, because a job has one locked_by.
LEMMA LockHeldStep == TypeOK /\ TypeOK' /\ LockHeld /\ [Next]_vars => LockHeld'
  <1> SUFFICES ASSUME TypeOK, TypeOK', LockHeld, [Next]_vars, overruns' = 0,
                      NEW v \in Workers, Busy(v)'
               PROVE  /\ jstatus'[wjob'[v]] = "running"
                      /\ locked_by'[wjob'[v]] = v
                      /\ ~stale'[wjob'[v]]
    BY DEF LockHeld
  <1> DEFINE Kept == /\ jstatus'[wjob'[v]] = "running"
                     /\ locked_by'[wjob'[v]] = v
                     /\ ~stale'[wjob'[v]]
  <1> USE ConstantsAssumption DEF TypeOK, Busy, jobVars, workerVars, faultVars
  <1>1. ASSUME NEW k \in Keys, Enqueue(k) PROVE Kept
    BY <1>1 DEF Enqueue, enqueue, LockHeld
  <1>2. ASSUME NEW k \in Keys, BackoffElapses(k) PROVE Kept
    BY <1>2 DEF BackoffElapses, LockHeld
  <1>3. ASSUME NEW k \in Keys, LockGoesStale(k) PROVE Kept
    <2>1. ~HolderBusy(k) /\ overruns = 0
      BY <1>3 DEF LockGoesStale
    <2>2. /\ Busy(v) /\ wjob'[v] = wjob[v] /\ wjob[v] \in Keys
          /\ jstatus[wjob[v]] = "running" /\ locked_by[wjob[v]] = v /\ ~stale[wjob[v]]
      BY <1>3, <2>1 DEF LockGoesStale, LockHeld
    <2>3. wjob[v] # k
      BY <2>1, <2>2 DEF HolderBusy
    <2>4. QED
      BY <1>3, <2>2, <2>3 DEF LockGoesStale
  <1>4. ASSUME NEW w \in Workers, Claim(w) PROVE Kept
    <2>1. PICK k \in Keys : claim_next(w, k) /\ wjob' = [wjob EXCEPT ![w] = k]
      BY <1>4 DEF Claim
    <2>2. CASE v = w
      BY <2>1, <2>2 DEF claim_next
    <2>3. CASE v # w
      <3>1. /\ Busy(v) /\ wjob'[v] = wjob[v] /\ wjob[v] \in Keys
            /\ jstatus[wjob[v]] = "running" /\ locked_by[wjob[v]] = v /\ ~stale[wjob[v]]
        BY <1>4, <2>1, <2>3 DEF Claim, LockHeld
      <3>2. wjob[v] # k
        BY <3>1, <2>1 DEF claim_next, Claimable
      <3>3. QED
        BY <2>1, <3>1, <3>2 DEF claim_next
    <2>4. QED
      BY <2>2, <2>3
  <1>5. ASSUME NEW w \in Workers,
               \/ SetTenant(w) \/ HandlerReturns(w) \/ HandlerRaises(w)
               \/ HandlerHitsDbError(w) \/ Shutdown(w) \/ Crash(w) \/ Restart(w)
        PROVE  Kept
    BY <1>5 DEF SetTenant, HandlerReturns, HandlerRaises, HandlerHitsDbError,
                Shutdown, Crash, Restart, LockHeld
  <1>6. ASSUME NEW w \in Workers, Complete(w) \/ Fail(w)
        PROVE  Kept
    <2>1. /\ v # w /\ Busy(v) /\ wjob'[v] = wjob[v] /\ wjob[v] \in Keys
          /\ jstatus[wjob[v]] = "running" /\ locked_by[wjob[v]] = v /\ ~stale[wjob[v]]
      BY <1>6 DEF Complete, Fail, LockHeld
    <2>2. wjob[w] \in Keys /\ locked_by[wjob[w]] = w
      BY <1>6 DEF Complete, Fail, LockHeld
    <2>3. wjob[v] # wjob[w]
      BY <2>1, <2>2
    <2>4. CASE Complete(w)
      BY <2>1, <2>2, <2>3, <2>4 DEF Complete, complete
    <2>5. CASE Fail(w)
      BY <2>1, <2>2, <2>3, <2>5 DEF Fail, fail
    <2>6. QED
      BY <1>6, <2>4, <2>5
  <1>7. ASSUME Reap PROVE Kept
    BY <1>7 DEF Reap, reap_stale_locks, StaleLocks, LockHeld
  <1>8. ASSUME UNCHANGED vars PROVE Kept
    BY <1>8 DEF vars, LockHeld
  <1>9. QED
    BY <1>1, <1>2, <1>3, <1>4, <1>5, <1>6, <1>7, <1>8 DEF Next, WorkerStep

\* A worker inside run_one_job holds a live lock on a running job, as long as no
\* handler has overrun stale_after: the invariant the other theorems rest on.
THEOREM LockIsHeld == Spec => []LockHeld
  <1>1. Init => LockHeld
    BY DEF Init, LockHeld, Busy
  <1>2. QED
    BY <1>1, LockHeldStep, TypeCorrect, PTL DEF Spec

\* Mutual exclusion: unless a worker has overrun its lock, no two workers are
\* inside run_one_job with the same job, for any number of workers and crashes.
THEOREM HandlingIsExclusive == Spec => []ExclusiveHandling
  <1>1. TypeOK /\ LockHeld => ExclusiveHandling
    BY DEF TypeOK, LockHeld, ExclusiveHandling, Busy
  <1>2. QED
    BY <1>1, TypeCorrect, LockIsHeld, PTL
-----------------------------------------------------------------------------

\* The step fact behind the dead-letter accounting and the finality of jobs.
\* A finished job is not locked by a busy worker (LockHeld), so complete and
\* fail meet running jobs only.
LEMMA DeadLetterStep ==
  TypeOK /\ TypeOK' /\ LockHeld /\ DeadLetteredOnce /\ [Next]_vars => DeadLetteredOnce'
  <1> SUFFICES ASSUME TypeOK, TypeOK', LockHeld, DeadLetteredOnce, [Next]_vars,
                      overruns' = 0, NEW j \in Keys
               PROVE  /\ dead_letters'[j] = IF jstatus'[j] = "dead" THEN 1 ELSE 0
                      /\ jstatus'[j] = "dead" => attempts'[j] >= MaxAttempts[j]
    BY DEF DeadLetteredOnce
  <1> DEFINE Kept == /\ dead_letters'[j] = IF jstatus'[j] = "dead" THEN 1 ELSE 0
                     /\ jstatus'[j] = "dead" => attempts'[j] >= MaxAttempts[j]
  <1> USE ConstantsAssumption DEF TypeOK, Busy, jobVars, workerVars, faultVars
  <1>0. overruns = 0
    BY DEF Next, vars, WorkerStep, Enqueue, BackoffElapses, LockGoesStale, Claim, SetTenant,
           HandlerReturns, HandlerRaises, HandlerHitsDbError, Complete, Fail, Shutdown,
           Crash, Restart, Reap
  <1>1. /\ dead_letters[j] = IF jstatus[j] = "dead" THEN 1 ELSE 0
        /\ jstatus[j] = "dead" => attempts[j] >= MaxAttempts[j]
    BY <1>0 DEF DeadLetteredOnce
  <1>2. ASSUME NEW k \in Keys, Enqueue(k) PROVE Kept
    BY <1>1, <1>2 DEF Enqueue, enqueue
  <1>3. ASSUME NEW k \in Keys, BackoffElapses(k) \/ LockGoesStale(k) PROVE Kept
    BY <1>1, <1>3 DEF BackoffElapses, LockGoesStale
  <1>4. ASSUME NEW w \in Workers, Claim(w) PROVE Kept
    BY <1>1, <1>4 DEF Claim, claim_next, Claimable
  <1>5. ASSUME NEW w \in Workers,
               \/ SetTenant(w) \/ HandlerReturns(w) \/ HandlerRaises(w)
               \/ HandlerHitsDbError(w) \/ Shutdown(w) \/ Crash(w) \/ Restart(w)
        PROVE  Kept
    BY <1>1, <1>5 DEF SetTenant, HandlerReturns, HandlerRaises, HandlerHitsDbError,
                      Shutdown, Crash, Restart
  <1>6. ASSUME NEW w \in Workers, Complete(w) \/ Fail(w) PROVE Kept
    <2>1. wjob[w] \in Keys /\ jstatus[wjob[w]] = "running"
      BY <1>0, <1>6 DEF Complete, Fail, LockHeld
    <2>2. CASE Complete(w)
      BY <1>1, <2>1, <2>2 DEF Complete, complete
    <2>3. CASE Fail(w)
      <3>1. CASE j # wjob[w]
        BY <1>1, <2>1, <2>3, <3>1 DEF Fail, fail
      <3>2. CASE j = wjob[w]
        BY <1>1, <2>1, <2>3, <3>2 DEF Fail, fail
      <3>3. QED
        BY <3>1, <3>2
    <2>4. QED
      BY <1>6, <2>2, <2>3
  <1>7. ASSUME Reap PROVE Kept
    BY <1>1, <1>7 DEF Reap, reap_stale_locks, StaleLocks
  <1>8. ASSUME UNCHANGED vars PROVE Kept
    BY <1>1, <1>8 DEF vars
  <1>9. QED
    BY <1>2, <1>3, <1>4, <1>5, <1>6, <1>7, <1>8 DEF Next, WorkerStep

\* Unless a worker has overrun its lock, a job is dead exactly when it has one
\* dead_letters row, and only after max_attempts counted attempts.
THEOREM DeadLettersAreExact == Spec => []DeadLetteredOnce
  <1>1. Init => DeadLetteredOnce
    BY DEF Init, DeadLetteredOnce
  <1>2. QED
    BY <1>1, DeadLetterStep, TypeCorrect, LockIsHeld, PTL DEF Spec

\* Unless a worker has overrun its lock, done and dead are final.
THEOREM FinishedJobsAreFinal == Spec => FinishedIsFinal
  <1> DEFINE Final == \A k \in Keys :
                        overruns = 0 /\ jstatus[k] \in Finished => jstatus'[k] = jstatus[k]
  <1>1. TypeOK /\ LockHeld /\ [Next]_vars => [Final]_vars
    <2> SUFFICES ASSUME TypeOK, LockHeld, Next, overruns = 0,
                        NEW j \in Keys, jstatus[j] \in Finished
                 PROVE  jstatus'[j] = jstatus[j]
      OBVIOUS
    <2> USE DEF TypeOK, Busy, jobVars, Finished
    <2>1. ASSUME NEW k \in Keys, Enqueue(k) \/ BackoffElapses(k) \/ LockGoesStale(k)
          PROVE  jstatus'[j] = jstatus[j]
      BY <2>1 DEF Enqueue, enqueue, BackoffElapses, LockGoesStale
    <2>2. ASSUME NEW w \in Workers, Claim(w)
          PROVE  jstatus'[j] = jstatus[j]
      BY <2>2 DEF Claim, claim_next, Claimable
    <2>3. ASSUME NEW w \in Workers, Complete(w) \/ Fail(w)
          PROVE  jstatus'[j] = jstatus[j]
      BY <2>3 DEF Complete, complete, Fail, fail, LockHeld
    <2>4. ASSUME NEW w \in Workers,
                 \/ SetTenant(w) \/ HandlerReturns(w) \/ HandlerRaises(w)
                 \/ HandlerHitsDbError(w) \/ Shutdown(w) \/ Crash(w) \/ Restart(w)
          PROVE  jstatus'[j] = jstatus[j]
      BY <2>4 DEF SetTenant, HandlerReturns, HandlerRaises, HandlerHitsDbError,
                  Shutdown, Crash, Restart
    <2>5. CASE Reap
      BY <2>5 DEF Reap, reap_stale_locks, StaleLocks
    <2>6. QED
      BY <2>1, <2>2, <2>3, <2>4, <2>5 DEF Next, WorkerStep
  <1>2. QED
    BY <1>1, TypeCorrect, LockIsHeld, PTL DEF Spec, FinishedIsFinal
-----------------------------------------------------------------------------
(***************************************************************************)
(* What the attempts of a job are paid from                                *)
(***************************************************************************)

\* The workers that are busy with a job: each may still count an attempt of it.
Handling(k) == {w \in Workers : Busy(w) /\ wjob[w] = k}

\* The workers whose poll loop will die with the next job that they claim.
Doomed == {w \in Workers : conn[w] = "aborted" /\ (Busy(w) \/ wstate[w] = "idle")}

\* What the faults so far may cost.
Faults == downs + dberrors + 2 * overruns

\* The attempts that are still to come by the job's own status: the one that a claim
\* begins, and before it the one that the reaper counts.
Coming(k) ==
  IF jstatus[k] = "queued" THEN 1
  ELSE IF jstatus[k] = "running" /\ (stale[k] \/ locked_by[k] \notin Handling(k)) THEN 2 ELSE 0

Owed(k) == Cardinality(Handling(k)) + Coming(k) + Cardinality(Doomed)

\* The attempts counted and owed are paid for, and so is all that is owed beyond one.
Paid(k) ==
  /\ IsFiniteSet(Handling(k))
  /\ Owed(k) <= 1 + Faults
  /\ attempts[k] + Owed(k) <= MaxAttempts[k] + Faults
  /\ jstatus[k] = "absent" => attempts[k] = 0

AccountsBalance ==
  /\ IsFiniteSet(Doomed) /\ Cardinality(Doomed) <= Faults
  /\ \A k \in Keys : Paid(k)

\* A finite set that gains or loses at most one element.
LEMMA ExceptOne ==
  ASSUME NEW S, IsFiniteSet(S), NEW T, NEW x, T \ {x} = S \ {x}
  PROVE  /\ IsFiniteSet(T) /\ Cardinality(S) \in Nat /\ Cardinality(T) \in Nat
         /\ (x \in S <=> x \in T) => Cardinality(T) = Cardinality(S)
         /\ x \in S /\ x \notin T => Cardinality(S) = Cardinality(T) + 1
         /\ x \notin S /\ x \in T => Cardinality(T) = Cardinality(S) + 1
  <1>1. CASE x \in S
    <2>1. T = S \/ T = S \ {x}
      BY <1>1
    <2>2. IsFiniteSet(S \ {x}) /\ Cardinality(S \ {x}) = Cardinality(S) - 1
      BY <1>1, FS_RemoveElement
    <2>3. Cardinality(S) \in Nat /\ Cardinality(S \ {x}) \in Nat
      BY <2>2, FS_CardinalityType
    <2>4. CASE T = S
      BY <1>1, <2>3, <2>4
    <2>5. CASE T = S \ {x}
      BY <1>1, <2>2, <2>3, <2>5
    <2>6. QED
      BY <2>1, <2>4, <2>5
  <1>2. CASE x \notin S
    <2>1. T = S \/ T = S \cup {x}
      BY <1>2
    <2>2. IsFiniteSet(S \cup {x}) /\ Cardinality(S \cup {x}) = Cardinality(S) + 1
      BY <1>2, FS_AddElement
    <2>3. Cardinality(S) \in Nat /\ Cardinality(S \cup {x}) \in Nat
      BY <2>2, FS_CardinalityType
    <2>4. CASE T = S
      BY <1>2, <2>3, <2>4
    <2>5. CASE T = S \cup {x}
      BY <1>2, <2>2, <2>3, <2>5
    <2>6. QED
      BY <2>1, <2>4, <2>5
  <1>3. QED
    BY <1>1, <1>2

\* What a step of one worker does to the sets of workers.
LEMMA OneWorker ==
  ASSUME NEW w \in Workers,
         \A v \in Workers : v # w => /\ wstate'[v] = wstate[v] /\ wjob'[v] = wjob[v]
                                     /\ conn'[v] = conn[v]
  PROVE  /\ Doomed' \ {w} = Doomed \ {w}
         /\ \A k \in Keys : Handling(k)' \ {w} = Handling(k) \ {w}
  BY DEF Doomed, Handling, Busy

\* The sums are natural numbers.
LEMMA AccountsTyped ==
  ASSUME TypeOK, AccountsBalance
  PROVE  /\ Cardinality(Doomed) \in Nat /\ Faults \in Nat
         /\ \A k \in Keys : /\ Cardinality(Handling(k)) \in Nat /\ Coming(k) \in 0..2
                            /\ attempts[k] \in Nat /\ MaxAttempts[k] \in Nat \ {0}
  BY ConstantsAssumption, FS_CardinalityType DEF AccountsBalance, Paid, TypeOK, Faults, Coming

\* A step that leaves alone what is counted of a job.
LEMMA SamePaid ==
  ASSUME TypeOK, AccountsBalance, NEW k \in Keys,
         Handling(k)' = Handling(k), jstatus'[k] = jstatus[k], attempts'[k] = attempts[k],
         locked_by'[k] = locked_by[k], stale'[k] = stale[k],
         Cardinality(Doomed)' \in Nat, Faults' \in Nat,
         Cardinality(Doomed)' + Faults <= Cardinality(Doomed) + Faults'
  PROVE  Paid(k)'
  <1>1. /\ Cardinality(Doomed) \in Nat /\ Faults \in Nat
        /\ Cardinality(Handling(k)) \in Nat /\ Coming(k) \in 0..2
        /\ attempts[k] \in Nat /\ MaxAttempts[k] \in Nat
    BY AccountsTyped
  <1>2. Coming(k)' = Coming(k) /\ Cardinality(Handling(k)') = Cardinality(Handling(k))
    BY DEF Coming
  <1>3. Paid(k)
    BY DEF AccountsBalance
  <1>4. QED
    BY <1>1, <1>2, <1>3 DEF Paid, Owed

\* A step that moves only worker w moves the sizes of the sets by what becomes of w.
LEMMA Sizes ==
  ASSUME TypeOK, AccountsBalance, NEW w \in Workers,
         \A v \in Workers : v # w => /\ wstate'[v] = wstate[v] /\ wjob'[v] = wjob[v]
                                     /\ conn'[v] = conn[v]
  PROVE  /\ IsFiniteSet(Doomed') /\ Cardinality(Doomed') \in Nat
         /\ (w \in Doomed <=> w \in Doomed') => Cardinality(Doomed') = Cardinality(Doomed)
         /\ w \in Doomed /\ w \notin Doomed' => Cardinality(Doomed) = Cardinality(Doomed') + 1
         /\ w \notin Doomed /\ w \in Doomed' => Cardinality(Doomed') = Cardinality(Doomed) + 1
         /\ \A k \in Keys :
              /\ IsFiniteSet(Handling(k)') /\ Cardinality(Handling(k)') \in Nat
              /\ (w \in Handling(k) <=> w \in Handling(k)') => Handling(k)' = Handling(k)
              /\ w \in Handling(k) /\ w \notin Handling(k)' =>
                   Cardinality(Handling(k)) = Cardinality(Handling(k)') + 1
              /\ w \notin Handling(k) /\ w \in Handling(k)' =>
                   Cardinality(Handling(k)') = Cardinality(Handling(k)) + 1
  <1>1. /\ IsFiniteSet(Doomed) /\ Doomed' \ {w} = Doomed \ {w}
        /\ \A k \in Keys : IsFiniteSet(Handling(k)) /\ Handling(k)' \ {w} = Handling(k) \ {w}
    BY OneWorker DEF AccountsBalance, Paid
  <1>2. /\ IsFiniteSet(Doomed') /\ Cardinality(Doomed') \in Nat
        /\ (w \in Doomed <=> w \in Doomed') => Cardinality(Doomed') = Cardinality(Doomed)
        /\ w \in Doomed /\ w \notin Doomed' => Cardinality(Doomed) = Cardinality(Doomed') + 1
        /\ w \notin Doomed /\ w \in Doomed' => Cardinality(Doomed') = Cardinality(Doomed) + 1
    BY ONLY <1>1, ExceptOne
  <1>3. ASSUME NEW k \in Keys
        PROVE  /\ IsFiniteSet(Handling(k)') /\ Cardinality(Handling(k)') \in Nat
               /\ (w \in Handling(k) <=> w \in Handling(k)') => Handling(k)' = Handling(k)
               /\ w \in Handling(k) /\ w \notin Handling(k)' =>
                    Cardinality(Handling(k)) = Cardinality(Handling(k)') + 1
               /\ w \notin Handling(k) /\ w \in Handling(k)' =>
                    Cardinality(Handling(k)') = Cardinality(Handling(k)) + 1
    <2>1. IsFiniteSet(Handling(k)) /\ Handling(k)' \ {w} = Handling(k) \ {w}
      BY <1>1
    <2>2. (w \in Handling(k) <=> w \in Handling(k)') => Handling(k)' = Handling(k)
      BY ONLY <2>1
    <2>3. QED
      BY ONLY <2>1, <2>2, ExceptOne
  <1>4. QED
    BY <1>2, <1>3

\* The faults after a step are a natural number.
LEMMA NextFaultsTyped == TypeOK' => Faults' \in Nat
  <1>1. TypeOK' => downs' \in Nat /\ overruns' \in Nat /\ dberrors' \in Nat
    BY ConstantsAssumption DEF TypeOK
  <1>2. QED
    BY <1>1 DEF Faults

\* The books of one job balance after a step if what the step adds is covered.
LEMMA StillPaid ==
  ASSUME TypeOK, TypeOK', AccountsBalance, NEW k \in Keys,
         IsFiniteSet(Handling(k)'), Cardinality(Handling(k)') \in Nat,
         Cardinality(Doomed') \in Nat, Coming(k)' \in 0..2,
         Owed(k)' + Faults <= Owed(k) + Faults',
         \/ attempts'[k] + Owed(k)' + Faults <= attempts[k] + Owed(k) + Faults'
         \/ attempts'[k] < MaxAttempts[k] /\ Faults = Faults',
         jstatus'[k] = "absent" => attempts'[k] = 0
  PROVE  Paid(k)'
  <1> DEFINE H == Cardinality(Handling(k))  D == Cardinality(Doomed)
  <1>1. /\ D \in Nat /\ Faults \in Nat /\ H \in Nat /\ Coming(k) \in 0..2
        /\ attempts[k] \in Nat /\ MaxAttempts[k] \in Nat
    BY AccountsTyped
  <1>2. Faults' \in Nat /\ attempts'[k] \in Nat
    BY NextFaultsTyped DEF TypeOK
  <1>3. /\ Owed(k) <= 1 + Faults /\ attempts[k] + Owed(k) <= MaxAttempts[k] + Faults
        /\ Owed(k) \in Nat /\ Owed(k)' \in Nat
    <2>1. Owed(k) = H + Coming(k) + D /\ Owed(k)' = H' + Coming(k)' + D'
      BY DEF Owed
    <2>2. H' \in Nat /\ D' \in Nat
      OBVIOUS
    <2>3. Owed(k) <= 1 + Faults /\ attempts[k] + Owed(k) <= MaxAttempts[k] + Faults
      BY DEF AccountsBalance, Paid
    <2> HIDE DEF H, D
    <2>4. QED
      BY <1>1, <2>1, <2>2, <2>3
  <1>4. Owed(k)' <= 1 + Faults' /\ attempts'[k] + Owed(k)' <= MaxAttempts[k] + Faults'
    <2> HIDE DEF H, D
    <2>1. Owed(k)' <= 1 + Faults'
      BY <1>1, <1>2, <1>3
    <2>2. QED
      BY <1>1, <1>2, <1>3, <2>1
  <1>5. IsFiniteSet(Handling(k)') /\ (jstatus'[k] = "absent" => attempts'[k] = 0)
    OBVIOUS
  <1>6. QED
    BY ONLY <1>4, <1>5 DEF Paid

-----------------------------------------------------------------------------

\* The books balance while nothing has happened.
LEMMA AccountsInit == Init => TypeOK /\ AccountsBalance
  <1> SUFFICES ASSUME Init PROVE TypeOK /\ AccountsBalance
    OBVIOUS
  <1>1. TypeOK
    BY ConstantsAssumption DEF Init, TypeOK, JobStatus, WorkerState, Busy
  <1>2. Doomed = {} /\ \A k \in Keys : Handling(k) = {} /\ Coming(k) = 0
    BY DEF Init, Doomed, Handling, Coming, Busy
  <1>3. Faults = 0
    BY DEF Init, Faults
  <1>4. ASSUME NEW k \in Keys PROVE Paid(k)
    <2>1. attempts[k] = 0 /\ MaxAttempts[k] \in Nat
      BY ConstantsAssumption DEF Init
    <2>2. IsFiniteSet(Handling(k)) /\ Owed(k) = 0
      BY <1>2, FS_EmptySet DEF Owed
    <2>3. QED
      BY <1>3, <2>1, <2>2 DEF Paid
  <1>5. QED
    BY <1>1, <1>2, <1>3, <1>4, FS_EmptySet DEF AccountsBalance


\* A step that moves no worker.
LEMMA NoWorkerMoves ==
  ASSUME TypeOK, TypeOK', AccountsBalance, UNCHANGED workerVars,
         Faults' \in Nat, Faults <= Faults',
         \A k \in Keys : \/ /\ Coming(k)' + Faults <= Coming(k) + Faults'
                            /\ attempts'[k] + Coming(k)' + Faults
                                 <= attempts[k] + Coming(k) + Faults'
                            /\ jstatus'[k] = "absent" => attempts'[k] = 0
                         \/ Paid(k)'
  PROVE  AccountsBalance'
  <1>1. /\ Doomed' = Doomed /\ \A k \in Keys : Handling(k)' = Handling(k)
    BY DEF workerVars, Doomed, Handling, Busy
  <1>2. /\ Cardinality(Doomed) \in Nat /\ Faults \in Nat /\ Cardinality(Doomed) <= Faults
        /\ IsFiniteSet(Doomed)
    BY AccountsTyped DEF AccountsBalance
  <1>3. ASSUME NEW k \in Keys,
               Coming(k)' + Faults <= Coming(k) + Faults',
               attempts'[k] + Coming(k)' + Faults <= attempts[k] + Coming(k) + Faults',
               jstatus'[k] = "absent" => attempts'[k] = 0
        PROVE  Paid(k)'
    <2> DEFINE H == Cardinality(Handling(k))
               D == Cardinality(Doomed)
    <2>1. H \in Nat /\ Coming(k) \in 0..2 /\ attempts[k] \in Nat /\ IsFiniteSet(Handling(k))
      BY AccountsTyped DEF AccountsBalance, Paid
    <2>2. Coming(k)' \in 0..2 /\ attempts'[k] \in Nat
      BY DEF Coming, TypeOK
    <2>3. /\ Owed(k) = H + Coming(k) + D
          /\ Owed(k)' = H + Coming(k)' + D
      BY <1>1 DEF Owed
    <2>4. D \in Nat
      BY <1>2
    <2>5. /\ Owed(k)' + Faults <= Owed(k) + Faults'
          /\ attempts'[k] + Owed(k)' + Faults <= attempts[k] + Owed(k) + Faults'
      <3> HIDE DEF H, D
      <3>1. QED
        BY <1>2, <1>3, <2>1, <2>2, <2>3, <2>4
    <2>6. /\ IsFiniteSet(Handling(k)') /\ Cardinality(Handling(k)') \in Nat
          /\ Cardinality(Doomed') \in Nat
      BY <1>1, <1>2, <2>1
    <2>7. QED
      BY <1>3, <2>2, <2>5, <2>6, StillPaid
  <1>4. \A k \in Keys : Paid(k)'
    BY <1>3
  <1>5. QED
    BY <1>1, <1>2, <1>4 DEF AccountsBalance

\* INSERT: what a new job owes is one attempt and what the doomed workers cost.
LEMMA EnqueueAccounts ==
  ASSUME TypeOK, TypeOK', JobsExist, AccountsBalance, NEW j \in Keys, Enqueue(j)
  PROVE  AccountsBalance'
  <1>1. UNCHANGED workerVars /\ Faults' = Faults /\ Faults \in Nat
    BY AccountsTyped DEF Enqueue, faultVars, Faults
  <1>2. /\ \A k \in Keys : Coming(k) \in 0..2 /\ attempts[k] \in Nat /\ Paid(k)
        /\ Cardinality(Doomed) \in Nat /\ Cardinality(Doomed) <= Faults
    BY AccountsTyped DEF AccountsBalance
  <1>3. /\ Doomed' = Doomed /\ \A k \in Keys : Handling(k)' = Handling(k)
    BY <1>1 DEF workerVars, Doomed, Handling, Busy
  <1>4. attempts' = attempts /\ locked_by' = locked_by /\ stale' = stale
    BY DEF Enqueue, enqueue, jobVars
  <1>5. ASSUME NEW k \in Keys, jstatus'[k] = jstatus[k]
        PROVE  /\ Coming(k)' + Faults <= Coming(k) + Faults'
               /\ attempts'[k] + Coming(k)' + Faults <= attempts[k] + Coming(k) + Faults'
               /\ jstatus'[k] = "absent" => attempts'[k] = 0
    <2>1. Coming(k)' = Coming(k)
      BY <1>3, <1>4, <1>5 DEF Coming
    <2>2. jstatus[k] = "absent" => attempts[k] = 0
      BY <1>2 DEF Paid
    <2>3. QED
      BY <1>1, <1>2, <1>4, <1>5, <2>1, <2>2
  <1>6. ASSUME NEW k \in Keys, jstatus'[k] # jstatus[k]
        PROVE  Paid(k)'
    <2>1. jstatus[k] = "absent" /\ jstatus'[k] = "queued"
      BY <1>6 DEF Enqueue, enqueue, jobVars, TypeOK
    <2>2. Handling(k) = {}
      BY <2>1 DEF JobsExist, Handling
    <2>3. Owed(k)' = 1 + Cardinality(Doomed)
      BY <1>2, <1>3, <2>1, <2>2, FS_EmptySet DEF Owed, Coming
    <2>4. attempts'[k] = 0 /\ MaxAttempts[k] \in Nat \ {0}
      BY <1>2, <1>4, <2>1, ConstantsAssumption DEF Paid
    <2>5. IsFiniteSet(Handling(k)')
      BY <1>3, <2>2, FS_EmptySet
    <2>6. QED
      BY <1>1, <1>2, <2>1, <2>3, <2>4, <2>5 DEF Paid
  <1>7. QED
    BY <1>1, <1>5, <1>6, NoWorkerMoves

\* A backoff elapses.
LEMMA BackoffAccounts ==
  ASSUME TypeOK, TypeOK', AccountsBalance, NEW j \in Keys, BackoffElapses(j)
  PROVE  AccountsBalance'
  <1>1. UNCHANGED workerVars /\ Faults' = Faults /\ Faults \in Nat
    BY AccountsTyped DEF BackoffElapses, faultVars, workerVars, Faults
  <1>2. \A k \in Keys : Coming(k) \in 0..2 /\ attempts[k] \in Nat /\ Paid(k)
    BY AccountsTyped DEF AccountsBalance
  <1>3. /\ attempts' = attempts /\ jstatus' = jstatus
        /\ \A k \in Keys : Coming(k)' = Coming(k)
    BY DEF BackoffElapses, workerVars, Coming, Handling, Busy
  <1>4. \A k \in Keys : jstatus[k] = "absent" => attempts[k] = 0
    BY <1>2 DEF Paid
  <1>5. QED
    BY <1>1, <1>2, <1>3, <1>4, NoWorkerMoves

\* A lock turns stale: an overrun pays for two attempts, and a lock whose holder is gone
\* has been accounted for.
LEMMA StaleAccounts ==
  ASSUME TypeOK, TypeOK', AccountsBalance, NEW j \in Keys, LockGoesStale(j)
  PROVE  AccountsBalance'
  <1>1. UNCHANGED workerVars /\ attempts' = attempts /\ jstatus' = jstatus
    BY DEF LockGoesStale, workerVars
  <1>2. /\ Faults \in Nat /\ Faults' = IF HolderBusy(j) THEN Faults + 2 ELSE Faults
    <2>1. downs \in Nat /\ dberrors \in Nat /\ overruns \in Nat
      BY ConstantsAssumption DEF TypeOK
    <2>2. QED
      BY <2>1 DEF LockGoesStale, Faults
  <1>3. \A k \in Keys : Coming(k) \in 0..2 /\ attempts[k] \in Nat /\ Paid(k)
    BY AccountsTyped DEF AccountsBalance
  <1>4. /\ \A k \in Keys : Coming(k)' \in 0..2
        /\ \A k \in Keys : k # j => Coming(k)' = Coming(k)
        /\ ~HolderBusy(j) => Coming(j) = 2
    <2>1. ~HolderBusy(j) => locked_by[j] \notin Handling(j)
      BY DEF HolderBusy, Handling
    <2>2. jstatus[j] = "running"
      BY DEF LockGoesStale
    <2>3. ASSUME NEW k \in Keys, k # j PROVE Coming(k)' = Coming(k)
      BY <2>3 DEF LockGoesStale, workerVars, Coming, Handling, Busy, TypeOK
    <2>4. QED
      BY <2>1, <2>2, <2>3 DEF Coming
  <1>5. \A k \in Keys : jstatus[k] = "absent" => attempts[k] = 0
    BY <1>3 DEF Paid
  <1>6. ASSUME NEW k \in Keys
        PROVE  /\ Coming(k)' + Faults <= Coming(k) + Faults'
               /\ attempts'[k] + Coming(k)' + Faults <= attempts[k] + Coming(k) + Faults'
               /\ jstatus'[k] = "absent" => attempts'[k] = 0
    BY <1>1, <1>2, <1>3, <1>4, <1>5
  <1>7. Faults' \in Nat /\ Faults <= Faults'
    BY <1>2
  <1>8. QED
    BY <1>1, <1>6, <1>7, NoWorkerMoves

\* The reaper counts the attempt that a stale lock owes, and a claim comes after it.
LEMMA ReapAccounts ==
  ASSUME TypeOK, TypeOK', AccountsBalance, Reap
  PROVE  AccountsBalance'
  <1>1. UNCHANGED workerVars /\ Faults' = Faults /\ Faults \in Nat
    BY AccountsTyped DEF Reap, faultVars, Faults
  <1>2. \A k \in Keys : Coming(k) \in 0..2 /\ attempts[k] \in Nat /\ Paid(k)
    BY AccountsTyped DEF AccountsBalance
  <1>3. \A k \in Keys : Handling(k)' = Handling(k)
    BY <1>1 DEF workerVars, Handling, Busy
  <1>4. \A k \in Keys : jstatus[k] = "absent" => attempts[k] = 0
    BY <1>2 DEF Paid
  <1>5. ASSUME NEW k \in Keys
        PROVE  /\ Coming(k)' + Faults <= Coming(k) + Faults'
               /\ attempts'[k] + Coming(k)' + Faults <= attempts[k] + Coming(k) + Faults'
               /\ jstatus'[k] = "absent" => attempts'[k] = 0
    <2>1. CASE k \in StaleLocks
      <3>1. /\ jstatus[k] = "running" /\ stale[k] /\ jstatus'[k] = "queued"
            /\ attempts'[k] = attempts[k] + 1
        BY <2>1 DEF Reap, reap_stale_locks, StaleLocks
      <3>2. Coming(k) = 2 /\ Coming(k)' = 1
        BY <3>1 DEF Coming
      <3>3. QED
        BY <1>1, <1>2, <3>1, <3>2
    <2>2. CASE k \notin StaleLocks
      <3>1. /\ jstatus'[k] = jstatus[k] /\ attempts'[k] = attempts[k]
            /\ stale'[k] = stale[k] /\ locked_by'[k] = locked_by[k]
        BY <2>2 DEF Reap, reap_stale_locks
      <3>2. Coming(k)' = Coming(k)
        BY <1>3, <3>1 DEF Coming
      <3>3. QED
        BY <1>1, <1>2, <1>4, <3>1, <3>2
    <2>3. QED
      BY <2>1, <2>2
  <1>6. QED
    BY <1>1, <1>5, NoWorkerMoves

-----------------------------------------------------------------------------

\* A step of worker w that is busy with job j, or not busy: what it must cover of job j.
LEMMA WorkerMoves ==
  ASSUME TypeOK, TypeOK', AccountsBalance, NEW w \in Workers, NEW j \in Keys,
         \A v \in Workers : v # w => /\ wstate'[v] = wstate[v] /\ wjob'[v] = wjob[v]
                                     /\ conn'[v] = conn[v],
         Busy(w) => wjob[w] = j, Busy(w)' => wjob'[w] = j,
         \A k \in Keys \ {j} :
           /\ jstatus'[k] = jstatus[k] /\ attempts'[k] = attempts[k]
           /\ locked_by'[k] = locked_by[k] /\ stale'[k] = stale[k],
         Faults' \in Nat, Cardinality(Doomed') \in Nat,
         Cardinality(Doomed') + Faults <= Cardinality(Doomed) + Faults',
         Paid(j)'
  PROVE  AccountsBalance'
  <1>1. IsFiniteSet(Doomed')
    BY Sizes
  <1>2. Cardinality(Doomed') <= Faults'
    BY AccountsTyped DEF AccountsBalance
  <1>3. ASSUME NEW k \in Keys, k # j PROVE Paid(k)'
    <2>1. w \notin Handling(k) /\ w \notin Handling(k)'
      BY <1>3 DEF Handling
    <2>2. Handling(k)' = Handling(k)
      BY <2>1, Sizes
    <2>3. QED
      BY <1>3, <2>2, SamePaid
  <1>4. QED
    BY <1>1, <1>2, <1>3 DEF AccountsBalance

\* A claim turns the attempt that a queued job owes into the worker's own.
LEMMA ClaimAccounts ==
  ASSUME TypeOK, TypeOK', AccountsBalance, NEW w \in Workers, Claim(w)
  PROVE  AccountsBalance'
  <1>1. PICK j \in Keys : claim_next(w, j) /\ wjob' = [wjob EXCEPT ![w] = j]
    BY DEF Claim
  <1>2. /\ wstate[w] = "idle" /\ wstate' = [wstate EXCEPT ![w] = "claimed"]
        /\ conn' = conn /\ Faults' = Faults
    BY DEF Claim, faultVars, Faults
  <1>3. /\ jstatus[j] = "queued" /\ jstatus'[j] = "running" /\ locked_by'[j] = w
        /\ stale'[j] = FALSE /\ attempts' = attempts
        /\ \A k \in Keys \ {j} : /\ jstatus'[k] = jstatus[k] /\ locked_by'[k] = locked_by[k]
                                 /\ stale'[k] = stale[k]
    BY <1>1 DEF claim_next, Claimable, TypeOK
  <1>4. /\ ~Busy(w) /\ Busy(w)' /\ wjob'[w] = j /\ wstate'[w] = "claimed" /\ conn'[w] = conn[w]
        /\ \A v \in Workers : v # w => /\ wstate'[v] = wstate[v] /\ wjob'[v] = wjob[v]
                                       /\ conn'[v] = conn[v]
    BY <1>1, <1>2 DEF TypeOK, Busy
  <1>5. (w \in Doomed <=> w \in Doomed') /\ w \notin Handling(j) /\ w \in Handling(j)'
    BY <1>2, <1>4 DEF Doomed, Handling
  <1>6. /\ Cardinality(Doomed') = Cardinality(Doomed) /\ IsFiniteSet(Handling(j)')
        /\ Cardinality(Handling(j)') = Cardinality(Handling(j)) + 1
    BY <1>4, <1>5, Sizes
  <1>7. Coming(j) = 1 /\ Coming(j)' = 0
    BY <1>3, <1>5 DEF Coming
  <1>8. /\ Cardinality(Doomed) \in Nat /\ Faults \in Nat /\ Cardinality(Handling(j)) \in Nat
        /\ attempts[j] \in Nat
    BY AccountsTyped
  <1>9. Owed(j)' = Owed(j)
    BY <1>6, <1>7, <1>8 DEF Owed
  <1>10. Paid(j)'
    BY <1>2, <1>3, <1>6, <1>9 DEF AccountsBalance, Paid
  <1>11. QED
    BY <1>2, <1>3, <1>4, <1>6, <1>8, <1>10, WorkerMoves

\* A busy worker whose state changes, and nothing else, stays as busy as it was.
LEMMA BusyAccounts ==
  ASSUME TypeOK, TypeOK', AccountsBalance, NEW w \in Workers, NEW s,
         Busy(w), s \in {"claimed", "running", "returned", "raised"},
         wstate' = [wstate EXCEPT ![w] = s], UNCHANGED <<jobVars, wjob>>,
         \/ conn' = conn /\ Faults' = Faults
         \/ conn' = [conn EXCEPT ![w] = "aborted"] /\ Faults' = Faults + 1
  PROVE  AccountsBalance'
  <1> DEFINE j == wjob[w]
  <1>1. /\ j \in Keys /\ wjob' = wjob /\ jstatus' = jstatus /\ attempts' = attempts
        /\ locked_by' = locked_by /\ stale' = stale
    BY DEF TypeOK, jobVars
  <1>2. /\ Busy(w)' /\ wjob'[w] = j
        /\ \A v \in Workers : v # w => /\ wstate'[v] = wstate[v] /\ wjob'[v] = wjob[v]
                                       /\ conn'[v] = conn[v]
    BY <1>1 DEF TypeOK, Busy
  <1>3. Handling(j)' = Handling(j)
    <2>1. w \in Handling(j) /\ w \in Handling(j)'
      BY <1>2 DEF Handling
    <2>2. QED
      BY <1>1, <1>2, <2>1, Sizes
  <1>4. /\ Cardinality(Doomed') \in Nat /\ Cardinality(Doomed) \in Nat /\ Faults \in Nat
        /\ (w \in Doomed <=> w \in Doomed') => Cardinality(Doomed') = Cardinality(Doomed)
        /\ w \notin Doomed /\ w \in Doomed' =>
             Cardinality(Doomed') = Cardinality(Doomed) + 1
    <2>1. Cardinality(Doomed) \in Nat /\ Faults \in Nat
      BY AccountsTyped
    <2>2. QED
      BY <1>2, <2>1, Sizes
  <1>5. /\ conn' = conn => (w \in Doomed <=> w \in Doomed')
        /\ w \in Doomed => w \in Doomed'
    BY <1>2 DEF Doomed, TypeOK
  <1>6. /\ Faults' \in Nat
        /\ Cardinality(Doomed') + Faults <= Cardinality(Doomed) + Faults'
    <2>1. conn' = conn => Cardinality(Doomed') = Cardinality(Doomed)
      BY <1>2, <1>5, Sizes
    <2>2. QED
      BY <1>4, <1>5, <2>1
  <1>7. Paid(j)'
    BY <1>1, <1>3, <1>6, <1>4, SamePaid
  <1>8. QED
    BY <1>1, <1>2, <1>4, <1>6, <1>7, WorkerMoves

\* complete() or fail() of the job in hand: the worker's own attempt is over.  (A job that
\* is queued again still owes one, which is one of those max_attempts allows.)
LEMMA EndAccounts ==
  ASSUME TypeOK, TypeOK', AccountsBalance, NEW w \in Workers, Complete(w) \/ Fail(w)
  PROVE  AccountsBalance'
  <1>0. PICK j \in Keys : Busy(w) /\ wjob[w] = j
    BY DEF Complete, Fail, TypeOK, Busy
  <1>1. /\ wstate' = [wstate EXCEPT ![w] = "idle"]
        /\ wjob' = [wjob EXCEPT ![w] = NoJob] /\ conn' = conn /\ Faults' = Faults
    BY DEF Complete, Fail, faultVars, Faults
  <1>2. /\ ~Busy(w)' /\ wstate'[w] = "idle" /\ conn'[w] = conn[w]
        /\ \A v \in Workers : v # w => /\ wstate'[v] = wstate[v] /\ wjob'[v] = wjob[v]
                                       /\ conn'[v] = conn[v]
    BY <1>0, <1>1 DEF TypeOK, Busy
  <1>3. /\ \A k \in Keys \ {j} :
             /\ jstatus'[k] = jstatus[k] /\ attempts'[k] = attempts[k]
             /\ locked_by'[k] = locked_by[k] /\ stale'[k] = stale[k]
        /\ \/ jstatus'[j] \in {"done", "dead"} /\ attempts'[j] \in {attempts[j], attempts[j] + 1}
           \/ /\ jstatus'[j] = "queued" /\ attempts'[j] = attempts[j] + 1
              /\ attempts'[j] < MaxAttempts[j]
    <2>1. CASE Complete(w)
      BY <1>0, <1>1, <2>1 DEF Complete, complete, TypeOK
    <2>2. CASE Fail(w)
      <3>1. /\ fail(j) /\ attempts[j] \in Nat /\ MaxAttempts[j] \in Nat
        BY <1>0, <1>1, <2>2, ConstantsAssumption DEF Fail, TypeOK
      <3>2. attempts'[j] = attempts[j] + 1 /\ \A k \in Keys \ {j} : attempts'[k] = attempts[k]
        BY <1>0, <1>1, <3>1 DEF fail, TypeOK
      <3>3. CASE attempts[j] + 1 >= MaxAttempts[j]
        BY <1>0, <1>1, <3>1, <3>2, <3>3 DEF fail, TypeOK
      <3>4. CASE ~(attempts[j] + 1 >= MaxAttempts[j])
        <4>1. attempts'[j] < MaxAttempts[j]
          BY <3>1, <3>2, <3>4
        <4>2. QED
          BY <1>0, <1>1, <3>1, <3>2, <3>4, <4>1 DEF fail, TypeOK
      <3>5. QED
        BY <3>3, <3>4
    <2>3. QED
      BY <2>1, <2>2
  <1>4. (w \in Doomed <=> w \in Doomed') /\ w \in Handling(j) /\ w \notin Handling(j)'
    BY <1>0, <1>1, <1>2 DEF Doomed, Handling
  <1>5. /\ Cardinality(Doomed') = Cardinality(Doomed) /\ IsFiniteSet(Handling(j)')
        /\ Cardinality(Handling(j)') \in Nat
        /\ Cardinality(Handling(j)) = Cardinality(Handling(j)') + 1
    BY <1>0, <1>1, <1>2, <1>4, Sizes
  <1>6. /\ Cardinality(Doomed) \in Nat /\ Faults \in Nat /\ Coming(j) \in 0..2
        /\ attempts[j] \in Nat
    BY <1>0, <1>1, AccountsTyped
  <1>7. /\ Coming(j)' \in 0..1
        /\ jstatus'[j] # "queued" => Coming(j)' = 0
    BY <1>3 DEF Coming
  <1>8. /\ Owed(j) = Cardinality(Handling(j)') + 1 + Coming(j) + Cardinality(Doomed)
        /\ Owed(j)' = Cardinality(Handling(j)') + Coming(j)' + Cardinality(Doomed)
    BY <1>5, <1>6 DEF Owed
  <1>9. Owed(j)' <= Owed(j)
    BY <1>5, <1>6, <1>7, <1>8
  <1>10. \/ attempts'[j] + Owed(j)' <= attempts[j] + Owed(j)
         \/ attempts'[j] < MaxAttempts[j]
    BY <1>3, <1>5, <1>6, <1>7, <1>8
  <1>11. Owed(j) \in Nat /\ Owed(j)' \in Nat
    BY <1>5, <1>6, <1>7, <1>8
  <1>12. /\ Owed(j)' + Faults <= Owed(j) + Faults'
         /\ \/ attempts'[j] + Owed(j)' + Faults <= attempts[j] + Owed(j) + Faults'
            \/ attempts'[j] < MaxAttempts[j] /\ Faults = Faults'
    <2>1. attempts'[j] \in Nat
      BY <1>3, <1>6
    <2>2. QED
      BY <1>0, <1>1, <1>6, <1>9, <1>10, <1>11, <2>1
  <1>13. Paid(j)'
    <2>1. jstatus'[j] # "absent" /\ Coming(j)' \in 0..2
      BY <1>3, <1>7
    <2>2. Cardinality(Doomed') \in Nat
      BY <1>5, <1>6
    <2>3. QED
      BY <1>0, <1>1, <1>5, <1>12, <2>1, <2>2, StillPaid
  <1>14. /\ Cardinality(Doomed') \in Nat
         /\ Cardinality(Doomed') + Faults <= Cardinality(Doomed) + Faults'
    BY <1>0, <1>1, <1>5, <1>6
  <1>15. QED
    BY <1>0, <1>1, <1>2, <1>3, <1>6, <1>13, <1>14, WorkerMoves

\* A worker that ends in the middle of a job, because its thread dies or its process is
\* killed: what it did not count is left to the reaper, and the claim after that is paid
\* for by the worker's doom or by the kill.
LEMMA LostAccounts ==
  ASSUME TypeOK, TypeOK', AccountsBalance, NEW w \in Workers,
         wstate'[w] \in {"died", "crashed", "stopped"},
         \A v \in Workers : v # w => /\ wstate'[v] = wstate[v] /\ wjob'[v] = wjob[v]
                                     /\ conn'[v] = conn[v],
         UNCHANGED jobVars, conn' = conn,
         \/ Faults' = Faults + 1
         \/ Faults' = Faults /\ w \in Doomed
  PROVE  AccountsBalance'
  <1>1. /\ jstatus' = jstatus /\ attempts' = attempts
        /\ locked_by' = locked_by /\ stale' = stale
    BY DEF jobVars
  <1>2. w \notin Doomed' /\ ~Busy(w)' /\ \A k \in Keys : w \notin Handling(k)'
    BY DEF Doomed, Handling, Busy
  <1>3. /\ Cardinality(Doomed) \in Nat /\ Faults \in Nat /\ Cardinality(Doomed') \in Nat
        /\ IsFiniteSet(Doomed')
        /\ w \in Doomed => Cardinality(Doomed) = Cardinality(Doomed') + 1
        /\ w \notin Doomed => Cardinality(Doomed') = Cardinality(Doomed)
    <2>1. Cardinality(Doomed) \in Nat /\ Faults \in Nat
      BY AccountsTyped
    <2>2. QED
      BY <1>2, <2>1, Sizes
  <1>4. /\ Faults' \in Nat
        /\ Cardinality(Doomed') + Faults + 1 <= Cardinality(Doomed) + Faults'
    BY <1>3
  <1>5. Cardinality(Doomed') <= Faults'
    BY <1>3, <1>4 DEF AccountsBalance
  <1>6. ASSUME NEW k \in Keys PROVE Paid(k)'
    <2>1. CASE w \notin Handling(k)
      <3>1. Handling(k)' = Handling(k)
        BY <1>2, <2>1, Sizes
      <3>2. Cardinality(Doomed)' + Faults <= Cardinality(Doomed) + Faults'
        BY <1>3, <1>4
      <3>3. QED
        BY <1>1, <1>3, <1>4, <3>1, <3>2, SamePaid
    <2>2. CASE w \in Handling(k)
      <3>1. /\ IsFiniteSet(Handling(k)') /\ Cardinality(Handling(k)') \in Nat
            /\ Cardinality(Handling(k)) = Cardinality(Handling(k)') + 1
        BY <1>2, <2>2, Sizes
      <3>2. Coming(k) \in 0..2 /\ Coming(k)' \in 0..2 /\ attempts[k] \in Nat
        BY AccountsTyped DEF Coming
      <3>3. /\ Owed(k) = Cardinality(Handling(k)') + 1 + Coming(k) + Cardinality(Doomed)
            /\ Owed(k)' = Cardinality(Handling(k)') + Coming(k)' + Cardinality(Doomed')
        BY <1>3, <3>1, <3>2 DEF Owed
      <3>4. Owed(k)' + Faults <= Owed(k) + Faults'
        BY <1>3, <1>4, <3>1, <3>2, <3>3
      <3>5. attempts'[k] + Owed(k)' + Faults <= attempts[k] + Owed(k) + Faults'
        <4>1. Owed(k)' \in Nat /\ Owed(k) \in Nat
          BY <1>3, <3>1, <3>2, <3>3
        <4>2. QED
          BY <1>1, <1>3, <1>4, <3>2, <3>4, <4>1
      <3>6. jstatus'[k] = "absent" => attempts'[k] = 0
        BY <1>1 DEF AccountsBalance, Paid
      <3>7. QED
        BY <1>3, <3>1, <3>2, <3>4, <3>5, <3>6, StillPaid
    <2>3. QED
      BY <2>1, <2>2
  <1>7. QED
    BY <1>3, <1>5, <1>6 DEF AccountsBalance

\* The books balance after every step.
LEMMA AccountsStep ==
  ASSUME TypeOK, TypeOK', JobsExist, AccountsBalance, [Next]_vars
  PROVE  AccountsBalance'
  <1>1. CASE \E j \in Keys : Enqueue(j)
    BY <1>1, EnqueueAccounts
  <1>2. CASE \E j \in Keys : BackoffElapses(j)
    BY <1>2, BackoffAccounts
  <1>3. CASE \E j \in Keys : LockGoesStale(j)
    BY <1>3, StaleAccounts
  <1>4. CASE Reap
    BY <1>4, ReapAccounts
  <1>5. ASSUME NEW w \in Workers, Claim(w) PROVE AccountsBalance'
    BY <1>5, ClaimAccounts
  <1>6. ASSUME NEW w \in Workers, SetTenant(w) PROVE AccountsBalance'
    <2>1. /\ Busy(w) /\ UNCHANGED <<jobVars, wjob, conn>> /\ Faults' = Faults
          /\ wstate' = [wstate EXCEPT ![w] = IF conn[w] = "aborted" THEN "died" ELSE "running"]
      BY <1>6 DEF SetTenant, Busy, faultVars, Faults
    <2>2. CASE conn[w] = "aborted"
      <3>1. w \in Doomed /\ conn' = conn /\ UNCHANGED jobVars
        BY <2>1, <2>2 DEF Doomed
      <3>2. /\ wstate'[w] = "died"
            /\ \A v \in Workers : v # w => /\ wstate'[v] = wstate[v] /\ wjob'[v] = wjob[v]
                                           /\ conn'[v] = conn[v]
        BY <2>1, <2>2 DEF TypeOK
      <3>3. QED
        BY <2>1, <3>1, <3>2, LostAccounts
    <2>3. CASE conn[w] # "aborted"
      BY <2>1, <2>3, BusyAccounts
    <2>4. QED
      BY <2>2, <2>3
  <1>7. ASSUME NEW w \in Workers, HandlerReturns(w) \/ HandlerRaises(w) PROVE AccountsBalance'
    <2>1. /\ Busy(w) /\ UNCHANGED <<jobVars, wjob>> /\ conn' = conn /\ Faults' = Faults
          /\ \/ wstate' = [wstate EXCEPT ![w] = "returned"]
             \/ wstate' = [wstate EXCEPT ![w] = "raised"]
      BY <1>7 DEF HandlerReturns, HandlerRaises, Busy, faultVars, Faults
    <2>2. QED
      BY <2>1, BusyAccounts
  <1>8. ASSUME NEW w \in Workers, HandlerHitsDbError(w) PROVE AccountsBalance'
    <2>1. /\ Busy(w) /\ UNCHANGED <<jobVars, wjob>> /\ conn' = [conn EXCEPT ![w] = "aborted"]
          /\ wstate' = [wstate EXCEPT ![w] = "raised"]
      BY <1>8 DEF HandlerHitsDbError, Busy
    <2>2. Faults' = Faults + 1
      <3>1. dberrors' = dberrors + 1 /\ downs' = downs /\ overruns' = overruns
        BY <1>8 DEF HandlerHitsDbError
      <3>2. downs \in Nat /\ overruns \in Nat /\ dberrors \in Nat
        BY ConstantsAssumption DEF TypeOK
      <3>3. QED
        BY <3>1, <3>2 DEF Faults
    <2>3. QED
      BY <2>1, <2>2, BusyAccounts
  <1>9. ASSUME NEW w \in Workers, Complete(w) \/ Fail(w) PROVE AccountsBalance'
    BY <1>9, EndAccounts
  <1>10. ASSUME NEW w \in Workers, Shutdown(w) \/ Crash(w) PROVE AccountsBalance'
    <2>1. /\ UNCHANGED jobVars /\ conn' = conn
          /\ wstate'[w] \in {"crashed", "stopped"}
          /\ \A v \in Workers : v # w => /\ wstate'[v] = wstate[v] /\ wjob'[v] = wjob[v]
                                         /\ conn'[v] = conn[v]
      BY <1>10 DEF Shutdown, Crash, TypeOK
    <2>2. Faults' = Faults + 1
      <3>1. downs' = downs + 1 /\ dberrors' = dberrors /\ overruns' = overruns
        BY <1>10 DEF Shutdown, Crash
      <3>2. downs \in Nat /\ overruns \in Nat /\ dberrors \in Nat
        BY ConstantsAssumption DEF TypeOK
      <3>3. QED
        BY <3>1, <3>2 DEF Faults
    <2>3. QED
      BY <2>1, <2>2, LostAccounts
  <1>11. ASSUME NEW w \in Workers, Restart(w) PROVE AccountsBalance'
    <2>1. /\ UNCHANGED <<jobVars, wjob>> /\ Faults' = Faults /\ ~Alive(w)
          /\ wstate' = [wstate EXCEPT ![w] = "idle"] /\ conn' = [conn EXCEPT ![w] = "ok"]
      BY <1>11 DEF Restart, faultVars, Faults
    <2>2. /\ Doomed' = Doomed /\ \A k \in Keys : Handling(k)' = Handling(k)
      BY <2>1 DEF Doomed, Handling, Busy, Alive, TypeOK
    <2>3. /\ Cardinality(Doomed) \in Nat /\ Faults \in Nat
          /\ IsFiniteSet(Doomed) /\ Cardinality(Doomed) <= Faults
      BY AccountsTyped DEF AccountsBalance
    <2>4. /\ jstatus' = jstatus /\ attempts' = attempts /\ locked_by' = locked_by
          /\ stale' = stale
      BY <2>1 DEF jobVars
    <2>5. \A k \in Keys : Paid(k)'
      BY <2>1, <2>2, <2>3, <2>4, SamePaid
    <2>6. QED
      BY <2>1, <2>2, <2>3, <2>5 DEF AccountsBalance
  <1>12. CASE UNCHANGED vars
    <2>1. /\ jstatus' = jstatus /\ attempts' = attempts /\ locked_by' = locked_by
          /\ stale' = stale /\ Faults' = Faults
      BY <1>12 DEF vars, jobVars, faultVars, Faults
    <2>2. /\ Doomed' = Doomed /\ \A k \in Keys : Handling(k)' = Handling(k)
      BY <1>12 DEF vars, workerVars, Doomed, Handling, Busy
    <2>3. /\ Cardinality(Doomed) \in Nat /\ Faults \in Nat
          /\ IsFiniteSet(Doomed) /\ Cardinality(Doomed) <= Faults
      BY AccountsTyped DEF AccountsBalance
    <2>4. \A k \in Keys : Paid(k)'
      BY <2>1, <2>2, <2>3, SamePaid
    <2>5. QED
      BY <2>1, <2>2, <2>3, <2>4 DEF AccountsBalance
  <1>13. QED
    BY <1>1, <1>2, <1>3, <1>4, <1>5, <1>6, <1>7, <1>8, <1>9, <1>10, <1>11, <1>12
    DEF Next, WorkerStep

\* fail() and reap_stale_locks() both count attempts of a job, the one when a handler
\* raises, the other when a lock has turned stale.  However often processes are killed or
\* shut down, threads die and workers overrun their locks, no job's count goes past its
\* max_attempts by more than what those faults pay for: one for each process that went
\* down and each failed transaction, two for each overrun.
THEOREM AttemptsArePaidFor == Spec => []AttemptsPaidFor
  <1>1. TypeOK /\ AccountsBalance => AttemptsPaidFor
    <2> SUFFICES ASSUME TypeOK, AccountsBalance, NEW k \in Keys
                 PROVE  attempts[k] <= MaxAttempts[k] + downs + dberrors + 2 * overruns
      BY DEF AttemptsPaidFor
    <2>1. /\ Cardinality(Handling(k)) \in Nat /\ Coming(k) \in 0..2 /\ Cardinality(Doomed) \in Nat
          /\ attempts[k] \in Nat /\ MaxAttempts[k] \in Nat /\ Faults \in Nat
      BY AccountsTyped
    <2>2. Owed(k) \in Nat
      BY <2>1 DEF Owed
    <2>3. attempts[k] <= MaxAttempts[k] + Faults
      BY <2>1, <2>2 DEF AccountsBalance, Paid
    <2>4. downs \in Nat /\ overruns \in Nat /\ dberrors \in Nat
      BY ConstantsAssumption DEF TypeOK
    <2>5. QED
      BY <2>1, <2>3, <2>4 DEF Faults
  <1>2. Init => JobsExist
    BY DEF Init, JobsExist, Busy
  <1>3. QED
    BY <1>1, <1>2, AccountsInit, TypeStep, JobsExistStep, AccountsStep, PTL DEF Spec
=============================================================================
