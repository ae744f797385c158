------------------------------ MODULE JobQueue ------------------------------
(***************************************************************************)
(* The Postgres job queue (apps/worker/worker/db.py, class JobQueue) and   *)
(* the poll loop that drives it (apps/worker/worker/main.py).              *)
(*                                                                         *)
(* A job is identified with its idempotency key, which is UNIQUE.  Every   *)
(* method of JobQueue commits its own transaction, so each is one step.    *)
(* A worker is one worker process with one poll-loop thread (the default   *)
(* WORKER_CONCURRENCY); what a handler does with business tables is left   *)
(* to Pipeline, here it only returns or raises.                            *)
(*                                                                         *)
(* Time: due[k] says whether run_after <= now(), stale[k] whether          *)
(* locked_at < now() - stale_after.  Faults have budgets: processes that go  *)
(* down, handlers that fail with a database error, and overruns, that is,  *)
(* locks that turn stale while the worker is alive and busy with the job.  *)
(***************************************************************************)
EXTENDS Naturals, FiniteSets

CONSTANTS
  Keys,          \* idempotency keys
  Workers,       \* worker processes
  NoWorker,      \* locked_by IS NULL
  NoJob,         \* a worker that holds no job
  MaxAttempts,   \* jobs.max_attempts of each key
  MaxDowns,      \* bound: times a worker process is killed or shut down
  MaxOverruns,   \* bound: locks that go stale under a live worker
  MaxDbErrors    \* bound: handlers that fail with a database error

ASSUME ConstantsAssumption ==
  /\ NoWorker \notin Workers
  /\ NoJob \notin Keys
  /\ MaxAttempts \in [Keys -> Nat \ {0}]
  /\ MaxDowns \in Nat
  /\ MaxOverruns \in Nat
  /\ MaxDbErrors \in Nat

\* At any time only finitely many jobs have been inserted.
ASSUME KeysFinite == IsFiniteSet(Keys)

VARIABLES
  jstatus,       \* jobs.status; "absent" before the INSERT
  attempts,      \* jobs.attempts
  locked_by,     \* jobs.locked_by (locked_at is null exactly when it is)
  due,           \* jobs.run_after <= now()
  stale,         \* jobs.locked_at < now() - stale_after
  created,       \* jobs.created_at, as a position in the order of INSERTs
  dead_letters,  \* number of dead_letters rows of the job
  wstate,        \* where a worker's run_one_job is
  wjob,          \* the job run_one_job has claimed
  conn,          \* the handler connection: "ok" or "aborted" (failed transaction)
  downs, overruns, dberrors   \* how often each has happened

jobVars == <<jstatus, attempts, locked_by, due, stale, created, dead_letters>>
workerVars == <<wstate, wjob, conn>>
faultVars == <<downs, overruns, dberrors>>
vars == <<jobVars, workerVars, faultVars>>

JobStatus == {"absent", "queued", "running", "done", "dead"}

\* idle: between jobs; claimed: claim_next returned a job, _set_tenant is next;
\* running: inside the handler; returned / raised: the handler is over, complete
\* / fail is next; died: the poll thread ended on an uncaught exception while
\* the process lives on; stopped: graceful shutdown; crashed: process killed.
WorkerState ==
  {"idle", "claimed", "running", "returned", "raised", "died", "stopped", "crashed"}

\* The worker is inside run_one_job.
Busy(w) == wstate[w] \in {"claimed", "running", "returned", "raised"}

\* The worker's process is up (its main thread runs the reaper).
Alive(w) == wstate[w] \notin {"stopped", "crashed"}

\* Types; a worker inside run_one_job has a job; the faults keep to their budgets.
TypeOK ==
  /\ jstatus \in [Keys -> JobStatus]
  /\ attempts \in [Keys -> Nat]
  /\ locked_by \in [Keys -> Workers \cup {NoWorker}]
  /\ due \in [Keys -> BOOLEAN]
  /\ stale \in [Keys -> BOOLEAN]
  /\ created \in [Keys -> Nat]
  /\ dead_letters \in [Keys -> Nat]
  /\ wstate \in [Workers -> WorkerState]
  /\ wjob \in [Workers -> Keys \cup {NoJob}]
  /\ \A w \in Workers : Busy(w) => wjob[w] \in Keys
  /\ conn \in [Workers -> {"ok", "aborted"}]
  /\ downs \in 0..MaxDowns
  /\ overruns \in 0..MaxOverruns
  /\ dberrors \in 0..MaxDbErrors

Init ==
  /\ jstatus = [k \in Keys |-> "absent"]
  /\ attempts = [k \in Keys |-> 0]
  /\ locked_by = [k \in Keys |-> NoWorker]
  /\ due = [k \in Keys |-> FALSE]
  /\ stale = [k \in Keys |-> FALSE]
  /\ created = [k \in Keys |-> 0]
  /\ dead_letters = [k \in Keys |-> 0]
  /\ wstate = [w \in Workers |-> "idle"]
  /\ wjob = [w \in Workers |-> NoJob]
  /\ conn = [w \in Workers |-> "ok"]
  /\ downs = 0 /\ overruns = 0 /\ dberrors = 0

-----------------------------------------------------------------------------
(***************************************************************************)
(* The methods of JobQueue                                                 *)
(***************************************************************************)

\* The jobs inserted so far; the next created_at is later than all of theirs.
Inserted == {k \in Keys : jstatus[k] # "absent"}

\* Mutant: ON CONFLICT DO UPDATE SET status = 'queued'.
Mutant_enqueue(k) ==
  /\ jstatus' = [jstatus EXCEPT ![k] = "queued"]
  /\ due' = [due EXCEPT ![k] = TRUE]
  /\ created' = IF jstatus[k] = "absent"
                THEN [created EXCEPT ![k] = Cardinality(Inserted)]
                ELSE created
  /\ UNCHANGED <<attempts, locked_by, stale, dead_letters>>

\* INSERT ... ON CONFLICT DO UPDATE with a no-op: an existing row is returned
\* unchanged, whatever its status.
enqueue(k) ==
  IF jstatus[k] = "absent"
  THEN /\ jstatus' = [jstatus EXCEPT ![k] = "queued"]
       /\ due' = [due EXCEPT ![k] = TRUE]
       /\ created' = [created EXCEPT ![k] = Cardinality(Inserted)]
       /\ UNCHANGED <<attempts, locked_by, stale, dead_letters>>
  ELSE UNCHANGED jobVars

\* Mutant: the subselect forgets status='queued'.
Mutant_Claimable == {k \in Keys : jstatus[k] \in {"queued", "running"} /\ due[k]}

Claimable == {k \in Keys : jstatus[k] = "queued" /\ due[k]}

\* The oldest queued job that is due becomes the worker's, in one UPDATE.
claim_next(w, k) ==
  /\ k \in Claimable
  /\ \A other \in Claimable : created[k] <= created[other]
  /\ jstatus' = [jstatus EXCEPT ![k] = "running"]
  /\ locked_by' = [locked_by EXCEPT ![k] = w]
  /\ stale' = [stale EXCEPT ![k] = FALSE]
  /\ UNCHANGED <<attempts, due, created, dead_letters>>

\* UPDATE jobs SET status='done' WHERE id = job_id: neither the status nor
\* locked_by is tested, and the lock columns are left as they are.
complete(k) ==
  /\ jstatus' = [jstatus EXCEPT ![k] = "done"]
  /\ UNCHANGED <<attempts, locked_by, due, stale, created, dead_letters>>

\* Mutant: attempts > max_attempts instead of >=.
Mutant_fail_late(k) ==
  /\ attempts' = [attempts EXCEPT ![k] = @ + 1]
  /\ IF attempts[k] >= MaxAttempts[k]
     THEN /\ dead_letters' = [dead_letters EXCEPT ![k] = @ + 1]
          /\ jstatus' = [jstatus EXCEPT ![k] = "dead"]
          /\ UNCHANGED <<locked_by, due, stale>>
     ELSE /\ jstatus' = [jstatus EXCEPT ![k] = "queued"]
          /\ due' = [due EXCEPT ![k] = FALSE]
          /\ locked_by' = [locked_by EXCEPT ![k] = NoWorker]
          /\ stale' = [stale EXCEPT ![k] = FALSE]
          /\ UNCHANGED dead_letters
  /\ UNCHANGED created

\* Mutant: every failure is copied to dead_letters, also one that is retried.
Mutant_fail_letters(k) ==
  /\ attempts' = [attempts EXCEPT ![k] = @ + 1]
  /\ dead_letters' = [dead_letters EXCEPT ![k] = @ + 1]
  /\ IF attempts[k] + 1 >= MaxAttempts[k]
     THEN /\ jstatus' = [jstatus EXCEPT ![k] = "dead"]
          /\ UNCHANGED <<locked_by, due, stale>>
     ELSE /\ jstatus' = [jstatus EXCEPT ![k] = "queued"]
          /\ due' = [due EXCEPT ![k] = FALSE]
          /\ locked_by' = [locked_by EXCEPT ![k] = NoWorker]
          /\ stale' = [stale EXCEPT ![k] = FALSE]
  /\ UNCHANGED created

\* Mutant: a failed job is given the status 'failed' that the table allows.
Mutant_fail_status(k) ==
  /\ attempts' = [attempts EXCEPT ![k] = @ + 1]
  /\ jstatus' = [jstatus EXCEPT ![k] = "failed"]
  /\ UNCHANGED <<locked_by, due, stale, created, dead_letters>>

\* One more attempt; the last one is copied to dead_letters (the lock columns
\* stay), any other is queued again with a backoff.  Nothing is tested here
\* either: the row is found by id alone.
fail(k) ==
  /\ attempts' = [attempts EXCEPT ![k] = @ + 1]
  /\ IF attempts[k] + 1 >= MaxAttempts[k]
     THEN /\ dead_letters' = [dead_letters EXCEPT ![k] = @ + 1]
          /\ jstatus' = [jstatus EXCEPT ![k] = "dead"]
          /\ UNCHANGED <<locked_by, due, stale>>
     ELSE /\ jstatus' = [jstatus EXCEPT ![k] = "queued"]
          /\ due' = [due EXCEPT ![k] = FALSE]
          /\ locked_by' = [locked_by EXCEPT ![k] = NoWorker]
          /\ stale' = [stale EXCEPT ![k] = FALSE]
          /\ UNCHANGED dead_letters
  /\ UNCHANGED created

\* Mutant: the reaper leaves out jobs that have used up their attempts.
Mutant_StaleLocks ==
  {k \in Keys : jstatus[k] = "running" /\ stale[k] /\ attempts[k] + 1 < MaxAttempts[k]}

StaleLocks == {k \in Keys : jstatus[k] = "running" /\ stale[k]}

\* Every running job with a stale lock is queued again in one UPDATE, at once
\* (run_after is kept, and it is past) and with one more attempt, however many
\* it has had.
reap_stale_locks ==
  /\ StaleLocks # {}
  /\ jstatus' = [k \in Keys |-> IF k \in StaleLocks THEN "queued" ELSE jstatus[k]]
  /\ attempts' = [k \in Keys |-> IF k \in StaleLocks THEN attempts[k] + 1 ELSE attempts[k]]
  /\ locked_by' = [k \in Keys |-> IF k \in StaleLocks THEN NoWorker ELSE locked_by[k]]
  /\ stale' = [k \in Keys |-> IF k \in StaleLocks THEN FALSE ELSE stale[k]]
  /\ UNCHANGED <<due, created, dead_letters>>

-----------------------------------------------------------------------------
(***************************************************************************)
(* run_one_job and the worker's main thread                                *)
(***************************************************************************)

\* Some component inserts a job: the API, a handler, or a retry of either.
Enqueue(k) == enqueue(k) /\ UNCHANGED <<workerVars, faultVars>>

Claim(w) ==
  /\ wstate[w] = "idle"
  /\ \E k \in Keys : claim_next(w, k) /\ wjob' = [wjob EXCEPT ![w] = k]
  /\ wstate' = [wstate EXCEPT ![w] = "claimed"]
  /\ UNCHANGED <<conn, faultVars>>

\* _set_tenant runs before the try block.  On a handler connection whose last
\* transaction failed and was never rolled back it raises, which ends the
\* poll loop with the job still 'running'; otherwise the handler starts.
SetTenant(w) ==
  /\ wstate[w] = "claimed"
  /\ wstate' = [wstate EXCEPT ![w] = IF conn[w] = "aborted" THEN "died" ELSE "running"]
  /\ UNCHANGED <<jobVars, wjob, conn, faultVars>>

HandlerReturns(w) ==
  /\ wstate[w] = "running"
  /\ wstate' = [wstate EXCEPT ![w] = "returned"]
  /\ UNCHANGED <<jobVars, wjob, conn, faultVars>>

\* The handler raises an error of its own (also: no handler registered).
HandlerRaises(w) ==
  /\ wstate[w] = "running"
  /\ wstate' = [wstate EXCEPT ![w] = "raised"]
  /\ UNCHANGED <<jobVars, wjob, conn, faultVars>>

\* The handler raises because a statement failed: its transaction is aborted
\* and neither the handler nor run_one_job rolls it back.
HandlerHitsDbError(w) ==
  /\ wstate[w] = "running"
  /\ dberrors < MaxDbErrors
  /\ dberrors' = dberrors + 1
  /\ wstate' = [wstate EXCEPT ![w] = "raised"]
  /\ conn' = [conn EXCEPT ![w] = "aborted"]
  /\ UNCHANGED <<jobVars, wjob, downs, overruns>>

Complete(w) ==
  /\ wstate[w] = "returned"
  /\ complete(wjob[w])
  /\ wstate' = [wstate EXCEPT ![w] = "idle"]
  /\ wjob' = [wjob EXCEPT ![w] = NoJob]
  /\ UNCHANGED <<conn, faultVars>>

Fail(w) ==
  /\ wstate[w] = "raised"
  /\ fail(wjob[w])
  /\ wstate' = [wstate EXCEPT ![w] = "idle"]
  /\ wjob' = [wjob EXCEPT ![w] = NoJob]
  /\ UNCHANGED <<conn, faultVars>>

\* The main thread of any live process reaps, on every poll interval.
Reap ==
  /\ \E w \in Workers : Alive(w)
  /\ reap_stale_locks
  /\ UNCHANGED <<workerVars, faultVars>>

\* SIGTERM: the loop tests the request between jobs, never inside one.
Shutdown(w) ==
  /\ wstate[w] = "idle"
  /\ downs < MaxDowns
  /\ downs' = downs + 1
  /\ wstate' = [wstate EXCEPT ![w] = "stopped"]
  /\ UNCHANGED <<jobVars, wjob, conn, overruns, dberrors>>

\* The process is killed, at any point of run_one_job.
Crash(w) ==
  /\ Alive(w)
  /\ downs < MaxDowns
  /\ downs' = downs + 1
  /\ wstate' = [wstate EXCEPT ![w] = "crashed"]
  /\ wjob' = [wjob EXCEPT ![w] = NoJob]
  /\ UNCHANGED <<jobVars, conn, overruns, dberrors>>

\* The process is started again, with new connections.
Restart(w) ==
  /\ ~Alive(w)
  /\ wstate' = [wstate EXCEPT ![w] = "idle"]
  /\ conn' = [conn EXCEPT ![w] = "ok"]
  /\ UNCHANGED <<jobVars, wjob, faultVars>>

-----------------------------------------------------------------------------
(***************************************************************************)
(* The clock                                                               *)
(***************************************************************************)

BackoffElapses(k) ==
  /\ jstatus[k] = "queued"
  /\ ~due[k]
  /\ due' = [due EXCEPT ![k] = TRUE]
  /\ UNCHANGED <<jstatus, attempts, locked_by, stale, created, dead_letters,
                 workerVars, faultVars>>

\* The worker that took the lock is still busy with the job.
HolderBusy(k) == \E w \in Workers : locked_by[k] = w /\ Busy(w) /\ wjob[w] = k

\* stale_after passes since locked_at.  If the holder is still at work it has
\* overrun its lock, of which there are at most MaxOverruns.
LockGoesStale(k) ==
  /\ jstatus[k] = "running"
  /\ ~stale[k]
  /\ HolderBusy(k) => overruns < MaxOverruns
  /\ overruns' = IF HolderBusy(k) THEN overruns + 1 ELSE overruns
  /\ stale' = [stale EXCEPT ![k] = TRUE]
  /\ UNCHANGED <<jstatus, attempts, locked_by, due, created, dead_letters,
                 workerVars, downs, dberrors>>

-----------------------------------------------------------------------------

WorkerStep(w) ==
  \/ Claim(w) \/ SetTenant(w) \/ HandlerReturns(w) \/ HandlerRaises(w)
  \/ HandlerHitsDbError(w) \/ Complete(w) \/ Fail(w)

Next ==
  \/ \E k \in Keys : Enqueue(k) \/ BackoffElapses(k) \/ LockGoesStale(k)
  \/ \E w \in Workers : WorkerStep(w) \/ Shutdown(w) \/ Crash(w) \/ Restart(w)
  \/ Reap

Spec == Init /\ [][Next]_vars

\* The poll loop keeps going, handlers end, clocks advance, the reaper runs on
\* every interval and a process that went down is started again.  Nothing
\* obliges anyone to enqueue, to stop, to crash or to hit a database error.
Fairness ==
  /\ \A w \in Workers :
        /\ WF_vars(Claim(w)) /\ WF_vars(SetTenant(w))
        /\ WF_vars(HandlerReturns(w) \/ HandlerRaises(w) \/ HandlerHitsDbError(w))
        /\ WF_vars(Complete(w)) /\ WF_vars(Fail(w)) /\ WF_vars(Restart(w))
  /\ \A k \in Keys : WF_vars(BackoffElapses(k)) /\ WF_vars(~HolderBusy(k) /\ LockGoesStale(k))
  /\ WF_vars(Reap)

FairSpec == Spec /\ Fairness
-----------------------------------------------------------------------------
(***************************************************************************)
(* Properties.  Those that say "unless a worker has overrun its lock" are  *)
(* about deployments where every handler ends within stale_after: complete *)
(* and fail do not test who holds the lock, so an overrun breaks them.     *)
(***************************************************************************)

Finished == {"done", "dead"}

\* Mutual exclusion of handlers: unless a worker has overrun its lock, no two
\* workers are ever inside run_one_job with the same job, whatever crashes,
\* restarts and reaping happen in between (claim_next's SKIP LOCKED claim
\* together with the reaper's stale_after).
ExclusiveHandling ==
  overruns = 0 =>
    \A v, w \in Workers : Busy(v) /\ Busy(w) /\ wjob[v] = wjob[w] => v = w

\* What makes it so: a busy worker's job is running, locked by that worker, and
\* not stale.  (Inductive together with TypeOK; ExclusiveHandling is not.)
LockHeld ==
  overruns = 0 =>
    \A w \in Workers :
      Busy(w) => /\ jstatus[wjob[w]] = "running"
                 /\ locked_by[wjob[w]] = w
                 /\ ~stale[wjob[w]]

\* A busy worker's job has a row.  (What LockHeld says of it may fail after an
\* overrun; this may not.)
JobsExist == \A w \in Workers : Busy(w) => jstatus[wjob[w]] # "absent"

\* Dead-letter accounting: unless a worker has overrun its lock, a job is dead
\* exactly when it has a dead_letters row, it never has a second one, and no
\* job is given up before max_attempts attempts are counted.
DeadLetteredOnce ==
  overruns = 0 =>
    \A k \in Keys :
      /\ dead_letters[k] = IF jstatus[k] = "dead" THEN 1 ELSE 0
      /\ jstatus[k] = "dead" => attempts[k] >= MaxAttempts[k]

\* Unless a worker has overrun its lock, a job that is done or dead stays so:
\* no reaping, late fail() or repeated enqueue() brings it back to life.
FinishedIsFinal ==
  [][\A k \in Keys :
        overruns = 0 /\ jstatus[k] \in Finished => jstatus'[k] = jstatus[k]]_vars

\* fail() and reap_stale_locks() both count attempts.  Past max_attempts every
\* further count is owed to a fault: one for a process that went down or a
\* thread that died, at most two for an overrun (the reaper and the late fail).
AttemptsPaidFor ==
  \A k \in Keys : attempts[k] <= MaxAttempts[k] + downs + dberrors + 2 * overruns

\* Every enqueued job is eventually done or dead, in spite of crashes, thread
\* deaths and overruns, as long as one poll loop survives: nothing is stranded
\* in 'running' (db.py:210).
EveryJobEnds ==
  \A k \in Keys : jstatus[k] = "queued" ~> jstatus[k] \in Finished

-----------------------------------------------------------------------------
(***************************************************************************)
(* What the documentation says and the code does not do                    *)
(***************************************************************************)

\* main.py:130: "a handler's own exception must feed the retry/dead-letter
\* system, not crash the worker process".  So no poll loop ends by an exception.
PollLoopSurvives == \A w \in Workers : wstate[w] # "died"
=============================================================================
