# Trident Oracle in TLA+

Trident Oracle reads supplier invoices, matches them with purchase orders and
goods receipts, and posts them by itself or asks people, who follow and steer it in
a web client. This directory holds TLA+ models of the parts of it where order,
retries, crashes and answers that come late matter, the TLC
configurations that check them on small instances, and TLAPS proofs of what can
be shown for every instance. All paths below are relative to the repository.

    tlc -workers 2 -config MCJobQueue.cfg MCJobQueue     # a run
    tlapm JobQueueProofs.tla                             # the proofs

`PROJECT.json` lists the runs, the lines each definition stands for, the hazards
and the findings. Definitions called `Mutant_...` are plausible bugs; put in the
place of the definition they resemble, each breaks the property that
`PROJECT.json` names for it. No specification uses them.

## 1. Inventory

### Components

| Component | State | Operations | Modelled in |
|---|---|---|---|
| Invoice state machine (`packages/core/core/state_machine.py`) | `invoices.status` | `validate_transition` | `InvoiceLifecycle` |
| Job queue (`apps/worker/worker/db.py`) | table `jobs`, table `dead_letters` | `enqueue`, `claim_next`, `complete`, `fail`, `reap_stale_locks` | `JobQueue` |
| Worker (`apps/worker/worker/main.py`) | poll-loop thread, its two connections, the reaper in the main thread | `run_one_job`, shutdown | `JobQueue` |
| Extract handler (`extract_handler.py`) | the invoice, its lines, confidences | one small transaction after another | `Pipeline` |
| Match handler (`match_handler.py`) | `match_runs`, line matches, exceptions, decision, tokens | the same, about ten of them | `Pipeline` |
| Decision (`packages/core/core/decision.py`, `policy.py`) | none | `decide` | `Decision` |
| Approvals (`apps/api/api/approvals.py`, `match_view.py`) | `approval_requests`, `match_exceptions`, the invoice | issue, redeem, decide, expire | `Approvals` |
| Verification (`apps/api/api/verification.py`) | the invoice's fields | `correct_field`, `rerun_match` | `Pipeline` |
| Ingestion (`ingest.py`, `webhooks.py`) | `invoices`, object store | upload, dedupe | `Upload`; one step of `Pipeline` |
| PO and vendor linking (`demo/link_po.py`) | `invoices.vendor_id` | run by hand | `Pipeline` |
| Notify handler and notifiers | `notification_deliveries` | send, retry, short-circuit | only that a `notify` job returns or raises |
| Pipeline events (`events.py`, migration 0022) | a LISTEN connection, a queue per subscriber | trigger, publish, subscribe, send | `PipelineBoard` |
| Pipeline board (`pipeline-events.ts`, `pipeline-board.tsx`) | the event stream, cards, transitions, `visibleIds` | snapshot, event, render, remove | `PipelineBoard` |
| Upload dropzone (`upload-dropzone.tsx`) | `state` | `upload` | `Upload` |
| Match board (`match-board.tsx`) | the view, the decision, the rows on the screen | load, entrance, `handleDecide` | `MatchBoard` |
| Verification screen (`verify-page-client.tsx`, `editable-value.tsx`) | the invoice, an editor per field | load, edit, save, re-run | `VerifyPage` |
| Document viewer (`document-viewer.tsx`, `pdf-page.tsx`) | the document, drawn pages | load, cancel, draw | `DocumentViewer` |
| Exceptions page | the list, the selection, what is being resolved | filter, select, resolve, resolve all | `ExceptionsPage` |
| Invoices page | the query in the URL, the list | filter, sort, page, open | `InvoicesPage` |
| Analytics page | the period, its numbers | choose, load | `AnalyticsPage` |
| Benchmarks page | the runs, two selections, their details | choose, load | `BenchmarksPage` |
| Read views of the API (`invoices_list.py`, `exceptions_view.py`, ...) | none | the lists and `resolve_exception` | as far as the pages see them |
| Matching engine (`packages/core/core/matching`) | none | pure functions | no |
| Rate limits (`ratelimit.py`, twice) | token buckets, slot times | `acquire` | no |
| Extractors and fallback | none | primary, then fallback | outcome only |
| Tenant isolation, evaluation, seeds, widgets and charts, layout helpers | | | no |

### How they interact

The API and the workers share a database and nothing else. `ingest_invoice` writes
an invoice and an `extract` job in one transaction. A worker claims the job
through one connection and runs the handler on another; the extract handler
enqueues `match`, the match handler enqueues `notify` once per approver, a
redeemed token enqueues `post` (for which no handler exists). A re-run request
changes the invoice's status and enqueues a second kind of `match` job. The only
things that coordinate these processes are the UNIQUE idempotency key of a job,
`FOR UPDATE SKIP LOCKED` in `claim_next`, the row locks of the approval paths, and
the validation of a status change in Python against a status read earlier.

The web client sees the same database through the API, in two ways. The board
subscribes: a trigger on `invoices` sends a NOTIFY with every committed change of
status, one listener per API process puts it into the queue of every connected
browser, and the browser applies it to the cards of an earlier snapshot. The pages
ask: each keeps the last answer it got in React state, sends requests whose
continuations run whenever the answers arrive, and holds on to nothing that
identifies which request an answer belongs to.

### What is hard

* Delivery is at least once: a killed worker's job is reaped and run again from
  the top, whereas its handler has committed some of its ten transactions.
* `complete` and `fail` address a row by id and test neither lock nor status.
* A handler validates a status it read without a lock and commits several times
  before it writes the last one; the API writes the same column meanwhile.
* Attempts are counted by two operations and compared with the limit by one.
* An aborted transaction on the handler connection outlives its job.
* Two approval paths lock the invoice and its request rows in opposite orders.
* Tokens and open rows outlive the invoice's settlement.
* Notices are lost with the LISTEN connection, with the event stream, and by a full
  queue, and each loss is silent; a snapshot and the events around it overlap.
* Answers arrive in any order, after the filter, the document or the editor they
  were meant for is gone, and a request that failed for the client may have been
  committed by the server.

### What makes each component correct

* Queue: one handler at a time per job; exactly one dead letter for a dead job;
  attempts accounted for; finished jobs stay finished; every job ends.
* Pipeline: status changes follow the diagram; the audit log is truthful; nothing
  is extracted, issued or paged twice; an invoice is where it is because of its
  recorded decision, and that is what the policy allows; no invoice is left waiting by
  jobs that succeeded.
* Approvals: a consumed row is final; a settled invoice is final; rows, invoice
  and side effects agree; no request waits for ever.
* Board: what is delivered agrees with the rows; cards do not go back; only an
  outcome takes a card away; the board catches up after a fault.
* Pages: what a page shows belongs to what is selected; what it claims to be stored,
  decided or resolved is; a card leaves the queue only when it was resolved; nothing
  spins for ever; a file is in the pipeline once.
* Parts that are not modelled: an assignment of invoice lines to PO lines is
  one-to-one; one message per delivery; at most the configured rate in any window.

`PROJECT.json` "hazards" lists every one of these with the line where it bites.

## 2. Modules

```
InvoiceLifecycle        the state diagram: what everybody promises of invoices.status
  InvoiceLifecycleProofs
JobQueue                the queue and the poll loop; handlers return or raise
  JobQueueProofs, MCJobQueue
Decision                decide(), a pure function
Pipeline                handlers, API and people over JobQueue (extends Decision)
  PipelineProofs        implements JobQueue!Spec; lines are inserted once
  PipelineOwnershipProofs   implements InvoiceLifecycle!Spec; tokens, decisions, audit
  MCPipeline
Approvals               the transactions that settle one pending invoice
  ApprovalsProofs, MCApprovals
PipelineBoard           trigger, listener, subscriber queue, event stream, cards
  PipelineBoardProofs, MCPipelineBoard
Fetches                 requests of the web client: sent, answered or failed, handled
VerifyPage, DocumentViewer, ExceptionsPage, InvoicesPage, AnalyticsPage,
BenchmarksPage          one module per page, over Fetches
MatchBoard              the match screen, and the decisions of others
  MatchBoardProofs
Upload                  the dropzone and ingest_invoice
Pages                   one visit of any of these
  PagesProofs, MCPages
```

### JobQueue

One action per method of class `JobQueue` and per stage of `run_one_job`. A job is
its idempotency key. Every method commits a transaction of its own, so each is
one step; `claim_next` is one UPDATE with a SKIP LOCKED subselect, so one step
too. `jstatus`, `attempts`, `locked_by`, `dead_letters` are columns and rows;
`created` keeps the order of the INSERTs, since `claim_next` takes the oldest.
Timestamps are replaced by what the SQL asks of them: `due` (`run_after <= now()`)
and `stale` (`locked_at < now() - stale_after`), each with an action that makes it
true. `wstate[w]` says where worker `w` is; `died` is the poll thread that ended
on an exception while the process (and its reaper) lives on, `crashed` the killed
process, `stopped` a graceful shutdown. `conn[w]` is the handler connection.

### Pipeline

The same queue (by `INSTANCE JobQueue`), with handlers that do something. Each
commit of `handle_extract` and `handle_match` is one action; `local[w]` holds the
Python locals that survive a commit: the attempts of the claimed row, the status
and the document of the first SELECT, the match result. `Return` and `Raise` are
`run_one_job`'s view of the end of a handler. The actions of the API are
`Ingest`, `CorrectField` (in any status; before extraction it leaves nothing that the
document of the extraction does not cover), `RerunRead` with `RerunWrite` (an unlocked
SELECT and a later UPDATE), and `Settle` (the outcome of `Approvals`). What an invoice
says is a record with three fields, the ones that control flow depends on. The result of
the match is any of the three.

### Approvals

One transaction is a sequence of lock acquisitions followed by one step that
writes and commits. That is faithful because everything a request reads before
it writes is a row it has locked, except the token lookup and the reading of the
clock at its start, which are steps of their own. Redemption locks row, then
invoice; the in-app decision locks invoice, then rows, in any order. A request
that fails, or whose client goes away, releases its locks and changes nothing.

### Decision

`decide` with amounts and confidences as naturals: only their order is tested.

### InvoiceLifecycle

The abstract specification: an invoice appears as RECEIVED and moves along
`ALLOWED_TRANSITIONS`. `Pipeline`'s property `FollowsLifecycle` is this module's
`Spec`. The refinement mapping is the identity on `istatus`.

### PipelineBoard

The way of a status from the row to the screen, as a chain of buffers: `notices`
(committed, not yet read by the listener), `queue` (this browser's, bounded), `wire`
(sent, not yet handled) and then React state. `ChangeStatus` moves along the
diagram of `InvoiceLifecycle`; `EditRow` is a write of the row without a change of status
(`correct_field`, the header an extraction stores), which no trigger sees. A card is its
status and one stamp, `updated_at`, for everything else it carries; every write of the row
moves the stamp on. `Connect` is the endpoint up to its first `await`:
snapshot, then subscription. `Send` adds the card *as it is then*, which is what
makes late events harmless (`CardsOnlyForward`). `ListenBreaks`, `Drop` and `Refused`
are the three faults. `Render` is one React commit with both effects of
`pipeline-board.tsx`; `onRemoved` is the end of the removal timeline. Two history
variables: `lost` (the newest notice of this invoice will not come) and `edited` (the row
was written by an `EditRow` since its card was last read).

### The pages

`Fetches` has the life of a request: sent; answered with what the server said at the
moment it was served, or failed (before or after the server did its part); handled,
when the continuation ran. Answers are handled in any order. Each page module has
`Start` (its `useState` initial values and first effect; a page that is not visited
stays before its mount), one action per event handler up to its first `await`, one
per continuation, one per statement of the server, and the writes of other users.
An effect that depends on a state variable is part of the action that changes it,
since React runs it in the commit; setting state that nobody else reads in between
is part of the same action.

* `VerifyPage`: `EditableValue` copies its value when it is mounted and never looks
  again, so the module has the invoice and an editor per field. Texts are told apart
  by what the column keeps of them: the same, another (rounded), or none (refused).
* `DocumentViewer`: `task` is the load under way, `canvas` the size of each page's
  canvas; a cleanup cancels the load, not the drawing. A drawing that is refused
  (`getPage` or `page.render` rejects, and nobody catches it) leaves its page uncounted.
* `MatchBoard`: `rows` says how the row of a line looks after the entrance and the
  approval timeline, which write styles and not React state. The server's part is the
  invoice's status, the rows and, one by one, its open exceptions. Three things happen
  elsewhere: a decision in the app (`decide_invoice`, all rows needed), a redeemed token
  (`redeem_approval_token`, which settles the invoice alone and closes the exception it
  is about, or all if it is about none) and a clerk's `resolve_exception`, which leaves
  the invoice pending. Row locks make each of them one step.
* `ExceptionsPage`: `exceptions` is the set of the cards on the page; the server lists
  them in one order (`Order`), so that a card's place, on which ranges of the selection
  depend, follows from the set. The bulk action is `doResolve` once per selected id.
* `InvoicesPage`: `query` is the URL; `data` carries the total it came with, from
  which the pager takes its limits.
* `AnalyticsPage` and `BenchmarksPage`: a batch of requests is answered as a whole
  (`Promise.all`); what matters of an answer is which selection it was asked for.
* `Upload`: `ingest_invoice` is four steps, since two processes may both miss the
  row of the other; the unique index makes the second INSERT wait and then fail.

`Pages` composes them as one visit of one page: in the browser they share
nothing, and the server's rows they share are changed by "elsewhere" actions in each.
It extends `MatchBoard`, whose properties it has under their own names, and has the
other pages as instances. `MCPages` gives the constants their values.

## 3. Runs

| Run (cfg) | What varies | States | Shows |
|---|---|---|---|
| `queue` | 2 workers, 2 jobs (2 and 1 attempts), 2 processes down, 1 overrun, 1 database error | 396k | all six properties, `EveryJobEnds` under fairness |
| `pipeline_crash` | 2 workers, 2 approvers, every kind of document, 1 process killed or stopped | 232k | refinement of lifecycle and queue, truthful audit, nothing twice, decisions justified |
| `pipeline_rerun` | 2 workers, 1 correction, 1 re-run, 1 database error | 889k | the same invariants with the API in between |
| `pipeline_live` | 1 worker killed once, 1 re-run, every document, failing extractions | 177k | `StallsOnlyByDeadJobs` under fairness |
| `approvals` | 2 approvers, 1 outsider, 2 redemptions, 1 in-app decision, 2 exceptions | 38k | all six properties, `EveryRequestEnds` under fairness |
| `board` | 2 invoices, opened in 3 statuses, 2 writes (moves or edits), queue of 1, 1 lost or refused stream, 1 lost listener | 403k | cards agree with rows and go forward only, only outcomes leave, `CatchesUp` under fairness |
| `pages` | a visit of each page, 2 or 3 requests of each kind, 2 exceptions resolved elsewhere | 129k | the properties of the pages, `PagesComeToRest` under fairness |
| `queue_db_error`, `pipeline_retry`, `pipeline_rerun_lost`, `pipeline_illegal`, `approvals_token` | smallest instance that shows it | | a finding each, section 6 |

The kinds of document in `AllDocuments` are one per branch of the handlers:
posted by itself, one approver (with a total at each of the two thresholds), two
approvers, not trusted, not scored, not valid, incomplete. `DecisionJustified` compares
the outcome with the table of `docs/ARCHITECTURE.md:319-324` (`FollowsTable`), not with
`decide`: a threshold that is strict on the wrong side violates it.

`pipeline_rerun_lost` has a specification of its own, `AskedAfterCorrection`: `Spec` in
which a re-run is asked for only in NEEDS_VERIFICATION, after a correction and with valid
fields, and where no process is lost. An unlinked vendor or a bad document can then not be
what the re-run's job dies of; that it enters MATCHING from MATCHING can.

### Bounds, and why they are enough

* Two workers: every race over a job or an invoice is between two actors (a
  holder and a rival); a third worker only repeats a rival. `pipeline_live` has one
  worker, since a second can only help to make progress; the other pipeline runs
  have the races.
* Two jobs in `queue`: ordering by `created_at` needs two. `MaxAttempts` 2 and 1
  take both branches of `fail`, and the last one first.
* One invoice in `Pipeline`: its actions read and write rows of one invoice only;
  invoices share workers and the queue, which `queue` covers with two jobs.
* `MaxDowns`, `MaxDbErrors`, `MaxOverruns` bound the faults, and are constants of
  the specification. One loss reaches every intermediate status, two in `queue`
  also a loss during the retry. The proofs have no such bound.
* Faults are split between runs because they are independent questions and their
  product is too large: crashes in `pipeline_crash`, corrections and database
  errors in `pipeline_rerun`.
* Two approvers and a requirement of two: the least at which "all required" and
  "one of them" differ. Three requests: a double redemption and a rival path.
* `board`: with a queue of one event, every second event meets a full queue; two
  invoices are needed for an overflow that drops the event of another. One
  transition that the client keeps (`MaxTransitions`) is the boundary case of the
  200 it keeps. One drop and one outage reach every reconnect; two writes (`MaxWrites`)
  give an event before and one after any of them, and an edit on either side of an event. The three opening statuses are one that
  has no row, one that has work to come, one a single move from an outcome.
* `pages`: what races is an answer with a newer answer or with an event, so that
  two or three requests of a kind suffice. One field in `VerifyPage`: fields share
  the invoice object only, which every save rebuilds from the newest. Two cards
  and three clicks in `ExceptionsPage`: one card in a range and in the bulk action
  at once. Two pages of one row in `InvoicesPage`. Three approvers in `MatchBoard`
  are the least at which two others may decide, in either way, before and after this
  one; a line as ordered, one with a blocking exception and a milder one, which may be
  resolved in either order, and one on no order. Three uploads of two files in `Upload`: two of one file
  and a third of the same, or of the other. These bounds are in `MCPages.cfg`.
* `CHECK_DEADLOCK FALSE` is set where the system comes to rest: an invoice that is
  settled, requests that have been answered. `queue` is checked for deadlock.

`WorkerSymmetry` is used only in runs without liveness properties.

### Fairness

`JobQueue!Fairness`: the poll loop runs on, handlers end (they call services with
timeouts), clocks advance so that backoffs elapse and abandoned locks go stale,
the main thread of a live process reaps on every interval, and a process that
went down is started again (the container's supervisor). A stale lock under a
*live* worker is not fair: it is a fault. All are weak fairness: no action is
disabled and enabled again for ever by another one it competes with, and the
checks agree. `Pipeline!Fairness` is the same for the handler's steps; people, the
API and the linking script owe nothing. `Approvals!FairSpec`: a transaction that
has begun goes on, PostgreSQL grants a free lock and breaks deadlocks. Nobody has
to approve anything.

`PipelineBoard!FairSpec`: the listener reads and reconnects (`listen_for_events` loops
with a delay), the endpoint sends, the browser retries, handles messages and
renders, animations end. Statuses need not change and faults need not happen. In
`pages`, `Proceed` of the visited page is weakly fair: a request is answered or fails
(the browser gives up at last), and a continuation in the microtask queue runs.
Nobody has to click. One weak fairness for all of a page's continuations is enough
because each of them runs at most once per request and requests are bounded.

### Conditions the properties need

* `ExclusiveHandling`, `DeadLetteredOnce` and `FinishedIsFinal` are claimed as long as
  no handler has outlived `stale_after`. `complete` and `fail` do not test who holds
  the lock, so an overrun breaks each of them; the default of ten minutes makes
  overruns rare, not impossible. `AttemptsPaidFor` and `EveryJobEnds` hold with them.
* The pipeline's properties are claimed without overruns and with at most one
  re-run request per invoice: two can both pass their check in
  NEEDS_VERIFICATION, and then two handlers decide side by side. So can one re-run and
  the retry of the first match, when a process is killed after that match returned and
  before `complete`: the runs have the re-run and the killed process apart, and only
  `StallsOnlyByDeadJobs` is checked of both together.
* `FollowsLifecycle`, `UsesQueueAsSpecified` and `AuditTruthful` are claimed without
  re-runs (with one, see finding 4).
* `EveryJobEnds` and `StallsOnlyByDeadJobs` need a surviving poll loop, so fewer database
  errors than workers.
* `StallsOnlyByDeadJobs` is not "no invoice stalls". It says that an invoice that waits for
  a worker comes to rest unless the very job its status waits for is dead: no crash and no
  race leaves it waiting beside jobs that all succeeded. When that job is dead the invoice
  *is* stuck "forever, silently, with no user-visible error" (`match_handler.py:625-628`, of
  one such case that was mended): the delivery panel of the analytics page shows how many
  dead letters there are (`analytics_view.py:414`), no screen shows which invoice.
  Incomplete documents, unlinked vendors, crashes in mid-handler (the retry cannot re-enter)
  and findings 2 and 3 all end there.
* `DecisionJustified` compares the decision with the fields only while nothing has been
  corrected: a correction changes the rows under a decision that was taken.
* `CardsAgree` exempts an invoice whose newest notice was lost (full queue, broken
  listener) until the next snapshot: nothing in the code repairs it earlier. A card
  of an invoice that reached POSTED, REJECTED or AUTO_POSTED must agree if it is
  there, and need not be there. Of a row written without a change of status the card must
  have the status only, until the next event or snapshot (section 6). `CatchesUp` exempts a stream that was closed for good.
* `ListsFollowTheUrl` and `DashboardsAgree` are claimed when the newest answer was the
  last to arrive: no page compares an answer with what is selected by then (section 6).
* The proofs of `TokensIssuedOnce`, `TokensMeanPending`, `DecisionJustified`,
  `FollowsLifecycle` and `AuditTruthful` suppose `Undisturbed`: no lock has been overrun
  and no re-run has been *written* so far. Requests that were only read, corrections,
  crashes, retries and database errors are all in. What a re-run may do after it was
  written is left to the run `pipeline_rerun`.
* `ShowsTheSubject` is about documents that load; a failed load leaves the old one. A page
  whose drawing was refused stays without its boxes, and the viewer no longer waits for it.
* One poll thread per process (`WORKER_CONCURRENCY`, default 1). More threads are
  more workers, except that they share a crash.

## 4. Proofs

Every safety property and action property that a passing run checks is a theorem too, some
of them under the conditions of section 3; what is left to TLC is at the end of this
section. Each theorem below is about every
value of the constants, under the named assumptions of the module, which TLC evaluates
in the runs.

Assumptions about the queue: `ConstantsAssumption` (the two null values are none of the workers and
jobs, limits are naturals, every `max_attempts` is at least 1) and `KeysFinite`.

`JobQueueProofs`, for any workers, jobs, limits and numbers of faults:

* `TypeCorrect`: `Spec => []TypeOK`.
* `LockIsHeld`: unless a lock was overrun, a worker inside `run_one_job` holds, on a
  running job, a lock that is its own and not stale. This is the inductive
  invariant. `ExclusiveHandling` alone is not inductive: it does not exclude a
  state in which a worker is busy with a job that is queued, which another could
  claim. `LockHeld` says why it cannot happen: the reaper takes stale locks only,
  `claim_next` queued rows only, and a row has one `locked_by`.
* `HandlingIsExclusive`: from `LockHeld`, since two busy workers with the same job
  would both be its `locked_by`.
* `DeadLettersAreExact`, `FinishedJobsAreFinal`: from `LockHeld`, since `complete` and
  `fail`, which test nothing, then meet running jobs only.
* `AttemptsArePaidFor` (`AttemptsPaidFor`), overruns included. A bound on the count alone
  is not inductive, since the next `fail` or reap may add to it. `AccountsBalance` counts
  what is still owed besides: one attempt for each worker in the job (its `fail`), one
  for a queued job, two for a running one whose lock is stale or nobody's (the reaper and
  the claim after it), one for each poll loop about to die on an aborted connection.
  What is counted and owed together is at most `max_attempts` and the faults so far.

`PipelineProofs`, for any invoices, documents, policies, workers, requests and faults
(assumptions `PipelineAssumption`; `WorkersAssumption`, which is `ConstantsAssumption` for the
jobs there are here; `InvoicesFinite`):

* `TypeCorrect`, from `WellTyped`: the queue's types, those of the rows and of the handlers'
  locals, and that a job that exists is about an invoice that exists.
* `ImplementsQueue` (`UsesQueueAsSpecified`): every step of a handler, of the API or of a
  worker is a step of `JobQueue` or leaves the queue alone (`QueueStep`, one case per action).
  So the theorems of `JobQueueProofs` hold here, and `LockHeld` is carried over: unless a
  lock was overrun no two workers are in one job (`Exclusive`).
* `LinesAreInsertedOnce` (`LinesPersistedOnce`), with re-runs. The invariant `LinesInv` says
  that RECEIVED is left once (`Started`: whoever has read a later status is right that it
  is later) and that only the handler that moved the invoice out of it inserts, when
  nothing has been inserted (`LinesOnce`). A retried `extract` job reads a later status,
  and its transition raises before the lines.

`PipelineOwnershipProofs`, as long as the invoice is `Undisturbed` (no lock overrun, no
re-run written; section 3, Conditions):

* `OwnedAlways`: the inductive invariant `Owned` says for each place in a handler what it
  counts on: which status the invoice has although nothing locks it, which parts of the
  latest match run are there, that the run is the one of this handler, which tokens have
  been issued already and which have not. None of its five parts is inductive alone:
  that a token is issued once rests on the status at the `issue` step, this on the status
  that the same worker validated some commits earlier, and this on there being one worker
  in the job (`Exclusive`) and one job for each status that a handler waits in.
* `LiveTokensMeanPending`, `TokensAreIssuedOnce`, `DecisionsAreJustified`: from `Owned`. The
  last also needs that `decide` follows the table (`DecideFollowsTable`), for any policy.
* `FollowsTheLifecycle`: the refinement of `InvoiceLifecycle!Spec`, step by step. Every write of
  a status is a `_transition` from a status that was read earlier (`StatusWrites`), and
  `Owned` says it is still the status of the row. `AuditIsTruthful`: the same for the audit row.

`ApprovalsProofs`, for any approvers, users, exceptions and requests (assumption
`ApprovalsAssumption`: the null values are no requests, users or exceptions, and the
worker asks at most as many approvers as are required):

* `TypeCorrect`, which includes the local state of the requests.
* `RowsAreGuarded`, the inductive invariant: a row has a decision exactly when it is
  consumed, and a redemption that waits for the invoice has its row locked and
  open. `ConsumedOnce` does not follow from the guards: `RedeemCommit` writes on the
  row without looking at `consumed_at` again, and is right to only because every
  other commit has to lock the rows it consumes.
* `ConsumedRowsAreFinal`, `SettledInvoicesAreFinal`, `OutcomesAgree`,
  `SideEffectsFollowOutcome`: the four safety properties of the run `approvals`. The
  proofs go through `OutcomeSteps`: three kinds of commit decide, and every other
  step leaves the outcome alone.

`InvoiceLifecycleProofs`: `TypeCorrect`; `EdgesGoForward` (a rank on statuses grows along
every edge but one); `OnlyOneWayBack` (the only step back is NEEDS_VERIFICATION to
MATCHING, so every loop of an invoice passes through a human).

`PipelineBoardProofs`, for any invoices, queue and log lengths and numbers of faults
(assumption `PipelineBoardAssumption`: the two lengths are at least 1):

* `BuffersAreTrue`, the inductive invariant: whatever lies in a buffer (notice, event,
  snapshot, card, transition) is not newer than its row, and says that an invoice has
  its outcome only if it has one; and what is hidden or leaving has its outcome. It is
  kept because a status change never leaves an outcome (`NoOutcomeIsLeft`, from the
  edges of the diagram), so nothing that is true in a buffer becomes false there.
* `TypeCorrect`, and `WorkStaysOnTheBoard` (`HidesOnlyOutcomes`): a hidden card alone
  would not be inductive, since the transition that hides it was in four buffers before.
* `BoardAgreesWithRows` (`CardsAgree`, of statuses, and of whole rows where `edited` is
  false). `Delivered` is the end of a long way, so that the
  invariant, `AllCurrent`, follows each row: while the stream is up and nothing was lost, a
  row's newest status is in the notices or the queue, or the last message about it on the
  wire leaves its card as the row is (`LastWord`), or the card is that already and no
  message about it is on the way. "As the row is" is `Shows`, which an edit cannot make
  false (`GoodStaysGoodInEdits`): it sets `edited` and leaves the status alone.
* `CardsMoveForward` (`CardsOnlyForward`), from a second invariant, `InOrder`: no
  message on the wire is older, for any invoice, than the card or than a message before
  it. `Send` keeps it because it reads the row anew: what is read last is newest
  (`ReadsAreNewest`). The order of the *notices* plays no part.

`MatchBoardProofs`, for any approvers, lines and exceptions (assumption
`MatchBoardAssumption`: finitely many approvers, the visitor among them, matched lines
are lines, every exception has a severity and a line or none, and tokens are about a
blocking exception if there is one):

* `AnswersAreBacked`, the inductive invariant: the view on the screen, the view being
  loaded and the answer to a decision, each served at another moment and handled in any
  order, never exceed what the server has committed by now: an exception that is open now
  was open in every view there is, since none is ever opened again, whoever closed the
  others; a final status stays; approvals only grow. `NeverClaimsTooMuch` speaks of what is shown only; what is still on
  the way must be bounded too.
* `ClaimsAreTrue`, and `DecisionIsFinal`, which needs neither the assumption nor `ClaimsInv`.
* `ClicksAreAnswered` (`ClickIsAnswered`): the approval timeline runs only after an answer was
  shown, so that its end may release the buttons (`TimelineHasDecision`).
* `RowsBecomeVisible` (`RowsAreShown`): until a second load is asked for, rows come blank
  only together with their entrance (`FirstEntrance`). `TypesAreKept`.

`PagesProofs`, for any numbers of requests, fields, rows, cards, runs, urls and files, and
any values (assumptions, one for each page: bounds are naturals; `VerifyAssumption`: what the
column keeps of a text it keeps as it is, and some text is such; `ViewerAssumption`: urls
are numbered from 1; `ExceptionsAssumption` and `BenchmarksAssumption`: lists are of their
elements). Each page has an inductive invariant, a lemma that a visit starts in it
(`...Init`) and one that each of its steps keeps it (`...Step`); `OnlyTheVisited` says that a
step of a visit is one of one page. `PagesKeepTheirInvariants` puts them together, and the
properties follow:

* `PagesAreTyped` (`PagesTypeOK`).
* `ClaimsStand`, and `MatchScreenIsVisited`: a visit of the match screen is a behaviour of
  `MatchBoard!Spec`, so that `DecisionIsFinal` and `ClicksAreAnswered` hold of it.
* `ListsAreOfTheUrl`, `DashboardsAreOfTheSelection`: `Fetched` has the types of a page's requests
  and that they are sent in their order; `Follows` says that the newest one, until it is
  handled, asks for what is selected, and that an answer to it on the page is of the
  selection. Both are lemmas about requests (`FollowsSend`, `FollowsChange`, `FollowsArrive`)
  used by three pages. The benchmarks page sends two requests per selection; that they have the
  same numbers (`SameSent`) is part of its invariant. In the analytics page a batch takes
  the place of a request (`NewestBatch`).
* `CorrectionsAreShown` (`CorrectionsStand`), from `VerifyInv`: what counts as corrected in the
  invoice, or in an answer that is still on the way, is committed (`Confirmed`); an
  acknowledged text is the stored one both in the invoice and in its editor
  (`Acknowledged`), which needs that editors exist exactly while the panel does and that
  a save whose editor is gone is an orphan (`Mounted`).
* `SubjectIsShown` (`ShowsTheSubject`): documents of urls that have not come are not fetched, and
  the canvas and task of each page are about the document that is shown (`ViewerInv`).
* `CardsLeaveWhenResolved` (`OnlyResolvedLeave`), `SettlementsAreFinal` (`SettlementStands`): action
  properties, both in `QueueStep`. A card leaves by `Resolved` only, whose request was
  answered as resolved, and such a row is this clerk's (`QueueRows`).
* `FilesAreTakenOnce` (`OneInvoicePerFile`), from `IndexIsHeld`: of one file at most one upload
  is between INSERT and COMMIT, and none when a row is committed. The uploads that passed
  `find_by_content_hash` together are harmless only because of it.

Only model-checked: liveness, which needs fairness and ENABLED, out of the prover's
reach: `EveryJobEnds`, `StallsOnlyByDeadJobs`, `EveryRequestEnds`, `CatchesUp` and `PagesComeToRest`.
And what a re-run does once it is written: `TokensIssuedOnce` and `DecisionJustified` with
one re-run are checked by `pipeline_rerun`; their proofs stop before it. (`TypeOK`,
`UsesQueueAsSpecified` and `LinesPersistedOnce` are proved with re-runs.)

## 5. Abstractions

* Business data is what control flow distinguishes. `decide` is exact over it.
* The database is strict about what it promises at READ COMMITTED: a statement is
  atomic, a commit is atomic, a row lock excludes. A failed commit is a database
  error of the handler.
* Failures of the queue's own connection are left out: they end the thread in the
  same way as an aborted handler connection (`died`).
* Row-level security, tenants: every model is about one tenant.
* `rerun_match` and `ingest_invoice` insert their jobs within the API's transaction;
  the handlers insert theirs through the queue's connection, in one of their own.
* The web client: a React commit and its effects are one step; geometry, colours,
  texts and durations are left out, and animations only begin and end. Clicks on a
  card that is fading out are left out. The server statements behind a list
  (`list_invoices` counts and selects separately) are read as one.
* The filters of the exceptions page other than the status only narrow the list;
  the detail of aggregates (analytics, benchmarks) is an opaque answer.

### Not modelled

Matching (`core/matching`): pure functions on one invoice, whose hard part is
arithmetic on decimals and string similarity. Rate limits: time arithmetic under one
lock. Extractors, OCR, parsing and notifiers: I/O and text. The notify handler's
deliveries, and the webhook's partial batches: left for the plan below. Row-level
policies: static. Seeds and the evaluation tool: one process, no shared state.
Widgets and charts: they draw what they are given.

## 6. Where code and text disagree

Each is a run in which TLC finds the shortest behaviour.

1. `queue_db_error`: a failed SQL statement in a handler leaves the connection in an
   aborted transaction; `_set_tenant`, outside the try block, raises for the next
   job and the poll loop ends with that job `running`.
2. `pipeline_retry`: a failed extraction leaves EXTRACTING, from which EXTRACTING
   cannot be entered; all retries fail at once.
3. `pipeline_rerun_lost`: `rerun_match` moves the invoice to MATCHING itself, so the
   handler's own transition to MATCHING is illegal: the job of a corrected, valid and linked
   invoice fails until it is dead, and the invoice stays in MATCHING.
4. `pipeline_illegal`: `rerun_match` validates a status read without a lock, and may
   overwrite a later one, for instance PENDING_APPROVAL.
5. `approvals_token`: one redeemed token settles an invoice that needs two approvals.

Noticed while modelling, described by the modules and not given a run:

* `reap_stale_locks` counts an attempt and never compares it with `max_attempts`
  (`db.py:216`); `docs/ARCHITECTURE.md:398-400` says it counts toward the limit.
* `decide_invoice` does not look at `expires_at` (`match_view.py:303`), which
  `0007_approvals.sql:26-28` leaves to the application to check.
* Board: a card carries number, amount, vendor and `updated_at` (`db.py:229-251`), but the
  trigger of migration 0022 is on the status only. A clerk's correction, or the header that
  an extraction stores, reaches no open board before the next change of status or the next
  snapshot. An invoice that is AUTO_POSTED between snapshot and subscription, or while
  its notice is queued, gets its card back from a late event although a snapshot
  leaves it out; cards that a second snapshot brings with another status are not
  moved, as only transitions move them (`pipeline-board.tsx:99-102`); APPROVED is not
  among the statuses a snapshot leaves out (`db.py:226`, docstring 254-262); after an
  answer that is not 200 the stream is closed and the board says "reconnecting" for
  good.
* Match board: rows are drawn transparent and the entrance runs once
  (`match-board.tsx:93`, `line-row.tsx:48-49`), so after the error page and "Retry" they
  stay so; connectors keep the tones of the first view. A token closes only the exception
  it is about (`approvals.py:285-300`), so that an APPROVED invoice may have open ones; an
  approval in the app that is not the last is recorded, and answered "pending", although
  a token has settled the invoice (`match_view.py:369-376`: the status is checked only when the row
  settles the invoice).
* Verification: when two saves of a field are under way, one of them from before the error
  page, the answer to the earlier one may come last; it puts the older text into the
  invoice, and the panel that "Retry" mounts shows it as stored
  (`verify-page-client.tsx:78-84`). An editor keeps what was typed although the column rounded it; a save
  that ends after its editor was replaced leaves the new one behind; an older load
  reverts the invoice; failed saves are not reported; "Re-run" is possible while saves
  are under way; a row takes Space and Enter from the editor inside it
  (`field-row.tsx:45-50`).
* Document viewer: a page of the old document that is drawn after the file changed
  counts as drawn; a document that fails to load leaves the old one on the screen.
* Exceptions: lists may arrive out of order (`exceptions-url.ts:8-13` promises the
  filter of the URL); a range reads `lastClickedIndexRef` inside a state updater, which
  may run after the line that moves it (`exceptions-page-client.tsx:63-77`); the same
  card resolved by button and bulk action ends on the error page.
* Invoices: the same for lists, and "Next" trusts the page count of the answer shown.
* Upload: the error of one upload is hidden by the success of a later one; the
  second INSERT of the same bytes is answered 500, not 409.
* Analytics and benchmarks: answers may belong to an earlier selection; after failed
  details "Retry" loads the list again, whose first run is selected already, so that
  the details stay empty.

That nothing sets `vendor_id` after an upload and nothing reaches POSTED is
documented as unbuilt, and is no finding.

## 7. Plan

Done: the queue, the pipeline, approvals, the board and the pages of the web client,
with the proofs of section 4. Next, in this order:

1. The pipeline's theorems beyond `Undisturbed`: with one re-run per invoice and no process
   lost, `Owned` would have a third handler, whose `match` raises at its first
   transition (finding 3) or begins from NEEDS_VERIFICATION alone.
2. `Delivery`: `notify_handler.py` and the notifiers. Deliveries keyed by approver,
   message sent before it is recorded, short-circuit on a `sent` row, retries of the
   job, two invoices sharing a key. Replaces `NotifyEnds` by an instance.
3. `Matching`: `line_matcher.py` and `duplicates.py` as operators over small sets of
   lines, against a reference definition (one-to-one, no better pair left over).
4. The webhook's partial batches in `Upload`.
