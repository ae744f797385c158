------------------------------ MODULE Approvals ------------------------------
(***************************************************************************)
(* The approval of one invoice that has become PENDING_APPROVAL: the       *)
(* worker issues one approval_requests row per approver while, through the *)
(* API, approvers redeem the tokens they were sent (apps/api/api/          *)
(* approvals.py) or decide on the match screen (apps/api/api/match_view.py).*)
(*                                                                         *)
(* Every request is one database transaction.  It takes row locks one      *)
(* after the other; what it writes is read by nobody else before it        *)
(* commits, because readers lock the rows they read, so the writes are one *)
(* step together with the commit.  The row locks, the waiting and the      *)
(* deadlock detector are PostgreSQL's and are modelled from how the code   *)
(* uses them.                                                              *)
(***************************************************************************)
EXTENDS Naturals, FiniteSets

CONSTANTS
  Approvers,       \* users with role 'approver' whom the worker asks
  OtherUsers,      \* users who may decide in the app but have not been asked
  Required,        \* Decision.required_approvers
  Exceptions,      \* the invoice's match_exceptions rows
  Subject,         \* approval_requests.exception_id, or NoException
  NoException,
  Requests,        \* HTTP requests
  RedeemRequests,  \* those of them that redeem a token; the others decide in the app
  NoRequest,       \* a row that nobody has locked
  Nobody           \* decided_by IS NULL

Users == Approvers \cup OtherUsers

ASSUME ApprovalsAssumption ==
  /\ IsFiniteSet(Approvers)
  /\ Required \in Nat /\ Cardinality(Approvers) <= Required
  /\ Subject \in Exceptions \cup {NoException}
  /\ NoException \notin Exceptions
  /\ RedeemRequests \subseteq Requests
  /\ NoRequest \notin Requests
  /\ Nobody \notin Users

VARIABLES
  istatus,      \* invoices.status
  row,          \* the approval_requests row of each approver
  expired,      \* row.expires_at <= now()
  exceptions,   \* match_exceptions.status
  post_job,     \* the 'post' job has been enqueued
  row_lock,     \* who holds the lock on an approval_requests row
  invoice_lock, \* who holds the lock on the invoices row
  req           \* the local state of each request

bizVars == <<istatus, row, exceptions, post_job>>
lockVars == <<row_lock, invoice_lock>>
vars == <<bizVars, expired, lockVars, req>>

Decisions == {"approved", "rejected"}

NoRow == [issued |-> FALSE, consumed |-> FALSE, decision |-> "none", decided_by |-> Nobody]

Rows == [issued : BOOLEAN, consumed : BOOLEAN, decision : Decisions \cup {"none"},
         decided_by : Users \cup {Nobody}]

NewRequest == [pc |-> "new"]

\* The local state of a request: not sent or over, redeeming, deciding in the app.
Idle == [pc : {"new", "refused", "done", "aborted"}]
Redeeming == [pc : {"lock_row", "lock_invoice"}, approver : Approvers,
              decision : Decisions, late : BOOLEAN]
Deciding == [pc : {"lock_invoice", "lock_rows"}, user : Users, decision : Decisions]

Issued == {a \in Approvers : row[a].issued}

\* Types; the decision leaves the invoice in one of three statuses.
TypeOK ==
  /\ istatus \in {"PENDING_APPROVAL", "APPROVED", "REJECTED"}
  /\ row \in [Approvers -> Rows]
  /\ expired \in [Approvers -> BOOLEAN]
  /\ exceptions \in [Exceptions -> {"open", "resolved", "dismissed"}]
  /\ post_job \in BOOLEAN
  /\ row_lock \in [Approvers -> Requests \cup {NoRequest}]
  /\ invoice_lock \in Requests \cup {NoRequest}
  /\ req \in [Requests -> Idle \cup Redeeming \cup Deciding]
  /\ \A q \in Requests :
        req[q] \in Idle \cup (IF q \in RedeemRequests THEN Redeeming ELSE Deciding)

Init ==
  /\ istatus = "PENDING_APPROVAL"
  /\ row = [a \in Approvers |-> NoRow]
  /\ expired = [a \in Approvers |-> FALSE]
  /\ exceptions = [e \in Exceptions |-> "open"]
  /\ post_job = FALSE
  /\ row_lock = [a \in Approvers |-> NoRequest]
  /\ invoice_lock = NoRequest
  /\ req = [q \in Requests |-> NewRequest]

-----------------------------------------------------------------------------
(***************************************************************************)
(* Issuing and expiry                                                      *)
(***************************************************************************)

\* issue_approval_token inserts and commits one row.  The foreign key makes the
\* INSERT wait while the invoice row is locked FOR UPDATE.
issue_approval_token(a) ==
  /\ ~row[a].issued
  /\ invoice_lock = NoRequest
  /\ row' = [row EXCEPT ![a].issued = TRUE]
  /\ UNCHANGED <<istatus, expired, exceptions, post_job, lockVars, req>>

Expire(a) ==
  /\ row[a].issued /\ ~expired[a]
  /\ expired' = [expired EXCEPT ![a] = TRUE]
  /\ UNCHANGED <<bizVars, lockVars, req>>

-----------------------------------------------------------------------------
(***************************************************************************)
(* Transactions                                                            *)
(***************************************************************************)

At(q, pc) == req[q].pc = pc

\* Mutant: a transaction that fails is not rolled back and keeps its row lock.
Mutant_ReleaseLocks(q) ==
  /\ row_lock' = row_lock
  /\ invoice_lock' = IF invoice_lock = q THEN NoRequest ELSE invoice_lock

\* Commit or rollback: the locks go, the request has been answered.
ReleaseLocks(q) ==
  /\ row_lock' = [a \in Approvers |-> IF row_lock[a] = q THEN NoRequest ELSE row_lock[a]]
  /\ invoice_lock' = IF invoice_lock = q THEN NoRequest ELSE invoice_lock

End(q, answer) ==
  /\ ReleaseLocks(q)
  /\ req' = [req EXCEPT ![q] = [pc |-> answer]]

Refuse(q) == End(q, "refused") /\ UNCHANGED <<bizVars, expired>>

Running(q) == req[q].pc \notin {"new", "refused", "done", "aborted"}

\* The client or the process goes away: PostgreSQL rolls back.
Abandon(q) ==
  /\ Running(q)
  /\ End(q, "aborted")
  /\ UNCHANGED <<bizVars, expired>>

\* q cannot go on before p ends.
WaitsFor(q, p) ==
  \/ At(q, "lock_invoice") /\ invoice_lock = p
  \/ At(q, "lock_row") /\ row_lock[req[q].approver] = p
  \/ At(q, "lock_rows") /\ \E a \in Issued : row_lock[a] = p

\* The deadlock detector cancels one of two requests that wait for each other.
BreakDeadlock(q) ==
  /\ \E p \in Requests \ {q} : WaitsFor(q, p) /\ WaitsFor(p, q)
  /\ End(q, "aborted")
  /\ UNCHANGED <<bizVars, expired>>

\* match_exceptions rows that are open are closed with the invoice.
CloseExceptions(es, decision) ==
  exceptions' = [e \in Exceptions |->
                   IF e \in es /\ exceptions[e] = "open"
                   THEN IF decision = "approved" THEN "resolved" ELSE "dismissed"
                   ELSE exceptions[e]]

\* Mutant: an approved invoice is marked as posted straight away.
Mutant_StatusFor(decision) == IF decision = "approved" THEN "POSTED" ELSE "REJECTED"

StatusFor(decision) == IF decision = "approved" THEN "APPROVED" ELSE "REJECTED"

-----------------------------------------------------------------------------
(***************************************************************************)
(* redeem_approval_token                                                   *)
(***************************************************************************)

\* The unlocked lookup by token hash finds the row; `now` is read here, before
\* any waiting.
RedeemStart(q, a, decision) ==
  /\ q \in RedeemRequests
  /\ At(q, "new")
  /\ row[a].issued
  /\ req' = [req EXCEPT ![q] = [pc |-> "lock_row", approver |-> a, decision |-> decision,
                                late |-> expired[a]]]
  /\ UNCHANGED <<bizVars, expired, lockVars>>

\* Mutant: the locking read does not look at consumed_at again.
Mutant_RedeemLockRow(q) ==
  LET a == req[q].approver IN
  /\ At(q, "lock_row")
  /\ row_lock[a] = NoRequest
  /\ \/ /\ req[q].late
        /\ Refuse(q)
     \/ /\ ~req[q].late
        /\ row_lock' = [row_lock EXCEPT ![a] = q]
        /\ req' = [req EXCEPT ![q].pc = "lock_invoice"]
        /\ UNCHANGED <<bizVars, expired, invoice_lock>>

\* SELECT ... FOR UPDATE of the token's row: a used or expired one is refused.
RedeemLockRow(q) ==
  LET a == req[q].approver IN
  /\ At(q, "lock_row")
  /\ row_lock[a] = NoRequest
  /\ \/ /\ row[a].consumed \/ req[q].late
        /\ Refuse(q)
     \/ /\ ~row[a].consumed /\ ~req[q].late
        /\ row_lock' = [row_lock EXCEPT ![a] = q]
        /\ req' = [req EXCEPT ![q].pc = "lock_invoice"]
        /\ UNCHANGED <<bizVars, expired, invoice_lock>>

\* Mutant: a rejection enqueues the 'post' job as well.
Mutant_RedeemCommit_post(q) ==
  LET a == req[q].approver
      decision == req[q].decision
  IN
  /\ q \in RedeemRequests /\ At(q, "lock_invoice")
  /\ invoice_lock = NoRequest
  /\ istatus = "PENDING_APPROVAL"
  /\ istatus' = StatusFor(decision)
  /\ row' = [row EXCEPT ![a] = [@ EXCEPT !.consumed = TRUE, !.decision = decision]]
  /\ CloseExceptions(IF Subject = NoException THEN Exceptions ELSE {Subject}, decision)
  /\ post_job' = TRUE
  /\ End(q, "done")
  /\ UNCHANGED expired

\* Mutant: consume, and only then look at the invoice, in a transaction of its own.
Mutant_RedeemCommit_consume(q) ==
  LET a == req[q].approver
      decision == req[q].decision
  IN
  /\ q \in RedeemRequests /\ At(q, "lock_invoice")
  /\ invoice_lock = NoRequest
  /\ row' = [row EXCEPT ![a] = [@ EXCEPT !.consumed = TRUE, !.decision = decision]]
  /\ IF istatus = "PENDING_APPROVAL"
     THEN /\ istatus' = StatusFor(decision)
          /\ CloseExceptions(IF Subject = NoException THEN Exceptions ELSE {Subject}, decision)
          /\ post_job' = (post_job \/ decision = "approved")
     ELSE UNCHANGED <<istatus, exceptions, post_job>>
  /\ End(q, "done")
  /\ UNCHANGED expired

\* The row is consumed, the invoice locked, its status validated and changed, the
\* exceptions closed, the audit row and the 'post' job written; commit.  Any
\* status but PENDING_APPROVAL raises and everything is rolled back.
RedeemCommit(q) ==
  LET a == req[q].approver
      decision == req[q].decision
  IN
  /\ q \in RedeemRequests /\ At(q, "lock_invoice")
  /\ invoice_lock = NoRequest
  /\ \/ /\ istatus = "PENDING_APPROVAL"
        /\ istatus' = StatusFor(decision)
        /\ row' = [row EXCEPT ![a] = [@ EXCEPT !.consumed = TRUE, !.decision = decision]]
        /\ CloseExceptions(IF Subject = NoException THEN Exceptions ELSE {Subject}, decision)
        /\ post_job' = (post_job \/ decision = "approved")
        /\ End(q, "done")
        /\ UNCHANGED expired
     \/ /\ istatus # "PENDING_APPROVAL"
        /\ Refuse(q)

-----------------------------------------------------------------------------
(***************************************************************************)
(* decide_invoice                                                          *)
(***************************************************************************)

DecideStart(q, u, decision) ==
  /\ q \in Requests \ RedeemRequests
  /\ At(q, "new")
  /\ req' = [req EXCEPT ![q] = [pc |-> "lock_invoice", user |-> u, decision |-> decision]]
  /\ UNCHANGED <<bizVars, expired, lockVars>>

\* SELECT status ... FOR UPDATE.
DecideLockInvoice(q) ==
  /\ q \notin RedeemRequests /\ At(q, "lock_invoice")
  /\ invoice_lock = NoRequest
  /\ invoice_lock' = q
  /\ req' = [req EXCEPT ![q].pc = "lock_rows"]
  /\ UNCHANGED <<bizVars, expired, row_lock>>

\* SELECT * ... FOR UPDATE locks the invoice's rows one by one; none can be added
\* meanwhile (see issue_approval_token).
DecideLockRow(q, a) ==
  /\ At(q, "lock_rows")
  /\ a \in Issued
  /\ row_lock[a] = NoRequest
  /\ row_lock' = [row_lock EXCEPT ![a] = q]
  /\ UNCHANGED <<bizVars, expired, invoice_lock, req>>

\* All the rows are locked: the rows and the status that are read now stay so.
RowsLocked(q) == At(q, "lock_rows") /\ \A a \in Issued : row_lock[a] = q

\* The user has an open row addressed to them; expires_at is not looked at.
HasOpenRow(u) == u \in Issued /\ ~row[u].consumed

DecideRefuse(q) ==
  /\ RowsLocked(q)
  /\ ~HasOpenRow(req[q].user)
  /\ Refuse(q)

\* Mutant: the status is not validated again under the lock.
Mutant_settle_invoice(decision) ==
  /\ istatus' = StatusFor(decision)
  /\ CloseExceptions(Exceptions, decision)
  /\ UNCHANGED post_job

\* _settle_invoice, within the caller's transaction.
_settle_invoice(decision) ==
  /\ istatus = "PENDING_APPROVAL"
  /\ istatus' = StatusFor(decision)
  /\ CloseExceptions(Exceptions, decision)
  /\ UNCHANGED post_job

\* A veto: the caller's row is rejected by them, the open rows of the others are
\* closed as rejected by nobody, the invoice is settled (or, if it is not
\* pending, the whole transaction raises).
DecideReject(q) ==
  LET u == req[q].user IN
  /\ RowsLocked(q) /\ HasOpenRow(u) /\ req[q].decision = "rejected"
  /\ \/ /\ row' = [a \in Approvers |->
              IF a \in Issued /\ ~row[a].consumed
              THEN [row[a] EXCEPT !.consumed = TRUE, !.decision = "rejected",
                                  !.decided_by = IF a = u THEN u ELSE Nobody]
              ELSE row[a]]
        /\ _settle_invoice("rejected")
        /\ End(q, "done")
        /\ UNCHANGED expired
     \/ /\ istatus # "PENDING_APPROVAL"
        /\ Refuse(q)

\* approvals_received < approvals_required, which is the number of rows there are.
AllOthersApproved(u) == \A a \in Issued \ {u} : row[a].decision = "approved"

\* The caller's row is approved.  The invoice is settled with the last approval;
\* before that its status is not looked at.
DecideApprove(q) ==
  LET u == req[q].user IN
  /\ RowsLocked(q) /\ HasOpenRow(u) /\ req[q].decision = "approved"
  /\ \/ /\ row' = [row EXCEPT ![u] = [@ EXCEPT !.consumed = TRUE, !.decision = "approved",
                                               !.decided_by = u]]
        /\ IF AllOthersApproved(u)
           THEN _settle_invoice("approved")
           ELSE UNCHANGED <<istatus, exceptions, post_job>>
        /\ End(q, "done")
        /\ UNCHANGED expired
     \/ /\ AllOthersApproved(u) /\ istatus # "PENDING_APPROVAL"
        /\ Refuse(q)

-----------------------------------------------------------------------------

\* What a request does by itself once it has been sent.
RequestStep(q) ==
  \/ RedeemLockRow(q) \/ RedeemCommit(q)
  \/ DecideLockInvoice(q) \/ (\E a \in Approvers : DecideLockRow(q, a))
  \/ DecideRefuse(q) \/ DecideReject(q) \/ DecideApprove(q)
  \/ BreakDeadlock(q)

Next ==
  \/ \E a \in Approvers : issue_approval_token(a) \/ Expire(a)
  \/ \E q \in Requests :
        \/ \E a \in Approvers, d \in Decisions : RedeemStart(q, a, d)
        \/ \E u \in Users, d \in Decisions : DecideStart(q, u, d)
        \/ RequestStep(q)
        \/ Abandon(q)

Spec == Init /\ [][Next]_vars

\* A started transaction keeps going; PostgreSQL grants a lock that is free and
\* breaks deadlocks.  Nobody has to issue, to decide or to give up.
FairSpec == Spec /\ \A q \in Requests : WF_vars(RequestStep(q))

-----------------------------------------------------------------------------
(***************************************************************************)
(* Properties                                                              *)
(***************************************************************************)

\* Single use: whatever races for it, a consumed row never gets another decision
\* or another name on it (approvals.py:178).
ConsumedOnce ==
  [][\A a \in Approvers : row[a].consumed => row'[a] = row[a]]_vars

\* A settled invoice stays settled, although tokens and open rows outlive it.
SettledOnce == [][istatus # "PENDING_APPROVAL" => istatus' = istatus]_vars

\* The rows and the invoice tell the same story: as long as it is pending nobody
\* has said no; it is rejected only if somebody has; it is approved only if
\* somebody has approved and nobody has said no.
OutcomeAgreesWithRows ==
  LET Saying(d) == {a \in Approvers : row[a].decision = d} IN
  /\ istatus = "PENDING_APPROVAL" => Saying("rejected") = {}
  /\ istatus = "REJECTED" => Saying("rejected") # {}
  /\ istatus = "APPROVED" => Saying("approved") # {} /\ Saying("rejected") = {}

\* What makes the two above hold: a row has a decision exactly when it is
\* consumed, and only if it was issued; a redemption that waits for the invoice
\* has its row locked, and the row it has locked is still open.
RowsGuarded ==
  /\ \A a \in Approvers :
        /\ row[a].consumed <=> row[a].decision # "none"
        /\ row[a].consumed => row[a].issued
  /\ \A q \in RedeemRequests :
        LET a == req[q].approver IN
        /\ Running(q) => row[a].issued
        /\ At(q, "lock_invoice") => row_lock[a] = q /\ ~row[a].consumed

\* Side effects follow the outcome: only an approved invoice is ever posted, an
\* exception is resolved only if it is approved, dismissed only if it is rejected.
SideEffectsAgree ==
  /\ post_job => istatus = "APPROVED"
  /\ \A e \in Exceptions :
       /\ exceptions[e] = "resolved" => istatus = "APPROVED"
       /\ exceptions[e] = "dismissed" => istatus = "REJECTED"

\* No request waits for ever: the two paths lock the invoice and the rows in
\* opposite orders, and only the deadlock detector gets them apart.
EveryRequestEnds == \A q \in Requests : Running(q) ~> ~Running(q)

-----------------------------------------------------------------------------
(***************************************************************************)
(* What comments say and the code does not do                              *)
(***************************************************************************)

\* match_view.py:34: "approve only settles the invoice once *every* required
\* approver's row has independently been marked approved".
ApprovedByAllRequired ==
  istatus = "APPROVED" =>
    Cardinality({a \in Approvers : row[a].decision = "approved"}) >= Required
=============================================================================
