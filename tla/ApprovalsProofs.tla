--------------------------- MODULE ApprovalsProofs ---------------------------
(***************************************************************************)
(* Proofs about Approvals, for any approvers, requests, exceptions and     *)
(* number of required approvals.                                           *)
(***************************************************************************)
EXTENDS Approvals, TLAPS

\* The part of TypeOK that a request's own steps change.
ReqOK ==
  /\ row_lock \in [Approvers -> Requests \cup {NoRequest}]
  /\ invoice_lock \in Requests \cup {NoRequest}
  /\ req \in [Requests -> Idle \cup Redeeming \cup Deciding]
  /\ \A q \in Requests :
        req[q] \in Idle \cup (IF q \in RedeemRequests THEN Redeeming ELSE Deciding)

\* A request that ends gives back its locks and leaves the others alone.
LEMMA EndKeepsTypes ==
  ASSUME ReqOK, NEW q \in Requests, NEW answer \in {"refused", "done", "aborted"},
         End(q, answer)
  PROVE  ReqOK'
  <1>1. [pc |-> answer] \in Idle
    BY DEF Idle
  <1>2. QED
    BY <1>1 DEF ReqOK, End, ReleaseLocks

\* What a request has put into its local state when it reaches a step.
LEMMA RequestFields ==
  ASSUME ReqOK, NEW q \in Requests
  PROVE  /\ q \in RedeemRequests /\ Running(q) =>
              /\ req[q] \in Redeeming
              /\ req[q].approver \in Approvers /\ req[q].decision \in Decisions
         /\ q \notin RedeemRequests /\ Running(q) =>
              /\ req[q] \in Deciding
              /\ req[q].user \in Users /\ req[q].decision \in Decisions
  BY DEF ReqOK, Running, Idle, Redeeming, Deciding

\* The rows a redemption leaves behind: its own is consumed, the others are as before.
LEMMA RedeemRow ==
  ASSUME TypeOK, NEW q \in Requests, RedeemCommit(q), istatus = "PENDING_APPROVAL",
         NEW a \in Approvers, a = req[q].approver, req[q].decision \in Decisions
  PROVE  /\ row' \in [Approvers -> Rows]
         /\ row'[a].consumed /\ row'[a].decision = req[q].decision
         /\ row'[a].issued = row[a].issued
         /\ \A b \in Approvers \ {a} : row'[b] = row[b]
  <1> DEFINE new == [row[a] EXCEPT !.consumed = TRUE, !.decision = req[q].decision]
  <1>1. row \in [Approvers -> Rows] /\ row[a] \in Rows
    BY DEF TypeOK
  <1>2. /\ new \in Rows /\ new.consumed /\ new.decision = req[q].decision
        /\ new.issued = row[a].issued
    BY <1>1 DEF Rows
  <1>3. row' = [row EXCEPT ![a] = new]
    BY DEF RedeemCommit
  <1> HIDE DEF new
  <1>4. QED
    BY <1>1, <1>2, <1>3

\* The rows an approval in the app leaves behind.
LEMMA ApproveRow ==
  ASSUME TypeOK, NEW q \in Requests, DecideApprove(q),
         ~(istatus # "PENDING_APPROVAL" /\ Refuse(q)),
         NEW u \in Approvers, u = req[q].user
  PROVE  /\ row' \in [Approvers -> Rows]
         /\ row'[u].consumed /\ row'[u].decision = "approved"
         /\ row'[u].issued = row[u].issued
         /\ \A b \in Approvers \ {u} : row'[b] = row[b]
  <1> DEFINE new == [row[u] EXCEPT !.consumed = TRUE, !.decision = "approved", !.decided_by = u]
  <1>1. row \in [Approvers -> Rows] /\ row[u] \in Rows
    BY DEF TypeOK
  <1>2. new \in Rows /\ new.consumed /\ new.decision = "approved" /\ new.issued = row[u].issued
    BY <1>1 DEF Rows, Users, Decisions
  <1>3. row' = [row EXCEPT ![u] = new]
    BY DEF DecideApprove
  <1> HIDE DEF new
  <1>4. QED
    BY <1>1, <1>2, <1>3

\* The rows a veto leaves behind: every open row is closed as rejected.
LEMMA RejectRows ==
  ASSUME TypeOK, NEW q \in Requests, DecideReject(q),
         ~(istatus # "PENDING_APPROVAL" /\ Refuse(q)),
         NEW u \in Approvers, u = req[q].user
  PROVE  /\ row' \in [Approvers -> Rows]
         /\ \A b \in Approvers :
              IF row[b].issued /\ ~row[b].consumed
              THEN row'[b].consumed /\ row'[b].decision = "rejected" /\ row'[b].issued
              ELSE row'[b] = row[b]
  <1> DEFINE new(b) == [row[b] EXCEPT !.consumed = TRUE, !.decision = "rejected",
                                      !.decided_by = IF b = u THEN u ELSE Nobody]
  <1>1. row \in [Approvers -> Rows] /\ \A b \in Approvers : row[b] \in Rows
    BY DEF TypeOK
  <1>2. \A b \in Approvers : /\ new(b) \in Rows /\ new(b).consumed
                             /\ new(b).decision = "rejected" /\ new(b).issued = row[b].issued
    BY <1>1 DEF Rows, Users, Decisions
  <1>3. row' = [b \in Approvers |-> IF b \in Issued /\ ~row[b].consumed THEN new(b) ELSE row[b]]
    BY DEF DecideReject
  <1> HIDE DEF new
  <1>4. QED
    BY <1>1, <1>2, <1>3 DEF Issued

\* Only a redemption takes the steps of one.
LEMMA RedeemersOnly ==
  ASSUME TypeOK, NEW q \in Requests, RedeemLockRow(q) \/ RedeemCommit(q)
  PROVE  q \in RedeemRequests
  <1>1. CASE RedeemCommit(q)
    BY <1>1 DEF RedeemCommit
  <1>2. CASE RedeemLockRow(q)
    <2>1. req[q].pc = "lock_row"
      BY <1>2 DEF RedeemLockRow, At
    <2>2. QED
      BY <2>1 DEF TypeOK, Idle, Deciding
  <1>3. QED
    BY <1>1, <1>2

\* Every step keeps the types.
LEMMA TypeStep == TypeOK /\ [Next]_vars => TypeOK'
  <1> SUFFICES ASSUME TypeOK, [Next]_vars
               PROVE  TypeOK'
    OBVIOUS
  <1> USE ApprovalsAssumption DEF bizVars, lockVars
  <1>0. ReqOK
    BY DEF TypeOK, ReqOK
  <1>a. (/\ ReqOK'
         /\ row' \in [Approvers -> Rows]
         /\ istatus' \in {"PENDING_APPROVAL", "APPROVED", "REJECTED"}
         /\ exceptions' \in [Exceptions -> {"open", "resolved", "dismissed"}]
         /\ post_job' \in BOOLEAN
         /\ UNCHANGED expired) => TypeOK'
    BY DEF TypeOK, ReqOK
  <1>b. ASSUME NEW es, NEW decision, CloseExceptions(es, decision)
        PROVE  exceptions' \in [Exceptions -> {"open", "resolved", "dismissed"}]
    BY <1>b DEF TypeOK, CloseExceptions
  <1>c. ASSUME NEW q \in Requests, Refuse(q) PROVE TypeOK'
    <2>1. ReqOK'
      BY <1>0, <1>c, EndKeepsTypes DEF Refuse
    <2>2. QED
      BY <1>a, <1>c, <2>1 DEF Refuse, TypeOK
  <1>1. ASSUME NEW a \in Approvers, issue_approval_token(a) PROVE TypeOK'
    BY <1>1 DEF issue_approval_token, TypeOK, Rows
  <1>2. ASSUME NEW a \in Approvers, Expire(a) PROVE TypeOK'
    BY <1>2 DEF Expire, TypeOK
  <1>3. ASSUME NEW q \in Requests, NEW a \in Approvers, NEW d \in Decisions,
               RedeemStart(q, a, d)
        PROVE  TypeOK'
    <2>1. [pc |-> "lock_row", approver |-> a, decision |-> d, late |-> expired[a]] \in Redeeming
      BY DEF Redeeming, TypeOK
    <2>2. QED
      BY <1>3, <2>1 DEF RedeemStart, TypeOK
  <1>4. ASSUME NEW q \in Requests, NEW u \in Users, NEW d \in Decisions,
               DecideStart(q, u, d)
        PROVE  TypeOK'
    <2>1. [pc |-> "lock_invoice", user |-> u, decision |-> d] \in Deciding
      BY DEF Deciding
    <2>2. QED
      BY <1>4, <2>1 DEF DecideStart, TypeOK
  <1>5. ASSUME NEW q \in RedeemRequests, RedeemLockRow(q) PROVE TypeOK'
    <2>1. CASE Refuse(q)
      BY <1>c, <2>1
    <2>2. CASE ~Refuse(q)
      <3>1. req[q] \in Redeeming /\ req[q].approver \in Approvers
        BY <1>0, <1>5, RequestFields DEF RedeemLockRow, At, Running
      <3>2. [req[q] EXCEPT !.pc = "lock_invoice"] \in Redeeming
        BY <3>1 DEF Redeeming
      <3>3. QED
        BY <1>5, <2>2, <3>1, <3>2 DEF RedeemLockRow, TypeOK
    <2>3. QED
      BY <2>1, <2>2
  <1>6. ASSUME NEW q \in RedeemRequests, RedeemCommit(q) PROVE TypeOK'
    <2>1. CASE Refuse(q)
      BY <1>c, <2>1
    <2>2. CASE ~Refuse(q)
      <3>1. req[q].approver \in Approvers /\ req[q].decision \in Decisions
        BY <1>0, <1>6, RequestFields DEF RedeemCommit, At, Running
      <3>2. row' \in [Approvers -> Rows]
        BY <1>6, <2>2, <3>1, RedeemRow DEF RedeemCommit
      <3>3. exceptions' \in [Exceptions -> {"open", "resolved", "dismissed"}]
        BY <1>6, <2>2, <1>b DEF RedeemCommit
      <3>4. ReqOK'
        BY <1>0, <1>6, <2>2, EndKeepsTypes DEF RedeemCommit
      <3>5. post_job' \in BOOLEAN
        BY <1>6, <2>2, Zenon DEF RedeemCommit, TypeOK
      <3>6. istatus' \in {"PENDING_APPROVAL", "APPROVED", "REJECTED"} /\ UNCHANGED expired
        BY <1>6, <2>2 DEF RedeemCommit, StatusFor
      <3>7. QED
        BY <1>a, <3>2, <3>3, <3>4, <3>5, <3>6
    <2>3. QED
      BY <2>1, <2>2
  <1>7. ASSUME NEW q \in Requests, DecideLockInvoice(q) PROVE TypeOK'
    <2>1. req[q] \in Deciding
      BY <1>0, <1>7, RequestFields DEF DecideLockInvoice, At, Running
    <2>2. [req[q] EXCEPT !.pc = "lock_rows"] \in Deciding
      BY <2>1 DEF Deciding
    <2>3. QED
      BY <1>7, <2>2 DEF DecideLockInvoice, TypeOK
  <1>8. ASSUME NEW q \in Requests, NEW a \in Approvers, DecideLockRow(q, a) PROVE TypeOK'
    BY <1>8 DEF DecideLockRow, TypeOK
  <1>9. ASSUME NEW q \in Requests, DecideRefuse(q) PROVE TypeOK'
    BY <1>c, <1>9 DEF DecideRefuse
  <1>10. ASSUME NEW q \in Requests, DecideReject(q) PROVE TypeOK'
    <2>1. CASE Refuse(q)
      BY <1>c, <2>1
    <2>2. CASE ~Refuse(q)
      <3>1. req[q].user \in Approvers
        BY <1>10 DEF DecideReject, HasOpenRow, Issued
      <3>2. row' \in [Approvers -> Rows]
        BY <1>10, <2>2, <3>1, RejectRows
      <3>3. exceptions' \in [Exceptions -> {"open", "resolved", "dismissed"}]
        BY <1>10, <2>2, <1>b DEF DecideReject, _settle_invoice
      <3>4. ReqOK'
        BY <1>0, <1>10, <2>2, EndKeepsTypes DEF DecideReject
      <3>5. post_job' \in BOOLEAN /\ UNCHANGED expired
        BY <1>10, <2>2, Zenon DEF DecideReject, _settle_invoice, TypeOK
      <3>6. istatus' \in {"PENDING_APPROVAL", "APPROVED", "REJECTED"}
        BY <1>10, <2>2 DEF DecideReject, _settle_invoice, StatusFor
      <3>7. QED
        BY <1>a, <3>2, <3>3, <3>4, <3>5, <3>6
    <2>3. QED
      BY <2>1, <2>2
  <1>11. ASSUME NEW q \in Requests, DecideApprove(q) PROVE TypeOK'
    <2>1. CASE Refuse(q)
      BY <1>c, <2>1
    <2>2. CASE ~Refuse(q)
      <3>1. req[q].user \in Approvers
        BY <1>11 DEF DecideApprove, HasOpenRow, Issued
      <3>2. row' \in [Approvers -> Rows]
        BY <1>11, <2>2, <3>1, ApproveRow
      <3>3. exceptions' \in [Exceptions -> {"open", "resolved", "dismissed"}]
        BY <1>11, <2>2, <1>b DEF DecideApprove, _settle_invoice, TypeOK
      <3>4. ReqOK'
        BY <1>0, <1>11, <2>2, EndKeepsTypes DEF DecideApprove
      <3>5. post_job' \in BOOLEAN /\ UNCHANGED expired
        BY <1>11, <2>2, Zenon DEF DecideApprove, _settle_invoice, TypeOK
      <3>6. istatus' \in {"PENDING_APPROVAL", "APPROVED", "REJECTED"}
        BY <1>11, <2>2 DEF DecideApprove, _settle_invoice, StatusFor, TypeOK
      <3>7. QED
        BY <1>a, <3>2, <3>3, <3>4, <3>5, <3>6
    <2>3. QED
      BY <2>1, <2>2
  <1>12. ASSUME NEW q \in Requests, BreakDeadlock(q) \/ Abandon(q) PROVE TypeOK'
    <2>1. ReqOK'
      BY <1>0, <1>12, EndKeepsTypes DEF BreakDeadlock, Abandon
    <2>2. QED
      BY <1>a, <1>12, <2>1 DEF BreakDeadlock, Abandon, TypeOK
  <1>13. CASE UNCHANGED vars
    BY <1>13 DEF vars, TypeOK
  <1>14. QED
    BY <1>1, <1>2, <1>3, <1>4, <1>5, <1>6, <1>7, <1>8, <1>9, <1>10, <1>11, <1>12, <1>13,
       RedeemersOnly DEF Next, RequestStep

\* Type correctness: rows, locks and the local state of every request keep their
\* types, so that a redemption never meets the local state of an in-app decision.
THEOREM TypeCorrect == Spec => []TypeOK
  <1>1. Init => TypeOK
    <2>1. NewRequest \in Idle /\ NoRow \in Rows
      BY DEF NewRequest, Idle, NoRow, Rows
    <2>2. QED
      BY <2>1 DEF Init, TypeOK
  <1>2. QED
    BY <1>1, TypeStep, PTL DEF Spec

-----------------------------------------------------------------------------

\* What the end of a request means for the redemptions that are still running.
LEMMA EndFrame ==
  ASSUME ReqOK, NEW q \in Requests, NEW answer \in {"refused", "done", "aborted"},
         End(q, answer)
  PROVE  /\ req'[q].pc = answer
         /\ \A p \in Requests \ {q} :
              /\ req'[p] = req[p]
              /\ \A a \in Approvers : row_lock[a] = p => row_lock'[a] = p
  BY DEF ReqOK, End, ReleaseLocks

\* Rows are guarded by the step facts that follow: an ending request q that leaves
\* the rows of other redemptions alone keeps RowsGuarded.
LEMMA GuardedAfterEnd ==
  ASSUME TypeOK, RowsGuarded, NEW q \in Requests,
         NEW answer \in {"refused", "done", "aborted"}, End(q, answer),
         row' \in [Approvers -> Rows],
         \A a \in Approvers :
            \/ row'[a] = row[a]
            \/ /\ row'[a].consumed /\ row'[a].decision # "none" /\ row'[a].issued
               /\ \A p \in RedeemRequests \ {q} : row_lock[a] # p
  PROVE  RowsGuarded'
  <1> USE ApprovalsAssumption
  <1>0. ReqOK
    BY DEF TypeOK, ReqOK
  <1>1. ASSUME NEW a \in Approvers
        PROVE  /\ row'[a].consumed <=> row'[a].decision # "none"
               /\ row'[a].consumed => row'[a].issued
    BY DEF RowsGuarded
  <1>2. ASSUME NEW p \in RedeemRequests
        PROVE  /\ Running(p)' => row'[req'[p].approver].issued
               /\ At(p, "lock_invoice")' =>
                    /\ row_lock'[req'[p].approver] = p
                    /\ ~row'[req'[p].approver].consumed
    <2>1. CASE p = q
      BY <1>0, <2>1, EndFrame DEF Running, At
    <2>2. CASE p # q
      <3>1. req'[p] = req[p] /\ (Running(p)' <=> Running(p))
            /\ (At(p, "lock_invoice")' <=> At(p, "lock_invoice"))
        BY <1>0, <2>2, EndFrame DEF Running, At
      <3>2. CASE Running(p)
        <4>1. req[p].approver \in Approvers /\ row[req[p].approver].issued
          BY <1>0, <3>2, RequestFields DEF RowsGuarded
        <4>2. row'[req[p].approver].issued
          BY <4>1
        <4>3. ASSUME At(p, "lock_invoice")
              PROVE  row_lock'[req[p].approver] = p /\ ~row'[req[p].approver].consumed
          <5>1. row_lock[req[p].approver] = p /\ ~row[req[p].approver].consumed
            BY <4>3 DEF RowsGuarded
          <5>2. row_lock'[req[p].approver] = p
            BY <1>0, <2>2, <4>1, <5>1, EndFrame
          <5>3. row'[req[p].approver] = row[req[p].approver]
            BY <2>2, <4>1, <5>1
          <5>4. QED
            BY <5>1, <5>2, <5>3
        <4>4. QED
          BY <3>1, <4>2, <4>3
      <3>3. CASE ~Running(p)
        BY <3>1, <3>3 DEF Running, At
      <3>4. QED
        BY <3>2, <3>3
    <2>3. QED
      BY <2>1, <2>2
  <1>3. QED
    BY <1>1, <1>2 DEF RowsGuarded

\* Every step keeps RowsGuarded.  A commit consumes only rows that its request has
\* locked, so never the row that another redemption has locked.
LEMMA GuardedStep == TypeOK /\ TypeOK' /\ RowsGuarded /\ [Next]_vars => RowsGuarded'
  <1> SUFFICES ASSUME TypeOK, TypeOK', RowsGuarded, [Next]_vars
               PROVE  RowsGuarded'
    OBVIOUS
  <1> USE ApprovalsAssumption DEF bizVars, lockVars
  <1>0. ReqOK /\ ReqOK'
    BY DEF TypeOK, ReqOK
  <1>a. row \in [Approvers -> Rows] /\ row' \in [Approvers -> Rows]
    BY DEF TypeOK
  <1>b. ASSUME NEW q \in Requests, NEW answer \in {"refused", "done", "aborted"},
               End(q, answer), UNCHANGED row
        PROVE  RowsGuarded'
    BY <1>a, <1>b, GuardedAfterEnd
  <1>c. ASSUME NEW q \in Requests, Refuse(q) PROVE RowsGuarded'
    BY <1>b, <1>c DEF Refuse
  <1>d. ASSUME NEW q \in Requests \ RedeemRequests, UNCHANGED row,
               \A p \in Requests \ {q} : req'[p] = req[p],
               \A a \in Approvers : row_lock'[a] # row_lock[a] => row_lock[a] = NoRequest
        PROVE  RowsGuarded'
    BY <1>0, <1>d, RequestFields DEF RowsGuarded, At, Running
  <1>1. ASSUME NEW a \in Approvers, issue_approval_token(a) PROVE RowsGuarded'
    <2>1. /\ row'[a].issued /\ row'[a].consumed = row[a].consumed
          /\ row'[a].decision = row[a].decision
          /\ \A b \in Approvers \ {a} : row'[b] = row[b]
          /\ UNCHANGED <<req, row_lock>>
      BY <1>1, <1>a DEF issue_approval_token, Rows
    <2>2. QED
      BY <1>0, <2>1, RequestFields DEF RowsGuarded, At, Running
  <1>2. ASSUME NEW a \in Approvers, Expire(a) PROVE RowsGuarded'
    BY <1>2 DEF Expire, RowsGuarded, At, Running
  <1>3. ASSUME NEW q \in Requests, NEW a \in Approvers, NEW d \in Decisions,
               RedeemStart(q, a, d)
        PROVE  RowsGuarded'
    <2>1. /\ req'[q].pc = "lock_row" /\ req'[q].approver = a /\ row[a].issued
          /\ \A p \in Requests \ {q} : req'[p] = req[p]
          /\ UNCHANGED <<row, row_lock>>
      BY <1>0, <1>3 DEF RedeemStart, ReqOK
    <2>2. QED
      BY <2>1 DEF RowsGuarded, At, Running
  <1>4. ASSUME NEW q \in Requests, NEW u \in Users, NEW d \in Decisions,
               DecideStart(q, u, d)
        PROVE  RowsGuarded'
    BY <1>0, <1>4, <1>d DEF DecideStart, ReqOK
  <1>5. ASSUME NEW q \in RedeemRequests, RedeemLockRow(q) PROVE RowsGuarded'
    <2>1. CASE Refuse(q)
      BY <1>c, <2>1
    <2>2. CASE ~Refuse(q)
      <3>1. req[q] \in Redeeming /\ req[q].approver \in Approvers
            /\ row[req[q].approver].issued
        BY <1>0, <1>5, RequestFields DEF RedeemLockRow, At, Running, RowsGuarded
      <3>2. /\ req'[q].approver = req[q].approver
            /\ row_lock'[req[q].approver] = q /\ ~row[req[q].approver].consumed
            /\ row_lock[req[q].approver] = NoRequest
            /\ \A p \in Requests \ {q} : req'[p] = req[p]
            /\ \A a \in Approvers \ {req[q].approver} : row_lock'[a] = row_lock[a]
            /\ UNCHANGED row
        BY <1>0, <1>5, <2>2, <3>1 DEF RedeemLockRow, ReqOK, Redeeming
      <3>3. QED
        BY <1>0, <3>1, <3>2, RequestFields DEF RowsGuarded, At, Running
    <2>3. QED
      BY <2>1, <2>2
  <1>6. ASSUME NEW q \in RedeemRequests, RedeemCommit(q) PROVE RowsGuarded'
    <2>1. CASE Refuse(q)
      BY <1>c, <2>1
    <2>2. CASE ~Refuse(q)
      <3>1. /\ req[q].approver \in Approvers /\ req[q].decision \in Decisions
            /\ row[req[q].approver].issued /\ row_lock[req[q].approver] = q
        BY <1>0, <1>6, RequestFields DEF RedeemCommit, At, Running, RowsGuarded
      <3>2. istatus = "PENDING_APPROVAL" /\ End(q, "done")
        BY <1>6, <2>2 DEF RedeemCommit
      <3>3. /\ row'[req[q].approver].consumed /\ row'[req[q].approver].decision # "none"
            /\ row'[req[q].approver].issued
            /\ \A b \in Approvers \ {req[q].approver} : row'[b] = row[b]
        BY <1>6, <3>1, <3>2, RedeemRow DEF Decisions
      <3>4. QED
        BY <1>a, <3>1, <3>2, <3>3, GuardedAfterEnd
    <2>3. QED
      BY <2>1, <2>2
  <1>7. ASSUME NEW q \in Requests, DecideLockInvoice(q) PROVE RowsGuarded'
    BY <1>0, <1>7, <1>d DEF DecideLockInvoice, ReqOK
  <1>8. ASSUME NEW q \in Requests, NEW a \in Approvers, DecideLockRow(q, a) PROVE RowsGuarded'
    <2>1. UNCHANGED <<row, req>> /\ row_lock[a] = NoRequest
          /\ \A b \in Approvers \ {a} : row_lock'[b] = row_lock[b]
      BY <1>0, <1>8 DEF DecideLockRow, ReqOK
    <2>2. QED
      BY <1>0, <2>1, RequestFields DEF RowsGuarded, At, Running
  <1>9. ASSUME NEW q \in Requests, DecideRefuse(q) PROVE RowsGuarded'
    BY <1>c, <1>9 DEF DecideRefuse
  <1>10. ASSUME NEW q \in Requests, DecideReject(q) PROVE RowsGuarded'
    <2>1. CASE Refuse(q)
      BY <1>c, <2>1
    <2>2. CASE ~Refuse(q)
      <3>1. req[q].user \in Approvers /\ End(q, "done")
            /\ \A a \in Approvers : row[a].issued => row_lock[a] = q
        BY <1>10, <2>2 DEF DecideReject, HasOpenRow, RowsLocked, Issued
      <3>2. QED
        BY <1>10, <1>a, <2>2, <3>1, RejectRows, GuardedAfterEnd
    <2>3. QED
      BY <2>1, <2>2
  <1>11. ASSUME NEW q \in Requests, DecideApprove(q) PROVE RowsGuarded'
    <2>1. CASE Refuse(q)
      BY <1>c, <2>1
    <2>2. CASE ~Refuse(q)
      <3>1. /\ req[q].user \in Approvers /\ End(q, "done")
            /\ row[req[q].user].issued /\ row_lock[req[q].user] = q
        BY <1>11, <2>2 DEF DecideApprove, HasOpenRow, RowsLocked, Issued
      <3>2. /\ row'[req[q].user].consumed /\ row'[req[q].user].decision # "none"
            /\ row'[req[q].user].issued
            /\ \A b \in Approvers \ {req[q].user} : row'[b] = row[b]
        BY <1>11, <2>2, <3>1, ApproveRow
      <3>3. QED
        BY <1>a, <3>1, <3>2, GuardedAfterEnd
    <2>3. QED
      BY <2>1, <2>2
  <1>12. ASSUME NEW q \in Requests, BreakDeadlock(q) \/ Abandon(q) PROVE RowsGuarded'
    BY <1>b, <1>12 DEF BreakDeadlock, Abandon
  <1>13. CASE UNCHANGED vars
    BY <1>13 DEF vars, RowsGuarded, At, Running
  <1>14. QED
    BY <1>1, <1>2, <1>3, <1>4, <1>5, <1>6, <1>7, <1>8, <1>9, <1>10, <1>11, <1>12, <1>13,
       RedeemersOnly DEF Next, RequestStep

\* Consumed rows are decided, and a redemption's locked row is open: the inductive
\* invariant, together with the types.
THEOREM RowsAreGuarded == Spec => []RowsGuarded
  <1>1. Init => RowsGuarded
    <2> SUFFICES ASSUME Init
                 PROVE  RowsGuarded
      OBVIOUS
    <2>1. \A a \in Approvers : ~row[a].consumed /\ row[a].decision = "none"
      BY DEF Init, NoRow
    <2>2. \A q \in RedeemRequests : req[q].pc = "new"
      BY ApprovalsAssumption DEF Init, NewRequest
    <2>3. QED
      BY <2>1, <2>2 DEF RowsGuarded, Running, At
  <1>2. QED
    BY <1>1, GuardedStep, TypeCorrect, PTL DEF Spec
-----------------------------------------------------------------------------

\* The three commits, one by one; every other step leaves the outcome alone and
\* writes on no row more than that it has been issued.
LEMMA OutcomeSteps ==
  ASSUME TypeOK, RowsGuarded, [Next]_vars
  PROVE  \/ \E q \in RedeemRequests : RedeemCommit(q) /\ istatus = "PENDING_APPROVAL"
         \/ \E q \in Requests : DecideReject(q) /\ istatus = "PENDING_APPROVAL"
         \/ \E q \in Requests :
               DecideApprove(q) /\ ~(istatus # "PENDING_APPROVAL" /\ Refuse(q))
         \/ /\ UNCHANGED <<istatus, exceptions, post_job>>
            /\ \A a \in Approvers :
                 /\ row'[a].consumed = row[a].consumed /\ row'[a].decision = row[a].decision
                 /\ row[a].consumed => row'[a] = row[a]
  <1> DEFINE Quiet == /\ UNCHANGED <<istatus, exceptions, post_job>>
                      /\ \A a \in Approvers :
                           /\ row'[a].consumed = row[a].consumed
                           /\ row'[a].decision = row[a].decision
                           /\ row[a].consumed => row'[a] = row[a]
  <1> USE DEF bizVars, lockVars
  <1>1. ASSUME UNCHANGED bizVars PROVE Quiet
    BY <1>1
  <1>2. ASSUME NEW a \in Approvers, issue_approval_token(a) PROVE Quiet
    BY <1>2 DEF issue_approval_token, TypeOK, RowsGuarded, Rows
  <1>3. ASSUME NEW a \in Approvers, Expire(a) PROVE Quiet
    BY <1>1, <1>3 DEF Expire
  <1>4. ASSUME NEW q \in Requests, NEW a \in Approvers, NEW d \in Decisions,
               RedeemStart(q, a, d)
        PROVE  Quiet
    BY <1>1, <1>4 DEF RedeemStart
  <1>5. ASSUME NEW q \in Requests, NEW u \in Users, NEW d \in Decisions,
               DecideStart(q, u, d)
        PROVE  Quiet
    BY <1>1, <1>5 DEF DecideStart
  <1>6. ASSUME NEW q \in Requests,
               \/ RedeemLockRow(q) \/ DecideLockInvoice(q) \/ DecideRefuse(q)
               \/ (\E a \in Approvers : DecideLockRow(q, a))
               \/ BreakDeadlock(q) \/ Abandon(q) \/ Refuse(q)
        PROVE  Quiet
    BY <1>1, <1>6 DEF RedeemLockRow, DecideLockInvoice, DecideLockRow, DecideRefuse,
                      BreakDeadlock, Abandon, Refuse
  <1>7. ASSUME NEW q \in Requests, RedeemCommit(q)
        PROVE  (q \in RedeemRequests /\ istatus = "PENDING_APPROVAL") \/ Refuse(q)
    BY <1>7 DEF RedeemCommit
  <1>8. ASSUME NEW q \in Requests, DecideReject(q)
        PROVE  istatus = "PENDING_APPROVAL" \/ Refuse(q)
    BY <1>8 DEF DecideReject, _settle_invoice
  <1>9. CASE UNCHANGED vars
    BY <1>1, <1>9 DEF vars
  <1>10. QED
    BY <1>2, <1>3, <1>4, <1>5, <1>6, <1>7, <1>8, <1>9 DEF Next, RequestStep

\* Single use of a row: whatever token redemptions and in-app decisions race for
\* it, a consumed row never changes again.
THEOREM ConsumedRowsAreFinal == Spec => ConsumedOnce
  <1>1. TypeOK /\ RowsGuarded /\ [Next]_vars =>
          [\A a \in Approvers : row[a].consumed => row'[a] = row[a]]_vars
    <2> SUFFICES ASSUME TypeOK, RowsGuarded, [Next]_vars,
                        NEW a \in Approvers, row[a].consumed
                 PROVE  row'[a] = row[a]
      OBVIOUS
    <2>0. ReqOK
      BY DEF TypeOK, ReqOK
    <2>1. ASSUME NEW q \in RedeemRequests, RedeemCommit(q), istatus = "PENDING_APPROVAL"
          PROVE  row'[a] = row[a]
      <3>1. q \in Requests
        BY ApprovalsAssumption
      <3>2. /\ req[q].approver \in Approvers /\ req[q].decision \in Decisions
            /\ ~row[req[q].approver].consumed
        BY <2>0, <2>1, <3>1, RequestFields DEF RedeemCommit, At, Running, RowsGuarded
      <3>3. QED
        BY <2>1, <3>1, <3>2, RedeemRow
    <2>2. ASSUME NEW q \in Requests, DecideReject(q), istatus = "PENDING_APPROVAL"
          PROVE  row'[a] = row[a]
      <3>1. req[q].user \in Approvers
        BY <2>2 DEF DecideReject, HasOpenRow, Issued
      <3>2. QED
        BY <2>2, <3>1, RejectRows
    <2>3. ASSUME NEW q \in Requests, DecideApprove(q),
                 ~(istatus # "PENDING_APPROVAL" /\ Refuse(q))
          PROVE  row'[a] = row[a]
      <3>1. req[q].user \in Approvers /\ ~row[req[q].user].consumed
        BY <2>3 DEF DecideApprove, HasOpenRow, Issued
      <3>2. QED
        BY <2>3, <3>1, ApproveRow
    <2>4. QED
      BY <2>1, <2>2, <2>3, OutcomeSteps
  <1>2. QED
    BY <1>1, TypeCorrect, RowsAreGuarded, PTL DEF Spec, ConsumedOnce

\* A settled invoice stays settled, however many tokens and open rows are left.
THEOREM SettledInvoicesAreFinal == Spec => SettledOnce
  <1>1. TypeOK /\ RowsGuarded /\ [Next]_vars =>
          [istatus # "PENDING_APPROVAL" => istatus' = istatus]_vars
    BY OutcomeSteps DEF DecideApprove, _settle_invoice
  <1>2. QED
    BY <1>1, TypeCorrect, RowsAreGuarded, PTL DEF Spec, SettledOnce
-----------------------------------------------------------------------------

\* Every step keeps the agreement of the invoice with the rows.  An approval that
\* settles the invoice has seen no rejection: there is none while it is pending.
LEMMA OutcomeStep ==
  TypeOK /\ RowsGuarded /\ OutcomeAgreesWithRows /\ [Next]_vars => OutcomeAgreesWithRows'
  <1> SUFFICES ASSUME TypeOK, RowsGuarded, OutcomeAgreesWithRows, [Next]_vars
               PROVE  OutcomeAgreesWithRows'
    OBVIOUS
  <1> DEFINE Said(r, d) == \E a \in Approvers : r[a].decision = d
             Agrees(r, s) == /\ s = "PENDING_APPROVAL" => ~Said(r, "rejected")
                             /\ s = "REJECTED" => Said(r, "rejected")
                             /\ s = "APPROVED" => Said(r, "approved") /\ ~Said(r, "rejected")
  <1>0. ReqOK /\ istatus \in {"PENDING_APPROVAL", "APPROVED", "REJECTED"}
    BY DEF TypeOK, ReqOK
  <1>1. Agrees(row, istatus) /\ (Agrees(row', istatus') => OutcomeAgreesWithRows')
    BY DEF OutcomeAgreesWithRows
  <1>2. ASSUME NEW q \in RedeemRequests, RedeemCommit(q), istatus = "PENDING_APPROVAL"
        PROVE  Agrees(row', istatus')
    <2>1. q \in Requests
      BY ApprovalsAssumption
    <2>2. req[q].approver \in Approvers /\ req[q].decision \in Decisions
      BY <1>0, <1>2, <2>1, RequestFields DEF RedeemCommit, At, Running
    <2>3. istatus' = StatusFor(req[q].decision)
      BY <1>2 DEF RedeemCommit
    <2>4. /\ row'[req[q].approver].decision = req[q].decision
          /\ \A b \in Approvers \ {req[q].approver} : row'[b] = row[b]
      BY <1>2, <2>1, <2>2, RedeemRow
    <2>5. QED
      BY <1>1, <1>2, <2>2, <2>3, <2>4 DEF StatusFor, Decisions
  <1>3. ASSUME NEW q \in Requests, DecideReject(q), istatus = "PENDING_APPROVAL"
        PROVE  Agrees(row', istatus')
    <2>1. req[q].user \in Approvers /\ row[req[q].user].issued /\ ~row[req[q].user].consumed
      BY <1>3 DEF DecideReject, HasOpenRow, Issued
    <2>2. istatus' = "REJECTED"
      BY <1>3 DEF DecideReject, _settle_invoice, StatusFor
    <2>3. row'[req[q].user].decision = "rejected"
      BY <1>3, <2>1, RejectRows
    <2>4. QED
      BY <2>1, <2>2, <2>3
  <1>4. ASSUME NEW q \in Requests, DecideApprove(q),
               ~(istatus # "PENDING_APPROVAL" /\ Refuse(q))
        PROVE  Agrees(row', istatus')
    <2>1. req[q].user \in Approvers /\ ~row[req[q].user].consumed
      BY <1>4 DEF DecideApprove, HasOpenRow, Issued
    <2>2. /\ row'[req[q].user].decision = "approved"
          /\ \A b \in Approvers \ {req[q].user} : row'[b] = row[b]
      BY <1>4, <2>1, ApproveRow
    <2>3. row[req[q].user].decision = "none"
      BY <2>1 DEF RowsGuarded
    <2>4. istatus' = istatus \/ (istatus = "PENDING_APPROVAL" /\ istatus' = "APPROVED")
      BY <1>4 DEF DecideApprove, _settle_invoice, StatusFor
    <2>5. QED
      BY <1>0, <1>1, <2>1, <2>2, <2>3, <2>4
  <1>5. ASSUME UNCHANGED istatus, \A a \in Approvers : row'[a].decision = row[a].decision
        PROVE  Agrees(row', istatus')
    BY <1>1, <1>5
  <1>6. QED
    BY <1>1, <1>2, <1>3, <1>4, <1>5, OutcomeSteps

\* The rows and the invoice tell the same story, for any number of approvers,
\* tokens and requests.
THEOREM OutcomesAgree == Spec => []OutcomeAgreesWithRows
  <1>1. Init => OutcomeAgreesWithRows
    BY DEF Init, OutcomeAgreesWithRows, NoRow
  <1>2. QED
    BY <1>1, OutcomeStep, TypeCorrect, RowsAreGuarded, PTL DEF Spec
-----------------------------------------------------------------------------

\* Every step keeps the side effects in line: a commit meets a pending invoice, so
\* nothing is posted and every exception open, and writes them with the outcome.
LEMMA SideEffectsStep ==
  TypeOK /\ RowsGuarded /\ SideEffectsAgree /\ [Next]_vars => SideEffectsAgree'
  <1> SUFFICES ASSUME TypeOK, RowsGuarded, SideEffectsAgree, [Next]_vars
               PROVE  SideEffectsAgree'
    OBVIOUS
  <1>0. ReqOK /\ exceptions \in [Exceptions -> {"open", "resolved", "dismissed"}]
    BY DEF TypeOK, ReqOK
  <1>1. ASSUME NEW es, NEW decision \in Decisions, CloseExceptions(es, decision),
               istatus = "PENDING_APPROVAL", istatus' = StatusFor(decision),
               post_job' => decision = "approved"
        PROVE  SideEffectsAgree'
    <2>1. \A e \in Exceptions : exceptions[e] = "open"
      BY <1>0, <1>1 DEF SideEffectsAgree
    <2>2. \A e \in Exceptions :
            exceptions'[e] \in {"open", IF decision = "approved" THEN "resolved" ELSE "dismissed"}
      BY <1>1, <2>1 DEF CloseExceptions
    <2>3. QED
      BY <1>1, <2>2 DEF SideEffectsAgree, StatusFor, Decisions
  <1>2. ASSUME NEW q \in RedeemRequests, RedeemCommit(q), istatus = "PENDING_APPROVAL"
        PROVE  SideEffectsAgree'
    <2>1. q \in Requests
      BY ApprovalsAssumption
    <2>2. req[q].decision \in Decisions
      BY <1>0, <1>2, <2>1, RequestFields DEF RedeemCommit, At, Running
    <2>3. /\ istatus' = StatusFor(req[q].decision)
          /\ CloseExceptions(IF Subject = NoException THEN Exceptions ELSE {Subject},
                             req[q].decision)
      BY <1>2 DEF RedeemCommit
    <2>4. post_job' => req[q].decision = "approved"
      BY <1>2 DEF RedeemCommit, SideEffectsAgree
    <2>5. QED
      BY <1>1, <1>2, <2>2, <2>3, <2>4
  <1>3. ASSUME NEW q \in Requests, DecideReject(q), istatus = "PENDING_APPROVAL"
        PROVE  SideEffectsAgree'
    <2>1. /\ istatus' = StatusFor("rejected") /\ CloseExceptions(Exceptions, "rejected")
          /\ post_job' = post_job
      BY <1>3 DEF DecideReject, _settle_invoice
    <2>2. QED
      BY <1>1, <1>3, <2>1 DEF SideEffectsAgree, Decisions
  <1>4. ASSUME UNCHANGED <<istatus, exceptions, post_job>> PROVE SideEffectsAgree'
    BY <1>4 DEF SideEffectsAgree
  <1>5. ASSUME NEW q \in Requests, DecideApprove(q),
               ~(istatus # "PENDING_APPROVAL" /\ Refuse(q))
        PROVE  SideEffectsAgree'
    <2>1. CASE _settle_invoice("approved")
      BY <1>1, <2>1 DEF _settle_invoice, SideEffectsAgree, Decisions
    <2>2. CASE ~_settle_invoice("approved")
      BY <1>4, <1>5, <2>2 DEF DecideApprove
    <2>3. QED
      BY <2>1, <2>2
  <1>6. QED
    BY <1>2, <1>3, <1>4, <1>5, OutcomeSteps

\* Only an approved invoice is posted and has its exceptions resolved; only a
\* rejected one has them dismissed.
THEOREM SideEffectsFollowOutcome == Spec => []SideEffectsAgree
  <1>1. Init => SideEffectsAgree
    BY DEF Init, SideEffectsAgree
  <1>2. QED
    BY <1>1, SideEffectsStep, TypeCorrect, RowsAreGuarded, PTL DEF Spec
=============================================================================
