------------------------------ MODULE MatchBoard ------------------------------
(***************************************************************************)
(* The match screen of one invoice, as one approver sees it                *)
(* (apps/web/components/match/match-board.tsx): it loads the view, lets    *)
(* the approver decide, and shows what the server answered.  Meanwhile     *)
(* other approvers, and the same person by a token or in another window,   *)
(* decide on the same invoice; clerks resolve its exceptions one by one    *)
(* from the queue; requests fail before or after the server has committed  *)
(* them; answers to two loads may arrive in either order.                  *)
(*                                                                         *)
(* React renders after every state change and runs the effects; that is    *)
(* one step with the change.  A frame callback is a step of its own.       *)
(***************************************************************************)
EXTENDS Naturals, FiniteSets

CONSTANTS
  Approvers,      \* who has an approval_requests row for the invoice
  Me,             \* actorUserId
  Lines,          \* the invoice's lines
  Matched,        \* those with a matchedPoLineId
  Findings,       \* the exceptions that its match has raised
  Severity,       \* of each of them
  LineOf,         \* its invoice_line_id, or NoLine
  Subject,        \* approval_requests.exception_id, or NoFinding
  ReducedMotion,  \* prefers-reduced-motion
  MaxLoads        \* bound: how often the screen loads the view

VARIABLES
  istatus,       \* invoices.status on the server
  row,           \* the approval_requests row of each approver
  open,          \* the exceptions with match_exceptions.status = 'open'
  view,          \* view: what the last answer to a load said, or NoView
  error,         \* error # null: the error page replaces the board
  deciding,      \* deciding
  decidedStatus, \* decidedStatus, or "none"
  myApproval,    \* myApproval, or NoApproval
  connectors,    \* the tone of each connector as it was measured
  animated,      \* animatedRef
  frame,         \* runEntranceTimeline is scheduled
  rows,          \* the rows on the page: "none", or with opacity "blank" or "shown"
  recoloured,    \* runApprovalTimeline has made the connectors on the page clean
  approving,     \* runApprovalTimeline is running
  loads,         \* the requests for the view, by number
  decide         \* the decide request

pageVars == <<view, error, deciding, decidedStatus, myApproval, connectors, animated,
              frame, rows, recoloured, approving>>
server == <<istatus, row, open>>
vars == <<istatus, row, open, pageVars, loads, decide>>

NoLine == "no line"
NoFinding == "no finding"

\* A token names the first blocking exception, if there is one.
Blocking == {e \in Findings : Severity[e] = "block"}

ASSUME MatchBoardAssumption ==
  /\ IsFiniteSet(Approvers) /\ Me \in Approvers
  /\ Matched \subseteq Lines
  /\ Severity \in [Findings -> {"info", "warn", "block"}]
  /\ LineOf \in [Findings -> Lines \cup {NoLine}]
  /\ Subject \in IF Blocking = {} THEN {NoFinding} ELSE Blocking
  /\ ReducedMotion \in BOOLEAN /\ MaxLoads \in Nat \ {0}

Decisions == {"approved", "rejected"}
Required == Cardinality(Approvers)

\* What the screen tells apart in a MatchView: the invoice's status, and which of its
\* exceptions are open.
MatchView == [status : {"PENDING_APPROVAL", "APPROVED", "REJECTED"}, open : SUBSET Findings]
NoView == [status |-> "none"]

\* The view of the rows as they are.
toView == [status |-> istatus, open |-> open]

\* What the server answers to a decision.
DecideResult == [status : Decisions \cup {"pending"}, received : 0..Required]
NoApproval == [status |-> "none"]

Failed == [status |-> "failed"]
Unused == [status |-> "unused"]
Sent == [status |-> "sent"]
Done == [status |-> "done"]

LineOutcome == {"clean", "variance", "block", "unmatched"}

\* The severities of those of the exceptions that are about a line.
SeveritiesOn(l, exceptions) == {Severity[e] : e \in {x \in exceptions : LineOf[x] = l}}

\* outcomeForInvoiceLine: only open exceptions count, and the worst of them.
outcomeForInvoiceLine(l, v) ==
  IF l \notin Matched THEN "unmatched"
  ELSE IF "block" \in SeveritiesOn(l, v.open) THEN "block"
  ELSE IF "warn" \in SeveritiesOn(l, v.open) THEN "variance"
  ELSE "clean"

\* Types.
TypeOK ==
  /\ istatus \in {"PENDING_APPROVAL", "APPROVED", "REJECTED"}
  /\ row \in [Approvers -> {"open", "approved", "rejected", "closed"}]
  /\ open \in SUBSET Findings
  /\ view \in MatchView \cup {NoView}
  /\ decidedStatus \in {"none", "APPROVED", "REJECTED"}
  /\ myApproval \in DecideResult \cup {NoApproval}
  /\ {error, deciding, animated, frame, recoloured, approving} \subseteq BOOLEAN
  /\ rows \in {"none", "blank", "shown"}
  /\ DOMAIN connectors \in {{}, Matched}
  /\ \A l \in DOMAIN connectors : connectors[l] \in LineOutcome
  /\ loads \in [1..MaxLoads -> MatchView \cup {Unused, Sent, Failed, Done}]
  /\ decide \in DecideResult \cup {Unused, Failed}
                  \cup [status : {"sent"}, decision : Decisions]

\* Before the screen is mounted, and mounted with its first load sent.
Start(mounted) ==
  /\ istatus = "PENDING_APPROVAL"
  /\ row = [a \in Approvers |-> "open"]
  /\ open = Findings
  /\ view = NoView /\ error = FALSE
  /\ deciding = FALSE /\ decidedStatus = "none" /\ myApproval = NoApproval
  /\ connectors = [l \in {} |-> "clean"] /\ animated = FALSE /\ frame = FALSE
  /\ rows = "none" /\ recoloured = FALSE /\ approving = FALSE
  /\ loads = [n \in 1..MaxLoads |-> IF mounted /\ n = 1 THEN Sent ELSE Unused]
  /\ decide = Unused

Init == Start(TRUE)

-----------------------------------------------------------------------------
(***************************************************************************)
(* The server                                                              *)
(***************************************************************************)

Approved == {a \in Approvers : row[a] = "approved"}

\* _settle_invoice: only from PENDING_APPROVAL (validate_transition), with all exceptions.
_settle_invoice(status) ==
  istatus = "PENDING_APPROVAL" /\ istatus' = status /\ open' = {}

\* decide_invoice by an approver whose row is open.  The row locks make it one step.  A
\* rejection closes the other rows, an approval settles the invoice only as the last; one
\* that is not the last is recorded whatever the status is.
decide_invoice(a, decision) ==
  /\ row[a] = "open"
  /\ \/ /\ decision = "rejected"
        /\ row' = [b \in Approvers |-> IF b = a THEN "rejected"
                                       ELSE IF row[b] = "open" THEN "closed" ELSE row[b]]
        /\ _settle_invoice("REJECTED")
     \/ /\ decision = "approved"
        /\ row' = [row EXCEPT ![a] = "approved"]
        /\ IF Cardinality(Approved) + 1 < Required THEN UNCHANGED <<istatus, open>>
                                                  ELSE _settle_invoice("APPROVED")

\* Its DecideResult.
ResultOf(decision) ==
  IF decision = "rejected" THEN [status |-> "rejected", received |-> 0]
  ELSE [status |-> IF Cardinality(Approved) + 1 < Required THEN "pending" ELSE "approved",
        received |-> Cardinality(Approved) + 1]

\* redeem_approval_token: one token settles the invoice alone.  Other open rows stay so,
\* and of the exceptions it closes the one the token is about, or all if it is about none.
redeem_approval_token(a, decision) ==
  /\ row[a] = "open" /\ istatus = "PENDING_APPROVAL"
  /\ row' = [row EXCEPT ![a] = decision]
  /\ istatus' = IF decision = "approved" THEN "APPROVED" ELSE "REJECTED"
  /\ open' = IF Subject = NoFinding THEN {} ELSE open \ {Subject}

\* resolve_exception, from the queue: the invoice and its rows stay as they are.
resolve_exception(e) ==
  e \in open /\ open' = open \ {e} /\ UNCHANGED <<istatus, row>>

\* Somebody decides elsewhere, another approver or this one in another window, in the app
\* or with a token; or a clerk resolves an exception from the queue.
DecideElsewhere(a, decision) ==
  /\ decide_invoice(a, decision)
  /\ UNCHANGED <<pageVars, loads, decide>>

RedeemElsewhere(a, decision) ==
  /\ redeem_approval_token(a, decision)
  /\ UNCHANGED <<pageVars, loads, decide>>

ResolveElsewhere(e) ==
  /\ resolve_exception(e)
  /\ UNCHANGED <<pageVars, loads, decide>>

\* get_match_view: the answer is the state of this moment.  (The status is selected before
\* the exceptions.  Had a decision come between the two, the answer would be the view of an
\* invoice that is still pending with fewer exceptions, which this step has too.)
ServeLoad(n) ==
  /\ loads[n] = Sent
  /\ loads' \in {[loads EXCEPT ![n] = toView], [loads EXCEPT ![n] = Failed]}
  /\ UNCHANGED <<server, pageVars, decide>>

\* The decision is committed and answered, or the answer is lost on its way; an approver
\* without an open row, or a settlement after another, is refused; or the request never
\* arrives.
ServeDecide ==
  /\ decide.status = "sent"
  /\ \/ /\ decide_invoice(Me, decide.decision)
        /\ decide' \in {ResultOf(decide.decision), Failed}
     \/ decide' = Failed /\ UNCHANGED server
  /\ UNCHANGED <<pageVars, loads>>

-----------------------------------------------------------------------------
(***************************************************************************)
(* The page                                                                *)
(***************************************************************************)

BoardMounted == view # NoView /\ ~error

\* A LineRow is mounted with the opacity-0 of its class; only a timeline changes that.
LineRow == "blank"

\* The colour in which the connector to line l is drawn.
Stroke(l) == IF recoloured THEN "clean" ELSE connectors[l]

\* The borders of the invoiced column, of the newest view: connectors do not follow it.
Invoiced == [l \in Lines |-> outcomeForInvoiceLine(l, view)]

\* The cards of the exception rail; without any it reads "No open exceptions."
ExceptionRail == view.open

\* setError: the error page replaces the board, whose elements go.
ShowError ==
  /\ error' = TRUE
  /\ rows' = "none" /\ recoloured' = FALSE

\* load, called by "Retry": the error goes, and the board of the view the page
\* still has is mounted again at once.
Retry ==
  /\ error
  /\ \E n \in 1..MaxLoads :
        /\ loads[n] = Unused /\ \A m \in 1..(n - 1) : loads[m] # Unused
        /\ loads' = [loads EXCEPT ![n] = Sent]
  /\ error' = FALSE
  /\ rows' = IF view = NoView THEN "none" ELSE LineRow
  /\ UNCHANGED <<server, view, deciding, decidedStatus, myApproval, connectors, animated,
                 frame, recoloured, approving, decide>>

\* The effect on [view], which does its work once: it measures the rows, builds the
\* connectors and schedules the entrance of rows and connectors.
MeasureOnce(v) ==
  IF animated \/ error
    THEN UNCHANGED <<connectors, animated, frame>>
    ELSE /\ connectors' = [l \in Matched |-> outcomeForInvoiceLine(l, v)]
         /\ animated' = TRUE /\ frame' = TRUE

\* fetchMatchView answers: setView.
LoadArrives(n) ==
  /\ loads[n] \in MatchView
  /\ loads' = [loads EXCEPT ![n] = Done]
  /\ view' = loads[n]
  /\ rows' = IF rows = "none" /\ ~error THEN LineRow ELSE rows
  /\ MeasureOnce(loads[n])
  /\ UNCHANGED <<server, error, deciding, decidedStatus, myApproval, recoloured, approving,
                 decide>>

LoadFails(n) ==
  /\ loads[n] = Failed
  /\ loads' = [loads EXCEPT ![n] = Done]
  /\ ShowError
  /\ UNCHANGED <<server, view, deciding, decidedStatus, myApproval, connectors, animated,
                 frame, approving, decide>>

\* runEntranceTimeline: all the rows there are fade in, and the connectors are drawn.
Entrance ==
  /\ frame
  /\ frame' = FALSE
  /\ rows' = IF rows = "blank" THEN "shown" ELSE rows
  /\ UNCHANGED <<server, view, error, deciding, decidedStatus, myApproval, connectors,
                 animated, recoloured, approving, loads, decide>>

\* Mutant: as long as the invoice is pending the buttons are there.
Mutant_canDecide == view.status = "PENDING_APPROVAL" /\ decidedStatus = "none"

\* The buttons are on the page.
canDecide ==
  view.status = "PENDING_APPROVAL" /\ decidedStatus = "none" /\ myApproval = NoApproval

\* The footer: the status it reads, the buttons that can be clicked, and the approvals
\* it says it waits for.
DecisionFooter ==
  [status |-> IF decidedStatus = "none" THEN view.status ELSE decidedStatus,
   buttons |-> IF canDecide /\ ~deciding THEN Decisions ELSE {},
   missing |-> IF decidedStatus = "none" /\ myApproval # NoApproval
                 THEN Required - myApproval.received ELSE 0]

\* handleDecide, up to its await.
handleDecide(decision) ==
  /\ BoardMounted /\ decision \in DecisionFooter.buttons
  /\ deciding' = TRUE
  /\ decide' = [status |-> "sent", decision |-> decision]
  /\ UNCHANGED <<server, view, error, decidedStatus, myApproval, connectors, animated,
                 frame, rows, recoloured, approving, loads>>

\* Mutant: an approval that was recorded is shown as the invoice's approval.
Mutant_Settles(result) == result.status \in {"approved", "pending"}

\* The answer that runs the approval timeline.
Settles(result) == result.status = "approved"

\* handleDecide goes on with the answer: the caller's part is done.  "approved" first
\* recolours the connectors and runs the timeline; "pending" leaves the status as it is.
DecideAnswered ==
  /\ decide \in DecideResult
  /\ decide' = Unused
  /\ myApproval' = decide
  /\ IF Settles(decide)
       THEN /\ recoloured' = BoardMounted
            /\ approving' = ~ReducedMotion
            /\ decidedStatus' = IF ReducedMotion THEN "APPROVED" ELSE decidedStatus
            /\ deciding' = ~ReducedMotion
       ELSE /\ decidedStatus' = IF decide.status = "rejected" THEN "REJECTED" ELSE decidedStatus
            /\ deciding' = FALSE
            /\ UNCHANGED <<recoloured, approving>>
  /\ UNCHANGED <<server, view, error, connectors, animated, frame, rows, loads>>

\* The callback of runApprovalTimeline.
ApprovalTimelineEnds ==
  /\ approving
  /\ approving' = FALSE
  /\ decidedStatus' = "APPROVED"
  /\ deciding' = FALSE
  /\ UNCHANGED <<server, view, error, myApproval, connectors, animated, frame, rows,
                 recoloured, loads, decide>>

\* Mutant: the buttons come back and nothing is said.
Mutant_DecideFails ==
  /\ decide = Failed
  /\ decide' = Unused
  /\ deciding' = FALSE
  /\ UNCHANGED <<server, view, error, decidedStatus, myApproval, connectors, animated,
                 frame, rows, recoloured, approving, loads>>

\* handleDecide's catch: refused, or no answer.  The page cannot tell which.
DecideFails ==
  /\ decide = Failed
  /\ decide' = Unused
  /\ deciding' = FALSE
  /\ ShowError
  /\ UNCHANGED <<server, view, decidedStatus, myApproval, connectors, animated, frame,
                 approving, loads>>

-----------------------------------------------------------------------------

Next ==
  \/ \E a \in Approvers, d \in Decisions : DecideElsewhere(a, d) \/ RedeemElsewhere(a, d)
  \/ \E e \in Findings : ResolveElsewhere(e)
  \/ \E n \in 1..MaxLoads : ServeLoad(n) \/ LoadArrives(n) \/ LoadFails(n)
  \/ \E d \in Decisions : handleDecide(d)
  \/ ServeDecide \/ DecideAnswered \/ DecideFails
  \/ Retry \/ Entrance \/ ApprovalTimelineEnds

Spec == Init /\ [][Next]_vars

\* Requests end, and the browser runs what has become ready.  Nobody is obliged to click.
Proceed ==
  \/ \E n \in 1..MaxLoads : ServeLoad(n) \/ LoadArrives(n) \/ LoadFails(n)
  \/ ServeDecide \/ DecideAnswered \/ DecideFails
  \/ Entrance \/ ApprovalTimelineEnds

\* What the screen waits for: the end of a decision, its timeline included.
Waiting == IF deciding THEN {"decision"} ELSE {}

-----------------------------------------------------------------------------
(***************************************************************************)
(* Properties                                                              *)
(***************************************************************************)

\* A colour makes light of a line when an exception that is open on the server is worse.
MakesLightOf(l, outcome) ==
  \/ "block" \in SeveritiesOn(l, open) /\ outcome # "block"
  \/ "warn" \in SeveritiesOn(l, open) /\ outcome = "clean"

\* The screen never claims more than the server has committed, whoever else decides or
\* resolves an exception, and whatever requests fail: a final status in the footer is the
\* invoice's; no exception that is open is missing from the rail, and no matched line looks
\* better, in its border or its connector, than the exceptions that are open on it;
\* connectors are recoloured only for an approval that has closed all exceptions; and the
\* footer misses at least the approvals that are missing (match-board.tsx:184-207, 228-251,
\* 303-366).
NeverClaimsTooMuch ==
  /\ BoardMounted =>
       /\ DecisionFooter.status \in {"PENDING_APPROVAL", istatus}
       /\ open \subseteq ExceptionRail
       /\ \A l \in Matched : ~MakesLightOf(l, Invoiced[l])
       /\ myApproval # NoApproval =>
             IF DecisionFooter.missing = 0 THEN istatus # "PENDING_APPROVAL"
             ELSE DecisionFooter.missing >= Required - Cardinality(Approved)
  /\ \A l \in DOMAIN connectors : ~MakesLightOf(l, Stroke(l))
  /\ recoloured => istatus = "APPROVED" /\ open = {}
  /\ myApproval # NoApproval => row[Me] \notin {"open", "closed"}

\* Once the server has acknowledged this approver's decision, "this caller has nothing
\* further to do either way" (match-board.tsx:61-65): the buttons never come back in
\* this visit, although answers to older loads may still replace the view.
AcknowledgedIsFinal ==
  [][myApproval # NoApproval => myApproval' = myApproval /\ ~canDecide']_vars

\* Every click is answered: when the buttons are released the approver sees either the
\* recorded decision or an error, even when a failed load has taken the board away while
\* the approval timeline ran.
ClickIsAnswered == [][deciding /\ ~deciding' => error' \/ myApproval' # NoApproval]_vars

\* Until somebody clicks "Retry", the rows of the board become visible
\* (line-row.tsx:48-49 leaves that to the one timeline of match-board.tsx).  After it
\* they need not: the board is mounted anew, and the timeline has had its one run.
RowsAreShown ==
  BoardMounted /\ ~frame /\ (\A n \in 2..MaxLoads : loads[n] = Unused) => rows = "shown"
=============================================================================
