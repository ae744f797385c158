--------------------------- MODULE MatchBoardProofs ---------------------------
(***************************************************************************)
(* Proofs about MatchBoard, for any approvers, lines and loads.            *)
(***************************************************************************)
EXTENDS MatchBoard, FiniteSetTheorems, TLAPS

-----------------------------------------------------------------------------
(***************************************************************************)
(* The decision of a visit                                                 *)
(***************************************************************************)

\* A recorded decision leaves no request that could bring another answer.
OneDecision == myApproval # NoApproval => decide = Unused

LEMMA OneDecisionHolds == OneDecision /\ [Next]_vars => OneDecision'
  <1> SUFFICES ASSUME OneDecision, [Next]_vars
               PROVE  OneDecision'
    OBVIOUS
  <1> USE DEF OneDecision, Unused, Failed, pageVars
  <1>1. ASSUME \/ \E a \in Approvers, d \in Decisions :
                    DecideElsewhere(a, d) \/ RedeemElsewhere(a, d)
               \/ \E e \in Findings : ResolveElsewhere(e)
        PROVE  OneDecision'
    BY <1>1 DEF DecideElsewhere, RedeemElsewhere, ResolveElsewhere
  <1>2. ASSUME NEW n \in 1..MaxLoads, ServeLoad(n) \/ LoadArrives(n) \/ LoadFails(n)
        PROVE  OneDecision'
    BY <1>2 DEF ServeLoad, LoadArrives, LoadFails
  <1>3. ASSUME NEW d \in Decisions, handleDecide(d)
        PROVE  OneDecision'
    BY <1>3 DEF handleDecide, DecisionFooter, canDecide
  <1>4. CASE ServeDecide
    BY <1>4 DEF ServeDecide
  <1>5. CASE DecideAnswered \/ DecideFails
    BY <1>5 DEF DecideAnswered, DecideFails
  <1>6. CASE Retry \/ Entrance \/ ApprovalTimelineEnds
    BY <1>6 DEF Retry, Entrance, ApprovalTimelineEnds
  <1>7. CASE UNCHANGED vars
    BY <1>7 DEF vars
  <1>8. QED
    BY <1>1, <1>2, <1>3, <1>4, <1>5, <1>6, <1>7 DEF Next

\* Once this approver's decision is acknowledged it is the last of the visit: no later
\* answer replaces it and the buttons never come back (match-board.tsx:61-65, 162-173).
THEOREM DecisionIsFinal == Spec => AcknowledgedIsFinal
  <1>1. Init => OneDecision
    BY DEF Init, Start, OneDecision
  <1>2. ASSUME OneDecision, [Next]_vars, myApproval # NoApproval
        PROVE  myApproval' = myApproval
    <2> USE <1>2 DEF OneDecision, Unused, Failed, pageVars
    <2>1. ~DecideAnswered
      BY DEF DecideAnswered, DecideResult, Decisions
    <2>2. QED
      BY <2>1 DEF Next, vars, DecideElsewhere, RedeemElsewhere, ResolveElsewhere,
                  ServeLoad, LoadArrives, LoadFails, handleDecide, ServeDecide,
                  DecideFails, Retry, Entrance, ApprovalTimelineEnds
  <1>3. OneDecision /\ [Next]_vars =>
          [myApproval # NoApproval => myApproval' = myApproval /\ ~canDecide']_vars
    BY <1>2 DEF canDecide
  <1>4. QED
    BY <1>1, <1>3, OneDecisionHolds, PTL DEF Spec, AcknowledgedIsFinal

-----------------------------------------------------------------------------
(***************************************************************************)
(* What the screen claims                                                  *)
(***************************************************************************)

\* The server's types.
ServerOK ==
  /\ istatus \in {"PENDING_APPROVAL", "APPROVED", "REJECTED"}
  /\ row \in [Approvers -> {"open", "approved", "rejected", "closed"}]
  /\ open \in SUBSET Findings

\* A view, wherever it is, is of the invoice as it is or as it was while it was pending,
\* with no fewer open exceptions than there are.
ViewOK(v) ==
  /\ v \in MatchView
  /\ v.status \in {"PENDING_APPROVAL", istatus}
  /\ open \subseteq v.open

\* An answer to a decision, wherever it is, does not exceed what is committed.
AnswerOK(r) ==
  /\ r \in DecideResult
  /\ row[Me] \notin {"open", "closed"}
  /\ r.status = "approved" => istatus = "APPROVED" /\ open = {} /\ r.received = Required
  /\ r.status = "rejected" => istatus = "REJECTED"
  /\ r.status = "pending" => r.received < Required /\ r.received <= Cardinality(Approved)

\* The same of what the page keeps, of the views on their way to it, and of its request.
ShownOK ==
  /\ view # NoView => ViewOK(view)
  /\ loads \in [1..MaxLoads -> MatchView \cup {Unused, Sent, Failed, Done}]
  /\ \A n \in 1..MaxLoads : loads[n] \in MatchView => ViewOK(loads[n])
  /\ myApproval # NoApproval =>
       /\ AnswerOK(myApproval)
       /\ myApproval.status = "rejected" => decidedStatus = "REJECTED"
  /\ decidedStatus \in {"none", "APPROVED", "REJECTED"}
  /\ decidedStatus \in {"none", istatus}
  /\ approving \/ recoloured => istatus = "APPROVED" /\ open = {}
  /\ \A l \in DOMAIN connectors : ~MakesLightOf(l, connectors[l])

RequestOK ==
  /\ decide \in DecideResult \cup {Unused, Failed}
                  \cup [status : {"sent"}, decision : Decisions]
  /\ decide \in DecideResult => AnswerOK(decide)

ClaimsInv == ServerOK /\ ShownOK /\ RequestOK

\* Approvers who approved are counted by a natural number up to Required, which is
\* reached when everybody has; one who has not decided yet leaves room for one more.
LEMMA Counting ==
  ASSUME ServerOK
  PROVE  /\ Required \in Nat /\ Cardinality(Approved) \in 0..Required
         /\ \A a \in Approvers : row[a] = "open" =>
              /\ Cardinality(Approved \cup {a}) = Cardinality(Approved) + 1
              /\ Cardinality(Approved) + 1 <= Required
              /\ Cardinality(Approved) + 1 = Required => Approved \cup {a} = Approvers
  <1>1. IsFiniteSet(Approvers) /\ Approved \subseteq Approvers
    BY MatchBoardAssumption DEF Approved
  <1>2. /\ Required \in Nat /\ Cardinality(Approved) \in Nat
        /\ IsFiniteSet(Approved) /\ Cardinality(Approved) <= Required
    BY <1>1, FS_Subset, FS_CardinalityType DEF Required
  <1>3. ASSUME NEW a \in Approvers, row[a] = "open"
        PROVE  /\ Cardinality(Approved \cup {a}) = Cardinality(Approved) + 1
               /\ Cardinality(Approved) + 1 <= Required
               /\ Cardinality(Approved) + 1 = Required => Approved \cup {a} = Approvers
    <2>1. a \notin Approved /\ Approved \cup {a} \subseteq Approvers
      BY <1>1, <1>3 DEF Approved
    <2>2. Cardinality(Approved \cup {a}) = Cardinality(Approved) + 1
      BY <1>2, <2>1, FS_AddElement
    <2>3. /\ Cardinality(Approved \cup {a}) <= Required
          /\ Cardinality(Approved \cup {a}) = Required => Approved \cup {a} = Approvers
      BY <1>1, <2>1, FS_Subset DEF Required
    <2>4. QED
      BY <2>2, <2>3
  <1>4. QED
    BY <1>2, <1>3

\* The server only goes forward: a settlement stays, exceptions are closed and not opened,
\* and a row that is decided or closed stays so.
Forward ==
  /\ istatus # "PENDING_APPROVAL" => istatus' = istatus
  /\ open' \subseteq open
  /\ \A b \in Approvers : row[b] # "open" => row'[b] = row[b]

\* What a commit of decide_invoice changes, and what it answers.
LEMMA DecisionStep ==
  ASSUME ServerOK, NEW a \in Approvers, NEW d \in Decisions, decide_invoice(a, d)
  PROVE  /\ ServerOK' /\ Forward
         /\ a = Me => \A r : r = ResultOf(d) => AnswerOK(r)'
  <1> DEFINE one == Cardinality(Approved) + 1
  <1>1. row[a] = "open" /\ Required' = Required
    BY DEF decide_invoice, Required
  <1>2. /\ Required \in Nat /\ Cardinality(Approved) \in 0..Required
        /\ Cardinality(Approved \cup {a}) = one /\ one <= Required
        /\ one = Required => Approved \cup {a} = Approvers
    BY <1>1, Counting
  <1>3. CASE d = "rejected"
    <2>1. /\ row' = [b \in Approvers |-> IF b = a THEN "rejected"
                                          ELSE IF row[b] = "open" THEN "closed" ELSE row[b]]
          /\ istatus = "PENDING_APPROVAL" /\ istatus' = "REJECTED" /\ open' = {}
      BY <1>3 DEF decide_invoice, _settle_invoice
    <2>2. ServerOK' /\ Forward /\ row'[a] = "rejected"
      BY <1>1, <2>1 DEF ServerOK, Forward
    <2>3. a = Me => \A r : r = ResultOf(d) => AnswerOK(r)'
      BY <1>2, <1>3, <2>1, <2>2 DEF AnswerOK, ResultOf, DecideResult, Decisions
    <2>4. QED
      BY <2>2, <2>3
  <1>4. CASE d = "approved"
    <2>1. /\ row' = [row EXCEPT ![a] = "approved"]
          /\ IF one < Required THEN UNCHANGED <<istatus, open>> ELSE _settle_invoice("APPROVED")
      BY <1>4 DEF decide_invoice
    <2>2. /\ Approved' = Approved \cup {a} /\ row'[a] = "approved"
          /\ row' \in [Approvers -> {"open", "approved", "rejected", "closed"}]
          /\ \A b \in Approvers : row[b] # "open" => row'[b] = row[b]
      BY <1>1, <2>1 DEF Approved, ServerOK
    <2>3. CASE one < Required
      <3>1. UNCHANGED <<istatus, open>>
        BY <2>1, <2>3
      <3>2. ServerOK' /\ Forward
        BY <2>2, <3>1 DEF ServerOK, Forward
      <3>3. ASSUME a = Me, NEW r, r = ResultOf(d)
            PROVE  AnswerOK(r)'
        <4>1. r = [status |-> "pending", received |-> one]
          BY <1>4, <2>3, <3>3 DEF ResultOf
        <4>2. one \in 0..Required /\ one = Cardinality(Approved')
          BY <1>2, <2>2, <2>3
        <4>3. r \in DecideResult'
          BY <1>1, <4>1, <4>2 DEF DecideResult
        <4>4. row'[Me] \notin {"open", "closed"}
          BY <2>2, <3>3
        <4>5. QED
          BY <1>1, <2>3, <4>1, <4>2, <4>3, <4>4 DEF AnswerOK
      <3>4. QED
        BY <3>2, <3>3
    <2>4. CASE one = Required
      <3>1. istatus = "PENDING_APPROVAL" /\ istatus' = "APPROVED" /\ open' = {}
        BY <1>2, <2>1, <2>4 DEF _settle_invoice
      <3>2. ServerOK' /\ Forward
        BY <2>2, <3>1 DEF ServerOK, Forward
      <3>3. ASSUME a = Me, NEW r, r = ResultOf(d)
            PROVE  AnswerOK(r)'
        <4>1. r = [status |-> "approved", received |-> Required]
          BY <1>2, <1>4, <2>4, <3>3 DEF ResultOf
        <4>2. r \in DecideResult'
          BY <1>1, <1>2, <4>1 DEF DecideResult, Decisions
        <4>3. row'[Me] \notin {"open", "closed"}
          BY <2>2, <3>3
        <4>4. QED
          BY <1>1, <3>1, <4>1, <4>2, <4>3 DEF AnswerOK
      <3>4. QED
        BY <3>2, <3>3
    <2>5. QED
      BY <1>2, <2>3, <2>4
  <1>5. QED
    BY <1>3, <1>4 DEF Decisions

\* A redeemed token, or an exception that is resolved from the queue.
LEMMA OthersStep ==
  ASSUME ServerOK,
         \/ \E a \in Approvers, d \in Decisions : redeem_approval_token(a, d)
         \/ \E e \in Findings : resolve_exception(e)
  PROVE  ServerOK' /\ Forward
  <1>1. ASSUME NEW a \in Approvers, NEW d \in Decisions, redeem_approval_token(a, d)
        PROVE  ServerOK' /\ Forward
    <2>1. /\ row[a] = "open" /\ istatus = "PENDING_APPROVAL"
          /\ row' = [row EXCEPT ![a] = d]
          /\ istatus' \in {"APPROVED", "REJECTED"}
          /\ open' \subseteq open
      BY <1>1 DEF redeem_approval_token
    <2>2. QED
      BY <2>1 DEF ServerOK, Forward, Decisions
  <1>2. ASSUME NEW e \in Findings, resolve_exception(e)
        PROVE  ServerOK' /\ Forward
    BY <1>2 DEF resolve_exception, ServerOK, Forward
  <1>3. QED
    BY <1>1, <1>2

\* With fewer exceptions open a colour makes light of no more lines.
LEMMA FewerOpen ==
  ASSUME NEW l, NEW outcome, open' \subseteq open, MakesLightOf(l, outcome)'
  PROVE  MakesLightOf(l, outcome)
  BY DEF MakesLightOf, SeveritiesOn

\* A commit, whosever it is, leaves what the page shows and what it was answered true.
LEMMA CommitKeeps ==
  ASSUME ServerOK, ServerOK', Forward
  PROVE  /\ \A r : AnswerOK(r) => AnswerOK(r)'
         /\ ShownOK /\ UNCHANGED <<pageVars, loads>> => ShownOK'
  <1> USE DEF Forward
  <1>1. /\ Cardinality(Approved) \in Nat /\ Cardinality(Approved') \in Nat
        /\ Cardinality(Approved) <= Cardinality(Approved') /\ Required' = Required
    <2>1. Approved \subseteq Approved' /\ Approved' \subseteq Approvers
      BY DEF Approved
    <2>2. QED
      BY <2>1, FS_Subset, FS_CardinalityType, MatchBoardAssumption DEF Required
  <1>2. ASSUME NEW r, AnswerOK(r)
        PROVE  AnswerOK(r)'
    <2>1. r \in DecideResult /\ r \in DecideResult' /\ r.received \in Nat
      BY <1>1, <1>2, Counting DEF AnswerOK, DecideResult, Decisions
    <2>2. row'[Me] \notin {"open", "closed"}
      BY <1>2, MatchBoardAssumption DEF AnswerOK
    <2>3. /\ r.status = "approved" => istatus' = "APPROVED" /\ open' = {} /\ r.received = Required
          /\ r.status = "rejected" => istatus' = "REJECTED"
      BY <1>2 DEF AnswerOK
    <2>4. r.status = "pending" => r.received < Required /\ r.received <= Cardinality(Approved')
      <3>1. r.status = "pending" => r.received < Required /\ r.received <= Cardinality(Approved)
        BY <1>2 DEF AnswerOK
      <3>2. QED
        BY <1>1, <2>1, <3>1
    <2>5. QED
      BY <1>1, <2>1, <2>2, <2>3, <2>4 DEF AnswerOK
  <1>3. ASSUME NEW v, ViewOK(v)
        PROVE  ViewOK(v)'
    BY <1>3 DEF ViewOK, MatchView
  <1>4. ASSUME ShownOK, UNCHANGED <<pageVars, loads>>
        PROVE  ShownOK'
    <2>1. UNCHANGED <<view, loads, myApproval, decidedStatus, approving, recoloured, connectors>>
      BY <1>4 DEF pageVars
    <2>2. /\ view' # NoView => ViewOK(view)'
          /\ \A n \in 1..MaxLoads : loads'[n] \in MatchView => ViewOK(loads[n])'
          /\ myApproval' # NoApproval => AnswerOK(myApproval)'
      BY <1>2, <1>3, <1>4, <2>1 DEF ShownOK
    <2>3. decidedStatus' \in {"none", istatus'}
      BY <1>4, <2>1 DEF ShownOK, ServerOK
    <2>4. ASSUME NEW l \in DOMAIN connectors'
          PROVE  ~MakesLightOf(l, connectors[l])'
      <3>1. ~MakesLightOf(l, connectors[l])
        BY <1>4, <2>1, <2>4 DEF ShownOK
      <3>2. QED
        BY <2>1, <3>1 DEF MakesLightOf, SeveritiesOn
    <2>5. approving' \/ recoloured' => istatus' = "APPROVED" /\ open' = {}
      BY <1>4, <2>1 DEF ShownOK
    <2>6. QED
      BY <1>4, <2>1, <2>2, <2>3, <2>4, <2>5 DEF ShownOK
  <1>5. QED
    BY <1>2, <1>4

\* The colour of a line in a view makes light of no exception.
LEMMA ViewsAreFair ==
  ASSUME NEW v, ViewOK(v), NEW l \in Matched
  PROVE  ~MakesLightOf(l, outcomeForInvoiceLine(l, v))
  <1>1. SeveritiesOn(l, open) \subseteq SeveritiesOn(l, v.open)
    BY DEF SeveritiesOn, ViewOK
  <1>2. QED
    BY <1>1 DEF MakesLightOf, outcomeForInvoiceLine

\* Steps of the page read the server's state and leave it.
LEMMA PageSteps ==
  ASSUME ClaimsInv, UNCHANGED server,
         \/ \E n \in 1..MaxLoads : ServeLoad(n) \/ LoadArrives(n) \/ LoadFails(n)
         \/ \E d \in Decisions : handleDecide(d)
         \/ DecideAnswered \/ DecideFails \/ Retry \/ Entrance \/ ApprovalTimelineEnds
         \/ UNCHANGED vars
  PROVE  ClaimsInv'
  <1>0. \A l, o : MakesLightOf(l, o) <=> MakesLightOf(l, o)'
    BY DEF server, MakesLightOf, SeveritiesOn
  <1>1. ServerOK' /\ \A r : (AnswerOK(r) <=> AnswerOK(r)') /\ (ViewOK(r) <=> ViewOK(r)')
    BY DEF server, ClaimsInv, ServerOK, AnswerOK, ViewOK, Approved
  <1> USE DEF server
  <1>2. ASSUME NEW n \in 1..MaxLoads, ServeLoad(n)
        PROVE  ShownOK' /\ RequestOK'
    <2>1. toView \in MatchView /\ ViewOK(toView)
      BY DEF ClaimsInv, ServerOK, ViewOK, toView, MatchView
    <2>2. loads' \in [1..MaxLoads -> MatchView \cup {Unused, Sent, Failed, Done}]
      BY <1>2, <2>1 DEF ClaimsInv, ShownOK, ServeLoad
    <2>3. Failed \notin MatchView
      BY DEF Failed, MatchView
    <2>4. ASSUME NEW m \in 1..MaxLoads, loads'[m] \in MatchView
          PROVE  ViewOK(loads'[m])
      BY <1>2, <2>1, <2>3, <2>4 DEF ClaimsInv, ShownOK, ServeLoad
    <2>5. ASSUME NEW m \in 1..MaxLoads, loads'[m] \in MatchView
          PROVE  ViewOK(loads[m])'
      BY <1>1, <2>4, <2>5
    <2>6. UNCHANGED <<view, myApproval, decidedStatus, approving, recoloured, connectors, decide>>
      BY <1>2 DEF ServeLoad, pageVars
    <2>7. QED
      BY <1>0, <1>1, <2>2, <2>5, <2>6 DEF ClaimsInv, ShownOK, RequestOK
  <1>3. ASSUME NEW n \in 1..MaxLoads, LoadArrives(n)
        PROVE  ShownOK' /\ RequestOK'
    <2>1. ViewOK(loads[n]) /\ view' = loads[n]
      BY <1>3 DEF ClaimsInv, ShownOK, LoadArrives
    <2>2. Done \notin MatchView
      BY DEF Done, MatchView
    <2>3. /\ loads' \in [1..MaxLoads -> MatchView \cup {Unused, Sent, Failed, Done}]
          /\ \A m \in 1..MaxLoads : loads'[m] \in MatchView => loads'[m] = loads[m]
      BY <1>3, <2>2 DEF ClaimsInv, ShownOK, LoadArrives
    <2>4. ASSUME NEW m \in 1..MaxLoads, loads'[m] \in MatchView
          PROVE  ViewOK(loads[m])'
      BY <1>1, <2>3, <2>4 DEF ClaimsInv, ShownOK
    <2>5. ViewOK(view)'
      BY <1>1, <2>1
    <2>6. ASSUME NEW l \in DOMAIN connectors'
          PROVE  ~MakesLightOf(l, connectors'[l])
      <3>1. CASE UNCHANGED connectors
        BY <2>6, <3>1 DEF ClaimsInv, ShownOK
      <3>2. CASE connectors' = [k \in Matched |-> outcomeForInvoiceLine(k, loads[n])]
        <4>1. l \in Matched /\ connectors'[l] = outcomeForInvoiceLine(l, loads[n])
          BY <2>6, <3>2
        <4>2. QED
          BY <2>1, <4>1, ViewsAreFair
      <3>3. QED
        BY <1>3, <3>1, <3>2 DEF LoadArrives, MeasureOnce
    <2>7. UNCHANGED <<myApproval, decidedStatus, approving, recoloured, decide>>
      BY <1>3 DEF LoadArrives
    <2>8. QED
      BY <1>0, <1>1, <2>3, <2>4, <2>5, <2>6, <2>7 DEF ClaimsInv, ShownOK, RequestOK
  <1>4. ASSUME NEW n \in 1..MaxLoads, LoadFails(n)
        PROVE  ShownOK' /\ RequestOK'
    <2>1. Done \notin MatchView
      BY DEF Done, MatchView
    <2>2. /\ loads' \in [1..MaxLoads -> MatchView \cup {Unused, Sent, Failed, Done}]
          /\ \A m \in 1..MaxLoads : loads'[m] \in MatchView => loads'[m] = loads[m]
      BY <1>4, <2>1 DEF ClaimsInv, ShownOK, LoadFails
    <2>3. ASSUME NEW m \in 1..MaxLoads, loads'[m] \in MatchView
          PROVE  ViewOK(loads[m])'
      BY <1>1, <2>2, <2>3 DEF ClaimsInv, ShownOK
    <2>4. /\ UNCHANGED <<view, myApproval, decidedStatus, approving, connectors, decide>>
          /\ ~recoloured'
      BY <1>4 DEF LoadFails, ShowError
    <2>5. QED
      BY <1>0, <1>1, <2>2, <2>3, <2>4 DEF ClaimsInv, ShownOK, RequestOK
  <1>5. ASSUME NEW d \in Decisions, handleDecide(d)
        PROVE  ShownOK' /\ RequestOK'
    <2>1. decide' \in [status : {"sent"}, decision : Decisions] /\ decide' \notin DecideResult
      BY <1>5 DEF handleDecide, DecideResult, Decisions
    <2>2. UNCHANGED <<view, loads, myApproval, decidedStatus, approving, recoloured, connectors>>
      BY <1>5 DEF handleDecide
    <2>3. QED
      BY <1>0, <1>1, <2>1, <2>2 DEF ClaimsInv, ShownOK, RequestOK
  <1>6. CASE DecideAnswered
    <2>1. /\ decide \in DecideResult /\ AnswerOK(decide) /\ myApproval' = decide
          /\ decide' = Unused /\ UNCHANGED <<view, loads, connectors>>
      BY <1>6 DEF DecideAnswered, ClaimsInv, RequestOK
    <2>2. AnswerOK(myApproval)' /\ Unused \notin DecideResult
      BY <1>1, <2>1 DEF Unused, DecideResult, Decisions
    <2>3. CASE decide.status = "approved"
      <3>1. /\ istatus = "APPROVED" /\ open = {}
            /\ decidedStatus' \in {decidedStatus, "APPROVED"}
        BY <1>6, <2>1, <2>3 DEF DecideAnswered, Settles, AnswerOK
      <3>2. QED
        BY <1>0, <1>1, <2>1, <2>2, <2>3, <3>1 DEF ClaimsInv, ShownOK, RequestOK
    <2>4. CASE decide.status = "rejected"
      <3>1. /\ istatus = "REJECTED" /\ decidedStatus' = "REJECTED"
            /\ UNCHANGED <<approving, recoloured>>
        BY <1>6, <2>1, <2>4 DEF DecideAnswered, Settles, AnswerOK
      <3>2. QED
        BY <1>0, <1>1, <2>1, <2>2, <2>4, <3>1 DEF ClaimsInv, ShownOK, RequestOK
    <2>5. CASE decide.status = "pending"
      <3>1. UNCHANGED <<decidedStatus, approving, recoloured>>
        BY <1>6, <2>1, <2>5 DEF DecideAnswered, Settles
      <3>2. QED
        BY <1>0, <1>1, <2>1, <2>2, <2>5, <3>1 DEF ClaimsInv, ShownOK, RequestOK
    <2>6. QED
      BY <2>1, <2>3, <2>4, <2>5 DEF DecideResult, Decisions
  <1>7. CASE DecideFails
    <2>1. /\ UNCHANGED <<view, loads, myApproval, decidedStatus, approving, connectors>>
          /\ ~recoloured' /\ decide' = Unused
      BY <1>7 DEF DecideFails, ShowError
    <2>2. Unused \notin DecideResult
      BY DEF Unused, DecideResult, Decisions
    <2>3. QED
      BY <1>0, <1>1, <2>1, <2>2 DEF ClaimsInv, ShownOK, RequestOK
  <1>8. CASE Retry
    <2>1. UNCHANGED <<view, myApproval, decidedStatus, approving, recoloured, connectors, decide>>
      BY <1>8 DEF Retry
    <2>2. Sent \notin MatchView
      BY DEF Sent, MatchView
    <2>3. /\ loads' \in [1..MaxLoads -> MatchView \cup {Unused, Sent, Failed, Done}]
          /\ \A m \in 1..MaxLoads : loads'[m] \in MatchView => loads'[m] = loads[m]
      BY <1>8, <2>2 DEF ClaimsInv, ShownOK, Retry
    <2>4. ASSUME NEW m \in 1..MaxLoads, loads'[m] \in MatchView
          PROVE  ViewOK(loads[m])'
      BY <1>1, <2>3, <2>4 DEF ClaimsInv, ShownOK
    <2>5. QED
      BY <1>0, <1>1, <2>1, <2>3, <2>4 DEF ClaimsInv, ShownOK, RequestOK
  <1>9. CASE Entrance \/ UNCHANGED vars
    <2>1. UNCHANGED <<view, loads, myApproval, decidedStatus, approving, recoloured, connectors,
                      decide>>
      BY <1>9 DEF Entrance, vars, pageVars
    <2>2. QED
      BY <1>0, <1>1, <2>1 DEF ClaimsInv, ShownOK, RequestOK
  <1>10. CASE ApprovalTimelineEnds
    <2>1. /\ istatus = "APPROVED" /\ open = {}
          /\ decidedStatus' = "APPROVED" /\ ~approving'
          /\ UNCHANGED <<view, loads, myApproval, recoloured, connectors, decide>>
      BY <1>10 DEF ApprovalTimelineEnds, ClaimsInv, ShownOK
    <2>2. myApproval # NoApproval => myApproval.status # "rejected"
      BY <2>1 DEF ClaimsInv, ShownOK, AnswerOK
    <2>3. QED
      BY <1>0, <1>1, <2>1, <2>2 DEF ClaimsInv, ShownOK, RequestOK
  <1>11. QED
    BY <1>1, <1>2, <1>3, <1>4, <1>5, <1>6, <1>7, <1>8, <1>9, <1>10 DEF ClaimsInv

LEMMA ClaimsStep ==
  ASSUME ClaimsInv, [Next]_vars
  PROVE  ClaimsInv'
  <1>1. ASSUME \/ \E a \in Approvers, d \in Decisions :
                    DecideElsewhere(a, d) \/ RedeemElsewhere(a, d)
               \/ \E e \in Findings : ResolveElsewhere(e)
        PROVE  ClaimsInv'
    <2>1. /\ \/ \E a \in Approvers, d \in Decisions : decide_invoice(a, d)
             \/ \/ \E a \in Approvers, d \in Decisions : redeem_approval_token(a, d)
                \/ \E e \in Findings : resolve_exception(e)
          /\ UNCHANGED <<pageVars, loads, decide>>
      BY <1>1 DEF DecideElsewhere, RedeemElsewhere, ResolveElsewhere
    <2>2. ServerOK' /\ Forward
      BY <2>1, DecisionStep, OthersStep DEF ClaimsInv
    <2>3. ShownOK' /\ \A r : AnswerOK(r) => AnswerOK(r)'
      BY <2>1, <2>2, CommitKeeps DEF ClaimsInv
    <2>4. QED
      BY <2>1, <2>2, <2>3 DEF ClaimsInv, RequestOK
  <1>2. CASE ServeDecide
    <2>1. decide \in [status : {"sent"}, decision : Decisions]
      BY <1>2 DEF ServeDecide, ClaimsInv, RequestOK, DecideResult, Unused, Failed, Decisions
    <2>2. Failed \notin DecideResult
      BY DEF Failed, DecideResult, Decisions
    <2>3. UNCHANGED <<pageVars, loads>>
      BY <1>2 DEF ServeDecide
    <2>4. CASE UNCHANGED server /\ decide' = Failed
      <3>1. ServerOK' /\ Forward
        BY <2>4 DEF server, ClaimsInv, ServerOK, Forward
      <3>2. ShownOK'
        BY <2>3, <3>1, CommitKeeps DEF ClaimsInv
      <3>3. QED
        BY <2>2, <2>4, <3>1, <3>2 DEF ClaimsInv, RequestOK
    <2>5. CASE /\ decide_invoice(Me, decide.decision)
               /\ decide' \in {ResultOf(decide.decision), Failed}
      <3>1. PICK d \in Decisions : d = decide.decision
        BY <2>1
      <3>2. decide_invoice(Me, d) /\ Me \in Approvers /\ decide' \in {ResultOf(d), Failed}
        BY <2>5, <3>1, MatchBoardAssumption
      <3>3. ServerOK' /\ ShownOK' /\ \A r : r = ResultOf(d) => AnswerOK(r)'
        <4>1. ServerOK' /\ Forward /\ \A r : r = ResultOf(d) => AnswerOK(r)'
          BY <3>2, DecisionStep DEF ClaimsInv
        <4>2. ShownOK'
          BY <2>3, <4>1, CommitKeeps DEF ClaimsInv
        <4>3. QED
          BY <4>1, <4>2
      <3>4. CASE decide' = Failed
        BY <2>2, <3>3, <3>4 DEF ClaimsInv, RequestOK
      <3>5. CASE decide' = ResultOf(d)
        <4>1. AnswerOK(decide)'
          BY <3>3, <3>5
        <4>2. QED
          BY <3>3, <4>1 DEF ClaimsInv, RequestOK, AnswerOK
      <3>6. QED
        BY <3>2, <3>4, <3>5
    <2>6. QED
      BY <1>2, <2>4, <2>5 DEF ServeDecide
  <1>3. CASE \/ \E n \in 1..MaxLoads : ServeLoad(n) \/ LoadArrives(n) \/ LoadFails(n)
             \/ \E d \in Decisions : handleDecide(d)
             \/ DecideAnswered \/ DecideFails \/ Retry \/ Entrance \/ ApprovalTimelineEnds
             \/ UNCHANGED vars
    <2>1. UNCHANGED server
      BY <1>3 DEF ServeLoad, LoadArrives, LoadFails, handleDecide, DecideAnswered, DecideFails,
                  Retry, Entrance, ApprovalTimelineEnds, vars, server
    <2>2. QED
      BY <1>3, <2>1, PageSteps
  <1>4. QED
    BY <1>1, <1>2, <1>3 DEF Next

\* What the page has, and what is on its way to it, bears out every claim of the screen.
LEMMA ClaimsAreBacked ==
  ASSUME ClaimsInv
  PROVE  NeverClaimsTooMuch
  <1>1. Required \in Nat /\ Cardinality(Approved) \in 0..Required
    BY Counting DEF ClaimsInv
  <1>2. ASSUME BoardMounted
        PROVE  /\ DecisionFooter.status \in {"PENDING_APPROVAL", istatus}
               /\ open \subseteq ExceptionRail
               /\ \A l \in Matched : ~MakesLightOf(l, Invoiced[l])
    <2>1. ViewOK(view)
      BY <1>2 DEF BoardMounted, ClaimsInv, ShownOK
    <2>2. DecisionFooter.status \in {"PENDING_APPROVAL", istatus}
      BY <2>1 DEF ClaimsInv, ShownOK, ViewOK, DecisionFooter
    <2>3. ASSUME NEW l \in Matched
          PROVE  ~MakesLightOf(l, Invoiced[l])
      <3>1. Invoiced[l] = outcomeForInvoiceLine(l, view)
        BY MatchBoardAssumption DEF Invoiced
      <3>2. QED
        BY <2>1, <3>1, ViewsAreFair
    <2>4. QED
      BY <2>1, <2>2, <2>3 DEF ViewOK, ExceptionRail
  <1>3. ASSUME myApproval # NoApproval
        PROVE  /\ IF DecisionFooter.missing = 0 THEN istatus # "PENDING_APPROVAL"
                  ELSE DecisionFooter.missing >= Required - Cardinality(Approved)
               /\ row[Me] \notin {"open", "closed"}
    <2>1. AnswerOK(myApproval)
      BY <1>3 DEF ClaimsInv, ShownOK
    <2>2. CASE decidedStatus # "none"
      <3>1. DecisionFooter.missing = 0
        BY <2>2 DEF DecisionFooter
      <3>2. istatus # "PENDING_APPROVAL"
        BY <2>2 DEF ClaimsInv, ShownOK
      <3>3. QED
        BY <2>1, <3>1, <3>2 DEF AnswerOK
    <2>3. CASE decidedStatus = "none"
      <3>1. DecisionFooter.missing = Required - myApproval.received
        BY <1>3, <2>3 DEF DecisionFooter
      <3>2. myApproval.received \in 0..Required
        BY <2>1 DEF AnswerOK, DecideResult
      <3>3. CASE myApproval.status = "approved"
        <4>1. istatus = "APPROVED" /\ myApproval.received = Required
          BY <2>1, <3>3 DEF AnswerOK
        <4>2. DecisionFooter.missing = 0
          BY <1>1, <3>1, <4>1
        <4>3. QED
          BY <2>1, <4>1, <4>2 DEF AnswerOK
      <3>4. CASE myApproval.status = "pending"
        <4>1. myApproval.received < Required /\ myApproval.received <= Cardinality(Approved)
          BY <2>1, <3>4 DEF AnswerOK
        <4>2. /\ DecisionFooter.missing # 0
              /\ DecisionFooter.missing >= Required - Cardinality(Approved)
          BY ONLY <1>1, <3>1, <3>2, <4>1
        <4>3. QED
          BY <2>1, <4>2 DEF AnswerOK
      <3>5. myApproval.status # "rejected"
        BY <1>3, <2>3 DEF ClaimsInv, ShownOK
      <3>6. QED
        BY <2>1, <3>3, <3>4, <3>5 DEF AnswerOK, DecideResult, Decisions
    <2>4. QED
      BY <2>2, <2>3
  <1>4. ASSUME NEW l \in DOMAIN connectors
        PROVE  ~MakesLightOf(l, Stroke(l))
    <2>1. CASE recoloured
      BY <2>1 DEF ClaimsInv, ShownOK, MakesLightOf, SeveritiesOn
    <2>2. CASE ~recoloured
      BY <1>4, <2>2 DEF Stroke, ClaimsInv, ShownOK
    <2>3. QED
      BY <2>1, <2>2
  <1>5. recoloured => istatus = "APPROVED" /\ open = {}
    BY DEF ClaimsInv, ShownOK
  <1>6. QED
    BY <1>2, <1>3, <1>4, <1>5 DEF NeverClaimsTooMuch

\* The screen starts with nothing to claim, whether it is mounted or not.
LEMMA ClaimsInit == ASSUME NEW mounted \in BOOLEAN, Start(mounted) PROVE ClaimsInv
  <1>1. Sent \notin MatchView /\ Unused \notin MatchView /\ Unused \notin DecideResult
    BY DEF Sent, Unused, MatchView, DecideResult, Decisions
  <1>2. ServerOK
    BY DEF Start, ServerOK
  <1>3. loads \in [1..MaxLoads -> {Sent, Unused}]
    BY DEF Start
  <1>4. ShownOK
    BY <1>1, <1>3 DEF Start, ShownOK
  <1>5. RequestOK
    BY <1>1 DEF Start, RequestOK
  <1>6. QED
    BY <1>2, <1>4, <1>5 DEF ClaimsInv

\* The inductive invariant of the match screen: the views and answers that it has, or
\* that are on their way to it in any order, never exceed what the server has committed.
THEOREM AnswersAreBacked == Spec => []ClaimsInv
  <1>1. Init => ClaimsInv
    BY ClaimsInit DEF Init
  <1>2. ClaimsInv /\ [Next]_vars => ClaimsInv'
    BY ClaimsStep
  <1>3. QED
    BY <1>1, <1>2, PTL DEF Spec

\* The screen never claims more than the server has committed: the footer's status, the
\* approvals that are missing, clean connectors and borders, the empty exception rail
\* (match-board.tsx:184-207, 228-251, 303-366).
THEOREM ClaimsAreTrue == Spec => []NeverClaimsTooMuch
  <1>1. ClaimsInv => NeverClaimsTooMuch
    BY ClaimsAreBacked
  <1>2. QED
    BY <1>1, AnswersAreBacked, PTL

-----------------------------------------------------------------------------
(***************************************************************************)
(* What becomes of a click, and of the rows                                *)
(***************************************************************************)

\* While the approval timeline runs, the decision it celebrates is recorded.
TimelineHasDecision == approving => myApproval # NoApproval

LEMMA TimelineStep == TimelineHasDecision /\ [Next]_vars => TimelineHasDecision'
  <1> USE DEF TimelineHasDecision, pageVars
  <1>1. DecideAnswered => TimelineHasDecision'
    BY DEF DecideAnswered, Settles, DecideResult, Decisions, NoApproval
  <1>2. QED
    BY <1>1 DEF Next, vars, DecideElsewhere, RedeemElsewhere, ResolveElsewhere, ServeLoad,
                LoadArrives, LoadFails, handleDecide, ServeDecide, DecideFails, Retry, Entrance,
                ApprovalTimelineEnds

\* Every click on a button of the footer is answered: when the buttons are released the
\* approver has the recorded decision or sees an error, even when a failed load takes the
\* board away while the approval timeline runs (match-board.tsx:162-181).
THEOREM ClicksAreAnswered == Spec => ClickIsAnswered
  <1>1. Init => TimelineHasDecision
    BY DEF Init, Start, TimelineHasDecision
  <1>2. ASSUME TimelineHasDecision, [Next]_vars, deciding, ~deciding'
        PROVE  error' \/ myApproval' # NoApproval
    <2>1. CASE DecideAnswered
      BY <2>1 DEF DecideAnswered, DecideResult, Decisions, NoApproval
    <2>2. CASE DecideFails
      BY <2>2 DEF DecideFails, ShowError
    <2>3. CASE ApprovalTimelineEnds
      BY <1>2, <2>3 DEF ApprovalTimelineEnds, TimelineHasDecision
    <2>4. QED
      BY <1>2, <2>1, <2>2, <2>3
      DEF Next, vars, pageVars, DecideElsewhere, RedeemElsewhere, ResolveElsewhere, ServeLoad,
          LoadArrives, LoadFails,
          handleDecide, ServeDecide, Retry, Entrance
  <1>3. TimelineHasDecision /\ [Next]_vars =>
          [deciding /\ ~deciding' => error' \/ myApproval' # NoApproval]_vars
    BY <1>2
  <1>4. QED
    BY <1>1, <1>3, TimelineStep, PTL DEF Spec, ClickIsAnswered

\* Until a second load is asked for: the board comes with the first answer, as blank rows
\* whose entrance is scheduled at once.
FirstLoadOnly == \A n \in 2..MaxLoads : loads[n] = Unused

FirstEntrance ==
  /\ loads \in [1..MaxLoads -> MatchView \cup {Unused, Sent, Failed, Done}]
  /\ FirstLoadOnly =>
       /\ loads[1] # Done =>
            /\ view = NoView /\ ~error /\ rows = "none" /\ ~animated /\ ~frame
            /\ decide = Unused
       /\ BoardMounted => rows = "shown" \/ (rows = "blank" /\ frame)

LEMMA FirstEntranceStep == ClaimsInv /\ FirstEntrance /\ [Next]_vars => FirstEntrance'
  <1> SUFFICES ASSUME ClaimsInv, FirstEntrance, [Next]_vars
               PROVE  FirstEntrance'
    OBVIOUS
  <1> USE DEF FirstEntrance, FirstLoadOnly
  <1>0. /\ MaxLoads \in Nat /\ 1 \in 1..MaxLoads
        /\ \A n \in 1..MaxLoads : n = 1 \/ n \in 2..MaxLoads
    BY MatchBoardAssumption
  <1>1. ASSUME \/ \E a \in Approvers, d \in Decisions :
                    DecideElsewhere(a, d) \/ RedeemElsewhere(a, d)
               \/ \E e \in Findings : ResolveElsewhere(e)
        PROVE  FirstEntrance'
    <2>1. UNCHANGED <<pageVars, loads, decide>>
      BY <1>1 DEF DecideElsewhere, RedeemElsewhere, ResolveElsewhere
    <2>2. QED
      BY <2>1 DEF pageVars, BoardMounted
  <1>2. ASSUME NEW n \in 1..MaxLoads, ServeLoad(n)
        PROVE  FirstEntrance'
    <2>1. toView \in MatchView
      BY DEF ClaimsInv, ServerOK, toView, MatchView
    <2>2. \A v \in MatchView \cup {Failed} : v # Unused
      BY DEF MatchView, Unused, Failed
    <2>3. PICK v \in MatchView \cup {Failed} : loads' = [loads EXCEPT ![n] = v]
      BY <1>2, <2>1 DEF ServeLoad
    <2>4. /\ loads[n] = Sent
          /\ UNCHANGED <<view, error, rows, animated, frame, decide>>
      BY <1>2 DEF ServeLoad, pageVars
    <2>5. QED
      BY <1>0, <2>2, <2>3, <2>4 DEF BoardMounted, Sent, Unused, Done
  <1>3. ASSUME NEW n \in 1..MaxLoads, LoadArrives(n)
        PROVE  FirstEntrance'
    BY <1>0, <1>3 DEF LoadArrives, MeasureOnce, BoardMounted, Sent, Failed, Unused, Done,
                      MatchView, LineRow, NoView
  <1>4. ASSUME NEW n \in 1..MaxLoads, LoadFails(n)
        PROVE  FirstEntrance'
    BY <1>0, <1>4 DEF LoadFails, ShowError, BoardMounted, Sent, Failed, Unused, Done
  <1>5. ASSUME NEW d \in Decisions, handleDecide(d)
        PROVE  FirstEntrance'
    BY <1>5 DEF handleDecide, BoardMounted
  <1>6. CASE ServeDecide
    BY <1>6 DEF ServeDecide, pageVars, BoardMounted, Unused
  <1>7. CASE DecideAnswered
    BY <1>7 DEF DecideAnswered, BoardMounted
  <1>8. CASE DecideFails
    BY <1>8 DEF DecideFails, ShowError, BoardMounted, Unused, Failed
  <1>9. CASE Retry
    <2>1. PICK n \in 1..MaxLoads :
            loads[n] = Unused /\ loads' = [loads EXCEPT ![n] = Sent] /\ error
      BY <1>9 DEF Retry
    <2>2. Sent # Unused /\ Unused # Done
      BY DEF Sent, Unused, Done
    <2>3. loads' \in [1..MaxLoads -> MatchView \cup {Unused, Sent, Failed, Done}]
      BY <2>1
    <2>4. CASE n = 1
      <3>1. ~FirstLoadOnly
        BY <2>1, <2>2, <2>4
      <3>2. PICK m \in 2..MaxLoads : loads[m] # Unused
        BY <3>1
      <3>3. m \in 1..MaxLoads /\ m # 1
        BY <1>0
      <3>4. loads'[m] = loads[m]
        BY <2>1, <2>4, <3>3
      <3>5. ~FirstLoadOnly'
        BY <3>2, <3>4
      <3>6. QED
        BY <2>3, <3>5
    <2>5. CASE n # 1
      BY <1>0, <2>1, <2>2, <2>3, <2>5
    <2>6. QED
      BY <2>4, <2>5
  <1>10. CASE Entrance
    <2>1. UNCHANGED <<loads, view, error, animated, decide>> /\ frame /\ frame' = FALSE
      BY <1>10 DEF Entrance
    <2>2. rows' = IF rows = "blank" THEN "shown" ELSE rows
      BY <1>10 DEF Entrance
    <2>3. QED
      BY <2>1, <2>2 DEF BoardMounted
  <1>11. CASE ApprovalTimelineEnds
    BY <1>11 DEF ApprovalTimelineEnds, BoardMounted
  <1>12. CASE UNCHANGED vars
    BY <1>12 DEF vars, pageVars, BoardMounted
  <1>13. QED
    BY <1>1, <1>2, <1>3, <1>4, <1>5, <1>6, <1>7, <1>8, <1>9, <1>10, <1>11, <1>12 DEF Next

LEMMA FirstEntranceInit ==
  ASSUME NEW mounted \in BOOLEAN, Start(mounted) PROVE FirstEntrance
  BY MatchBoardAssumption
  DEF Start, FirstEntrance, FirstLoadOnly, BoardMounted, Sent, Unused, Done

\* The board whose entrance is over is visible.
LEMMA FirstEntranceShows == FirstEntrance => RowsAreShown
  BY DEF FirstEntrance, FirstLoadOnly, RowsAreShown

\* Rows are mounted transparent and only a timeline shows them (line-row.tsx:48-49,
\* match-board.tsx:93): until somebody clicks "Retry", a board whose entrance is over is
\* visible.  The entrance has one run, so that this does not hold after a "Retry".
THEOREM RowsBecomeVisible == Spec => []RowsAreShown
  <1>1. Init => FirstEntrance
    BY FirstEntranceInit DEF Init
  <1>2. QED
    BY <1>1, FirstEntranceShows, FirstEntranceStep, AnswersAreBacked, PTL DEF Spec

-----------------------------------------------------------------------------
(***************************************************************************)
(* Types                                                                   *)
(***************************************************************************)

\* What ClaimsInv does not say of the types: the flags, the rows and the connectors.
ElementsOK ==
  /\ {error, deciding, animated, frame, recoloured, approving} \subseteq BOOLEAN
  /\ rows \in {"none", "blank", "shown"}
  /\ DOMAIN connectors \in {{}, Matched}
  /\ \A l \in DOMAIN connectors : connectors[l] \in LineOutcome

LEMMA ElementsInit == ASSUME NEW mounted \in BOOLEAN, Start(mounted) PROVE ElementsOK
  BY DEF Start, ElementsOK

LEMMA ElementsStep == ClaimsInv /\ ElementsOK /\ [Next]_vars => ElementsOK'
  <1> SUFFICES ASSUME ClaimsInv, ElementsOK, [Next]_vars
               PROVE  ElementsOK'
    OBVIOUS
  <1> USE DEF ElementsOK
  <1>1. ASSUME NEW n \in 1..MaxLoads, LoadArrives(n)
        PROVE  ElementsOK'
    <2>1. PICK v \in MatchView : v = loads[n]
      BY <1>1 DEF LoadArrives
    <2>2. \A l \in Matched : outcomeForInvoiceLine(l, v) \in LineOutcome
      BY MatchBoardAssumption DEF outcomeForInvoiceLine, LineOutcome, MatchView
    <2>3. /\ UNCHANGED <<error, deciding, recoloured, approving>>
          /\ rows' \in {rows, "blank"} /\ MeasureOnce(v)
      BY <1>1, <2>1 DEF LoadArrives, LineRow
    <2>4. CASE UNCHANGED <<connectors, animated, frame>>
      BY <2>3, <2>4
    <2>5. CASE /\ connectors' = [l \in Matched |-> outcomeForInvoiceLine(l, v)]
               /\ animated' = TRUE /\ frame' = TRUE
      BY <2>2, <2>3, <2>5
    <2>6. QED
      BY <2>3, <2>4, <2>5 DEF MeasureOnce
  <1>2. CASE DecideAnswered
    <2>1. /\ UNCHANGED <<error, animated, frame, rows, connectors>>
          /\ deciding' \in {~ReducedMotion, FALSE}
          /\ recoloured' \in {BoardMounted, recoloured}
          /\ approving' \in {~ReducedMotion, approving}
      BY <1>2 DEF DecideAnswered
    <2>2. \A x \in BOOLEAN : (~x) \in BOOLEAN
      BY Zenon
    <2>3. (~ReducedMotion) \in BOOLEAN
      BY <2>2, MatchBoardAssumption
    <2>4. BoardMounted \in BOOLEAN
      BY Zenon DEF BoardMounted
    <2>5. QED
      BY <2>1, <2>3, <2>4
  <1>3. CASE \E n \in 1..MaxLoads : LoadFails(n)
    BY <1>3 DEF LoadFails, ShowError
  <1>4. CASE Retry \/ Entrance
    BY <1>4 DEF Retry, Entrance, LineRow
  <1>5. CASE \E d \in Decisions : handleDecide(d)
    BY <1>5 DEF handleDecide
  <1>6. CASE DecideFails \/ ApprovalTimelineEnds
    BY <1>6 DEF DecideFails, ApprovalTimelineEnds, ShowError
  <1>7. QED
    BY <1>1, <1>2, <1>3, <1>4, <1>5, <1>6
    DEF Next, vars, pageVars, DecideElsewhere, RedeemElsewhere, ResolveElsewhere, ServeLoad,
        ServeDecide

LEMMA TypesHold == ASSUME ClaimsInv, ElementsOK PROVE TypeOK
  BY DEF ClaimsInv, ServerOK, ShownOK, RequestOK, ViewOK, AnswerOK, ElementsOK, TypeOK

\* The state of the match screen has its types: its connectors are those of the matched
\* lines, or none yet, in the colours there are.
THEOREM TypesAreKept == Spec => []TypeOK
  <1>1. Init => ElementsOK
    BY ElementsInit DEF Init
  <1>2. QED
    BY <1>1, ElementsStep, AnswersAreBacked, TypesHold, PTL DEF Spec
=============================================================================
