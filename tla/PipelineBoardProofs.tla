-------------------------- MODULE PipelineBoardProofs --------------------------
(***************************************************************************)
(* Proofs about PipelineBoard, for any invoices, queue lengths and numbers *)
(* of faults.                                                              *)
(***************************************************************************)
EXTENDS PipelineBoard, SequenceTheorems, TLAPS

-----------------------------------------------------------------------------
(***************************************************************************)
(* What is in the buffers                                                  *)
(***************************************************************************)

\* A notice, in whatever buffer, is of an invoice that exists; and of an outcome only
\* if the invoice has one by now.
GoodNotices ==
  {e \in Notices : /\ istatus[e.inv] \in Statuses
                   /\ e.to \in Outcomes => istatus[e.inv] \in Outcomes}

\* The card of an event, and those of a snapshot, are not newer than the row.
GoodTransitions ==
  {e \in Transitions : /\ e.to \in Outcomes => istatus[e.inv] \in Outcomes
                       /\ e.card.updated_at <= version[e.inv]}

CardFunctions == UNION {[D -> PipelineCards] : D \in SUBSET Invoices}
GoodCards == {c \in CardFunctions : \A i \in DOMAIN c : c[i].updated_at <= version[i]}

GoodMessages ==
  {[type |-> "open"]} \cup [type : {"snapshot"}, cards : GoodCards]
    \cup [type : {"invoice_event"}, event : GoodTransitions]

Buffers ==
  /\ istatus \in [Invoices -> Statuses \cup {NoInvoice}]
  /\ version \in [Invoices -> Nat]
  /\ notices \in Seq(GoodNotices) /\ queue \in Seq(GoodNotices)
  /\ wire \in Seq(GoodMessages)
  /\ cards \in GoodCards
  /\ fresh \in Seq(GoodTransitions)

\* What is only a type.
Rest ==
  /\ listening \in BOOLEAN /\ dirty \in BOOLEAN
  /\ Len(queue) <= QueueCap /\ Len(fresh) <= MaxTransitions
  /\ source \in {"trying", "up", "closed"}
  /\ connection \in {"connecting", "open", "reconnecting"}
  /\ edited \in [Invoices -> BOOLEAN] /\ lost \in [Invoices -> BOOLEAN]
  /\ spent \in Spendings

\* A status change leaves no outcome (that to POSTED is made by nobody), and gives the
\* row a status of the diagram.
LEMMA NoOutcomeIsLeft ==
  ASSUME NEW i \in Invoices, NEW to \in Statuses, ChangeStatus(i, to)
  PROVE  istatus[i] \notin Outcomes
  <1>1. CASE Lifecycle!Receive(i)
    BY <1>1 DEF Lifecycle!Receive, Lifecycle!NoInvoice, Outcomes, TERMINAL_SETTLE_STATUSES
  <1>2. CASE to # "POSTED" /\ Lifecycle!Move(i, to)
    <2>1. to \in Lifecycle!ALLOWED_TRANSITIONS[istatus[i]]
      BY <1>2 DEF Lifecycle!Move, Lifecycle!validate_transition
    <2>2. /\ Lifecycle!ALLOWED_TRANSITIONS["AUTO_POSTED"] = {}
          /\ Lifecycle!ALLOWED_TRANSITIONS["POSTED"] = {}
          /\ Lifecycle!ALLOWED_TRANSITIONS["REJECTED"] = {}
          /\ Lifecycle!ALLOWED_TRANSITIONS["APPROVED"] = {"POSTED"}
      BY DEF Lifecycle!ALLOWED_TRANSITIONS
    <2>3. QED
      BY <1>2, <2>1, <2>2 DEF Outcomes, TERMINAL_SETTLE_STATUSES
  <1>3. QED
    BY <1>1, <1>2 DEF ChangeStatus

LEMMA RowAfter ==
  ASSUME Buffers, NEW i \in Invoices, NEW to \in Statuses, ChangeStatus(i, to)
  PROVE  /\ istatus' = [istatus EXCEPT ![i] = to]
         /\ version' = [version EXCEPT ![i] = @ + 1]
         /\ istatus' \in [Invoices -> Statuses \cup {NoInvoice}]
         /\ version' \in [Invoices -> Nat]
         /\ \A j \in Invoices : version'[j] >= version[j]
  <1>1. /\ istatus' = [istatus EXCEPT ![i] = to]
        /\ version' = [version EXCEPT ![i] = @ + 1]
    BY DEF ChangeStatus, Lifecycle!Receive, Lifecycle!Move
  <1>2. QED
    BY <1>1 DEF Buffers

\* What was good before a status change is good after it.
LEMMA GoodStaysGood ==
  ASSUME Buffers, NEW i \in Invoices, NEW to \in Statuses, ChangeStatus(i, to)
  PROVE  /\ GoodNotices \subseteq GoodNotices' /\ GoodTransitions \subseteq GoodTransitions'
         /\ GoodCards \subseteq GoodCards' /\ GoodMessages \subseteq GoodMessages'
  <1>1. /\ istatus' = [istatus EXCEPT ![i] = to]
        /\ istatus' \in [Invoices -> Statuses \cup {NoInvoice}]
        /\ \A j \in Invoices : version'[j] >= version[j] /\ version'[j] \in Nat
      BY RowAfter
  <1>2. istatus \in [Invoices -> Statuses \cup {NoInvoice}] /\ version \in [Invoices -> Nat]
    BY DEF Buffers
  <1>3. istatus[i] \notin Outcomes
    BY NoOutcomeIsLeft
  <1>4. ASSUME NEW e \in GoodNotices
        PROVE  e \in GoodNotices'
    BY <1>1, <1>2, <1>3 DEF GoodNotices, Notices
  <1>5. ASSUME NEW e \in GoodTransitions
        PROVE  e \in GoodTransitions'
    <2>1. /\ e \in Transitions /\ e.inv \in Invoices /\ e.card.updated_at \in Nat
          /\ e.to \in Outcomes => istatus[e.inv] \in Outcomes
          /\ e.card.updated_at <= version[e.inv]
      BY DEF GoodTransitions, Transitions, PipelineCards
    <2>2. e.to \in Outcomes => istatus'[e.inv] \in Outcomes
      BY <1>1, <1>2, <1>3, <2>1
    <2>3. e.card.updated_at <= version'[e.inv]
      BY <1>1, <1>2, <2>1
    <2>4. QED
      BY <2>1, <2>2, <2>3 DEF GoodTransitions
  <1>6. ASSUME NEW c \in GoodCards
        PROVE  c \in GoodCards'
    <2>1. c \in CardFunctions /\ \A j \in DOMAIN c : c[j].updated_at <= version[j]
      BY DEF GoodCards
    <2>2. \A j \in DOMAIN c : j \in Invoices /\ c[j].updated_at \in Nat
      BY <2>1 DEF CardFunctions, PipelineCards
    <2>3. \A j \in DOMAIN c : c[j].updated_at <= version'[j]
      BY <1>1, <1>2, <2>1, <2>2
    <2>4. QED
      BY <2>1, <2>3 DEF GoodCards
  <1>7. GoodMessages \subseteq GoodMessages'
    BY <1>5, <1>6 DEF GoodMessages
  <1>8. QED
    BY <1>4, <1>5, <1>6, <1>7

\* What the steps below use of an edit.
LEMMA RowAfterEdit ==
  ASSUME Buffers, NEW i \in Invoices, EditRow(i)
  PROVE  /\ UNCHANGED <<istatus, notices, queue, wire, cards, fresh>>
         /\ version' = [version EXCEPT ![i] = @ + 1]
         /\ version' \in [Invoices -> Nat]
         /\ \A j \in Invoices : version'[j] >= version[j]
  <1>1. /\ version' = [version EXCEPT ![i] = @ + 1]
        /\ UNCHANGED <<istatus, notices, queue, wire, cards, fresh>>
    BY DEF EditRow, boardVars
  <1>2. QED
    BY <1>1 DEF Buffers

\* What was good before an edit is good after it.
LEMMA GoodStaysGoodInEdits ==
  ASSUME Buffers, NEW i \in Invoices, EditRow(i)
  PROVE  /\ GoodNotices' = GoodNotices /\ GoodTransitions \subseteq GoodTransitions'
         /\ GoodCards \subseteq GoodCards' /\ GoodMessages \subseteq GoodMessages'
  <1>1. /\ istatus' = istatus
        /\ \A j \in Invoices : version'[j] >= version[j] /\ version'[j] \in Nat
        /\ version \in [Invoices -> Nat]
    BY RowAfterEdit DEF Buffers
  <1>2. GoodNotices' = GoodNotices
    BY <1>1 DEF GoodNotices
  <1>3. ASSUME NEW e \in GoodTransitions
        PROVE  e \in GoodTransitions'
    <2>1. /\ e \in Transitions /\ e.inv \in Invoices /\ e.card.updated_at \in Nat
          /\ e.to \in Outcomes => istatus[e.inv] \in Outcomes
          /\ e.card.updated_at <= version[e.inv]
      BY DEF GoodTransitions, Transitions, PipelineCards
    <2>2. e.card.updated_at <= version'[e.inv]
      BY <1>1, <2>1
    <2>3. QED
      BY <1>1, <2>1, <2>2 DEF GoodTransitions
  <1>4. ASSUME NEW c \in GoodCards
        PROVE  c \in GoodCards'
    <2>1. c \in CardFunctions /\ \A j \in DOMAIN c : c[j].updated_at <= version[j]
      BY DEF GoodCards
    <2>2. \A j \in DOMAIN c : j \in Invoices /\ c[j].updated_at \in Nat
      BY <2>1 DEF CardFunctions, PipelineCards
    <2>3. \A j \in DOMAIN c : c[j].updated_at <= version'[j]
      BY <1>1, <2>1, <2>2
    <2>4. QED
      BY <2>1, <2>3 DEF GoodCards
  <1>5. GoodMessages \subseteq GoodMessages'
    BY <1>3, <1>4 DEF GoodMessages
  <1>6. QED
    BY <1>2, <1>3, <1>4, <1>5

\* What the endpoint reads from a row is good.
LEMMA ReadsAreGood ==
  ASSUME Buffers
  PROVE  /\ Snapshot \in GoodCards
         /\ \A e \in GoodNotices : EventFor(e) \in GoodTransitions
         /\ <<>> \in GoodCards
  <1>1. \A i \in Invoices : istatus[i] \in Statuses => pipeline_card(i) \in PipelineCards
    BY DEF Buffers, pipeline_card, PipelineCards
  <1>2. ASSUME NEW e \in GoodNotices
        PROVE  EventFor(e) \in GoodTransitions
    <2>1. e \in Notices /\ e.inv \in Invoices /\ istatus[e.inv] \in Statuses
      BY DEF GoodNotices, Notices
    <2>2. EventFor(e) = [inv |-> e.inv, from |-> e.from, to |-> e.to,
                         card |-> pipeline_card(e.inv)]
      BY DEF EventFor
    <2>3. EventFor(e) \in Transitions
      BY <1>1, <2>1, <2>2 DEF Transitions, Notices
    <2>4. EventFor(e).card.updated_at = version[e.inv] /\ version[e.inv] \in Nat
      BY <2>1, <2>2 DEF pipeline_card, Buffers
    <2>5. EventFor(e).to \in Outcomes => istatus[EventFor(e).inv] \in Outcomes
      BY <2>2 DEF GoodNotices
    <2>6. QED
      BY <2>2, <2>3, <2>4, <2>5 DEF GoodTransitions
  <1>3. Snapshot \in GoodCards
    <2> DEFINE D == {j \in Invoices : Exists(j) /\ istatus[j] \notin PIPELINE_TERMINAL_STATUSES}
    <2>1. Snapshot = [i \in D |-> pipeline_card(i)] /\ D \in SUBSET Invoices
      BY DEF Snapshot
    <2>2. \A i \in D : istatus[i] \in Statuses
      BY DEF Exists, Buffers
    <2>3. Snapshot \in [D -> PipelineCards]
      BY <1>1, <2>1, <2>2
    <2>4. Snapshot \in CardFunctions
      BY <2>1, <2>3 DEF CardFunctions
    <2>5. \A i \in D : Snapshot[i].updated_at = version[i] /\ version[i] \in Nat
      BY <2>1 DEF pipeline_card, Buffers
    <2>6. DOMAIN Snapshot = D
      BY <2>1
    <2>7. ASSUME NEW i \in DOMAIN Snapshot
          PROVE  Snapshot[i].updated_at <= version[i]
      <3>1. Snapshot[i].updated_at = version[i] /\ version[i] \in Nat
        BY <2>5, <2>6
      <3>2. QED
        BY ONLY <3>1
    <2>8. QED
      BY <2>4, <2>7 DEF GoodCards
  <1>4. <<>> \in GoodCards
    <2>1. <<>> \in [{} -> PipelineCards]
      OBVIOUS
    <2>2. QED
      BY <2>1 DEF GoodCards, CardFunctions
  <1>5. QED
    BY <1>2, <1>3, <1>4

\* An event that is handled sets a good card.
LEMMA CardIsSet ==
  ASSUME Buffers, NEW e \in GoodTransitions
  PROVE  [i \in DOMAIN cards \cup {e.inv} |-> IF i = e.inv THEN e.card ELSE cards[i]] \in GoodCards
  <1> DEFINE new == [i \in DOMAIN cards \cup {e.inv} |-> IF i = e.inv THEN e.card ELSE cards[i]]
  <1>1. e.inv \in Invoices /\ e.card \in PipelineCards /\ e.card.updated_at <= version[e.inv]
    BY DEF GoodTransitions, Transitions
  <1>2. DOMAIN cards \subseteq Invoices /\ \A i \in DOMAIN cards : cards[i] \in PipelineCards
    BY DEF Buffers, GoodCards, CardFunctions
  <1>3. \A i \in DOMAIN cards : cards[i].updated_at <= version[i]
    BY DEF Buffers, GoodCards
  <1>4. new \in [DOMAIN cards \cup {e.inv} -> PipelineCards]
    BY <1>1, <1>2
  <1>5. new \in CardFunctions
    BY <1>1, <1>2, <1>4 DEF CardFunctions
  <1>6. QED
    BY <1>1, <1>3, <1>5 DEF GoodCards

\* The message the browser handles next.
LEMMA NextMessage ==
  ASSUME Buffers, wire # <<>>
  PROVE  /\ Head(wire).type = "snapshot" => Head(wire).cards \in GoodCards
         /\ Head(wire).type = "invoice_event" => Head(wire).event \in GoodTransitions
         /\ Tail(wire) \in Seq(GoodMessages)
  <1>1. Head(wire) \in GoodMessages /\ Tail(wire) \in Seq(GoodMessages)
    BY HeadTailProperties DEF Buffers
  <1>2. QED
    BY <1>1 DEF GoodMessages

LEMMA CappedIsShort ==
  ASSUME NEW S, NEW s \in Seq(S), NEW e \in S, Len(s) <= MaxTransitions
  PROVE  Capped(Append(s, e)) \in Seq(S) /\ Len(Capped(Append(s, e))) <= MaxTransitions
  BY PipelineBoardAssumption DEF Capped

LEMMA EnqueuedIsShort ==
  ASSUME NEW S, NEW s \in Seq(S), NEW e \in S, Len(s) <= QueueCap
  PROVE  Enqueue(s, e) \in Seq(S) /\ Len(Enqueue(s, e)) <= QueueCap
  BY PipelineBoardAssumption DEF Enqueue

\* Only good things are ever put into a buffer.
LEMMA BuffersHold == Buffers /\ Rest /\ [Next]_vars => Buffers'
  <1> SUFFICES ASSUME Buffers, Rest, [Next]_vars
               PROVE  Buffers'
    OBVIOUS
  <1>1. ASSUME NEW i \in Invoices, NEW to \in Statuses, ChangeStatus(i, to)
        PROVE  Buffers'
    <2> DEFINE e == [inv |-> i, from |-> istatus[i], to |-> to, occurred_at |-> version[i] + 1]
    <2>1. /\ istatus' = [istatus EXCEPT ![i] = to]
          /\ istatus' \in [Invoices -> Statuses \cup {NoInvoice}]
          /\ version' \in [Invoices -> Nat]
      BY <1>1, RowAfter
    <2>2. /\ notices \in Seq(GoodNotices') /\ queue \in Seq(GoodNotices')
          /\ wire \in Seq(GoodMessages') /\ fresh \in Seq(GoodTransitions')
          /\ cards \in GoodCards'
      BY <1>1, GoodStaysGood, SeqMonotonic DEF Buffers
    <2>3. e \in Notices
      BY DEF Notices, Buffers
    <2>4. e \in GoodNotices'
      BY <2>1, <2>3 DEF GoodNotices, Buffers
    <2>5. notices' \in Seq(GoodNotices')
      BY <1>1, <2>2, <2>4 DEF ChangeStatus
    <2>6. UNCHANGED <<queue, wire, cards, fresh>>
      BY <1>1 DEF ChangeStatus, boardVars
    <2>7. QED
      BY <2>1, <2>2, <2>5, <2>6 DEF Buffers
  <1>13. ASSUME NEW i \in Invoices, EditRow(i)
         PROVE  Buffers'
    <2>1. /\ notices \in Seq(GoodNotices') /\ queue \in Seq(GoodNotices')
          /\ wire \in Seq(GoodMessages') /\ fresh \in Seq(GoodTransitions')
          /\ cards \in GoodCards'
      BY <1>13, GoodStaysGoodInEdits, SeqMonotonic DEF Buffers
    <2>2. /\ UNCHANGED <<istatus, notices, queue, wire, cards, fresh>>
          /\ version' \in [Invoices -> Nat]
      BY <1>13, RowAfterEdit
    <2>3. QED
      BY <2>1, <2>2 DEF Buffers
  <1>2. ASSUME UNCHANGED <<istatus, version>>
        PROVE  /\ GoodNotices' = GoodNotices /\ GoodTransitions' = GoodTransitions
               /\ GoodCards' = GoodCards /\ GoodMessages' = GoodMessages
    BY <1>2 DEF GoodNotices, GoodTransitions, GoodCards, GoodMessages
  <1>3. CASE Publish
    <2>1. UNCHANGED <<istatus, version, wire, cards, fresh>>
      BY <1>3 DEF Publish, boardVars
    <2>2. Head(notices) \in GoodNotices /\ Tail(notices) \in Seq(GoodNotices)
      BY <1>3, HeadTailProperties DEF Publish, Buffers
    <2>3. Enqueue(queue, Head(notices)) \in Seq(GoodNotices)
      BY <2>2, EnqueuedIsShort DEF Buffers, Rest
    <2>4. notices' \in Seq(GoodNotices) /\ queue' \in Seq(GoodNotices)
      BY <1>3, <2>2, <2>3 DEF Publish, Buffers
    <2>5. QED
      BY <1>2, <2>1, <2>4 DEF Buffers
  <1>4. CASE ListenBreaks \/ ListenAgain \/ Drop \/ Refused
    <2>1. /\ UNCHANGED <<istatus, version, cards, fresh>>
          /\ notices' \in {notices, <<>>} /\ queue' \in {queue, <<>>} /\ wire' \in {wire, <<>>}
      BY <1>4 DEF ListenBreaks, ListenAgain, Drop, Refused, serverVars, boardVars
    <2>2. /\ notices' \in Seq(GoodNotices) /\ queue' \in Seq(GoodNotices)
          /\ wire' \in Seq(GoodMessages)
      BY <2>1, EmptySeq DEF Buffers
    <2>3. QED
      BY <1>2, <2>1, <2>2 DEF Buffers
  <1>5. CASE Connect
    <2>1. /\ UNCHANGED <<istatus, version, notices, cards, fresh>> /\ queue' = <<>>
          /\ wire' = <<[type |-> "open"], [type |-> "snapshot", cards |-> Snapshot]>>
      BY <1>5 DEF Connect, serverVars, boardVars
    <2>2. /\ [type |-> "open"] \in GoodMessages
          /\ [type |-> "snapshot", cards |-> Snapshot] \in GoodMessages
      BY ReadsAreGood DEF GoodMessages
    <2>3. wire' \in Seq(GoodMessages)
      BY <2>1, <2>2
    <2>4. QED
      BY <1>2, <2>1, <2>3 DEF Buffers
  <1>6. CASE Send
    <2>1. UNCHANGED <<istatus, version, notices, cards, fresh>>
      BY <1>6 DEF Send, serverVars, boardVars
    <2>2. Head(queue) \in GoodNotices /\ Tail(queue) \in Seq(GoodNotices)
      BY <1>6, HeadTailProperties DEF Send, Buffers
    <2>3. [type |-> "invoice_event", event |-> EventFor(Head(queue))] \in GoodMessages
      BY <2>2, ReadsAreGood DEF GoodMessages
    <2>4. wire' \in Seq(GoodMessages) /\ queue' \in Seq(GoodNotices)
      BY <1>6, <2>2, <2>3 DEF Send, Buffers
    <2>5. QED
      BY <1>2, <2>1, <2>4 DEF Buffers
  <1>7. CASE OnOpen
    BY <1>2, <1>7, NextMessage DEF OnOpen, Buffers, serverVars, boardVars
  <1>8. CASE OnSnapshot
    BY <1>2, <1>8, NextMessage DEF OnSnapshot, Buffers, serverVars
  <1>9. CASE OnInvoiceEvent
    <2> DEFINE e == Head(wire).event
    <2>1. /\ UNCHANGED <<istatus, version, notices, queue>> /\ wire' = Tail(wire)
          /\ cards' = [i \in DOMAIN cards \cup {e.inv} |-> IF i = e.inv THEN e.card ELSE cards[i]]
          /\ fresh' = Capped(Append(fresh, e))
      BY <1>9 DEF OnInvoiceEvent, serverVars
    <2>2. e \in GoodTransitions /\ wire' \in Seq(GoodMessages)
      BY <1>9, <2>1, NextMessage DEF OnInvoiceEvent
    <2>3. cards' \in GoodCards
      BY <2>1, <2>2, CardIsSet
    <2>4. fresh' \in Seq(GoodTransitions)
      BY <2>1, <2>2, CappedIsShort DEF Buffers, Rest
    <2>5. QED
      BY <1>2, <2>1, <2>2, <2>3, <2>4 DEF Buffers
  <1>10. CASE Render
    BY <1>2, <1>10 DEF Render, Buffers, serverVars
  <1>11. CASE UNCHANGED vars \/ \E i \in Invoices : onRemoved(i)
    BY <1>2, <1>11 DEF onRemoved, vars, Buffers, serverVars, boardVars
  <1>12. QED
    BY <1>1, <1>3, <1>4, <1>5, <1>6, <1>7, <1>8, <1>9, <1>10, <1>11, <1>13 DEF Next

\* A bound that is not used up counts one more.
LEMMA SpentIsBounded ==
  ASSUME NEW m \in Nat, NEW d \in Nat, NEW o \in Nat,
         NEW s \in [writes : 0..m, drops : 0..d, outages : 0..o]
  PROVE  /\ s.writes < m =>
              [s EXCEPT !.writes = @ + 1] \in [writes : 0..m, drops : 0..d, outages : 0..o]
         /\ s.drops < d =>
              [s EXCEPT !.drops = @ + 1] \in [writes : 0..m, drops : 0..d, outages : 0..o]
         /\ s.outages < o =>
              [s EXCEPT !.outages = @ + 1] \in [writes : 0..m, drops : 0..d, outages : 0..o]
  <1>1. s.writes < m =>
          [s EXCEPT !.writes = @ + 1] \in [writes : 0..m, drops : 0..d, outages : 0..o]
    OBVIOUS
  <1>2. s.drops < d =>
          [s EXCEPT !.drops = @ + 1] \in [writes : 0..m, drops : 0..d, outages : 0..o]
    OBVIOUS
  <1>3. s.outages < o =>
          [s EXCEPT !.outages = @ + 1] \in [writes : 0..m, drops : 0..d, outages : 0..o]
    OBVIOUS
  <1>4. QED
    BY <1>1, <1>2, <1>3

LEMMA RestHolds == Buffers /\ Rest /\ [Next]_vars => Rest'
  <1> SUFFICES ASSUME Buffers, Rest, [Next]_vars
               PROVE  Rest'
    OBVIOUS
  <1>1. ASSUME NEW i \in Invoices, NEW to \in Statuses, ChangeStatus(i, to)
        PROVE  Rest'
    <2>1. lost' = [lost EXCEPT ![i] = ~listening]
      BY <1>1 DEF ChangeStatus
    <2>2. lost' \in [Invoices -> BOOLEAN]
      BY <2>1, Zenon DEF Rest
    <2>3. spent' \in Spendings
      BY <1>1, SpentIsBounded, PipelineBoardAssumption DEF ChangeStatus, Rest, Spendings
    <2>4. UNCHANGED <<listening, dirty, queue, fresh, source, connection, edited>>
      BY <1>1 DEF ChangeStatus, boardVars
    <2>5. QED
      BY <2>2, <2>3, <2>4 DEF Rest
  <1>2. CASE Publish
    <2>1. UNCHANGED <<listening, dirty, fresh, source, connection, edited, spent>>
      BY <1>2 DEF Publish, boardVars
    <2>2. lost' \in [Invoices -> BOOLEAN]
      <3>1. CASE source = "up"
        BY <1>2, <3>1, Zenon DEF Publish
      <3>2. CASE source # "up"
        BY <1>2, <3>2 DEF Publish, Rest
      <3>3. QED
        BY <3>1, <3>2
    <2>3. Head(notices) \in GoodNotices
      BY <1>2, HeadTailProperties DEF Publish, Buffers
    <2>4. Len(queue') <= QueueCap
      BY <1>2, <2>3, EnqueuedIsShort DEF Publish, Buffers, Rest
    <2>5. QED
      BY <2>1, <2>2, <2>4 DEF Rest
  <1>3. CASE ListenBreaks
    <2>1. UNCHANGED <<dirty, queue, fresh, source, connection, edited>> /\ listening' = FALSE
      BY <1>3 DEF ListenBreaks, boardVars
    <2>2. lost' \in [Invoices -> BOOLEAN]
      BY <1>3, Zenon DEF ListenBreaks
    <2>3. spent' \in Spendings
      BY <1>3, SpentIsBounded, PipelineBoardAssumption DEF ListenBreaks, Rest, Spendings
    <2>4. QED
      BY <2>1, <2>2, <2>3 DEF Rest
  <1>4. CASE ListenAgain
    BY <1>4 DEF ListenAgain, boardVars, Rest
  <1>5. CASE Connect
    <2>1. /\ UNCHANGED <<listening, dirty, fresh, connection, spent>>
          /\ source' = "up" /\ queue' = <<>>
      BY <1>5 DEF Connect, serverVars, boardVars
    <2>2. edited' \in [Invoices -> BOOLEAN] /\ lost' \in [Invoices -> BOOLEAN]
      BY <1>5, Zenon DEF Connect
    <2>3. QED
      BY <2>1, <2>2, PipelineBoardAssumption DEF Rest
  <1>6. CASE Send
    <2>1. UNCHANGED <<listening, dirty, fresh, source, connection, lost, spent>>
      BY <1>6 DEF Send, serverVars, boardVars
    <2>2. Len(queue') <= QueueCap
      BY <1>6, HeadTailProperties, PipelineBoardAssumption DEF Send, Buffers, Rest
    <2>3. edited' = [edited EXCEPT ![Head(queue).inv] = FALSE]
      BY <1>6 DEF Send
    <2>4. edited' \in [Invoices -> BOOLEAN]
      BY <2>3, Zenon DEF Rest
    <2>5. QED
      BY <2>1, <2>2, <2>4 DEF Rest
  <1>7. CASE Drop \/ Refused
    <2>1. /\ UNCHANGED <<listening, dirty, fresh, edited, lost>> /\ source' \in {"trying", "closed"}
          /\ queue' \in {queue, <<>>} /\ connection' \in {"connecting", "reconnecting"}
      BY <1>7 DEF Drop, Refused, AfterError, serverVars, boardVars
    <2>2. spent.drops < MaxDrops /\ spent' = [spent EXCEPT !.drops = @ + 1]
      BY <1>7 DEF Drop, Refused
    <2>3. spent \in Spendings
      BY DEF Rest
    <2>4. spent' \in Spendings
      BY <2>2, <2>3, SpentIsBounded, PipelineBoardAssumption DEF Spendings
    <2>5. Len(queue') <= QueueCap
      BY <2>1, PipelineBoardAssumption DEF Rest
    <2>6. QED
      BY <2>1, <2>4, <2>5 DEF Rest
  <1>8. CASE OnOpen \/ OnSnapshot
    BY <1>8 DEF OnOpen, OnSnapshot, serverVars, boardVars, Rest
  <1>9. CASE OnInvoiceEvent
    <2>1. UNCHANGED <<listening, queue, source, connection, edited, lost, spent>> /\ dirty' = TRUE
      BY <1>9 DEF OnInvoiceEvent, serverVars
    <2>2. Head(wire).event \in GoodTransitions
      BY <1>9, NextMessage DEF OnInvoiceEvent
    <2>3. Len(fresh') <= MaxTransitions
      BY <1>9, <2>2, CappedIsShort DEF OnInvoiceEvent, Buffers, Rest
    <2>4. QED
      BY <2>1, <2>3 DEF Rest
  <1>10. CASE Render
    <2>1. /\ UNCHANGED <<listening, queue, source, connection, edited, lost, spent>>
          /\ fresh' = <<>> /\ dirty' = (visible' # visible)
      BY <1>10 DEF Render, serverVars
    <2>2. dirty' \in BOOLEAN
      BY <2>1, Zenon
    <2>3. QED
      BY <2>1, <2>2, PipelineBoardAssumption DEF Rest
  <1>11. CASE UNCHANGED vars \/ \E i \in Invoices : onRemoved(i)
    BY <1>11 DEF onRemoved, vars, serverVars, boardVars, Rest
  <1>12. ASSUME NEW i \in Invoices, EditRow(i)
         PROVE  Rest'
    <2>1. UNCHANGED <<listening, dirty, queue, fresh, source, connection, lost>>
      BY <1>12 DEF EditRow, boardVars
    <2>2. edited' = [edited EXCEPT ![i] = TRUE]
      BY <1>12 DEF EditRow
    <2>3. edited' \in [Invoices -> BOOLEAN]
      BY <2>2, Zenon DEF Rest
    <2>4. spent' \in Spendings
      BY <1>12, SpentIsBounded, PipelineBoardAssumption DEF EditRow, Rest, Spendings
    <2>5. QED
      BY <2>1, <2>3, <2>4 DEF Rest
  <1>13. QED
    BY <1>1, <1>2, <1>3, <1>4, <1>5, <1>6, <1>7, <1>8, <1>9, <1>10, <1>11, <1>12 DEF Next

-----------------------------------------------------------------------------
(***************************************************************************)
(* What leaves the page                                                    *)
(***************************************************************************)

\* A card that was taken away, or that is about to be, is of an invoice with an outcome.
Page ==
  /\ visible \subseteq seen /\ seen \subseteq Invoices /\ leaving \subseteq seen
  /\ \A i \in (seen \ visible) \cup leaving : istatus[i] \in Outcomes

LEMMA OnlyOutcomesLeave ==
  ASSUME Buffers, NEW elements, NEW i \in Leaving(elements)
  PROVE  i \in elements /\ istatus[i] \in Outcomes
  <1>1. PICK k \in DOMAIN fresh : i \in runTransition(fresh[k], elements)
    BY DEF Leaving
  <1>2. fresh[k] \in GoodTransitions
    BY ElementOfSeq DEF Buffers
  <1>3. fresh[k].to \in Outcomes /\ i = fresh[k].inv /\ i \in elements
    BY <1>1 DEF runTransition
  <1>4. QED
    BY <1>2, <1>3 DEF GoodTransitions

LEMMA PageHolds == Buffers /\ Page /\ [Next]_vars => Page'
  <1> SUFFICES ASSUME Buffers, Page, [Next]_vars
               PROVE  Page'
    OBVIOUS
  <1>1. ASSUME NEW i \in Invoices, NEW to \in Statuses, ChangeStatus(i, to)
        PROVE  Page'
    <2>1. istatus' = [istatus EXCEPT ![i] = to] /\ istatus[i] \notin Outcomes
      BY <1>1, RowAfter, NoOutcomeIsLeft
    <2>2. UNCHANGED <<visible, seen, leaving>>
      BY <1>1 DEF ChangeStatus, boardVars
    <2>3. QED
      BY <2>1, <2>2 DEF Page, Buffers
  <1>2. CASE Render
    <2> DEFINE out == Leaving(PipelineCardViews)
    <2>1. /\ seen' = seen \cup Entering
          /\ visible' \in {visible \cup Entering, (visible \cup Entering) \ out}
          /\ leaving' \in {leaving, leaving \cup out}
          /\ istatus' = istatus
      BY <1>2 DEF Render, serverVars
    <2>2. Entering \subseteq Invoices
      BY DEF Entering, Buffers, GoodCards, CardFunctions
    <2>3. \A i \in out : i \in visible /\ istatus[i] \in Outcomes
      BY OnlyOutcomesLeave DEF PipelineCardViews
    <2> HIDE DEF out
    <2>4. QED
      BY <2>1, <2>2, <2>3 DEF Page
  <1>3. ASSUME NEW i \in Invoices, onRemoved(i)
        PROVE  Page'
    BY <1>3 DEF onRemoved, serverVars, Page
  <1>4. CASE \/ Publish \/ ListenBreaks \/ ListenAgain \/ Connect \/ Send \/ Drop \/ Refused
             \/ OnOpen \/ OnSnapshot \/ OnInvoiceEvent \/ UNCHANGED vars
             \/ \E i \in Invoices : EditRow(i)
    <2>1. UNCHANGED <<istatus, visible, seen, leaving>>
      BY <1>4 DEF Publish, ListenBreaks, ListenAgain, Connect, Send, Drop, Refused, OnOpen,
                  OnSnapshot, OnInvoiceEvent, EditRow, vars, serverVars, boardVars
    <2>2. QED
      BY <2>1 DEF Page
  <1>5. QED
    BY <1>1, <1>2, <1>3, <1>4 DEF Next

BoardInv == Buffers /\ Rest /\ Page

LEMMA BoardInit == Init => BoardInv
  <1> SUFFICES ASSUME Init
               PROVE  BoardInv
    OBVIOUS
  <1>1. istatus \in [Invoices -> Statuses \cup {NoInvoice}] /\ version \in [Invoices -> Nat]
    BY PipelineBoardAssumption DEF Init
  <1>2. <<>> \in GoodCards
    <2>1. <<>> \in [{} -> PipelineCards]
      OBVIOUS
    <2>2. QED
      BY <2>1 DEF GoodCards, CardFunctions
  <1>3. Buffers
    BY <1>1, <1>2, EmptySeq DEF Init, Buffers
  <1>4. edited \in [Invoices -> BOOLEAN] /\ lost \in [Invoices -> BOOLEAN]
    BY Zenon DEF Init
  <1>5. spent \in Spendings
    <2>1. 0 \in 0..MaxWrites /\ 0 \in 0..MaxDrops /\ 0 \in 0..MaxOutages
      BY PipelineBoardAssumption
    <2>2. QED
      BY <2>1 DEF Init, Spendings
  <1>6. Len(queue) <= QueueCap /\ Len(fresh) <= MaxTransitions
    BY PipelineBoardAssumption DEF Init
  <1>7. Rest
    BY <1>4, <1>5, <1>6 DEF Init, Rest
  <1>8. Page
    BY DEF Init, Page
  <1>9. QED
    BY <1>3, <1>7, <1>8 DEF BoardInv

\* The inductive invariant of the board: what is in the buffers is never ahead of the
\* rows, and announces an outcome only where there is one.
THEOREM BuffersAreTrue == Spec => []BoardInv
  <1>1. BoardInv /\ [Next]_vars => BoardInv'
    BY BuffersHold, RestHolds, PageHolds DEF BoardInv
  <1>2. QED
    BY <1>1, BoardInit, PTL DEF Spec

\* Rows, buffers, messages and the page keep their types.
THEOREM TypeCorrect == Spec => []TypeOK
  <1>1. BoardInv => TypeOK
    <2> SUFFICES ASSUME BoardInv
                 PROVE  TypeOK
      OBVIOUS
    <2>1. notices \in Seq(Notices) /\ queue \in Seq(Notices) /\ fresh \in Seq(Transitions)
      BY SeqMonotonic DEF BoardInv, Buffers, GoodNotices, GoodTransitions
    <2>2. ASSUME NEW c \in GoodCards
          PROVE  IsCards(c)
      BY DEF GoodCards, CardFunctions, IsCards
    <2>3. ASSUME NEW m \in GoodMessages
          PROVE  IsMessage(m)
      BY <2>2 DEF GoodMessages, GoodTransitions, IsMessage
    <2>4. \A k \in DOMAIN wire : IsMessage(wire[k])
      BY <2>3, ElementOfSeq DEF BoardInv, Buffers
    <2>5. IsCards(cards)
      BY <2>2 DEF BoardInv, Buffers
    <2>6. QED
      BY <2>1, <2>4, <2>5 DEF TypeOK, BoardInv, Buffers, Rest, Page
  <1>2. QED
    BY <1>1, BuffersAreTrue, PTL

\* No card that was shown is taken off the board while its invoice is still open,
\* however late, repeated or incomplete the transitions are (pipeline-board.tsx:99-118).
THEOREM WorkStaysOnTheBoard == Spec => []HidesOnlyOutcomes
  <1>1. BoardInv => HidesOnlyOutcomes
    BY DEF BoardInv, Page, HidesOnlyOutcomes
  <1>2. QED
    BY <1>1, BuffersAreTrue, PTL

-----------------------------------------------------------------------------
(***************************************************************************)
(* The order of the stamps                                                 *)
(***************************************************************************)

\* The cards a message sets.
CardsOf(m) ==
  [i \in IF m.type = "snapshot" THEN DOMAIN m.cards
         ELSE IF m.type = "invoice_event" THEN {m.event.inv} ELSE {}
     |-> IF m.type = "snapshot" THEN m.cards[i] ELSE m.event.card]

NotNewer(c, d) == \A i \in DOMAIN c \cap DOMAIN d : c[i].updated_at <= d[i].updated_at

\* No message is older, for any invoice, than a card or than a message before it.
InOrder ==
  /\ \A k \in DOMAIN wire : NotNewer(cards, CardsOf(wire[k]))
  /\ \A j, k \in DOMAIN wire : j < k => NotNewer(CardsOf(wire[j]), CardsOf(wire[k]))

LEMMA MessageCards ==
  ASSUME NEW m \in GoodMessages
  PROVE  CardsOf(m) \in GoodCards
  <1>1. CASE m = [type |-> "open"]
    <2>1. CardsOf(m) \in [{} -> PipelineCards]
      BY <1>1 DEF CardsOf
    <2>2. QED
      BY <2>1 DEF GoodCards, CardFunctions
  <1>2. CASE m \in [type : {"snapshot"}, cards : GoodCards]
    <2>1. m.type = "snapshot" /\ m.cards \in GoodCards
      BY <1>2
    <2>2. m.cards = [i \in DOMAIN m.cards |-> m.cards[i]]
      BY <2>1 DEF GoodCards, CardFunctions
    <2>3. CardsOf(m) = m.cards
      BY <2>1, <2>2 DEF CardsOf
    <2>4. QED
      BY <2>1, <2>3
  <1>3. CASE m \in [type : {"invoice_event"}, event : GoodTransitions]
    <2> DEFINE e == m.event
    <2>1. m.type = "invoice_event" /\ e \in GoodTransitions
      BY <1>3
    <2>2. e.inv \in Invoices /\ e.card \in PipelineCards /\ e.card.updated_at <= version[e.inv]
      BY <2>1 DEF GoodTransitions, Transitions
    <2>3. CardsOf(m) = [i \in {e.inv} |-> e.card]
      BY <2>1 DEF CardsOf
    <2>4. CardsOf(m) \in [{e.inv} -> PipelineCards]
      BY <2>2, <2>3
    <2>5. CardsOf(m) \in CardFunctions
      BY <2>2, <2>4 DEF CardFunctions
    <2>6. QED
      BY <2>2, <2>3, <2>5 DEF GoodCards
  <1>4. QED
    BY <1>1, <1>2, <1>3 DEF GoodMessages

\* What is read from the rows now is newer than whatever was read before.
LEMMA ReadsAreNewest ==
  ASSUME Buffers, NEW c \in GoodCards, NEW D \in SUBSET Invoices,
         NEW d \in [D -> PipelineCards], \A i \in D : d[i].updated_at = version[i]
  PROVE  NotNewer(c, d)
  BY DEF GoodCards, NotNewer

LEMMA EventCards ==
  ASSUME NEW m, m.type = "invoice_event"
  PROVE  CardsOf(m) = [i \in {m.event.inv} |-> m.event.card]
  BY DEF CardsOf

LEMMA SnapshotCards ==
  ASSUME NEW m, m.type = "snapshot", NEW D, m.cards \in [D -> PipelineCards]
  PROVE  CardsOf(m) = m.cards
  <1>1. m.cards = [i \in DOMAIN m.cards |-> m.cards[i]]
    OBVIOUS
  <1>2. QED
    BY <1>1 DEF CardsOf

\* What is left of the messages after the first is in order.
LEMMA TailInOrder ==
  ASSUME Buffers, InOrder, wire # <<>>
  PROVE  \A k \in DOMAIN Tail(wire) :
           /\ NotNewer(cards, CardsOf(Tail(wire)[k]))
           /\ NotNewer(CardsOf(Head(wire)), CardsOf(Tail(wire)[k]))
           /\ \A j \in DOMAIN Tail(wire) :
                j < k => NotNewer(CardsOf(Tail(wire)[j]), CardsOf(Tail(wire)[k]))
  <1>1. wire \in Seq(GoodMessages) /\ Len(wire) \in Nat /\ Len(wire) # 0
    BY EmptySeq, LenProperties DEF Buffers
  <1>2. /\ Len(Tail(wire)) = Len(wire) - 1 /\ Head(wire) = wire[1]
        /\ DOMAIN Tail(wire) = 1..(Len(wire) - 1) /\ DOMAIN wire = 1..Len(wire)
        /\ \A k \in 1..(Len(wire) - 1) : Tail(wire)[k] = wire[k + 1]
    BY <1>1, HeadTailProperties, LenProperties
  <1>3. 1 \in DOMAIN wire /\ \A k \in DOMAIN Tail(wire) : k + 1 \in DOMAIN wire /\ 1 < k + 1
    BY <1>1, <1>2
  <1>4. \A j, k \in DOMAIN Tail(wire) : j < k => j + 1 < k + 1
    BY <1>1, <1>2
  <1>5. QED
    BY <1>2, <1>3, <1>4 DEF InOrder

\* What the browser handles next takes no card back in time, and the rest of the
\* messages is not older than the cards are then.
LEMMA HandledInOrder ==
  ASSUME Buffers, InOrder, OnOpen \/ OnSnapshot \/ OnInvoiceEvent
  PROVE  NotNewer(cards, cards') /\ InOrder'
  <1> DEFINE m == Head(wire)
  <1>1. wire # <<>> /\ wire' = Tail(wire) /\ m \in GoodMessages
    BY HeadTailProperties DEF OnOpen, OnSnapshot, OnInvoiceEvent, Buffers
  <1>2. NotNewer(cards, CardsOf(m))
    <2>1. 1 \in DOMAIN wire /\ m = wire[1]
      BY <1>1, EmptySeq, LenProperties, HeadTailProperties DEF Buffers
    <2>2. QED
      BY <2>1 DEF InOrder
  <1>3. cards \in GoodCards /\ CardsOf(m) \in GoodCards
    BY <1>1, MessageCards DEF Buffers
  <1>4. NotNewer(cards, cards)
    BY <1>3 DEF NotNewer, GoodCards, CardFunctions, PipelineCards
  <1>5. \A i \in DOMAIN cards' :
           \/ i \in DOMAIN cards /\ cards'[i] = cards[i]
           \/ i \in DOMAIN CardsOf(m) /\ cards'[i] = CardsOf(m)[i]
    <2>1. CASE OnOpen
      BY <2>1 DEF OnOpen
    <2>2. CASE OnSnapshot
      <3>1. m.type = "snapshot" /\ cards' = m.cards
        BY <2>2 DEF OnSnapshot
      <3>2. m.cards \in GoodCards
        BY <1>1, <3>1, NextMessage
      <3>3. CardsOf(m) = m.cards
        BY <3>1, <3>2, SnapshotCards DEF GoodCards, CardFunctions
      <3>4. QED
        BY <3>1, <3>3
    <2>3. CASE OnInvoiceEvent
      BY <2>3, EventCards DEF OnInvoiceEvent
    <2>4. QED
      BY <2>1, <2>2, <2>3
  <1>6. NotNewer(cards, cards')
    BY <1>2, <1>4, <1>5 DEF NotNewer
  <1>7. ASSUME NEW d, NotNewer(cards, d), NotNewer(CardsOf(m), d)
        PROVE  NotNewer(cards', d)
    BY <1>5, <1>7 DEF NotNewer
  <1>8. \A k \in DOMAIN wire' : NotNewer(cards', CardsOf(wire'[k]))
    BY <1>1, <1>7, TailInOrder
  <1>9. \A j, k \in DOMAIN wire' : j < k => NotNewer(CardsOf(wire'[j]), CardsOf(wire'[k]))
    BY <1>1, TailInOrder
  <1>10. InOrder'
    BY <1>8, <1>9 DEF InOrder
  <1>11. QED
    BY <1>6, <1>10

LEMMA SentInOrder ==
  ASSUME Buffers, InOrder, Send
  PROVE  InOrder'
  <1> DEFINE m == [type |-> "invoice_event", event |-> EventFor(Head(queue))]
             c == CardsOf(m)
  <1>1. wire \in Seq(GoodMessages) /\ wire' = Append(wire, m) /\ cards' = cards
    BY DEF Send, Buffers
  <1>2. Head(queue) \in GoodNotices
    BY HeadTailProperties DEF Send, Buffers
  <1>3. m \in GoodMessages
    BY <1>2, ReadsAreGood DEF GoodMessages
  <1>4. /\ m.event.inv \in Invoices /\ m.event.card \in PipelineCards
        /\ m.event.card.updated_at = version[m.event.inv]
    <2>1. m.event \in Transitions
      BY <1>2, ReadsAreGood DEF GoodTransitions
    <2>2. m.event.card = pipeline_card(m.event.inv)
      BY DEF EventFor
    <2>3. QED
      BY <2>1, <2>2 DEF Transitions, pipeline_card
  <1>5. c = [i \in {m.event.inv} |-> m.event.card]
    BY EventCards
  <1>6. ASSUME NEW d \in GoodCards
        PROVE  NotNewer(d, c)
    <2>1. c \in [{m.event.inv} -> PipelineCards] /\ {m.event.inv} \in SUBSET Invoices
      BY <1>4, <1>5
    <2>2. \A i \in {m.event.inv} : c[i].updated_at = version[i]
      BY <1>4, <1>5
    <2> HIDE DEF c, m
    <2>3. QED
      BY <2>1, <2>2, ReadsAreNewest
  <1> HIDE DEF m
  <1>7. /\ Len(wire) \in Nat /\ DOMAIN wire = 1..Len(wire) /\ DOMAIN wire' = 1..(Len(wire) + 1)
        /\ wire'[Len(wire) + 1] = m
        /\ \A k \in DOMAIN wire : wire'[k] = wire[k] /\ wire[k] \in GoodMessages
    BY <1>1, <1>3, AppendProperties, LenProperties, ElementOfSeq
  <1>8. ASSUME NEW k \in DOMAIN wire'
        PROVE  NotNewer(cards, CardsOf(wire'[k]))
    <2>1. CASE k \in DOMAIN wire
      BY <1>7, <2>1 DEF InOrder
    <2>2. CASE k = Len(wire) + 1
      BY <1>6, <1>7, <2>2 DEF Buffers
    <2>3. QED
      BY <1>7, <2>1, <2>2
  <1>9. ASSUME NEW j \in DOMAIN wire', NEW k \in DOMAIN wire', j < k
        PROVE  NotNewer(CardsOf(wire'[j]), CardsOf(wire'[k]))
    <2>1. j \in DOMAIN wire
      BY <1>7, <1>9
    <2>2. CASE k \in DOMAIN wire
      BY <1>7, <1>9, <2>1, <2>2 DEF InOrder
    <2>3. CASE k = Len(wire) + 1
      BY <1>6, <1>7, <2>1, <2>3, MessageCards
    <2>4. QED
      BY <1>7, <2>2, <2>3
  <1>10. QED
    BY <1>1, <1>8, <1>9 DEF InOrder

LEMMA ConnectedInOrder ==
  ASSUME Buffers, Connect
  PROVE  InOrder'
  <1> DEFINE o == [type |-> "open"]
             s == [type |-> "snapshot", cards |-> Snapshot]
  <1>1. wire' = <<o, s>> /\ cards' = cards /\ cards \in GoodCards
    BY DEF Connect, Buffers
  <1>2. DOMAIN CardsOf(o) = {}
    BY DEF CardsOf
  <1>3. PICK D \in SUBSET Invoices : Snapshot \in [D -> PipelineCards]
    BY ReadsAreGood DEF GoodCards, CardFunctions
  <1>4. CardsOf(s) = Snapshot
    BY <1>3, SnapshotCards
  <1>5. \A i \in D : Snapshot[i].updated_at = version[i]
    BY <1>3 DEF Snapshot, pipeline_card
  <1>6. NotNewer(cards, Snapshot)
    BY <1>1, <1>3, <1>5, ReadsAreNewest
  <1>7. NotNewer(cards, CardsOf(o)) /\ NotNewer(CardsOf(o), CardsOf(s))
    BY <1>2 DEF NotNewer
  <1> HIDE DEF o, s
  <1>8. DOMAIN wire' = {1, 2} /\ wire'[1] = o /\ wire'[2] = s
    BY <1>1
  <1>9. \A k \in DOMAIN wire' : NotNewer(cards', CardsOf(wire'[k]))
    BY <1>1, <1>4, <1>6, <1>7, <1>8
  <1>10. \A j, k \in DOMAIN wire' : j < k => NotNewer(CardsOf(wire'[j]), CardsOf(wire'[k]))
    BY <1>7, <1>8
  <1>11. QED
    BY <1>9, <1>10 DEF InOrder

\* A card is never replaced by an older one, whatever the queue dropped and however late
\* a notice is (events.py:95-101, pipeline-events.ts:94-112): the endpoint reads the card
\* when it sends it, and what was sent arrives in order.
THEOREM CardsMoveForward == Spec => CardsOnlyForward
  <1>1. Init => InOrder
    BY DEF Init, InOrder
  <1>2. BoardInv /\ InOrder /\ [Next]_vars => InOrder' /\ NotNewer(cards, cards')
    <2> SUFFICES ASSUME BoardInv, InOrder, [Next]_vars
                 PROVE  InOrder' /\ NotNewer(cards, cards')
      OBVIOUS
    <2>1. Buffers
      BY DEF BoardInv
    <2>2. NotNewer(cards, cards)
      BY <2>1 DEF Buffers, GoodCards, CardFunctions, PipelineCards, NotNewer
    <2>3. CASE OnOpen \/ OnSnapshot \/ OnInvoiceEvent
      BY <2>1, <2>3, HandledInOrder
    <2>4. CASE Send
      <3>1. cards' = cards
        BY <2>4 DEF Send
      <3>2. QED
        BY <2>1, <2>2, <2>4, <3>1, SentInOrder
    <2>5. CASE Connect
      <3>1. cards' = cards
        BY <2>5 DEF Connect
      <3>2. QED
        BY <2>1, <2>2, <2>5, <3>1, ConnectedInOrder
    <2>6. ASSUME wire' \in {wire, <<>>}, cards' = cards
          PROVE  InOrder' /\ NotNewer(cards, cards')
      <3>1. NotNewer(cards, cards')
        BY <2>2, <2>6
      <3>2. CASE wire' = wire
        BY <2>6, <3>1, <3>2 DEF InOrder
      <3>3. CASE wire' = <<>>
        BY <3>1, <3>3 DEF InOrder
      <3>4. QED
        BY <2>6, <3>2, <3>3
    <2>7. CASE \/ \E i \in Invoices, to \in Statuses : ChangeStatus(i, to)
               \/ Publish \/ ListenBreaks \/ ListenAgain \/ Drop \/ Refused \/ Render
               \/ \E i \in Invoices : EditRow(i) \/ onRemoved(i)
               \/ UNCHANGED vars
      <3>1. wire' \in {wire, <<>>} /\ cards' = cards
        BY <2>7 DEF ChangeStatus, EditRow, Publish, ListenBreaks, ListenAgain, Drop, Refused,
                    Render, onRemoved, vars
      <3>2. QED
        BY <2>6, <3>1
    <2>8. QED
      BY <2>3, <2>4, <2>5, <2>7 DEF Next
  <1>3. NotNewer(cards, cards') /\ BoardInv /\ BoardInv' =>
          \A i \in DOMAIN cards \cap DOMAIN cards' : cards'[i].updated_at >= cards[i].updated_at
    BY DEF NotNewer
  <1>4. QED
    BY <1>1, <1>2, <1>3, BuffersAreTrue, PTL DEF Spec, CardsOnlyForward

-----------------------------------------------------------------------------
(***************************************************************************)
(* The cards and the rows                                                  *)
(***************************************************************************)

\* What c says of invoice i is what its row says.
Agrees(c, i) ==
  /\ InFlight(i) => i \in DOMAIN c
  /\ i \in DOMAIN c => Shows(c[i], i)

\* A message that decides whether there is a card of i, and which.
Touches(m, i) == m.type = "snapshot" \/ (m.type = "invoice_event" /\ m.event.inv = i)

\* The cards agree with row i once m has been handled.
Leaves(m, i) ==
  /\ m.type = "snapshot" => Agrees(m.cards, i)
  /\ m.type = "invoice_event" => Shows(m.event.card, i)

\* The last message about i leaves the card of i as its row is.
LastWord(i) ==
  \E k \in DOMAIN wire :
    /\ Touches(wire[k], i) /\ Leaves(wire[k], i)
    /\ \A l \in DOMAIN wire : k < l => ~Touches(wire[l], i)

\* The row is on its way to the card of i, or there.
Current(i) ==
  \/ Mentions(notices, i) \/ Mentions(queue, i)
  \/ LastWord(i)
  \/ Agrees(cards, i) /\ \A k \in DOMAIN wire : ~Touches(wire[k], i)

AllCurrent == source = "up" => \A i \in Invoices : ~lost[i] => Current(i)

\* The first element of a sequence and the rest.
LEMMA Split ==
  ASSUME NEW S, NEW s \in Seq(S), s # <<>>
  PROVE  /\ Len(s) \in Nat \ {0} /\ DOMAIN s = 1..Len(s) /\ Head(s) = s[1]
         /\ DOMAIN Tail(s) = 1..(Len(s) - 1)
         /\ \A k \in 1..(Len(s) - 1) : Tail(s)[k] = s[k + 1]
  <1>1. Len(s) \in Nat /\ Len(s) # 0
    BY EmptySeq, LenProperties
  <1>2. /\ Len(Tail(s)) = Len(s) - 1 /\ Head(s) = s[1] /\ Tail(s) \in Seq(S)
        /\ \A k \in 1..(Len(s) - 1) : Tail(s)[k] = s[k + 1]
    BY <1>1, HeadTailProperties, LenProperties
  <1>3. DOMAIN s = 1..Len(s) /\ DOMAIN Tail(s) = 1..Len(Tail(s))
    BY <1>2, LenProperties
  <1>4. QED
    BY <1>1, <1>2, <1>3

\* What a sequence mentions its head or its tail mentions.
LEMMA MentionsSplit ==
  ASSUME NEW S, NEW s \in Seq(S), s # <<>>, NEW i
  PROVE  Mentions(s, i) <=> Head(s).inv = i \/ Mentions(Tail(s), i)
  <1>1. /\ Len(s) \in Nat \ {0} /\ DOMAIN s = 1..Len(s) /\ Head(s) = s[1]
        /\ DOMAIN Tail(s) = 1..(Len(s) - 1)
        /\ \A k \in 1..(Len(s) - 1) : Tail(s)[k] = s[k + 1]
    BY Split
  <1>2. ASSUME Head(s).inv = i PROVE Mentions(s, i)
    BY <1>1, <1>2 DEF Mentions
  <1>3. ASSUME Mentions(Tail(s), i) PROVE Mentions(s, i)
    <2>1. PICK k \in 1..(Len(s) - 1) : s[k + 1].inv = i
      BY <1>1, <1>3 DEF Mentions
    <2>2. k + 1 \in DOMAIN s
      BY <1>1, <2>1
    <2>3. QED
      BY <2>1, <2>2 DEF Mentions
  <1>4. ASSUME Mentions(s, i), Head(s).inv # i PROVE Mentions(Tail(s), i)
    <2>1. PICK k \in DOMAIN s : s[k].inv = i
      BY <1>4 DEF Mentions
    <2>2. k - 1 \in 1..(Len(s) - 1) /\ (k - 1) + 1 = k
      BY <1>1, <1>4, <2>1
    <2>3. Tail(s)[k - 1].inv = i
      BY <1>1, <2>1, <2>2
    <2>4. QED
      BY <1>1, <2>2, <2>3 DEF Mentions
  <1>5. QED
    BY <1>2, <1>3, <1>4

\* Appending mentions one more.
LEMMA MentionsAppend ==
  ASSUME NEW S, NEW s \in Seq(S), NEW e, NEW i
  PROVE  Mentions(Append(s, e), i) <=> e.inv = i \/ Mentions(s, i)
  <1>1. s \in Seq(S \cup {e}) /\ Len(s) \in Nat /\ DOMAIN s = 1..Len(s)
    BY SeqMonotonic, LenProperties
  <1>2. /\ DOMAIN Append(s, e) = 1..(Len(s) + 1) /\ Append(s, e)[Len(s) + 1] = e
        /\ \A k \in 1..Len(s) : Append(s, e)[k] = s[k]
    BY <1>1, AppendProperties, LenProperties
  <1>3. QED
    BY <1>1, <1>2 DEF Mentions

\* What a concatenation mentions one of its parts mentions.
LEMMA MentionsConcat ==
  ASSUME NEW S, NEW s \in Seq(S), NEW t \in Seq(S), NEW i, Mentions(s \o t, i)
  PROVE  Mentions(s, i) \/ Mentions(t, i)
  <1>1. PICK k \in DOMAIN (s \o t) : (s \o t)[k].inv = i
    BY DEF Mentions
  <1>2. /\ Len(s) \in Nat /\ Len(t) \in Nat /\ DOMAIN s = 1..Len(s) /\ DOMAIN t = 1..Len(t)
        /\ Len(s \o t) = Len(s) + Len(t) /\ s \o t \in Seq(S)
        /\ \A n \in 1..(Len(s) + Len(t)) :
              (s \o t)[n] = IF n <= Len(s) THEN s[n] ELSE t[n - Len(s)]
    BY ConcatProperties, LenProperties
  <1>3. k \in 1..(Len(s) + Len(t))
    BY <1>1, <1>2, LenProperties
  <1>4. CASE k <= Len(s)
    BY <1>1, <1>2, <1>3, <1>4 DEF Mentions
  <1>5. CASE ~(k <= Len(s))
    <2>1. k - Len(s) \in DOMAIN t
      BY <1>2, <1>3, <1>5
    <2>2. QED
      BY <1>1, <1>2, <1>3, <1>5, <2>1 DEF Mentions
  <1>6. QED
    BY <1>4, <1>5

\* A card that shows row i still does if the row keeps its status and, unless the write is
\* one that tells nobody, its columns.
LEMMA SameShows ==
  ASSUME NEW i \in Invoices, istatus'[i] = istatus[i],
         ~edited'[i] => ~edited[i] /\ version'[i] = version[i]
  PROVE  /\ InFlight(i)' <=> InFlight(i)
         /\ \A c : Shows(c, i) => Shows(c, i)'
         /\ \A c : Agrees(c, i) => Agrees(c, i)'
         /\ \A m : Leaves(m, i) => Leaves(m, i)'
         /\ \A m : Touches(m, i)' <=> Touches(m, i)
  <1>1. InFlight(i)' <=> InFlight(i)
    BY DEF InFlight, Exists
  <1>2. \A c : Shows(c, i) => Shows(c, i)'
    BY DEF Shows
  <1>3. \A c : Agrees(c, i) => Agrees(c, i)'
    BY <1>1, <1>2 DEF Agrees
  <1>4. \A m : Leaves(m, i) => Leaves(m, i)'
    BY <1>2, <1>3 DEF Leaves
  <1>5. \A m : Touches(m, i)' <=> Touches(m, i)
    BY DEF Touches
  <1>6. QED
    BY <1>1, <1>2, <1>3, <1>4, <1>5

\* A step that keeps row i, or edits it, and drops nothing that is on its way.
LEMMA SameCurrent ==
  ASSUME NEW i \in Invoices, Current(i), istatus'[i] = istatus[i],
         ~edited'[i] => ~edited[i] /\ version'[i] = version[i],
         wire' = wire, cards' = cards,
         Mentions(notices, i) \/ Mentions(queue, i) =>
           Mentions(notices', i) \/ Mentions(queue', i)
  PROVE  Current(i)'
  <1>1. /\ \A c : Agrees(c, i) => Agrees(c, i)'
        /\ \A m : Leaves(m, i) => Leaves(m, i)'
        /\ \A m : Touches(m, i)' <=> Touches(m, i)
    BY SameShows
  <1>2. ASSUME LastWord(i)
        PROVE  LastWord(i)'
    <2>1. PICK k \in DOMAIN wire :
             /\ Touches(wire[k], i) /\ Leaves(wire[k], i)
             /\ \A l \in DOMAIN wire : k < l => ~Touches(wire[l], i)
      BY <1>2 DEF LastWord
    <2>2. /\ k \in DOMAIN wire' /\ wire'[k] = wire[k]
          /\ \A l \in DOMAIN wire' : wire'[l] = wire[l] /\ l \in DOMAIN wire
      OBVIOUS
    <2>3. QED
      BY <1>1, <2>1, <2>2 DEF LastWord
  <1>3. ASSUME Agrees(cards, i), \A k \in DOMAIN wire : ~Touches(wire[k], i)
        PROVE  Agrees(cards, i)' /\ \A k \in DOMAIN wire' : ~Touches(wire'[k], i)
    <2>1. PICK c : c = cards
      OBVIOUS
    <2>2. c = cards' /\ Agrees(c, i)'
      BY <1>1, <1>3, <2>1
    <2>3. Agrees(cards, i)'
      BY <2>2 DEF Agrees
    <2>4. QED
      BY <1>1, <1>3, <2>3
  <1>4. QED
    BY <1>2, <1>3 DEF Current, Mentions

\* What becomes of the messages when the first is handled.
LEMMA HandledIsCurrent ==
  ASSUME Buffers, AllCurrent, OnOpen \/ OnSnapshot \/ OnInvoiceEvent
  PROVE  AllCurrent'
  <1> SUFFICES ASSUME source = "up", NEW i \in Invoices, ~lost[i]
               PROVE  Current(i)'
    BY DEF AllCurrent, OnOpen, OnSnapshot, OnInvoiceEvent
  <1> DEFINE m == Head(wire)
  <1>1. /\ wire # <<>> /\ wire' = Tail(wire)
        /\ UNCHANGED <<istatus, version, notices, queue, edited>>
    BY DEF OnOpen, OnSnapshot, OnInvoiceEvent, serverVars
  <1>2. /\ Len(wire) \in Nat \ {0} /\ DOMAIN wire = 1..Len(wire) /\ m = wire[1]
        /\ DOMAIN wire' = 1..(Len(wire) - 1)
        /\ \A k \in 1..(Len(wire) - 1) : wire'[k] = wire[k + 1]
    BY <1>1, Split DEF Buffers
  <1>3. /\ \A x : Touches(x, i)' <=> Touches(x, i)
        /\ \A x : Leaves(x, i)' <=> Leaves(x, i)
        /\ \A c : Agrees(c, i)' <=> Agrees(c, i)
    BY <1>1 DEF Touches, Leaves, Agrees, Shows, InFlight, Exists
  <1> HIDE DEF m
  <1>4. CASE Mentions(notices, i) \/ Mentions(queue, i)
    BY <1>1, <1>4 DEF Current, Mentions
  <1>5. ASSUME NEW k \in DOMAIN wire, k # 1, Touches(wire[k], i), Leaves(wire[k], i),
               \A l \in DOMAIN wire : k < l => ~Touches(wire[l], i)
        PROVE  Current(i)'
    <2>1. k - 1 \in DOMAIN wire' /\ wire'[k - 1] = wire[k]
      BY <1>2, <1>5
    <2>2. \A l \in DOMAIN wire' : k - 1 < l => ~Touches(wire'[l], i)
      BY <1>2, <1>5
    <2>3. LastWord(i)'
      BY <1>3, <1>5, <2>1, <2>2 DEF LastWord
    <2>4. QED
      BY <2>3 DEF Current
  <1>6. ASSUME Agrees(cards', i), \A l \in DOMAIN wire : 1 < l => ~Touches(wire[l], i)
        PROVE  Current(i)'
    <2>1. \A l \in DOMAIN wire' : ~Touches(wire'[l], i)
      BY <1>2, <1>6
    <2>2. QED
      BY <1>3, <1>6, <2>1 DEF Current
  <1>7. Touches(m, i) /\ Leaves(m, i) => Agrees(cards', i)
    BY DEF OnOpen, OnSnapshot, OnInvoiceEvent, Touches, Leaves, Agrees, m
  <1>8. ~Touches(m, i) /\ Agrees(cards, i) => Agrees(cards', i)
    <2>1. CASE OnOpen
      BY <2>1 DEF OnOpen
    <2>2. CASE OnSnapshot
      BY <2>2 DEF OnSnapshot, Touches, m
    <2>3. CASE OnInvoiceEvent
      BY <2>3 DEF OnInvoiceEvent, Touches, Agrees, m
    <2>4. QED
      BY ONLY <2>1, <2>2, <2>3, OnOpen \/ OnSnapshot \/ OnInvoiceEvent
  <1>9. CASE LastWord(i)
    <2>1. PICK k \in DOMAIN wire :
             /\ Touches(wire[k], i) /\ Leaves(wire[k], i)
             /\ \A l \in DOMAIN wire : k < l => ~Touches(wire[l], i)
      BY <1>9 DEF LastWord
    <2>2. CASE k = 1
      BY <1>2, <1>6, <1>7, <2>1, <2>2
    <2>3. CASE k # 1
      BY <1>5, <2>1, <2>3
    <2>4. QED
      BY <2>2, <2>3
  <1>10. CASE Agrees(cards, i) /\ \A k \in DOMAIN wire : ~Touches(wire[k], i)
    <2>1. ~Touches(m, i)
      BY <1>2, <1>10
    <2>2. QED
      BY <1>6, <1>8, <1>10, <2>1
  <1>11. QED
    BY <1>4, <1>9, <1>10 DEF AllCurrent, Current

\* A notice that is published stays in a buffer unless the full queue drops it, and then
\* the model's history variable says so.
LEMMA PublishedIsCurrent ==
  ASSUME Buffers, Rest, AllCurrent, Publish
  PROVE  AllCurrent'
  <1> SUFFICES ASSUME source = "up", NEW i \in Invoices, ~lost'[i]
               PROVE  Current(i)'
    BY DEF AllCurrent, Publish
  <1> DEFINE e == Head(notices)
  <1>1. /\ notices # <<>> /\ notices' = Tail(notices) /\ queue' = Enqueue(queue, e)
        /\ UNCHANGED <<istatus, version, wire, cards, edited>>
        /\ lost' = [j \in Invoices |->
                      \/ lost[j]
                      \/ /\ Len(queue) = QueueCap /\ Head(queue).inv = j
                         /\ ~Mentions(Tail(queue) \o notices, j)]
    BY DEF Publish
  <1>2. /\ ~lost[i]
        /\ Len(queue) = QueueCap /\ Head(queue).inv = i => Mentions(Tail(queue) \o notices, i)
    BY <1>1 DEF Rest
  <1>3. Mentions(notices, i) <=> e.inv = i \/ Mentions(notices', i)
    BY <1>1, MentionsSplit DEF Buffers
  <1>4. CASE Len(queue) = QueueCap
    <2>1. queue # <<>>
      BY <1>4, PipelineBoardAssumption, EmptySeq
    <2>2. Tail(queue) \in Seq(GoodNotices) /\ notices \in Seq(GoodNotices)
      BY <2>1, HeadTailProperties DEF Buffers
    <2>3. queue' = Append(Tail(queue), e)
      BY <1>1, <1>4 DEF Enqueue
    <2>4. Mentions(queue', i) <=> e.inv = i \/ Mentions(Tail(queue), i)
      BY <2>2, <2>3, MentionsAppend
    <2>5. Mentions(queue, i) <=> Head(queue).inv = i \/ Mentions(Tail(queue), i)
      BY <2>1, MentionsSplit DEF Buffers
    <2>6. Mentions(Tail(queue) \o notices, i) => Mentions(Tail(queue), i) \/ Mentions(notices, i)
      BY <2>2, MentionsConcat
    <2>7. Mentions(notices, i) \/ Mentions(queue, i) =>
            Mentions(notices', i) \/ Mentions(queue', i)
      BY <1>2, <1>3, <1>4, <2>4, <2>5, <2>6
    <2>8. QED
      BY <1>1, <1>2, <2>7, SameCurrent DEF AllCurrent
  <1>5. CASE Len(queue) # QueueCap
    <2>1. queue' = Append(queue, e)
      BY <1>1, <1>5 DEF Enqueue
    <2>2. Mentions(queue', i) <=> e.inv = i \/ Mentions(queue, i)
      BY <2>1, MentionsAppend DEF Buffers
    <2>3. QED
      BY <1>1, <1>2, <1>3, <2>2, SameCurrent DEF AllCurrent
  <1>6. QED
    BY <1>4, <1>5

\* The endpoint sends the card as the row is at that moment: the last word about it.
LEMMA SentIsCurrent ==
  ASSUME Buffers, Rest, AllCurrent, Send
  PROVE  AllCurrent'
  <1> SUFFICES ASSUME NEW i \in Invoices, ~lost[i]
               PROVE  Current(i)'
    BY DEF AllCurrent, Send
  <1> DEFINE m == [type |-> "invoice_event", event |-> EventFor(Head(queue))]
  <1>1. /\ source = "up" /\ queue # <<>> /\ queue' = Tail(queue) /\ wire' = Append(wire, m)
        /\ UNCHANGED <<istatus, version, notices, cards>>
        /\ edited' = [edited EXCEPT ![Head(queue).inv] = FALSE]
    BY DEF Send, serverVars
  <1>2. wire \in Seq(GoodMessages) /\ m \in GoodMessages
    <2>1. Head(queue) \in GoodNotices
      BY <1>1, HeadTailProperties DEF Buffers
    <2>2. QED
      BY <2>1, ReadsAreGood DEF GoodMessages, Buffers
  <1>3. m.type = "invoice_event" /\ m.event.inv = Head(queue).inv
        /\ m.event.card = pipeline_card(Head(queue).inv)
    BY DEF EventFor
  <1> HIDE DEF m
  <1>4. /\ Len(wire) \in Nat /\ DOMAIN wire = 1..Len(wire) /\ DOMAIN wire' = 1..(Len(wire) + 1)
        /\ wire'[Len(wire) + 1] = m /\ \A k \in 1..Len(wire) : wire'[k] = wire[k]
    BY <1>1, <1>2, AppendProperties, LenProperties
  <1>5. \A x : Touches(x, i)' <=> Touches(x, i)
    BY DEF Touches
  <1>6. Mentions(queue, i) <=> Head(queue).inv = i \/ Mentions(queue', i)
    BY <1>1, MentionsSplit DEF Buffers
  <1>7. CASE Head(queue).inv = i
    <2>1. PICK n : n = m
      OBVIOUS
    <2>4. n.type = "invoice_event" /\ n.event.inv = i
          /\ n.event.card = [status |-> istatus[i], updated_at |-> version[i]]
      BY <1>3, <1>7, <2>1 DEF pipeline_card
    <2>5. Touches(n, i)' /\ Leaves(n, i)'
      BY <1>1, <2>4 DEF Touches, Leaves, Shows
    <2>2. Len(wire) + 1 \in DOMAIN wire' /\ \A l \in DOMAIN wire' : ~(Len(wire) + 1 < l)
      BY <1>4
    <2>3. LastWord(i)'
      BY <1>4, <2>1, <2>2, <2>5 DEF LastWord
    <2>6. QED
      BY <2>3 DEF Current
  <1>8. CASE Head(queue).inv # i
    <2>1. ~Touches(m, i)
      BY <1>3, <1>8 DEF Touches
    <2>6. /\ \A x : Leaves(x, i) => Leaves(x, i)'
          /\ \A c : Agrees(c, i) => Agrees(c, i)'
      <3>1. edited'[i] = edited[i]
        BY <1>1, <1>8 DEF Rest
      <3>2. QED
        BY <1>1, <3>1, SameShows
    <2>2. CASE Mentions(notices, i) \/ Mentions(queue, i)
      BY <1>1, <1>6, <1>8, <2>2 DEF Current, Mentions
    <2>3. CASE LastWord(i)
      <3>1. PICK k \in DOMAIN wire :
               /\ Touches(wire[k], i) /\ Leaves(wire[k], i)
               /\ \A l \in DOMAIN wire : k < l => ~Touches(wire[l], i)
        BY <2>3 DEF LastWord
      <3>2. k \in DOMAIN wire' /\ wire'[k] = wire[k]
        BY <1>4, <3>1
      <3>3. \A l \in DOMAIN wire' : k < l => ~Touches(wire'[l], i)
        BY <1>4, <2>1, <3>1
      <3>4. LastWord(i)'
        BY <1>5, <2>6, <3>1, <3>2, <3>3 DEF LastWord
      <3>5. QED
        BY <3>4 DEF Current
    <2>4. CASE Agrees(cards, i) /\ \A k \in DOMAIN wire : ~Touches(wire[k], i)
      <3>1. \A l \in DOMAIN wire' : ~Touches(wire'[l], i)
        BY <1>4, <2>1, <2>4
      <3>2. Agrees(cards, i)'
        BY <1>1, <2>4, <2>6
      <3>3. QED
        BY <1>5, <3>1, <3>2 DEF Current
    <2>5. QED
      BY <1>1, <2>2, <2>3, <2>4 DEF AllCurrent, Current
  <1>9. QED
    BY <1>7, <1>8

\* The snapshot that a connection starts with says what the rows are.
LEMMA ConnectIsCurrent ==
  ASSUME Buffers, Connect
  PROVE  AllCurrent'
  <1> SUFFICES ASSUME NEW i \in Invoices
               PROVE  LastWord(i)'
    BY DEF AllCurrent, Current
  <1>1. PICK s : s = [type |-> "snapshot", cards |-> Snapshot]
    OBVIOUS
  <1>2. s.type = "snapshot" /\ s.cards = Snapshot
    BY <1>1
  <1>3. wire' = <<[type |-> "open"], s>> /\ UNCHANGED <<istatus, version>>
    BY <1>1 DEF Connect, serverVars
  <1>4. Agrees(Snapshot, i)
    BY DEF Agrees, Shows, Snapshot, InFlight, pipeline_card
  <1>5. Touches(s, i)' /\ Leaves(s, i)'
    <2>1. Agrees(s.cards, i)'
      BY <1>2, <1>3, <1>4 DEF Agrees, Shows, InFlight, Exists, Snapshot, pipeline_card
    <2>2. QED
      BY <1>2, <2>1 DEF Touches, Leaves
  <1>6. DOMAIN wire' = {1, 2} /\ wire'[2] = s
    BY <1>3
  <1>7. QED
    BY <1>5, <1>6 DEF LastWord

\* A new status is on its way as a notice, or will never come.
LEMMA ChangeIsCurrent ==
  ASSUME Buffers, Rest, AllCurrent, NEW i \in Invoices, NEW to \in Statuses, ChangeStatus(i, to)
  PROVE  AllCurrent'
  <1> SUFFICES ASSUME source = "up", NEW j \in Invoices, ~lost'[j]
               PROVE  Current(j)'
    BY DEF AllCurrent, ChangeStatus
  <1> DEFINE e == [inv |-> i, from |-> istatus[i], to |-> to, occurred_at |-> version[i] + 1]
  <1>1. /\ istatus' = [istatus EXCEPT ![i] = to] /\ version' = [version EXCEPT ![i] = @ + 1]
        /\ notices' = IF listening THEN Append(notices, e) ELSE notices
        /\ lost' = [lost EXCEPT ![i] = ~listening]
        /\ UNCHANGED <<queue, wire, cards, edited>>
    BY RowAfter DEF ChangeStatus
  <1>2. listening => (Mentions(notices', j) <=> e.inv = j \/ Mentions(notices, j))
    BY <1>1, MentionsAppend DEF Buffers
  <1>3. CASE j = i
    <2>1. listening
      BY <1>1, <1>3 DEF Rest
    <2>2. Mentions(notices', j)
      BY <1>2, <1>3, <2>1
    <2>3. QED
      BY <2>2 DEF Current, Mentions
  <1>4. CASE j # i
    <2>1. ~lost[j] /\ istatus'[j] = istatus[j] /\ version'[j] = version[j]
      BY <1>1, <1>4 DEF Rest, Buffers
    <2>2. Mentions(notices, j) \/ Mentions(queue, j) =>
            Mentions(notices', j) \/ Mentions(queue', j)
      BY <1>1, <1>2 DEF Mentions
    <2>3. QED
      BY <1>1, <2>1, <2>2, SameCurrent DEF AllCurrent
  <1>5. QED
    BY <1>3, <1>4

\* Rows that are neither at the browser nor on their way to it are those whose newest
\* notice was lost.
LEMMA CurrentStep == Buffers /\ Rest /\ AllCurrent /\ [Next]_vars => AllCurrent'
  <1> SUFFICES ASSUME Buffers, Rest, AllCurrent, [Next]_vars
               PROVE  AllCurrent'
    OBVIOUS
  <1>1. CASE \E i \in Invoices, to \in Statuses : ChangeStatus(i, to)
    BY <1>1, ChangeIsCurrent
  <1>2. CASE Publish
    BY <1>2, PublishedIsCurrent
  <1>3. CASE Connect
    BY <1>3, ConnectIsCurrent
  <1>4. CASE Send
    BY <1>4, SentIsCurrent
  <1>5. CASE OnOpen \/ OnSnapshot \/ OnInvoiceEvent
    BY <1>5, HandledIsCurrent
  <1>6. CASE Drop \/ Refused
    BY <1>6 DEF Drop, Refused, AllCurrent
  <1>7. ASSUME UNCHANGED <<istatus, wire, cards, queue, source>>,
               \A i \in Invoices : ~edited'[i] => ~edited[i] /\ version'[i] = version[i],
               \A i \in Invoices :
                 ~lost'[i] => ~lost[i] /\ (Mentions(notices, i) => Mentions(notices', i))
        PROVE  AllCurrent'
    <2>1. ASSUME source = "up", NEW i \in Invoices, ~lost'[i]
          PROVE  Current(i)'
      <3>1. Current(i) /\ (Mentions(notices, i) => Mentions(notices', i))
        BY <1>7, <2>1 DEF AllCurrent
      <3>2. Mentions(queue, i) => Mentions(queue', i)
        BY <1>7
      <3>3. QED
        BY <1>7, <3>1, <3>2, SameCurrent
    <2>2. QED
      BY <1>7, <2>1 DEF AllCurrent
  <1>8. CASE ListenBreaks
    <2>1. UNCHANGED <<istatus, version, wire, cards, queue, source, edited>>
      BY <1>8 DEF ListenBreaks
    <2>2. \A i \in Invoices : lost'[i] <=> lost[i] \/ Mentions(notices, i)
      BY <1>8 DEF ListenBreaks, Rest
    <2>3. QED
      BY <1>7, <2>1, <2>2
  <1>9. CASE ListenAgain \/ Render \/ (\E i \in Invoices : onRemoved(i)) \/ UNCHANGED vars
    <2>1. UNCHANGED <<istatus, version, wire, cards, queue, source, edited, lost, notices>>
      BY <1>9 DEF ListenAgain, Render, onRemoved, vars, serverVars
    <2>2. \A i \in Invoices : Mentions(notices, i) => Mentions(notices', i)
      BY <2>1
    <2>3. QED
      BY <1>7, <2>1, <2>2
  <1>10. ASSUME NEW j \in Invoices, EditRow(j)
         PROVE  AllCurrent'
    <2>1. /\ UNCHANGED <<istatus, wire, cards, queue, source, lost, notices>>
          /\ version' = [version EXCEPT ![j] = @ + 1] /\ edited' = [edited EXCEPT ![j] = TRUE]
      BY <1>10 DEF EditRow
    <2>2. \A i \in Invoices : ~edited'[i] => ~edited[i] /\ version'[i] = version[i]
      BY <2>1 DEF Rest, Buffers
    <2>3. \A i \in Invoices : Mentions(notices, i) => Mentions(notices', i)
      BY <2>1
    <2>4. QED
      BY <1>7, <2>1, <2>2, <2>3
  <1>11. QED
    BY <1>1, <1>2, <1>3, <1>4, <1>5, <1>6, <1>8, <1>9, <1>10 DEF Next

\* When everything that was committed has been delivered, every invoice in flight has a
\* card under the status of its row, and the card is the whole row except for edits made
\* after it was read, which no trigger announces (verification.py:98-101).  Only an invoice
\* whose newest notice was dropped by a full queue or by a broken LISTEN connection is
\* excepted (events.py:95-101, 119-157): neither the gap between the snapshot and the
\* notices nor an overflow that a later event follows costs anything.
THEOREM BoardAgreesWithRows == Spec => []CardsAgree
  <1>1. AllCurrent => CardsAgree
    <2> SUFFICES ASSUME AllCurrent, Delivered, NEW i \in Invoices, ~lost[i]
                 PROVE  Agrees(cards, i)
      BY DEF CardsAgree, Agrees
    <2>1. ~Mentions(notices, i) /\ ~Mentions(queue, i) /\ ~LastWord(i)
      BY DEF Delivered, Mentions, LastWord
    <2>2. QED
      BY <2>1 DEF AllCurrent, Current, Delivered
  <1>2. Init => AllCurrent
    BY DEF Init, AllCurrent
  <1>3. BoardInv => Buffers /\ Rest
    BY DEF BoardInv
  <1>4. QED
    BY <1>1, <1>2, <1>3, BuffersAreTrue, CurrentStep, PTL DEF Spec
=============================================================================
