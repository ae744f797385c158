---------------------------- MODULE PipelineBoard ----------------------------
(***************************************************************************)
(* The live pipeline board: how a change of invoices.status reaches a card *)
(* on the screen.                                                          *)
(*                                                                         *)
(*   row --trigger, commit--> notices --listen_for_events--> queue         *)
(*       --stream_pipeline_events--> wire --usePipelineStream--> cards     *)
(*       --render, effects--> visible                                      *)
(*                                                                         *)
(* apps/api/api/events.py holds one LISTEN connection per process and one  *)
(* bounded queue per browser; the endpoint of apps/api/api/main.py sends a *)
(* snapshot and then one event per notice, each with the card as it is at  *)
(* that moment.  apps/web/lib/pipeline-events.ts keeps what it received;   *)
(* apps/web/components/pipeline/pipeline-board.tsx shows and removes cards.*)
(* The board is mounted once per behaviour, for one tenant; a browser that *)
(* opens the page again starts from Init with the rows of that moment.     *)
(***************************************************************************)
EXTENDS Naturals, Sequences

CONSTANTS
  Invoices,         \* the tenant's invoice ids
  QueueCap,         \* maxsize of a subscriber's queue (256 in the code)
  MaxTransitions,   \* MAX_TRANSITIONS (200 in the code)
  ReducedMotion,    \* prefers-reduced-motion
  OpenedIn,         \* the statuses an invoice may have when the page is opened
  MaxWrites,        \* bound: writes of rows per behaviour
  MaxDrops,         \* bound: lost SSE connections per behaviour
  MaxOutages        \* bound: lost LISTEN connections per behaviour

VARIABLES
  istatus,     \* invoices.status
  version,     \* the number of writes of the row: updated_at, and occurred_at of a notice
  notices,     \* NOTIFY payloads committed and not yet read by listen_for_events
  listening,   \* the LISTEN connection is up
  queue,       \* the queue of this browser's connection, oldest first
  source,      \* the EventSource: "trying", "up", or "closed" for good
  wire,        \* what the endpoint has sent and the browser has not handled
  connection,  \* connectionState
  cards,       \* cards: a function on the invoice ids that have one
  fresh,       \* the transitions whose seq is above lastProcessedSeqRef
  visible,     \* visibleIds
  seen,        \* seenIdsRef
  leaving,     \* cards whose removal timeline is running
  dirty,       \* a state was set that no render has shown yet
  edited,      \* history: written without a change of status since its card was last read
  lost,        \* history: the newest notice of this invoice never gets to the browser
  spent        \* how much of the bounds has been used

serverVars == <<istatus, version, notices, listening>>
boardVars == <<fresh, visible, seen, leaving, dirty>>
vars == <<serverVars, queue, source, wire, connection, cards, boardVars,
          edited, lost, spent>>

Lifecycle == INSTANCE InvoiceLifecycle

Statuses == Lifecycle!InvoiceStatus
NoInvoice == Lifecycle!NoInvoice

ASSUME PipelineBoardAssumption ==
  /\ QueueCap \in Nat \ {0} /\ MaxTransitions \in Nat \ {0}
  /\ ReducedMotion \in BOOLEAN
  /\ OpenedIn \subseteq Statuses \cup {NoInvoice}
  /\ MaxWrites \in Nat /\ MaxDrops \in Nat /\ MaxOutages \in Nat

\* _PIPELINE_TERMINAL_STATUSES: what a snapshot leaves out.
PIPELINE_TERMINAL_STATUSES == {"POSTED", "REJECTED", "AUTO_POSTED"}

\* Mutant: a decision that a person may still reopen counts as an outcome.
Mutant_TERMINAL_SETTLE_STATUSES == {"AUTO_POSTED", "POSTED", "APPROVED", "NEEDS_VERIFICATION"}

\* The outcomes whose card settles and leaves the board; REJECTED drops off it.
TERMINAL_SETTLE_STATUSES == {"AUTO_POSTED", "POSTED", "APPROVED"}

Outcomes == TERMINAL_SETTLE_STATUSES \cup {"REJECTED"}

\* One invoice_event before and after the endpoint has added the card.
Notices == [inv : Invoices, from : Statuses \cup {NoInvoice}, to : Statuses,
            occurred_at : Nat]
PipelineCards == [status : Statuses, updated_at : Nat]
Transitions == [inv : Invoices, from : Statuses \cup {NoInvoice}, to : Statuses,
                card : PipelineCards]

\* cards is a partial function on the invoice ids; a message is one of three.
IsCards(c) == DOMAIN c \subseteq Invoices /\ \A i \in DOMAIN c : c[i] \in PipelineCards
IsMessage(m) ==
  \/ m = [type |-> "open"]
  \/ m.type = "snapshot" /\ IsCards(m.cards)
  \/ m.type = "invoice_event" /\ m.event \in Transitions

Exists(i) == istatus[i] # NoInvoice

\* _pipeline_card: the status, and one stamp for the number, the amount, the vendor and
\* updated_at, which every write of the row moves on.
pipeline_card(i) == [status |-> istatus[i], updated_at |-> version[i]]

Spendings == [writes : 0..MaxWrites, drops : 0..MaxDrops, outages : 0..MaxOutages]

\* Types.
TypeOK ==
  /\ istatus \in [Invoices -> Statuses \cup {NoInvoice}]
  /\ version \in [Invoices -> Nat]
  /\ notices \in Seq(Notices)
  /\ listening \in BOOLEAN
  /\ queue \in Seq(Notices) /\ Len(queue) <= QueueCap
  /\ source \in {"trying", "up", "closed"}
  /\ \A k \in DOMAIN wire : IsMessage(wire[k])
  /\ connection \in {"connecting", "open", "reconnecting"}
  /\ IsCards(cards)
  /\ fresh \in Seq(Transitions) /\ Len(fresh) <= MaxTransitions
  /\ visible \subseteq seen /\ seen \subseteq Invoices
  /\ leaving \subseteq seen
  /\ dirty \in BOOLEAN
  /\ edited \in [Invoices -> BOOLEAN] /\ lost \in [Invoices -> BOOLEAN]
  /\ spent \in Spendings

\* The page is opened while the rows are wherever their work has brought them.
Init ==
  /\ istatus \in [Invoices -> OpenedIn]
  /\ version = [i \in Invoices |-> IF Exists(i) THEN 1 ELSE 0]
  /\ notices = <<>> /\ listening = TRUE /\ queue = <<>>
  /\ source = "trying" /\ wire = <<>> /\ connection = "connecting"
  /\ cards = <<>> /\ fresh = <<>>
  /\ visible = {} /\ seen = {} /\ leaving = {} /\ dirty = FALSE
  /\ edited = [i \in Invoices |-> FALSE] /\ lost = [i \in Invoices |-> FALSE]
  /\ spent = [writes |-> 0, drops |-> 0, outages |-> 0]

-----------------------------------------------------------------------------
(***************************************************************************)
(* The database and the LISTEN connection                                  *)
(***************************************************************************)

\* A transaction writes one status and commits: the trigger's NOTIFY reaches a
\* listening connection and nobody else.
ChangeStatus(i, to) ==
  /\ spent.writes < MaxWrites
  /\ \/ to = "RECEIVED" /\ Lifecycle!Receive(i)
     \/ to # "POSTED" /\ Lifecycle!Move(i, to)
  /\ version' = [version EXCEPT ![i] = @ + 1]
  /\ notices' = IF listening
                  THEN Append(notices, [inv |-> i, from |-> istatus[i], to |-> to,
                                  occurred_at |-> version[i] + 1])
                  ELSE notices
  /\ lost' = [lost EXCEPT ![i] = ~listening]
  /\ spent' = [spent EXCEPT !.writes = @ + 1]
  /\ UNCHANGED <<listening, queue, source, wire, connection, cards, boardVars, edited>>

\* A transaction writes columns a card carries and leaves the status alone: a clerk's
\* correction of a header field, the header the extraction stores, the link of a vendor.
\* The trigger is on status only, so nobody is told.
EditRow(i) ==
  /\ Exists(i) /\ spent.writes < MaxWrites
  /\ version' = [version EXCEPT ![i] = @ + 1]
  /\ edited' = [edited EXCEPT ![i] = TRUE]
  /\ spent' = [spent EXCEPT !.writes = @ + 1]
  /\ UNCHANGED <<istatus, notices, listening, queue, source, wire, connection, cards,
                 boardVars, lost>>

\* Mutant: a full queue refuses the new event instead of dropping its oldest.
Mutant_Enqueue(q, e) == IF Len(q) = QueueCap THEN q ELSE Append(q, e)

\* EventBroadcaster.publish on one queue.
Enqueue(q, e) == Append(IF Len(q) = QueueCap THEN Tail(q) ELSE q, e)

Mentions(q, i) == \E k \in DOMAIN q : q[k].inv = i

\* listen_for_events reads one notice and publishes it to the connection, if any.
\* What the full queue drops is lost for its invoice unless a later event follows.
Publish ==
  /\ notices # <<>>
  /\ notices' = Tail(notices)
  /\ IF source = "up"
       THEN LET e == Head(notices) IN
            /\ queue' = Enqueue(queue, e)
            /\ lost' = [i \in Invoices |->
                          \/ lost[i]
                          \/ /\ Len(queue) = QueueCap /\ Head(queue).inv = i
                             /\ ~Mentions(Tail(queue) \o notices, i)]
       ELSE UNCHANGED <<queue, lost>>
  /\ UNCHANGED <<istatus, version, listening, source, wire, connection, cards, boardVars,
                 edited, spent>>

\* The LISTEN connection breaks: PostgreSQL forgets what it had not delivered.
ListenBreaks ==
  /\ listening /\ spent.outages < MaxOutages
  /\ listening' = FALSE
  /\ notices' = <<>>
  /\ lost' = [i \in Invoices |-> lost[i] \/ Mentions(notices, i)]
  /\ spent' = [spent EXCEPT !.outages = @ + 1]
  /\ UNCHANGED <<istatus, version, queue, source, wire, connection, cards, boardVars, edited>>

\* listen_for_events waits, connects again and re-issues LISTEN.
ListenAgain ==
  /\ ~listening
  /\ listening' = TRUE
  /\ UNCHANGED <<istatus, version, notices, queue, source, wire, connection, cards, boardVars,
                 edited, lost, spent>>

-----------------------------------------------------------------------------
(***************************************************************************)
(* GET /v1/events/stream                                                   *)
(***************************************************************************)

\* list_pipeline_invoices.
Snapshot ==
  [i \in {j \in Invoices : Exists(j) /\ istatus[j] \notin PIPELINE_TERMINAL_STATUSES}
     |-> pipeline_card(i)]

\* The endpoint answers: the snapshot is read and then the queue subscribed, with
\* no await in between at which the listener could run.
Connect ==
  /\ source = "trying"
  /\ source' = "up"
  /\ queue' = <<>>
  /\ wire' = <<[type |-> "open"], [type |-> "snapshot", cards |-> Snapshot]>>
  /\ edited' = [i \in Invoices |-> FALSE]
  /\ lost' = [i \in Invoices |-> FALSE]
  /\ UNCHANGED <<serverVars, connection, cards, boardVars, spent>>

\* Mutant: the event is sent with the card as it was when the status changed.
Mutant_EventFor(e) ==
  [inv |-> e.inv, from |-> e.from, to |-> e.to,
   card |-> [status |-> e.to, updated_at |-> e.occurred_at]]

\* get_pipeline_card: the card is read when the event is sent.
EventFor(e) ==
  [inv |-> e.inv, from |-> e.from, to |-> e.to, card |-> pipeline_card(e.inv)]

\* event_source takes one event from its queue and sends it.
Send ==
  /\ source = "up" /\ queue # <<>>
  /\ wire' = Append(wire, [type |-> "invoice_event", event |-> EventFor(Head(queue))])
  /\ queue' = Tail(queue)
  /\ edited' = [edited EXCEPT ![Head(queue).inv] = FALSE]
  /\ UNCHANGED <<serverVars, source, connection, cards, boardVars, lost, spent>>

-----------------------------------------------------------------------------
(***************************************************************************)
(* usePipelineStream                                                       *)
(***************************************************************************)

\* onerror, in either of its cases.
AfterError == IF connection = "connecting" THEN "connecting" ELSE "reconnecting"

\* The connection is lost: the browser will try again.  The endpoint finds its
\* client gone and unsubscribes the queue.
Drop ==
  /\ source = "up" /\ spent.drops < MaxDrops
  /\ source' = "trying"
  /\ queue' = <<>> /\ wire' = <<>>
  /\ connection' = AfterError
  /\ spent' = [spent EXCEPT !.drops = @ + 1]
  /\ UNCHANGED <<serverVars, cards, boardVars, edited, lost>>

\* An answer that is no event stream (a 5xx while the API restarts) closes an
\* EventSource for good; the hook does not look at readyState.
Refused ==
  /\ source = "trying" /\ spent.drops < MaxDrops
  /\ source' = "closed"
  /\ connection' = AfterError
  /\ spent' = [spent EXCEPT !.drops = @ + 1]
  /\ UNCHANGED <<serverVars, queue, wire, cards, boardVars, edited, lost>>

\* Mutant: a connection that comes back is not reported as open.
Mutant_OnOpen ==
  /\ wire # <<>> /\ Head(wire).type = "open"
  /\ wire' = Tail(wire)
  /\ connection' = IF connection = "connecting" THEN "open" ELSE connection
  /\ UNCHANGED <<serverVars, queue, source, cards, boardVars, edited, lost, spent>>

OnOpen ==
  /\ wire # <<>> /\ Head(wire).type = "open"
  /\ wire' = Tail(wire)
  /\ connection' = "open"
  /\ UNCHANGED <<serverVars, queue, source, cards, boardVars, edited, lost, spent>>

\* A snapshot replaces all cards.
OnSnapshot ==
  /\ wire # <<>> /\ Head(wire).type = "snapshot"
  /\ wire' = Tail(wire)
  /\ cards' = Head(wire).cards
  /\ dirty' = TRUE
  /\ UNCHANGED <<serverVars, queue, source, connection, fresh, visible, seen, leaving,
                 edited, lost, spent>>

\* Mutant: the log is never cut.
Mutant_Capped(s) == s

\* The last MaxTransitions elements.
Capped(s) == IF Len(s) > MaxTransitions THEN Tail(s) ELSE s

\* An invoice_event sets its card and appends its transition, and its line to the log.
OnInvoiceEvent ==
  /\ wire # <<>> /\ Head(wire).type = "invoice_event"
  /\ LET e == Head(wire).event IN
     /\ cards' = [i \in DOMAIN cards \cup {e.inv} |-> IF i = e.inv THEN e.card ELSE cards[i]]
     /\ fresh' = Capped(Append(fresh, e))
  /\ wire' = Tail(wire)
  /\ dirty' = TRUE
  /\ UNCHANGED <<serverVars, queue, source, connection, visible, seen, leaving,
                 edited, lost, spent>>

-----------------------------------------------------------------------------
(***************************************************************************)
(* PipelineBoard: render, effects and animations                           *)
(***************************************************************************)

\* A card on the page has an element, a PipelineCardView, by which animations find it.
PipelineCardViews == visible \cap DOMAIN cards

\* The entrance effect: the cards it has not seen become visible, which takes another
\* render.
Entering == DOMAIN cards \ seen

\* runTransition removes the card at the end of a terminal transition; without an
\* element it returns at once.  The moves along the rail, to the holding column and to
\* the failures tray change no state.
runTransition(transition, elements) ==
  IF transition.to \in Outcomes THEN {transition.inv} \cap elements ELSE {}

\* The transition effect runs every fresh transition but the first of an invoice
\* against the elements there are.
Leaving(elements) ==
  UNION {runTransition(fresh[k], elements) : k \in {n \in DOMAIN fresh :
                                                      fresh[n].from # NoInvoice}}

\* React renders the visible cards and runs both effects.
Render ==
  /\ dirty
  /\ LET new == Entering
         out == Leaving(PipelineCardViews)
     IN /\ seen' = seen \cup new
        /\ visible' = (visible \cup new) \ (IF ReducedMotion THEN out ELSE {})
        /\ leaving' = IF ReducedMotion THEN leaving ELSE leaving \cup out
        /\ dirty' = (visible' # visible)
  /\ fresh' = <<>>
  /\ UNCHANGED <<serverVars, queue, source, wire, connection, cards, edited, lost, spent>>

\* The removal timeline ends: onRemoved.
onRemoved(i) ==
  /\ i \in leaving
  /\ leaving' = leaving \ {i}
  /\ visible' = visible \ {i}
  /\ dirty' = TRUE
  /\ UNCHANGED <<serverVars, queue, source, wire, connection, cards, fresh, seen,
                 edited, lost, spent>>

-----------------------------------------------------------------------------

Next ==
  \/ \E i \in Invoices, to \in Statuses : ChangeStatus(i, to)
  \/ \E i \in Invoices : EditRow(i)
  \/ Publish \/ ListenBreaks \/ ListenAgain
  \/ Connect \/ Send \/ Drop \/ Refused
  \/ OnOpen \/ OnSnapshot \/ OnInvoiceEvent
  \/ Render \/ \E i \in Invoices : onRemoved(i)

Spec == Init /\ [][Next]_vars

\* What the two processes and the browser keep doing.  Nothing obliges a status to
\* change or a connection to fail.
FairSpec ==
  /\ Spec
  /\ WF_vars(Publish) /\ WF_vars(ListenAgain) /\ WF_vars(Connect) /\ WF_vars(Send)
  /\ WF_vars(OnOpen \/ OnSnapshot \/ OnInvoiceEvent)
  /\ WF_vars(Render) /\ \A i \in Invoices : WF_vars(onRemoved(i))

-----------------------------------------------------------------------------
(***************************************************************************)
(* Properties                                                              *)
(***************************************************************************)

\* Everything committed so far has reached the browser, or never will.
Delivered == source = "up" /\ notices = <<>> /\ queue = <<>> /\ wire = <<>>

InFlight(i) == Exists(i) /\ istatus[i] \notin PIPELINE_TERMINAL_STATUSES

\* A card never goes back in time, although notices older than the snapshot may
\* arrive after it and the queue may have lost some in between: the endpoint reads
\* the card anew for every event (lib/pipeline-events.ts overwrites blindly).
CardsOnlyForward ==
  [][\A i \in DOMAIN cards \cap DOMAIN cards' : cards'[i].updated_at >= cards[i].updated_at]_vars

\* A card shows the status its row has; and all of its row, unless that was written after
\* the card was read by a write that tells nobody.
Shows(card, i) ==
  card.status = istatus[i] /\ (~edited[i] => card.updated_at = version[i])

\* Once everything is delivered the cards are the rows: every invoice in flight has one,
\* under the status of its row, except where the newest notice of that invoice was lost.
\* A notice that falls between the snapshot and the subscription, or an overflow that
\* drops an event followed by a later one, costs nothing.  What a card may miss for good
\* is a correction of number, amount or vendor made after it was read.
CardsAgree ==
  Delivered =>
    \A i \in Invoices :
       ~lost[i] => /\ InFlight(i) => i \in DOMAIN cards
                   /\ i \in DOMAIN cards => Shows(cards[i], i)

\* A card the board has shown is hidden again only when its invoice has its outcome:
\* no transition, however late or repeated, takes away work that is still open.
HidesOnlyOutcomes == \A i \in seen \ visible : istatus[i] \in Outcomes

\* After its last fault the board catches up by itself, unless the EventSource was
\* closed for good or a notice was lost while the connection stayed up.
CatchesUp ==
  <>[](source = "closed" \/ (Delivered /\ ~dirty /\ leaving = {} /\ connection = "open"))
=============================================================================
