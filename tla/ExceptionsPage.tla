--------------------------- MODULE ExceptionsPage ---------------------------
(***************************************************************************)
(* The exceptions queue of one clerk                                       *)
(* (apps/web/components/exceptions/exceptions-page-client.tsx): a list     *)
(* filtered by the URL, cards that are resolved one by one or many at      *)
(* once, and a selection.  The same exceptions are resolved by other       *)
(* clerks, and settled by the decision on their invoice                    *)
(* (apps/api/api/exceptions_view.py, match_view.py).                       *)
(*                                                                         *)
(* Of the filters only the status is modelled; ages and entrance           *)
(* animations are left out.  The order of the cards is the server's and    *)
(* never changes, so that a list is the set of its cards.                  *)
(***************************************************************************)
EXTENDS Fetches, Sequences, FiniteSets

CONSTANTS
  Order,     \* the exception ids in the order of the list, a sequence
  MaxLoads,  \* bound: how often the page loads the list
  MaxClicks  \* bound: clicks on cards, check boxes and the bulk action bar

VARIABLES
  row,         \* match_exceptions.status with who settled it
  filter,      \* filters.status, from the URL
  exceptions,  \* exceptions, a set of ids, or NoList
  errorShown,  \* error # null: the error page replaces the queue
  selectedIds, \* selectedIds
  resolvingIds,\* resolvingIds
  lastClicked, \* lastClickedIndexRef, or 0 for null
  fetches,     \* fetchExceptions
  resolves,    \* resolveException, sent by its card or by the bulk action
  clicks,      \* how much of MaxClicks has been used
  shown        \* history: which request the list on the page answers, and its filter

pageVars == <<filter, exceptions, errorShown, selectedIds, resolvingIds, lastClicked>>
vars == <<row, pageVars, fetches, resolves, clicks, shown>>

Listable == {Order[k] : k \in DOMAIN Order}
Statuses == {"open", "resolved"}

\* Lists of cards, which the page tells apart by their ids.
ExceptionCards == SUBSET Listable

Settled == {"resolved by me", "settled by others"}
Origins == {"card", "bulk"}
NoList == {"no list"}

\* bulkResolving: Promise.all of the bulk action has not seen the last of its answers.
bulkResolving == \E e \in Listable : resolves[<<e, "bulk">>] # "none"

Listed(list) == IF list = NoList THEN {} ELSE list

\* list_exceptions for a filter.
list_exceptions(status) ==
  {e \in Listable : (row[e] = "open") = (status = "open")}

TypeOK ==
  /\ row \in [Listable -> {"open"} \cup Settled]
  /\ filter \in Statuses
  /\ exceptions \in ExceptionCards \cup {NoList}
  /\ errorShown \in BOOLEAN
  /\ selectedIds \subseteq Listable /\ resolvingIds \subseteq Listable
  /\ lastClicked \in 0..Len(Order)
  /\ \A n \in InState(fetches, "answered") : fetches[n].answer \in ExceptionCards
  /\ resolves \in [Listable \X Origins -> {"none", "sent", "resolved", "failed"}]
  /\ clicks \in 0..MaxClicks
  /\ shown \in [number : 0..MaxLoads, filter : Statuses]

\* Before the page is mounted, and mounted with its first load sent.
Start(mounted) ==
  /\ row = [e \in Listable |-> "open"]
  /\ filter = "open" /\ exceptions = NoList /\ errorShown = FALSE
  /\ selectedIds = {} /\ resolvingIds = {} /\ lastClicked = 0
  /\ fetches = IF mounted THEN FirstSent(MaxLoads, filter) ELSE NoneSent(MaxLoads)
  /\ resolves = [r \in Listable \X Origins |-> "none"]
  /\ clicks = 0
  /\ shown = [number |-> 0, filter |-> filter]

Init == Start(TRUE)

-----------------------------------------------------------------------------
(***************************************************************************)
(* The server                                                              *)
(***************************************************************************)

\* Mutant: the status under the row lock is not looked at.
Mutant_resolve_exception(e, who) == row' = [row EXCEPT ![e] = who]

\* resolve_exception, and likewise _settle_invoice: FOR UPDATE, and only what is open.
resolve_exception(e, who) == row[e] = "open" /\ row' = [row EXCEPT ![e] = who]

\* Another clerk resolves it, or the decision on its invoice settles it.
SettleElsewhere(e) ==
  /\ row[e] = "open"
  /\ row' = [row EXCEPT ![e] = "settled by others"]
  /\ UNCHANGED <<pageVars, fetches, resolves, clicks, shown>>

ServeFetch(n) ==
  /\ fetches[n].state = "sent"
  /\ MayAnswer(fetches, fetches', n, list_exceptions(fetches[n].request))
  /\ UNCHANGED <<row, pageVars, resolves, clicks, shown>>

\* Resolved and answered, resolved with the answer lost, or refused (409) or not there.
ServeResolve(r) ==
  /\ resolves[r] = "sent"
  /\ \/ /\ resolve_exception(r[1], "resolved by me")
        /\ resolves' \in {[resolves EXCEPT ![r] = s] : s \in {"resolved", "failed"}}
     \/ resolves' = [resolves EXCEPT ![r] = "failed"] /\ UNCHANGED row
  /\ UNCHANGED <<pageVars, fetches, clicks, shown>>

-----------------------------------------------------------------------------
(***************************************************************************)
(* The page                                                                *)
(***************************************************************************)

\* ExceptionsGrid: the cards on the page.
ExceptionsGrid == IF errorShown THEN {} ELSE Listed(exceptions)

\* What a card shows: its check box, and its button.
ExceptionGridCard(e) == [selected |-> e \in selectedIds, resolving |-> e \in resolvingIds]

\* BulkActionBar: it is on the page, also above an empty list.
BulkActionBar == ~errorShown /\ selectedIds # {}

Click == clicks < MaxClicks /\ clicks' = clicks + 1

\* load: one more request, whatever is under way.
Load(status) ==
  \E n \in DOMAIN fetches :
    IsNext(fetches, n) /\ fetches' = [fetches EXCEPT ![n] = Sent(status)]

\* setFilter replaces the URL; the new filterSignature makes a new load, whose effect
\* runs.  The filter bar is there even when the list is empty.
setFilter(status) ==
  /\ ~errorShown /\ status # filter
  /\ filter' = status
  /\ Load(status)
  /\ UNCHANGED <<row, exceptions, errorShown, selectedIds, resolvingIds, lastClicked,
                 resolves, clicks, shown>>

\* "Retry".
Retry ==
  /\ errorShown
  /\ errorShown' = FALSE
  /\ Load(filter)
  /\ UNCHANGED <<row, filter, exceptions, selectedIds, resolvingIds, lastClicked,
                 resolves, clicks, shown>>

\* An answer replaces the list, whichever load it belongs to; the selection stays.
FetchArrives(n) ==
  /\ fetches[n].state = "answered"
  /\ fetches' = [fetches EXCEPT ![n] = Handled]
  /\ exceptions' = fetches[n].answer
  /\ shown' = [number |-> n, filter |-> fetches[n].request]
  /\ UNCHANGED <<row, filter, errorShown, selectedIds, resolvingIds, lastClicked,
                 resolves, clicks>>

FetchFails(n) ==
  /\ fetches[n].state = "failed"
  /\ fetches' = [fetches EXCEPT ![n] = Handled]
  /\ errorShown' = TRUE
  /\ UNCHANGED <<row, filter, exceptions, selectedIds, resolvingIds, lastClicked,
                 resolves, clicks, shown>>

\* findIndex, counted from 1: the place of a card in the list on the page.
findIndex(e) ==
  Cardinality({k \in DOMAIN Order :
                 Order[k] \in exceptions /\ \E l \in DOMAIN Order : Order[l] = e /\ k <= l})

\* The cards of a shift-click, both ends included.
Between(k, l) ==
  {e \in exceptions : findIndex(e) \in IF k < l THEN k..l ELSE l..k}

\* handleToggleSelect.  A shift-click is to add the range from the last click; but the
\* updater reads lastClickedIndexRef when it runs, and React runs it within setSelectedIds
\* or in the next render, when the ref is already that of this click.  Within, a range
\* beyond the end of a list that has become shorter throws; React drops that error and
\* runs the updater again in the render.
handleToggleSelect(e, shift) ==
  /\ Click
  /\ e \in ExceptionsGrid
  /\ \/ /\ shift
        /\ \E l \in {findIndex(e), lastClicked} \cap 1..Cardinality(exceptions) :
              selectedIds' = selectedIds \cup Between(findIndex(e), l)
     \/ /\ ~shift
        /\ selectedIds' = IF ExceptionGridCard(e).selected THEN selectedIds \ {e}
                            ELSE selectedIds \cup {e}
  /\ lastClicked' = findIndex(e)
  /\ UNCHANGED <<row, filter, exceptions, errorShown, resolvingIds, fetches, resolves, shown>>

\* "Clear".
ClearSelection ==
  /\ Click
  /\ BulkActionBar
  /\ selectedIds' = {}
  /\ UNCHANGED <<row, filter, exceptions, errorShown, resolvingIds, lastClicked,
                 fetches, resolves, shown>>

\* doResolve of one card, up to its await.
ClickResolve(e) ==
  /\ Click
  /\ e \in ExceptionsGrid /\ ~ExceptionGridCard(e).resolving
  /\ resolves[<<e, "card">>] = "none"  \* bound: one request of each origin per card
  /\ resolvingIds' = resolvingIds \cup {e}
  /\ resolves' = [resolves EXCEPT ![<<e, "card">>] = "sent"]
  /\ UNCHANGED <<row, filter, exceptions, errorShown, selectedIds, lastClicked,
                 fetches, shown>>

\* handleResolveSelected: doResolve of all that is selected, also of what is under way
\* already or no longer listed.
handleResolveSelected ==
  /\ Click
  /\ BulkActionBar /\ ~bulkResolving
  /\ resolvingIds' = resolvingIds \cup selectedIds
  /\ resolves' = [r \in DOMAIN resolves |->
                    IF r[1] \in selectedIds /\ r[2] = "bulk" THEN "sent" ELSE resolves[r]]
  /\ UNCHANGED <<row, filter, exceptions, errorShown, selectedIds, lastClicked,
                 fetches, shown>>

\* The finally of doResolve.
Finish(r) ==
  /\ resolves' = [resolves EXCEPT ![r] = "none"]
  /\ resolvingIds' = resolvingIds \ {r[1]}

\* doResolve goes on: the card leaves the list, if there is one, and the selection.
Resolved(r) ==
  /\ resolves[r] = "resolved"
  /\ exceptions' = exceptions \ {r[1]}
  /\ selectedIds' = selectedIds \ {r[1]}
  /\ Finish(r)
  /\ UNCHANGED <<row, filter, errorShown, lastClicked, fetches, clicks, shown>>

\* Mutant: the card leaves the list whatever the answer was.
Mutant_ResolveFails(r) ==
  /\ resolves[r] = "failed"
  /\ errorShown' = TRUE
  /\ exceptions' = exceptions \ {r[1]}
  /\ Finish(r)
  /\ UNCHANGED <<row, filter, selectedIds, lastClicked, fetches, clicks, shown>>

ResolveFails(r) ==
  /\ resolves[r] = "failed"
  /\ errorShown' = TRUE
  /\ Finish(r)
  /\ UNCHANGED <<row, filter, exceptions, selectedIds, lastClicked, fetches,
                 clicks, shown>>

-----------------------------------------------------------------------------

Next ==
  \/ \E e \in Listable : SettleElsewhere(e) \/ ClickResolve(e)
  \/ \E n \in DOMAIN fetches : ServeFetch(n) \/ FetchArrives(n) \/ FetchFails(n)
  \/ \E r \in DOMAIN resolves : ServeResolve(r) \/ Resolved(r) \/ ResolveFails(r)
  \/ \E s \in Statuses : setFilter(s)
  \/ Retry \/ ClearSelection \/ handleResolveSelected
  \/ \E e \in Listable, shift \in BOOLEAN : handleToggleSelect(e, shift)

\* Requests end and their continuations run.  Nobody is obliged to click.
Proceed ==
  \/ \E n \in DOMAIN fetches : ServeFetch(n) \/ FetchArrives(n) \/ FetchFails(n)
  \/ \E r \in DOMAIN resolves : ServeResolve(r) \/ Resolved(r) \/ ResolveFails(r)

Fairness == WF_vars(Proceed)

\* What the queue waits for: each "Resolving..." card, and the bulk action.
Waiting == resolvingIds \cup (IF bulkResolving THEN {"bulk"} ELSE {})

-----------------------------------------------------------------------------
(***************************************************************************)
(* Properties                                                              *)
(***************************************************************************)

\* Without a new list a card leaves the queue only when its exception was resolved by
\* this clerk: no failed, refused or repeated request takes work off the screen, whether
\* one card, a selection or both send it.
OnlyResolvedLeave ==
  [][fetches' = fetches =>
       \A e \in Listed(exceptions) \ Listed(exceptions') : row[e] = "resolved by me"]_vars

\* Who settled an exception, and how, is never overwritten (exceptions_view.py:41-50):
\* neither by another clerk nor by the same clerk's second request.
SettlementStands == [][\A e \in Listable : row[e] # "open" => row'[e] = row[e]]_vars

\* When everything is answered and the list on the page is that of the newest request,
\* it is a list of the filter in the URL (lib/exceptions-url.ts:8-13), through changes
\* of the filter, failures and "Retry".  (Nothing makes it that of the newest one.)
FollowsTheUrl ==
  Quiet(fetches) /\ ~errorShown /\ NotSentAfter(fetches, shown.number) =>
    shown.filter = filter
=============================================================================
