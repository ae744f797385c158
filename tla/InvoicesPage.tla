---------------------------- MODULE InvoicesPage ----------------------------
(***************************************************************************)
(* The list of invoices                                                    *)
(* (apps/web/components/invoices/invoices-page-client.tsx): filter, order  *)
(* and page number live in the URL, every change of them loads a page of   *)
(* the list, and what is on the screen stays until an answer replaces it.  *)
(* The statuses change meanwhile.                                          *)
(***************************************************************************)
EXTENDS Fetches, FiniteSets

CONSTANTS
  Rows,       \* 1..n, the invoices by age
  Filters,    \* the statuses one filters by
  PageSize,   \* 25 in the code
  MaxPage,    \* bound: the largest page number
  MaxLoads    \* bound: how often the page loads

VARIABLES
  status,     \* invoices.status
  query,      \* query, from the URL
  data,       \* data, or NoData
  broken,     \* error # null: the error page replaces the list
  opened,     \* where router.push has led, or Here
  pages,      \* fetchInvoices
  answering   \* history: which request data answers, and its query

vars == <<status, query, data, broken, opened, pages, answering>>

\* One status of each kind the screen tells apart, in the order of the pipeline.
InvoiceStatus == <<"RECEIVED", "NEEDS_VERIFICATION", "PENDING_APPROVAL">>
Statuses == {InvoiceStatus[k] : k \in 1..3}

Any == "any"

\* InvoicesQuery: sort and order are absent until a column is clicked.
InvoicesQuery == [status : Filters \cup {Any}, sort : {Any, "total"},
                  order : {Any, "asc", "desc"}, page : 1..MaxPage]

\* InvoicesPage: the rows of one page with their statuses, and how many there are.
InvoiceListItem == [id : Rows, status : Statuses]
NoData == [total |-> "none"]
Here == "here"

TypeOK ==
  /\ status \in [Rows -> Statuses]
  /\ query \in InvoicesQuery
  /\ data = NoData \/ (data.items \subseteq InvoiceListItem /\ data.total \in 0..Cardinality(Rows))
  /\ broken \in BOOLEAN
  /\ opened \in {Here, "verify", "match"}
  /\ \A n \in InState(pages, "sent") \cup InState(pages, "answered") :
        pages[n].request \in InvoicesQuery
  /\ answering \in [number : 0..MaxLoads, query : InvoicesQuery]

\* Before the page is mounted, and mounted with its first load sent.
Start(mounted) ==
  /\ status \in [Rows -> IF mounted THEN {"RECEIVED", "NEEDS_VERIFICATION"} ELSE {"RECEIVED"}]
  /\ query = [status |-> Any, sort |-> Any, order |-> Any, page |-> 1]
  /\ data = NoData /\ broken = FALSE
  /\ opened = IF mounted THEN Here ELSE "match"
  /\ pages = IF mounted THEN FirstSent(MaxLoads, query) ELSE NoneSent(MaxLoads)
  /\ answering = [number |-> 0, query |-> query]

Init == Start(TRUE)

-----------------------------------------------------------------------------

\* The pipeline moves an invoice on.
StatusMoves(i) ==
  /\ \E k \in 1..2 : status[i] = InvoiceStatus[k]
                     /\ status' = [status EXCEPT ![i] = InvoiceStatus[k + 1]]
  /\ UNCHANGED <<query, data, broken, opened, pages, answering>>

\* The row of an invoice as it is sent.
toItem(i) == [id |-> i, status |-> status[i]]

\* list_invoices.  An offset beyond the end gives an empty page.
Matching(q) == {i \in Rows : q.status \in {Any, status[i]}}
Before(q, i, j) == IF q.order = "asc" THEN i < j ELSE i > j
list_invoices(q) ==
  [items |-> {toItem(i) :
                i \in {j \in Matching(q) :
                         Cardinality({k \in Matching(q) : Before(q, k, j)}) \div PageSize
                           = q.page - 1}},
   total |-> Cardinality(Matching(q))]

ServePage(n) ==
  /\ pages[n].state = "sent"
  /\ MayAnswer(pages, pages', n, list_invoices(pages[n].request))
  /\ UNCHANGED <<status, query, data, broken, opened, answering>>

-----------------------------------------------------------------------------

\* Mutant: the dependencies of the effect lack the page.
Mutant_Effect(q) ==
  IF [q EXCEPT !.page = query.page] = query THEN UNCHANGED pages
  ELSE \E n \in DOMAIN pages : IsNext(pages, n) /\ pages' = [pages EXCEPT ![n] = Sent(q)]

\* The effect: load whenever a field of the query has changed.
Effect(q) ==
  IF q = query THEN UNCHANGED pages
  ELSE \E n \in DOMAIN pages : IsNext(pages, n) /\ pages' = [pages EXCEPT ![n] = Sent(q)]

\* setQuery: the URL is replaced; the effect runs.
setQuery(q) ==
  /\ opened = Here /\ ~broken
  /\ query' = q
  /\ Effect(q)
  /\ UNCHANGED <<status, data, broken, opened, answering>>

\* The status filter.  Any change other than of the page resets the page.
FilterBy(s) == s # query.status /\ setQuery([query EXCEPT !.status = s, !.page = 1])

Listing == data # NoData /\ data.items # {}

\* handleSortChange: the column in the query turns its order round, another one starts
\* with "desc".
handleSortChange ==
  /\ Listing
  /\ setQuery(IF query.sort = "total"
                THEN [query EXCEPT !.order = IF @ = "asc" THEN "desc" ELSE "asc", !.page = 1]
                ELSE [query EXCEPT !.sort = "total", !.order = "desc", !.page = 1])

\* The number of pages is that of the data on the screen.
totalPages == IF data.total = 0 THEN 1 ELSE (data.total + PageSize - 1) \div PageSize

NextPage ==
  /\ Listing /\ query.page < totalPages /\ query.page < MaxPage
  /\ setQuery([query EXCEPT !.page = @ + 1])

\* Mutant: the button is not disabled on the first page.
Mutant_PreviousPage ==
  /\ Listing
  /\ setQuery([query EXCEPT !.page = @ - 1])

PreviousPage ==
  /\ Listing /\ query.page > 1
  /\ setQuery([query EXCEPT !.page = @ - 1])

\* "Retry": load with the query there is.
Retry ==
  /\ opened = Here /\ broken
  /\ broken' = FALSE
  /\ \E n \in DOMAIN pages : IsNext(pages, n) /\ pages' = [pages EXCEPT ![n] = Sent(query)]
  /\ UNCHANGED <<status, query, data, opened, answering>>

\* setData, whichever request it answers.
PageArrives(n) ==
  /\ opened = Here /\ pages[n].state = "answered"
  /\ data' = pages[n].answer
  /\ answering' = [number |-> n, query |-> pages[n].request]
  /\ pages' = [pages EXCEPT ![n] = Handled]
  /\ UNCHANGED <<status, query, broken, opened>>

PageFails(n) ==
  /\ opened = Here /\ pages[n].state = "failed"
  /\ broken' = TRUE
  /\ pages' = [pages EXCEPT ![n] = Handled]
  /\ UNCHANGED <<status, query, data, opened, answering>>

\* routeForStatus: there is a route.
routeForStatus(s) == s # "RECEIVED"

\* handleOpenInvoice, with the status the list shows.
handleOpenInvoice(item) ==
  /\ opened = Here /\ ~broken
  /\ routeForStatus(item.status)
  /\ opened' = IF item.status = "NEEDS_VERIFICATION" THEN "verify" ELSE "match"
  /\ UNCHANGED <<status, query, data, broken, pages, answering>>

OpenListed == Listing /\ \E item \in data.items : handleOpenInvoice(item)

-----------------------------------------------------------------------------

Next ==
  \/ \E i \in Rows : StatusMoves(i)
  \/ \E n \in DOMAIN pages : ServePage(n) \/ PageArrives(n) \/ PageFails(n)
  \/ \E s \in Filters \cup {Any} : FilterBy(s)
  \/ handleSortChange \/ NextPage \/ PreviousPage \/ Retry \/ OpenListed

\* Requests end and their continuations run.
Proceed ==
  \E n \in DOMAIN pages : ServePage(n) \/ PageArrives(n) \/ PageFails(n)

Fairness == WF_vars(Proceed)

\* What the page waits for while it has nothing to show.
Waiting == IF opened = Here /\ data = NoData /\ ~broken THEN {"list"} ELSE {}

-----------------------------------------------------------------------------
(***************************************************************************)
(* Properties                                                              *)
(***************************************************************************)

\* When everything is answered and the list on the screen is that of the newest request,
\* it is the list of the query in the URL, through changes of filter, order and page,
\* failures and "Retry".  (Nothing makes it that of the newest one.)
FollowsTheUrl ==
  Quiet(pages) /\ opened = Here /\ ~broken /\ NotSentAfter(pages, answering.number) =>
    answering.query = query
=============================================================================
