-------------------------- MODULE InvoiceLifecycle --------------------------
(***************************************************************************)
(* What the rest of the system promises about invoices.status: the state   *)
(* machine of packages/core/core/state_machine.py as an abstract           *)
(* specification.  An invoice row appears in RECEIVED and from then on its *)
(* status changes along ALLOWED_TRANSITIONS only.  The detailed module     *)
(* Pipeline is checked against this specification.                         *)
(***************************************************************************)
EXTENDS Naturals

CONSTANT Invoices            \* the invoice ids

VARIABLE istatus             \* istatus[i]: invoices.status, or NoInvoice

NoInvoice == "NO_INVOICE"    \* no row with this id has been inserted yet

\* The edges of the state diagram; the last four statuses are terminal.
ALLOWED_TRANSITIONS ==
  [ RECEIVED           |-> {"EXTRACTING"},
    EXTRACTING         |-> {"EXTRACTED", "EXTRACTION_FAILED"},
    EXTRACTED          |-> {"MATCHING"},
    MATCHING           |-> {"MATCHED_CLEAN", "NEEDS_VERIFICATION", "EXCEPTIONS_RAISED"},
    MATCHED_CLEAN      |-> {"AUTO_POSTED", "PENDING_APPROVAL"},
    NEEDS_VERIFICATION |-> {"MATCHING"},
    EXCEPTIONS_RAISED  |-> {"PENDING_APPROVAL"},
    PENDING_APPROVAL   |-> {"APPROVED", "REJECTED"},
    APPROVED           |-> {"POSTED"},
    AUTO_POSTED        |-> {},
    POSTED             |-> {},
    REJECTED           |-> {},
    EXTRACTION_FAILED  |-> {} ]

InvoiceStatus == DOMAIN ALLOWED_TRANSITIONS

\* TRUE where the code returns, FALSE where it raises InvalidStateTransition.
validate_transition(from, to) == to \in ALLOWED_TRANSITIONS[from]

-----------------------------------------------------------------------------

Init == istatus = [i \in Invoices |-> NoInvoice]

\* The row is inserted (api/db.py insert_invoice).
Receive(i) ==
  /\ istatus[i] = NoInvoice
  /\ istatus' = [istatus EXCEPT ![i] = "RECEIVED"]

\* Some component moves the invoice along an edge.
Move(i, to) ==
  /\ istatus[i] # NoInvoice
  /\ validate_transition(istatus[i], to)
  /\ istatus' = [istatus EXCEPT ![i] = to]

Next == \E i \in Invoices : Receive(i) \/ \E to \in InvoiceStatus : Move(i, to)

Spec == Init /\ [][Next]_istatus

\* A status is one of the diagram's, or there is no row yet.
TypeOK == istatus \in [Invoices -> InvoiceStatus \cup {NoInvoice}]

-----------------------------------------------------------------------------
(***************************************************************************)
(* Properties                                                              *)
(***************************************************************************)

\* How far along the happy path of docs/ARCHITECTURE.md section 4 a status is.
Progress ==
  [ NO_INVOICE |-> 0, RECEIVED |-> 1, EXTRACTING |-> 2, EXTRACTED |-> 3,
    EXTRACTION_FAILED |-> 3, MATCHING |-> 4, NEEDS_VERIFICATION |-> 5,
    MATCHED_CLEAN |-> 5, EXCEPTIONS_RAISED |-> 5, AUTO_POSTED |-> 6,
    PENDING_APPROVAL |-> 6, APPROVED |-> 7, REJECTED |-> 7, POSTED |-> 8 ]

\* Every step of every invoice goes forward, except the one edge that a human
\* correction takes: "the only backward edge in the graph"
\* (docs/ARCHITECTURE.md:235).  In particular no terminal status is ever left.
OnlyBackwardEdge ==
  [][\A i \in Invoices :
        istatus'[i] # istatus[i] =>
           \/ Progress[istatus'[i]] > Progress[istatus[i]]
           \/ istatus[i] = "NEEDS_VERIFICATION" /\ istatus'[i] = "MATCHING"]_istatus
=============================================================================
