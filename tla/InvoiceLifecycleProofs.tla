------------------------ MODULE InvoiceLifecycleProofs ------------------------
(***************************************************************************)
(* Proofs about InvoiceLifecycle, for any set of invoices.                 *)
(***************************************************************************)
EXTENDS InvoiceLifecycle, TLAPS

\* Every status is one of the state diagram's, or there is no row yet.
THEOREM TypeCorrect == Spec => []TypeOK
  <1>1. Init => TypeOK
    BY DEF Init, TypeOK
  <1>2. TypeOK /\ [Next]_istatus => TypeOK'
    <2> SUFFICES ASSUME TypeOK, [Next]_istatus
                 PROVE  TypeOK'
      OBVIOUS
    <2>1. ASSUME NEW i \in Invoices, Receive(i) PROVE TypeOK'
      <3>1. "RECEIVED" \in InvoiceStatus
        BY DEF InvoiceStatus, ALLOWED_TRANSITIONS
      <3>2. QED
        BY <2>1, <3>1 DEF Receive, TypeOK
    <2>2. ASSUME NEW i \in Invoices, NEW to \in InvoiceStatus, Move(i, to) PROVE TypeOK'
      BY <2>2 DEF Move, TypeOK
    <2>3. CASE UNCHANGED istatus
      BY <2>3 DEF TypeOK
    <2>4. QED
      BY <2>1, <2>2, <2>3 DEF Next
  <1>3. QED
    BY <1>1, <1>2, PTL DEF Spec

\* Along an edge the progress grows, unless it is the edge back to matching.
LEMMA EdgesGoForward ==
  ASSUME NEW from \in InvoiceStatus, NEW to, validate_transition(from, to)
  PROVE  \/ Progress[to] > Progress[from]
         \/ from = "NEEDS_VERIFICATION" /\ to = "MATCHING"
  <1>1. from \in {"RECEIVED", "EXTRACTING", "EXTRACTED", "MATCHING", "MATCHED_CLEAN",
                  "NEEDS_VERIFICATION", "EXCEPTIONS_RAISED", "PENDING_APPROVAL", "APPROVED",
                  "AUTO_POSTED", "POSTED", "REJECTED", "EXTRACTION_FAILED"}
    BY DEF InvoiceStatus, ALLOWED_TRANSITIONS
  <1> USE DEF validate_transition, ALLOWED_TRANSITIONS, Progress
  <1>2. CASE from = "RECEIVED"
    BY <1>2
  <1>3. CASE from = "EXTRACTING"
    BY <1>3
  <1>4. CASE from = "EXTRACTED"
    BY <1>4
  <1>5. CASE from = "MATCHING"
    BY <1>5
  <1>6. CASE from = "MATCHED_CLEAN"
    BY <1>6
  <1>7. CASE from = "NEEDS_VERIFICATION"
    BY <1>7
  <1>8. CASE from = "EXCEPTIONS_RAISED"
    BY <1>8
  <1>9. CASE from = "PENDING_APPROVAL"
    BY <1>9
  <1>10. CASE from = "APPROVED"
    BY <1>10
  <1>11. CASE from \in {"AUTO_POSTED", "POSTED", "REJECTED", "EXTRACTION_FAILED"}
    BY <1>11
  <1>12. QED
    BY <1>1, <1>2, <1>3, <1>4, <1>5, <1>6, <1>7, <1>8, <1>9, <1>10, <1>11

\* docs/ARCHITECTURE.md:235: a correction takes the only backward edge, so that an
\* invoice cannot go round in any other circle and no terminal status is left.
THEOREM OnlyOneWayBack == Spec => OnlyBackwardEdge
  <1> DEFINE Forward == \A i \in Invoices :
               istatus'[i] # istatus[i] =>
                 \/ Progress[istatus'[i]] > Progress[istatus[i]]
                 \/ istatus[i] = "NEEDS_VERIFICATION" /\ istatus'[i] = "MATCHING"
  <1>1. TypeOK /\ [Next]_istatus => [Forward]_istatus
    <2> SUFFICES ASSUME TypeOK, Next, NEW j \in Invoices, istatus'[j] # istatus[j]
                 PROVE  \/ Progress[istatus'[j]] > Progress[istatus[j]]
                        \/ istatus[j] = "NEEDS_VERIFICATION" /\ istatus'[j] = "MATCHING"
      OBVIOUS
    <2>1. ASSUME NEW i \in Invoices, Receive(i)
          PROVE  Progress[istatus'[j]] > Progress[istatus[j]]
      <3>1. istatus[j] = "NO_INVOICE" /\ istatus'[j] = "RECEIVED"
        BY <2>1 DEF Receive, TypeOK, NoInvoice
      <3>2. QED
        BY <3>1 DEF Progress
    <2>2. ASSUME NEW i \in Invoices, NEW to \in InvoiceStatus, Move(i, to)
          PROVE  \/ Progress[istatus'[j]] > Progress[istatus[j]]
                 \/ istatus[j] = "NEEDS_VERIFICATION" /\ istatus'[j] = "MATCHING"
      <3>1. istatus[j] \in InvoiceStatus /\ istatus'[j] = to
            /\ validate_transition(istatus[j], to)
        BY <2>2 DEF Move, TypeOK
      <3>2. QED
        BY <3>1, EdgesGoForward
    <2>3. QED
      BY <2>1, <2>2 DEF Next
  <1>2. QED
    BY <1>1, TypeCorrect, PTL DEF Spec, OnlyBackwardEdge
===============================================================================
