------------------------------ MODULE MCPipeline ------------------------------
(* Small instances of Pipeline for TLC. *)
EXTENDS Pipeline, TLC

CONSTANTS i1, r1, w1, w2

MCPolicy == [min_field_confidence |-> 2, auto_approve_below |-> 2, dual_approval_above |-> 3]

Doc(data, confidence, total) == [data |-> data, confidence |-> confidence, total |-> total]

\* One document per branch: posted by itself, one approver at each of the two thresholds,
\* two approvers, not trusted, not scored, not valid, not complete.
AllDocuments ==
  { Doc("valid", 2, 1), Doc("valid", 2, 2), Doc("valid", 2, 3), Doc("valid", 2, 4),
    Doc("valid", 1, 1), Doc("valid", NoConfidence, 1),
    Doc("invalid", 2, 1), Doc("incomplete", 2, 1) }

\* Complete and valid, trusted or not: nothing about the data can strand it.
GoodDocuments == { Doc("valid", 2, 1), Doc("valid", 2, 4), Doc("valid", 1, 1) }

\* What matters to a correction and a re-run: trusted or not, valid or not.
CorrectableDocuments == { Doc("invalid", 2, 2), Doc("valid", 2, 2), Doc("valid", 1, 2) }

\* The clerk's case: a re-run is asked for only of an invoice in NEEDS_VERIFICATION (so its
\* vendor is linked: it has been matched) whose fields are valid after a correction.
AskedAfterCorrection ==
  Init /\ [][/\ Next
             /\ \A r \in Reruns, i \in Invoices :
                  RerunRead(r, i) => /\ istatus[i] = "NEEDS_VERIFICATION"
                                     /\ corrections > 0 /\ doc[i].data = "valid"]_vars

WorkerSymmetry == Permutations(Workers)
=============================================================================
