----------------------------- MODULE MCApprovals -----------------------------
(* Small instances of Approvals for TLC. *)
EXTENDS Approvals, TLC

CONSTANTS a1, a2, u1, q1, q2, q3, e1, e2

ApproverSymmetry == Permutations(Approvers)
=============================================================================
