------------------------------- MODULE Decision -------------------------------
(***************************************************************************)
(* The approval-routing decision (packages/core/core/decision.py), a pure  *)
(* function of the match result, the extraction confidence, the invoice    *)
(* total and the tenant's tolerance policy.  Amounts and confidences are   *)
(* naturals: only their order matters.                                     *)
(***************************************************************************)
EXTENDS Naturals

CONSTANT NoConfidence        \* overall_confidence IS NULL

ASSUME NoConfidenceAssumption == NoConfidence \notin Nat

MatchResults == {"clean", "exceptions", "blocked"}

\* What load_tolerance_policy accepts (the fields that decide reads).
IsPolicy(policy) ==
  /\ policy.min_field_confidence \in Nat
  /\ policy.auto_approve_below \in Nat \ {0}
  /\ policy.dual_approval_above \in Nat
  /\ policy.dual_approval_above > policy.auto_approve_below

_required_approvers(total, policy) == IF total > policy.dual_approval_above THEN 2 ELSE 1

Trusted(confidence, policy) ==
  confidence # NoConfidence /\ confidence >= policy.min_field_confidence

\* Low confidence comes first; then only a clean match of a small invoice goes
\* through by itself.
decide(result, confidence, total, policy) ==
  CASE ~Trusted(confidence, policy) ->
         [outcome |-> "NEEDS_VERIFICATION", required_approvers |-> 0]
    [] Trusted(confidence, policy) /\ result = "clean" /\ total < policy.auto_approve_below ->
         [outcome |-> "AUTO_POST", required_approvers |-> 0]
    [] OTHER ->
         [outcome |-> "PENDING_APPROVAL",
          required_approvers |-> _required_approvers(total, policy)]
===============================================================================
