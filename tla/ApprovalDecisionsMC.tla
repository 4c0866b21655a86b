------------------------- MODULE ApprovalDecisionsMC -------------------------
(* Small instances of ApprovalDecisions. *)
EXTENDS ApprovalDecisions, TLC

CONSTANTS a1, a2, a3

\* One approval of each kind: two that are carried out before they are
\* recorded, and one that is only recorded.
OneOfEach ==
    [a \in Approvals |-> CASE a = a1 -> "hermes" [] a = a2 -> "github" [] OTHER -> "plain"]

CallersAreAlike == Permutations(Callers)

=============================================================================
