--------------------------- MODULE ControlPlaneMC ---------------------------
(* ControlPlane on a few tasks; run ids are interchangeable. *)
EXTENDS ControlPlane, TLC

RunSymmetry == Permutations(Runs)

=============================================================================
