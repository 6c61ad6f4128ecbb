----------------------------- MODULE MCDispatch -----------------------------
(* Instances of Dispatch: one goal with a branch or without one, two jobs. *)
EXTENDS Dispatch, TLC
CONSTANTS g1, b1
BranchOfCode == g1 :> b1
BranchOfDesk == g1 :> NoBranch
=============================================================================
