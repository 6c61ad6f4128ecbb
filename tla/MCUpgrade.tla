----------------------------- MODULE MCUpgrade -----------------------------
(* An instance of Upgrade: a goal on a branch, one for a desk agent, no jobs. *)
EXTENDS Upgrade, TLC
CONSTANTS g1, g2, b1
BranchOfTwo == g1 :> b1 @@ g2 :> NoBranch
=============================================================================
