------------------------------ MODULE MCMerges ------------------------------
(* An instance of Merges: a stack of two. *)
EXTENDS Merges
=============================================================================
