--------------------------- MODULE MCWorktreePool ---------------------------
(***************************************************************************)
(* WorktreePool on a few names: branches and read-only checkouts, those of *)
(* two different refs.                                                     *)
(***************************************************************************)
EXTENDS WorktreePool

CONSTANTS a, b, k, l, m, c

MCOf == [key \in Keys |-> IF key = l THEN c ELSE m]
=============================================================================
