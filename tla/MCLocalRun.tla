----------------------------- MODULE MCLocalRun -----------------------------
(* Instances of LocalRun: two branches (goals), one or two calls at once. *)
EXTENDS LocalRun

CONSTANTS main, goal, c1, c2

OneRef == {goal}
TwoRefs == {main, goal}
OneCall == {c1}
TwoCalls == {c1, c2}
=============================================================================
