------------------------------ MODULE Custody ------------------------------
(***************************************************************************)
(* What the dispatch of the fleet promises of a branch: one keeper at a    *)
(* time, an agent or the operator.  An agent takes a branch nobody keeps,  *)
(* passes it to its successor or has it taken by the operator; what the    *)
(* operator took goes back to nobody, never straight to an agent.          *)
(***************************************************************************)
CONSTANTS Places, Agents, Operator

VARIABLE keepers

Init == keepers = [b \in Places |-> {}]

Take(b, a)     == keepers[b] = {} /\ keepers' = [keepers EXCEPT ![b] = {a}]
Pass(b, a, k)  == keepers[b] = {a} /\ keepers' = [keepers EXCEPT ![b] = {k}]
Release(b, k)  == keepers[b] = {k} /\ keepers' = [keepers EXCEPT ![b] = {}]

Next == \E b \in Places :
          \/ \E a \in Agents : Take(b, a)
          \/ \E a \in Agents, k \in Agents \cup {Operator} : Pass(b, a, k)
          \/ \E k \in Agents \cup {Operator} : Release(b, k)

Spec == Init /\ [][Next]_keepers
=============================================================================
