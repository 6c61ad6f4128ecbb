------------------------------ MODULE Tenancy ------------------------------
(***************************************************************************)
(* What the worktree pool promises whoever it hands a directory to: the    *)
(* directory is theirs alone until they leave it, and the tree in it is    *)
(* changed by nobody else in the meantime.                                 *)
(***************************************************************************)
CONSTANTS Slots, Names, Trees

VARIABLES
    tenants,  \* who a directory is for
    tree      \* what is checked out in it

Init ==
    /\ tenants = [s \in Slots |-> {}]
    /\ tree \in [Slots -> Trees]

(* A vacant directory is made ready for somebody, and may be theirs from   *)
(* that step on.                                                           *)
MakeReady(s) ==
    /\ tenants[s] = {}
    /\ \E n \in Names : tenants' \in {tenants, [tenants EXCEPT ![s] = {n}]}
    /\ \E t \in Trees : tree' = [tree EXCEPT ![s] = t]

(* Those who leave, a crash may make it several at once, touch nothing.    *)
Leave ==
    /\ \E S \in SUBSET Slots :
          tenants' = [s \in Slots |-> IF s \in S THEN {} ELSE tenants[s]]
    /\ UNCHANGED tree

Next == Leave \/ \E s \in Slots : MakeReady(s)

Spec == Init /\ [][Next]_<<tenants, tree>>
=============================================================================
