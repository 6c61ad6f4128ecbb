---------------------------- MODULE TenantLock ----------------------------
(***************************************************************************)
(* What the lock on an environment promises its presses: at most one run   *)
(* holds it, a run takes it only from nobody and only once, and gives it   *)
(* back for good.                                                          *)
(***************************************************************************)
CONSTANTS Envs, Runs, NoRun

VARIABLES holder,   \* the run that holds each environment
          spent     \* the runs that have been opened

Init == holder = [e \in Envs |-> NoRun] /\ spent = {}

Opens(e, r) == holder[e] = NoRun /\ r \notin spent /\ spent' = spent \cup {r}

Takes(e, r) == Opens(e, r) /\ holder' = [holder EXCEPT ![e] = r]

\* A run opened and abandoned at once.
Wastes(e, r) == Opens(e, r) /\ UNCHANGED holder

LetsGo(E) ==
    /\ holder' = [e \in Envs |-> IF e \in E THEN NoRun ELSE holder[e]]
    /\ UNCHANGED spent

Next ==
    \/ \E e \in Envs, r \in Runs : Takes(e, r) \/ Wastes(e, r)
    \/ \E E \in SUBSET Envs : LetsGo(E)

Spec == Init /\ [][Next]_<<holder, spent>>
=============================================================================
