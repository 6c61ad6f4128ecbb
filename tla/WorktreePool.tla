---------------------------- MODULE WorktreePool ----------------------------
(***************************************************************************)
(* The pool of worktree slots: WorktreeManager with its serial queue, and  *)
(* the callers that decide what is asked of it and when: the executor that *)
(* leases a slot for a dispatch, the reaped listener that gives it back,   *)
(* the ejection that keeps it, the recovery that returns to it, the desks  *)
(* that warm a slot or delete a branch.                                    *)
(*                                                                         *)
(* A name is what a lease is under: a branch, or the key of a read-only    *)
(* checkout, which never becomes a ref.  One operation of the queue runs   *)
(* at a time, in steps that end where it awaits git: the survey, the wipe, *)
(* the switch.  Agents, operators and crashes act in between.              *)
(***************************************************************************)
EXTENDS Naturals, Sequences, FiniteSets

CONSTANTS
    Branches, Keys,  \* branches; keys of read-only checkouts
    Of,              \* [Keys -> refs]: what a read-only checkout is a checkout of
    Elsewhere,       \* branches checked out outside the pool
    Cap,             \* RuntimeControl.cap
    Slack,           \* POOL_SLACK
    MaxEjections,    \* bound: ejections standing at once
    MaxQueue,        \* bound: the queue a warm or a reap still joins
    HeadMoves,       \* whoever works in a slot may switch or detach its HEAD
    Restores,        \* an orphan may be restored to its directory
    Overlaps,        \* a name may be dispatched while its last agent has yet to leave
    None, Detached, Absent

Names == Branches \cup Keys
Refs  == {Of[k] : k \in Keys}
Slots == 0..(Cap + Slack + MaxEjections - 1)

ASSUME PoolAssumption ==
    /\ IsFiniteSet(Branches) /\ IsFiniteSet(Keys) /\ Branches \cap Keys = {}
    /\ Elsewhere \subseteq Branches
    /\ Cap \in Nat \ {0} /\ Slack \in Nat /\ MaxEjections \in Nat /\ MaxQueue \in Nat
    /\ HeadMoves \in BOOLEAN /\ Restores \in BOOLEAN /\ Overlaps \in BOOLEAN
ASSUME MarkersAssumption ==
    /\ {None, Detached, Absent} \cap (Names \cup Slots \cup Refs) = {}
    /\ None # Detached /\ None # Absent /\ Detached # Absent
    /\ Refs \cap Names = {}

VARIABLES
    head,       \* git worktree list: the branch a slot is on; Absent when it is not registered
    edits,      \* the name whose uncommitted tracked changes a slot carries
    built,      \* whose ignored files a slot carries
    mark,       \* the key in the slot's read-only mark
    branches,   \* local branches
    lease,      \* WorktreeManager.leases
    condemned,  \* WorktreeManager.condemned
    queue,      \* runSerial: the operations asked for, the first one running
    step,       \* where the running operation stands
    slot,       \* the slot it hands over
    target,     \* the name it prepares the slot for
    report,     \* acquire(): the salvage has been tried
    saved,      \* acquire(): the names whose work its salvage put under a ref
    verdict,    \* "exhausted" until the next operation ends, when an acquire() found no slot
    task,       \* store: what stands under a name
    home,       \* agents.cwd of the agent that is, or may again be, at work under a name
    leaving     \* the slot an agent that ended has not left yet; Absent once it was
                \* swept out of it and only its exit is to come

disk  == <<head, edits, built, mark, branches>>
pool  == <<lease, condemned>>
op    == <<step, slot, target, report, saved, verdict>>
fleet == <<task, home, leaving>>
vars  == <<disk, pool, queue, op, fleet>>

Source(n) == IF n \in Keys THEN Of[n] ELSE n

Least(S) == CHOOSE s \in S : \A t \in S : s <= t

-----------------------------------------------------------------------------
(* What the pool reads. *)

(* pool.held: an active task or a live ejection under the name.            *)
Held(n) == task[n] \in {"active", "orphan", "ejected"}

(* pool.size                                                               *)
Size == Cap + Slack + Cardinality({n \in Names : task[n] = "ejected"})

Registered == {s \in Slots : head[s] # Absent}

Lessees(s) == {n \in Names : lease[n] = s}

(* Mutant of Holders: the lease alone holds a slot.                        *)
HoldersByLease(s) == Lessees(s)

(* holder(): the lease, else the branch the slot is on, else its mark.     *)
Holders(s) ==
    IF Lessees(s) # {} THEN Lessees(s)
    ELSE IF head[s] \in Names /\ Held(head[s]) THEN {head[s]}
    ELSE IF mark[s] # None /\ Held(mark[s]) THEN {mark[s]}
    ELSE {}

(* standing(): what one slot is to a request.                              *)
Open  == {s \in Registered : s \notin condemned /\ Holders(s) = {}}
Stuck == {s \in Open : edits[s] # None}

(* Mutant of Clean: nobody asks git status.                                *)
CleanOrNot == Open

Clean == Open \ Stuck
Own(n)  == {s \in Registered \ condemned : n \in Holders(s)}

(* Mutant of SameRef: any mark will do.                                    *)
AnyRef(n, s) == n \in Keys /\ mark[s] # None

(* The slot is marked as a checkout of the ref the name asks for.          *)
SameRef(n, s) == n \in Keys /\ mark[s] # None /\ Of[mark[s]] = Of[n]

Warm(n) == {s \in Clean : SameRef(n, s)}

Spare(n) == {s \in Clean \ Warm(n) : mark[s] = None /\ head[s] \notin branches}
Evictable(n) == Clean \ (Warm(n) \cup Spare(n))

On(b) == {s \in Registered : head[s] = b}

(* Mutant of Mintable: the last slot of the pool is never minted.          *)
MintableShortOfSize ==
    IF Cardinality(Registered) + 1 < Size THEN {s \in Slots \ Registered : s < Size} ELSE {}

(* nextSlotPath(): the slots that may be minted, the lowest first.         *)
Mintable ==
    IF Cardinality(Registered) < Size THEN {s \in Slots \ Registered : s < Size} ELSE {}

-----------------------------------------------------------------------------
Fresh == /\ lease = [n \in Names |-> None]
         /\ condemned = {}
         /\ queue = <<>>
         /\ step = "survey" /\ slot = None /\ target = None /\ report = FALSE
         /\ saved = {} /\ verdict = "none"
         /\ leaving = [n \in Names |-> None]

Init ==
    /\ head = [s \in Slots |-> Absent]
    /\ edits = [s \in Slots |-> None]
    /\ built = [s \in Slots |-> {}]
    /\ mark = [s \in Slots |-> None]
    /\ branches \in {Elsewhere, Branches}
    /\ task = [n \in Names |-> "none"]
    /\ home = [n \in Names |-> None]
    /\ Fresh

-----------------------------------------------------------------------------
(* The running operation. *)

Running(kind) == queue # <<>> /\ Head(queue).kind = kind
Asked == Head(queue).name

(* The operation is over, and says how.                                    *)
Over(how) == /\ step' = "survey" /\ slot' = None /\ target' = None /\ report' = FALSE
             /\ saved' = {} /\ verdict' = how

Settled == queue' = Tail(queue) /\ Over("none")

(* Mutant of Granted: a spawn that throws settles the row only.            *)
GrantedForgetsSlot(n, s) ==
    /\ lease' = [lease EXCEPT ![n] = s]
    /\ \/ /\ task' = [task EXCEPT ![n] = "active"]
          /\ home' = [home EXCEPT ![n] = s]
       \/ /\ task' = [task EXCEPT ![n] = "none"]
          /\ UNCHANGED home
    /\ queue' = Tail(queue)
    /\ Over("none")
    /\ UNCHANGED leaving

(* The executor goes on in the same callback: the task row, then the       *)
(* spawn; or the spawn throws and abandonUnstarted() gives the slot back.  *)
Granted(n, s) ==
    /\ lease' = [lease EXCEPT ![n] = s]
    /\ \/ /\ task' = [task EXCEPT ![n] = "active"]
          /\ home' = [home EXCEPT ![n] = s]
          /\ queue' = Tail(queue)
       \/ /\ task' = [task EXCEPT ![n] = "none"]
          /\ queue' = Append(Tail(queue), [kind |-> "release", name |-> n])
          /\ UNCHANGED home
    /\ Over("none")
    /\ UNCHANGED leaving

(* The executor's catch: the row is settled and the slot released.         *)
Rejected(n, how) ==
    /\ task' = [task EXCEPT ![n] = "none"]
    /\ queue' = Append(Tail(queue), [kind |-> "release", name |-> n])
    /\ Over(how)
    /\ UNCHANGED <<disk, pool, home, leaving>>

(* sweep(): whatever stands in the slot is stopped, if it can be found.    *)
Swept(s) ==
    \/ leaving' = [n \in Names |-> IF leaving[n] = s THEN Absent ELSE leaving[n]]
    \/ UNCHANGED leaving

HandsOver(s, n) ==
    /\ step' = "wipe" /\ slot' = s /\ target' = n
    /\ UNCHANGED <<disk, pool, queue, report, saved, verdict, fleet>>

(* create(): a slot is minted on the branch, or detached and marked.       *)
Minted(s, n) ==
    /\ head' = [head EXCEPT ![s] = IF n \in Keys THEN Detached ELSE n]
    /\ branches' = branches \cup ({n} \ Keys)
    /\ mark' = [mark EXCEPT ![s] = IF n \in Keys THEN n ELSE None]
    /\ UNCHANGED edits

(* The slot's agent leaves its ignored files in it.                        *)
Builds(s, n, before) == built' = [built EXCEPT ![s] = before \cup {Source(n)}]

(* What acquire() finds first, if anything.                                *)
Reused(n) ==
    IF n \in Branches /\ On(n) # {} THEN On(n)
    ELSE IF n \in Keys THEN Own(n)
    ELSE {s \in Own(n) : \A t \in Spare(n) : s < t}

(* acquire(): the slot the name has already.                               *)
AcquireOwn ==
    /\ Running("ensure") /\ step = "survey"
    /\ LET n == Asked IN
       /\ Reused(n) # {}
       /\ LET s == Least(Reused(n)) IN
             Granted(n, s) /\ Builds(s, n, built[s])
    /\ UNCHANGED <<head, edits, mark, branches, condemned>>

Seeking(n) == step = "survey" /\ Reused(n) = {} /\ n \notin Elsewhere

(* The slots standing that acquire() would take, in its order.             *)
Candidates(n) ==
    IF Warm(n) # {} THEN Warm(n)
    ELSE IF Spare(n) # {} THEN Spare(n)
    ELSE IF Mintable # {} THEN {} ELSE Evictable(n)

AcquireTakes ==
    /\ Running("ensure") /\ Seeking(Asked)
    /\ Candidates(Asked) # {}
    /\ HandsOver(Least(Candidates(Asked)), Asked)

AcquireMints ==
    /\ Running("ensure") /\ Seeking(Asked)
    /\ Candidates(Asked) = {} /\ Mintable # {}
    /\ LET n == Asked
           s == Least(Mintable) IN
       /\ Minted(s, n)
       /\ Granted(n, s)
       /\ Builds(s, n, {})
    /\ UNCHANGED condemned

(* A branch checked out outside the pool is refused; a base that resolves  *)
(* to nothing, or a directory that cannot be reclaimed for a new slot,     *)
(* throws before any slot is touched.                                      *)
AcquireFails ==
    /\ Running("ensure") /\ step = "survey" /\ Reused(Asked) = {}
    /\ \/ Asked \in Elsewhere
       \/ Asked \notin branches /\ Candidates(Asked) \cup Mintable # {}
       \/ Candidates(Asked) = {} /\ Mintable # {}
    /\ Rejected(Asked, "none")

DeadEnd(n) == Seeking(n) /\ Candidates(n) = {} /\ Mintable = {}

(* Mutant of AcquireSalvages: the salvage is tried as often as it frees.   *)
AcquireSalvagesAgain ==
    /\ Running("ensure") /\ DeadEnd(Asked)
    /\ \E S \in SUBSET Stuck, R \in SUBSET condemned :
          /\ S \cup R # {}
          /\ edits' = [s \in Slots |-> IF s \in S THEN None ELSE edits[s]]
          /\ saved' = {edits[s] : s \in S}
          /\ condemned' = condemned \ R
          /\ built' = [s \in Slots |-> IF s \in R THEN {} ELSE built[s]]
    /\ report' = TRUE
    /\ UNCHANGED <<head, mark, branches, lease, queue, step, slot, target, verdict, fleet>>

(* Mutant of AcquireSalvages: the stash is dropped before it has a ref.    *)
AcquireDropsStash ==
    /\ Running("ensure") /\ DeadEnd(Asked) /\ ~report
    /\ \E S \in SUBSET Stuck, R \in SUBSET condemned :
          /\ S \cup R # {}
          /\ edits' = [s \in Slots |-> IF s \in S THEN None ELSE edits[s]]
          /\ condemned' = condemned \ R
          /\ built' = [s \in Slots |-> IF s \in R THEN {} ELSE built[s]]
    /\ report' = TRUE
    /\ UNCHANGED <<head, mark, branches, saved, lease, queue, step, slot, target, verdict, fleet>>

(* The dead end, once: salvage() stashes what git lets it of the stranded  *)
(* slots, revive() wipes what it can of the condemned ones.                *)
AcquireSalvages ==
    /\ Running("ensure") /\ DeadEnd(Asked) /\ ~report
    /\ \E S \in SUBSET Stuck, R \in SUBSET condemned :
          /\ S \cup R # {}
          /\ edits' = [s \in Slots |-> IF s \in S THEN None ELSE edits[s]]
          /\ saved' = {edits[s] : s \in S}
          /\ condemned' = condemned \ R
          /\ built' = [s \in Slots |-> IF s \in R THEN {} ELSE built[s]]
    /\ report' = TRUE
    /\ UNCHANGED <<head, mark, branches, lease, queue, step, slot, target, verdict, fleet>>

(* Nothing was freed, now or the time before: the refusal.                 *)
AcquireRefuses ==
    /\ Running("ensure") /\ DeadEnd(Asked)
    /\ Rejected(Asked, "exhausted")

(* warm(): a branch that exists, is nowhere checked out and is not held;   *)
(* a slot is minted for it or a spare one is handed over.                  *)
Warmable == {b \in branches \ Elsewhere : ~Held(b) /\ On(b) = {}}

PrewarmMints ==
    /\ Running("warm") /\ step = "survey" /\ Mintable # {}
    /\ \E b \in Warmable :
          LET s == Least(Mintable) IN
          Minted(s, b) /\ built' = [built EXCEPT ![s] = {}]
    /\ Settled
    /\ UNCHANGED <<pool, fleet>>

PrewarmTakes ==
    /\ Running("warm") /\ step = "survey" /\ Mintable = {}
    /\ \E b \in Warmable :
          Reused(b) = {} /\ Spare(b) # {} /\ HandsOver(Least(Spare(b)), b)

PrewarmEnds ==
    /\ Running("warm") /\ step = "survey"
    /\ Settled
    /\ UNCHANGED <<disk, pool, fleet>>

(* handedOver(): the mark is cleared ahead of the sweep and the wipe; the  *)
(* ignored files stay between two checkouts of one ref.                    *)
Wipe ==
    /\ step = "wipe"
    /\ mark' = [mark EXCEPT ![slot] = None]
    /\ built' = [built EXCEPT ![slot] = IF SameRef(target, slot) THEN @ ELSE {}]
    /\ Swept(slot)
    /\ step' = "switch"
    /\ UNCHANGED <<head, edits, branches, pool, queue, slot, target, report, saved, verdict,
                   task, home>>

(* Mutant of Refused: the slot is taken for handed over.                   *)
RefusedKeepsSlot ==
    /\ step \in {"wipe", "switch"}
    /\ condemned' = condemned \cup {slot}
    /\ mark' = [mark EXCEPT ![slot] = None]
    /\ queue' = IF Running("warm") THEN Tail(queue) ELSE queue
    /\ step' = "survey"
    /\ Swept(slot)
    /\ UNCHANGED <<head, edits, built, branches, saved, verdict, lease, slot, target, report,
                   task, home>>

(* condemn() and condemnSwitch(): a wipe still refused after the sweep, or *)
(* a switch refused for more than a stale lock.  acquire() surveys again,  *)
(* a warm ends.                                                            *)
Refused ==
    /\ step \in {"wipe", "switch"}
    /\ condemned' = condemned \cup {slot}
    /\ mark' = [mark EXCEPT ![slot] = None]
    /\ queue' = IF Running("warm") THEN Tail(queue) ELSE queue
    /\ step' = "survey" /\ slot' = None /\ target' = None
    /\ report' = (report /\ Running("ensure"))
    /\ Swept(slot)
    /\ UNCHANGED <<head, edits, built, branches, saved, verdict, lease, task, home>>

Switch ==
    /\ step = "switch"
    /\ Minted(slot, target)
    /\ IF Running("ensure")
       THEN Granted(target, slot) /\ Builds(slot, target, built[slot])
       ELSE /\ Settled
            /\ UNCHANGED <<built, lease, fleet>>
    /\ UNCHANGED condemned

(* release(): the slot is swept, then the lease is dropped.                *)
Release ==
    /\ Running("release")
    /\ IF lease[Asked] = None THEN UNCHANGED leaving ELSE Swept(lease[Asked])
    /\ lease' = [lease EXCEPT ![Asked] = None]
    /\ Settled
    /\ UNCHANGED <<disk, condemned, task, home>>

(* reap() refuses a branch whose slot is leased or whose work is held.     *)
Reapable(b) ==
    On(b) # {} => ~Held(b) /\ \A s \in On(b) : Lessees(s) = {}

(* reap(): the lease is released, the slot detached, the branch deleted; a *)
(* branch checked out outside the pool is refused by then.                 *)
Reap ==
    /\ Running("reap") /\ Reapable(Asked)
    /\ IF lease[Asked] = None THEN UNCHANGED leaving ELSE Swept(lease[Asked])
    /\ lease' = [lease EXCEPT ![Asked] = None]
    /\ IF Asked \in Elsewhere
       THEN UNCHANGED <<head, branches>>
       ELSE /\ head' = [s \in Slots |-> IF head[s] = Asked THEN Detached ELSE head[s]]
            /\ branches' = branches \ {Asked}
    /\ Settled
    /\ UNCHANGED <<edits, built, mark, condemned, task, home>>

ReapRefused ==
    /\ Running("reap") /\ ~Reapable(Asked)
    /\ Settled
    /\ UNCHANGED <<disk, pool, fleet>>

Operation ==
    \/ AcquireOwn \/ AcquireFails \/ AcquireTakes \/ AcquireMints \/ AcquireSalvages
    \/ AcquireRefuses \/ Wipe \/ Refused \/ Switch
    \/ PrewarmMints \/ PrewarmTakes \/ PrewarmEnds
    \/ Release \/ Reap \/ ReapRefused

-----------------------------------------------------------------------------
(* The callers. *)

Waits(kind) == \E i \in 1..Len(queue) : queue[i].kind = kind
WaitsFor(kind, n) == \E i \in 1..Len(queue) : queue[i].kind = kind /\ queue[i].name = n

Asks(kind, n) == queue' = Append(queue, [kind |-> kind, name |-> n])

(* The executor: one dispatch at a time, past the branch gate and the cap. *)
Dispatch(n) ==
    /\ ~Waits("ensure")
    /\ ~Held(n)
    /\ Overlaps \/ (leaving[n] = None /\ ~WaitsFor("release", n))
    /\ Cardinality({m \in Names : task[m] = "active"}) < Cap
    /\ task' = [task EXCEPT ![n] = "asked"]
    /\ Asks("ensure", n)
    /\ UNCHANGED <<disk, pool, op, home, leaving>>

(* An agent's task is settled (done, failed, killed); its process has yet  *)
(* to leave.  At most one does at a time under a name.                     *)
Finish(n) ==
    /\ task[n] = "active" /\ leaving[n] = None
    /\ task' = [task EXCEPT ![n] = "none"]
    /\ leaving' = [leaving EXCEPT ![n] = home[n]]
    /\ home' = [home EXCEPT ![n] = None]
    /\ UNCHANGED <<disk, pool, queue, op>>

(* eject(): the kill and the row, with nothing in between.                 *)
Eject(n) ==
    /\ task[n] = "active" /\ leaving[n] = None
    /\ Cardinality({m \in Names : task[m] = "ejected"}) < MaxEjections
    /\ task' = [task EXCEPT ![n] = "ejected"]
    /\ leaving' = [leaving EXCEPT ![n] = home[n]]
    /\ UNCHANGED <<disk, pool, queue, op, home>>

(* settle() and sweepExpiries()                                            *)
Settle(n) ==
    /\ task[n] = "ejected"
    /\ task' = [task EXCEPT ![n] = "none"]
    /\ home' = [home EXCEPT ![n] = None]
    /\ UNCHANGED <<disk, pool, queue, op, leaving>>

(* The reaped listener: the slot is released unless another task is active *)
(* on the branch.                                                          *)
Exits(n) ==
    /\ leaving[n] # None
    /\ leaving' = [leaving EXCEPT ![n] = None]
    /\ IF task[n] \in {"active", "orphan"}
       THEN UNCHANGED queue
       ELSE Asks("release", n)
    /\ UNCHANGED <<disk, pool, op, task, home>>

(* RecoveryDesk: an orphan goes back to its directory, with no lease, or   *)
(* is let go.                                                              *)
Decide(n) ==
    /\ task[n] = "orphan"
    /\ \/ Restores /\ task' = [task EXCEPT ![n] = "active"] /\ UNCHANGED home
       \/ task' = [task EXCEPT ![n] = "none"] /\ home' = [home EXCEPT ![n] = None]
    /\ UNCHANGED <<disk, pool, queue, op, leaving>>

(* PrewarmDesk.run(): one pass at a time.                                  *)
Prewarm ==
    /\ ~Waits("warm") /\ Len(queue) < MaxQueue
    /\ Asks("warm", None)
    /\ UNCHANGED <<disk, pool, op, fleet>>

(* BranchReapDesk and restartPart(): a branch with no active task.         *)
AskReap(b) ==
    /\ b \in branches /\ task[b] \notin {"active", "orphan"}
    /\ ~Waits("reap") /\ Len(queue) < MaxQueue
    /\ Asks("reap", b)
    /\ UNCHANGED <<disk, pool, op, fleet>>

(* Whoever works in a slot leaves tracked changes in it, or commits them.  *)
WorksIn(n, s) ==
    \/ home[n] = s /\ task[n] \in {"active", "ejected"}
    \/ leaving[n] = s

Edit(n, s) ==
    /\ WorksIn(n, s)
    /\ edits' = [edits EXCEPT ![s] = IF @ = None THEN n ELSE None]
    /\ UNCHANGED <<head, built, mark, branches, pool, queue, op, fleet>>

(* git switch, or the detached HEAD of a rebase.                           *)
Move(n, s) ==
    /\ HeadMoves /\ WorksIn(n, s)
    /\ \E b \in {Detached} \cup (Branches \ Elsewhere) :
          /\ On(b) = {} \/ b = Detached
          /\ head' = [head EXCEPT ![s] = b]
          /\ branches' = branches \cup ({b} \ {Detached})
    /\ UNCHANGED <<edits, built, mark, pool, queue, op, fleet>>

(* The process stops or dies at any moment: what is in memory is gone, and *)
(* an operation with it; a dispatch that had no row yet leaves nothing.    *)
Restart ==
    /\ lease' = [n \in Names |-> None]
    /\ condemned' = {}
    /\ queue' = <<>>
    /\ Over("none")
    /\ leaving' = [n \in Names |-> None]
    /\ task' = [n \in Names |->
                  CASE task[n] = "active" -> "orphan"
                    [] task[n] = "asked" -> "none"
                    [] OTHER -> task[n]]
    /\ UNCHANGED <<disk, home>>

Next ==
    \/ Operation
    \/ \E n \in Names : Dispatch(n) \/ Finish(n) \/ Eject(n) \/ Settle(n) \/ Exits(n) \/ Decide(n)
    \/ \E n \in Names, s \in Slots : Edit(n, s) \/ Move(n, s)
    \/ \E b \in Branches : AskReap(b)
    \/ Prewarm \/ Restart

(* Fairness: git has a deadline, so an operation that began goes on.       *)
Fairness == WF_vars(Operation)

Spec == Init /\ [][Next]_vars /\ Fairness

-----------------------------------------------------------------------------
(* Properties. *)

Kinds == {"ensure", "warm", "release", "reap"}

(* Type invariant: leases, marks and rows name slots and names of the      *)
(* pool; one dispatch, one warm and one reap at most wait in the queue.    *)
TypeOK ==
    /\ head \in [Slots -> Branches \cup {Detached, Absent}]
    /\ edits \in [Slots -> Names \cup {None}]
    /\ built \in [Slots -> SUBSET (Branches \cup Refs)]
    /\ mark \in [Slots -> Keys \cup {None}]
    /\ branches \subseteq Branches
    /\ saved \subseteq Names
    /\ lease \in [Names -> Slots \cup {None}]
    /\ condemned \subseteq Slots
    /\ queue \in Seq([kind : Kinds, name : Names \cup {None}])
    /\ step \in {"survey", "wipe", "switch"}
    /\ slot \in IF step = "survey" THEN {None} ELSE Slots
    /\ target \in Names \cup {None}
    /\ report \in BOOLEAN
    /\ verdict \in {"none", "exhausted"}
    /\ task \in [Names -> {"none", "asked", "active", "orphan", "ejected"}]
    /\ home \in [Names -> Slots \cup {None}]
    /\ leaving \in [Names -> Slots \cup {None, Absent}]

(* Whose a directory is: that of an agent or an orphan, or of the operator *)
(* who ejected one; and, to the end, of a process that has yet to leave.   *)
Tenants(s) == {n \in Names : home[n] = s /\ Held(n)}
Occupants(s) == Tenants(s) \cup {n \in Names : leaving[n] = s}

(* The pool keeps its promise to every tenant, through hand-overs, warms,  *)
(* reaps, salvages, condemnations and restarts: an orphan that is restored *)
(* and an operator who ejected find what was left.                         *)
Promise == INSTANCE Tenancy WITH
    tenants <- [s \in Slots |-> Tenants(s)],
    tree <- head,
    Trees <- Branches \cup {Detached, Absent}
TenantsKeepTheirTree == Promise!Spec

(* And it keeps it to the last process: a directory is not detached,       *)
(* switched or given away before the exit of whoever was in it.            *)
LastPromise == INSTANCE Tenancy WITH
    tenants <- [s \in Slots |-> Occupants(s)],
    tree <- head,
    Trees <- Branches \cup {Detached, Absent}
OccupantsKeepTheirTree == LastPromise!Spec

(* The same, of the moment a hand-over begins: the slot it wipes is no     *)
(* tenant's, and no two share one.                                         *)
SlotIsExclusive ==
    \A s \in Slots :
        /\ Cardinality(Tenants(s)) <= 1
        /\ slot = s => Tenants(s) = {}

(* Nobody is handed a directory that carries the uncommitted tracked work  *)
(* of another: git switch would carry it onto the new branch.              *)
NoForeignEdits ==
    \A n \in Names : task[n] = "active" => edits[home[n]] \in {None, n}

(* Uncommitted tracked work leaves a slot by the hand of whoever works     *)
(* there, or to a salvage ref.                                             *)
WorkIsKept ==
    [][\A s \in Slots :
          edits[s] # None /\ edits'[s] # edits[s]
              => (\E n \in Names : WorksIn(n, s)) \/ edits[s] \in saved']_vars

(* A mark tells what its slot is: a detached checkout, with no ignored     *)
(* files but those of the ref it names.  Whatever hand-over, crash or      *)
(* condemnation came in between, a tree the harness cannot vouch for       *)
(* carries no mark.                                                        *)
MarkTellsTree ==
    \A s \in Slots :
        mark[s] # None => head[s] = Detached /\ built[s] \subseteq {Of[mark[s]]}

(* A lease is always somebody's to give back: an active task, a process    *)
(* whose exit is to come, or a release that waits in the queue.            *)
LeaseIsAccounted ==
    \A n \in Names :
        lease[n] # None => task[n] = "active" \/ leaving[n] # None \/ WaitsFor("release", n)

(* A dispatch is refused for want of a slot only when every slot is held,  *)
(* condemned or carries work that could not be saved, and no other may be  *)
(* minted.                                                                 *)
RefusedOnlyWhenFull ==
    [][(verdict' = "exhausted" /\ verdict # "exhausted")
          => /\ \A s \in Registered : s \in condemned \/ Holders(s) # {} \/ edits[s] # None
             /\ Cardinality(Registered) >= Size]_vars

(* Every dispatch is answered: each refusal of git takes one slot out of   *)
(* the survey and the salvage is tried once, so acquire() ends.            *)
DispatchIsAnswered ==
    \A n \in Names : task[n] = "asked" ~> task[n] # "asked"

(* What the release promises: the agent of a new dispatch on the branch is *)
(* not there yet when the slot is swept of the old one's leftovers.        *)
ReleaseSparesSuccessor ==
    [][(Running("release") /\ queue' = Tail(queue) /\ lease[Asked] # None)
          => task[Asked] # "active"]_vars

(* A slot somebody works in is not wiped: revive() runs git clean -ffdx in *)
(* the slots it takes back.                                                *)
ReviveSparesWorkers ==
    [][queue' # <<>> => \A s \in condemned \ condemned' : Tenants(s) = {}]_vars

(* The pool's book-keeping: what WorktreeManager holds in memory has its   *)
(* type and every lease has somebody to give it back.                      *)
PoolIsAccounted == TypeOK /\ LeaseIsAccounted

(* What a hand-over may never do, also while workers move their HEADs:     *)
(* lose uncommitted work, or refuse a dispatch a slot could be had for.    *)
HandOversAreSafe == WorkIsKept /\ RefusedOnlyWhenFull

(* A tree is what the dispatch that gets it is told: on a branch it        *)
(* carries nobody else's edits, and a mark vouches for its build.          *)
TreesAreTold == NoForeignEdits /\ MarkTellsTree
=============================================================================
