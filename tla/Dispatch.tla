------------------------------ MODULE Dispatch ------------------------------
(***************************************************************************)
(* The executor (src/executor/actionExecutor.ts) and everything its        *)
(* admission reads: the tasks with their agents, the queue of jobs         *)
(* (store/jobs.ts), the ejections (ejection/desk.ts), the operator's pause *)
(* and cap (runtimeControl.ts), the profile lift (agents/agentManager.ts)  *)
(* and the recovery desk that settles what a dead process left behind      *)
(* (agents/recoveryDesk.ts).                                               *)
(*                                                                         *)
(* A cycle's plan is a sequence of works performed strictly in order.  The *)
(* executor asks admission, then AWAITS the ci evidence and the slot, and  *)
(* only then records the task, starts the agent and marks the job: the     *)
(* rest of the system runs during the await and nowhere else.              *)
(***************************************************************************)
EXTENDS Naturals, Sequences, FiniteSets

CONSTANTS
    Goals,        \* origins the rules propose work for (issue:<n>, pr:<n>/ci, ...)
    BranchOf,     \* the branch a goal's own work runs on; NoBranch for a desk agent
    Branches,     \* the branches there are
    NoBranch,     \* a desk agent has none
    BriefsOn,     \* the branches a brief may name; NoBranch for a desk brief
    NoOrigin,     \* a job that stands in for nothing
    NJobs,        \* bound: job rows
    NSeats,       \* bound: task rows, each with its one agent row
    Caps,         \* the caps the operator may set
    BootCap,      \* maxConcurrentAgents
    StartPaused   \* startPaused

ASSUME DispatchAssumption ==
    /\ NJobs \in Nat /\ NSeats \in Nat
    /\ NoBranch \notin Branches
    /\ BranchOf \in [Goals -> Branches \cup {NoBranch}]
    /\ BriefsOn \subseteq Branches \cup {NoBranch}
    /\ Caps \subseteq Nat /\ BootCap \in Caps
    /\ StartPaused \in BOOLEAN
    /\ Goals \cap (1 .. NJobs) = {}
    /\ NoOrigin \notin Goals \cup (1 .. NJobs)

Jobs  == 1 .. NJobs
Seats == 1 .. NSeats
Works == Goals \cup Jobs          \* a job j is the origin job:<j>

VARIABLES
    acts,    \* the dispatches of the running plan still to be performed
    step,    \* where the executor is
    live,    \* run.live.count, read once for the plan and counted on by hand
    seat,    \* the task row the executor has just written
    seats,   \* the task and agent rows
    jobs,    \* the job rows
    held,    \* the live ejections
    paused,  \* RuntimeControl.paused
    cap,     \* RuntimeControl.cap
    phase    \* "up", or "leaving" once the shutdown has interrupted the agents

vars == <<acts, step, live, seat, seats, jobs, held, paused, cap, phase>>
executor == <<acts, step, live, seat>>
control  == <<paused, cap>>

NoSeat == [work |-> NoOrigin, branch |-> NoBranch, task |-> "none", agent |-> "none"]
NoJob  == [status |-> "unfiled", stands |-> NoOrigin, branch |-> NoBranch, seat |-> 0]

SeatRows == [work : Works \cup {NoOrigin}, branch : Branches \cup {NoBranch},
             task : {"none", "queued", "running"},
             agent : {"none", "live", "crashed", "interrupted"}]
JobRows  == [status : {"unfiled", "queued", "dispatched", "cancelled"},
             stands : Works \cup {NoOrigin}, branch : Branches \cup {NoBranch},
             seat : {0} \cup Seats]
Claims   == [origin : Works, branch : Branches \cup {NoBranch}]

TypeOK ==
    /\ acts \in Seq(Works)
    /\ step \in {"idle", "next", "readying", "spawn", "mark"}
    /\ live \in Nat
    /\ seat \in {0} \cup Seats
    /\ seats \in [Seats -> SeatRows]
    /\ jobs \in [Jobs -> JobRows]
    /\ held \subseteq Claims
    /\ paused \in BOOLEAN
    /\ cap \in Caps
    /\ phase \in {"up", "leaving"}

(***************************************************************************)
(* What the store answers.                                                 *)
(***************************************************************************)
IsActive(s) == seats[s].task \in {"queued", "running"}
IsLive(s)   == seats[s].agent = "live"
LiveCount   == Cardinality({s \in Seats : IsLive(s)})
OnBranch(b) == b # NoBranch /\ \E s \in Seats : IsActive(s) /\ seats[s].branch = b
OnOrigin(w) == \E s \in Seats : IsActive(s) /\ seats[s].work = w

\* A job stands in for an origin while it is queued, or while its own task row is active.
StandsNow(j) == \/ jobs[j].status = "queued"
                \/ jobs[j].seat # 0 /\ IsActive(jobs[j].seat)
StoodIn(w)   == \E j \in Jobs : jobs[j].stands = w /\ StandsNow(j)

EjectedOrigin(w) == \E e \in held : e.origin = w
EjectedBranch(b) == b # NoBranch /\ \E e \in held : e.branch = b

BranchFor(w) == IF w \in Goals THEN BranchOf[w] ELSE jobs[w].branch

\* Work a dead process left claimed: crashed or interrupted agents, and rows no agent started for.
Orphan(s) ==
    /\ IsActive(s)
    /\ \/ seats[s].agent \in {"crashed", "interrupted"}
       \/ seats[s].agent = "none" /\ ~(step = "spawn" /\ seat = s)

\* A task that is over (done, failed, interrupted) claims nothing any more: its row is forgotten, and
\* written again once no job names it.
Settled(s) == [seats EXCEPT ![s] = NoSeat]

\* The synchronous stretches of the executor: no timer, request or agent event runs inside one.
InSync == step \in {"next", "spawn", "mark"}
FreeSeats == {s \in Seats : ~IsActive(s) /\ \A j \in Jobs : jobs[j].seat # s}
FirstFree == CHOOSE s \in FreeSeats : TRUE     \* rows have no order that anything depends on
NewSeat(w, b, t, a) == [work |-> w, branch |-> b, task |-> t, agent |-> a]
Running(s) == NewSeat(seats[s].work, seats[s].branch, "running", "live")

Init ==
    /\ acts = <<>> /\ step = "idle" /\ live = 0 /\ seat = 0
    /\ seats = [s \in Seats |-> NoSeat]
    /\ jobs = [j \in Jobs |-> NoJob]
    /\ held = {}
    /\ paused = StartPaused /\ cap = BootCap
    /\ phase = "up"

(***************************************************************************)
(* The cycle and the executor.                                             *)
(***************************************************************************)
\* What the rules may propose: origins nobody holds, and of the jobs the queued ones.
Proposable(w) ==
    /\ ~OnOrigin(w) /\ ~StoodIn(w) /\ ~EjectedOrigin(w)
    /\ w \in Jobs => jobs[w].status = "queued"

Headroom == IF paused \/ LiveCount >= cap THEN 0 ELSE cap - LiveCount

\* A plan holds each proposable origin once, in some order, and no more of them than the headroom.
Plans == {p \in UNION {[1 .. n -> {w \in Works : Proposable(w)}] : n \in 1 .. Headroom} :
            \A i, k \in DOMAIN p : p[i] = p[k] => i = k}

\* Mutant: the cycle does not wait for the recovery desk.
StartCycleOverOrphans ==
    /\ step = "idle" /\ phase = "up"
    /\ \E p \in Plans : acts' = p
    /\ step' = "next"
    /\ live' = LiveCount
    /\ UNCHANGED <<seat, seats, jobs, held, control, phase>>

StartCycle ==
    /\ step = "idle" /\ phase = "up"
    /\ \A s \in Seats : ~Orphan(s)
    /\ \E p \in Plans : acts' = p
    /\ step' = "next"
    /\ live' = LiveCount
    /\ UNCHANGED <<seat, seats, jobs, held, control, phase>>

\* Mutant: the origin is asked about and its branch is not.
AdmissionBlindToBranch(w) ==
    \/ OnOrigin(w) \/ StoodIn(w)
    \/ EjectedOrigin(w)
    \/ EjectedBranch(BranchFor(w))
    \/ paused
    \/ live >= cap

AdmissionRefusal(w) ==
    \/ OnOrigin(w) \/ StoodIn(w)
    \/ EjectedOrigin(w)
    \/ EjectedBranch(BranchFor(w)) \/ OnBranch(BranchFor(w))
    \/ paused
    \/ live >= cap

\* The act is skipped or deferred: it leaves the plan and nothing else moves.
Refuse ==
    /\ step = "next" /\ acts # <<>> /\ AdmissionRefusal(Head(acts))
    /\ acts' = Tail(acts)
    /\ UNCHANGED <<step, live, seat, seats, jobs, held, control, phase>>

\* Admitted: a code agent's act waits for its evidence and its slot, a desk agent's waits for nothing.
Admit ==
    /\ step = "next" /\ acts # <<>> /\ ~AdmissionRefusal(Head(acts))
    /\ BranchFor(Head(acts)) # NoBranch
    /\ step' = "readying"
    /\ UNCHANGED <<acts, live, seat, seats, jobs, held, control, phase>>

RecordTask ==
    /\ seats' = [seats EXCEPT ![FirstFree] =
                    NewSeat(Head(acts), BranchFor(Head(acts)), "queued", "none")]
    /\ seat' = FirstFree
    /\ step' = "spawn"
    /\ UNCHANGED <<acts, live, jobs, held, control, phase>>

AdmitDesk ==
    /\ step = "next" /\ acts # <<>> /\ ~AdmissionRefusal(Head(acts))
    /\ BranchFor(Head(acts)) = NoBranch
    /\ FreeSeats # {}
    /\ RecordTask

SlotReady == step = "readying" /\ FreeSeats # {} /\ RecordTask

\* The evidence or the slot failed: a task row is written only to be settled (abandonUnstarted).
SlotFails ==
    /\ step = "readying"
    /\ acts' = Tail(acts)
    /\ step' = "next"
    /\ UNCHANGED <<live, seat, seats, jobs, held, control, phase>>

Spawn ==
    /\ step = "spawn"
    /\ seats' = [seats EXCEPT ![seat] = Running(seat)]
    /\ live' = live + 1
    /\ step' = "mark"
    /\ UNCHANGED <<acts, seat, jobs, held, control, phase>>

\* The session does not start: failSpawn settles both rows and the job stays queued.
SpawnFails ==
    /\ step = "spawn"
    /\ seats' = Settled(seat)
    /\ acts' = Tail(acts)
    /\ step' = "next"
    /\ seat' = 0
    /\ UNCHANGED <<live, jobs, held, control, phase>>

\* Mutant: the job takes over the status of the task it was given.
MarkDispatchedAsTask ==
    /\ step = "mark"
    /\ jobs' = IF Head(acts) \in Jobs
               THEN [jobs EXCEPT ![Head(acts)] = [@ EXCEPT !.status = seats[seat].task, !.seat = seat]]
               ELSE jobs
    /\ acts' = Tail(acts)
    /\ step' = "next"
    /\ seat' = 0
    /\ UNCHANGED <<live, seats, held, control, phase>>

MarkDispatched ==
    /\ step = "mark"
    /\ jobs' = IF Head(acts) \in Jobs
               THEN [jobs EXCEPT ![Head(acts)] = [@ EXCEPT !.status = "dispatched", !.seat = seat]]
               ELSE jobs
    /\ acts' = Tail(acts)
    /\ step' = "next"
    /\ seat' = 0
    /\ UNCHANGED <<live, seats, held, control, phase>>

EndPlan ==
    /\ step = "next" /\ acts = <<>>
    /\ step' = "idle"
    /\ live' = 0
    /\ UNCHANGED <<acts, seat, seats, jobs, held, control, phase>>

(***************************************************************************)
(* The operator and the agents, between the executor's synchronous         *)
(* stretches.                                                              *)
(***************************************************************************)
\* The agent is done, fails for good or is killed: its task ends with it.
AgentEnds(s) ==
    /\ ~InSync /\ IsLive(s)
    /\ seats' = Settled(s)
    /\ UNCHANGED <<executor, jobs, held, control, phase>>

\* Mutant: the agent that was lifted is not killed.
LiftKeepsPredecessor(s) ==
    /\ ~InSync /\ IsLive(s) /\ FreeSeats # {}
    /\ seats' \in {Settled(s), [seats EXCEPT ![FirstFree] = Running(s)]}
    /\ UNCHANGED <<executor, jobs, held, control, phase>>

\* The successor row is written before the kill; a session that does not re-open leaves both over.
Lift(s) ==
    /\ ~InSync /\ IsLive(s) /\ FreeSeats # {}
    /\ seats' \in {Settled(s), [Settled(s) EXCEPT ![FirstFree] = Running(s)]}
    /\ UNCHANGED <<executor, jobs, held, control, phase>>

\* Kill and claim in one synchronous stretch; refused while the origin is held already.
Eject(s) ==
    /\ ~InSync /\ IsLive(s) /\ ~EjectedOrigin(seats[s].work)
    /\ seats' = Settled(s)
    /\ held' = held \cup {[origin |-> seats[s].work, branch |-> seats[s].branch]}
    /\ UNCHANGED <<executor, jobs, control, phase>>

Unfiled   == {j \in Jobs : jobs[j].status = "unfiled"}
FirstJob  == CHOOSE j \in Unfiled : TRUE
Queue(b, w) == [jobs EXCEPT ![FirstJob] =
                  [status |-> "queued", stands |-> w, branch |-> b, seat |-> 0]]

\* handed_back, delivered and expired only settle the claim; requeued files a job standing in for it.
HandBack(e) ==
    /\ ~InSync
    /\ held' = held \ {e}
    /\ \/ UNCHANGED jobs
       \/ Unfiled # {} /\ jobs' = Queue(e.branch, e.origin)
    /\ UNCHANGED <<executor, seats, control, phase>>

\* A brief naming a busy branch is refused before it is queued.
FileBrief(b) ==
    /\ ~InSync /\ Unfiled # {}
    /\ ~EjectedBranch(b) /\ ~OnBranch(b)
    /\ jobs' = Queue(b, NoOrigin)
    /\ UNCHANGED <<executor, seats, held, control, phase>>

CancelJob(j) ==
    /\ ~InSync /\ jobs[j].status = "queued"
    /\ jobs' = [jobs EXCEPT ![j] = [@ EXCEPT !.status = "cancelled"]]
    /\ UNCHANGED <<executor, seats, held, control, phase>>

SetControl(c, p) ==
    /\ ~InSync
    /\ cap' = c /\ paused' = p
    /\ UNCHANGED <<executor, seats, jobs, held, phase>>

(***************************************************************************)
(* The recovery desk.                                                      *)
(***************************************************************************)
Restore(s) ==
    /\ ~InSync /\ Orphan(s) /\ seats[s].agent # "none"
    /\ seats' = [seats EXCEPT ![s] = Running(s)]
    /\ UNCHANGED <<executor, jobs, held, control, phase>>

Remove(s) ==
    /\ ~InSync /\ Orphan(s)
    /\ seats' = Settled(s)
    /\ UNCHANGED <<executor, jobs, held, control, phase>>

\* A job still queued behind the work is released rather than filed a second time.
\* Mutant: the work is filed again without the branch it was on.
RequeueUnbranched(s) ==
    /\ ~InSync /\ Orphan(s)
    /\ seats' = Settled(s)
    /\ \/ /\ seats[s].work \in Jobs /\ jobs[seats[s].work].status = "queued"
          /\ UNCHANGED jobs
       \/ /\ ~(seats[s].work \in Jobs /\ jobs[seats[s].work].status = "queued")
          /\ Unfiled # {}
          /\ jobs' = Queue(NoBranch, seats[s].work)
    /\ UNCHANGED <<executor, held, control, phase>>

Requeue(s) ==
    /\ ~InSync /\ Orphan(s)
    /\ seats' = Settled(s)
    /\ \/ /\ seats[s].work \in Jobs /\ jobs[seats[s].work].status = "queued"
          /\ UNCHANGED jobs
       \/ /\ ~(seats[s].work \in Jobs /\ jobs[seats[s].work].status = "queued")
          /\ Unfiled # {}
          /\ jobs' = Queue(seats[s].branch, seats[s].work)
    /\ UNCHANGED <<executor, held, control, phase>>

(***************************************************************************)
(* The process.                                                            *)
(***************************************************************************)
Interrupted(s) == IF IsLive(s) THEN [seats[s] EXCEPT !.agent = "interrupted"] ELSE seats[s]

\* A signal, or the hand-off: the timers stop and the agents are interrupted, but a cycle already
\* running goes on until the process exits.
Shutdown ==
    /\ ~InSync /\ phase = "up"
    /\ phase' = "leaving"
    /\ seats' = [s \in Seats |-> Interrupted(s)]
    /\ UNCHANGED <<executor, jobs, held, control>>

\* The next process: what the last one left live crashed, and `restored` of the orphans come back.
Detected(s) == IF IsLive(s) /\ IsActive(s) THEN [seats[s] EXCEPT !.agent = "crashed"] ELSE seats[s]

Boot(restored, back) ==
    /\ acts' = <<>> /\ step' = "idle" /\ live' = 0 /\ seat' = 0
    /\ seats' = [s \in Seats |-> IF s \in restored THEN Running(s) ELSE Detected(s)]
    /\ paused' = back /\ cap' = BootCap
    /\ phase' = "up"
    /\ UNCHANGED <<jobs, held>>

Crash == Boot({}, StartPaused)
Exit  == phase = "leaving" /\ ~InSync /\ Boot({}, StartPaused)

ExecutorStep == \/ Refuse \/ Admit \/ AdmitDesk \/ SlotReady \/ SlotFails
                \/ Spawn \/ SpawnFails \/ MarkDispatched \/ EndPlan

AgentStep == \E s \in Seats : AgentEnds(s)

OperatorStep ==
    \/ \E s \in Seats : Lift(s) \/ Eject(s) \/ Restore(s) \/ Remove(s) \/ Requeue(s)
    \/ \E e \in held : HandBack(e)
    \/ \E b \in BriefsOn : FileBrief(b)
    \/ \E j \in Jobs : CancelJob(j)

Next ==
    \/ StartCycle \/ ExecutorStep \/ AgentStep \/ OperatorStep
    \/ \E c \in Caps, p \in BOOLEAN : SetControl(c, p)
    \/ Shutdown \/ Crash \/ Exit

Spec == Init /\ [][Next]_vars

(***************************************************************************)
(* Properties.                                                             *)
(***************************************************************************)
\* No two tasks that still claim their work share an origin or a worktree: admission is asked minutes
\* before the task row that holds the claim is written, and only the order of the executor protects it.
NoSharedWork ==
    \A s, t \in Seats : (s # t /\ IsActive(s) /\ IsActive(t)) =>
        /\ seats[s].work # seats[t].work
        /\ seats[s].branch # NoBranch => seats[s].branch # seats[t].branch

\* Work an operator took to their own keyboard is not touched by an agent until it is handed back,
\* neither under the origin they hold nor on the branch their worktree is on.
HeldIsUntouched ==
    \A e \in held, s \in Seats : IsActive(s) =>
        /\ seats[s].work # e.origin
        /\ e.branch # NoBranch => seats[s].branch # e.branch

\* Nobody works where somebody else does: two agents, or an agent and the operator, are apart in origin
\* and in branch although admission was asked before ci-evidence and the slot were awaited.
WorkIsApart == NoSharedWork /\ HeldIsUntouched

\* The count the executor carries through a plan is never below the number of agents that run, so the
\* cap it is compared with holds for the whole plan although it was read once.
CountIsSafe == (step # "idle" /\ phase = "up") => LiveCount <= live

\* What a work is done for: the goal itself, or the one a job stands in for.
For(w) == IF w \in Jobs /\ jobs[w].stands # NoOrigin THEN jobs[w].stands ELSE w

\* A goal with a branch has one worker: a job that stands in for it and the goal's own work never run
\* together, however the work came back as a job.  Nothing keeps two desk agents apart.
GoalHasOneWorker ==
    \A s, t \in Seats : (s # t /\ IsActive(s) /\ IsActive(t) /\ seats[s].branch # NoBranch) =>
        For(seats[s].work) # For(seats[t].work)

\* Who keeps a branch: the agents whose tasks claim it, and the operator while they hold it.
Keepers == [b \in Branches |-> {s \in Seats : IsActive(s) /\ seats[s].branch = b}
                                \cup {k \in {0} : EjectedBranch(b)}]
BranchCustody == INSTANCE Custody WITH Places <- Branches, Agents <- Seats, Operator <- 0,
                                       keepers <- Keepers

\* Dispatch implements Custody: whatever the crashes, the lifts and the hand-backs, a branch goes from
\* keeper to keeper one at a time, and what the operator took is given back before an agent has it.
OneKeeper == BranchCustody!Spec

\* A brief the operator cancelled has been told to be dropped, attachments and all: it never runs.
CancelledNeverRuns ==
    \A j \in Jobs : jobs[j].status = "cancelled" => ~\E s \in Seats : IsLive(s) /\ seats[s].work = j

\* No agent is started under a pause that was in force when the start was decided on (action property).
PauseStopsStarts == [][Spawn => ~paused]_vars
=============================================================================
