--------------------------- MODULE DispatchProofs ---------------------------
(***************************************************************************)
(* What Dispatch keeps for any number of goals, branches, jobs and agents: *)
(* no two tasks share an origin or a worktree, nothing is started on what  *)
(* an operator holds, the count of agents the executor carries is never    *)
(* too low, and a branch goes from keeper to keeper one at a time.  The    *)
(* invariant that carries them says what admission established and still   *)
(* holds when the awaits are over: nothing but the executor itself gives   *)
(* a task its claim.                                                       *)
(***************************************************************************)
EXTENDS Dispatch, FiniteSetTheorems, SequenceTheorems, TLAPS

FiledWorks == Goals \cup {j \in Jobs : jobs[j].status # "unfiled"}

(* The work the executor is readying is nobody's, nor is its branch.       *)
IsFree(w) ==
    /\ ~OnOrigin(w) /\ ~OnBranch(BranchFor(w))
    /\ ~EjectedOrigin(w) /\ ~EjectedBranch(BranchFor(w))

(* A task whose agent lives claims its work, and a claim is to some work.  *)
ClaimRows == {r \in SeatRows : /\ r.agent = "live" => r.task # "none"
                               /\ r.task # "none" => r.work \in Works}

SeatsPart == seats \in [Seats -> ClaimRows]
JobsPart  == jobs \in [Jobs -> JobRows]
RestPart  == /\ held \subseteq Claims
             /\ paused \in BOOLEAN /\ cap \in Caps
             /\ phase \in {"up", "leaving"}
             /\ live \in Nat /\ seat \in {0} \cup Seats
             /\ step \in {"idle", "next", "readying", "spawn", "mark"}

(* Where the executor is in its plan.                                      *)
PlanPart  == /\ acts \in Seq(FiledWorks)
             /\ step \in {"readying", "spawn", "mark"} => acts # <<>>
             /\ step \in {"spawn", "mark"} => seat \in Seats
             /\ step = "spawn" => IsActive(seat) /\ seats[seat].agent = "none"

ReadyPart == step = "readying" => IsFree(Head(acts))

NoOrphans == (step # "idle" /\ phase = "up") => \A s \in Seats : ~Orphan(s)

(* Whoever claims a work does so on the branch of that work, and a job     *)
(* that stands in for one is on its branch.                                *)
OriginPart ==
    /\ \A s \in Seats : IsActive(s) =>
          seats[s].work \in FiledWorks /\ seats[s].branch = BranchFor(seats[s].work)
    /\ \A e \in held : e.origin \in FiledWorks /\ e.branch = BranchFor(e.origin)
    /\ \A j \in Jobs : (jobs[j].status # "unfiled" /\ jobs[j].stands # NoOrigin) =>
          jobs[j].stands \in FiledWorks /\ jobs[j].branch = BranchFor(jobs[j].stands)

IInv == /\ SeatsPart /\ JobsPart /\ RestPart /\ PlanPart /\ ReadyPart
        /\ NoSharedWork /\ HeldIsUntouched /\ NoOrphans /\ CountIsSafe /\ OriginPart

-----------------------------------------------------------------------------
(* The rows a step writes.                                                 *)
LEMMA NoSeatRow == NoSeat \in ClaimRows
  BY SMT DEF NoSeat, SeatRows, ClaimRows

LEMMA NewSeatRow ==
  ASSUME NEW w \in Works, NEW b \in Branches \cup {NoBranch},
         NEW t \in {"queued", "running"}, NEW a \in {"none", "live"}
  PROVE  NewSeat(w, b, t, a) \in ClaimRows
  BY SMT DEF NewSeat, SeatRows, ClaimRows

LEMMA FirstFreeIsFree == FreeSeats # {} => FirstFree \in Seats /\ ~IsActive(FirstFree)
  <1>1. FreeSeats # {} => FirstFree \in FreeSeats
    BY Zenon DEF FirstFree
  <1> QED
    BY <1>1, Zenon DEF FreeSeats

LEMMA FirstJobIsUnfiled == Unfiled # {} => FirstJob \in Jobs /\ jobs[FirstJob].status = "unfiled"
  <1>1. Unfiled # {} => FirstJob \in Unfiled
    BY Zenon DEF FirstJob
  <1> QED
    BY <1>1, Zenon DEF Unfiled

LEMMA BranchForType ==
  ASSUME JobsPart, NEW w \in Works
  PROVE  BranchFor(w) \in Branches \cup {NoBranch}
  <1>1. CASE w \in Goals
    BY <1>1, DispatchAssumption, SMT DEF BranchFor
  <1>2. CASE w \notin Goals
    BY <1>2, SMT DEF BranchFor, JobsPart, JobRows, Works
  <1> QED
    BY <1>1, <1>2

LEMMA FiledAreWorks == FiledWorks \subseteq Works
  BY SMT DEF FiledWorks, Works

(* The head of the plan is a work that was filed, and so is all that       *)
(* follows it.                                                             *)
LEMMA PlanHead ==
  ASSUME PlanPart, acts # <<>>
  PROVE  /\ Head(acts) \in FiledWorks /\ Head(acts) \in Works
         /\ Tail(acts) \in Seq(FiledWorks)
  <1>1. acts \in Seq(FiledWorks)
    BY DEF PlanPart
  <1>2. Head(acts) \in FiledWorks /\ Tail(acts) \in Seq(FiledWorks)
    BY <1>1, HeadTailProperties, Zenon
  <1> QED
    BY <1>2, FiledAreWorks, Zenon

(* A seat settled or given to new work keeps the table well formed, and    *)
(* every other seat as it was.                                             *)
LEMMA SettledSeats ==
  ASSUME SeatsPart, NEW s \in Seats
  PROVE  /\ Settled(s) \in [Seats -> ClaimRows]
         /\ Settled(s)[s] = NoSeat
         /\ \A t \in Seats \ {s} : Settled(s)[t] = seats[t]
  BY NoSeatRow, SMT DEF Settled, SeatsPart

LEMMA GivenSeat ==
  ASSUME NEW f \in [Seats -> ClaimRows], NEW s \in Seats, NEW r \in ClaimRows
  PROVE  /\ [f EXCEPT ![s] = r] \in [Seats -> ClaimRows]
         /\ [f EXCEPT ![s] = r][s] = r
         /\ \A t \in Seats \ {s} : [f EXCEPT ![s] = r][t] = f[t]
  BY SMT

-----------------------------------------------------------------------------
(* What a step does to the claims: most only end some of them.             *)
ActiveNext(s) == seats'[s].task \in {"queued", "running"}

ClaimsShrink ==
    \A s \in Seats : ActiveNext(s) =>
        /\ IsActive(s)
        /\ seats'[s].work = seats[s].work /\ seats'[s].branch = seats[s].branch

LEMMA SettlingShrinks ==
  ASSUME SeatsPart, NEW s \in Seats, seats' = Settled(s)
  PROVE  SeatsPart' /\ ClaimsShrink
  <1>1. seats' \in [Seats -> ClaimRows] /\ seats'[s] = NoSeat /\ \A t \in Seats \ {s} : seats'[t] = seats[t]
    BY SettledSeats, Zenon
  <1>2. ~ActiveNext(s)
    BY <1>1, SMT DEF ActiveNext, NoSeat
  <1>3. \A t \in Seats \ {s} : ActiveNext(t) => IsActive(t)
    BY <1>1, Zenon DEF ActiveNext, IsActive
  <1> QED
    BY <1>1, <1>2, <1>3, Zenon DEF ClaimsShrink, SeatsPart

(* A seat whose task was active and whose work and branch stay. *)
LEMMA WritingShrinks ==
  ASSUME SeatsPart, NEW s \in Seats, IsActive(s), NEW r \in ClaimRows,
         r.work = seats[s].work, r.branch = seats[s].branch,
         seats' = [seats EXCEPT ![s] = r]
  PROVE  SeatsPart' /\ ClaimsShrink
  <1>1. seats' \in [Seats -> ClaimRows] /\ seats'[s] = r /\ \A t \in Seats \ {s} : seats'[t] = seats[t]
    BY GivenSeat, Zenon DEF SeatsPart
  <1>2. \A t \in Seats \ {s} : ActiveNext(t) => IsActive(t)
    BY <1>1, Zenon DEF ActiveNext, IsActive
  <1> QED
    BY <1>1, <1>2, Zenon DEF ClaimsShrink, SeatsPart

(* A row started, restored, detected or interrupted: only the states of    *)
(* its task and agent move.                                                *)
SameClaim(r, s) == r \in ClaimRows /\ r.work = seats[s].work /\ r.branch = seats[s].branch

LEMMA RewrittenRows ==
  ASSUME SeatsPart, NEW s \in Seats
  PROVE  /\ IsActive(s) => SameClaim(Running(s), s)
         /\ SameClaim(Interrupted(s), s) /\ Interrupted(s).task = seats[s].task
         /\ SameClaim(Detected(s), s) /\ Detected(s).task = seats[s].task
  <1>1. seats[s] \in ClaimRows
    BY DEF SeatsPart
  <1>2. IsActive(s) => SameClaim(Running(s), s)
    BY <1>1, SMT DEF IsActive, SameClaim, Running, NewSeat, SeatRows, ClaimRows
  <1>3. ASSUME NEW a \in {"crashed", "interrupted"}
        PROVE  LET q == [seats[s] EXCEPT !.agent = a]
               IN  SameClaim(q, s) /\ q.task = seats[s].task
    BY <1>1, SMT DEF SameClaim, SeatRows, ClaimRows
  <1>4. SameClaim(seats[s], s)
    BY <1>1, Zenon DEF SameClaim
  <1> QED
    BY <1>2, <1>3, <1>4, SMT DEF Interrupted, Detected

LEMMA LiveIsActive ==
  ASSUME SeatsPart, NEW s \in Seats
  PROVE  /\ IsLive(s) => IsActive(s)
         /\ IsActive(s) => seats[s].work \in Works
         /\ seats[s].branch \in Branches \cup {NoBranch}
  BY SMT DEF IsLive, IsActive, SeatsPart, ClaimRows, SeatRows

LEMMA SeatsNext ==
  ASSUME SeatsPart, JobsPart, RestPart, PlanPart, [Next]_vars
  PROVE  /\ SeatsPart'
         /\ ClaimsShrink \/ AdmitDesk \/ SlotReady \/ \E s \in Seats : Lift(s)
  <1> DEFINE Goal == SeatsPart' /\ (ClaimsShrink \/ AdmitDesk \/ SlotReady \/ \E s \in Seats : Lift(s))
  <1>1. ASSUME seats' = seats PROVE Goal
    BY <1>1, SMT DEF SeatsPart, ClaimsShrink, ActiveNext, IsActive
  <1>2. CASE AdmitDesk \/ SlotReady
    <2>1. FreeSeats # {} /\ RecordTask /\ acts # <<>>
      BY <1>2, SMT DEF AdmitDesk, SlotReady, PlanPart
    <2>2. Head(acts) \in Works
      BY <2>1, PlanHead, Zenon
    <2>3. NewSeat(Head(acts), BranchFor(Head(acts)), "queued", "none") \in ClaimRows
      BY <2>2, BranchForType, NewSeatRow, SMT
    <2>4. SeatsPart'
      BY <2>1, <2>3, FirstFreeIsFree, GivenSeat, Zenon DEF RecordTask, SeatsPart
    <2> QED
      BY <2>4, <1>2
  <1>3. ASSUME NEW s \in Seats, Lift(s) PROVE Goal
    <2>1. IsLive(s) /\ FreeSeats # {}
      BY <1>3, Zenon DEF Lift
    <2>2. IsActive(s)
      BY <2>1, LiveIsActive, Zenon
    <2>3. Running(s) \in ClaimRows
      BY <2>2, RewrittenRows, Zenon DEF SameClaim
    <2>4. Settled(s) \in [Seats -> ClaimRows] /\ FirstFree \in Seats
      BY <2>1, SettledSeats, FirstFreeIsFree, Zenon
    <2>5. SeatsPart'
      BY <1>3, <2>3, <2>4, SMT DEF Lift, SeatsPart
    <2> QED
      BY <1>3, <2>5
  <1>4. CASE Spawn
    <2>1. seat \in Seats /\ IsActive(seat) /\ seats' = [seats EXCEPT ![seat] = Running(seat)]
      BY <1>4, SMT DEF Spawn, PlanPart, Running
    <2>2. SameClaim(Running(seat), seat)
      BY <2>1, RewrittenRows, Zenon
    <2> QED
      BY <2>1, <2>2, WritingShrinks, Zenon DEF SameClaim
  <1>5. CASE SpawnFails
    <2>1. seat \in Seats /\ seats' = Settled(seat)
      BY <1>5, SMT DEF SpawnFails, PlanPart
    <2> QED
      BY <2>1, SettlingShrinks, Zenon
  <1>6. ASSUME NEW s \in Seats, AgentEnds(s) \/ Eject(s) \/ Remove(s) \/ Requeue(s) PROVE Goal
    <2>1. seats' = Settled(s)
      BY <1>6, Zenon DEF AgentEnds, Eject, Remove, Requeue
    <2> QED
      BY <2>1, SettlingShrinks, Zenon
  <1>7. ASSUME NEW s \in Seats, Restore(s) PROVE Goal
    <2>1. IsActive(s) /\ seats' = [seats EXCEPT ![s] = Running(s)]
      BY <1>7, Zenon DEF Restore, Orphan
    <2>2. SameClaim(Running(s), s)
      BY <2>1, RewrittenRows, Zenon
    <2> QED
      BY <2>1, <2>2, WritingShrinks, Zenon DEF SameClaim
  <1>8. ASSUME \/ seats' = [s \in Seats |-> Interrupted(s)]
               \/ seats' = [s \in Seats |-> Detected(s)]
        PROVE  Goal
    <2>1. \A s \in Seats : SameClaim(seats'[s], s) /\ seats'[s].task = seats[s].task
      BY <1>8, RewrittenRows, SMT
    <2>2. seats' \in [Seats -> ClaimRows]
      BY <1>8, RewrittenRows, SMT DEF SameClaim
    <2> QED
      BY <2>1, <2>2, SMT DEF SameClaim, SeatsPart, ClaimsShrink, ActiveNext, IsActive
  <1>9. CASE Shutdown \/ Crash \/ Exit
    <2>1. \/ seats' = [s \in Seats |-> Interrupted(s)]
          \/ seats' = [s \in Seats |-> Detected(s)]
      BY <1>9, SMT DEF Shutdown, Crash, Exit, Boot
    <2> QED
      BY <2>1, <1>8
  <1>10. CASE UNCHANGED vars
    BY <1>10, <1>1, Zenon DEF vars
  <1>11. CASE StartCycle \/ Refuse \/ Admit \/ SlotFails \/ MarkDispatched \/ EndPlan
    BY <1>11, <1>1, Zenon DEF StartCycle, Refuse, Admit, SlotFails, MarkDispatched, EndPlan
  <1>12. ASSUME NEW e \in held, HandBack(e) PROVE Goal
    BY <1>12, <1>1, Zenon DEF HandBack
  <1>13. ASSUME NEW b \in BriefsOn, FileBrief(b) PROVE Goal
    BY <1>13, <1>1, Zenon DEF FileBrief
  <1>14. ASSUME NEW j \in Jobs, CancelJob(j) PROVE Goal
    BY <1>14, <1>1, Zenon DEF CancelJob
  <1>15. ASSUME NEW c \in Caps, NEW p \in BOOLEAN, SetControl(c, p) PROVE Goal
    BY <1>15, <1>1, Zenon DEF SetControl
  <1> QED
    BY <1>2, <1>3, <1>4, <1>5, <1>6, <1>7, <1>9, <1>10, <1>11, <1>12, <1>13, <1>14, <1>15, Zenon
       DEF Next, ExecutorStep, AgentStep, OperatorStep

-----------------------------------------------------------------------------
(* A row is written for work that is free, from the admission it has just  *)
(* had or from what held all through the awaits.                           *)
LEMMA TakenIsFree ==
  ASSUME PlanPart, ReadyPart, AdmitDesk \/ SlotReady
  PROVE  FreeSeats # {} /\ RecordTask /\ acts # <<>> /\ IsFree(Head(acts))
  <1>1. CASE AdmitDesk
    BY <1>1, Zenon DEF AdmitDesk, AdmissionRefusal, IsFree
  <1>2. CASE SlotReady
    BY <1>2, SMT DEF SlotReady, PlanPart, ReadyPart
  <1> QED
    BY <1>1, <1>2

LEMMA TakenRow ==
  ASSUME SeatsPart, FreeSeats # {}, RecordTask
  PROVE  /\ FirstFree \in Seats /\ ~IsActive(FirstFree)
         /\ seats'[FirstFree].work = Head(acts)
         /\ seats'[FirstFree].branch = BranchFor(Head(acts))
         /\ \A t \in Seats \ {FirstFree} : seats'[t] = seats[t]
  <1>1. FirstFree \in Seats /\ ~IsActive(FirstFree)
    BY FirstFreeIsFree, Zenon
  <1> DEFINE f == FirstFree
             r == NewSeat(Head(acts), BranchFor(Head(acts)), "queued", "none")
  <1>2. seats' = [seats EXCEPT ![f] = r]
    BY Zenon DEF RecordTask
  <1>3. r.work = Head(acts) /\ r.branch = BranchFor(Head(acts))
    BY SMT DEF NewSeat
  <1> HIDE DEF f, r
  <1>4. f \in Seats => seats'[f] = r /\ \A t \in Seats \ {f} : seats'[t] = seats[t]
    BY <1>2, SMT DEF SeatsPart
  <1> QED
    BY <1>1, <1>3, <1>4, Zenon DEF f, r

(* A lifted agent's seat is settled and, if its session re-opened, another *)
(* takes over its claim.                                                   *)
LEMMA LiftedRows ==
  ASSUME SeatsPart, NEW s \in Seats, Lift(s)
  PROVE  /\ IsActive(s) /\ FirstFree \in Seats /\ ~IsActive(FirstFree)
         /\ FirstFree # s
         /\ seats'[s] = NoSeat
         /\ \A t \in Seats \ {s, FirstFree} : seats'[t] = seats[t]
         /\ \/ seats'[FirstFree] = seats[FirstFree]
            \/ seats'[FirstFree] = Running(s)
  <1>1. IsLive(s) /\ FreeSeats # {}
    BY Zenon DEF Lift
  <1>2. IsActive(s)
    BY <1>1, LiveIsActive, Zenon
  <1>3. FirstFree \in Seats /\ ~IsActive(FirstFree)
    BY <1>1, FirstFreeIsFree, Zenon
  <1>4. FirstFree # s
    BY <1>2, <1>3, Zenon
  <1> DEFINE f == FirstFree
             r == Running(s)
  <1>5. seats' = Settled(s) \/ seats' = [Settled(s) EXCEPT ![f] = r]
    BY Zenon DEF Lift
  <1>6. /\ Settled(s) \in [Seats -> ClaimRows] /\ Settled(s)[s] = NoSeat
        /\ \A t \in Seats \ {s} : Settled(s)[t] = seats[t]
    BY SettledSeats, Zenon
  <1> HIDE DEF f, r
  <1>7. f \in Seats /\ f # s
    BY <1>3, <1>4 DEF f
  <1>8. /\ seats'[s] = NoSeat
        /\ \A t \in Seats \ {s, f} : seats'[t] = seats[t]
        /\ seats'[f] = seats[f] \/ seats'[f] = r
    BY <1>5, <1>6, <1>7, SMT
  <1> QED
    BY <1>2, <1>3, <1>4, <1>8, Zenon DEF f, r

LEMMA SharedNext ==
  ASSUME SeatsPart, JobsPart, RestPart, PlanPart, ReadyPart, NoSharedWork, [Next]_vars
  PROVE  NoSharedWork'
  <1> DEFINE Apart(s, t) == /\ seats'[s].work # seats'[t].work
                            /\ seats'[s].branch # NoBranch => seats'[s].branch # seats'[t].branch
  <1> SUFFICES ASSUME NEW s \in Seats, NEW t \in Seats, s # t, ActiveNext(s), ActiveNext(t)
               PROVE  Apart(s, t)
    BY Zenon DEF NoSharedWork, ActiveNext, IsActive
  <1>s. ASSUME NEW x \in Seats, NEW y \in Seats, x # y, IsActive(x), IsActive(y)
        PROVE  /\ seats[x].work # seats[y].work
               /\ seats[x].branch # NoBranch => seats[x].branch # seats[y].branch
    BY <1>s, Zenon DEF NoSharedWork
  <1>1. CASE ClaimsShrink
    BY <1>1, <1>s, Zenon DEF ClaimsShrink
  <1>2. CASE AdmitDesk \/ SlotReady
    <2> DEFINE f == FirstFree
    <2>1. IsFree(Head(acts))
      BY <1>2, TakenIsFree, Zenon
    <2>2. /\ f \in Seats
          /\ seats'[f].work = Head(acts) /\ seats'[f].branch = BranchFor(Head(acts))
          /\ \A u \in Seats \ {f} : seats'[u] = seats[u]
      BY <1>2, TakenIsFree, TakenRow, Zenon
    <2> HIDE DEF f
    <2>3. \A u \in Seats \ {f} : ActiveNext(u) => IsActive(u)
      BY <2>2, Zenon DEF ActiveNext, IsActive
    <2>4. \A u \in Seats \ {f} : IsActive(u) =>
            /\ seats[u].work # Head(acts)
            /\ seats[u].branch # NoBranch => seats[u].branch # BranchFor(Head(acts))
      BY <2>1, Zenon DEF IsFree, OnOrigin, OnBranch
    <2>5. CASE s = f
      BY <2>2, <2>3, <2>4, <2>5, Zenon
    <2>6. CASE t = f
      BY <2>2, <2>3, <2>4, <2>6, Zenon
    <2>7. CASE s # f /\ t # f
      BY <2>2, <2>3, <2>7, <1>s, Zenon
    <2> QED
      BY <2>5, <2>6, <2>7
  <1>3. ASSUME NEW q \in Seats, Lift(q) PROVE Apart(s, t)
    <2> DEFINE f == FirstFree
    <2>1. /\ IsActive(q) /\ f \in Seats /\ ~IsActive(f) /\ f # q
          /\ seats'[q] = NoSeat
          /\ \A u \in Seats \ {q, f} : seats'[u] = seats[u]
          /\ seats'[f] = seats[f] \/ seats'[f] = Running(q)
      BY <1>3, LiftedRows, Zenon
    <2> HIDE DEF f
    <2>2. Running(q).work = seats[q].work /\ Running(q).branch = seats[q].branch
      BY <2>1, RewrittenRows, Zenon DEF SameClaim
    <2>3. ~ActiveNext(q)
      BY <2>1, SMT DEF ActiveNext, NoSeat
    <2>4. \A u \in Seats \ {q, f} : ActiveNext(u) => IsActive(u)
      BY <2>1, Zenon DEF ActiveNext, IsActive
    <2>5. ActiveNext(f) => seats'[f] = Running(q)
      BY <2>1, Zenon DEF ActiveNext, IsActive
    <2>6. s # q /\ t # q
      BY <2>3
    <2>a. ActiveNext(f) => /\ seats'[f].work = seats[q].work
                           /\ seats'[f].branch = seats[q].branch
      BY <2>2, <2>5
    <2>b. ASSUME NEW u \in Seats \ {q, f}, ActiveNext(u)
          PROVE  IsActive(u) /\ seats'[u] = seats[u] /\ u # q
      BY <2>b, <2>1, <2>4
    <2>7. CASE s = f
      <3>1. /\ IsActive(t) /\ seats'[t] = seats[t]
        BY <2>b, <2>6, <2>7, Zenon
      <3>2. /\ seats[q].work # seats[t].work
            /\ seats[q].branch # NoBranch => seats[q].branch # seats[t].branch
        BY <2>1, <2>6, <3>1, <1>s, Zenon
      <3> QED
        BY <2>a, <2>7, <3>1, <3>2, Zenon
    <2>8. CASE t = f
      <3>1. /\ IsActive(s) /\ seats'[s] = seats[s]
        BY <2>b, <2>6, <2>8, Zenon
      <3>2. /\ seats[s].work # seats[q].work
            /\ seats[s].branch # NoBranch => seats[s].branch # seats[q].branch
        BY <2>1, <2>6, <3>1, <1>s, Zenon
      <3> QED
        BY <2>a, <2>8, <3>1, <3>2, Zenon
    <2>9. CASE s # f /\ t # f
      <3>1. /\ IsActive(s) /\ seats'[s] = seats[s]
            /\ IsActive(t) /\ seats'[t] = seats[t]
        BY <2>b, <2>6, <2>9, Zenon
      <3> QED
        BY <3>1, <1>s, Zenon
    <2> QED
      BY <2>7, <2>8, <2>9
  <1> QED
    BY <1>1, <1>2, <1>3, SeatsNext, Zenon

-----------------------------------------------------------------------------
(* The system outside the executor moves while the executor is idle or in  *)
(* its awaits, and leaves its variables alone.                             *)
Outside == ~InSync /\ UNCHANGED executor

LEMMA NextKinds ==
  ASSUME [Next]_vars
  PROVE  \/ UNCHANGED vars
         \/ StartCycle
         \/ Refuse \/ Admit \/ AdmitDesk \/ SlotReady \/ SlotFails
         \/ Spawn \/ SpawnFails \/ MarkDispatched \/ EndPlan
         \/ Outside
         \/ Crash \/ Exit
  <1>1. ASSUME NEW s \in Seats, AgentEnds(s) \/ Lift(s) \/ Eject(s) \/ Restore(s) \/ Remove(s) \/ Requeue(s)
        PROVE  Outside
    BY <1>1, Zenon DEF AgentEnds, Lift, Eject, Restore, Remove, Requeue, Outside
  <1>2. ASSUME NEW e \in held, HandBack(e) PROVE Outside
    BY <1>2, Zenon DEF HandBack, Outside
  <1>3. ASSUME NEW b \in BriefsOn, FileBrief(b) PROVE Outside
    BY <1>3, Zenon DEF FileBrief, Outside
  <1>4. ASSUME NEW j \in Jobs, CancelJob(j) PROVE Outside
    BY <1>4, Zenon DEF CancelJob, Outside
  <1>5. ASSUME NEW c \in Caps, NEW p \in BOOLEAN, SetControl(c, p) PROVE Outside
    BY <1>5, Zenon DEF SetControl, Outside
  <1>6. CASE Shutdown
    BY <1>6, Zenon DEF Shutdown, Outside
  <1> QED
    BY <1>1, <1>2, <1>3, <1>4, <1>5, <1>6, Zenon DEF Next, ExecutorStep, AgentStep, OperatorStep

(* What an operator holds grows by ejections only.                         *)
LEMMA HeldShrinks ==
  ASSUME [Next]_vars
  PROVE  held' \subseteq held \/ \E s \in Seats : Eject(s)
  <1>1. ASSUME NEW s \in Seats, AgentEnds(s) \/ Lift(s) \/ Restore(s) \/ Remove(s) \/ Requeue(s)
        PROVE  held' = held
    BY <1>1, Zenon DEF AgentEnds, Lift, Restore, Remove, Requeue
  <1>2. ASSUME NEW e \in held, HandBack(e) PROVE held' \subseteq held
    BY <1>2, SMT DEF HandBack
  <1>3. ASSUME NEW b \in BriefsOn, FileBrief(b) PROVE held' = held
    BY <1>3, Zenon DEF FileBrief
  <1>4. ASSUME NEW j \in Jobs, CancelJob(j) PROVE held' = held
    BY <1>4, Zenon DEF CancelJob
  <1>5. ASSUME NEW c \in Caps, NEW p \in BOOLEAN, SetControl(c, p) PROVE held' = held
    BY <1>5, Zenon DEF SetControl
  <1>6. ASSUME Shutdown \/ Crash \/ Exit \/ UNCHANGED vars PROVE held' = held
    BY <1>6, Zenon DEF Shutdown, Crash, Exit, Boot, vars
  <1>7. ASSUME StartCycle \/ ExecutorStep PROVE held' = held
    BY <1>7, Zenon DEF StartCycle, ExecutorStep, Refuse, Admit, AdmitDesk, SlotReady, RecordTask,
       SlotFails, Spawn, SpawnFails, MarkDispatched, EndPlan
  <1> QED
    BY <1>1, <1>2, <1>3, <1>4, <1>5, <1>6, <1>7, SMT DEF Next, AgentStep, OperatorStep

(* An ejection takes the claim of a task that had it alone.                *)
LEMMA EjectedClaim ==
  ASSUME SeatsPart, NEW s \in Seats, Eject(s)
  PROVE  /\ IsActive(s) /\ seats' = Settled(s) /\ ~ActiveNext(s)
         /\ \A t \in Seats \ {s} : seats'[t] = seats[t]
         /\ held' = held \cup {[origin |-> seats[s].work, branch |-> seats[s].branch]}
         /\ [origin |-> seats[s].work, branch |-> seats[s].branch] \in Claims
  <1>1. IsActive(s) /\ seats' = Settled(s)
    BY LiveIsActive, Zenon DEF Eject
  <1>2. seats'[s] = NoSeat /\ \A t \in Seats \ {s} : seats'[t] = seats[t]
    BY <1>1, SettledSeats, Zenon
  <1>3. ~ActiveNext(s)
    BY <1>2, SMT DEF ActiveNext, NoSeat
  <1>4. [origin |-> seats[s].work, branch |-> seats[s].branch] \in Claims
    BY <1>1, LiveIsActive, SMT DEF Claims
  <1> QED
    BY <1>1, <1>2, <1>3, <1>4, Zenon DEF Eject

LEMMA HeldNext ==
  ASSUME SeatsPart, JobsPart, RestPart, PlanPart, ReadyPart, NoSharedWork, HeldIsUntouched, [Next]_vars
  PROVE  HeldIsUntouched'
  <1> DEFINE Untouched(e, s) == /\ seats'[s].work # e.origin
                                /\ e.branch # NoBranch => seats'[s].branch # e.branch
  <1> SUFFICES ASSUME NEW e \in held', NEW s \in Seats, ActiveNext(s)
               PROVE  Untouched(e, s)
    BY Zenon DEF HeldIsUntouched, ActiveNext, IsActive
  <1>h. ASSUME e \in held, NEW x \in Seats, IsActive(x)
        PROVE  /\ seats[x].work # e.origin
               /\ e.branch # NoBranch => seats[x].branch # e.branch
    BY <1>h, Zenon DEF HeldIsUntouched
  <1>1. CASE ClaimsShrink /\ e \in held
    BY <1>1, <1>h, Zenon DEF ClaimsShrink
  <1>2. ASSUME NEW q \in Seats, Eject(q), e \notin held PROVE Untouched(e, s)
    <2> DEFINE c == [origin |-> seats[q].work, branch |-> seats[q].branch]
    <2>1. /\ IsActive(q) /\ ~ActiveNext(q)
          /\ \A t \in Seats \ {q} : seats'[t] = seats[t]
          /\ held' = held \cup {c}
      BY <1>2, EjectedClaim, Zenon
    <2>2. e = c
      BY <1>2, <2>1, Zenon
    <2>3. s # q /\ IsActive(s) /\ seats'[s] = seats[s]
      BY <2>1, Zenon DEF ActiveNext, IsActive
    <2>4. /\ seats[s].work # seats[q].work
          /\ seats[q].branch # NoBranch => seats[s].branch # seats[q].branch
      BY <2>1, <2>3, Zenon DEF NoSharedWork
    <2>5. e.origin = seats[q].work /\ e.branch = seats[q].branch
      BY <2>2, SMT
    <2> QED
      BY <2>3, <2>4, <2>5, Zenon
  <1>3. CASE (AdmitDesk \/ SlotReady) /\ e \in held
    <2> DEFINE f == FirstFree
    <2>1. IsFree(Head(acts))
      BY <1>3, TakenIsFree, Zenon
    <2>2. /\ f \in Seats
          /\ seats'[f].work = Head(acts) /\ seats'[f].branch = BranchFor(Head(acts))
          /\ \A u \in Seats \ {f} : seats'[u] = seats[u]
      BY <1>3, TakenIsFree, TakenRow, Zenon
    <2> HIDE DEF f
    <2>3. CASE s = f
      BY <2>1, <2>2, <2>3, <1>3, Zenon DEF IsFree, EjectedOrigin, EjectedBranch
    <2>4. CASE s # f
      BY <2>2, <2>4, <1>3, <1>h, Zenon DEF ActiveNext, IsActive
    <2> QED
      BY <2>3, <2>4
  <1>4. ASSUME NEW q \in Seats, Lift(q), e \in held PROVE Untouched(e, s)
    <2> DEFINE f == FirstFree
    <2>1. /\ IsActive(q) /\ f \in Seats /\ ~IsActive(f) /\ f # q
          /\ seats'[q] = NoSeat
          /\ \A u \in Seats \ {q, f} : seats'[u] = seats[u]
          /\ seats'[f] = seats[f] \/ seats'[f] = Running(q)
      BY <1>4, LiftedRows, Zenon
    <2> HIDE DEF f
    <2>2. Running(q).work = seats[q].work /\ Running(q).branch = seats[q].branch
      BY <2>1, RewrittenRows, Zenon DEF SameClaim
    <2>3. ~ActiveNext(q)
      BY <2>1, SMT DEF ActiveNext, NoSeat
    <2>4. CASE s = f
      BY <2>1, <2>2, <2>4, <1>4, <1>h, Zenon DEF ActiveNext, IsActive
    <2>5. CASE s # f
      BY <2>1, <2>3, <2>5, <1>4, <1>h, Zenon DEF ActiveNext, IsActive
    <2> QED
      BY <2>4, <2>5
  <1>5. ASSUME NEW q \in Seats, Eject(q) PROVE ClaimsShrink
    BY <1>5, SettlingShrinks, EjectedClaim, Zenon
  <1>6. CASE e \in held
    BY <1>1, <1>3, <1>4, <1>6, SeatsNext, Zenon
  <1>7. CASE e \notin held
    BY <1>2, <1>7, HeldShrinks, SMT
  <1> QED
    BY <1>6, <1>7

-----------------------------------------------------------------------------
(* The rows of the jobs: what is filed stays filed, on its branch, and a   *)
(* new one is a brief or stands in for work that was claimed.              *)
JobsStay ==
    \A j \in Jobs : jobs[j].status # "unfiled" =>
        /\ jobs'[j].status # "unfiled" /\ jobs'[j].branch = jobs[j].branch
        /\ jobs'[j].stands = jobs[j].stands

NewJob(j) == jobs[j].status = "unfiled" /\ jobs'[j].status # "unfiled"

StandsFor(j) ==
    \/ jobs'[j].stands = NoOrigin
    \/ \E s \in Seats : IsActive(s) /\ jobs'[j].stands = seats[s].work /\ jobs'[j].branch = seats[s].branch
    \/ \E e \in held : jobs'[j].stands = e.origin /\ jobs'[j].branch = e.branch

JobsGrow == JobsStay /\ \A j \in Jobs : NewJob(j) => StandsFor(j)

LEMMA QueuedJobs ==
  ASSUME JobsPart, Unfiled # {}, NEW b \in Branches \cup {NoBranch}, NEW w \in Works \cup {NoOrigin},
         jobs' = Queue(b, w)
  PROVE  /\ JobsPart' /\ JobsStay
         /\ \A j \in Jobs : NewJob(j) => jobs'[j].stands = w /\ jobs'[j].branch = b
  <1> DEFINE r == [status |-> "queued", stands |-> w, branch |-> b, seat |-> 0]
             f == FirstJob
  <1>1. f \in Jobs /\ jobs[f].status = "unfiled"
    BY FirstJobIsUnfiled, Zenon
  <1>2. r \in JobRows
    BY SMT DEF JobRows
  <1>3. jobs' = [jobs EXCEPT ![f] = r]
    BY Zenon DEF Queue
  <1>4. r.stands = w /\ r.branch = b
    BY SMT
  <1> HIDE DEF r, f
  <1> QED
    BY <1>1, <1>2, <1>3, <1>4, SMT DEF JobsPart, JobsStay, NewJob

(* A job queued for a claim that stands, or for a brief, is new work that  *)
(* stands in for something.                                                *)
Stood(w, b) ==
    \/ w = NoOrigin
    \/ \E s \in Seats : IsActive(s) /\ w = seats[s].work /\ b = seats[s].branch
    \/ \E e \in held : w = e.origin /\ b = e.branch

LEMMA QueuedGrows ==
  ASSUME JobsPart, Unfiled # {}, NEW b \in Branches \cup {NoBranch}, NEW w \in Works \cup {NoOrigin},
         Stood(w, b), jobs' = Queue(b, w)
  PROVE  JobsPart' /\ JobsGrow
  <1>1. JobsPart' /\ JobsStay
    BY QueuedJobs, Zenon
  <1>2. \A j \in Jobs : NewJob(j) => jobs'[j].stands = w /\ jobs'[j].branch = b
    BY QueuedJobs, Zenon
  <1>3. ASSUME NEW j \in Jobs, NewJob(j) PROVE StandsFor(j)
    <2>1. jobs'[j].stands = w /\ jobs'[j].branch = b
      BY <1>2, <1>3
    <2> QED
      BY <2>1, Zenon DEF StandsFor, Stood
  <1> QED
    BY <1>1, <1>3, Zenon DEF JobsGrow

LEMMA RewrittenJob ==
  ASSUME JobsPart, NEW j \in Jobs, jobs[j].status # "unfiled", NEW r \in JobRows,
         r.status # "unfiled", r.branch = jobs[j].branch, r.stands = jobs[j].stands,
         jobs' = [jobs EXCEPT ![j] = r]
  PROVE  JobsPart' /\ JobsGrow
  BY SMT DEF JobsPart, JobsGrow, JobsStay, NewJob

LEMMA JobsNext ==
  ASSUME SeatsPart, JobsPart, RestPart, PlanPart, [Next]_vars
  PROVE  JobsPart' /\ JobsGrow
  <1> DEFINE Goal == JobsPart' /\ JobsGrow
  <1>1. ASSUME jobs' = jobs PROVE Goal
    BY <1>1, SMT DEF JobsPart, JobsGrow, JobsStay, NewJob
  <1>2. CASE MarkDispatched
    <2>1. Head(acts) \in FiledWorks /\ seat \in Seats
      BY <1>2, PlanHead, SMT DEF MarkDispatched, PlanPart
    <2>2. CASE Head(acts) \in Jobs
      <3> DEFINE j == Head(acts)
                 q == [jobs[j] EXCEPT !.status = "dispatched"]
                 r == [q EXCEPT !.seat = seat]
      <3>1. jobs[j] \in JobRows
        BY <2>2, Zenon DEF JobsPart
      <3>2. /\ q \in JobRows /\ q.status = "dispatched" /\ q.branch = jobs[j].branch
            /\ q.stands = jobs[j].stands
        BY <3>1, SMT DEF JobRows
      <3> HIDE DEF q
      <3>3. /\ r \in JobRows /\ r.status = "dispatched" /\ r.branch = jobs[j].branch
            /\ r.stands = jobs[j].stands
        BY <3>2, <2>1, SMT DEF JobRows
      <3>4. jobs' = [jobs EXCEPT ![j] = r]
        BY <1>2, <2>2, Zenon DEF MarkDispatched, q
      <3>5. r.status # "unfiled"
        BY <3>3, SMT
      <3>6. jobs[j].status # "unfiled"
        BY <2>1, <2>2, DispatchAssumption, SMT DEF FiledWorks, Jobs
      <3> HIDE DEF j, r
      <3> QED
        BY <2>2, <3>3, <3>4, <3>5, <3>6, RewrittenJob, Zenon DEF j
    <2>3. CASE Head(acts) \notin Jobs
      BY <1>2, <2>3, <1>1, Zenon DEF MarkDispatched
    <2> QED
      BY <2>2, <2>3
  <1>3. ASSUME NEW e \in held, HandBack(e) PROVE Goal
    <2>1. e.origin \in Works \cup {NoOrigin} /\ e.branch \in Branches \cup {NoBranch}
      BY SMT DEF RestPart, Claims
    <2>2. jobs' = jobs \/ (Unfiled # {} /\ jobs' = Queue(e.branch, e.origin))
      BY <1>3, Zenon DEF HandBack
    <2>3. CASE jobs' = jobs
      BY <2>3, <1>1
    <2>4. CASE Unfiled # {} /\ jobs' = Queue(e.branch, e.origin)
      <3>1. Stood(e.origin, e.branch)
        BY Zenon DEF Stood
      <3> QED
        BY <2>1, <2>4, <3>1, QueuedGrows, Zenon
    <2> QED
      BY <2>2, <2>3, <2>4
  <1>4. ASSUME NEW b \in BriefsOn, FileBrief(b) PROVE Goal
    <2>1. b \in Branches \cup {NoBranch}
      BY DispatchAssumption, SMT
    <2>2. Unfiled # {} /\ jobs' = Queue(b, NoOrigin)
      BY <1>4, Zenon DEF FileBrief
    <2>3. NoOrigin \in Works \cup {NoOrigin} /\ Stood(NoOrigin, b)
      BY Zenon DEF Stood
    <2> QED
      BY <2>1, <2>2, <2>3, QueuedGrows, Zenon
  <1>5. ASSUME NEW j \in Jobs, CancelJob(j) PROVE Goal
    <2> DEFINE r == [jobs[j] EXCEPT !.status = "cancelled"]
    <2>1. jobs[j] \in JobRows
      BY Zenon DEF JobsPart
    <2>2. /\ r \in JobRows /\ r.status = "cancelled" /\ r.branch = jobs[j].branch
          /\ r.stands = jobs[j].stands
      BY <2>1, SMT DEF JobRows
    <2>3. jobs' = [jobs EXCEPT ![j] = r]
      BY <1>5, Zenon DEF CancelJob
    <2>4. r.status # "unfiled" /\ jobs[j].status # "unfiled"
      BY <1>5, <2>2, SMT DEF CancelJob
    <2> HIDE DEF r
    <2> QED
      BY <2>2, <2>3, <2>4, RewrittenJob, Zenon
  <1>6. ASSUME NEW s \in Seats, Requeue(s) PROVE Goal
    <2>1. /\ seats[s].work \in Works \cup {NoOrigin}
          /\ seats[s].branch \in Branches \cup {NoBranch}
          /\ IsActive(s)
      BY <1>6, LiveIsActive, Zenon DEF Requeue, Orphan
    <2>2. jobs' = jobs \/ (Unfiled # {} /\ jobs' = Queue(seats[s].branch, seats[s].work))
      BY <1>6, Zenon DEF Requeue
    <2>3. CASE jobs' = jobs
      BY <2>3, <1>1
    <2>4. CASE Unfiled # {} /\ jobs' = Queue(seats[s].branch, seats[s].work)
      <3>1. Stood(seats[s].work, seats[s].branch)
        BY <2>1, Zenon DEF Stood
      <3> QED
        BY <2>1, <2>4, <3>1, QueuedGrows, Zenon
    <2> QED
      BY <2>2, <2>3, <2>4
  <1>7. ASSUME NEW s \in Seats, AgentEnds(s) \/ Lift(s) \/ Eject(s) \/ Restore(s) \/ Remove(s)
        PROVE  Goal
    BY <1>7, <1>1, Zenon DEF AgentEnds, Lift, Eject, Restore, Remove
  <1>8. ASSUME NEW c \in Caps, NEW p \in BOOLEAN, SetControl(c, p) PROVE Goal
    BY <1>8, <1>1, Zenon DEF SetControl
  <1>9. CASE Shutdown \/ Crash \/ Exit \/ UNCHANGED vars
    BY <1>9, <1>1, Zenon DEF Shutdown, Crash, Exit, Boot, vars
  <1>10. CASE StartCycle \/ Refuse \/ Admit \/ AdmitDesk \/ SlotReady \/ SlotFails
              \/ Spawn \/ SpawnFails \/ EndPlan
    BY <1>10, <1>1, Zenon DEF StartCycle, Refuse, Admit, AdmitDesk, SlotReady, RecordTask,
       SlotFails, Spawn, SpawnFails, EndPlan
  <1> QED
    BY <1>2, <1>3, <1>4, <1>5, <1>6, <1>7, <1>8, <1>9, <1>10, Zenon
       DEF Next, ExecutorStep, AgentStep, OperatorStep

-----------------------------------------------------------------------------
(* The agents that live, and how many.                                     *)
LiveSet == {s \in Seats : IsLive(s)}

LEMMA LiveCountIsNat == IsFiniteSet(LiveSet) /\ LiveCount \in Nat
  <1>1. IsFiniteSet(Seats)
    BY DispatchAssumption, FS_Interval, SMT DEF Seats
  <1>2. IsFiniteSet(LiveSet)
    BY <1>1, FS_Subset, SMT DEF LiveSet
  <1> QED
    BY <1>2, FS_CardinalityType, Zenon DEF LiveCount, LiveSet

(* The plan a cycle starts with is a sequence of works that are filed.     *)
LEMMA PlansAreFiled ==
  ASSUME JobsPart, RestPart, NEW p \in Plans
  PROVE  p \in Seq(FiledWorks) /\ p # <<>>
  <1> DEFINE W == {w \in Works : Proposable(w)}
  <1>1. W \subseteq FiledWorks
    BY SMT DEF Proposable, FiledWorks, Works
  <1>2. Headroom \in Nat
    BY LiveCountIsNat, DispatchAssumption, SMT DEF Headroom, RestPart
  <1>3. PICK n \in 1 .. Headroom : p \in [1 .. n -> W]
    BY Zenon DEF Plans
  <1> HIDE DEF W
  <1>4. n \in Nat /\ n > 0
    BY <1>2, SMT
  <1>5. p \in Seq(FiledWorks) /\ Len(p) = n
    BY <1>1, <1>3, <1>4, SMT
  <1> QED
    BY <1>4, <1>5, EmptySeq, SMT

LEMMA RestNext ==
  ASSUME SeatsPart, JobsPart, RestPart, PlanPart, [Next]_vars
  PROVE  RestPart'
  <1> USE DEF RestPart
  <1>1. CASE UNCHANGED vars
    BY <1>1, Zenon DEF vars, executor, control
  <1>2. CASE StartCycle
    BY <1>2, LiveCountIsNat, SMT DEF StartCycle, control
  <1>3. CASE Refuse \/ Admit \/ SlotFails \/ EndPlan
    BY <1>3, SMT DEF Refuse, Admit, SlotFails, EndPlan, control
  <1>4. CASE AdmitDesk \/ SlotReady
    <2>1. FirstFree \in Seats
      BY <1>4, FirstFreeIsFree, Zenon DEF AdmitDesk, SlotReady
    <2> QED
      BY <2>1, <1>4, SMT DEF AdmitDesk, SlotReady, RecordTask, control
  <1>5. CASE Spawn \/ SpawnFails \/ MarkDispatched
    BY <1>5, SMT DEF Spawn, SpawnFails, MarkDispatched, control
  <1>6. CASE Crash \/ Exit
    BY <1>6, DispatchAssumption, SMT DEF Crash, Exit, Boot
  <1>7. ASSUME NEW s \in Seats, AgentEnds(s) \/ Lift(s) \/ Restore(s) \/ Remove(s) \/ Requeue(s)
        PROVE  RestPart'
    BY <1>7, Zenon DEF AgentEnds, Lift, Restore, Remove, Requeue, executor, control
  <1>8. ASSUME NEW s \in Seats, Eject(s) PROVE RestPart'
    <2> DEFINE c == [origin |-> seats[s].work, branch |-> seats[s].branch]
    <2>1. held' = held \cup {c} /\ c \in Claims
      BY <1>8, EjectedClaim, Zenon
    <2> HIDE DEF c
    <2>2. held' \subseteq Claims
      BY <2>1, SMT
    <2> QED
      BY <1>8, <2>2, Zenon DEF Eject, executor, control
  <1>9. ASSUME NEW e \in held, HandBack(e) PROVE RestPart'
    <2>1. held' \subseteq Claims
      BY <1>9, SMT DEF HandBack
    <2> QED
      BY <1>9, <2>1, Zenon DEF HandBack, executor, control
  <1>10. ASSUME NEW b \in BriefsOn, FileBrief(b) PROVE RestPart'
    BY <1>10, Zenon DEF FileBrief, executor, control
  <1>11. ASSUME NEW j \in Jobs, CancelJob(j) PROVE RestPart'
    BY <1>11, Zenon DEF CancelJob, executor, control
  <1>12. ASSUME NEW c \in Caps, NEW p \in BOOLEAN, SetControl(c, p) PROVE RestPart'
    BY <1>12, Zenon DEF SetControl, executor
  <1>13. CASE Shutdown
    BY <1>13, SMT DEF Shutdown, executor, control
  <1> QED
    BY <1>1, <1>2, <1>3, <1>4, <1>5, <1>6, <1>7, <1>8, <1>9, <1>10, <1>11, <1>12, <1>13, Zenon
       DEF Next, ExecutorStep, AgentStep, OperatorStep

(* Where the executor is after a step: its plan only gets shorter, and the *)
(* row it has just written waits for its agent.                            *)
LEMMA PlanNext ==
  ASSUME SeatsPart, JobsPart, RestPart, PlanPart, ReadyPart, [Next]_vars
  PROVE  PlanPart'
  <1>1. FiledWorks \subseteq FiledWorks'
    <2>1. JobsGrow
      BY JobsNext
    <2> QED
      BY <2>1, SMT DEF JobsGrow, JobsStay, FiledWorks
  <1>2. \A p \in Seq(FiledWorks) : p \in Seq(FiledWorks')
    BY <1>1, SeqMonotonic, Zenon
  <1>3. acts \in Seq(FiledWorks) /\ acts \in Seq(FiledWorks')
    BY <1>2, Zenon DEF PlanPart
  <1>4. acts # <<>> => Tail(acts) \in Seq(FiledWorks')
    BY <1>2, PlanHead, Zenon
  <1>5. CASE UNCHANGED vars
    BY <1>5, <1>3, Zenon DEF vars, executor, PlanPart, IsActive
  <1>6. CASE StartCycle
    <2>1. acts' \in Seq(FiledWorks) /\ step' = "next"
      BY <1>6, PlansAreFiled, Zenon DEF StartCycle
    <2> QED
      BY <2>1, <1>2, SMT DEF PlanPart
  <1>7. CASE Refuse \/ SlotFails \/ SpawnFails \/ MarkDispatched \/ EndPlan
    <2>1. acts' \in Seq(FiledWorks')
      BY <1>7, <1>3, <1>4, SMT DEF PlanPart, Refuse, SlotFails, SpawnFails, MarkDispatched, EndPlan
    <2>2. step' \in {"idle", "next"}
      BY <1>7, SMT DEF Refuse, SlotFails, SpawnFails, MarkDispatched, EndPlan
    <2> QED
      BY <2>1, <2>2, SMT DEF PlanPart
  <1>8. CASE Admit
    BY <1>8, <1>3, SMT DEF Admit, PlanPart
  <1>9. CASE AdmitDesk \/ SlotReady
    <2> DEFINE f == FirstFree
               r == NewSeat(Head(acts), BranchFor(Head(acts)), "queued", "none")
    <2>1. FreeSeats # {} /\ RecordTask /\ acts # <<>>
      BY <1>9, TakenIsFree, Zenon
    <2>2. f \in Seats
      BY <2>1, FirstFreeIsFree, Zenon
    <2>3. /\ seats' = [seats EXCEPT ![f] = r] /\ seat' = f
          /\ acts' = acts /\ step' = "spawn"
      BY <2>1, Zenon DEF RecordTask
    <2>4. r.task = "queued" /\ r.agent = "none"
      BY SMT DEF NewSeat
    <2> HIDE DEF f, r
    <2>5. seats'[f] = r
      BY <2>2, <2>3, SMT DEF SeatsPart
    <2>6. IsActive(seat)' /\ seats'[seat'].agent = "none"
      BY <2>3, <2>4, <2>5, SMT DEF IsActive
    <2> QED
      BY <2>1, <2>2, <2>3, <2>6, <1>3, SMT DEF PlanPart
  <1>10. CASE Spawn
    BY <1>10, <1>3, SMT DEF Spawn, PlanPart
  <1>11. CASE Outside
    BY <1>11, <1>3, SMT DEF Outside, InSync, executor, RestPart, PlanPart
  <1>12. CASE Crash \/ Exit
    <2>1. acts' = <<>> /\ step' = "idle"
      BY <1>12, Zenon DEF Crash, Exit, Boot
    <2> QED
      BY <2>1, EmptySeq, SMT DEF PlanPart
  <1> QED
    BY <1>5, <1>6, <1>7, <1>8, <1>9, <1>10, <1>11, <1>12, NextKinds, Zenon

(* What admission found free is free when the awaits are over.             *)
LEMMA ReadyNext ==
  ASSUME SeatsPart, JobsPart, RestPart, PlanPart, ReadyPart, NoSharedWork, HeldIsUntouched, [Next]_vars
  PROVE  ReadyPart'
  <1>1. CASE UNCHANGED vars
    BY <1>1, Zenon DEF vars, executor, ReadyPart, IsFree, OnOrigin, OnBranch, EjectedOrigin,
       EjectedBranch, BranchFor, IsActive
  <1>2. CASE StartCycle \/ Refuse \/ AdmitDesk \/ SlotReady \/ SlotFails \/ Spawn \/ SpawnFails
             \/ MarkDispatched \/ EndPlan \/ Crash \/ Exit
    <2>1. step' # "readying"
      BY <1>2, SMT DEF StartCycle, Refuse, AdmitDesk, SlotReady, RecordTask, SlotFails, Spawn,
         SpawnFails, MarkDispatched, EndPlan, Crash, Exit, Boot
    <2> QED
      BY <2>1 DEF ReadyPart
  <1>3. CASE Admit
    <2>1. IsFree(Head(acts))
      BY <1>3, Zenon DEF Admit, AdmissionRefusal, IsFree
    <2>2. UNCHANGED <<acts, seats, jobs, held>>
      BY <1>3, Zenon DEF Admit
    <2> QED
      BY <2>1, <2>2, Zenon DEF ReadyPart, IsFree, OnOrigin, OnBranch, EjectedOrigin,
         EjectedBranch, BranchFor, IsActive
  <1>4. CASE Outside
    <2> DEFINE w == Head(acts)
               b == BranchFor(w)
    <2> SUFFICES ASSUME step = "readying"
                 PROVE  IsFree(Head(acts))'
      BY <1>4, Zenon DEF ReadyPart, Outside, executor
    <2>1. w \in FiledWorks /\ w \in Works /\ acts' = acts
      BY <1>4, PlanHead, SMT DEF PlanPart, Outside, executor
    <2>2. BranchFor(w)' = b
      <3>1. w \notin Goals => w \in Jobs /\ jobs[w].status # "unfiled"
        BY <2>1, SMT DEF FiledWorks
      <3> QED
        BY <2>1, <3>1, JobsNext, Zenon DEF JobsGrow, JobsStay, BranchFor
    <2>3. IsFree(w)
      BY Zenon DEF ReadyPart
    <2>4. \A s \in Seats : IsActive(s) => seats[s].work # w /\ (b # NoBranch => seats[s].branch # b)
      BY <2>3, Zenon DEF IsFree, OnOrigin, OnBranch
    <2>5. \A e \in held : e.origin # w /\ (b # NoBranch => e.branch # b)
      BY <2>3, Zenon DEF IsFree, EjectedOrigin, EjectedBranch
    <2> HIDE DEF w, b
    <2>6. ASSUME NEW s \in Seats, ActiveNext(s)
          PROVE  seats'[s].work # w /\ (b # NoBranch => seats'[s].branch # b)
      <3>1. CASE ClaimsShrink
        BY <2>4, <2>6, <3>1, Zenon DEF ClaimsShrink
      <3>2. ASSUME NEW q \in Seats, Lift(q)
            PROVE  seats'[s].work # w /\ (b # NoBranch => seats'[s].branch # b)
        <4> DEFINE f == FirstFree
        <4>1. /\ IsActive(q) /\ f \in Seats /\ ~IsActive(f) /\ f # q
              /\ seats'[q] = NoSeat
              /\ \A u \in Seats \ {q, f} : seats'[u] = seats[u]
              /\ seats'[f] = seats[f] \/ seats'[f] = Running(q)
          BY <3>2, LiftedRows, Zenon
        <4> HIDE DEF f
        <4>2. Running(q).work = seats[q].work /\ Running(q).branch = seats[q].branch
          BY <4>1, RewrittenRows, Zenon DEF SameClaim
        <4>3. s # q
          BY <4>1, <2>6, SMT DEF ActiveNext, NoSeat
        <4>4. CASE s = f
          BY <4>1, <4>2, <4>4, <2>4, <2>6, Zenon DEF ActiveNext, IsActive
        <4>5. CASE s # f
          BY <4>1, <4>3, <4>5, <2>4, <2>6, Zenon DEF ActiveNext, IsActive
        <4> QED
          BY <4>4, <4>5
      <3>3. ~AdmitDesk /\ ~SlotReady
        BY <1>4, SMT DEF Outside, executor, AdmitDesk, SlotReady, RecordTask
      <3> QED
        BY <3>1, <3>2, <3>3, SeatsNext, Zenon
    <2>7. ASSUME NEW e \in held'
          PROVE  e.origin # w /\ (b # NoBranch => e.branch # b)
      <3>1. CASE e \in held
        BY <3>1, <2>5
      <3>2. ASSUME NEW q \in Seats, Eject(q), e \notin held
            PROVE  e.origin # w /\ (b # NoBranch => e.branch # b)
        <4> DEFINE c == [origin |-> seats[q].work, branch |-> seats[q].branch]
        <4>1. IsActive(q) /\ held' = held \cup {c}
          BY <3>2, EjectedClaim, Zenon
        <4>2. e = c
          BY <3>2, <4>1, Zenon
        <4>3. e.origin = seats[q].work /\ e.branch = seats[q].branch
          BY <4>2, SMT
        <4> QED
          BY <4>1, <4>3, <2>4, Zenon
      <3> QED
        BY <3>1, <3>2, HeldShrinks, SMT
    <2>8. Head(acts)' = w /\ BranchFor(Head(acts))' = b
      <3>1. Head(acts)' = w
        BY <2>1, Zenon DEF w
      <3> QED
        BY <2>1, <2>2, <3>1, Zenon DEF w, BranchFor
    <2>9. /\ ~OnOrigin(Head(acts))' /\ ~OnBranch(BranchFor(Head(acts)))'
          /\ ~EjectedOrigin(Head(acts))' /\ ~EjectedBranch(BranchFor(Head(acts)))'
      BY <2>6, <2>7, <2>8, Zenon DEF OnOrigin, OnBranch, EjectedOrigin, EjectedBranch, ActiveNext, IsActive
    <2> QED
      BY <2>9, Zenon DEF IsFree
  <1> QED
    BY <1>1, <1>2, <1>3, <1>4, NextKinds, Zenon

-----------------------------------------------------------------------------
(* What the steps outside the executor do to the agents of a process that  *)
(* is not shutting down: one ends, one is replaced, or one is restored.    *)
LEMMA OutsideSeats ==
  ASSUME SeatsPart, Outside, phase' = "up", [Next]_vars
  PROVE  \/ step' = "idle"
         \/ /\ phase = "up"
            /\ \/ seats' = seats
               \/ \E s \in Seats : seats' = Settled(s) \/ Lift(s) \/ Restore(s)
  <1>1. ASSUME NEW s \in Seats, AgentEnds(s) \/ Eject(s) \/ Remove(s) \/ Requeue(s)
        PROVE  phase' = phase /\ seats' = Settled(s)
    BY <1>1, Zenon DEF AgentEnds, Eject, Remove, Requeue
  <1>2. ASSUME NEW s \in Seats, Lift(s) \/ Restore(s) PROVE phase' = phase
    BY <1>2, Zenon DEF Lift, Restore
  <1>3. ASSUME NEW e \in held, HandBack(e) PROVE phase' = phase /\ seats' = seats
    BY <1>3, Zenon DEF HandBack
  <1>4. ASSUME NEW b \in BriefsOn, FileBrief(b) PROVE phase' = phase /\ seats' = seats
    BY <1>4, Zenon DEF FileBrief
  <1>5. ASSUME NEW j \in Jobs, CancelJob(j) PROVE phase' = phase /\ seats' = seats
    BY <1>5, Zenon DEF CancelJob
  <1>6. ASSUME NEW c \in Caps, NEW p \in BOOLEAN, SetControl(c, p) PROVE phase' = phase /\ seats' = seats
    BY <1>6, Zenon DEF SetControl
  <1>7. CASE UNCHANGED vars
    BY <1>7, Zenon DEF vars
  <1>8. CASE Shutdown
    BY <1>8, SMT DEF Shutdown
  <1>9. CASE Crash \/ Exit
    BY <1>9, Zenon DEF Crash, Exit, Boot
  <1>10. CASE StartCycle \/ ExecutorStep
    BY <1>10, SMT DEF Outside, InSync, executor, StartCycle, ExecutorStep, Refuse, Admit, AdmitDesk,
       SlotReady, RecordTask, SlotFails, Spawn, SpawnFails, MarkDispatched, EndPlan
  <1> QED
    BY <1>1, <1>2, <1>3, <1>4, <1>5, <1>6, <1>7, <1>8, <1>9, <1>10, Zenon
       DEF Next, AgentStep, OperatorStep

(* A cycle starts over no orphan and none appears before the process goes. *)
OrphanNext(s) ==
    /\ ActiveNext(s)
    /\ \/ seats'[s].agent \in {"crashed", "interrupted"}
       \/ seats'[s].agent = "none" /\ ~(step' = "spawn" /\ seat' = s)

LEMMA OrphansNext ==
  ASSUME SeatsPart, JobsPart, RestPart, PlanPart, ReadyPart, NoOrphans, [Next]_vars
  PROVE  NoOrphans'
  <1> SUFFICES ASSUME step' # "idle", phase' = "up", NEW s \in Seats
               PROVE  ~OrphanNext(s)
    BY Zenon DEF NoOrphans, OrphanNext, Orphan, ActiveNext, IsActive
  <1>1. ASSUME seats' = seats, step' # "spawn", step # "spawn", ~Orphan(s)
        PROVE  ~OrphanNext(s)
    BY <1>1, Zenon DEF OrphanNext, Orphan, ActiveNext, IsActive
  <1>2. CASE UNCHANGED vars
    BY <1>2, Zenon DEF vars, executor, NoOrphans, OrphanNext, Orphan, ActiveNext, IsActive
  <1>3. CASE StartCycle
    BY <1>1, <1>3, SMT DEF StartCycle
  <1>4. CASE Refuse \/ Admit \/ SlotFails \/ MarkDispatched \/ EndPlan
    <2>1. /\ seats' = seats /\ phase' = phase
          /\ step \notin {"idle", "spawn"} /\ step' # "spawn"
      BY <1>4, SMT DEF Refuse, Admit, SlotFails, MarkDispatched, EndPlan
    <2> QED
      BY <2>1, <1>1, Zenon DEF NoOrphans
  <1>5. CASE AdmitDesk \/ SlotReady
    <2>1. /\ FreeSeats # {} /\ RecordTask
          /\ step \notin {"idle", "spawn"} /\ phase' = phase
      BY <1>5, TakenIsFree, SMT DEF AdmitDesk, SlotReady, RecordTask
    <2>2. /\ seat' = FirstFree /\ step' = "spawn"
          /\ \A t \in Seats \ {FirstFree} : seats'[t] = seats[t]
      BY <2>1, TakenRow, Zenon DEF RecordTask
    <2>3. seats'[FirstFree].agent = "none"
      <3> DEFINE f == FirstFree
                 r == NewSeat(Head(acts), BranchFor(Head(acts)), "queued", "none")
      <3>1. f \in Seats /\ seats' = [seats EXCEPT ![f] = r]
        BY <2>1, FirstFreeIsFree, Zenon DEF RecordTask
      <3>2. r.agent = "none"
        BY SMT DEF NewSeat
      <3> HIDE DEF f, r
      <3>3. seats'[f] = r
        BY <3>1, SMT DEF SeatsPart
      <3> QED
        BY <3>2, <3>3 DEF f
    <2>4. CASE s = FirstFree
      BY <2>2, <2>3, <2>4, SMT DEF OrphanNext
    <2>5. CASE s # FirstFree
      BY <2>1, <2>2, <2>5, Zenon DEF NoOrphans, OrphanNext, Orphan, ActiveNext, IsActive
    <2> QED
      BY <2>4, <2>5
  <1>6. CASE Spawn \/ SpawnFails
    <2>1. /\ seat \in Seats /\ step = "spawn" /\ phase' = phase
          /\ step' # "spawn" /\ step # "idle"
      BY <1>6, SMT DEF Spawn, SpawnFails, PlanPart
    <2>2. /\ seats'[seat] = Running(seat) \/ seats'[seat] = NoSeat
          /\ \A t \in Seats \ {seat} : seats'[t] = seats[t]
      BY <1>6, <2>1, SettledSeats, SMT DEF Spawn, SpawnFails, SeatsPart
    <2>3. CASE s = seat
      BY <2>2, <2>3, SMT DEF OrphanNext, ActiveNext, Running, NewSeat, NoSeat
    <2>4. CASE s # seat
      BY <2>1, <2>2, <2>4, SMT DEF NoOrphans, OrphanNext, Orphan, ActiveNext, IsActive
    <2> QED
      BY <2>3, <2>4
  <1>7. CASE Outside
    <2>1. /\ phase = "up"
          /\ \/ seats' = seats
             \/ \E q \in Seats : seats' = Settled(q) \/ Lift(q) \/ Restore(q)
      BY <1>7, OutsideSeats, Zenon
    <2>2. step' = step /\ step \notin {"idle", "spawn"}
      BY <1>7, SMT DEF Outside, InSync, executor
    <2>3. ~Orphan(s)
      BY <2>1, <2>2, Zenon DEF NoOrphans
    <2>4. ASSUME seats'[s] = seats[s] PROVE ~OrphanNext(s)
      BY <2>2, <2>3, <2>4, SMT DEF OrphanNext, Orphan, ActiveNext, IsActive
    <2>5. ASSUME NEW q \in Seats, seats'[s] = NoSeat \/ seats'[s] = Running(q) PROVE ~OrphanNext(s)
      BY <2>5, SMT DEF OrphanNext, ActiveNext, NoSeat, Running, NewSeat
    <2>6. ASSUME NEW q \in Seats, seats' = Settled(q) PROVE ~OrphanNext(s)
      BY <2>4, <2>5, <2>6, SettledSeats, Zenon
    <2>7. ASSUME NEW q \in Seats, Lift(q) PROVE ~OrphanNext(s)
      BY <2>4, <2>5, <2>7, LiftedRows, Zenon
    <2>8. ASSUME NEW q \in Seats, Restore(q) PROVE ~OrphanNext(s)
      BY <2>1, <2>2, <2>8, Zenon DEF NoOrphans, Restore
    <2> QED
      BY <2>1, <2>4, <2>6, <2>7, <2>8, Zenon
  <1>8. CASE Crash \/ Exit
    BY <1>8, Zenon DEF Crash, Exit, Boot
  <1> QED
    BY <1>2, <1>3, <1>4, <1>5, <1>6, <1>7, <1>8, NextKinds, Zenon

(* The count grows with the agents the executor starts and with no other.  *)
LiveNext == {s \in Seats : seats'[s].agent = "live"}

LEMMA CountNext ==
  ASSUME SeatsPart, JobsPart, RestPart, PlanPart, ReadyPart, NoOrphans, CountIsSafe, [Next]_vars
  PROVE  CountIsSafe'
  <1> DEFINE n == Cardinality(LiveNext)
  <1> SUFFICES ASSUME step' # "idle", phase' = "up"
               PROVE  n <= live'
    BY Zenon DEF CountIsSafe, LiveCount, LiveNext, IsLive
  <1>1. IsFiniteSet(LiveSet) /\ Cardinality(LiveSet) = LiveCount /\ LiveCount \in Nat
    BY LiveCountIsNat, Zenon DEF LiveCount, LiveSet
  <1>n. n \in Nat
    <2>1. LiveNext \subseteq Seats /\ IsFiniteSet(Seats)
      BY DispatchAssumption, FS_Interval, SMT DEF LiveNext, Seats
    <2> QED
      BY <2>1, FS_Subset, FS_CardinalityType, SMT
  <1>t. ASSUME n <= LiveCount, live' = live, phase' = phase, step # "idle"
        PROVE  n <= live'
    BY <1>t, <1>n, <1>1, SMT DEF CountIsSafe, RestPart
  <1>2. ASSUME LiveNext \subseteq LiveSet PROVE n <= LiveCount
    BY <1>1, <1>2, FS_Subset, SMT
  <1>3. ASSUME NEW q \in Seats, \A t \in Seats \ {q} : seats'[t] = seats[t]
        PROVE  LiveNext \subseteq LiveSet \cup {q}
    BY <1>3, Zenon DEF LiveNext, LiveSet, IsLive
  <1>4. ASSUME seats' = seats PROVE n <= LiveCount
    BY <1>2, <1>4, Zenon DEF LiveNext, LiveSet, IsLive
  <1>5. ASSUME NEW q \in Seats, seats' = Settled(q) PROVE n <= LiveCount
    <2>1. seats'[q] = NoSeat /\ \A t \in Seats \ {q} : seats'[t] = seats[t]
      BY <1>5, SettledSeats, Zenon
    <2>2. q \notin LiveNext
      BY <2>1, SMT DEF LiveNext, NoSeat
    <2> QED
      BY <2>1, <2>2, <1>2, <1>3, SMT
  <1>6. CASE UNCHANGED vars
    BY <1>4, <1>6, <1>t, Zenon DEF vars, executor
  <1>7. CASE StartCycle
    BY <1>4, <1>7, Zenon DEF StartCycle
  <1>8. CASE Refuse \/ Admit \/ SlotFails \/ MarkDispatched \/ EndPlan
    <2>1. seats' = seats /\ live' = live /\ phase' = phase /\ step # "idle"
      BY <1>8, SMT DEF Refuse, Admit, SlotFails, MarkDispatched, EndPlan
    <2> QED
      BY <2>1, <1>4, <1>t, Zenon
  <1>9. CASE AdmitDesk \/ SlotReady
    <2> DEFINE f == FirstFree
               r == NewSeat(Head(acts), BranchFor(Head(acts)), "queued", "none")
    <2>1. FreeSeats # {} /\ RecordTask /\ step # "idle" /\ phase' = phase /\ live' = live
      BY <1>9, TakenIsFree, SMT DEF AdmitDesk, SlotReady, RecordTask
    <2>2. f \in Seats /\ seats' = [seats EXCEPT ![f] = r]
      BY <2>1, FirstFreeIsFree, Zenon DEF RecordTask
    <2>3. r.agent = "none"
      BY SMT DEF NewSeat
    <2> HIDE DEF f, r
    <2>4. seats'[f] = r /\ \A t \in Seats \ {f} : seats'[t] = seats[t]
      BY <2>2, SMT DEF SeatsPart
    <2>5. f \notin LiveNext
      BY <2>3, <2>4, SMT DEF LiveNext
    <2>6. LiveNext \subseteq LiveSet
      BY <2>2, <2>4, <2>5, <1>3, SMT
    <2> QED
      BY <2>1, <2>6, <1>2, <1>t, Zenon
  <1>10. CASE Spawn
    <2>1. /\ seat \in Seats /\ live' = live + 1 /\ step # "idle" /\ phase' = phase
          /\ seats' = [seats EXCEPT ![seat] = Running(seat)]
      BY <1>10, SMT DEF Spawn, PlanPart
    <2>2. \A t \in Seats \ {seat} : seats'[t] = seats[t]
      BY <2>1, SMT DEF SeatsPart
    <2>3. LiveNext \subseteq LiveSet \cup {seat}
      BY <2>1, <2>2, <1>3
    <2>4. IsFiniteSet(LiveSet \cup {seat}) /\ Cardinality(LiveSet \cup {seat}) <= LiveCount + 1
      BY <1>1, FS_AddElement, SMT
    <2>5. n <= LiveCount + 1
      <3>1. n <= Cardinality(LiveSet \cup {seat})
        BY <2>3, <2>4, FS_Subset, SMT
      <3>2. Cardinality(LiveSet \cup {seat}) \in Nat
        BY <2>4, FS_CardinalityType, SMT
      <3> QED
        BY <3>1, <3>2, <2>4, <1>n, <1>1, SMT
    <2>6. LiveCount <= live
      BY <2>1, Zenon DEF CountIsSafe
    <2> QED
      BY <2>1, <2>5, <2>6, <1>n, <1>1, SMT DEF RestPart
  <1>11. CASE SpawnFails
    <2>1. seat \in Seats /\ seats' = Settled(seat) /\ live' = live /\ step # "idle" /\ phase' = phase
      BY <1>11, SMT DEF SpawnFails, PlanPart
    <2> QED
      BY <2>1, <1>5, <1>t, Zenon
  <1>12. CASE Outside
    <2>1. /\ phase = "up"
          /\ \/ seats' = seats
             \/ \E q \in Seats : seats' = Settled(q) \/ Lift(q) \/ Restore(q)
      BY <1>12, OutsideSeats, Zenon
    <2>2. step' = step /\ live' = live
      BY <1>12, Zenon DEF Outside, executor
    <2>3. LiveCount <= live /\ \A q \in Seats : ~Orphan(q)
      BY <2>1, <2>2, Zenon DEF CountIsSafe, NoOrphans
    <2>4. ASSUME NEW q \in Seats, Lift(q) PROVE n <= LiveCount
      <3> DEFINE f == FirstFree
      <3>1. /\ f \in Seats /\ ~IsActive(f) /\ f # q
            /\ seats'[q] = NoSeat
            /\ \A t \in Seats \ {q, f} : seats'[t] = seats[t]
        BY <2>4, LiftedRows, Zenon
      <3>2. q \in LiveSet
        BY <2>4, Zenon DEF Lift, LiveSet
      <3> HIDE DEF f
      <3>3. LiveNext \subseteq (LiveSet \ {q}) \cup {f}
        BY <3>1, SMT DEF LiveNext, LiveSet, IsLive, NoSeat
      <3>4. IsFiniteSet(LiveSet \ {q}) /\ Cardinality(LiveSet \ {q}) = LiveCount - 1
        BY <3>2, <1>1, FS_RemoveElement, SMT
      <3> DEFINE L == LiveSet \ {q}
      <3>a. IsFiniteSet(L) /\ Cardinality(L) = LiveCount - 1
        BY <3>4
      <3>b. /\ IsFiniteSet(L \cup {f})
            /\ Cardinality(L \cup {f}) = IF f \in L THEN Cardinality(L) ELSE Cardinality(L) + 1
        <4> HIDE DEF L
        <4> QED
          BY <3>a, FS_AddElement, Zenon
      <3>5. /\ IsFiniteSet((LiveSet \ {q}) \cup {f})
            /\ Cardinality((LiveSet \ {q}) \cup {f}) <= LiveCount
        BY <3>a, <3>b, <1>1, SMT
      <3>6. n <= Cardinality((LiveSet \ {q}) \cup {f})
        BY <3>3, <3>5, FS_Subset, SMT
      <3>7. Cardinality((LiveSet \ {q}) \cup {f}) \in Nat
        BY <3>5, FS_CardinalityType, SMT
      <3> QED
        BY <3>5, <3>6, <3>7, <1>n, <1>1, SMT
    <2>5. ASSUME NEW q \in Seats, Restore(q) PROVE FALSE
      BY <2>3, <2>5, Zenon DEF Restore
    <2>6. n <= LiveCount
      BY <2>1, <2>4, <2>5, <1>4, <1>5, Zenon
    <2> QED
      BY <2>2, <2>3, <2>6, <1>n, <1>1, SMT DEF RestPart
  <1>13. CASE Crash \/ Exit
    BY <1>13, Zenon DEF Crash, Exit, Boot
  <1> QED
    BY <1>6, <1>7, <1>8, <1>9, <1>10, <1>11, <1>12, <1>13, NextKinds, Zenon

-----------------------------------------------------------------------------
(* Where a row, a job or an ejection is from: whoever took its work over   *)
(* took the branch with it.                                                *)
LEMMA BranchStays ==
  ASSUME JobsStay, NEW w \in FiledWorks
  PROVE  w \in FiledWorks' /\ BranchFor(w)' = BranchFor(w)
  <1>1. CASE w \in Goals
    BY <1>1, Zenon DEF FiledWorks, BranchFor
  <1>2. CASE w \notin Goals
    <2>1. w \in Jobs /\ jobs[w].status # "unfiled"
      BY <1>2, Zenon DEF FiledWorks
    <2>2. jobs'[w].status # "unfiled" /\ jobs'[w].branch = jobs[w].branch
      BY <2>1, Zenon DEF JobsStay
    <2> QED
      BY <1>2, <2>1, <2>2, Zenon DEF FiledWorks, BranchFor
  <1> QED
    BY <1>1, <1>2

ClaimTaken(s) ==
    \/ \E t \in Seats : IsActive(t) /\ seats'[s].work = seats[t].work /\ seats'[s].branch = seats[t].branch
    \/ /\ Head(acts) \in FiledWorks
       /\ seats'[s].work = Head(acts) /\ seats'[s].branch = BranchFor(Head(acts))

LEMMA ClaimsAreTaken ==
  ASSUME IInv, [Next]_vars, NEW s \in Seats, ActiveNext(s)
  PROVE  ClaimTaken(s)
  <1> USE DEF IInv
  <1>1. CASE ClaimsShrink
    BY <1>1, Zenon DEF ClaimsShrink, ClaimTaken
  <1>2. CASE AdmitDesk \/ SlotReady
    <2>1. FreeSeats # {} /\ RecordTask /\ acts # <<>>
      BY <1>2, TakenIsFree, Zenon
    <2>2. /\ seats'[FirstFree].work = Head(acts) /\ seats'[FirstFree].branch = BranchFor(Head(acts))
          /\ \A t \in Seats \ {FirstFree} : seats'[t] = seats[t]
      BY <2>1, TakenRow, Zenon
    <2>3. Head(acts) \in FiledWorks
      BY <2>1, PlanHead, Zenon
    <2>4. CASE s = FirstFree
      BY <2>2, <2>3, <2>4, Zenon DEF ClaimTaken
    <2>5. CASE s # FirstFree
      BY <2>2, <2>5, Zenon DEF ClaimTaken, ActiveNext, IsActive
    <2> QED
      BY <2>4, <2>5
  <1>3. ASSUME NEW q \in Seats, Lift(q) PROVE ClaimTaken(s)
    <2>1. /\ IsActive(q) /\ FirstFree \in Seats /\ ~IsActive(FirstFree)
          /\ seats'[q] = NoSeat
          /\ \A t \in Seats \ {q, FirstFree} : seats'[t] = seats[t]
          /\ seats'[FirstFree] = seats[FirstFree] \/ seats'[FirstFree] = Running(q)
      BY <1>3, LiftedRows, Zenon
    <2>2. Running(q).work = seats[q].work /\ Running(q).branch = seats[q].branch
      BY <2>1, RewrittenRows, Zenon DEF SameClaim
    <2>3. s # q
      <3>1. NoSeat.task = "none"
        BY SMT DEF NoSeat
      <3> QED
        BY <2>1, <3>1, SMT DEF ActiveNext
    <2>4. CASE s = FirstFree
      BY <2>1, <2>2, <2>4, Zenon DEF ClaimTaken, ActiveNext, IsActive
    <2>5. CASE s # FirstFree
      BY <2>1, <2>3, <2>5, Zenon DEF ClaimTaken, ActiveNext, IsActive
    <2> QED
      BY <2>4, <2>5
  <1> QED
    BY <1>1, <1>2, <1>3, SeatsNext, Zenon

LEMMA HeldIsTaken ==
  ASSUME IInv, [Next]_vars, NEW e \in held'
  PROVE  e \in held \/ \E s \in Seats : IsActive(s) /\ e.origin = seats[s].work /\ e.branch = seats[s].branch
  <1> USE DEF IInv
  <1>1. CASE held' \subseteq held
    BY <1>1
  <1>2. ASSUME NEW s \in Seats, Eject(s)
        PROVE  e \in held \/ (IsActive(s) /\ e.origin = seats[s].work /\ e.branch = seats[s].branch)
    <2> DEFINE c == [origin |-> seats[s].work, branch |-> seats[s].branch]
    <2>1. c.origin = seats[s].work /\ c.branch = seats[s].branch
      BY SMT
    <2>2. IsActive(s) /\ held' = held \cup {c}
      BY <1>2, EjectedClaim, Zenon
    <2> HIDE DEF c
    <2> QED
      BY <2>1, <2>2
  <1> QED
    BY <1>1, <1>2, HeldShrinks, Zenon

BranchNext(w) == IF w \in Goals THEN BranchOf[w] ELSE jobs'[w].branch

LEMMA OriginNext ==
  ASSUME IInv, [Next]_vars
  PROVE  OriginPart'
  <1> USE DEF IInv
  <1>1. JobsStay /\ \A j \in Jobs : NewJob(j) => StandsFor(j)
    BY JobsNext, Zenon DEF JobsGrow
  <1>2. ASSUME NEW w \in FiledWorks PROVE w \in FiledWorks' /\ BranchNext(w) = BranchFor(w)
    BY <1>1, BranchStays, Zenon DEF BranchFor, BranchNext
  <1>3. ASSUME NEW s \in Seats, IsActive(s)
        PROVE  seats[s].work \in FiledWorks /\ seats[s].branch = BranchFor(seats[s].work)
    BY <1>3, Zenon DEF OriginPart
  <1>4. ASSUME NEW e \in held PROVE e.origin \in FiledWorks /\ e.branch = BranchFor(e.origin)
    BY Zenon DEF OriginPart
  <1>5. ASSUME NEW s \in Seats, ActiveNext(s)
        PROVE  seats'[s].work \in FiledWorks' /\ seats'[s].branch = BranchNext(seats'[s].work)
    <2> DEFINE w == seats'[s].work
    <2>1. w \in FiledWorks /\ seats'[s].branch = BranchFor(w)
      BY <1>3, <1>5, ClaimsAreTaken, Zenon DEF ClaimTaken
    <2> QED
      BY <2>1, <1>2, Zenon
  <1>6. ASSUME NEW e \in held' PROVE e.origin \in FiledWorks' /\ e.branch = BranchNext(e.origin)
    <2>1. e.origin \in FiledWorks /\ e.branch = BranchFor(e.origin)
      BY <1>3, <1>4, HeldIsTaken, Zenon
    <2> QED
      BY <2>1, <1>2, Zenon
  <1>7. ASSUME NEW j \in Jobs, jobs'[j].status # "unfiled", jobs'[j].stands # NoOrigin
        PROVE  jobs'[j].stands \in FiledWorks' /\ jobs'[j].branch = BranchNext(jobs'[j].stands)
    <2> DEFINE w == jobs'[j].stands
    <2>1. w \in FiledWorks /\ jobs'[j].branch = BranchFor(w)
      <3>1. CASE jobs[j].status # "unfiled"
        <4>1. w = jobs[j].stands /\ jobs'[j].branch = jobs[j].branch
          BY <1>1, <3>1, Zenon DEF JobsStay
        <4> QED
          BY <1>7, <3>1, <4>1, Zenon DEF OriginPart
      <3>2. CASE jobs[j].status = "unfiled"
        <4>1. StandsFor(j)
          BY <1>1, <1>7, <3>2, Zenon DEF NewJob
        <4> QED
          BY <1>3, <1>4, <1>7, <4>1, Zenon DEF StandsFor
      <3> QED
        BY <3>1, <3>2
    <2> QED
      BY <2>1, <1>2, Zenon
  <1> QED
    BY <1>5, <1>6, <1>7, Zenon DEF OriginPart, ActiveNext, IsActive, BranchFor, BranchNext

LEMMA DispatchInit == Init => IInv
  <1> SUFFICES ASSUME Init PROVE IInv
    OBVIOUS
  <1> USE DEF Init
  <1>1. SeatsPart
    BY NoSeatRow, SMT DEF SeatsPart
  <1>2. JobsPart
    <2>1. NoJob \in JobRows
      BY SMT DEF NoJob, JobRows
    <2> QED
      BY <2>1, SMT DEF JobsPart
  <1>3. RestPart
    BY DispatchAssumption, SMT DEF RestPart
  <1>4. PlanPart
    BY EmptySeq, SMT DEF PlanPart
  <1>5. \A s \in Seats : ~IsActive(s)
    BY SMT DEF IsActive, NoSeat
  <1>6. ReadyPart /\ NoOrphans /\ CountIsSafe
    BY SMT DEF ReadyPart, NoOrphans, CountIsSafe
  <1>7. NoSharedWork /\ HeldIsUntouched
    BY <1>5, Zenon DEF NoSharedWork, HeldIsUntouched
  <1>8. OriginPart
    <2>1. \A j \in Jobs : jobs[j].status = "unfiled"
      BY SMT DEF NoJob
    <2> QED
      BY <1>5, <2>1, Zenon DEF OriginPart
  <1> QED
    BY <1>1, <1>2, <1>3, <1>4, <1>6, <1>7, <1>8 DEF IInv

LEMMA DispatchStep == IInv /\ [Next]_vars => IInv'
  BY SeatsNext, JobsNext, RestNext, PlanNext, ReadyNext, SharedNext, HeldNext, OrphansNext,
     CountNext, OriginNext, Zenon DEF IInv

(* The strengthened invariant holds in every state of every behaviour.     *)
LEMMA DispatchInvariant == Spec => []IInv
  BY DispatchInit, DispatchStep, PTL DEF Spec

LEMMA InvariantTypes == IInv => TypeOK
  <1> SUFFICES ASSUME IInv PROVE TypeOK
    OBVIOUS
  <1>1. acts \in Seq(Works)
    BY FiledAreWorks, SeqMonotonic, Zenon DEF IInv, PlanPart
  <1>2. seats \in [Seats -> SeatRows]
    BY SMT DEF IInv, SeatsPart, ClaimRows
  <1> QED
    BY <1>1, <1>2, Zenon DEF IInv, JobsPart, RestPart, TypeOK

(* Every row, plan and count keeps its shape, for any number of goals,     *)
(* jobs and agents: in particular a plan never names a job that was not    *)
(* filed, nor a row an agent nobody recorded.                              *)
THEOREM DispatchTypeCorrect == Spec => []TypeOK
  BY InvariantTypes, DispatchInvariant, PTL

(* Two tasks never share an origin or a worktree, although admission is    *)
(* asked before the slot is awaited and the claim written after            *)
(* (dispatchAgent): the executor's own order is enough, whatever ends, is  *)
(* lifted, ejected, restored or filed in between.                          *)
THEOREM NoSharedWorkAlways == Spec => []NoSharedWork
  <1>1. IInv => NoSharedWork
    BY DEF IInv
  <1> QED
    BY <1>1, DispatchInvariant, PTL

(* No agent works under an origin or on a branch an operator holds, also   *)
(* when the ejection lands while a dispatch is in its awaits               *)
(* (EjectionDesk.eject, branchRefusal).                                    *)
THEOREM HeldIsUntouchedAlways == Spec => []HeldIsUntouched
  <1>1. IInv => HeldIsUntouched
    BY DEF IInv
  <1> QED
    BY <1>1, DispatchInvariant, PTL

(* Agents and operators are apart, for any works, branches, seats and cap. *)
THEOREM WorkStaysApart == Spec => []WorkIsApart
  BY NoSharedWorkAlways, HeldIsUntouchedAlways, PTL DEF WorkIsApart

(* run.live.count, read once and counted on by hand, is never below the    *)
(* number of agents that live: nobody but the executor starts one under a  *)
(* plan, because a cycle waits for the recovery desk.                      *)
THEOREM CountIsSafeAlways == Spec => []CountIsSafe
  <1>1. IInv => CountIsSafe
    BY DEF IInv
  <1> QED
    BY <1>1, DispatchInvariant, PTL

LEMMA OneWorkerOf == IInv => GoalHasOneWorker
  <1> SUFFICES ASSUME IInv, NEW s \in Seats, NEW t \in Seats, s # t, IsActive(s), IsActive(t),
                      seats[s].branch # NoBranch, For(seats[s].work) = For(seats[t].work)
               PROVE  FALSE
    BY Zenon DEF GoalHasOneWorker
  <1> USE DEF IInv
  <1>1. ASSUME NEW w \in FiledWorks PROVE BranchFor(For(w)) = BranchFor(w)
    <2>1. CASE w \in Jobs /\ jobs[w].stands # NoOrigin
      <3>1. w \notin Goals
        BY <2>1, DispatchAssumption, SMT DEF Jobs
      <3>2. jobs[w].status # "unfiled" /\ BranchFor(w) = jobs[w].branch
        BY <3>1, Zenon DEF FiledWorks, BranchFor
      <3>3. For(w) = jobs[w].stands /\ jobs[w].branch = BranchFor(jobs[w].stands)
        BY <2>1, <3>2, Zenon DEF For, OriginPart
      <3> QED
        BY <3>2, <3>3, Zenon
    <2>2. CASE ~(w \in Jobs /\ jobs[w].stands # NoOrigin)
      <3>1. For(w) = w
        BY <2>2, Zenon DEF For
      <3> QED
        BY <3>1, Zenon
    <2> QED
      BY <2>1, <2>2
  <1>2. /\ seats[s].work \in FiledWorks /\ seats[s].branch = BranchFor(seats[s].work)
        /\ seats[t].work \in FiledWorks /\ seats[t].branch = BranchFor(seats[t].work)
    BY Zenon DEF OriginPart
  <1>3. BranchFor(For(seats[s].work)) = seats[s].branch /\ BranchFor(For(seats[t].work)) = seats[t].branch
    BY <1>1, <1>2, Zenon
  <1>4. seats[s].branch = seats[t].branch
    BY <1>3, Zenon
  <1> QED
    BY <1>4, Zenon DEF NoSharedWork

(* A goal with a branch has one worker (goal and requeued job alike):      *)
(* whatever a job stands in for, it does on that work's branch, and a      *)
(* branch has one task (requeueOrphan, EjectionDesk.handBack).             *)
THEOREM GoalHasOneWorkerAlways == Spec => []GoalHasOneWorker
  BY OneWorkerOf, DispatchInvariant, PTL

-----------------------------------------------------------------------------
(* Dispatch implements Custody.  Who keeps a branch, told seat by seat.    *)
HeldBranch(b)     == \E e \in held : e.branch = b
HeldBranchNext(b) == \E e \in held' : e.branch = b

LEMMA KeeperSeat ==
  ASSUME NEW b \in Branches, NEW s \in Seats
  PROVE  /\ s \in Keepers[b] <=> IsActive(s) /\ seats[s].branch = b
         /\ s \in Keepers'[b] <=> ActiveNext(s) /\ seats'[s].branch = b
  <1>1. s # 0
    BY SMT DEF Seats
  <1> QED
    BY <1>1, Zenon DEF Keepers, ActiveNext, IsActive

LEMMA KeeperOperator ==
  ASSUME NEW b \in Branches
  PROVE  /\ 0 \in Keepers[b] <=> HeldBranch(b)
         /\ 0 \in Keepers'[b] <=> HeldBranchNext(b)
  <1>1. 0 \notin Seats /\ b # NoBranch
    BY DispatchAssumption, SMT DEF Seats
  <1> QED
    BY <1>1, Zenon DEF Keepers, HeldBranch, HeldBranchNext, EjectedBranch

LEMMA KeeperKinds ==
  ASSUME NEW b \in Branches
  PROVE  Keepers[b] \subseteq Seats \cup {0} /\ Keepers'[b] \subseteq Seats \cup {0}
  BY Zenon DEF Keepers

LEMMA SameKeepers ==
  ASSUME NEW A, NEW B, A \subseteq Seats \cup {0}, B \subseteq Seats \cup {0},
         \A s \in Seats : s \in A <=> s \in B, 0 \in A <=> 0 \in B
  PROVE  A = B
  BY SMT

LEMMA OnePointChange ==
  ASSUME NEW S, NEW F, NEW G, F = [x \in S |-> F[x]], G = [x \in S |-> G[x]], NEW b \in S,
         \A c \in S \ {b} : G[c] = F[c]
  PROVE  G = [F EXCEPT ![b] = G[b]]
  BY SMT

LEMMA KeepersChange ==
  ASSUME NEW b \in Branches, \A c \in Branches \ {b} : Keepers'[c] = Keepers[c]
  PROVE  Keepers' = [Keepers EXCEPT ![b] = Keepers'[b]]
  <1>1. Keepers = [c \in Branches |-> Keepers[c]] /\ Keepers' = [c \in Branches |-> Keepers'[c]]
    BY Zenon DEF Keepers
  <1> DEFINE F == Keepers
             G == Keepers'
  <1>2. F = [c \in Branches |-> F[c]] /\ G = [c \in Branches |-> G[c]]
    BY <1>1
  <1>3. \A c \in Branches \ {b} : G[c] = F[c]
    OBVIOUS
  <1> HIDE DEF F, G
  <1>4. G = [F EXCEPT ![b] = G[b]]
    BY <1>2, <1>3, OnePointChange, SMT
  <1> QED
    BY <1>4, Zenon DEF F, G

LEMMA KeepersStay ==
  ASSUME \A c \in Branches : Keepers'[c] = Keepers[c]
  PROVE  Keepers' = Keepers
  <1>1. Keepers = [c \in Branches |-> Keepers[c]] /\ Keepers' = [c \in Branches |-> Keepers'[c]]
    BY Zenon DEF Keepers
  <1> QED
    BY <1>1, Zenon

(* The claim of an active task is the only one on its branch.              *)
LEMMA KeeperAlone ==
  ASSUME NoSharedWork, HeldIsUntouched, NEW s \in Seats, IsActive(s), seats[s].branch \in Branches
  PROVE  Keepers[seats[s].branch] = {s}
  <1> DEFINE b == seats[s].branch
  <1>1. b # NoBranch
    BY DispatchAssumption, SMT
  <1>2. ASSUME NEW t \in Seats PROVE t \in Keepers[b] <=> t = s
    <2>1. t # s => ~(IsActive(t) /\ seats[t].branch = b)
      BY <1>1, Zenon DEF NoSharedWork
    <2>2. t \in Keepers[b] <=> IsActive(t) /\ seats[t].branch = b
      <3>1. b \in Branches
        OBVIOUS
      <3> HIDE DEF b
      <3> QED
        BY <3>1, KeeperSeat, Zenon
    <2> QED
      BY <2>1, <2>2
  <1>3. 0 \notin Keepers[b]
    <2>1. ~HeldBranch(b)
      BY <1>1, Zenon DEF HeldIsUntouched, HeldBranch
    <2> QED
      BY <2>1, KeeperOperator, Zenon
  <1>4. Keepers[b] \subseteq Seats \cup {0}
    BY KeeperKinds, Zenon
  <1> HIDE DEF b
  <1>5. 0 \notin {s} /\ {s} \subseteq Seats \cup {0}
    BY SMT DEF Seats
  <1>6. Keepers[b] = {s}
    BY <1>2, <1>3, <1>4, <1>5, SameKeepers, SMT
  <1> QED
    BY <1>6 DEF b

(* Steps that move no claim move no keeper.                                *)
LEMMA SameClaims ==
  ASSUME \A c \in Branches : HeldBranchNext(c) <=> HeldBranch(c),
         \A s \in Seats : /\ ActiveNext(s) <=> IsActive(s)
                          /\ IsActive(s) => seats'[s].branch = seats[s].branch
  PROVE  Keepers' = Keepers
  <1>1. ASSUME NEW c \in Branches PROVE Keepers'[c] = Keepers[c]
    <2>1. ASSUME NEW s \in Seats PROVE s \in Keepers'[c] <=> s \in Keepers[c]
      BY KeeperSeat, Zenon
    <2>2. 0 \in Keepers'[c] <=> 0 \in Keepers[c]
      BY KeeperOperator, Zenon
    <2>3. Keepers'[c] \subseteq Seats \cup {0} /\ Keepers[c] \subseteq Seats \cup {0}
      BY KeeperKinds, Zenon
    <2> QED
      BY <2>1, <2>2, <2>3, SameKeepers, Zenon
  <1> QED
    BY <1>1, KeepersStay, Zenon

(* A task that is over lets its branch go: to the row f that takes its     *)
(* place, if it has one other than its own, or to the operator.            *)
LEMMA ClaimGone ==
  ASSUME NEW s \in Seats, NEW f \in Seats, ~ActiveNext(s),
         f = s \/ (~IsActive(f) /\ (ActiveNext(f) => seats'[f].branch = seats[s].branch)),
         \A t \in Seats : t = s \/ t = f \/ seats'[t] = seats[t],
         \A c \in Branches : c = seats[s].branch \/ (HeldBranchNext(c) <=> HeldBranch(c)),
         NEW c \in Branches, c # seats[s].branch
  PROVE  Keepers'[c] = Keepers[c]
  <1>1. ASSUME NEW t \in Seats PROVE t \in Keepers'[c] <=> t \in Keepers[c]
    <2>1. /\ t \in Keepers[c] <=> IsActive(t) /\ seats[t].branch = c
          /\ t \in Keepers'[c] <=> ActiveNext(t) /\ seats'[t].branch = c
      BY KeeperSeat, Zenon
    <2>2. CASE t = s
      BY <2>1, <2>2, Zenon
    <2>3. CASE t # s /\ t = f
      BY <2>1, <2>3, Zenon
    <2>4. CASE t # s /\ t # f
      BY <2>1, <2>4, Zenon DEF ActiveNext, IsActive
    <2> QED
      BY <2>2, <2>3, <2>4, Zenon
  <1>2. 0 \in Keepers'[c] <=> 0 \in Keepers[c]
    BY KeeperOperator, Zenon
  <1>3. Keepers'[c] \subseteq Seats \cup {0} /\ Keepers[c] \subseteq Seats \cup {0}
    BY KeeperKinds, Zenon
  <1> QED
    BY <1>1, <1>2, <1>3, SameKeepers, Zenon

LEMMA ClaimLeft ==
  ASSUME NoSharedWork, HeldIsUntouched, NEW s \in Seats, NEW f \in Seats,
         IsActive(s), ~ActiveNext(s),
         \A t \in Seats : t = s \/ t = f \/ seats'[t] = seats[t],
         seats[s].branch \in Branches,
         NEW k \in Keepers'[seats[s].branch]
  PROVE  (k = f /\ f # s) \/ (k = 0 /\ HeldBranchNext(seats[s].branch))
  <1> DEFINE b == seats[s].branch
  <1>1. Keepers[b] = {s}
    BY KeeperAlone, Zenon
  <1>2. k \in Seats \cup {0}
    BY KeeperKinds, Zenon
  <1>3. CASE k = 0
    BY <1>3, KeeperOperator, Zenon
  <1>4. CASE k \in Seats
    <2>1. /\ k \in Keepers[b] <=> IsActive(k) /\ seats[k].branch = b
          /\ k \in Keepers'[b] <=> ActiveNext(k) /\ seats'[k].branch = b
      BY <1>4, KeeperSeat, Zenon
    <2>2. k # s
      BY <2>1, Zenon
    <2>3. k = f \/ seats'[k] = seats[k]
      BY <1>4, <2>2, Zenon
    <2>4. CASE seats'[k] = seats[k]
      BY <1>1, <2>1, <2>2, <2>4, Zenon DEF ActiveNext, IsActive
    <2> QED
      BY <2>2, <2>3, <2>4, Zenon
  <1> QED
    BY <1>2, <1>3, <1>4, Zenon

(* What Custody allows, told of the one branch a step may touch.           *)
LEMMA CustodyOf ==
  ASSUME NEW b \in Branches \cup {NoBranch},
         \A c \in Branches \ {b} : Keepers'[c] = Keepers[c],
         b \in Branches =>
           \/ Keepers'[b] = Keepers[b]
           \/ \E a \in Seats : Keepers[b] = {} /\ Keepers'[b] = {a}
           \/ \E a \in Seats, k \in Seats \cup {0} : Keepers[b] = {a} /\ Keepers'[b] = {k}
           \/ \E k \in Seats \cup {0} : Keepers[b] = {k} /\ Keepers'[b] = {}
  PROVE  [BranchCustody!Next]_Keepers
  <1>1. CASE b \notin Branches \/ Keepers'[b] = Keepers[b]
    <2>1. Keepers' = Keepers
      BY <1>1, KeepersStay, Zenon
    <2> QED
      BY <2>1
  <1>2. CASE b \in Branches /\ Keepers'[b] # Keepers[b]
    <2>1. Keepers' = [Keepers EXCEPT ![b] = Keepers'[b]]
      BY <1>2, KeepersChange, Zenon
    <2>2. ASSUME NEW a \in Seats, Keepers[b] = {}, Keepers'[b] = {a} PROVE BranchCustody!Next
      <3>1. BranchCustody!Take(b, a)
        BY <2>1, <2>2, Zenon DEF BranchCustody!Take
      <3> QED
        BY <1>2, <3>1, Zenon DEF BranchCustody!Next
    <2>3. ASSUME NEW a \in Seats, NEW k \in Seats \cup {0}, Keepers[b] = {a}, Keepers'[b] = {k}
          PROVE  BranchCustody!Next
      <3>1. BranchCustody!Pass(b, a, k)
        BY <2>1, <2>3, Zenon DEF BranchCustody!Pass
      <3> QED
        BY <1>2, <3>1, Zenon DEF BranchCustody!Next
    <2>4. ASSUME NEW k \in Seats \cup {0}, Keepers[b] = {k}, Keepers'[b] = {} PROVE BranchCustody!Next
      <3>1. BranchCustody!Release(b, k)
        BY <2>1, <2>4, Zenon DEF BranchCustody!Release
      <3> QED
        BY <1>2, <3>1, Zenon DEF BranchCustody!Next
    <2> QED
      BY <1>2, <2>2, <2>3, <2>4, Zenon
  <1> QED
    BY <1>1, <1>2

LEMMA CustodyNext ==
  ASSUME IInv, [Next]_vars
  PROVE  [BranchCustody!Next]_Keepers
  <1> DEFINE Goal == [BranchCustody!Next]_Keepers
  <1> USE DEF IInv
  <1>1. ASSUME held' = held,
               \A s \in Seats : /\ ActiveNext(s) <=> IsActive(s)
                                /\ IsActive(s) => seats'[s].branch = seats[s].branch
        PROVE  Goal
    <2>1. Keepers' = Keepers
      BY <1>1, SameClaims, Zenon DEF HeldBranch, HeldBranchNext
    <2> QED
      BY <2>1
  <1>2. ASSUME seats' = seats, held' = held PROVE Goal
    BY <1>1, <1>2, Zenon DEF ActiveNext, IsActive
  <1>3. ASSUME NEW s \in Seats, IsActive(s), seats' = Settled(s),
               \A c \in Branches \ {seats[s].branch} : HeldBranchNext(c) <=> HeldBranch(c)
        PROVE  Goal
    <2> DEFINE b == seats[s].branch
    <2>1. seats'[s] = NoSeat /\ \A t \in Seats \ {s} : seats'[t] = seats[t]
      BY <1>3, SettledSeats, Zenon
    <2>2. ~ActiveNext(s)
      BY <2>1, SMT DEF ActiveNext, NoSeat
    <2>3. \A t \in Seats : t = s \/ t = s \/ seats'[t] = seats[t]
      BY <2>1, Zenon
    <2>4. \A c \in Branches : c = seats[s].branch \/ (HeldBranchNext(c) <=> HeldBranch(c))
      BY <1>3, Zenon
    <2>5. /\ \A c \in Branches \ {b} : Keepers'[c] = Keepers[c]
          /\ b \in Branches => \A k \in Keepers'[b] : k = 0
      <3>1. ASSUME NEW c \in Branches, c # b PROVE Keepers'[c] = Keepers[c]
        BY <3>1, <2>2, <2>3, <2>4, ClaimGone, Zenon
      <3>2. ASSUME b \in Branches, NEW k \in Keepers'[b] PROVE k = 0
        BY <3>2, <1>3, <2>2, <2>3, ClaimLeft, Zenon
      <3> QED
        BY <3>1, <3>2, Zenon
    <2>6. b \in Branches => Keepers[b] = {s}
      BY <1>3, KeeperAlone, Zenon
    <2>7. b \in Branches \cup {NoBranch}
      BY LiveIsActive, Zenon
    <2> HIDE DEF b
    <2>8. b \in Branches => Keepers'[b] = {} \/ Keepers'[b] = {0}
      BY <2>5, SMT
    <2>9. b \in Branches => \/ \E k \in Seats \cup {0} : Keepers[b] = {k} /\ Keepers'[b] = {}
                            \/ \E a \in Seats, k \in Seats \cup {0} : Keepers[b] = {a} /\ Keepers'[b] = {k}
      BY <2>6, <2>8, SMT
    <2> QED
      BY <2>5, <2>7, <2>9, CustodyOf, Zenon
  <1>4. ASSUME NEW s \in Seats, AgentEnds(s) \/ Remove(s) \/ Requeue(s) PROVE Goal
    <2>1. IsActive(s) /\ seats' = Settled(s) /\ held' = held
      BY <1>4, LiveIsActive, Zenon DEF AgentEnds, Remove, Requeue, Orphan
    <2> QED
      BY <2>1, <1>3, Zenon DEF HeldBranch, HeldBranchNext
  <1>5. CASE SpawnFails
    <2>1. seat \in Seats /\ IsActive(seat) /\ seats' = Settled(seat) /\ held' = held
      BY <1>5, SMT DEF SpawnFails, PlanPart
    <2> QED
      BY <2>1, <1>3, Zenon DEF HeldBranch, HeldBranchNext
  <1>6. ASSUME NEW s \in Seats, Eject(s) PROVE Goal
    <2> DEFINE e == [origin |-> seats[s].work, branch |-> seats[s].branch]
    <2>1. IsActive(s) /\ seats' = Settled(s) /\ held' = held \cup {e}
      BY <1>6, EjectedClaim, Zenon
    <2>2. e.branch = seats[s].branch
      BY SMT
    <2> HIDE DEF e
    <2>3. \A c \in Branches \ {seats[s].branch} : HeldBranchNext(c) <=> HeldBranch(c)
      BY <2>1, <2>2, SMT DEF HeldBranch, HeldBranchNext
    <2> QED
      BY <2>1, <2>3, <1>3, Zenon
  <1>7. ASSUME NEW s \in Seats, Lift(s) PROVE Goal
    <2> DEFINE b == seats[s].branch
               f == FirstFree
    <2>1. /\ IsActive(s) /\ f \in Seats /\ ~IsActive(f) /\ f # s
          /\ seats'[s] = NoSeat
          /\ \A t \in Seats \ {s, f} : seats'[t] = seats[t]
          /\ seats'[f] = seats[f] \/ seats'[f] = Running(s)
      BY <1>7, LiftedRows, Zenon
    <2>2. ~ActiveNext(s)
      BY <2>1, SMT DEF ActiveNext, NoSeat
    <2>3. Running(s).branch = b
      BY <2>1, RewrittenRows, Zenon DEF SameClaim
    <2>4. ActiveNext(f) => seats'[f].branch = b
      BY <2>1, <2>3, Zenon DEF ActiveNext, IsActive
    <2>5. held' = held
      BY <1>7, Zenon DEF Lift
    <2>6. \A c \in Branches : HeldBranchNext(c) <=> HeldBranch(c)
      BY <2>5, Zenon DEF HeldBranch, HeldBranchNext
    <2>7. b \in Branches \cup {NoBranch} /\ (b \in Branches => Keepers[b] = {s})
      BY <2>1, LiveIsActive, KeeperAlone, Zenon
    <2>8. b \in Branches => ~HeldBranch(b)
      BY <2>1, DispatchAssumption, Zenon DEF HeldIsUntouched, HeldBranch
    <2> HIDE DEF f
    <2>9. /\ \A c \in Branches \ {b} : Keepers'[c] = Keepers[c]
          /\ b \in Branches => \A k \in Keepers'[b] : k = f
      <3>1. \A c \in Branches : c = seats[s].branch \/ (HeldBranchNext(c) <=> HeldBranch(c))
        BY <2>6, Zenon
      <3>2. f = s \/ (~IsActive(f) /\ (ActiveNext(f) => seats'[f].branch = seats[s].branch))
        BY <2>1, <2>4, Zenon
      <3>3. \A t \in Seats : t = s \/ t = f \/ seats'[t] = seats[t]
        BY <2>1, Zenon
      <3>4. ASSUME NEW c \in Branches, c # b PROVE Keepers'[c] = Keepers[c]
        BY <3>4, <2>1, <2>2, <3>1, <3>2, <3>3, ClaimGone, Zenon
      <3>5. ASSUME b \in Branches, NEW k \in Keepers'[b] PROVE k = f
        <4>1. (k = f /\ f # s) \/ (k = 0 /\ HeldBranchNext(b))
          BY <3>5, <2>1, <2>2, <3>3, ClaimLeft, Zenon
        <4> QED
          BY <4>1, <3>5, <2>6, <2>8, Zenon
      <3> QED
        BY <3>4, <3>5, Zenon
    <2> HIDE DEF b
    <2>10. b \in Branches => Keepers'[b] = {} \/ Keepers'[b] = {f}
      BY <2>9, SMT
    <2>11. b \in Branches => \/ \E k \in Seats \cup {0} : Keepers[b] = {k} /\ Keepers'[b] = {}
                             \/ \E a \in Seats, k \in Seats \cup {0} : Keepers[b] = {a} /\ Keepers'[b] = {k}
      BY <2>1, <2>7, <2>10, SMT
    <2> QED
      BY <2>7, <2>9, <2>11, CustodyOf, Zenon
  <1>8. CASE AdmitDesk \/ SlotReady
    <2> DEFINE b == BranchFor(Head(acts))
               f == FirstFree
    <2>1. /\ FreeSeats # {} /\ RecordTask /\ acts # <<>>
          /\ ~OnBranch(b) /\ ~EjectedBranch(b)
      BY <1>8, TakenIsFree, Zenon DEF IsFree
    <2>2. /\ f \in Seats /\ ~IsActive(f)
          /\ seats'[f].branch = b
          /\ \A t \in Seats \ {f} : seats'[t] = seats[t]
      BY <2>1, TakenRow, Zenon
    <2>3. held' = held
      BY <2>1, Zenon DEF RecordTask
    <2>4. b \in Branches \cup {NoBranch}
      BY <2>1, PlanHead, BranchForType, Zenon
    <2>5. ActiveNext(f)
      <3> DEFINE r == NewSeat(Head(acts), BranchFor(Head(acts)), "queued", "none")
      <3>1. f \in Seats /\ seats' = [seats EXCEPT ![f] = r]
        BY <2>1, <2>2, Zenon DEF RecordTask
      <3>2. r.task = "queued"
        BY SMT DEF NewSeat
      <3> HIDE DEF r, f
      <3>3. seats'[f] = r
        BY <3>1, SMT DEF SeatsPart
      <3> QED
        BY <3>2, <3>3, SMT DEF ActiveNext
    <2> HIDE DEF b, f
    <2>6. ASSUME NEW c \in Branches, NEW t \in Seats
          PROVE  t \in Keepers'[c] <=> t \in Keepers[c] \/ (t = f /\ c = b)
      <3>1. /\ t \in Keepers[c] <=> IsActive(t) /\ seats[t].branch = c
            /\ t \in Keepers'[c] <=> ActiveNext(t) /\ seats'[t].branch = c
        BY KeeperSeat, Zenon
      <3> QED
        BY <3>1, <2>2, <2>5, Zenon DEF ActiveNext, IsActive
    <2>7. ASSUME NEW c \in Branches
          PROVE  /\ 0 \in Keepers'[c] <=> 0 \in Keepers[c]
                 /\ Keepers'[c] \subseteq Seats \cup {0} /\ Keepers[c] \subseteq Seats \cup {0}
      BY <2>3, KeeperOperator, KeeperKinds, Zenon DEF HeldBranch, HeldBranchNext
    <2>8. ASSUME NEW c \in Branches \ {b} PROVE Keepers'[c] = Keepers[c]
      <3>1. \A t \in Seats : t \in Keepers'[c] <=> t \in Keepers[c]
        BY <2>6, <2>8, Zenon
      <3> QED
        BY <3>1, <2>7, SameKeepers, Zenon
    <2>9. ASSUME b \in Branches PROVE Keepers[b] = {} /\ Keepers'[b] = {f}
      <3>1. b # NoBranch
        BY <2>9, DispatchAssumption, Zenon
      <3>2. \A t \in Seats : t \notin Keepers[b]
        BY <3>1, <2>1, <2>9, KeeperSeat, Zenon DEF OnBranch
      <3>3. 0 \notin Keepers[b]
        BY <3>1, <2>1, <2>9, KeeperOperator, Zenon DEF EjectedBranch, HeldBranch
      <3>4. Keepers[b] = {}
        BY <3>2, <3>3, <2>7, <2>9, SMT
      <3>5. \A t \in Seats : t \in Keepers'[b] <=> t = f
        BY <3>2, <2>6, <2>9, Zenon
      <3>6. 0 \notin Keepers'[b]
        BY <3>3, <2>7, <2>9, Zenon
      <3> QED
        BY <3>4, <3>5, <3>6, <2>2, <2>7, <2>9, SMT
    <2> QED
      BY <2>2, <2>4, <2>8, <2>9, CustodyOf, Zenon
  <1>9. ASSUME NEW e \in held, HandBack(e) PROVE Goal
    <2> DEFINE b == e.branch
    <2>1. seats' = seats /\ held' = held \ {e} /\ b \in Branches \cup {NoBranch}
      BY <1>9, SMT DEF HandBack, RestPart, Claims
    <2> HIDE DEF b
    <2>2. \A c \in Branches : HeldBranchNext(c) => HeldBranch(c)
      BY <2>1, SMT DEF HeldBranch, HeldBranchNext
    <2>3. \A c \in Branches \ {b} : HeldBranch(c) => HeldBranchNext(c)
      BY <2>1, SMT DEF HeldBranch, HeldBranchNext, b
    <2>4. ASSUME NEW c \in Branches, NEW t \in Seats PROVE t \in Keepers'[c] <=> t \in Keepers[c]
      BY <2>1, KeeperSeat, Zenon DEF ActiveNext, IsActive
    <2>5. ASSUME NEW c \in Branches
          PROVE  /\ 0 \in Keepers[c] <=> HeldBranch(c)
                 /\ 0 \in Keepers'[c] <=> HeldBranchNext(c)
                 /\ Keepers'[c] \subseteq Seats \cup {0} /\ Keepers[c] \subseteq Seats \cup {0}
      BY KeeperOperator, KeeperKinds, Zenon
    <2>6. ASSUME NEW c \in Branches \ {b} PROVE Keepers'[c] = Keepers[c]
      <3>1. 0 \in Keepers'[c] <=> 0 \in Keepers[c]
        BY <2>2, <2>3, <2>5, Zenon
      <3> QED
        BY <3>1, <2>4, <2>5, SameKeepers, Zenon
    <2>7. ASSUME b \in Branches PROVE Keepers[b] = {0} /\ (Keepers'[b] = {0} \/ Keepers'[b] = {})
      <3>1. b # NoBranch
        BY <2>7, DispatchAssumption, Zenon
      <3>2. \A t \in Seats : ~(IsActive(t) /\ seats[t].branch = b)
        BY <3>1, Zenon DEF HeldIsUntouched, b
      <3>3. \A t \in Seats : t \notin Keepers[b] /\ t \notin Keepers'[b]
        BY <3>2, <2>4, <2>7, KeeperSeat, Zenon
      <3>4. 0 \in Keepers[b]
        BY <2>5, <2>7, Zenon DEF HeldBranch, b
      <3> QED
        BY <3>3, <3>4, <2>5, <2>7, SMT
    <2> QED
      BY <2>1, <2>6, <2>7, CustodyOf, SMT
  <1>10. ASSUME NEW b \in BriefsOn, FileBrief(b) PROVE Goal
    BY <1>10, <1>2, Zenon DEF FileBrief
  <1>11. ASSUME NEW j \in Jobs, CancelJob(j) PROVE Goal
    BY <1>11, <1>2, Zenon DEF CancelJob
  <1>12. ASSUME NEW c \in Caps, NEW p \in BOOLEAN, SetControl(c, p) PROVE Goal
    BY <1>12, <1>2, Zenon DEF SetControl
  <1>13. CASE \/ UNCHANGED vars \/ StartCycle \/ Refuse \/ Admit \/ SlotFails \/ MarkDispatched \/ EndPlan
    BY <1>13, <1>2, Zenon DEF vars, StartCycle, Refuse, Admit, SlotFails, MarkDispatched, EndPlan
  <1>14. ASSUME NEW s \in Seats, IsActive(s), seats' = [seats EXCEPT ![s] = Running(s)], held' = held
         PROVE  Goal
    <2>1. SameClaim(Running(s), s) /\ Running(s).task = "running"
      BY <1>14, RewrittenRows, SMT DEF Running, NewSeat
    <2>2. seats'[s] = Running(s) /\ \A t \in Seats \ {s} : seats'[t] = seats[t]
      BY <1>14, SMT DEF SeatsPart
    <2>3. ASSUME NEW t \in Seats
          PROVE  /\ ActiveNext(t) <=> IsActive(t)
                 /\ IsActive(t) => seats'[t].branch = seats[t].branch
      <3>1. CASE t = s
        BY <3>1, <1>14, <2>1, <2>2, SMT DEF SameClaim, ActiveNext
      <3>2. CASE t # s
        BY <3>2, <2>2, Zenon DEF ActiveNext, IsActive
      <3> QED
        BY <3>1, <3>2
    <2> QED
      BY <2>3, <1>14, <1>1, Zenon
  <1>15. CASE Spawn
    <2>1. seat \in Seats /\ IsActive(seat) /\ seats' = [seats EXCEPT ![seat] = Running(seat)] /\ held' = held
      BY <1>15, SMT DEF Spawn, PlanPart
    <2> QED
      BY <2>1, <1>14
  <1>16. ASSUME NEW s \in Seats, Restore(s) PROVE Goal
    <2>1. IsActive(s) /\ seats' = [seats EXCEPT ![s] = Running(s)] /\ held' = held
      BY <1>16, Zenon DEF Restore, Orphan
    <2> QED
      BY <2>1, <1>14
  <1>17. CASE Shutdown \/ Crash \/ Exit
    <2>1. /\ held' = held
          /\ \/ seats' = [s \in Seats |-> Interrupted(s)]
             \/ seats' = [s \in Seats |-> Detected(s)]
      BY <1>17, SMT DEF Shutdown, Crash, Exit, Boot
    <2>2. \A s \in Seats : SameClaim(seats'[s], s) /\ seats'[s].task = seats[s].task
      BY <2>1, RewrittenRows, SMT
    <2>3. \A s \in Seats : /\ ActiveNext(s) <=> IsActive(s)
                           /\ seats'[s].branch = seats[s].branch
      BY <2>2, Zenon DEF SameClaim, ActiveNext, IsActive
    <2> QED
      BY <2>1, <2>3, <1>1, Zenon
  <1> QED
    BY <1>4, <1>5, <1>6, <1>7, <1>8, <1>9, <1>10, <1>11, <1>12, <1>13, <1>15, <1>16, <1>17, Zenon
       DEF Next, ExecutorStep, AgentStep, OperatorStep

LEMMA InitIsCustody == Init => BranchCustody!Init
  <1> SUFFICES ASSUME Init PROVE Keepers = [b \in Branches |-> {}]
    BY Zenon DEF BranchCustody!Init
  <1>1. \A b \in Branches : \A s \in Seats : ~IsActive(s)
    BY SMT DEF Init, IsActive, NoSeat
  <1>2. held = {}
    BY DEF Init
  <1> QED
    BY <1>1, <1>2, Zenon DEF Keepers, EjectedBranch

(* Dispatch implements Custody: whatever is admitted, awaited, lifted,     *)
(* ejected, handed back, restored or lost in a crash, each branch goes     *)
(* from one keeper to the next, and what an operator took is nobody's      *)
(* before an agent has it again.                                           *)
THEOREM DispatchIsCustody == Spec => OneKeeper
  <1>1. IInv /\ [Next]_vars => [BranchCustody!Next]_Keepers
    BY CustodyNext
  <1> QED
    BY <1>1, InitIsCustody, DispatchInvariant, PTL DEF Spec, OneKeeper, BranchCustody!Spec
=============================================================================
