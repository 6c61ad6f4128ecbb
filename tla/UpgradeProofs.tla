--------------------------- MODULE UpgradeProofs ---------------------------
(***************************************************************************)
(* The fleet that replaces itself, for any fleet and any configuration of  *)
(* the update.  The update desk is proved to be one more operator: all it  *)
(* does to the fleet is set the pause and shut it down, and the boot after *)
(* a hand-off gives interrupted agents back what they claimed already.  So *)
(* everything Dispatch promises holds of the fleet that upgrades itself.   *)
(***************************************************************************)
EXTENDS Upgrade, DispatchProofs

(* What the intent and the pause have to do with what the operator last    *)
(* said: the pause of an upgrade is the drain's where they had not paused. *)
WishPart ==
    /\ (intent.state = "idle" /\ ~touched) => paused = wish
    /\ (intent.state # "idle" /\ ~touched) => paused /\ wish = ~intent.byDrain

DeskPart ==
    /\ intent \in [state : States, byDrain : BOOLEAN]
    /\ can \in BOOLEAN /\ overdue \in BOOLEAN /\ wish \in BOOLEAN /\ touched \in BOOLEAN
    /\ intent.byDrain => intent.state # "idle"
    /\ overdue => intent.state = "draining"
    /\ WishPart

UInv == IInv /\ DeskPart

-----------------------------------------------------------------------------
(* Requests.  A row is sound if it says what the invariant asks.           *)
DeskRows == [state : States, byDrain : BOOLEAN, paused : BOOLEAN]

Sound(d) ==
    /\ d \in DeskRows
    /\ d.byDrain => d.state # "idle"
    /\ (d.state = "idle" /\ ~touched) => d.paused = wish
    /\ (d.state # "idle" /\ ~touched) => d.paused /\ wish = ~d.byDrain

LEMMA DeskIsSound ==
  ASSUME DeskPart, paused \in BOOLEAN
  PROVE  Sound(Desk)
  BY SMT DEF DeskPart, WishPart, Sound, DeskRows, Desk, States

LEMMA SoundBecomes ==
  ASSUME DeskPart, NEW d, Sound(d), Become(d)
  PROVE  DeskPart' /\ paused' \in BOOLEAN
  <1>1. d.state \in States /\ d.byDrain \in BOOLEAN /\ d.paused \in BOOLEAN
    BY SMT DEF Sound, DeskRows
  <1>2. /\ intent' \in [state : States, byDrain : BOOLEAN]
        /\ intent'.state = d.state /\ intent'.byDrain = d.byDrain /\ paused' = d.paused
    BY <1>1, SMT DEF Become
  <1>3. can' = can /\ wish' = wish /\ touched' = touched
        /\ overdue' = (overdue /\ d.state = "draining")
    BY Zenon DEF Become
  <1>4. overdue' \in BOOLEAN /\ (overdue' => d.state = "draining")
    BY <1>3, Zenon
  <1>5. WishPart'
    BY <1>2, <1>3, Zenon DEF Sound, WishPart
  <1> QED
    BY <1>1, <1>2, <1>3, <1>4, <1>5, Zenon DEF DeskPart, Sound

(* A row by its parts.                                                     *)
Row(s, b, p) == [state |-> s, byDrain |-> b, paused |-> p]

LEMMA SoundRow ==
  ASSUME NEW s \in States, NEW b \in BOOLEAN, NEW p \in BOOLEAN,
         b => s # "idle",
         (s = "idle" /\ ~touched) => p = wish,
         (s # "idle" /\ ~touched) => p /\ wish = ~b
  PROVE  Sound(Row(s, b, p))
  <1>1. /\ Row(s, b, p) \in DeskRows
        /\ Row(s, b, p).state = s /\ Row(s, b, p).byDrain = b /\ Row(s, b, p).paused = p
    BY SMT DEF Row, DeskRows
  <1> QED
    BY <1>1, Zenon DEF Sound

LEMMA RequestsAreSound ==
  ASSUME wish \in BOOLEAN, NEW d, Sound(d)
  PROVE  /\ Sound(Drained(d)) /\ Sound(Cancelled(d))
         /\ \A i \in BOOLEAN : Sound(Applied(d, i))
         /\ Sound(Advanced(d)) /\ Sound(AutoStep(d))
  <1>1. /\ d \in DeskRows /\ d.state \in States /\ d.byDrain \in BOOLEAN /\ d.paused \in BOOLEAN
        /\ (~d.paused) \in BOOLEAN /\ (d.paused /\ ~d.byDrain) \in BOOLEAN
        /\ TRUE \in BOOLEAN /\ FALSE \in BOOLEAN
    <2>1. d \in DeskRows
      BY Zenon DEF Sound
    <2>2. d.state \in States /\ d.byDrain \in BOOLEAN /\ d.paused \in BOOLEAN
      BY <2>1, SMT DEF DeskRows
    <2> QED
      BY <2>1, <2>2, Zenon
  <1>2. Sound(Drained(d))
    <2>1. CASE d.state = "idle" /\ can
      <3> DEFINE s == IF LiveCount > 0 THEN "draining" ELSE "ready"
      <3>1. s \in States /\ s # "idle"
        BY SMT DEF States
      <3>2. Drained(d) = Row(s, ~d.paused, TRUE)
        BY <2>1, Zenon DEF Drained, Row
      <3> HIDE DEF s
      <3>3. ~touched => wish = ~~d.paused
        BY <2>1, Zenon DEF Sound
      <3> QED
        BY <1>1, <3>1, <3>2, <3>3, SoundRow, Zenon
    <2>2. CASE ~(d.state = "idle" /\ can)
      BY <2>2, Zenon DEF Drained
    <2> QED
      BY <2>1, <2>2
  <1>3. Sound(Cancelled(d))
    <2>1. CASE d.state \in {"draining", "ready"}
      <3>1. Cancelled(d) = Row("idle", FALSE, d.paused /\ ~d.byDrain)
        BY <2>1, Zenon DEF Cancelled, Row
      <3>2. ~touched => (d.paused /\ ~d.byDrain) = wish
        BY <2>1, <1>1, Zenon DEF Sound
      <3>3. "idle" \in States
        BY SMT DEF States
      <3> QED
        BY <1>1, <3>1, <3>2, <3>3, SoundRow, Zenon
    <2>2. CASE d.state \notin {"draining", "ready"}
      BY <2>2, Zenon DEF Cancelled
    <2> QED
      BY <2>1, <2>2
  <1>4. ASSUME NEW i \in BOOLEAN PROVE Sound(Applied(d, i))
    <2> DEFINE b == IF d.state = "idle" THEN ~d.paused ELSE d.byDrain
    <2>1. CASE d.state # "applying" /\ can /\ (LiveCount = 0 \/ i)
      <3>1. Applied(d, i) = Row("applying", b, TRUE)
        BY <2>1, Zenon DEF Applied, Row
      <3>2. b \in BOOLEAN
        BY <1>1, Zenon
      <3>3. ~touched => wish = ~b
        BY <1>1, Zenon DEF Sound
      <3>4. "applying" \in States /\ "applying" # "idle"
        BY SMT DEF States
      <3> HIDE DEF b
      <3> QED
        BY <1>1, <3>1, <3>2, <3>3, <3>4, SoundRow, Zenon
    <2>2. CASE ~(d.state # "applying" /\ can /\ (LiveCount = 0 \/ i))
      BY <2>2, Zenon DEF Applied
    <2> QED
      BY <2>1, <2>2
  <1>5. Sound(Advanced(d))
    BY SMT DEF Sound, DeskRows, States, Advanced
  <1>6. Sound(AutoStep(d))
    <2>1. AutoStep(d) \in {d, Drained(d), Applied(d, FALSE), Applied(d, TRUE)}
      BY Zenon DEF AutoStep
    <2> QED
      BY <1>1, <1>2, <1>4, <2>1, Zenon
  <1> QED
    BY <1>2, <1>3, <1>4, <1>5, <1>6

-----------------------------------------------------------------------------
(* A boot that brings agents back: the claims stand as they stood.         *)
LEMMA BootKeeps ==
  ASSUME IInv, NEW r \in SUBSET Interruptions, NEW b \in BOOLEAN, Boot(r, b)
  PROVE  IInv' /\ Keepers' = Keepers
  <1> USE DEF IInv
  <1>1. /\ seats' = [s \in Seats |-> IF s \in r THEN Running(s) ELSE Detected(s)]
        /\ step' = "idle" /\ acts' = <<>> /\ live' = 0 /\ seat' = 0
        /\ jobs' = jobs /\ held' = held /\ paused' = b /\ cap' = BootCap /\ phase' = "up"
    BY Zenon DEF Boot
  <1>2. ASSUME NEW s \in Seats
        PROVE  SameClaim(seats'[s], s) /\ (ActiveNext(s) <=> IsActive(s))
    <2>1. CASE s \in r
      <3>1. seats'[s] = Running(s) /\ IsActive(s)
        BY <1>1, <2>1, SMT DEF Interruptions, Orphan
      <3>2. Running(s).task = "running"
        BY SMT DEF Running, NewSeat
      <3> QED
        BY <3>1, <3>2, RewrittenRows, Zenon DEF ActiveNext
    <2>2. CASE s \notin r
      <3>1. seats'[s] = Detected(s)
        BY <1>1, <2>2, SMT
      <3> QED
        BY <3>1, RewrittenRows, Zenon DEF ActiveNext, IsActive
    <2> QED
      BY <2>1, <2>2
  <1>3. SeatsPart'
    BY <1>1, <1>2, SMT DEF SeatsPart, SameClaim
  <1>4. JobsPart' /\ RestPart'
    BY <1>1, DispatchAssumption, SMT DEF JobsPart, RestPart
  <1>5. PlanPart' /\ ReadyPart' /\ NoOrphans' /\ CountIsSafe'
    BY <1>1, EmptySeq, SMT DEF PlanPart, ReadyPart, NoOrphans, CountIsSafe
  <1>6. NoSharedWork'
    <2> SUFFICES ASSUME NEW s \in Seats, NEW t \in Seats, s # t, ActiveNext(s), ActiveNext(t)
                 PROVE  /\ seats'[s].work # seats'[t].work
                        /\ seats'[s].branch # NoBranch => seats'[s].branch # seats'[t].branch
      BY Zenon DEF NoSharedWork, ActiveNext, IsActive
    <2>1. /\ SameClaim(seats'[s], s) /\ IsActive(s)
          /\ SameClaim(seats'[t], t) /\ IsActive(t)
      BY <1>2, Zenon
    <2> QED
      BY <2>1, Zenon DEF NoSharedWork, SameClaim
  <1>9. HeldIsUntouched'
    <2> SUFFICES ASSUME NEW e \in held, NEW s \in Seats, ActiveNext(s)
                 PROVE  /\ seats'[s].work # e.origin
                        /\ e.branch # NoBranch => seats'[s].branch # e.branch
      BY <1>1, Zenon DEF HeldIsUntouched, ActiveNext, IsActive
    <2>1. SameClaim(seats'[s], s) /\ IsActive(s)
      BY <1>2, Zenon
    <2> QED
      BY <2>1, Zenon DEF HeldIsUntouched, SameClaim
  <1>7. OriginPart'
    <2>1. jobs' = jobs
      BY <1>1
    <2>2. /\ FiledWorks' = FiledWorks
          /\ \A w \in FiledWorks : BranchFor(w)' = BranchFor(w)
      BY <2>1, Zenon DEF FiledWorks, BranchFor
    <2>3. ASSUME NEW s \in Seats, ActiveNext(s)
          PROVE  /\ seats'[s].work \in FiledWorks
                 /\ seats'[s].branch = BranchFor(seats'[s].work)
      <3>1. /\ IsActive(s) /\ seats'[s].work = seats[s].work
            /\ seats'[s].branch = seats[s].branch
        BY <1>2, <2>3, Zenon DEF SameClaim
      <3>2. seats[s].work \in FiledWorks /\ seats[s].branch = BranchFor(seats[s].work)
        BY <3>1, Zenon DEF OriginPart
      <3> QED
        BY <3>1, <3>2
    <2> QED
      BY <1>1, <2>1, <2>2, <2>3, Zenon DEF OriginPart, ActiveNext, IsActive
  <1>8. Keepers' = Keepers
    <2>1. \A c \in Branches : HeldBranchNext(c) <=> HeldBranch(c)
      BY <1>1, Zenon DEF HeldBranch, HeldBranchNext
    <2>2. \A s \in Seats : /\ ActiveNext(s) <=> IsActive(s)
                           /\ IsActive(s) => seats'[s].branch = seats[s].branch
      BY <1>2, Zenon DEF SameClaim
    <2> QED
      BY <2>1, <2>2, SameClaims, Zenon
  <1> QED
    BY <1>3, <1>4, <1>5, <1>6, <1>7, <1>8, <1>9

-----------------------------------------------------------------------------
(* Every step of the upgrading fleet is one of Dispatch, or the boot that  *)
(* ends an upgrade.                                                        *)
LEMMA DeskIsAnOperator ==
  ASSUME IInv, NEW p \in BOOLEAN, paused' = p, ~InSync,
         UNCHANGED <<executor, seats, jobs, held, cap, phase>>
  PROVE  Next
  <1>1. cap \in Caps
    BY Zenon DEF IInv, RestPart
  <1>2. SetControl(cap, p)
    BY Zenon DEF SetControl
  <1> QED
    BY <1>1, <1>2, Zenon DEF Next

LEMMA BecomesSound ==
  ASSUME UInv, NEW d, Sound(d), Become(d), ~InSync
  PROVE  Next /\ DeskPart'
  <1>1. DeskPart' /\ paused' \in BOOLEAN
    BY SoundBecomes, Zenon DEF UInv
  <1>2. UNCHANGED <<executor, seats, jobs, held, cap, phase>>
    BY Zenon DEF Become
  <1> QED
    BY <1>1, <1>2, DeskIsAnOperator, Zenon DEF UInv

LEMMA RequestNext ==
  ASSUME UInv, Request \/ DeskRun
  PROVE  Next /\ DeskPart'
  <1>1. Sound(Desk) /\ wish \in BOOLEAN
    BY DeskIsSound, Zenon DEF UInv, IInv, RestPart, DeskPart
  <1>2. ASSUME NEW d, Sound(d)
        PROVE  /\ Sound(Drained(d)) /\ Sound(Cancelled(d)) /\ Sound(Advanced(d)) /\ Sound(AutoStep(d))
               /\ Sound(Applied(d, TRUE)) /\ Sound(Applied(d, FALSE))
    BY <1>1, <1>2, RequestsAreSound, Zenon
  <1>3. CASE Request
    <2>1. PICK d \in {Drained(Desk), Cancelled(Desk), Applied(Desk, FALSE), Applied(Desk, TRUE)} :
               Become(d)
      BY <1>3, Zenon DEF Request
    <2>2. Sound(d) /\ ~InSync
      BY <1>1, <1>2, <1>3, Zenon DEF Request
    <2> QED
      BY <2>1, <2>2, BecomesSound, Zenon
  <1>4. CASE DeskRun
    <2> DEFINE d == AutoStep(AutoStep(AutoStep(Advanced(Desk))))
    <2>1. Sound(d)
      BY <1>1, <1>2, Zenon
    <2>2. Become(d)
      BY <1>4, Zenon DEF DeskRun
    <2>3. ~InSync
      BY <1>4, SMT DEF DeskRun, InSync
    <2> HIDE DEF d
    <2> QED
      BY <2>1, <2>2, <2>3, BecomesSound, Zenon
  <1> QED
    BY <1>3, <1>4

LEMMA ComeBackNext ==
  ASSUME UInv, ComeBack
  PROVE  IInv' /\ DeskPart' /\ Keepers' = Keepers
  <1>0. IInv /\ DeskPart
    BY Zenon DEF UInv
  <1>1. intent' = Idle /\ overdue' = FALSE /\ can' = can
    BY Zenon DEF ComeBack
  <1>2. /\ intent' \in [state : States, byDrain : BOOLEAN]
        /\ intent'.state = "idle" /\ ~intent'.byDrain
    BY <1>1, SMT DEF Idle, States
  <1>3. intent.byDrain \in BOOLEAN /\ (~intent.byDrain) \in BOOLEAN
    <2>1. intent.byDrain \in BOOLEAN
      BY <1>0, SMT DEF DeskPart
    <2> QED
      BY <2>1, Zenon
  <1>4. CASE intent.state = "applying"
    <2>1. PICK r \in SUBSET Interruptions : Boot(r, ~intent.byDrain)
      BY <1>4, Zenon DEF ComeBack
    <2>2. IInv' /\ Keepers' = Keepers
      BY <1>0, <1>3, <2>1, BootKeeps, Zenon
    <2>3. paused' = ~intent.byDrain /\ wish' = wish /\ touched' = touched
      BY <1>4, <2>1, Zenon DEF ComeBack, Boot
    <2>4. intent.state # "idle"
      BY <1>4, SMT
    <2>5. WishPart'
      BY <1>0, <1>2, <2>3, <2>4, Zenon DEF DeskPart, WishPart
    <2> QED
      BY <1>0, <1>1, <1>2, <2>2, <2>3, <2>5, Zenon DEF DeskPart
  <1>5. CASE intent.state # "applying"
    <2>1. Boot({}, StartPaused) /\ wish' = StartPaused /\ touched' = FALSE
      BY <1>5, Zenon DEF ComeBack
    <2>2. {} \in SUBSET Interruptions /\ StartPaused \in BOOLEAN
      BY DispatchAssumption, Zenon
    <2>3. IInv' /\ Keepers' = Keepers
      BY <1>0, <2>1, <2>2, BootKeeps, Zenon
    <2>4. paused' = StartPaused
      BY <2>1, Zenon DEF Boot
    <2>5. WishPart'
      BY <1>2, <2>1, <2>4, Zenon DEF WishPart
    <2> QED
      BY <1>0, <1>1, <1>2, <2>1, <2>2, <2>3, <2>5, Zenon DEF DeskPart
  <1> QED
    BY <1>4, <1>5

LEMMA UpgradeNextKinds ==
  ASSUME UInv, [UpgradeNext]_allVars
  PROVE  ([Next]_vars /\ DeskPart') \/ ComeBack
  <1> USE DEF UInv
  <1>1. ASSUME UNCHANGED deskVars, paused' = paused PROVE DeskPart'
    BY <1>1, Zenon DEF deskVars, DeskPart, WishPart
  <1>2. CASE FleetStep
    <2>1. Next
      BY <1>2, Zenon DEF FleetStep, Next
    <2>2. paused' = paused
      BY <1>2, Zenon DEF FleetStep, StartCycle, ExecutorStep, AgentStep, OperatorStep, Refuse, Admit, AdmitDesk,
         SlotReady, RecordTask, SlotFails, Spawn, SpawnFails, MarkDispatched, EndPlan, AgentEnds, Lift,
         Eject, Restore, Remove, Requeue, HandBack, FileBrief, CancelJob, control
    <2> QED
      BY <1>1, <1>2, <2>1, <2>2, Zenon DEF FleetStep
  <1>3. ASSUME NEW c \in Caps, NEW p \in BOOLEAN, OperatorControl(c, p)
        PROVE  Next /\ DeskPart'
    <2>1. Next
      BY <1>3, Zenon DEF OperatorControl, Next
    <2>2. /\ paused' = p /\ wish' = p /\ touched' = (intent.state # "idle")
          /\ intent' = intent /\ can' = can /\ overdue' = overdue
      BY <1>3, Zenon DEF OperatorControl, SetControl
    <2>3. touched' \in BOOLEAN /\ (touched' <=> intent.state # "idle")
      BY <2>2, Zenon
    <2> QED
      BY <2>1, <2>2, <2>3, Zenon DEF DeskPart, WishPart
  <1>4. CASE Request \/ DeskRun
    BY <1>4, RequestNext, Zenon
  <1>5. CASE Overdue \/ Standing
    <2>1. UNCHANGED vars /\ paused' = paused /\ intent' = intent /\ wish' = wish /\ touched' = touched
      BY <1>5, Zenon DEF Overdue, Standing, vars, control
    <2>2. can' \in BOOLEAN /\ overdue' \in BOOLEAN /\ (overdue' => intent.state = "draining")
      <3>1. CASE Overdue
        BY <3>1, Zenon DEF Overdue, DeskPart
      <3>2. CASE Standing
        <4>1. (~can) \in BOOLEAN
          BY Zenon
        <4> QED
          BY <3>2, <4>1, Zenon DEF Standing, DeskPart
      <3> QED
        BY <1>5, <3>1, <3>2
    <2> QED
      BY <2>1, <2>2, Zenon DEF DeskPart, WishPart
  <1>6. CASE HandOff \/ Signal
    <2>1. Shutdown /\ UNCHANGED deskVars
      BY <1>6, Zenon DEF HandOff, Signal
    <2>2. paused' = paused
      BY <2>1, Zenon DEF Shutdown, control
    <2> QED
      BY <1>1, <2>1, <2>2, Zenon DEF Next
  <1>7. CASE UNCHANGED allVars
    <2>1. UNCHANGED vars /\ UNCHANGED deskVars /\ paused' = paused
      BY <1>7, Zenon DEF allVars, vars
    <2> QED
      BY <1>1, <2>1, Zenon
  <1> QED
    BY <1>2, <1>3, <1>4, <1>5, <1>6, <1>7, Zenon DEF UpgradeNext

LEMMA UpgradeStep == UInv /\ [UpgradeNext]_allVars => UInv' /\ [BranchCustody!Next]_Keepers
  <1> SUFFICES ASSUME UInv, [UpgradeNext]_allVars
               PROVE  UInv' /\ [BranchCustody!Next]_Keepers
    OBVIOUS
  <1>1. CASE [Next]_vars /\ DeskPart'
    <2>1. IInv'
      BY <1>1, DispatchStep, Zenon DEF UInv
    <2>2. [BranchCustody!Next]_Keepers
      BY <1>1, CustodyNext, Zenon DEF UInv
    <2> QED
      BY <1>1, <2>1, <2>2, Zenon DEF UInv
  <1>2. CASE ComeBack
    BY <1>2, ComeBackNext, Zenon DEF UInv
  <1> QED
    BY <1>1, <1>2, UpgradeNextKinds, Zenon

LEMMA UpgradeStarts == UpgradeInit => UInv
  <1> SUFFICES ASSUME UpgradeInit PROVE UInv
    OBVIOUS
  <1>1. IInv
    BY DispatchInit, Zenon DEF UpgradeInit
  <1>2. intent \in [state : States, byDrain : BOOLEAN] /\ intent.state = "idle" /\ ~intent.byDrain
    BY SMT DEF UpgradeInit, Idle, States
  <1>3. /\ can \in BOOLEAN /\ overdue = FALSE /\ touched = FALSE
        /\ wish = StartPaused /\ wish \in BOOLEAN /\ paused = wish
    BY DispatchAssumption, Zenon DEF UpgradeInit, Init
  <1> QED
    BY <1>1, <1>2, <1>3, Zenon DEF UInv, DeskPart, WishPart

LEMMA UpgradeInvariant == UpgradeSpec => []UInv
  BY UpgradeStarts, UpgradeStep, PTL DEF UpgradeSpec

-----------------------------------------------------------------------------
(* Types, and what the intent says of the rest: only a drain has a         *)
(* deadline, and while an upgrade stands the fleet is paused unless an     *)
(* operator spoke.                                                         *)
THEOREM UpgradeTypeCorrect == UpgradeSpec => []UpgradeTypeOK
  <1>1. UInv => UpgradeTypeOK
    BY InvariantTypes, Zenon DEF UInv, DeskPart, WishPart, UpgradeTypeOK
  <1> QED
    BY <1>1, UpgradeInvariant, PTL

(* The pause an upgrade sets is its own: cancelled, or carried through the *)
(* restart (applyUpgradeAction, the boot under `applying`), it leaves the  *)
(* fleet as paused as the operator did.                                    *)
THEOREM PauseSurvivesAlways == UpgradeSpec => []PauseSurvives
  <1>1. UInv => PauseSurvives
    BY Zenon DEF UInv, DeskPart, WishPart, PauseSurvives
  <1> QED
    BY <1>1, UpgradeInvariant, PTL

(* A fleet that upgrades itself keeps the promises of one that does not:   *)
(* no work is shared, nothing held is touched, a goal has one worker and   *)
(* the count is safe, also across a restart that brings agents back.       *)
THEOREM UpgradeKeepsWorkApart ==
  UpgradeSpec => [](NoSharedWork /\ HeldIsUntouched /\ GoalHasOneWorker /\ CountIsSafe)
  <1>1. UInv => NoSharedWork /\ HeldIsUntouched /\ GoalHasOneWorker /\ CountIsSafe
    BY OneWorkerOf, Zenon DEF UInv, IInv
  <1> QED
    BY <1>1, UpgradeInvariant, PTL

(* And it implements Custody as well: a branch goes from keeper to keeper  *)
(* one at a time, and a restart passes none.                               *)
THEOREM UpgradeIsCustody == UpgradeSpec => OneKeeper
  <1>1. UpgradeInit => BranchCustody!Init
    BY InitIsCustody, Zenon DEF UpgradeInit
  <1> QED
    BY <1>1, UpgradeStep, UpgradeInvariant, PTL DEF UpgradeSpec, OneKeeper, BranchCustody!Spec
=============================================================================
