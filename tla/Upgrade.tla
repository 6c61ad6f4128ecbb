------------------------------ MODULE Upgrade ------------------------------
(***************************************************************************)
(* The fleet that replaces itself: the update desk                         *)
(* (src/selfUpdate/updateDesk.ts) and its transitions (upgradePlan.ts)     *)
(* composed with the executor, the agents and the recovery desk of         *)
(* Dispatch.  The two share the pause, the count of live agents and the    *)
(* shutdown; nothing else.                                                 *)
(***************************************************************************)
EXTENDS Dispatch

CONSTANTS
    AutoUpdate,    \* selfUpdate.autoUpdate under a supervisor
    DrainDeadline, \* selfUpdate.drainDeadlineMs > 0
    AllRestorable  \* every interrupted agent's session and worktree survive

ASSUME UpgradeAssumption == {AutoUpdate, DrainDeadline, AllRestorable} \subseteq BOOLEAN

VARIABLES
    intent,   \* the upgrade_intent row
    can,      \* upgradability: a build is waiting and nothing stands in its way
    overdue,  \* a drain has stood for the deadline
    wish,     \* the operator's own last word on the pause
    touched   \* they gave it while an upgrade was under way

deskVars == <<intent, can, overdue, wish, touched>>
allVars  == <<vars, deskVars>>

States == {"idle", "draining", "ready", "applying"}
Idle   == [state |-> "idle", byDrain |-> FALSE]

\* The types, and what the intent says of the rest: the pause it owns stands while it stands, and no
\* deadline and no owned pause outlives it.
UpgradeTypeOK ==
    /\ TypeOK
    /\ intent \in [state : States, byDrain : BOOLEAN]
    /\ {can, overdue, wish, touched} \subseteq BOOLEAN
    /\ intent.byDrain => intent.state # "idle"
    /\ overdue => intent.state = "draining"
    /\ (intent.state # "idle" /\ ~touched) => paused

UpgradeInit ==
    /\ Init
    /\ intent = Idle
    /\ can \in BOOLEAN
    /\ overdue = FALSE
    /\ wish = StartPaused
    /\ touched = FALSE

(***************************************************************************)
(* applyUpgradeAction: the intent and the pause a request leaves behind.   *)
(* A refused request returns what it was given.                            *)
(***************************************************************************)
Desk == [state |-> intent.state, byDrain |-> intent.byDrain, paused |-> paused]

Drained(d) ==
    IF d.state = "idle" /\ can
    THEN [state |-> IF LiveCount > 0 THEN "draining" ELSE "ready",
          byDrain |-> ~d.paused, paused |-> TRUE]
    ELSE d

\* Mutant: a cancelled upgrade resumes the fleet whoever paused it.
CancelledResumes(d) ==
    IF d.state \in {"draining", "ready"}
    THEN [state |-> "idle", byDrain |-> FALSE, paused |-> FALSE]
    ELSE d

\* Mutant: the pause of a cancelled drain stays the drain's.
CancelledKeepsPause(d) ==
    IF d.state \in {"draining", "ready"}
    THEN [state |-> "idle", byDrain |-> d.byDrain, paused |-> d.paused /\ ~d.byDrain]
    ELSE d

Cancelled(d) ==
    IF d.state \in {"draining", "ready"}
    THEN [state |-> "idle", byDrain |-> FALSE, paused |-> d.paused /\ ~d.byDrain]
    ELSE d

Applied(d, interrupt) ==
    IF d.state # "applying" /\ can /\ (LiveCount = 0 \/ interrupt)
    THEN [state |-> "applying",
          byDrain |-> IF d.state = "idle" THEN ~d.paused ELSE d.byDrain, paused |-> TRUE]
    ELSE d

Become(d) ==
    /\ intent' = [state |-> d.state, byDrain |-> d.byDrain]
    /\ paused' = d.paused
    /\ overdue' = (overdue /\ d.state = "draining")
    /\ UNCHANGED <<executor, seats, jobs, held, cap, phase, can, wish, touched>>

\* POST /api/upgrade, which answers a refusal with a 409.
Request ==
    /\ ~InSync
    /\ \E d \in {Drained(Desk), Cancelled(Desk), Applied(Desk, FALSE), Applied(Desk, TRUE)} :
         d # Desk /\ Become(d)

(***************************************************************************)
(* UpdateDesk.run, one pass of a cycle that no orphan holds: a drain the   *)
(* fleet has run out of is ready, and the automatic update takes up to     *)
(* three steps from there.                                                 *)
(***************************************************************************)
Advanced(d) == IF d.state = "draining" /\ LiveCount = 0 THEN [d EXCEPT !.state = "ready"] ELSE d

\* Mutant: a drain is never hurried.
AutoStepWithoutDeadline(d) ==
    CASE ~AutoUpdate \/ d.state = "applying" -> d
      [] d.state = "idle" -> Drained(d)
      [] d.state = "ready" -> Applied(d, FALSE)
      [] OTHER -> d

AutoStep(d) ==
    CASE ~AutoUpdate \/ d.state = "applying" -> d
      [] d.state = "idle" -> Drained(d)
      [] d.state = "ready" -> Applied(d, FALSE)
      [] OTHER -> IF DrainDeadline /\ overdue THEN Applied(d, TRUE) ELSE d

DeskRun ==
    /\ step = "idle" /\ phase = "up"
    /\ \A s \in Seats : ~Orphan(s)
    /\ Become(AutoStep(AutoStep(AutoStep(Advanced(Desk)))))

\* The clock passes requestedAt + drainDeadlineMs.
Overdue ==
    /\ intent.state = "draining" /\ ~InSync
    /\ overdue' = TRUE
    /\ UNCHANGED <<vars, intent, can, wish, touched>>

\* The standing is read again: a build appears or goes, a checkout is dirtied or cleaned.
Standing ==
    /\ ~InSync
    /\ can' = ~can
    /\ UNCHANGED <<vars, intent, overdue, wish, touched>>

\* POST /api/control.
OperatorControl(c, p) ==
    /\ SetControl(c, p)
    /\ wish' = p
    /\ touched' = (intent.state # "idle")
    /\ UNCHANGED <<intent, can, overdue>>

(***************************************************************************)
(* Going down and coming back: the hand-off runs the shutdown after a      *)
(* grace; the next process reads the intent, restores the operator's pause *)
(* and the interrupted agents under `applying` and nothing under any other *)
(* state, and clears it.                                                   *)
(***************************************************************************)
\* Mutant: the hand-off waits for the fleet to have been seen clear.
HandOffWhenClear ==
    /\ intent.state = "applying" /\ LiveCount = 0
    /\ Shutdown
    /\ UNCHANGED deskVars

HandOff ==
    /\ intent.state = "applying"
    /\ Shutdown
    /\ UNCHANGED deskVars

Signal == intent.state # "applying" /\ Shutdown /\ UNCHANGED deskVars

Interruptions == {s \in Seats : Orphan(s) /\ seats[s].agent = "interrupted"}

ComeBack ==
    /\ IF intent.state = "applying"
       THEN /\ \E r \in SUBSET Interruptions :
                 /\ AllRestorable => r = Interruptions
                 /\ Boot(r, ~intent.byDrain)
            /\ UNCHANGED <<wish, touched>>
       ELSE /\ Boot({}, StartPaused)
            /\ wish' = StartPaused /\ touched' = FALSE
    /\ intent' = Idle
    /\ overdue' = FALSE
    /\ UNCHANGED can

Relaunch == phase = "leaving" /\ ~InSync /\ ComeBack

FleetStep ==
    /\ StartCycle \/ ExecutorStep \/ AgentStep \/ OperatorStep
    /\ UNCHANGED deskVars

UpgradeNext ==
    \/ FleetStep
    \/ \E c \in Caps, p \in BOOLEAN : OperatorControl(c, p)
    \/ Request \/ DeskRun \/ Overdue \/ Standing
    \/ HandOff \/ Signal \/ ComeBack

\* The process' own timers and the pulse run on; operators, agents and crashes owe nothing.  A timer
\* that falls due inside a synchronous stretch fires after it, and every cycle runs the desk: neither
\* is put off for ever by the executor's own steps, hence SF.
UpgradeFairness ==
    /\ WF_allVars(ExecutorStep /\ UNCHANGED deskVars)
    /\ SF_allVars(DeskRun)
    /\ SF_allVars(Overdue)
    /\ SF_allVars(HandOff)
    /\ SF_allVars(Relaunch)

UpgradeSpec == UpgradeInit /\ [][UpgradeNext]_allVars /\ UpgradeFairness

(***************************************************************************)
(* Properties.                                                             *)
(***************************************************************************)
\* The pause an upgrade sets is its own: cancelled or carried through the restart, the fleet is as
\* paused as the operator left it, unless they spoke again while the upgrade was under way.
PauseSurvives == (intent.state = "idle" /\ phase = "up" /\ ~touched) => paused = wish

\* The same without the exception: an operator who pauses or resumes during a drain is heard.
OperatorIsHeard == (intent.state = "idle" /\ phase = "up") => paused = wish

\* "ready: the drain finished: nothing is live, and the handoff is safe."
ReadyIsClear == intent.state = "ready" => LiveCount = 0

\* Agents an upgrade takes down come back with it: a process that was handed over in order and could
\* restore every session holds its pulse for nobody (action property).
UpgradeRestoresAll ==
    [][(Relaunch /\ intent.state = "applying" /\ \A s \in Seats : Orphan(s) => s \in Interruptions)
          => \A s \in Seats : ~Orphan(s)']_allVars

\* A drain never stands for ever once its deadline has passed, however long its agents run: the next
\* pulse interrupts them.  Only a build that cannot be taken, or an orphan holding the pulse, stops it.
DrainEnds ==
    <>[](can /\ \A s \in Seats : ~Orphan(s)) =>
        (intent.state = "draining" ~> intent.state # "draining")

\* A hand-off asked for is carried through: the fleet comes back and the intent is cleared, so that no
\* later restart can be taken for the upgrade's.
HandOffReturns == intent.state = "applying" ~> intent.state = "idle"

\* An upgrade that can be taken is: neither its drain nor its hand-off stands for ever.
UpgradeEnds == DrainEnds /\ HandOffReturns
=============================================================================
