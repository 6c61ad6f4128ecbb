------------------------------- MODULE Pulse -------------------------------
(***************************************************************************)
(* The pulse of the harness: Harness.runCycle and its guards, the          *)
(* Heartbeat that calls it on a timer, the CycleTrigger that calls it when *)
(* an agent ends, the routes that call it for an operator, and the         *)
(* process that starts, stops and dies around them.                        *)
(*                                                                         *)
(* Node runs one callback at a time, so what happens between two awaits is *)
(* one action.  A cycle is two of them: runCycle up to its first await     *)
(* (RunCycle below) and the finally of runCycle (EndCycle).  A refused     *)
(* runCycle settles without waiting on anything, so what its caller does   *)
(* next (re-arm a timer) belongs to the same action.                       *)
(***************************************************************************)
EXTENDS Naturals

CONSTANTS
    MaxRetries,   \* MAX_RETRIES of cycleTrigger.ts
    MaxOrphans    \* bound: rows a dead process leaves awaiting a decision

ASSUME MaxRetriesAssumption == MaxRetries \in Nat \ {0}
ASSUME MaxOrphansAssumption == MaxOrphans \in Nat

Sources == {"timer", "manual", "boot", "local"}
NoCycle == "none"

VARIABLES
    up,             \* the process is running
    orphans,        \* store: recovery.pendingCount()
    baseline,       \* store: a world baseline has been recorded
    flight,         \* Harness.cycleInFlight with inFlight.source
    pendingManual,  \* Harness.pendingManual
    onClock,        \* Harness.onClock
    stopped,        \* Harness.stopped, Heartbeat.stopped and CycleTrigger.stopped after shutdown
    handoff,        \* a restart was asked for and the timer that shuts down is armed
    beatTimer,      \* Heartbeat.timer is armed
    beatRunning,    \* Heartbeat.running
    retryTimer,     \* CycleTrigger.timer is armed
    attempts,       \* CycleTrigger.attempts
    owed,           \* history: an operator was told "coalesced" and no cycle reading the world began since
    freed           \* history: an agent ended and no cycle began since

harnessVars == <<flight, pendingManual>>
beatVars    == <<beatTimer, beatRunning>>
retryVars   == <<retryTimer, attempts>>
storeVars   == <<orphans, baseline>>
lifeVars    == <<up, onClock, stopped, handoff>>
history     == <<owed, freed>>
vars == <<up, orphans, baseline, flight, pendingManual, onClock, stopped,
          handoff, beatTimer, beatRunning, retryTimer, attempts, owed, freed>>

-----------------------------------------------------------------------------
(* The memory a process starts with. *)
FreshMemory ==
    /\ flight = NoCycle
    /\ pendingManual = FALSE
    /\ onClock = FALSE
    /\ stopped = FALSE
    /\ handoff = FALSE
    /\ beatTimer = FALSE
    /\ beatRunning = FALSE
    /\ retryTimer = FALSE
    /\ attempts = 0
    /\ owed = FALSE
    /\ freed = FALSE

Init ==
    /\ up = TRUE
    /\ orphans \in 0..MaxOrphans
    /\ baseline \in BOOLEAN
    /\ FreshMemory

-----------------------------------------------------------------------------
(* runCycle, up to its first await. *)

(* Mutant of Runs: a manual call is let through the hold.                  *)
RunsManualUnderHold(source) ==
    /\ orphans = 0 \/ source = "manual"
    /\ flight = NoCycle
    /\ source = "local" => baseline

(* declined(): the hold is asked before the coalescing guard; a local      *)
(* cycle has a third refusal of its own.                                   *)
Runs(source) ==
    /\ orphans = 0
    /\ flight = NoCycle
    /\ source = "local" => baseline

(* Only a manual call refused because a cycle is running leaves a trace;   *)
(* one refused by the hold leaves none.                                    *)
LatchesManual(source) ==
    orphans = 0 /\ flight # NoCycle /\ source = "manual"

StartCycle(source) ==
    /\ Runs(source)
    /\ flight' = source
    /\ owed' = (owed /\ source = "local")
    /\ freed' = FALSE
    /\ UNCHANGED pendingManual

(* Mutant of RefuseCycle: the flag is assigned on every refusal.           *)
RefuseCycleOverwritesLatch(source) ==
    /\ ~Runs(source)
    /\ pendingManual' = LatchesManual(source)
    /\ owed' = (owed \/ LatchesManual(source))
    /\ UNCHANGED <<flight, freed>>

RefuseCycle(source) ==
    /\ ~Runs(source)
    /\ IF LatchesManual(source)
       THEN pendingManual' = TRUE /\ owed' = TRUE
       ELSE UNCHANGED <<pendingManual, owed>>
    /\ UNCHANGED <<flight, freed>>

RunCycle(source) == StartCycle(source) \/ RefuseCycle(source)

-----------------------------------------------------------------------------
(* The callers. *)

(* A route or an MCP tool calls runCycle('manual') after its write.        *)
ManualRequest ==
    /\ up
    /\ RunCycle("manual")
    /\ UNCHANGED <<lifeVars, storeVars, beatVars, retryVars>>

(* main(): harness.start(), then runCycle('boot') in the same callback.    *)
StartClock ==
    /\ up /\ ~onClock /\ ~stopped
    /\ onClock' = TRUE
    /\ beatTimer' = TRUE
    /\ RunCycle("boot")
    /\ UNCHANGED <<up, stopped, handoff, storeVars, beatRunning, retryVars>>

(* Mutant of HeartbeatFires: re-arms without waiting for its cycle.        *)
HeartbeatRearmsAtOnce ==
    /\ up /\ beatTimer
    /\ RunCycle("timer")
    /\ UNCHANGED <<beatVars, lifeVars, storeVars, retryVars>>

(* Mutant of HeartbeatFires: only a cycle that ran re-arms.                *)
HeartbeatDiesOnRefusal ==
    /\ up /\ beatTimer
    /\ RunCycle("timer")
    /\ beatTimer' = FALSE
    /\ beatRunning' = Runs("timer")
    /\ UNCHANGED <<lifeVars, storeVars, retryVars>>

(* Heartbeat: the timer fires and awaits runCycle('timer').  A refusal     *)
(* settles at once and re-arms; a cycle re-arms when it ends (EndCycle).   *)
HeartbeatFires ==
    /\ up /\ beatTimer
    /\ \/ /\ StartCycle("timer")
          /\ beatTimer' = FALSE
          /\ beatRunning' = TRUE
       \/ /\ RefuseCycle("timer")
          /\ UNCHANGED beatVars
    /\ UNCHANGED <<lifeVars, storeVars, retryVars>>

(* CycleTrigger.request(), on an agent's done or reaped.  Bounded by       *)
(* nothing: it only resets a counter and arms a timer.                     *)
AgentEnds ==
    /\ up
    /\ attempts' = 0
    /\ IF stopped THEN UNCHANGED retryTimer ELSE retryTimer' = TRUE
    /\ freed' = TRUE
    /\ UNCHANGED <<lifeVars, storeVars, harnessVars, beatVars, owed>>

(* Mutant of TriggerFires: the bound is compared before it is counted.     *)
TriggerRetriesOnceMore ==
    /\ up /\ retryTimer
    /\ \/ /\ StartCycle("local")
          /\ retryTimer' = FALSE
          /\ UNCHANGED attempts
       \/ /\ RefuseCycle("local")
          /\ attempts' = attempts + 1
          /\ IF attempts < MaxRetries THEN UNCHANGED retryTimer ELSE retryTimer' = FALSE
    /\ UNCHANGED <<lifeVars, storeVars, beatVars>>

(* CycleTrigger.fire(): a refused cycle is asked for again, a bounded      *)
(* number of times.                                                        *)
TriggerFires ==
    /\ up /\ retryTimer
    /\ \/ /\ StartCycle("local")
          /\ retryTimer' = FALSE
          /\ UNCHANGED attempts
       \/ /\ RefuseCycle("local")
          /\ attempts' = attempts + 1
          /\ IF attempts' < MaxRetries THEN UNCHANGED retryTimer ELSE retryTimer' = FALSE
    /\ UNCHANGED <<lifeVars, storeVars, beatVars>>

-----------------------------------------------------------------------------
(* A cycle in flight. *)

(* recordWorldChanges(): a cycle that reads the world, from sources none   *)
(* of which is stale, records the baseline.                                *)
RecordWorld ==
    /\ up /\ flight \notin {NoCycle, "local"}
    /\ ~baseline
    /\ baseline' = TRUE
    /\ UNCHANGED <<lifeVars, orphans, harnessVars, beatVars, retryVars, history>>

(* The Heartbeat's half of a cycle's end.                                  *)
BeatSettles ==
    IF flight = "timer"
    THEN /\ beatRunning' = FALSE
         /\ beatTimer' = ~stopped
    ELSE UNCHANGED beatVars

(* The trailing runCycle('manual').                                        *)
RunLatched ==
    /\ pendingManual' = FALSE
    /\ flight' = IF orphans = 0 THEN "manual" ELSE NoCycle
    /\ owed' = (owed /\ orphans # 0)
    /\ freed' = (freed /\ orphans # 0)

(* Mutant of EndCycle: the latch is run whether or not stop() was called.  *)
EndCycleIgnoresStop ==
    /\ up /\ flight # NoCycle
    /\ IF pendingManual
       THEN RunLatched
       ELSE flight' = NoCycle /\ UNCHANGED <<pendingManual, history>>
    /\ BeatSettles
    /\ UNCHANGED <<lifeVars, storeVars, retryVars>>

(* Mutant of EndCycle: the latch is cleared with the flag.                 *)
EndCycleDropsLatch ==
    /\ up /\ flight # NoCycle
    /\ flight' = NoCycle
    /\ pendingManual' = FALSE
    /\ BeatSettles
    /\ UNCHANGED <<lifeVars, storeVars, retryVars, history>>

(* Mutant of EndCycle: the trailing cycle is awaited in place of re-arming.*)
EndCycleForgetsBeat ==
    /\ up /\ flight # NoCycle
    /\ IF pendingManual /\ ~stopped
       THEN RunLatched /\ UNCHANGED beatVars
       ELSE /\ flight' = NoCycle
            /\ BeatSettles
            /\ UNCHANGED <<pendingManual, history>>
    /\ UNCHANGED <<lifeVars, storeVars, retryVars>>

(* The finally of runCycle, reached when pulseCycle returns or throws: the *)
(* flag is cleared and a latched manual request is run in the same         *)
(* callback.  A cycle the Heartbeat awaits then lets it re-arm.            *)
EndCycle ==
    /\ up /\ flight # NoCycle
    /\ IF pendingManual /\ ~stopped
       THEN RunLatched
       ELSE flight' = NoCycle /\ UNCHANGED <<pendingManual, history>>
    /\ BeatSettles
    /\ UNCHANGED <<lifeVars, storeVars, retryVars>>

-----------------------------------------------------------------------------
(* Recovery and the life of the process. *)

(* RecoveryDesk.decide(): a person settles one orphaned row.               *)
Decide ==
    /\ up /\ orphans > 0
    /\ orphans' = orphans - 1
    /\ UNCHANGED <<lifeVars, baseline, harnessVars, beatVars, retryVars, history>>

(* POST /api/config/restart with agents live: interruptAll() now, and the  *)
(* shutdown after a grace.  The harness is not stopped in between, and a   *)
(* cycle in flight goes on.                                                *)
RestartRequested ==
    /\ up /\ ~stopped
    /\ handoff' = TRUE
    /\ orphans' \in orphans..MaxOrphans
    /\ UNCHANGED <<up, onClock, stopped, baseline, harnessVars, beatVars, retryVars, history>>

(* shutdown(): harness.stop(), localCycles.stop(), then interruptAll(),    *)
(* which turns every live agent's row into one that awaits a decision.     *)
(* A cycle in flight is not ended by it.                                   *)
Shutdown ==
    /\ up /\ ~stopped
    /\ stopped' = TRUE
    /\ onClock' = FALSE
    /\ pendingManual' = FALSE
    /\ beatTimer' = FALSE
    /\ retryTimer' = FALSE
    /\ orphans' \in orphans..MaxOrphans
    /\ UNCHANGED <<up, handoff, baseline, flight, beatRunning, attempts, history>>

(* process.exit at the end of shutdown, or a crash at any moment: what is  *)
(* not in the store is gone.                                               *)
ProcessDies ==
    /\ up
    /\ up' = FALSE
    /\ flight' = NoCycle
    /\ pendingManual' = FALSE
    /\ onClock' = FALSE
    /\ stopped' = FALSE
    /\ handoff' = FALSE
    /\ beatTimer' = FALSE
    /\ beatRunning' = FALSE
    /\ retryTimer' = FALSE
    /\ attempts' = 0
    /\ owed' = FALSE
    /\ freed' = FALSE
    /\ UNCHANGED storeVars

(* The next process: RecoveryDesk.detect() adds the rows of agents that    *)
(* were live to those still undecided.                                     *)
Boot ==
    /\ ~up
    /\ up' = TRUE
    /\ orphans' \in orphans..MaxOrphans
    /\ UNCHANGED <<baseline, harnessVars, onClock, stopped, handoff, beatVars, retryVars, history>>

Next ==
    \/ ManualRequest \/ StartClock \/ HeartbeatFires
    \/ AgentEnds \/ TriggerFires
    \/ RecordWorld \/ EndCycle
    \/ Decide \/ RestartRequested \/ Shutdown \/ ProcessDies \/ Boot

(* Fairness: an armed timer fires, main() reaches harness.start(), and a   *)
(* cycle comes back (its provider calls are bounded; a cycle that never    *)
(* comes back takes the heartbeat with it, which is what the watchdog      *)
(* reports).  Nothing is assumed of people, agents or crashes.             *)
Fairness ==
    /\ WF_vars(StartClock)
    /\ WF_vars(HeartbeatFires)
    /\ WF_vars(TriggerFires)
    /\ WF_vars(EndCycle)

Spec == Init /\ [][Next]_vars /\ Fairness

-----------------------------------------------------------------------------
(* Properties. *)

(* Type invariant: the fields of Harness, Heartbeat and CycleTrigger hold  *)
(* values the code gives them; the trigger never counts past MAX_RETRIES.  *)
TypeOK ==
    /\ up \in BOOLEAN
    /\ orphans \in 0..MaxOrphans
    /\ baseline \in BOOLEAN
    /\ flight \in Sources \cup {NoCycle}
    /\ pendingManual \in BOOLEAN
    /\ onClock \in BOOLEAN
    /\ stopped \in BOOLEAN
    /\ handoff \in BOOLEAN
    /\ beatTimer \in BOOLEAN
    /\ beatRunning \in BOOLEAN
    /\ retryTimer \in BOOLEAN
    /\ attempts \in 0..MaxRetries
    /\ owed \in BOOLEAN
    /\ freed \in BOOLEAN

(* While orphaned work awaits a decision no cycle is in flight, whichever  *)
(* of the four sources asked, in every order of requests, endings and      *)
(* decisions: runCycle asks the hold first, and rows only become orphaned  *)
(* when the process is told to go.                                         *)
HoldStopsPulse ==
    up /\ ~stopped /\ ~handoff /\ orphans > 0 => flight = NoCycle

(* The clock of a started harness is never lost and never doubled: either  *)
(* the heartbeat's timer is armed or the cycle in flight is the one whose  *)
(* end re-arms it.  Heartbeat.fire and runCycle's coalescing share this    *)
(* across refusals, trailing manual cycles and failed cycles.              *)
ClockNeverLost ==
    up /\ onClock => (beatTimer <=> flight # "timer")

(* An operator told "coalesced" has the trailing cycle still coming: the   *)
(* latch is set and the cycle whose end consumes it is in flight.          *)
OwedIsLatched ==
    up /\ ~stopped /\ ~handoff /\ owed => pendingManual /\ flight # NoCycle

(* The end of an agent is never forgotten by the trigger: until a cycle    *)
(* begins, its timer is armed, or it has been refused MAX_RETRIES times in *)
(* a row and left the slot to the heartbeat.                               *)
FreedIsAsked ==
    up /\ ~stopped /\ freed => retryTimer \/ attempts = MaxRetries

(* So what was asked for stays asked for, by an operator who was told       *)
(* "coalesced" and by an agent's end, through every refusal, failed cycle   *)
(* and trailing one (refuseCycle, runCycle's finally, CycleTrigger.fire).   *)
AsksAreKept == OwedIsLatched /\ FreedIsAsked

(* After stop() nothing begins a cycle but a direct manual call: not the   *)
(* timers, and not the finally of a cycle that was in flight with a        *)
(* request latched behind it.                                              *)
NoCycleAfterStop ==
    [][ up /\ stopped /\ flight' # flight /\ flight' # NoCycle
          => flight = NoCycle /\ flight' = "manual" ]_vars

(* A request refused as coalesced is answered by a cycle that begins       *)
(* after it, unless the harness is told to stop first.                     *)
OwedIsServed == owed ~> (~owed \/ handoff \/ stopped \/ ~up)

(* A slot an agent freed is looked at again by some cycle, through the     *)
(* trigger or, after it gave up, the heartbeat, unless the pulse is held   *)
(* or the harness stops.                                                   *)
FreedIsSeen == freed ~> (~freed \/ orphans > 0 \/ stopped \/ ~up)

(* The heartbeat keeps coming back for as long as the process lives and    *)
(* is not stopped: a hold or a stream of manual cycles never kills it.     *)
HeartbeatKeepsBeating == []<>(beatTimer \/ stopped \/ ~up)

(* Nothing that is owed to anybody is forgotten: a request told            *)
(* "coalesced", a freed slot and the beat itself are each come back to.    *)
NothingForgotten == OwedIsServed /\ FreedIsSeen /\ HeartbeatKeepsBeating
=============================================================================
