---------------------------- MODULE PulseProofs ----------------------------
(***************************************************************************)
(* The safety properties of Pulse, for every retry limit and every number  *)
(* of orphaned rows.  They are conjuncts of one inductive invariant; what  *)
(* it adds to them is which facts hold of a stopped harness, of a process  *)
(* that is down, and of the trigger's counter while its timer is armed.    *)
(***************************************************************************)
EXTENDS Pulse, TLAPS

(* A harness on its clock is not stopped, and only one that was on its     *)
(* clock has a heartbeat timer or a cycle of the timer's.                  *)
ClockStanding ==
    /\ onClock => ~stopped
    /\ beatTimer => onClock
    /\ flight = "timer" => onClock \/ stopped

(* shutdown() leaves no timer armed; a process that is down has no memory. *)
NothingArmed ==
    /\ stopped => ~retryTimer
    /\ ~up => flight = NoCycle /\ ~onClock /\ ~stopped /\ ~handoff /\ ~retryTimer /\ ~owed /\ ~freed

(* The trigger's timer is armed only while a retry is left.                *)
RetryLeft == retryTimer => attempts < MaxRetries

(* TypeOK in two halves, for the two provers: the flags, and the values.   *)
Flags ==
    /\ up \in BOOLEAN
    /\ baseline \in BOOLEAN
    /\ pendingManual \in BOOLEAN
    /\ onClock \in BOOLEAN
    /\ stopped \in BOOLEAN
    /\ handoff \in BOOLEAN
    /\ beatTimer \in BOOLEAN
    /\ beatRunning \in BOOLEAN
    /\ retryTimer \in BOOLEAN
    /\ owed \in BOOLEAN
    /\ freed \in BOOLEAN

Values ==
    /\ orphans \in 0..MaxOrphans
    /\ attempts \in 0..MaxRetries
    /\ flight \in Sources \cup {NoCycle}

(* What the harness promises, with what makes it inductive.                *)
Promises ==
    /\ HoldStopsPulse
    /\ ClockNeverLost
    /\ OwedIsLatched
    /\ FreedIsAsked
    /\ ClockStanding
    /\ NothingArmed
    /\ RetryLeft

IInv == Flags /\ Values /\ Promises

LEMMA TypeHalves == TypeOK <=> Flags /\ Values
  BY Zenon DEF TypeOK, Flags, Values

LEMMA PulseInit == Init => IInv
  <1> SUFFICES ASSUME Init PROVE IInv
    OBVIOUS
  <1>1. Flags
    BY Zenon DEF Init, FreshMemory, Flags
  <1>2. Values
    BY MaxRetriesAssumption, SMT DEF Init, FreshMemory, Values, NoCycle
  <1>3. Promises
    BY MaxRetriesAssumption, SMT
       DEF Init, FreshMemory, NoCycle, Promises, HoldStopsPulse, ClockNeverLost,
           OwedIsLatched, FreedIsAsked, ClockStanding, NothingArmed, RetryLeft
  <1> QED
    BY <1>1, <1>2, <1>3, Zenon DEF IInv

(* Every step keeps the flags boolean. *)
LEMMA FlagsNext == Flags /\ [Next]_vars => Flags'
  <1> SUFFICES ASSUME Flags, [Next]_vars PROVE Flags'
    OBVIOUS
  <1> USE DEF Flags, harnessVars, beatVars, retryVars, storeVars, lifeVars, history
  <1>1. CASE ManualRequest
    BY <1>1, Zenon DEF ManualRequest, RunCycle, StartCycle, RefuseCycle, Runs, LatchesManual
  <1>2. CASE StartClock
    BY <1>2, Zenon DEF StartClock, RunCycle, StartCycle, RefuseCycle, Runs, LatchesManual
  <1>3. CASE HeartbeatFires
    BY <1>3, Zenon DEF HeartbeatFires, StartCycle, RefuseCycle, Runs, LatchesManual
  <1>4. CASE AgentEnds
    BY <1>4, Zenon DEF AgentEnds
  <1>5. CASE TriggerFires
    BY <1>5, Zenon DEF TriggerFires, StartCycle, RefuseCycle, Runs, LatchesManual
  <1>6. CASE RecordWorld
    BY <1>6, Zenon DEF RecordWorld
  <1>7. CASE EndCycle
    BY <1>7, Zenon DEF EndCycle, RunLatched, BeatSettles
  <1>8. CASE Decide
    BY <1>8, Zenon DEF Decide
  <1>9. CASE Shutdown
    BY <1>9, Zenon DEF Shutdown
  <1>10. CASE ProcessDies
    BY <1>10, Zenon DEF ProcessDies
  <1>11. CASE Boot
    BY <1>11, Zenon DEF Boot
  <1>12. CASE UNCHANGED vars
    BY <1>12, Zenon DEF vars
  <1>13. CASE RestartRequested
    BY <1>13, Zenon DEF RestartRequested
  <1> QED
    BY <1>1, <1>2, <1>3, <1>4, <1>5, <1>6, <1>7, <1>8, <1>9, <1>10, <1>11, <1>12, <1>13, Zenon DEF Next

(* Every step keeps the values in range and the promises kept. *)
LEMMA PromisesNext == IInv /\ [Next]_vars => Values' /\ Promises'
  <1> SUFFICES ASSUME IInv, [Next]_vars PROVE Values' /\ Promises'
    OBVIOUS
  <1> USE MaxRetriesAssumption, MaxOrphansAssumption
      DEF IInv, Flags, Values, Promises, HoldStopsPulse, ClockNeverLost, OwedIsLatched,
          FreedIsAsked, ClockStanding, NothingArmed, RetryLeft, NoCycle, Sources,
          harnessVars, beatVars, retryVars, storeVars, lifeVars, history
  <1>1. CASE ManualRequest
    BY <1>1, SMT DEF ManualRequest, RunCycle, StartCycle, RefuseCycle, Runs, LatchesManual
  <1>2. CASE StartClock
    BY <1>2, SMT DEF StartClock, RunCycle, StartCycle, RefuseCycle, Runs, LatchesManual
  <1>3. CASE HeartbeatFires
    <2>1. CASE StartCycle("timer")
      BY <1>3, <2>1, SMT DEF HeartbeatFires, StartCycle, RefuseCycle, Runs
    <2>2. CASE RefuseCycle("timer")
      <3>1. UNCHANGED <<lifeVars, storeVars, retryVars, beatVars>>
        BY <1>3, <2>2, Zenon DEF HeartbeatFires, StartCycle, RefuseCycle
      <3>2. UNCHANGED <<pendingManual, owed, flight, freed>>
        BY <2>2, Zenon DEF RefuseCycle, LatchesManual
      <3> QED
        BY <3>1, <3>2, SMT
    <2> QED
      BY <1>3, <2>1, <2>2, Zenon DEF HeartbeatFires
  <1>4. CASE AgentEnds
    BY <1>4, SMT DEF AgentEnds
  <1>5. CASE TriggerFires
    <2>1. CASE StartCycle("local")
      BY <1>5, <2>1, SMT DEF TriggerFires, StartCycle, RefuseCycle, Runs
    <2>2. CASE RefuseCycle("local")
      <3>1. /\ UNCHANGED <<lifeVars, storeVars, beatVars>>
            /\ attempts' = attempts + 1 /\ retryTimer
            /\ IF attempts' < MaxRetries THEN UNCHANGED retryTimer ELSE retryTimer' = FALSE
        BY <1>5, <2>2, Zenon DEF TriggerFires, StartCycle, RefuseCycle
      <3>2. UNCHANGED <<pendingManual, owed, flight, freed>>
        BY <2>2, Zenon DEF RefuseCycle, LatchesManual
      <3>3. CASE attempts' < MaxRetries
        <4>1. UNCHANGED <<lifeVars, storeVars, beatVars, retryTimer>>
          BY <3>1, <3>3, Zenon
        <4>2. attempts' = attempts + 1
          BY <3>1, Zenon
        <4> QED
          BY <3>2, <3>3, <4>1, <4>2, SMT
      <3>4. CASE ~(attempts' < MaxRetries)
        <4>1. attempts' = MaxRetries
          BY <3>1, <3>4, SMT
        <4>2. retryTimer' = FALSE
          BY <3>1, <3>4, Zenon
        <4>3. UNCHANGED <<lifeVars, storeVars, beatVars>>
          BY <3>1, Zenon
        <4> QED
          BY <3>2, <4>1, <4>2, <4>3, SMT
      <3> QED
        BY <3>3, <3>4, Zenon
    <2> QED
      BY <1>5, <2>1, <2>2, Zenon DEF TriggerFires
  <1>6. CASE RecordWorld
    BY <1>6, SMT DEF RecordWorld
  <1>7. CASE EndCycle
    BY <1>7, SMT DEF EndCycle, RunLatched, BeatSettles
  <1>8. CASE Decide
    BY <1>8, SMT DEF Decide
  <1>9. CASE Shutdown
    BY <1>9, SMT DEF Shutdown
  <1>10. CASE ProcessDies
    BY <1>10, SMT DEF ProcessDies
  <1>11. CASE Boot
    BY <1>11, SMT DEF Boot
  <1>12. CASE UNCHANGED vars
    BY <1>12, SMT DEF vars
  <1>13. CASE RestartRequested
    BY <1>13, SMT DEF RestartRequested
  <1> QED
    BY <1>1, <1>2, <1>3, <1>4, <1>5, <1>6, <1>7, <1>8, <1>9, <1>10, <1>11, <1>12, <1>13, Zenon DEF Next

LEMMA PulseInvariant == Spec => []IInv
  <1>1. IInv /\ [Next]_vars => IInv'
    BY FlagsNext, PromisesNext, Zenon DEF IInv
  <1> QED
    BY PulseInit, <1>1, PTL DEF Spec

(* Type correctness, for every retry limit and number of orphaned rows.    *)
THEOREM TypeCorrect == Spec => []TypeOK
  <1>1. IInv => TypeOK
    BY TypeHalves, Zenon DEF IInv
  <1> QED
    BY PulseInvariant, <1>1, PTL

(* While orphaned work awaits a decision, no cycle of any source is in     *)
(* flight in a harness not told to stop.                                   *)
THEOREM HoldStops == Spec => []HoldStopsPulse
  <1>1. IInv => HoldStopsPulse
    BY Zenon DEF IInv, Promises
  <1> QED
    BY PulseInvariant, <1>1, PTL

(* The clock of a started harness is armed exactly when no cycle of the    *)
(* timer's is in flight.                                                   *)
THEOREM ClockKept == Spec => []ClockNeverLost
  <1>1. IInv => ClockNeverLost
    BY Zenon DEF IInv, Promises
  <1> QED
    BY PulseInvariant, <1>1, PTL

(* An operator told "coalesced" always has the latch set behind a cycle    *)
(* whose end consumes it.                                                  *)
THEOREM OwedLatched == Spec => []OwedIsLatched
  <1>1. IInv => OwedIsLatched
    BY Zenon DEF IInv, Promises
  <1> QED
    BY PulseInvariant, <1>1, PTL

(* A freed slot stays asked for until the trigger has spent its retries.   *)
THEOREM FreedAsked == Spec => []FreedIsAsked
  <1>1. IInv => FreedIsAsked
    BY Zenon DEF IInv, Promises
  <1> QED
    BY PulseInvariant, <1>1, PTL

(* Neither ask is lost, for any retry budget.                              *)
THEOREM AsksStayKept == Spec => []AsksAreKept
  BY OwedLatched, FreedAsked, PTL DEF AsksAreKept

(* After stop() no step but a direct manual call begins a cycle.           *)
THEOREM QuietAfterStop == Spec => NoCycleAfterStop
  <1> DEFINE Quiet == up /\ stopped /\ flight' # flight /\ flight' # NoCycle
                        => flight = NoCycle /\ flight' = "manual"
  <1>1. IInv /\ [Next]_vars => [Quiet]_vars
    <2> SUFFICES ASSUME IInv, Next, up, stopped, flight' # flight, flight' # NoCycle
                 PROVE flight = NoCycle /\ flight' = "manual"
      BY Zenon DEF vars
    <2>1. ~beatTimer /\ ~retryTimer
      BY Zenon DEF IInv, Promises, ClockStanding, NothingArmed
    <2>2. ManualRequest
      BY <2>1, Zenon
         DEF Next, StartClock, HeartbeatFires, AgentEnds, TriggerFires, RecordWorld,
             EndCycle, RunLatched, Decide, RestartRequested, Shutdown, ProcessDies, Boot, harnessVars
    <2> QED
      BY <2>2, Zenon DEF ManualRequest, RunCycle, StartCycle, RefuseCycle, Runs
  <1> QED
    BY PulseInvariant, <1>1, PTL DEF Spec, NoCycleAfterStop

=============================================================================
