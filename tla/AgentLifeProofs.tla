-------------------------- MODULE AgentLifeProofs --------------------------
(***************************************************************************)
(* The safety of one agent's life, for every resume budget and every       *)
(* number of nudges, whatever is read late and of whichever session.  Base *)
(* holds of every agent; Kept holds until a session that was let go makes  *)
(* the row live again (revived), and again once that row is restored.      *)
(***************************************************************************)
EXTENDS AgentLife, TLAPS

(* What the manager's session map and a limit park say of the two rows.    *)
ClaimPart ==
    /\ held => up /\ row \in Live /\ task \in {"running", "waiting"}
    /\ limited # "none" => up /\ row \in Live /\ task \in {"running", "waiting"}

(* A session in the map is the latest, with a process that was not told to *)
(* go.                                                                     *)
MapPart ==
    held => child = "alive" /\ st \in Live /\ (limitParked => limited # "none")

(* What a crash leaves: rows, and nothing in memory.                       *)
DeadPart ==
    /\ ~up => child = "none"
    /\ child = "none" => /\ ~held /\ limited = "none" /\ ~stalled /\ older = "none" /\ ~open
                         /\ terminal = "none" /\ ~exited /\ reaps = 0

(* An outstanding task behind a row that is not live has no process, or is *)
(* on its way down.                                                        *)
OrphanPart == up /\ ~stopping /\ Orphaned => child = "none"

(* A process that is not in the map was told to go, or is one a replaced   *)
(* session took out of the map.                                            *)
ProcessPart ==
    /\ child = "alive" /\ ~held => ~parked /\ limited = "none" /\ (st \in {"killed",
       "done"} \/ strained)
    /\ older # "alive"

(* A row that claims to be live still has its task and can be reached.     *)
ReachPart ==
    row \in Live => task \in {"running", "waiting"} /\ (up => held \/ limited # "none")

(* The clock of a stall runs on a session in use.                          *)
UsePart == stalled /\ ~stopping => held

(* Where the two marks of the rendezvous and the "reaped" may stand.       *)
ReapPart ==
    /\ held \/ limited # "none" => reaps = 0 /\ terminal = "none" /\ ~exited
    /\ exited => child = "exited" /\ reaps = 0 /\ terminal = "none"
    /\ terminal # "none" => (child = "exited" => strained) /\ (child = "alive" => reaps = 0)
    /\ reaps = 0 \/ (reaps = 1 /\ child = "exited")

(* TypeOK in three parts, for the two provers.                             *)
Flags ==
    /\ reason \in BOOLEAN /\ question \in BOOLEAN /\ up \in BOOLEAN /\ stopping \in BOOLEAN
    /\ held \in BOOLEAN /\ parked \in BOOLEAN /\ stalled \in BOOLEAN /\ exited \in BOOLEAN
    /\ limitParked \in BOOLEAN /\ open \in BOOLEAN /\ strained \in BOOLEAN /\ revived \in BOOLEAN

Values ==
    /\ row \in Live \cup Ended \cup {"interrupted", "crashed"}
    /\ task \in {"running", "waiting", "done", "failed", "interrupted"}
    /\ limited \in Limits /\ limit \in Limits
    /\ terminal \in Ended \cup {"none"}
    /\ st \in Live \cup Ended \cup {"none"}
    /\ child \in {"alive", "exited", "none"}
    /\ older \in {"alive", "open", "none"}

Counters == spent \in 0..ResumeAttempts /\ nudges \in 0..StallNudges /\ reaps \in 0..2

Typed == Flags /\ Values /\ Counters
Base  == ClaimPart /\ MapPart /\ DeadPart /\ OrphanPart /\ ClockStandsOnPark
Kept  == ProcessPart /\ ReachPart /\ UsePart /\ ReapPart
IInv  == Typed /\ Base /\ (~revived => Kept)

LEMMA TypeParts == TypeOK <=> Typed
  BY Zenon DEF TypeOK, Typed, Flags, Values, Counters

-----------------------------------------------------------------------------
(* What is read, by what it comes to: a turn is ignored, parks the agent,  *)
(* is answered at once or nudged, meets a limit or ends the work.          *)

Heard == up /\ (open \/ child = "alive" \/ older # "none")
NotRevived == revived' = FALSE => revived = FALSE /\ row \in Live

IsIgnored ==
    /\ Heard /\ parked
    /\ st' = "waiting"
    /\ UNCHANGED <<store, life, parks, ending, limit, limitParked, process, history>>

IsParked ==
    /\ Heard /\ ~parked
    /\ parked' = TRUE
    /\ row' = "waiting" /\ reason' = TRUE /\ task' = "waiting" /\ question' = TRUE
    /\ stalled' => stalled \/ limited = "none"
    /\ st' \in {st, "waiting"}
    /\ NotRevived
    /\ UNCHANGED <<spent, limited, nudges, ending, limit, limitParked, life, process, strained>>

IsAnswered ==
    /\ up /\ held
    /\ parked' = FALSE /\ limited' = "none" /\ stalled' = FALSE
    /\ st' = "running" /\ limitParked' = FALSE
    /\ row' = "running" /\ reason' = FALSE
    /\ NotRevived
    /\ UNCHANGED <<task, spent, question, nudges, limit, ending, life, process, strained>>

IsNudged ==
    /\ Heard /\ ~parked /\ ~exited
    /\ nudges < StallNudges /\ nudges' = nudges + 1
    /\ row' = "running" /\ reason' = FALSE
    /\ (st' = "running" /\ limitParked' = FALSE) \/ UNCHANGED <<st, limitParked>>
    /\ NotRevived
    /\ UNCHANGED <<task, spent, question, parked, limited, stalled, ending, limit, life, process,
                   strained>>

IsLimited ==
    /\ Heard /\ limited = "none"
    /\ limited' \in Limits \ {"none"} /\ parked' = TRUE /\ stalled' = FALSE
    /\ row' = "waiting" /\ reason' = TRUE /\ task' = "waiting"
    /\ held' = (held /\ ~exited)
    /\ exited' = FALSE /\ reaps' = reaps /\ terminal' = terminal
    /\ (st' = "waiting" /\ limitParked' = TRUE) \/ UNCHANGED <<st, limitParked>>
    /\ NotRevived
    /\ UNCHANGED <<spent, question, nudges, limit, life, process, strained>>

IsLimitedAgain ==
    /\ Heard /\ limited # "none"
    /\ st' = "waiting" /\ limitParked' = TRUE
    /\ UNCHANGED <<store, life, parks, ending, limit, process, history>>

OldSaysDone ==
    /\ up /\ older # "none"
    /\ HandleTerminal("done", exited, reaps)
    /\ strained' = TRUE
    /\ UNCHANGED <<spent, session, life, process, revived>>

(* A clock that has nothing to complete is forgotten.                      *)
ClockForgotten ==
    /\ up /\ stalled /\ stalled' = FALSE
    /\ UNCHANGED <<store, life, parked, limited, nudges, ending, session, process, history>>

Steps ==
    \/ ReadsLimit \/ SaysDone \/ IsIgnored \/ IsParked \/ IsAnswered \/ IsNudged
    \/ IsLimited \/ IsLimitedAgain \/ OldSaysDone
    \/ ChildExits \/ Drains \/ OldExits \/ OldDrains
    \/ Answer \/ Dismiss \/ ResumeParked \/ Kill \/ Complete \/ ClockForgotten
    \/ InterruptAll \/ HarnessDies \/ Boot \/ Restore \/ StandDown
    \/ UNCHANGED vars

LEMMA StallExpiresIs == StallExpires => Complete \/ ClockForgotten
  BY Zenon DEF StallExpires, ClockForgotten, Complete, HandleTerminal, store, life, parks, ending,
     session, process

LEMMA RevivalIs ==
  ASSUME Flags, NotesRevival, row' = "running" \/ row' = "waiting"
  PROVE  NotRevived
  BY Zenon DEF Flags, NotesRevival, NotRevived, Live

LEMMA RowStands ==
  ASSUME Flags, NotesRevival, row' = row
  PROVE  revived' = revived
  BY Zenon DEF Flags, NotesRevival

LEMMA StepIs ==
  ASSUME Typed, ClaimPart, [Next]_vars
  PROVE  Steps
  <1> USE DEF Typed, Values, Speaks, Heard, store, life, history, parks, ending, session, process
  <1> DEFINE Rest == UNCHANGED <<life, process, strained>>
  <1>1. TurnMeetsLimit => IsLimited \/ IsLimitedAgain
    <2> SUFFICES ASSUME TurnMeetsLimit PROVE IsLimited \/ IsLimitedAgain
      OBVIOUS
    <2> USE DEF TurnMeetsLimit
    <2>1. CASE limited = "none"
      <3>1. HandleLimited(limit, exited, reaps)
        BY <2>1, Zenon
      <3>2. NotRevived
        BY <3>1, RevivalIs, Zenon DEF HandleLimited
      <3> QED
        BY <2>1, <3>1, <3>2, Zenon DEF HandleLimited, IsLimited
    <2>2. CASE limited # "none"
      <3>1. row' = row
        BY <2>2, Zenon
      <3>2. revived' = revived
        BY <3>1, RowStands, Zenon
      <3> QED
        BY <2>2, <3>2, Zenon DEF IsLimitedAgain
    <2> QED
      BY <2>1, <2>2, Zenon
  <1>2. ASSUME NEW status \in {st, "waiting"}, NEW clock \in BOOLEAN, Heard, ~parked,
               HandleWaiting(status, clock), NotesRevival, Rest
        PROVE  IsParked \/ IsAnswered
    <2> USE DEF HandleWaiting, Respond
    <2>1. NotRevived
      BY <1>2, RevivalIs, Zenon
    <2> QED
      BY <1>2, <2>1, Zenon DEF Clear, IsParked, IsAnswered
  <1>3. ASSUME NEW clock \in BOOLEAN, PausingTurn, TurnPauses(clock), NotesRevival, Rest
        PROVE  IsIgnored \/ IsParked \/ IsAnswered
    <2>1. CASE ~parked /\ HandleWaiting("waiting", clock)
      BY <1>2, <1>3, <2>1, Zenon DEF PausingTurn
    <2>2. CASE parked /\ st' = "waiting" /\ UNCHANGED <<store, parks, ending, limit, limitParked>>
      <3>1. revived' = revived
        BY <1>3, <2>2, RowStands, Zenon
      <3> QED
        BY <1>3, <2>2, <3>1, Zenon DEF PausingTurn, IsIgnored
    <2> QED
      BY <1>3, <2>1, <2>2, Zenon DEF TurnPauses
  <1>4. ASSUME PausingTurn, Nudge, NotesRevival, Rest
        PROVE  IsNudged
    <2>1. NotRevived
      BY <1>4, RevivalIs, Zenon DEF Nudge
    <2> QED
      BY <1>4, <2>1, Zenon DEF PausingTurn, Nudge, IsNudged
  <1>5. AskTool => IsParked \/ IsAnswered
    BY Zenon DEF AskTool, HandleWaiting, Respond, Clear, ClaimPart, NotRevived, IsParked, IsAnswered
  <1>6. GoesSilent => IsParked \/ IsAnswered
    BY <1>2, Zenon DEF GoesSilent
  <1>7. OldTurn => OldSaysDone \/ IsLimited \/ IsParked \/ IsAnswered \/ IsNudged
    <2> SUFFICES ASSUME OldTurn PROVE OldSaysDone \/ IsLimited \/ IsParked \/ IsAnswered \/ IsNudged
      OBVIOUS
    <2> USE DEF OldTurn
    <2>1. CASE HandleTerminal("done", exited, reaps) /\ strained' = TRUE /\ UNCHANGED <<spent,
       session>>
      <3>1. revived' = revived
        BY <2>1, SMT DEF HandleTerminal, NotesRevival, Flags, Live
      <3> QED
        BY <2>1, <3>1, Zenon DEF OldSaysDone
    <2>2. ASSUME NEW park \in Limits \ {"none"}, limited = "none", HandleLimited(park, exited,
       reaps),
                 UNCHANGED <<terminal, session, strained>>
          PROVE  IsLimited
      <3>1. NotRevived
        BY <2>2, RevivalIs, Zenon DEF HandleLimited
      <3> QED
        BY <2>2, <3>1, Zenon DEF HandleLimited, IsLimited
    <2>3. ASSUME NEW clock \in BOOLEAN, ~parked, HandleWaiting(st, clock), UNCHANGED strained
          PROVE  IsParked \/ IsAnswered
      BY <1>2, <2>3, Zenon
    <2>4. ASSUME ~parked, nudges < StallNudges, ~exited, nudges' = nudges + 1,
                 row' = "running", reason' = FALSE,
                 UNCHANGED <<task, spent, question, parked, limited, stalled, ending, session,
                 strained>>
          PROVE  IsNudged
      <3>1. NotRevived
        BY <2>4, RevivalIs, Zenon
      <3> QED
        BY <2>4, <3>1, Zenon DEF IsNudged
    <2> QED
      BY <2>1, <2>2, <2>3, <2>4, Zenon
  <1> QED
    BY <1>1, <1>3, <1>4, <1>5, <1>6, <1>7, StallExpiresIs, Zenon
       DEF Next, Steps, TurnAsks, TurnStops, vars


(* Every step keeps the flags boolean.                                     *)
LEMMA FlagsNext ==
  ASSUME Flags, [Next]_vars
  PROVE  Flags'
  <1> USE DEF Flags, store, life, parks, ending, session, process, history
  <1>1. CASE ReadsLimit
    BY <1>1, Zenon DEF ReadsLimit, Speaks
  <1>2. CASE SaysDone
    BY <1>2, Zenon DEF SaysDone, Speaks, HandleTerminal, Forget, Rendezvous, Again
  <1>3. CASE TurnMeetsLimit
    BY <1>3, Zenon DEF TurnMeetsLimit, Speaks, HandleLimited, NotesRevival
  <1>4. CASE TurnAsks
    BY <1>4, Zenon DEF TurnAsks, Speaks, PausingTurn, TurnPauses, HandleWaiting, Respond, Clear,
       NotesRevival
  <1>5. CASE TurnStops
    BY <1>5, Zenon DEF TurnStops, Speaks, PausingTurn, TurnPauses, HandleWaiting, Respond, Clear,
       Nudge, NotesRevival
  <1>6. CASE AskTool
    BY <1>6, Zenon DEF AskTool, HandleWaiting, Respond, Clear
  <1>7. CASE GoesSilent
    BY <1>7, Zenon DEF GoesSilent, HandleWaiting, Respond, Clear, NotesRevival
  <1>8. CASE ChildExits /\ ExitIsAwaited
    BY <1>8, Zenon DEF ChildExits, ExitIsAwaited, Rendezvous, Again, NotesRevival
  <1>9. CASE ChildExits /\ ExitUnderPark
    BY <1>9, Zenon DEF ChildExits, ExitUnderPark, HandleTerminal, Forget, Rendezvous, Again,
       NotesRevival
  <1>10. CASE ChildExits /\ ExitParks
    BY <1>10, Zenon DEF ChildExits, ExitParks, HandleLimited, AfterExit, Rendezvous, Again,
       NotesRevival
  <1>11. CASE ChildExits /\ ExitSettles
    BY <1>11, Zenon DEF ChildExits, ExitSettles, HandleTerminal, Forget, Rendezvous, Again,
       AfterExit, Reopens, Reopen, ReopenThrows, Launch, CarryOn, NotesRevival
  <1>12. CASE Drains
    BY <1>12, Zenon DEF Drains
  <1>13. CASE OldTurn
    BY <1>13, Zenon DEF OldTurn, HandleTerminal, Forget, Rendezvous, Again, HandleLimited,
       HandleWaiting, Respond, Clear, NotesRevival
  <1>14. CASE OldExits
    BY <1>14, Zenon DEF OldExits, HandleTerminal, Forget, Rendezvous, Again, AfterExit,
       HandleLimited, NotesRevival
  <1>15. CASE OldDrains
    BY <1>15, Zenon DEF OldDrains
  <1>16. CASE Answer
    BY <1>16, Zenon DEF Answer, Respond, Clear
  <1>17. CASE Dismiss
    BY <1>17, Zenon DEF Dismiss
  <1>18. CASE ResumeParked
    BY <1>18, Zenon DEF ResumeParked, Clear, Launch
  <1>19. CASE Kill
    BY <1>19, Zenon DEF Kill, Clear, Rendezvous, Again
  <1>20. CASE Complete
    BY <1>20, Zenon DEF Complete, HandleTerminal, Forget, Rendezvous, Again
  <1>21. CASE ClockForgotten
    BY <1>21, Zenon DEF ClockForgotten
  <1>22. CASE InterruptAll
    BY <1>22, Zenon DEF InterruptAll
  <1>23. CASE HarnessDies
    BY <1>23, Zenon DEF HarnessDies, Forget
  <1>24. CASE Boot
    BY <1>24, Zenon DEF Boot, Outstanding
  <1>25. CASE Restore
    BY <1>25, Zenon DEF Restore, Orphaned, Outstanding, CarryOn, Launch
  <1>26. CASE StandDown
    BY <1>26, Zenon DEF StandDown, Orphaned, Outstanding
  <1>27. CASE UNCHANGED vars
    BY <1>27, Zenon DEF vars
  <1> QED
    BY <1>1, <1>2, <1>3, <1>4, <1>5, <1>6, <1>7, <1>8, <1>9, <1>10, <1>11, <1>12, <1>13, <1>14,
       <1>15, <1>16, <1>17, <1>18, <1>19, <1>20, <1>21, <1>22, <1>23, <1>24, <1>25, <1>26, <1>27,
          StallExpiresIs, Zenon DEF Next, ChildExits

(* Every step keeps the statuses among those of their fields.              *)
LEMMA ValuesNext ==
  ASSUME Typed, Base, [Next]_vars
  PROVE  Values'
  <1> USE DEF Typed, Flags, Values, Limits, Live, Ended, Base, store, life, parks, ending,
     session, process, history
  <1>1. CASE ReadsLimit
    BY <1>1, SMT DEF ReadsLimit, Speaks
  <1>2. CASE SaysDone
    BY <1>2, SMT DEF SaysDone, Speaks, HandleTerminal, Forget, Rendezvous, Again
  <1>3. CASE IsIgnored
    BY <1>3, SMT DEF IsIgnored, Heard
  <1>4. CASE IsParked
    BY <1>4, SMT DEF IsParked, Heard, NotRevived
  <1>5. CASE IsAnswered
    BY <1>5, SMT DEF IsAnswered, NotRevived
  <1>6. CASE IsNudged
    BY <1>6, SMT DEF IsNudged, Heard, NotRevived
  <1>7. CASE IsLimited
    BY <1>7, SMT DEF IsLimited, Heard, NotRevived
  <1>8. CASE IsLimitedAgain
    BY <1>8, SMT DEF IsLimitedAgain, Heard
  <1>9. CASE OldSaysDone
    BY <1>9, SMT DEF OldSaysDone, HandleTerminal, Forget, Rendezvous, Again
  <1>10. CASE ChildExits /\ ExitIsAwaited
    BY <1>10, SMT DEF ChildExits, ExitIsAwaited, Rendezvous, Again, NotesRevival
  <1>11. CASE ChildExits /\ ExitUnderPark
    BY <1>11, SMT DEF ChildExits, ExitUnderPark, HandleTerminal, Forget, Rendezvous, Again,
       NotesRevival
  <1>12. CASE ChildExits /\ ExitParks
    BY <1>12, SMT DEF ChildExits, ExitParks, HandleLimited, AfterExit, Rendezvous, Again,
       NotesRevival
  <1>13. CASE ChildExits /\ ExitSettles
    BY <1>13, SMT DEF ChildExits, ExitSettles, HandleTerminal, Forget, Rendezvous, Again,
       AfterExit, Reopens, Reopen, ReopenThrows, Launch, CarryOn, NotesRevival
  <1>14. CASE Drains
    BY <1>14, SMT DEF Drains
  <1>15. CASE OldExits
    BY <1>15, SMT DEF OldExits, HandleTerminal, Forget, Rendezvous, Again, AfterExit,
       HandleLimited, NotesRevival
  <1>16. CASE OldDrains
    BY <1>16, SMT DEF OldDrains
  <1>17. CASE Answer
    BY <1>17, SMT DEF Answer, Respond, Clear
  <1>18. CASE Dismiss
    BY <1>18, SMT DEF Dismiss
  <1>19. CASE ResumeParked
    BY <1>19, SMT DEF ResumeParked, Clear, Launch
  <1>20. CASE Kill
    BY <1>20, SMT DEF Kill, Clear, Rendezvous, Again
  <1>21. CASE Complete
    BY <1>21, SMT DEF Complete, HandleTerminal, Forget, Rendezvous, Again
  <1>22. CASE ClockForgotten
    BY <1>22, SMT DEF ClockForgotten
  <1>23. CASE InterruptAll
    BY <1>23, SMT DEF InterruptAll
  <1>24. CASE HarnessDies
    BY <1>24, SMT DEF HarnessDies, Forget
  <1>25. CASE Boot
    BY <1>25, SMT DEF Boot, Outstanding
  <1>26. CASE Restore
    BY <1>26, SMT DEF Restore, Orphaned, Outstanding, CarryOn, Launch
  <1>27. CASE StandDown
    BY <1>27, SMT DEF StandDown, Orphaned, Outstanding
  <1>28. CASE UNCHANGED vars
    BY <1>28, SMT DEF vars
  <1> QED
    BY <1>1, <1>2, <1>3, <1>4, <1>5, <1>6, <1>7, <1>8, <1>9, <1>10, <1>11, <1>12, <1>13, <1>14,
       <1>15, <1>16, <1>17, <1>18, <1>19, <1>20, <1>21, <1>22, <1>23, <1>24, <1>25, <1>26, <1>27,
          <1>28, StepIs, Zenon DEF Steps, ChildExits, ClaimPart

(* Every step keeps the budgets; the resume budget is asked before it is   *)
(* spent, and a nudge before it is sent.                                   *)
LEMMA CountersNext ==
  ASSUME Typed, Base, [Next]_vars
  PROVE  Counters'
  <1> USE DEF Typed, Flags, Counters, store, life, parks, ending, session, process, history
  <1>1. CASE ReadsLimit
    BY <1>1, ResumeAttemptsAssumption, StallNudgesAssumption, SMT DEF ReadsLimit, Speaks
  <1>2. CASE SaysDone
    BY <1>2, ResumeAttemptsAssumption, StallNudgesAssumption, SMT DEF SaysDone, Speaks,
       HandleTerminal, Forget, Rendezvous, Again
  <1>3. CASE IsIgnored
    BY <1>3, ResumeAttemptsAssumption, StallNudgesAssumption, SMT DEF IsIgnored, Heard
  <1>4. CASE IsParked
    BY <1>4, ResumeAttemptsAssumption, StallNudgesAssumption, SMT DEF IsParked, Heard, NotRevived
  <1>5. CASE IsAnswered
    BY <1>5, ResumeAttemptsAssumption, StallNudgesAssumption, SMT DEF IsAnswered, NotRevived
  <1>6. CASE IsNudged
    BY <1>6, ResumeAttemptsAssumption, StallNudgesAssumption, SMT DEF IsNudged, Heard, NotRevived
  <1>7. CASE IsLimited
    BY <1>7, ResumeAttemptsAssumption, StallNudgesAssumption, SMT DEF IsLimited, Heard, NotRevived
  <1>8. CASE IsLimitedAgain
    BY <1>8, ResumeAttemptsAssumption, StallNudgesAssumption, SMT DEF IsLimitedAgain, Heard
  <1>9. CASE OldSaysDone
    BY <1>9, ResumeAttemptsAssumption, StallNudgesAssumption, SMT DEF OldSaysDone, HandleTerminal,
       Forget, Rendezvous, Again
  <1>10. CASE ChildExits /\ ExitIsAwaited
    BY <1>10, ResumeAttemptsAssumption, StallNudgesAssumption, SMT DEF ChildExits, ExitIsAwaited,
       Rendezvous, Again, NotesRevival
  <1>11. CASE ChildExits /\ ExitUnderPark
    BY <1>11, ResumeAttemptsAssumption, StallNudgesAssumption, SMT DEF ChildExits, ExitUnderPark,
       HandleTerminal, Forget, Rendezvous, Again, NotesRevival
  <1>12. CASE ChildExits /\ ExitParks
    BY <1>12, ResumeAttemptsAssumption, StallNudgesAssumption, SMT DEF ChildExits, ExitParks,
       HandleLimited, AfterExit, Rendezvous, Again, NotesRevival
  <1>13. CASE ChildExits /\ ExitSettles
    BY <1>13, ResumeAttemptsAssumption, StallNudgesAssumption, SMT DEF ChildExits, ExitSettles,
       HandleTerminal, Forget, Rendezvous, Again, AfterExit, Reopens, Reopen, ReopenThrows,
          Launch, CarryOn, NotesRevival
  <1>14. CASE Drains
    BY <1>14, ResumeAttemptsAssumption, StallNudgesAssumption, SMT DEF Drains
  <1>15. CASE OldExits
    BY <1>15, ResumeAttemptsAssumption, StallNudgesAssumption, SMT DEF OldExits, HandleTerminal,
       Forget, Rendezvous, Again, AfterExit, HandleLimited, NotesRevival
  <1>16. CASE OldDrains
    BY <1>16, ResumeAttemptsAssumption, StallNudgesAssumption, SMT DEF OldDrains
  <1>17. CASE Answer
    BY <1>17, ResumeAttemptsAssumption, StallNudgesAssumption, SMT DEF Answer, Respond, Clear
  <1>18. CASE Dismiss
    BY <1>18, ResumeAttemptsAssumption, StallNudgesAssumption, SMT DEF Dismiss
  <1>19. CASE ResumeParked
    BY <1>19, ResumeAttemptsAssumption, StallNudgesAssumption, SMT DEF ResumeParked, Clear, Launch
  <1>20. CASE Kill
    BY <1>20, ResumeAttemptsAssumption, StallNudgesAssumption, SMT DEF Kill, Clear, Rendezvous,
       Again
  <1>21. CASE Complete
    BY <1>21, ResumeAttemptsAssumption, StallNudgesAssumption, SMT DEF Complete, HandleTerminal,
       Forget, Rendezvous, Again
  <1>22. CASE ClockForgotten
    BY <1>22, ResumeAttemptsAssumption, StallNudgesAssumption, SMT DEF ClockForgotten
  <1>23. CASE InterruptAll
    BY <1>23, ResumeAttemptsAssumption, StallNudgesAssumption, SMT DEF InterruptAll
  <1>24. CASE HarnessDies
    BY <1>24, ResumeAttemptsAssumption, StallNudgesAssumption, SMT DEF HarnessDies, Forget
  <1>25. CASE Boot
    BY <1>25, ResumeAttemptsAssumption, StallNudgesAssumption, SMT DEF Boot, Outstanding
  <1>26. CASE Restore
    BY <1>26, ResumeAttemptsAssumption, StallNudgesAssumption, SMT DEF Restore, Orphaned,
       Outstanding, CarryOn, Launch
  <1>27. CASE StandDown
    BY <1>27, ResumeAttemptsAssumption, StallNudgesAssumption, SMT DEF StandDown, Orphaned,
       Outstanding
  <1>28. CASE UNCHANGED vars
    BY <1>28, ResumeAttemptsAssumption, StallNudgesAssumption, SMT DEF vars
  <1> QED
    BY <1>1, <1>2, <1>3, <1>4, <1>5, <1>6, <1>7, <1>8, <1>9, <1>10, <1>11, <1>12, <1>13, <1>14,
       <1>15, <1>16, <1>17, <1>18, <1>19, <1>20, <1>21, <1>22, <1>23, <1>24, <1>25, <1>26, <1>27,
          <1>28, StepIs, Zenon DEF Steps, ChildExits, Base, ClaimPart

(* Claims are kept whatever is read late: a session or a park is let go in *)
(* the step that ends its row.                                             *)
LEMMA ClaimNext ==
  ASSUME Typed, Base, [Next]_vars
  PROVE  ClaimPart'
  <1> USE DEF Typed, Flags, Values, Limits, Live, Ended, Base, ClaimPart, DeadPart, store, life,
     parks, ending, session, process, history
  <1>1. CASE ReadsLimit
    BY <1>1 DEF ReadsLimit, Speaks
  <1>2. CASE SaysDone
    BY <1>2 DEF SaysDone, Speaks, HandleTerminal, Forget, Rendezvous, Again
  <1>3. CASE IsIgnored
    BY <1>3 DEF IsIgnored, Heard
  <1>4. CASE IsParked
    BY <1>4 DEF IsParked, Heard, NotRevived
  <1>5. CASE IsAnswered
    BY <1>5 DEF IsAnswered, NotRevived
  <1>6. CASE IsNudged
    BY <1>6 DEF IsNudged, Heard, NotRevived
  <1>7. CASE IsLimited
    BY <1>7 DEF IsLimited, Heard, NotRevived
  <1>8. CASE IsLimitedAgain
    BY <1>8 DEF IsLimitedAgain, Heard
  <1>9. CASE OldSaysDone
    BY <1>9 DEF OldSaysDone, HandleTerminal, Forget, Rendezvous, Again
  <1>10. CASE ChildExits /\ ExitIsAwaited
    BY <1>10 DEF ChildExits, ExitIsAwaited, Rendezvous, Again, NotesRevival
  <1>11. CASE ChildExits /\ ExitUnderPark
    BY <1>11 DEF ChildExits, ExitUnderPark, HandleTerminal, Forget, Rendezvous, Again, NotesRevival
  <1>12. CASE ChildExits /\ ExitParks
    BY <1>12 DEF ChildExits, ExitParks, HandleLimited, AfterExit, Rendezvous, Again, NotesRevival
  <1>13. CASE ChildExits /\ ExitSettles
    BY <1>13 DEF ChildExits, ExitSettles, HandleTerminal, Forget, Rendezvous, Again, AfterExit,
       Reopens, Reopen, ReopenThrows, Launch, CarryOn, NotesRevival
  <1>14. CASE Drains
    BY <1>14 DEF Drains
  <1>15. CASE OldExits
    BY <1>15 DEF OldExits, HandleTerminal, Forget, Rendezvous, Again, AfterExit, HandleLimited,
       NotesRevival
  <1>16. CASE OldDrains
    BY <1>16 DEF OldDrains
  <1>17. CASE Answer
    BY <1>17 DEF Answer, Respond, Clear
  <1>18. CASE Dismiss
    BY <1>18 DEF Dismiss
  <1>19. CASE ResumeParked
    BY <1>19 DEF ResumeParked, Clear, Launch
  <1>20. CASE Kill
    BY <1>20 DEF Kill, Clear, Rendezvous, Again
  <1>21. CASE Complete
    BY <1>21 DEF Complete, HandleTerminal, Forget, Rendezvous, Again
  <1>22. CASE ClockForgotten
    BY <1>22 DEF ClockForgotten
  <1>23. CASE InterruptAll
    BY <1>23 DEF InterruptAll
  <1>24. CASE HarnessDies
    BY <1>24 DEF HarnessDies, Forget
  <1>25. CASE Boot
    BY <1>25 DEF Boot, Outstanding
  <1>26. CASE Restore
    BY <1>26 DEF Restore, Orphaned, Outstanding, CarryOn, Launch
  <1>27. CASE StandDown
    BY <1>27 DEF StandDown, Orphaned, Outstanding
  <1>28. CASE UNCHANGED vars
    BY <1>28 DEF vars
  <1> QED
    BY <1>1, <1>2, <1>3, <1>4, <1>5, <1>6, <1>7, <1>8, <1>9, <1>10, <1>11, <1>12, <1>13, <1>14,
       <1>15, <1>16, <1>17, <1>18, <1>19, <1>20, <1>21, <1>22, <1>23, <1>24, <1>25, <1>26, <1>27,
          <1>28, StepIs, Zenon DEF Steps, ChildExits

(* A session leaves the map in the step that ends its process.             *)
LEMMA MapNext ==
  ASSUME Typed, Base, [Next]_vars
  PROVE  MapPart'
  <1> USE DEF Typed, Flags, Values, Limits, Live, Ended, Base, ClaimPart, MapPart, store, life,
     parks, ending, session, process, history
  <1>1. CASE ReadsLimit
    BY <1>1 DEF ReadsLimit, Speaks
  <1>2. CASE SaysDone
    BY <1>2 DEF SaysDone, Speaks, HandleTerminal, Forget, Rendezvous, Again
  <1>3. CASE IsIgnored
    BY <1>3 DEF IsIgnored, Heard
  <1>4. CASE IsParked
    BY <1>4 DEF IsParked, Heard, NotRevived
  <1>5. CASE IsAnswered
    BY <1>5 DEF IsAnswered, NotRevived
  <1>6. CASE IsNudged
    BY <1>6 DEF IsNudged, Heard, NotRevived
  <1>7. CASE IsLimited
    BY <1>7 DEF IsLimited, Heard, NotRevived
  <1>8. CASE IsLimitedAgain
    BY <1>8 DEF IsLimitedAgain, Heard
  <1>9. CASE OldSaysDone
    BY <1>9 DEF OldSaysDone, HandleTerminal, Forget, Rendezvous, Again
  <1>10. CASE ChildExits /\ ExitIsAwaited
    BY <1>10 DEF ChildExits, ExitIsAwaited, Rendezvous, Again, NotesRevival
  <1>11. CASE ChildExits /\ ExitUnderPark
    BY <1>11 DEF ChildExits, ExitUnderPark, HandleTerminal, Forget, Rendezvous, Again, NotesRevival
  <1>12. CASE ChildExits /\ ExitParks
    BY <1>12 DEF ChildExits, ExitParks, HandleLimited, AfterExit, Rendezvous, Again, NotesRevival
  <1>13. CASE ChildExits /\ ExitSettles
    BY <1>13 DEF ChildExits, ExitSettles, HandleTerminal, Forget, Rendezvous, Again, AfterExit,
       Reopens, Reopen, ReopenThrows, Launch, CarryOn, NotesRevival
  <1>14. CASE Drains
    BY <1>14 DEF Drains
  <1>15. CASE OldExits
    BY <1>15 DEF OldExits, HandleTerminal, Forget, Rendezvous, Again, AfterExit, HandleLimited,
       NotesRevival
  <1>16. CASE OldDrains
    BY <1>16 DEF OldDrains
  <1>17. CASE Answer
    BY <1>17 DEF Answer, Respond, Clear
  <1>18. CASE Dismiss
    BY <1>18 DEF Dismiss
  <1>19. CASE ResumeParked
    BY <1>19 DEF ResumeParked, Clear, Launch
  <1>20. CASE Kill
    BY <1>20 DEF Kill, Clear, Rendezvous, Again
  <1>21. CASE Complete
    BY <1>21 DEF Complete, HandleTerminal, Forget, Rendezvous, Again
  <1>22. CASE ClockForgotten
    BY <1>22 DEF ClockForgotten
  <1>23. CASE InterruptAll
    BY <1>23 DEF InterruptAll
  <1>24. CASE HarnessDies
    BY <1>24 DEF HarnessDies, Forget
  <1>25. CASE Boot
    BY <1>25 DEF Boot, Outstanding
  <1>26. CASE Restore
    BY <1>26 DEF Restore, Orphaned, Outstanding, CarryOn, Launch
  <1>27. CASE StandDown
    BY <1>27 DEF StandDown, Orphaned, Outstanding
  <1>28. CASE UNCHANGED vars
    BY <1>28 DEF vars
  <1> QED
    BY <1>1, <1>2, <1>3, <1>4, <1>5, <1>6, <1>7, <1>8, <1>9, <1>10, <1>11, <1>12, <1>13, <1>14,
       <1>15, <1>16, <1>17, <1>18, <1>19, <1>20, <1>21, <1>22, <1>23, <1>24, <1>25, <1>26, <1>27,
          <1>28, StepIs, Zenon DEF Steps, ChildExits

(* A crash clears the memory, and nothing fills it before the next launch. *)
LEMMA DeadNext ==
  ASSUME Typed, Base, [Next]_vars
  PROVE  DeadPart'
  <1> USE DEF Typed, Flags, Values, Limits, Live, Ended, Base, ClaimPart, MapPart, DeadPart,
     store, life, parks, ending, session, process, history
  <1>1. CASE ReadsLimit
    BY <1>1 DEF ReadsLimit, Speaks
  <1>2. CASE SaysDone
    BY <1>2 DEF SaysDone, Speaks, HandleTerminal, Forget, Rendezvous, Again
  <1>3. CASE IsIgnored
    BY <1>3 DEF IsIgnored, Heard
  <1>4. CASE IsParked
    BY <1>4 DEF IsParked, Heard, NotRevived
  <1>5. CASE IsAnswered
    BY <1>5 DEF IsAnswered, NotRevived
  <1>6. CASE IsNudged
    BY <1>6 DEF IsNudged, Heard, NotRevived
  <1>7. CASE IsLimited
    BY <1>7 DEF IsLimited, Heard, NotRevived
  <1>8. CASE IsLimitedAgain
    BY <1>8 DEF IsLimitedAgain, Heard
  <1>9. CASE OldSaysDone
    BY <1>9 DEF OldSaysDone, HandleTerminal, Forget, Rendezvous, Again
  <1>10. CASE ChildExits /\ ExitIsAwaited
    BY <1>10 DEF ChildExits, ExitIsAwaited, Rendezvous, Again, NotesRevival
  <1>11. CASE ChildExits /\ ExitUnderPark
    BY <1>11 DEF ChildExits, ExitUnderPark, HandleTerminal, Forget, Rendezvous, Again, NotesRevival
  <1>12. CASE ChildExits /\ ExitParks
    BY <1>12 DEF ChildExits, ExitParks, HandleLimited, AfterExit, Rendezvous, Again, NotesRevival
  <1>13. CASE ChildExits /\ ExitSettles
    BY <1>13 DEF ChildExits, ExitSettles, HandleTerminal, Forget, Rendezvous, Again, AfterExit,
       Reopens, Reopen, ReopenThrows, Launch, CarryOn, NotesRevival
  <1>14. CASE Drains
    BY <1>14 DEF Drains
  <1>15. CASE OldExits
    BY <1>15 DEF OldExits, HandleTerminal, Forget, Rendezvous, Again, AfterExit, HandleLimited,
       NotesRevival
  <1>16. CASE OldDrains
    BY <1>16 DEF OldDrains
  <1>17. CASE Answer
    BY <1>17 DEF Answer, Respond, Clear
  <1>18. CASE Dismiss
    BY <1>18 DEF Dismiss
  <1>19. CASE ResumeParked
    BY <1>19 DEF ResumeParked, Clear, Launch
  <1>20. CASE Kill
    BY <1>20 DEF Kill, Clear, Rendezvous, Again
  <1>21. CASE Complete
    BY <1>21 DEF Complete, HandleTerminal, Forget, Rendezvous, Again
  <1>22. CASE ClockForgotten
    BY <1>22 DEF ClockForgotten
  <1>23. CASE InterruptAll
    BY <1>23 DEF InterruptAll
  <1>24. CASE HarnessDies
    BY <1>24 DEF HarnessDies, Forget
  <1>25. CASE Boot
    BY <1>25 DEF Boot, Outstanding
  <1>26. CASE Restore
    BY <1>26 DEF Restore, Orphaned, Outstanding, CarryOn, Launch
  <1>27. CASE StandDown
    BY <1>27 DEF StandDown, Orphaned, Outstanding
  <1>28. CASE UNCHANGED vars
    BY <1>28 DEF vars
  <1> QED
    BY <1>1, <1>2, <1>3, <1>4, <1>5, <1>6, <1>7, <1>8, <1>9, <1>10, <1>11, <1>12, <1>13, <1>14,
       <1>15, <1>16, <1>17, <1>18, <1>19, <1>20, <1>21, <1>22, <1>23, <1>24, <1>25, <1>26, <1>27,
          <1>28, StepIs, Zenon DEF Steps, ChildExits

(* Rows are orphaned on the way down, or when nothing is up.               *)
LEMMA OrphanNext ==
  ASSUME Typed, Base, [Next]_vars
  PROVE  OrphanPart'
  <1> USE DEF Typed, Flags, Values, Limits, Live, Ended, Base, ClaimPart, MapPart, DeadPart,
     OrphanPart, Orphaned, Outstanding, store, life, parks, ending, session, process, history
  <1>1. CASE ReadsLimit
    BY <1>1 DEF ReadsLimit, Speaks
  <1>2. CASE SaysDone
    BY <1>2 DEF SaysDone, Speaks, HandleTerminal, Forget, Rendezvous, Again
  <1>3. CASE IsIgnored
    BY <1>3 DEF IsIgnored, Heard
  <1>4. CASE IsParked
    BY <1>4 DEF IsParked, Heard, NotRevived
  <1>5. CASE IsAnswered
    BY <1>5 DEF IsAnswered, NotRevived
  <1>6. CASE IsNudged
    BY <1>6 DEF IsNudged, Heard, NotRevived
  <1>7. CASE IsLimited
    BY <1>7 DEF IsLimited, Heard, NotRevived
  <1>8. CASE IsLimitedAgain
    BY <1>8 DEF IsLimitedAgain, Heard
  <1>9. CASE OldSaysDone
    BY <1>9 DEF OldSaysDone, HandleTerminal, Forget, Rendezvous, Again
  <1>10. CASE ChildExits /\ ExitIsAwaited
    BY <1>10 DEF ChildExits, ExitIsAwaited, Rendezvous, Again, NotesRevival
  <1>11. CASE ChildExits /\ ExitUnderPark
    BY <1>11 DEF ChildExits, ExitUnderPark, HandleTerminal, Forget, Rendezvous, Again, NotesRevival
  <1>12. CASE ChildExits /\ ExitParks
    BY <1>12 DEF ChildExits, ExitParks, HandleLimited, AfterExit, Rendezvous, Again, NotesRevival
  <1>13. CASE ChildExits /\ ExitSettles
    BY <1>13 DEF ChildExits, ExitSettles, HandleTerminal, Forget, Rendezvous, Again, AfterExit,
       Reopens, Reopen, ReopenThrows, Launch, CarryOn, NotesRevival
  <1>14. CASE Drains
    BY <1>14 DEF Drains
  <1>15. CASE OldExits
    BY <1>15 DEF OldExits, HandleTerminal, Forget, Rendezvous, Again, AfterExit, HandleLimited,
       NotesRevival
  <1>16. CASE OldDrains
    BY <1>16 DEF OldDrains
  <1>17. CASE Answer
    BY <1>17 DEF Answer, Respond, Clear
  <1>18. CASE Dismiss
    BY <1>18 DEF Dismiss
  <1>19. CASE ResumeParked
    BY <1>19 DEF ResumeParked, Clear, Launch
  <1>20. CASE Kill
    BY <1>20 DEF Kill, Clear, Rendezvous, Again
  <1>21. CASE Complete
    BY <1>21 DEF Complete, HandleTerminal, Forget, Rendezvous, Again
  <1>22. CASE ClockForgotten
    BY <1>22 DEF ClockForgotten
  <1>23. CASE InterruptAll
    BY <1>23 DEF InterruptAll
  <1>24. CASE HarnessDies
    BY <1>24 DEF HarnessDies, Forget
  <1>25. CASE Boot
    BY <1>25 DEF Boot
  <1>26. CASE Restore
    BY <1>26 DEF Restore, CarryOn, Launch
  <1>27. CASE StandDown
    BY <1>27 DEF StandDown
  <1>28. CASE UNCHANGED vars
    BY <1>28 DEF vars
  <1> QED
    BY <1>1, <1>2, <1>3, <1>4, <1>5, <1>6, <1>7, <1>8, <1>9, <1>10, <1>11, <1>12, <1>13, <1>14,
       <1>15, <1>16, <1>17, <1>18, <1>19, <1>20, <1>21, <1>22, <1>23, <1>24, <1>25, <1>26, <1>27,
          <1>28, StepIs, Zenon DEF Steps, ChildExits

(* The clock goes with the latch and with the limit, whoever parks.        *)
LEMMA ClockNext ==
  ASSUME Typed, Base, [Next]_vars
  PROVE  ClockStandsOnPark'
  <1> USE DEF Typed, Flags, Values, Limits, Live, Ended, Base, DeadPart, ClockStandsOnPark, store,
     life, parks, ending, session, process, history
  <1>1. CASE ReadsLimit
    BY <1>1 DEF ReadsLimit, Speaks
  <1>2. CASE SaysDone
    BY <1>2 DEF SaysDone, Speaks, HandleTerminal, Forget, Rendezvous, Again
  <1>3. CASE IsIgnored
    BY <1>3 DEF IsIgnored, Heard
  <1>4. CASE IsParked
    BY <1>4 DEF IsParked, Heard, NotRevived
  <1>5. CASE IsAnswered
    BY <1>5 DEF IsAnswered, NotRevived
  <1>6. CASE IsNudged
    BY <1>6 DEF IsNudged, Heard, NotRevived
  <1>7. CASE IsLimited
    BY <1>7 DEF IsLimited, Heard, NotRevived
  <1>8. CASE IsLimitedAgain
    BY <1>8 DEF IsLimitedAgain, Heard
  <1>9. CASE OldSaysDone
    BY <1>9 DEF OldSaysDone, HandleTerminal, Forget, Rendezvous, Again
  <1>10. CASE ChildExits /\ ExitIsAwaited
    BY <1>10 DEF ChildExits, ExitIsAwaited, Rendezvous, Again, NotesRevival
  <1>11. CASE ChildExits /\ ExitUnderPark
    BY <1>11 DEF ChildExits, ExitUnderPark, HandleTerminal, Forget, Rendezvous, Again, NotesRevival
  <1>12. CASE ChildExits /\ ExitParks
    BY <1>12 DEF ChildExits, ExitParks, HandleLimited, AfterExit, Rendezvous, Again, NotesRevival
  <1>13. CASE ChildExits /\ ExitSettles
    BY <1>13 DEF ChildExits, ExitSettles, HandleTerminal, Forget, Rendezvous, Again, AfterExit,
       Reopens, Reopen, ReopenThrows, Launch, CarryOn, NotesRevival
  <1>14. CASE Drains
    BY <1>14 DEF Drains
  <1>15. CASE OldExits
    <2>1. stalled' = FALSE \/ UNCHANGED parks
      BY <1>15 DEF OldExits, HandleTerminal, Forget, HandleLimited
    <2>2. stopping' = stopping
      BY <1>15 DEF OldExits
    <2> QED
      BY <2>1, <2>2
  <1>16. CASE OldDrains
    BY <1>16 DEF OldDrains
  <1>17. CASE Answer
    BY <1>17 DEF Answer, Respond, Clear
  <1>18. CASE Dismiss
    BY <1>18 DEF Dismiss
  <1>19. CASE ResumeParked
    BY <1>19 DEF ResumeParked, Clear, Launch
  <1>20. CASE Kill
    BY <1>20 DEF Kill, Clear, Rendezvous, Again
  <1>21. CASE Complete
    BY <1>21 DEF Complete, HandleTerminal, Forget, Rendezvous, Again
  <1>22. CASE ClockForgotten
    BY <1>22 DEF ClockForgotten
  <1>23. CASE InterruptAll
    BY <1>23 DEF InterruptAll
  <1>24. CASE HarnessDies
    BY <1>24 DEF HarnessDies, Forget
  <1>25. CASE Boot
    BY <1>25 DEF Boot, Outstanding
  <1>26. CASE Restore
    BY <1>26 DEF Restore, Orphaned, Outstanding, CarryOn, Launch
  <1>27. CASE StandDown
    BY <1>27 DEF StandDown, Orphaned, Outstanding
  <1>28. CASE UNCHANGED vars
    BY <1>28 DEF vars
  <1> QED
    BY <1>1, <1>2, <1>3, <1>4, <1>5, <1>6, <1>7, <1>8, <1>9, <1>10, <1>11, <1>12, <1>13, <1>14,
       <1>15, <1>16, <1>17, <1>18, <1>19, <1>20, <1>21, <1>22, <1>23, <1>24, <1>25, <1>26, <1>27,
          <1>28, StepIs, Zenon DEF Steps, ChildExits, ClaimPart

(* A process outside the map was told to go, and what still comes of it     *)
(* either changes no row or revives one.                                   *)
LEMMA ProcessNext ==
  ASSUME Typed, Base, ~revived => Kept, revived' = FALSE, [Next]_vars
  PROVE  ProcessPart'
  <1> USE DEF Typed, Flags, Values, Limits, Live, Ended, Base, ClaimPart, MapPart, DeadPart,
     OrphanPart, Orphaned, Outstanding, Kept, ProcessPart, ReachPart, ReapPart, store, life,
        parks, ending, session, process, history
  <1>1. CASE ReadsLimit
    BY <1>1 DEF ReadsLimit, Speaks
  <1>2. CASE SaysDone
    BY <1>2 DEF SaysDone, Speaks, HandleTerminal, Forget, Rendezvous, Again
  <1>3. CASE IsIgnored
    BY <1>3 DEF IsIgnored, Heard
  <1>4. CASE IsParked
    BY <1>4 DEF IsParked, Heard, NotRevived
  <1>5. CASE IsAnswered
    BY <1>5 DEF IsAnswered, NotRevived
  <1>6. CASE IsNudged
    BY <1>6 DEF IsNudged, Heard, NotRevived
  <1>7. CASE IsLimited
    BY <1>7 DEF IsLimited, Heard, NotRevived
  <1>8. CASE IsLimitedAgain
    BY <1>8 DEF IsLimitedAgain, Heard
  <1>9. CASE OldSaysDone
    BY <1>9 DEF OldSaysDone, HandleTerminal, Forget, Rendezvous, Again
  <1>10. CASE ChildExits /\ ExitIsAwaited
    BY <1>10 DEF ChildExits, ExitIsAwaited, Rendezvous, Again, NotesRevival
  <1>11. CASE ChildExits /\ ExitUnderPark
    BY <1>11 DEF ChildExits, ExitUnderPark, HandleTerminal, Forget, Rendezvous, Again, NotesRevival
  <1>12. CASE ChildExits /\ ExitParks
    BY <1>12 DEF ChildExits, ExitParks, HandleLimited, AfterExit, Rendezvous, Again, NotesRevival
  <1>13. CASE ChildExits /\ ExitSettles
    BY <1>13 DEF ChildExits, ExitSettles, HandleTerminal, Forget, Rendezvous, Again, AfterExit,
       Reopens, Reopen, ReopenThrows, Launch, CarryOn, NotesRevival
  <1>14. CASE Drains
    BY <1>14 DEF Drains
  <1>15. CASE OldExits
    BY <1>15 DEF OldExits, HandleTerminal, Forget, Rendezvous, Again, AfterExit, HandleLimited,
       NotesRevival
  <1>16. CASE OldDrains
    BY <1>16 DEF OldDrains
  <1>17. CASE Answer
    BY <1>17 DEF Answer, Respond, Clear
  <1>18. CASE Dismiss
    BY <1>18 DEF Dismiss
  <1>19. CASE ResumeParked
    BY <1>19 DEF ResumeParked, Clear, Launch
  <1>20. CASE Kill
    BY <1>20 DEF Kill, Clear, Rendezvous, Again
  <1>21. CASE Complete
    BY <1>21 DEF Complete, HandleTerminal, Forget, Rendezvous, Again
  <1>22. CASE ClockForgotten
    BY <1>22 DEF ClockForgotten
  <1>23. CASE InterruptAll
    BY <1>23 DEF InterruptAll
  <1>24. CASE HarnessDies
    BY <1>24 DEF HarnessDies, Forget
  <1>25. CASE Boot
    BY <1>25 DEF Boot
  <1>26. CASE Restore
    BY <1>26 DEF Restore, CarryOn, Launch
  <1>27. CASE StandDown
    BY <1>27 DEF StandDown
  <1>28. CASE UNCHANGED vars
    BY <1>28 DEF vars
  <1> QED
    BY <1>1, <1>2, <1>3, <1>4, <1>5, <1>6, <1>7, <1>8, <1>9, <1>10, <1>11, <1>12, <1>13, <1>14,
       <1>15, <1>16, <1>17, <1>18, <1>19, <1>20, <1>21, <1>22, <1>23, <1>24, <1>25, <1>26, <1>27,
          <1>28, StepIs, Zenon DEF Steps, ChildExits

(* A row is made live with a session or a park, or revived.                *)
LEMMA ReachNext ==
  ASSUME Typed, Base, ~revived => Kept, revived' = FALSE, [Next]_vars
  PROVE  ReachPart'
  <1> USE DEF Typed, Flags, Values, Limits, Live, Ended, Base, ClaimPart, MapPart, DeadPart,
     OrphanPart, Orphaned, Outstanding, Kept, ProcessPart, ReachPart, store, life, parks, ending,
        session, process, history
  <1>1. CASE ReadsLimit
    BY <1>1 DEF ReadsLimit, Speaks
  <1>2. CASE SaysDone
    BY <1>2 DEF SaysDone, Speaks, HandleTerminal, Forget, Rendezvous, Again
  <1>3. CASE IsIgnored
    BY <1>3 DEF IsIgnored, Heard
  <1>4. CASE IsParked
    BY <1>4 DEF IsParked, Heard, NotRevived
  <1>5. CASE IsAnswered
    BY <1>5 DEF IsAnswered, NotRevived
  <1>6. CASE IsNudged
    BY <1>6 DEF IsNudged, Heard, NotRevived
  <1>7. CASE IsLimited
    BY <1>7 DEF IsLimited, Heard, NotRevived
  <1>8. CASE IsLimitedAgain
    BY <1>8 DEF IsLimitedAgain, Heard
  <1>9. CASE OldSaysDone
    BY <1>9 DEF OldSaysDone, HandleTerminal, Forget, Rendezvous, Again
  <1>10. CASE ChildExits /\ ExitIsAwaited
    BY <1>10 DEF ChildExits, ExitIsAwaited, Rendezvous, Again, NotesRevival
  <1>11. CASE ChildExits /\ ExitUnderPark
    BY <1>11 DEF ChildExits, ExitUnderPark, HandleTerminal, Forget, Rendezvous, Again, NotesRevival
  <1>12. CASE ChildExits /\ ExitParks
    BY <1>12 DEF ChildExits, ExitParks, HandleLimited, AfterExit, Rendezvous, Again, NotesRevival
  <1>13. CASE ChildExits /\ ExitSettles
    BY <1>13 DEF ChildExits, ExitSettles, HandleTerminal, Forget, Rendezvous, Again, AfterExit,
       Reopens, Reopen, ReopenThrows, Launch, CarryOn, NotesRevival
  <1>14. CASE Drains
    BY <1>14 DEF Drains
  <1>15. CASE OldExits
    BY <1>15 DEF OldExits, HandleTerminal, Forget, Rendezvous, Again, AfterExit, HandleLimited,
       NotesRevival
  <1>16. CASE OldDrains
    BY <1>16 DEF OldDrains
  <1>17. CASE Answer
    BY <1>17 DEF Answer, Respond, Clear
  <1>18. CASE Dismiss
    BY <1>18 DEF Dismiss
  <1>19. CASE ResumeParked
    BY <1>19 DEF ResumeParked, Clear, Launch
  <1>20. CASE Kill
    BY <1>20 DEF Kill, Clear, Rendezvous, Again
  <1>21. CASE Complete
    BY <1>21 DEF Complete, HandleTerminal, Forget, Rendezvous, Again
  <1>22. CASE ClockForgotten
    BY <1>22 DEF ClockForgotten
  <1>23. CASE InterruptAll
    BY <1>23 DEF InterruptAll
  <1>24. CASE HarnessDies
    BY <1>24 DEF HarnessDies, Forget
  <1>25. CASE Boot
    BY <1>25 DEF Boot
  <1>26. CASE Restore
    BY <1>26 DEF Restore, CarryOn, Launch
  <1>27. CASE StandDown
    BY <1>27 DEF StandDown
  <1>28. CASE UNCHANGED vars
    BY <1>28 DEF vars
  <1> QED
    BY <1>1, <1>2, <1>3, <1>4, <1>5, <1>6, <1>7, <1>8, <1>9, <1>10, <1>11, <1>12, <1>13, <1>14,
       <1>15, <1>16, <1>17, <1>18, <1>19, <1>20, <1>21, <1>22, <1>23, <1>24, <1>25, <1>26, <1>27,
          <1>28, StepIs, Zenon DEF Steps, ChildExits

(* The clock goes with the session.                                        *)
LEMMA UseNext ==
  ASSUME Typed, Base, ~revived => Kept, revived' = FALSE, [Next]_vars
  PROVE  UsePart'
  <1> USE DEF Typed, Flags, Values, Limits, Live, Ended, Base, ClaimPart, MapPart, DeadPart,
     OrphanPart, Orphaned, Outstanding, Kept, ProcessPart, ReachPart, ClockStandsOnPark, UsePart,
        store, life, parks, ending, session, process, history
  <1>1. CASE ReadsLimit
    BY <1>1 DEF ReadsLimit, Speaks
  <1>2. CASE SaysDone
    BY <1>2 DEF SaysDone, Speaks, HandleTerminal, Forget, Rendezvous, Again
  <1>3. CASE IsIgnored
    BY <1>3 DEF IsIgnored, Heard
  <1>4. CASE IsParked
    BY <1>4 DEF IsParked, Heard, NotRevived
  <1>5. CASE IsAnswered
    BY <1>5 DEF IsAnswered, NotRevived
  <1>6. CASE IsNudged
    BY <1>6 DEF IsNudged, Heard, NotRevived
  <1>7. CASE IsLimited
    BY <1>7 DEF IsLimited, Heard, NotRevived
  <1>8. CASE IsLimitedAgain
    BY <1>8 DEF IsLimitedAgain, Heard
  <1>9. CASE OldSaysDone
    BY <1>9 DEF OldSaysDone, HandleTerminal, Forget, Rendezvous, Again
  <1>10. CASE ChildExits /\ ExitIsAwaited
    BY <1>10 DEF ChildExits, ExitIsAwaited, Rendezvous, Again, NotesRevival
  <1>11. CASE ChildExits /\ ExitUnderPark
    BY <1>11 DEF ChildExits, ExitUnderPark, HandleTerminal, Forget, Rendezvous, Again, NotesRevival
  <1>12. CASE ChildExits /\ ExitParks
    BY <1>12 DEF ChildExits, ExitParks, HandleLimited, AfterExit, Rendezvous, Again, NotesRevival
  <1>13. CASE ChildExits /\ ExitSettles
    BY <1>13 DEF ChildExits, ExitSettles, HandleTerminal, Forget, Rendezvous, Again, AfterExit,
       Reopens, Reopen, ReopenThrows, Launch, CarryOn, NotesRevival
  <1>14. CASE Drains
    BY <1>14 DEF Drains
  <1>15. CASE OldExits
    BY <1>15 DEF OldExits, HandleTerminal, Forget, Rendezvous, Again, AfterExit, HandleLimited,
       NotesRevival
  <1>16. CASE OldDrains
    BY <1>16 DEF OldDrains
  <1>17. CASE Answer
    BY <1>17 DEF Answer, Respond, Clear
  <1>18. CASE Dismiss
    BY <1>18 DEF Dismiss
  <1>19. CASE ResumeParked
    BY <1>19 DEF ResumeParked, Clear, Launch
  <1>20. CASE Kill
    BY <1>20 DEF Kill, Clear, Rendezvous, Again
  <1>21. CASE Complete
    BY <1>21 DEF Complete, HandleTerminal, Forget, Rendezvous, Again
  <1>22. CASE ClockForgotten
    BY <1>22 DEF ClockForgotten
  <1>23. CASE InterruptAll
    BY <1>23 DEF InterruptAll
  <1>24. CASE HarnessDies
    BY <1>24 DEF HarnessDies, Forget
  <1>25. CASE Boot
    BY <1>25 DEF Boot
  <1>26. CASE Restore
    BY <1>26 DEF Restore, CarryOn, Launch
  <1>27. CASE StandDown
    BY <1>27 DEF StandDown
  <1>28. CASE UNCHANGED vars
    BY <1>28 DEF vars
  <1> QED
    BY <1>1, <1>2, <1>3, <1>4, <1>5, <1>6, <1>7, <1>8, <1>9, <1>10, <1>11, <1>12, <1>13, <1>14,
       <1>15, <1>16, <1>17, <1>18, <1>19, <1>20, <1>21, <1>22, <1>23, <1>24, <1>25, <1>26, <1>27,
          <1>28, StepIs, Zenon DEF Steps, ChildExits

(* The two marks meet once: a status waits for the exit of a live process, *)
(* an exit for a status only after a session was interrupted.              *)
LEMMA ReapNext ==
  ASSUME Typed, Base, ~revived => Kept, revived' = FALSE, [Next]_vars, Counters
  PROVE  ReapPart'
  <1> USE DEF Typed, Flags, Values, Limits, Live, Ended, Base, ClaimPart, MapPart, DeadPart,
     OrphanPart, Orphaned, Outstanding, Kept, ProcessPart, ReachPart, ReapPart, Counters, store,
        life, parks, ending, session, process, history
  <1>1. CASE ReadsLimit
    BY <1>1 DEF ReadsLimit, Speaks
  <1>2. CASE SaysDone
    <2> USE <1>2 DEF SaysDone, Speaks, HandleTerminal, Forget
    <2>1. held' = FALSE /\ limited' = "none" /\ child # "none" /\ UNCHANGED child
      OBVIOUS
    <2>2. CASE exited
      BY <2>1, <2>2 DEF Rendezvous, Again
    <2>3. CASE ~exited
      <3>1. terminal' = "done" /\ exited' = FALSE /\ reaps' = reaps
        BY <2>3, Zenon DEF Rendezvous
      <3>2. ReapPart /\ UNCHANGED child
        OBVIOUS
      <3>3. child = "exited" => strained'
        BY <2>3, Zenon
      <3>4. child = "alive" => reaps = 0
        OBVIOUS
      <3> QED
        BY <2>1, <3>1, <3>2, <3>3, <3>4, Zenon
    <2> QED
      BY <2>2, <2>3
  <1>3. CASE IsIgnored
    BY <1>3 DEF IsIgnored, Heard
  <1>4. CASE IsParked
    BY <1>4 DEF IsParked, Heard, NotRevived
  <1>5. CASE IsAnswered
    BY <1>5 DEF IsAnswered, NotRevived
  <1>6. CASE IsNudged
    BY <1>6 DEF IsNudged, Heard, NotRevived
  <1>7. CASE IsLimited
    BY <1>7 DEF IsLimited, Heard, NotRevived
  <1>8. CASE IsLimitedAgain
    BY <1>8 DEF IsLimitedAgain, Heard
  <1>9. CASE OldSaysDone
    BY <1>9 DEF OldSaysDone, HandleTerminal, Forget, Rendezvous, Again
  <1>10. CASE ChildExits /\ ExitIsAwaited
    BY <1>10 DEF ChildExits, ExitIsAwaited, Rendezvous, Again, NotesRevival
  <1>11. CASE ChildExits /\ ExitUnderPark
    BY <1>11 DEF ChildExits, ExitUnderPark, HandleTerminal, Forget, Rendezvous, Again, NotesRevival
  <1>12. CASE ChildExits /\ ExitParks
    BY <1>12 DEF ChildExits, ExitParks, HandleLimited, AfterExit, Rendezvous, Again, NotesRevival
  <1>13. CASE ChildExits /\ ExitSettles
    BY <1>13 DEF ChildExits, ExitSettles, HandleTerminal, Forget, Rendezvous, Again, AfterExit,
       Reopens, Reopen, ReopenThrows, Launch, CarryOn, NotesRevival
  <1>14. CASE Drains
    BY <1>14 DEF Drains
  <1>15. CASE OldExits
    BY <1>15 DEF OldExits, HandleTerminal, Forget, Rendezvous, Again, AfterExit, HandleLimited,
       NotesRevival
  <1>16. CASE OldDrains
    BY <1>16 DEF OldDrains
  <1>17. CASE Answer
    BY <1>17 DEF Answer, Respond, Clear
  <1>18. CASE Dismiss
    BY <1>18 DEF Dismiss
  <1>19. CASE ResumeParked
    BY <1>19 DEF ResumeParked, Clear, Launch
  <1>20. CASE Kill
    BY <1>20 DEF Kill, Clear, Rendezvous, Again
  <1>21. CASE Complete
    BY <1>21 DEF Complete, HandleTerminal, Forget, Rendezvous, Again
  <1>22. CASE ClockForgotten
    BY <1>22 DEF ClockForgotten
  <1>23. CASE InterruptAll
    BY <1>23 DEF InterruptAll
  <1>24. CASE HarnessDies
    BY <1>24 DEF HarnessDies, Forget
  <1>25. CASE Boot
    BY <1>25 DEF Boot
  <1>26. CASE Restore
    BY <1>26 DEF Restore, CarryOn, Launch
  <1>27. CASE StandDown
    BY <1>27 DEF StandDown
  <1>28. CASE UNCHANGED vars
    BY <1>28 DEF vars
  <1> QED
    BY <1>1, <1>2, <1>3, <1>4, <1>5, <1>6, <1>7, <1>8, <1>9, <1>10, <1>11, <1>12, <1>13, <1>14,
       <1>15, <1>16, <1>17, <1>18, <1>19, <1>20, <1>21, <1>22, <1>23, <1>24, <1>25, <1>26, <1>27,
          <1>28, StepIs, Zenon DEF Steps, ChildExits

(* A row that has ended has no session and no park, and every step that    *)
(* writes a row needs one of them, an orphan, or a session let go.         *)
LEMMA EndedStays ==
  ASSUME Typed, Base, ~revived => Kept, row \in Ended, [Next]_vars
  PROVE  (row' = row /\ task' = task) \/ LetGoActs
  <1> USE DEF Typed, Flags, Values, Limits, Live, Ended, Base, ClaimPart, MapPart, DeadPart,
     OrphanPart, Orphaned, Outstanding, Kept, ProcessPart, LetGoActs, store, life, parks, ending,
        session, process, history
  <1>1. CASE ReadsLimit
    BY <1>1, SMT DEF ReadsLimit, Speaks
  <1>2. CASE SaysDone
    BY <1>2, SMT DEF SaysDone, Speaks, HandleTerminal, Forget, Rendezvous, Again
  <1>3. CASE TurnMeetsLimit
    BY <1>3, SMT DEF TurnMeetsLimit, Speaks, HandleLimited, NotesRevival
  <1>4. CASE TurnAsks
    BY <1>4, SMT DEF TurnAsks, Speaks, PausingTurn, TurnPauses, HandleWaiting, Respond, Clear,
       NotesRevival
  <1>5. CASE TurnStops
    BY <1>5, SMT DEF TurnStops, Speaks, PausingTurn, TurnPauses, HandleWaiting, Respond, Clear,
       Nudge, NotesRevival
  <1>6. CASE AskTool
    BY <1>6, SMT DEF AskTool, HandleWaiting, Respond, Clear
  <1>7. CASE GoesSilent
    BY <1>7, SMT DEF GoesSilent, HandleWaiting, Respond, Clear, NotesRevival
  <1>8. CASE ChildExits /\ ExitIsAwaited
    BY <1>8, SMT DEF ChildExits, ExitIsAwaited, Rendezvous, Again, NotesRevival
  <1>9. CASE ChildExits /\ ExitUnderPark
    BY <1>9, SMT DEF ChildExits, ExitUnderPark, HandleTerminal, Forget, Rendezvous, Again,
       NotesRevival
  <1>10. CASE ChildExits /\ ExitParks
    BY <1>10, SMT DEF ChildExits, ExitParks, HandleLimited, AfterExit, Rendezvous, Again,
       NotesRevival
  <1>11. CASE ChildExits /\ ExitSettles
    BY <1>11, SMT DEF ChildExits, ExitSettles, HandleTerminal, Forget, Rendezvous, Again,
       AfterExit, Reopens, Reopen, ReopenThrows, Launch, CarryOn, NotesRevival
  <1>12. CASE Drains
    BY <1>12, SMT DEF Drains
  <1>13. CASE OldTurn
    BY <1>13, SMT DEF OldTurn, HandleTerminal, Forget, Rendezvous, Again, HandleLimited,
       HandleWaiting, Respond, Clear, NotesRevival
  <1>14. CASE OldExits
    BY <1>14, SMT DEF OldExits, HandleTerminal, Forget, Rendezvous, Again, AfterExit,
       HandleLimited, NotesRevival
  <1>15. CASE OldDrains
    BY <1>15, SMT DEF OldDrains
  <1>16. CASE Answer
    BY <1>16, SMT DEF Answer, Respond, Clear
  <1>17. CASE Dismiss
    BY <1>17, SMT DEF Dismiss
  <1>18. CASE ResumeParked
    BY <1>18, SMT DEF ResumeParked, Clear, Launch
  <1>19. CASE Kill
    BY <1>19, SMT DEF Kill, Clear, Rendezvous, Again
  <1>20. CASE Complete
    BY <1>20, SMT DEF Complete, HandleTerminal, Forget, Rendezvous, Again
  <1>21. CASE ClockForgotten
    BY <1>21, SMT DEF ClockForgotten
  <1>22. CASE InterruptAll
    BY <1>22, SMT DEF InterruptAll
  <1>23. CASE HarnessDies
    BY <1>23, SMT DEF HarnessDies, Forget
  <1>24. CASE Boot
    BY <1>24, SMT DEF Boot
  <1>25. CASE Restore
    BY <1>25, SMT DEF Restore, CarryOn, Launch
  <1>26. CASE StandDown
    BY <1>26, SMT DEF StandDown
  <1>27. CASE UNCHANGED vars
    BY <1>27, SMT DEF vars
  <1> QED
    BY <1>1, <1>2, <1>3, <1>4, <1>5, <1>6, <1>7, <1>8, <1>9, <1>10, <1>11, <1>12, <1>13, <1>14,
       <1>15, <1>16, <1>17, <1>18, <1>19, <1>20, <1>21, <1>22, <1>23, <1>24, <1>25, <1>26, <1>27,
          StallExpiresIs, Zenon DEF Next, ChildExits

LEMMA AgentInit == Init => IInv
  <1> SUFFICES ASSUME Init PROVE IInv
    OBVIOUS
  <1> USE DEF Init
  <1>1. Flags
    BY Zenon DEF Flags
  <1>2. Values /\ Counters
    BY ResumeAttemptsAssumption, StallNudgesAssumption, SMT
       DEF Values, Counters, Live, Ended, Limits
  <1>3. Base /\ Kept
    BY SMT DEF Base, ClaimPart, MapPart, DeadPart, OrphanPart, ClockStandsOnPark, Kept,
               ProcessPart, ReachPart, UsePart, ReapPart, Orphaned, Outstanding, Live
  <1> QED
    BY <1>1, <1>2, <1>3, Zenon DEF IInv, Typed

LEMMA AgentStep == IInv /\ [Next]_vars => IInv'
  <1> SUFFICES ASSUME IInv, [Next]_vars PROVE IInv'
    OBVIOUS
  <1> USE DEF IInv
  <1>1. Typed'
    BY FlagsNext, ValuesNext, CountersNext, Zenon DEF Typed
  <1>2. Base'
    BY ClaimNext, MapNext, DeadNext, OrphanNext, ClockNext, Zenon DEF Base
  <1>3. ASSUME revived' = FALSE PROVE Kept'
    BY <1>3, ProcessNext, ReachNext, UseNext, ReapNext, Zenon DEF Kept, Typed
  <1>4. revived' \in BOOLEAN
    BY <1>1, Zenon DEF Typed, Flags
  <1> QED
    BY <1>1, <1>2, <1>3, <1>4, Zenon

LEMMA AgentInvariant == Spec => []IInv
  BY AgentInit, AgentStep, PTL DEF Spec

-----------------------------------------------------------------------------
(* The theorems. *)

(* Types: the rows, the maps of the manager, the parks and the session     *)
(* hold values the code gives them, and the resume budget                  *)
(* (agents.resume_attempts) and the nudges are never overspent.            *)
THEOREM AgentTypeCorrect == Spec => []TypeOK
  <1>1. IInv => TypeOK
    BY TypeParts, Zenon DEF IInv
  <1> QED
    BY <1>1, AgentInvariant, PTL

(* A session in the manager's map owns a live row and an outstanding task, *)
(* and a park on a usage limit keeps both: nothing that is read after a    *)
(* kill, an exit or a new launch can take the claim from either.           *)
THEOREM ClaimsOutliveLateLines == Spec => [](SessionHoldsItsTask /\ LimitParkKeepsWork)
  <1>1. IInv => SessionHoldsItsTask /\ LimitParkKeepsWork
    BY Zenon DEF IInv, Base, ClaimPart, SessionHoldsItsTask, LimitParkKeepsWork
  <1> QED
    BY <1>1, AgentInvariant, PTL

(* "reaped" frees the worktree slot.  So long as no session that was let   *)
(* go revived the row, it is emitted at most once for a launch, never      *)
(* while its process lives or its session is in use, and no ending waits   *)
(* for an exit that has been but one recorded when that was forgotten.     *)
THEOREM ReapIsSoundAlways == Spec => []ReapIsSound
  <1>1. IInv => ReapIsSound
    BY SMT DEF IInv, Typed, Flags, Values, Counters, Base, MapPart, Kept, ReapPart, ReapIsSound,
               ReapedOnceAndLast, EndingMeetsExit
  <1> QED
    BY <1>1, AgentInvariant, PTL

(* Work is never stranded: a session in use has an outstanding row and     *)
(* task and an orphan no process at all, always; and a live row has a      *)
(* session that can end it or a limit park that can be resumed or killed,  *)
(* unless a session that was let go revived it.                            *)
THEOREM RowsAreReachableAlways == Spec => []RowsAreReachable
  <1>1. IInv => RowsAreReachable
    BY Zenon DEF IInv, Base, ClaimPart, DeadPart, OrphanPart, Kept, ReachPart, RowsAreReachable,
                 LiveRowIsReachable, SessionHoldsItsTask, OrphanHasNoProcess
  <1> QED
    BY <1>1, AgentInvariant, PTL

(* A park costs no work, whichever session parks: on a limit the row and   *)
(* the task are kept, and the clock that declares stalled work complete    *)
(* runs only on an agent that is parked and not out of limits, and on one  *)
(* in use unless its row was revived.                                      *)
THEOREM ParksKeepWorkAlways == Spec => []ParksKeepWork
  <1>1. IInv => ParksKeepWork
    BY Zenon DEF IInv, Base, ClaimPart, Kept, UsePart, ParksKeepWork, LimitParkKeepsWork
  <1> QED
    BY <1>1, AgentInvariant, PTL

(* What was killed, done or failed stays so, row and task, in every step   *)
(* but those of a session that was let go: no answer, clock, resume,       *)
(* recovery or restart, and no exit that was asked for, touches it.        *)
THEOREM DecidedStaysFinal == Spec => DecidedIsFinal
  <1>1. IInv /\ [Next]_vars
        => [(row \in Ended) => (row' = row /\ task' = task) \/ LetGoActs]_vars
    BY EndedStays, Zenon DEF IInv
  <1> QED
    BY <1>1, AgentInvariant, PTL DEF Spec, DecidedIsFinal
=============================================================================
