----------------------------- MODULE AgentLife -----------------------------
(***************************************************************************)
(* The life of one agent: its row and its task in the store, the session   *)
(* the AgentManager holds for it, the claude process behind the session    *)
(* (StreamJsonSession), the parks (AgentParks), and what a restart and the *)
(* RecoveryDesk make of them.                                              *)
(*                                                                         *)
(* Each action is one callback, with every listener it reaches: a line the *)
(* process prints, its exit, a timer, a request of an operator.  Lines are *)
(* read as long as the stdout of a process is open, whatever became of the *)
(* process, the session and the agent.  What is left of a session when a   *)
(* later launch replaces it is followed without its own state.             *)
(***************************************************************************)
EXTENDS Naturals

CONSTANTS
    ResumeAttempts,  \* agentResumeAttempts: how often a crashed session is re-opened
    StallNudges      \* stallNudges: how often an unannounced stop is nudged

ASSUME ResumeAttemptsAssumption == ResumeAttempts \in Nat
ASSUME StallNudgesAssumption == StallNudges \in Nat

Ended == {"done", "failed", "killed"}
Live  == {"running", "waiting"}
Limits == {"none", "dated", "undated"}   \* a usage limit with or without a resetsAt

VARIABLES
    row,          \* agents.status
    reason,       \* agents.waiting_reason is set
    task,         \* tasks.status
    spent,        \* agents.resume_attempts
    question,     \* an open escalation names this agent
    up,           \* the harness is running
    stopping,     \* interruptAll() was called: the process is on its way out
    held,         \* AgentManager.sessions has the agent
    parked,       \* AgentParks.parked
    limited,      \* AgentParks.limited
    stalled,      \* AgentParks.stalled: a clock is armed
    nudges,       \* AgentParks.nudges
    terminal,     \* AgentManager.terminals
    exited,       \* AgentManager.exited
    st,           \* StreamJsonSession.status of the latest session
    limit,        \* StreamJsonSession.limit
    limitParked,  \* StreamJsonSession.limitParked
    child,        \* the process of the latest session
    open,         \* its stdout has not been read to the end
    older,        \* what is left of the sessions that a later launch replaced
    reaps,        \* history: "reaped" events since the latest launch, up to two
    strained,     \* history: in this life of the harness an ending was recorded whose
                  \* exit had been forgotten, or had not been asked of the process
    revived       \* history: since it was last restored, or spawned, a row that was
                  \* not live was made live by a session that had been let go

store   == <<row, reason, task, spent, question>>
life    == <<up, stopping>>
history == <<strained, revived>>
parks   == <<parked, limited, stalled, nudges>>
ending  == <<held, terminal, exited, reaps>>
session == <<st, limit, limitParked>>
process == <<child, open, older>>
vars    == <<store, life, parks, ending, session, process, history>>

-----------------------------------------------------------------------------
(* Init: spawn() has returned, the row and the task are running.           *)
Init ==
    /\ row = "running" /\ task = "running" /\ reason = FALSE
    /\ spent = 0 /\ question = FALSE
    /\ up = TRUE /\ stopping = FALSE
    /\ held = TRUE /\ terminal = "none" /\ exited = FALSE /\ reaps = 0
    /\ parked = FALSE /\ limited = "none" /\ stalled = FALSE /\ nudges = 0
    /\ st = "running" /\ limit = "none" /\ limitParked = FALSE
    /\ child = "alive" /\ open = TRUE /\ older = "none"
    /\ strained = FALSE /\ revived = FALSE

(* The process is heard until its stdout is drained, whatever became of   *)
(* it and of the session: kill() and the exit close nothing on that side.  *)
Speaks == up /\ open

-----------------------------------------------------------------------------
(* What the handlers are made of. *)

(* One more, counted up to two.                                            *)
Again(n) == IF n = 0 THEN 1 ELSE 2

(* maybeReap(): "reaped" is emitted once a terminal status is recorded and *)
(* the exit has been seen, and both marks are taken back.                  *)
Rendezvous(how, gone, before) ==
    IF how # "none" /\ gone
    THEN terminal' = "none" /\ exited' = FALSE /\ reaps' = Again(before)
    ELSE terminal' = how /\ exited' = gone /\ reaps' = before

(* "reaped" events once the exit handler's own maybeReap() has run.        *)
AfterExit == IF terminal = "none" THEN reaps ELSE Again(reaps)

Forget == parked' = FALSE /\ limited' = "none" /\ stalled' = FALSE /\ nudges' = 0
Clear  == parked' = FALSE /\ limited' = "none" /\ stalled' = FALSE /\ UNCHANGED nudges

(* handleTerminal(), with the listener that dismisses the agent's open     *)
(* question.                                                               *)
HandleTerminal(status, gone, before) ==
    /\ row' = status /\ task' = status /\ question' = FALSE
    /\ UNCHANGED reason
    /\ Forget
    /\ held' = FALSE
    /\ Rendezvous(status, gone, before)

(* respond(): one message down stdin.  The row is put back, the task is    *)
(* left as it stood.                                                       *)
Respond ==
    /\ held
    /\ Clear
    /\ st' = "running" /\ limitParked' = FALSE
    /\ row' = "running" /\ reason' = FALSE
    /\ UNCHANGED <<task, spent, limit, ending>>

(* handleWaiting() of an agent that is not parked: the latch, the row, the *)
(* task and the listener that raises an escalation, with a clock if the    *)
(* stop was not announced; or a whitelisted approval answers at once.      *)
HandleWaiting(status, clock) ==
    \/ /\ parked' = TRUE
       /\ row' = "waiting" /\ reason' = TRUE /\ task' = "waiting" /\ question' = TRUE
       /\ stalled' = (stalled \/ (clock /\ limited = "none"))
       /\ st' = status
       /\ UNCHANGED <<spent, limited, nudges, ending, limit, limitParked>>
    \/ Respond /\ UNCHANGED question

(* Mutant of HandleLimited: the clock of the earlier park is left armed.   *)
HandleLimitedKeepsClock(park, gone, before) ==
    /\ limited' = park /\ parked' = TRUE /\ UNCHANGED stalled
    /\ row' = "waiting" /\ reason' = TRUE /\ task' = "waiting"
    /\ held' = (held /\ ~gone)
    /\ exited' = FALSE /\ reaps' = before
    /\ UNCHANGED <<spent, question, nudges>>

(* handleLimited() of an agent with no park of this kind; a process that   *)
(* is gone takes its session with it (shedLimitedSession), and no terminal *)
(* status is recorded.                                                     *)
HandleLimited(park, gone, before) ==
    /\ limited' = park /\ parked' = TRUE /\ stalled' = FALSE
    /\ row' = "waiting" /\ reason' = TRUE /\ task' = "waiting"
    /\ held' = (held /\ ~gone)
    /\ exited' = FALSE /\ reaps' = before
    /\ UNCHANGED <<spent, question, nudges>>

(* A new launch under the same row: resume() up to session.start().  The   *)
(* session before it is heard on: until its stdout is drained, and before  *)
(* that until its process, if it has not gone, exits.                      *)
Launch(gone) ==
    /\ held' = TRUE /\ reaps' = 0
    /\ st' = "running" /\ limit' = "none" /\ limitParked' = FALSE
    /\ child' = "alive" /\ open' = TRUE
    /\ older' = IF older = "alive" \/ (child = "alive" /\ ~gone) THEN "alive"
                ELSE IF older = "open" \/ open THEN "open" ELSE "none"

(* The second half of resume(): an agent parked on a question is put back  *)
(* on it (restoreWaiting), any other is told to carry on.                  *)
CarryOn ==
    IF row = "waiting" \/ reason
    THEN /\ parked' = TRUE
         /\ row' = "waiting" /\ reason' = TRUE /\ task' = "waiting" /\ question' = TRUE
    ELSE /\ row' = "running" /\ reason' = FALSE /\ task' = "running"
         /\ UNCHANGED <<parked, question>>

-----------------------------------------------------------------------------
(* Lines the process prints. *)

(* Whoever speaks or exits, it is noted when that makes a row live again:  *)
(* it is then a session the manager has let go.                            *)
NotesRevival == revived' = (revived \/ (row \notin Live /\ row' \in Live))

(* A rate_limit_event says which limit is spent, or that none is.          *)
ReadsLimit ==
    /\ Speaks
    /\ limit' \in Limits
    /\ UNCHANGED <<store, life, parks, ending, st, limitParked, process, history>>

(* A result that carries the done sentinel: finish('done').                *)
SaysDone ==
    /\ Speaks
    /\ st \notin {"done", "failed"}
    /\ st' = "done"
    /\ HandleTerminal("done", exited, reaps)
    /\ strained' = (strained \/ (child = "exited" /\ ~exited))
    /\ UNCHANGED <<spent, limit, limitParked, life, process, revived>>

(* A turn ends with a limit spent: parkOnLimit().                          *)
TurnMeetsLimit ==
    /\ Speaks
    /\ limit # "none" /\ ~limitParked
    /\ st \notin {"done", "killed"}
    /\ st' = "waiting" /\ limitParked' = TRUE
    /\ IF limited # "none"
       THEN UNCHANGED <<store, parks, ending>>
       ELSE HandleLimited(limit, exited, reaps) /\ UNCHANGED terminal
    /\ UNCHANGED limit
    /\ NotesRevival
    /\ UNCHANGED <<life, process, strained>>

(* setWaiting() and stall() of the session: nothing but its own status     *)
(* when the agent is parked already.                                       *)
TurnPauses(clock) ==
    \/ /\ parked
       /\ st' = "waiting"
       /\ UNCHANGED <<store, parks, ending, limit, limitParked>>
    \/ ~parked /\ HandleWaiting("waiting", clock)

(* handleStalled() with a nudge left: one message down stdin.              *)
Nudge ==
    /\ ~parked /\ nudges < StallNudges /\ ~exited
    /\ nudges' = nudges + 1
    /\ st' = "running" /\ limitParked' = FALSE
    /\ row' = "running" /\ reason' = FALSE
    /\ UNCHANGED <<task, spent, question, parked, limited, stalled, ending, limit>>

PausingTurn ==
    /\ Speaks
    /\ limit = "none"
    /\ st \notin {"waiting", "done"}

(* A turn ends with a question: it is parked on.                           *)
TurnAsks ==
    /\ PausingTurn
    /\ TurnPauses(FALSE)
    /\ NotesRevival
    /\ UNCHANGED <<life, process, strained>>

(* A turn ends with nothing said: it is nudged while nudges are left, then *)
(* parked on with a clock.                                                 *)
TurnStops ==
    /\ PausingTurn
    /\ \/ Nudge
       \/ /\ parked \/ nudges >= StallNudges \/ exited
          /\ TurnPauses(TRUE)
    /\ NotesRevival
    /\ UNCHANGED <<life, process, strained>>

(* The ask tool: handleWaiting() while the turn is still running.          *)
AskTool ==
    /\ up /\ held /\ child = "alive" /\ ~parked
    /\ HandleWaiting(st, FALSE)
    /\ UNCHANGED <<life, process, history>>

(* The silence timer of a running session: handleSilent().                 *)
GoesSilent ==
    /\ up /\ child = "alive" /\ st = "running" /\ ~parked
    /\ HandleWaiting(st, TRUE)
    /\ NotesRevival
    /\ UNCHANGED <<life, process, strained>>

-----------------------------------------------------------------------------
(* The process ends. *)

(* Mutant of Reopens: the budget is not asked.                             *)
ReopensWithoutBudget == held /\ spent <= ResumeAttempts

(* autoResume(): the session is still the agent's own, and the budget is   *)
(* not spent.                                                              *)
Reopens == held /\ spent < ResumeAttempts

(* Mutant of Reopen: the exit of the launch that died is kept.             *)
ReopenKeepsExit ==
    /\ spent' = spent + 1
    /\ exited' = TRUE
    /\ Launch(TRUE)
    /\ CarryOn
    /\ UNCHANGED <<limited, stalled, nudges, terminal, strained>>

(* A failed session is re-opened: the exit that was seen belongs to the    *)
(* launch that died, and is forgotten.                                     *)
Reopen ==
    /\ spent' = spent + 1
    /\ exited' = FALSE
    /\ Launch(TRUE)
    /\ CarryOn
    /\ UNCHANGED <<limited, stalled, nudges, terminal, strained>>

(* The re-opening throws: handleTerminal() finds the exit forgotten.       *)
ReopenThrows ==
    /\ spent' = spent + 1
    /\ strained' = TRUE
    /\ HandleTerminal("failed", FALSE, AfterExit)
    /\ st' = "failed" /\ child' = "exited"
    /\ UNCHANGED <<limit, limitParked, open, older>>

(* Mutant of ExitIsAwaited: the exit is marked and maybeReap() not called. *)
ExitIsOnlyMarked ==
    /\ st \in {"killed", "done"}
    /\ exited' = TRUE
    /\ child' = "exited"
    /\ UNCHANGED <<store, parks, held, terminal, reaps, session, open, older, strained>>

(* The exit of a session that was killed or is done: only the rendezvous.  *)
ExitIsAwaited ==
    /\ st \in {"killed", "done"}
    /\ Rendezvous(terminal, TRUE, reaps)
    /\ child' = "exited"
    /\ UNCHANGED <<store, parks, held, session, open, older, strained>>

(* The exit of an agent parked on a limit: shedLimitedSession() runs       *)
(* before the session decides what the exit means.                         *)
ExitUnderPark ==
    /\ st \notin {"killed", "done"} /\ limited # "none"
    /\ child' = "exited"
    /\ \/ /\ limit # "none"
          /\ held' = FALSE /\ exited' = FALSE
          /\ st' = "waiting" /\ limitParked' = TRUE
          /\ UNCHANGED <<store, parks, terminal, reaps, limit, strained>>
       \/ /\ limit = "none"
          /\ \E code \in {"done", "failed"} :
                HandleTerminal(code, FALSE, reaps) /\ st' = code
          /\ strained' = TRUE
          /\ UNCHANGED <<spent, limit, limitParked>>
    /\ UNCHANGED <<open, older>>

(* An exit that a spent limit explains: it parks.                          *)
ExitParks ==
    /\ st \notin {"killed", "done"} /\ limited = "none" /\ limit # "none"
    /\ child' = "exited"
    /\ st' = "waiting" /\ limitParked' = TRUE
    /\ IF limitParked
       THEN Rendezvous(terminal, TRUE, reaps) /\ UNCHANGED <<store, parks, held>>
       ELSE HandleLimited(limit, TRUE, AfterExit) /\ terminal' = "none"
    /\ UNCHANGED <<limit, open, older, strained>>

(* Any other exit: code 0 is done, another is failed unless re-opened.     *)
ExitSettles ==
    /\ st \notin {"killed", "done"} /\ limited = "none" /\ limit = "none"
    /\ \/ /\ \E code \in {"done", "failed"} :
                /\ code = "failed" => ~Reopens
                /\ HandleTerminal(code, terminal = "none", AfterExit)
                /\ st' = code
          /\ child' = "exited"
          /\ UNCHANGED <<spent, limit, limitParked, open, older, strained>>
       \/ Reopens /\ (Reopen \/ ReopenThrows)

ChildExits ==
    /\ up /\ child = "alive"
    /\ ExitIsAwaited \/ ExitUnderPark \/ ExitParks \/ ExitSettles
    /\ NotesRevival
    /\ UNCHANGED life

(* Its stdout has been read to the end.                                    *)
Drains ==
    /\ up /\ child = "exited" /\ open
    /\ open' = FALSE
    /\ UNCHANGED <<store, life, parks, ending, session, child, older, history>>

-----------------------------------------------------------------------------
(* What is left of a session that was replaced: it has the handlers of any *)
(* other, and the maps they write are the agent's.  Its own state is not   *)
(* followed, so that whatever a session can be told may be told.           *)

OldTurn ==
    /\ up /\ older # "none"
    /\ \/ /\ HandleTerminal("done", exited, reaps)
          /\ strained' = TRUE
          /\ UNCHANGED <<spent, session>>
       \/ /\ limited = "none"
          /\ \E park \in Limits \ {"none"} : HandleLimited(park, exited, reaps)
          /\ UNCHANGED <<terminal, session, strained>>
       \/ /\ ~parked /\ \E clock \in BOOLEAN : HandleWaiting(st, clock)
          /\ UNCHANGED strained
       \/ /\ ~parked /\ nudges < StallNudges /\ ~exited
          /\ nudges' = nudges + 1
          /\ row' = "running" /\ reason' = FALSE
          /\ UNCHANGED <<task, spent, question, parked, limited, stalled, ending, session, strained>>
    /\ NotesRevival
    /\ UNCHANGED <<life, process>>

OldExits ==
    /\ up /\ older = "alive"
    /\ older' = "open"
    /\ \/ /\ limited = "none"
          /\ Rendezvous(terminal, TRUE, reaps)
          /\ UNCHANGED <<store, parks, held>>
       \/ /\ limited = "none"
          /\ \E park \in Limits \ {"none"} : HandleLimited(park, TRUE, AfterExit)
          /\ terminal' = "none"
       \/ /\ limited # "none"
          /\ held' = FALSE /\ exited' = FALSE
          /\ UNCHANGED <<store, parks, terminal, reaps>>
       \/ /\ \E code \in {"done", "failed"} :
                HandleTerminal(code, limited = "none" /\ terminal = "none",
                               IF limited = "none" THEN AfterExit ELSE reaps)
          /\ UNCHANGED spent
    /\ NotesRevival
    /\ UNCHANGED <<session, life, child, open, strained>>

OldDrains ==
    /\ up /\ older = "open"
    /\ older' = "none"
    /\ UNCHANGED <<store, life, parks, ending, session, child, open, history>>

-----------------------------------------------------------------------------
(* Operators and clocks. *)

(* A person answers: through the escalation, which is then settled, or by  *)
(* typing into the agent, which leaves the escalation open.                *)
Answer ==
    /\ up
    /\ Respond
    /\ question' \in {question, FALSE}
    /\ UNCHANGED <<life, process, history>>

(* Mutant of Dismiss: every park is released with the latch.               *)
DismissReleasesLimit ==
    /\ up /\ question
    /\ question' = FALSE /\ parked' = FALSE /\ stalled' = FALSE /\ limited' = "none"
    /\ UNCHANGED <<row, reason, task, spent, nudges, life, ending, session, process, history>>

(* EscalationInbox.dismiss() and releasePark(): the latch goes, the limit  *)
(* park and the row stay.                                                  *)
Dismiss ==
    /\ up /\ question
    /\ question' = FALSE /\ parked' = FALSE /\ stalled' = FALSE
    /\ UNCHANGED <<row, reason, task, spent, limited, nudges, life, ending, session, process, history>>

(* resumeParked(), asked by an operator or by resumeExpiredParks() of the  *)
(* pulse: a message to the session, or a new launch.                       *)
ResumeParked ==
    /\ up /\ limited # "none"
    /\ \/ /\ held
          /\ st' = "running" /\ limitParked' = FALSE
          /\ Clear
          /\ row' = "running" /\ reason' = FALSE /\ task' = "running"
          /\ UNCHANGED <<spent, question, ending, limit, process>>
       \/ /\ ~held
          /\ Clear
          /\ row' = "running" /\ reason' = FALSE /\ task' = "running"
          /\ Launch(FALSE)
          /\ UNCHANGED <<spent, question, terminal, exited>>
       \/ /\ ~held
          /\ parked' = TRUE /\ stalled' = FALSE
          /\ row' = "waiting" /\ reason' = TRUE /\ task' = "waiting"
          /\ UNCHANGED <<spent, question, limited, nudges, ending, session, process>>
    /\ UNCHANGED <<life, history>>

(* Mutant of Kill: the session is signalled before its status says so, and *)
(* decides the exit for itself.                                            *)
KillSignalsFirst ==
    /\ up /\ (held \/ limited # "none")
    /\ row' = "killed" /\ task' = "interrupted" /\ question' = FALSE
    /\ Clear
    /\ held' = FALSE
    /\ Rendezvous("killed", exited \/ ~held, reaps)
    /\ UNCHANGED <<reason, spent, life, session, process, history>>

(* kill(), asked by an operator, an ejection, a lift or the end of a goal. *)
(* An agent parked on a limit whose session is gone has no exit to come.   *)
Kill ==
    /\ up /\ (held \/ limited # "none")
    /\ row' = "killed" /\ task' = "interrupted" /\ question' = FALSE
    /\ st' = IF held THEN "killed" ELSE st
    /\ Clear
    /\ held' = FALSE
    /\ Rendezvous("killed", exited \/ ~held, reaps)
    /\ UNCHANGED <<reason, spent, life, limit, limitParked, process, history>>

(* complete(): the work is declared done for the agent.                    *)
Complete ==
    /\ up /\ held
    /\ st' = "killed"
    /\ HandleTerminal("done", exited, reaps)
    /\ UNCHANGED <<spent, life, limit, limitParked, process, history>>

(* completeExpiredStalls(): a clock nobody answered runs out.              *)
StallExpires ==
    /\ up /\ stalled
    /\ IF limited = "none" /\ held
       THEN Complete
       ELSE /\ stalled' = FALSE
            /\ UNCHANGED <<store, life, parked, limited, nudges, ending, session, process, history>>

-----------------------------------------------------------------------------
(* Shutdown, crash and recovery. *)

(* interruptAll(): every session in the map is killed and its row says so; *)
(* a terminal status is not recorded, and the task is left outstanding.    *)
InterruptAll ==
    /\ up /\ ~stopping
    /\ stopping' = TRUE
    /\ IF held
       THEN /\ st' = "killed" /\ row' = "interrupted"
            /\ held' = FALSE /\ exited' = FALSE
            /\ parked' = FALSE /\ limited' = "none"
       ELSE UNCHANGED <<st, row, held, exited, parked, limited>>
    /\ UNCHANGED <<reason, task, spent, question, up, stalled, nudges, terminal, reaps, limit,
                   limitParked, process, history>>

(* The process exits or crashes: the store is what is left.  The claude    *)
(* process loses its stdin and is not heard of again.                      *)
HarnessDies ==
    /\ up
    /\ up' = FALSE /\ stopping' = FALSE
    /\ Forget
    /\ held' = FALSE /\ terminal' = "none" /\ exited' = FALSE /\ reaps' = 0
    /\ st' = "none" /\ limit' = "none" /\ limitParked' = FALSE
    /\ child' = "none" /\ open' = FALSE /\ older' = "none"
    /\ strained' = FALSE
    /\ UNCHANGED <<store, revived>>

Outstanding == task \in {"queued", "running", "waiting"}
Orphaned == row \in {"crashed", "interrupted"} /\ Outstanding

(* RecoveryDesk.detect(): a row that still claims to be live is crashed.   *)
Boot ==
    /\ ~up
    /\ up' = TRUE
    /\ row' = IF row \in Live /\ Outstanding THEN "crashed" ELSE row
    /\ UNCHANGED <<reason, task, spent, question, stopping, parks, ending, session, process, history>>

(* decide('restore'): resume() of the orphaned row, which is put back as   *)
(* it was if the launch throws.                                            *)
Restore ==
    /\ up /\ ~stopping /\ ~held /\ Orphaned
    /\ CarryOn
    /\ Launch(FALSE)
    /\ revived' = FALSE
    /\ UNCHANGED <<spent, life, strained, limited, stalled, nudges, terminal, exited>>

(* decide('requeue') and decide('remove'): the row and the task are let    *)
(* go, and what the agent asked is dismissed.                              *)
StandDown ==
    /\ up /\ ~stopping /\ Orphaned
    /\ row' = "interrupted" /\ task' = "interrupted" /\ question' = FALSE
    /\ UNCHANGED <<reason, spent, life, parks, ending, session, process, history>>

Next ==
    \/ ReadsLimit \/ SaysDone \/ TurnMeetsLimit \/ TurnAsks \/ TurnStops
    \/ AskTool \/ GoesSilent
    \/ ChildExits \/ Drains
    \/ OldTurn \/ OldExits \/ OldDrains
    \/ Answer \/ Dismiss \/ ResumeParked \/ Kill \/ Complete \/ StallExpires
    \/ InterruptAll \/ HarnessDies \/ Boot \/ Restore \/ StandDown

(* Fairness: a process that was signalled, or told by the end of its stdin *)
(* that it is done, exits.  Nothing is assumed of people or of an agent    *)
(* that works.                                                             *)
Fairness == WF_vars(ChildExits /\ st \in {"killed", "done"})

Spec == Init /\ [][Next]_vars /\ Fairness

-----------------------------------------------------------------------------
(* Properties. *)

(* Type invariant: the rows, the manager's maps, the parks and the session *)
(* hold values the code gives them; the resume budget and the nudges are   *)
(* bounded.                                                                *)
TypeOK ==
    /\ row \in Live \cup Ended \cup {"interrupted", "crashed"}
    /\ task \in {"running", "waiting", "done", "failed", "interrupted"}
    /\ spent \in 0..ResumeAttempts
    /\ {reason, question, up, stopping} \subseteq BOOLEAN
    /\ {held, parked, stalled, exited, limitParked, open} \subseteq BOOLEAN
    /\ {limited, limit} \subseteq Limits
    /\ nudges \in 0..StallNudges
    /\ terminal \in Ended \cup {"none"}
    /\ st \in Live \cup Ended \cup {"none"}
    /\ child \in {"alive", "exited", "none"}
    /\ older \in {"alive", "open", "none"}
    /\ reaps \in 0..2
    /\ {strained, revived} \subseteq BOOLEAN

(* "reaped" releases the worktree slot, so it is never emitted of a launch *)
(* whose process is alive or whose session is in use: not by an exit left  *)
(* over from the launch before it, and never twice.                        *)
ReapedOnceAndLast ==
    /\ reaps <= 1
    /\ reaps = 1 => child = "exited" /\ ~held

(* What the documents promise of the rendezvous: once the process is gone  *)
(* no ending is left half recorded.  A terminal status that waits for an   *)
(* exit which has been and gone keeps the worktree slot leased for good.   *)
EndingMeetsExit == child = "exited" => terminal = "none"

(* The slot of an agent comes back when it should, by the rendezvous of    *)
(* status and exit (maybeReap()): once, after the process, however         *)
(* re-openings, kills and lines read late fall, unless such a line has     *)
(* revived the row; and no ending waits for an exit that has been, but for *)
(* one recorded when its exit had been forgotten.                          *)
ReapIsSound ==
    ~revived =>
        /\ ReapedOnceAndLast
        /\ EndingMeetsExit \/ strained

(* Work is never stranded: a row that claims to be live belongs to a       *)
(* session that can still end it, or to a limit park that can be resumed   *)
(* or killed.                                                              *)
LiveRowIsReachable ==
    up /\ row \in Live => held \/ limited # "none"

(* A session in use is that of a row and a task both still outstanding, so *)
(* the origin and the branch stay claimed while the agent works.           *)
SessionHoldsItsTask ==
    held => row \in Live /\ task \in {"running", "waiting"}

(* A row that awaits a verdict after a restart has no process, not even of *)
(* a session before the last: to restore it makes one agent, not two.      *)
OrphanHasNoProcess ==
    up /\ ~stopping /\ Orphaned => child = "none" /\ older = "none" /\ ~held

(* Rows, tasks, sessions and processes belong together (agentManager.ts,   *)
(* recoveryDesk.ts): what is at work has its claim and an orphan has no    *)
(* process, whoever speaks; and nothing that claims to be at work is out   *)
(* of reach, unless a session that had been let go put it there.           *)
RowsAreReachable ==
    /\ SessionHoldsItsTask
    /\ OrphanHasNoProcess
    /\ ~revived => LiveRowIsReachable

(* A park on a limit never costs the work: until it is resumed or killed   *)
(* the row is live and the task outstanding.                               *)
LimitParkKeepsWork ==
    limited # "none" => row \in Live /\ task \in {"running", "waiting"}

(* The stall clock declares work complete, so it must not outlive the      *)
(* answer, the dismissal or the ending of what it was armed for, nor run   *)
(* on an agent that is out of limits.                                      *)
ClockStandsOnPark ==
    stalled /\ ~stopping => parked /\ limited = "none"

(* A park costs no work, neither on a limit nor through the clock that     *)
(* AgentParks arms on it, whichever session parks, released or replaced.   *)
(* A clock runs on an agent in use, unless its row was revived: that clock *)
(* finds no session to complete.                                           *)
ParksKeepWork ==
    /\ LimitParkKeepsWork
    /\ ClockStandsOnPark
    /\ ~revived /\ stalled /\ ~stopping => held

(* What a session that was let go may still do: read a turn, fall silent,  *)
(* or, if it was let go without being told to end, exit.                   *)
LetGoActs ==
    \/ OldTurn \/ OldExits
    \/ ~held /\ (SaysDone \/ TurnMeetsLimit \/ TurnAsks \/ TurnStops \/ GoesSilent)
    \/ ~held /\ (strained \/ revived) /\ ChildExits

(* A decided ending stays: what was killed, done or failed is not touched  *)
(* again, row or task, by an exit, an answer, a clock, a resume, a         *)
(* recovery or a restart.  Only what is read late of a session that was    *)
(* let go can do that (stall() and setWaiting() look at waiting and done   *)
(* only).                                                                  *)
DecidedIsFinal ==
    [][(row \in Ended) => (row' = row /\ task' = task) \/ LetGoActs]_vars

(* The part of it the documents state: an ending is never re-opened.       *)
EndingStaysClosed ==
    [][(row \in Ended) => (row' \notin Live)]_vars

(* What ended is reaped: the process that was signalled or told to go does *)
(* exit, and the rendezvous closes, but for an ending recorded when its    *)
(* exit had been forgotten, and a row that was revived.                    *)
EndingIsReaped == terminal # "none" ~> terminal = "none" \/ strained \/ revived
=============================================================================
