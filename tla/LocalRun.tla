------------------------------ MODULE LocalRun ------------------------------
(***************************************************************************)
(* LocalRunner (src/src/localRun/runner.ts): the one dev environment of    *)
(* the machine.  A run is a row of local_runs and a Claude session that    *)
(* holds the environment up; the runner keeps one reference to a session,  *)
(* one run id (its claim on a row) and one promise of a stop.              *)
(*                                                                         *)
(* start() and refresh() await a stop and two git commands, so calls of    *)
(* several clients (the panel, the validation route, the desktop tool)     *)
(* interleave: a call is a record that says what it awaits.  What runs     *)
(* between two awaits is one action.  Events of a session arrive in their  *)
(* own actions, at any time.                                               *)
(*                                                                         *)
(* A commit is <<ref, n>>: the n-th tip of a ref.  Instructions, the tail, *)
(* the phase, usage, urls and pids are left out; the settings are live     *)
(* fields, so whether a stop or resume instruction is set is a choice made *)
(* each time the code reads it.                                            *)
(***************************************************************************)
EXTENDS Naturals, FiniteSets

CONSTANTS
    Refs,           \* the branches a run may be asked at
    Calls,          \* start() and refresh() calls in flight at once, at most
    None,           \* no commit, no ref
    MaxRuns,        \* bound: rows of local_runs
    MaxSessions,    \* bound: sessions not yet gone
    MaxPushes,      \* bound: tips a ref moves through
    MaxBoots,       \* bound: deaths of the harness
    DesktopEarly,   \* TRUE: the desktop server takes calls before the boot is over
    PushesLate      \* TRUE: a push may land while a call is in flight

ASSUME BoundsAssumption ==
    /\ MaxRuns \in Nat \ {0}
    /\ MaxSessions \in Nat \ {0}
    /\ {MaxPushes, MaxBoots} \subseteq Nat
    /\ {DesktopEarly, PushesLate} \subseteq BOOLEAN

VARIABLES
    rows,       \* local_runs: run -> its status and commit
    tree,       \* the commit the preview checkout stands at
    tips,       \* how often each ref was pushed
    up,         \* the harness: "booting", "up", "closing" (shutdown began), "dead"
    boots,      \* deaths so far
    runId,      \* LocalRunner.runId; 0 is null
    session,    \* LocalRunner.session; 0 is null
    inFlight,   \* LocalRunner.inFlight, reduced to whether a turn is in flight
    stopping,   \* LocalRunner.stopping: the run, the session told, whether it is a fresh one
    procs,      \* every session's process, whoever still refers to it
    calls       \* the calls in flight

vars == <<rows, tree, tips, up, boots, runId, session, inFlight, stopping, procs, calls>>
runner == <<runId, session, inFlight, stopping, procs>>

-----------------------------------------------------------------------------
Runs == 1 .. MaxRuns
Sessions == 1 .. MaxSessions
Commits == Refs \X (0 .. MaxPushes)
LiveStatus == {"starting", "running", "stopping"}
Tip(ref) == <<ref, tips[ref]>>

NoStop == [run |-> 0, told |-> 0, fresh |-> FALSE]
Idle == [pc |-> "idle", op |-> "none", ref |-> None, run |-> 0, next |-> None, target |-> None]
NoRow == [status |-> "none", ref |-> None, commit |-> None]
NoProc == [state |-> "gone", run |-> 0]

(* liveLocalRun(): the live row, 0 when there is none. *)
LiveRuns == {r \in Runs : rows[r].status \in LiveStatus}
LiveRun == IF LiveRuns = {} THEN 0 ELSE CHOOSE r \in LiveRuns : \A s \in LiveRuns : s <= r

(* A process an action may start: one that is gone and that nothing names. *)
FreeSessions == {p \in Sessions : procs[p].state = "gone" /\ p \notin {session, stopping.told}}
NewSession == CHOOSE p \in FreeSessions : TRUE

(* session.send(): the session has a turn to take, unless it is ending. *)
Told(ps, p) == [ps EXCEPT ![p].state = IF @ = "idle" THEN "busy" ELSE @]

(* stopSession(), and the kill of a fresh stop session: reap and signal.   *)
(* The process ends later, in SessionExits; what a killed session still    *)
(* says is read by handlers keyed on a run id that is no longer held.      *)
Killed(ps, dying) == [p \in Sessions |-> IF p \in dying /\ ps[p].state # "gone"
                                           THEN [ps[p] EXCEPT !.state = "closing"] ELSE ps[p]]

Settled(r, status) == [rows EXCEPT ![r].status = status]

(* settle() lets go of the claim on the run it settles. *)
Unclaimed(r) == IF runId = r THEN 0 ELSE runId

(* What beginLocalRun() makes of the rows before it writes its own. *)
Superseded(r) == IF r \in LiveRuns THEN [rows[r] EXCEPT !.status = "stopped"] ELSE rows[r]

(* A wired handler acts for the run its session was started for, while the *)
(* runner claims it; the exit handler also asks that it is the live one.   *)
Claims(p) == runId # 0 /\ runId = procs[p].run
ExitFails(p) == Claims(p) /\ LiveRun = runId

Init ==
    /\ rows = [r \in Runs |-> NoRow]
    /\ tree = None
    /\ tips = [ref \in Refs |-> 0]
    /\ up = "up"
    /\ boots = 0
    /\ runId = 0
    /\ session = 0
    /\ inFlight = FALSE
    /\ stopping = NoStop
    /\ procs = [p \in Sessions |-> NoProc]
    /\ calls = [c \in Calls |-> Idle]

Listening == up \in {"up", "closing"} \/ (up = "booting" /\ DesktopEarly)

-----------------------------------------------------------------------------
(* Stopping *)

(* Mutant: a stop's turn begins with the run still claimed. *)
StopTurnKeepsClaim ==
    /\ session # 0
    /\ rows' = Settled(LiveRun, "stopping")
    /\ inFlight' = TRUE
    /\ stopping' = [run |-> LiveRun, told |-> session, fresh |-> FALSE]
    /\ procs' = Told(procs, session)
    /\ UNCHANGED <<session, runId>>

(* stop() with an instruction: the row is stopping, the claim on it is     *)
(* dropped, and the session that holds the environment, or a fresh one in  *)
(* its checkout, is told; the promise is kept.                             *)
StopTurn ==
    LET fresh == session = 0
        told == IF fresh THEN NewSession ELSE session
    IN /\ fresh => FreeSessions # {}
       /\ rows' = Settled(LiveRun, "stopping")
       /\ runId' = 0
       /\ inFlight' = TRUE
       /\ stopping' = [run |-> LiveRun, told |-> told, fresh |-> fresh]
       /\ procs' = IF fresh THEN [procs EXCEPT ![told] = [state |-> "busy", run |-> 0]]
                            ELSE Told(procs, told)
       /\ UNCHANGED session

(* stop() with no instruction set, or with no session held and none that   *)
(* could be started: the kill and the settlement follow at once.           *)
StopAtOnce ==
    /\ procs' = Killed(procs, {session})
    /\ session' = 0
    /\ rows' = Settled(LiveRun, "stopped")
    /\ runId' = 0
    /\ inFlight' = FALSE
    /\ UNCHANGED stopping

(* stop(): joins the stop under way, kills what a run that ended left, or  *)
(* takes the live run down.  `then` is where its caller goes next.         *)
StopNow(then) ==
    \/ /\ stopping.run # 0
       /\ then = "stop"
       /\ UNCHANGED <<rows, runner>>
    \/ /\ stopping.run = 0
       /\ LiveRun = 0
       /\ then = "resolve"
       /\ procs' = Killed(procs, {session})
       /\ session' = 0
       /\ UNCHANGED <<rows, runId, inFlight, stopping>>
    \/ /\ stopping.run = 0
       /\ LiveRun # 0
       /\ \/ then = "stop" /\ StopTurn
          \/ then = "resolve" /\ StopAtOnce

(* Mutant: the session that took the stop's turn is let go, not killed. *)
StopOverLetsGo(ps) ==
    /\ procs' = ps
    /\ session' = 0
    /\ rows' = Settled(stopping.run, "stopped")
    /\ runId' = Unclaimed(stopping.run)
    /\ inFlight' = FALSE
    /\ stopping' = NoStop
    /\ calls' = [c \in Calls |-> IF calls[c].pc = "stop" THEN [calls[c] EXCEPT !.pc = "resolve"]
                                                        ELSE calls[c]]

(* The rest of runStop() once its turn is over: the kills, the settlement, *)
(* and every caller that waited goes on to its checkout.                   *)
StopOver(ps) ==
    /\ procs' = Killed(ps, {session} \cup (IF stopping.fresh THEN {stopping.told} ELSE {}))
    /\ session' = 0
    /\ rows' = Settled(stopping.run, "stopped")
    /\ runId' = Unclaimed(stopping.run)
    /\ inFlight' = FALSE
    /\ stopping' = NoStop
    /\ calls' = [c \in Calls |-> IF calls[c].pc = "stop" THEN [calls[c] EXCEPT !.pc = "resolve"]
                                                        ELSE calls[c]]

(* Mutant: only a fresh session's stop has a timer. *)
StopTimesOutFresh ==
    /\ up # "dead"
    /\ stopping.fresh
    /\ StopOver(procs)
    /\ UNCHANGED <<tree, tips, up, boots>>

StopAsked ==
    /\ Listening
    /\ \E then \in {"stop", "resolve"} : StopNow(then)
    /\ UNCHANGED <<tree, tips, up, boots, calls>>

StopTimesOut ==
    /\ up # "dead"
    /\ stopping.run # 0
    /\ StopOver(procs)
    /\ UNCHANGED <<tree, tips, up, boots>>

-----------------------------------------------------------------------------
(* start() and refresh(), from await to await *)

(* The bound on rows, kept where a start is asked: every start has its row. *)
Room == Cardinality({r \in Runs : rows[r].status # "none"})
          + Cardinality({c \in Calls : calls[c].op = "start"}) < MaxRuns

(* Mutant: the checkout is prepared while the stop goes on. *)
StartAskedAtOnce(c, ref) ==
    /\ Listening
    /\ Room
    /\ calls[c].pc = "idle"
    /\ \E then \in {"stop", "resolve"} : StopNow(then)
    /\ calls' = [calls EXCEPT ![c] = [Idle EXCEPT !.pc = "resolve", !.op = "start", !.ref = ref]]
    /\ UNCHANGED <<tree, tips, up, boots>>

StartAsked(c, ref) ==
    /\ Listening
    /\ Room
    /\ calls[c].pc = "idle"
    /\ \E then \in {"stop", "resolve"} :
         /\ StopNow(then)
         /\ calls' = [calls EXCEPT ![c] = [Idle EXCEPT !.pc = then, !.op = "start", !.ref = ref]]
    /\ UNCHANGED <<tree, tips, up, boots>>

(* refresh() up to its first await: refused unless the run is up and quiet. *)
RefreshAsked(c) ==
    /\ Listening
    /\ calls[c].pc = "idle"
    /\ LiveRun # 0
    /\ stopping.run = 0
    /\ rows[LiveRun].status = "running"
    /\ ~inFlight
    /\ calls' = [calls EXCEPT ![c] = [Idle EXCEPT !.pc = "look", !.op = "refresh",
                                        !.ref = rows[LiveRun].ref, !.run = LiveRun,
                                        !.next = rows[LiveRun].commit]]
    /\ UNCHANGED <<rows, tree, tips, up, boots, runner>>

(* previewCommit() answered: nothing to pick up, or the checkout is asked. *)
Look(c) ==
    /\ up # "dead"
    /\ calls[c].pc = "look"
    /\ calls' = [calls EXCEPT ![c] = IF Tip(calls[c].ref) = calls[c].next THEN Idle
                   ELSE [calls[c] EXCEPT !.pc = "resolve", !.next = Tip(calls[c].ref)]]
    /\ UNCHANGED <<rows, tree, tips, up, boots, runner>>

(* ensurePreview(): the ref is resolved ... *)
Resolve(c) ==
    /\ up # "dead"
    /\ calls[c].pc = "resolve"
    /\ calls' = [calls EXCEPT ![c] = [@ EXCEPT !.pc = "reset", !.target = Tip(calls[c].ref)]]
    /\ UNCHANGED <<rows, tree, tips, up, boots, runner>>

(* ... and the tree is reset to what it was resolved to. *)
Reset(c) ==
    /\ up # "dead"
    /\ calls[c].pc = "reset"
    /\ tree' = calls[c].target
    /\ calls' = [calls EXCEPT ![c].pc = "ready"]
    /\ UNCHANGED <<rows, tips, up, boots, runner>>

(* Git refuses: the call ends with the error.  A reset that fails half way *)
(* leaves the tree at no commit.                                           *)
GitFails(c) ==
    /\ up # "dead"
    /\ calls[c].pc \in {"look", "resolve", "reset"}
    /\ calls' = [calls EXCEPT ![c] = Idle]
    /\ \/ UNCHANGED tree
       \/ calls[c].pc = "reset" /\ tree' = None
    /\ UNCHANGED <<rows, tips, up, boots, runner>>

(* The rest of start(): beginLocalRun() ends whatever is live and writes   *)
(* the new row in one transaction; then the session.  One that cannot be   *)
(* started fails the run and is kept, unstarted, as the runner's session.  *)
Begin(c) ==
    /\ up # "dead"
    /\ calls[c].pc = "ready"
    /\ calls[c].op = "start"
    /\ FreeSessions # {}
    /\ \E r \in Runs, starts \in BOOLEAN :
         /\ rows[r].status = "none"
         /\ \A s \in Runs : s < r => rows[s].status # "none"
         /\ rows' = [s \in Runs |->
              IF s = r THEN [status |-> IF starts THEN "starting" ELSE "failed",
                             ref |-> calls[c].ref, commit |-> calls[c].target]
              ELSE Superseded(s)]
         /\ runId' = IF starts THEN r ELSE 0
         /\ inFlight' = starts
         /\ session' = NewSession
         /\ procs' = IF starts THEN [procs EXCEPT ![NewSession] = [state |-> "busy", run |-> r]]
                               ELSE procs
    /\ calls' = [calls EXCEPT ![c] = Idle]
    /\ UNCHANGED <<tree, tips, up, boots, stopping>>

(* Mutant: the run is not asked for again after the checkout. *)
StillRunsAsBefore(c) == rows[calls[c].run].status # "none"

(* Mutant: the refresh tells the session and records nothing. *)
LandForgetsCommit(c) ==
    /\ up # "dead"
    /\ calls[c].pc = "ready"
    /\ calls[c].op = "refresh"
    /\ calls' = [calls EXCEPT ![c] = Idle]
    /\ UNCHANGED <<rows, tree, tips, up, boots, runner>>

(* The rest of refresh(): the run is asked for again; if it still runs its *)
(* commit is recorded, and the session, if one is held, is told; with none *)
(* the row is noted as running.                                            *)
StillRuns(c) ==
    /\ LiveRun = calls[c].run
    /\ rows[LiveRun].status = "running"
    /\ stopping.run = 0

Land(c) ==
    /\ up # "dead"
    /\ calls[c].pc = "ready"
    /\ calls[c].op = "refresh"
    /\ IF StillRuns(c)
         THEN /\ rows' = [rows EXCEPT ![calls[c].run].commit = calls[c].next,
                                     ![calls[c].run].status = IF session = 0 THEN "running" ELSE @]
              /\ inFlight' = (inFlight \/ session # 0)
              /\ procs' = IF session = 0 THEN procs ELSE Told(procs, session)
         ELSE UNCHANGED <<rows, inFlight, procs>>
    /\ calls' = [calls EXCEPT ![c] = Idle]
    /\ UNCHANGED <<tree, tips, up, boots, runId, session, stopping>>

(* send(): a message to the session, as a turn of its own. *)
Send ==
    /\ Listening
    /\ LiveRun # 0
    /\ rows[LiveRun].status = "running"
    /\ stopping.run = 0
    /\ ~inFlight
    /\ session # 0
    /\ inFlight' = TRUE
    /\ procs' = Told(procs, session)
    /\ UNCHANGED <<rows, tree, tips, up, boots, runId, session, stopping, calls>>

-----------------------------------------------------------------------------
(* A session's events *)

(* Mutant: only the turn that brings a run up is read as ended. *)
TurnEndsAStart(p) ==
    /\ up # "dead"
    /\ procs[p].state = "busy"
    /\ IF stopping.told = p
         THEN StopOver([procs EXCEPT ![p].state = "idle"])
         ELSE /\ procs' = [procs EXCEPT ![p].state = "idle"]
              /\ IF Claims(p) /\ rows[runId].status = "starting"
                   THEN rows' = Settled(runId, "running") /\ inFlight' = FALSE
                   ELSE UNCHANGED <<rows, inFlight>>
              /\ UNCHANGED <<runId, session, stopping, calls>>
    /\ UNCHANGED <<tree, tips, up, boots>>

(* Its turns are over (done, waiting, stalled or limited; done also ends   *)
(* the process).  A stop that told this session goes on; otherwise up():   *)
(* the environment is up, if the runner still claims that run.             *)
TurnEnds(p) ==
    /\ up # "dead"
    /\ procs[p].state = "busy"
    /\ \E after \in {"idle", "closing"} :
         LET ps == [procs EXCEPT ![p].state = after]
         IN IF stopping.told = p
              THEN StopOver(ps)
              ELSE /\ procs' = ps
                   /\ IF Claims(p)
                        THEN rows' = Settled(runId, "running") /\ inFlight' = FALSE
                        ELSE UNCHANGED <<rows, inFlight>>
                   /\ UNCHANGED <<runId, session, stopping, calls>>
    /\ UNCHANGED <<tree, tips, up, boots>>

(* The process exits: a stop that told it goes on; otherwise the run fails *)
(* if the runner still claims it and it is the live one.  An event failed  *)
(* follows an exit and finds the run settled.                              *)
SessionExits(p) ==
    /\ up # "dead"
    /\ procs[p].state # "gone"
    /\ LET ps == [procs EXCEPT ![p] = NoProc]
       IN IF stopping.told = p
            THEN StopOver(ps)
            ELSE /\ procs' = ps
                 /\ IF ExitFails(p)
                      THEN rows' = Settled(runId, "failed") /\ inFlight' = FALSE /\ runId' = 0
                      ELSE UNCHANGED <<rows, inFlight, runId>>
                 /\ UNCHANGED <<session, stopping, calls>>
    /\ UNCHANGED <<tree, tips, up, boots>>

-----------------------------------------------------------------------------
(* Shutdown, death and boot *)

(* stopFast(): no turn.  The row is left live if a boot could bring it     *)
(* back, settled if not.  Calls in flight go on until the process is gone. *)
StopFast ==
    /\ up = "up"
    /\ up' = "closing"
    /\ runId' = 0
    /\ inFlight' = FALSE
    /\ session' = 0
    /\ procs' = Killed(procs, {session})
    /\ \/ UNCHANGED rows
       \/ LiveRun # 0 /\ rows' = Settled(LiveRun, "stopped")
    /\ UNCHANGED <<tree, tips, boots, stopping, calls>>

(* The process ends, after a shutdown or in a crash: rows and checkout     *)
(* stay, memory goes, and the sessions end with their stdin.               *)
Dies ==
    /\ up # "dead"
    /\ boots < MaxBoots
    /\ up' = "dead"
    /\ boots' = boots + 1
    /\ runId' = 0
    /\ session' = 0
    /\ inFlight' = FALSE
    /\ stopping' = NoStop
    /\ procs' = [p \in Sessions |-> NoProc]
    /\ calls' = [c \in Calls |-> Idle]
    /\ UNCHANGED <<rows, tree, tips>>

Boot ==
    /\ up = "dead"
    /\ up' = "booting"
    /\ UNCHANGED <<rows, tree, tips, boots, runner, calls>>

(* resumeInterrupted(): a live row is settled when it was being stopped,   *)
(* when no resume instruction is set, when its checkout is gone or when it *)
(* is too old; otherwise a session is started on it, and fails it if it    *)
(* cannot be.                                                              *)
Resumable == rows[LiveRun].status # "stopping"

ResumeInterrupted ==
    /\ up = "booting"
    /\ up' = "up"
    /\ \/ /\ LiveRun = 0
          /\ UNCHANGED <<rows, runner>>
       \/ /\ LiveRun # 0
          /\ rows' = Settled(LiveRun, "stopped")
          /\ inFlight' = FALSE
          /\ runId' = Unclaimed(LiveRun)
          /\ UNCHANGED <<session, stopping, procs>>
       \/ /\ LiveRun # 0
          /\ Resumable
          /\ FreeSessions # {}
          /\ session' = NewSession
          /\ \/ /\ rows' = Settled(LiveRun, "starting")
                /\ runId' = LiveRun
                /\ inFlight' = TRUE
                /\ procs' = [procs EXCEPT ![NewSession] = [state |-> "busy", run |-> LiveRun]]
             \/ /\ rows' = Settled(LiveRun, "failed")
                /\ runId' = 0
                /\ inFlight' = FALSE
                /\ UNCHANGED procs
          /\ UNCHANGED stopping
    /\ UNCHANGED <<tree, tips, boots, calls>>

(* External: an agent pushes to a branch a run may be on. *)
Push(ref) ==
    /\ PushesLate \/ \A c \in Calls : calls[c].pc = "idle"
    /\ tips[ref] < MaxPushes
    /\ tips' = [tips EXCEPT ![ref] = @ + 1]
    /\ UNCHANGED <<rows, tree, up, boots, runner, calls>>

-----------------------------------------------------------------------------
CallGoesOn(c) == Look(c) \/ Resolve(c) \/ Reset(c) \/ Begin(c) \/ Land(c)

Next ==
    \/ StopAsked
    \/ StopTimesOut
    \/ \E c \in Calls, ref \in Refs : StartAsked(c, ref)
    \/ \E c \in Calls : RefreshAsked(c) \/ CallGoesOn(c) \/ GitFails(c)
    \/ Send
    \/ \E p \in Sessions : TurnEnds(p) \/ SessionExits(p)
    \/ StopFast
    \/ Dies
    \/ Boot
    \/ ResumeInterrupted
    \/ \E ref \in Refs : Push(ref)

(* Git answers, a killed process ends, the stop's timer fires, and a       *)
(* harness that died is started again and boots through.                   *)
Fairness ==
    /\ \A c \in Calls : WF_vars(CallGoesOn(c))
    /\ \A p \in Sessions : WF_vars(procs[p].state = "closing" /\ SessionExits(p))
    /\ WF_vars(StopTimesOut)
    /\ WF_vars(Boot)
    /\ WF_vars(ResumeInterrupted)

Spec == Init /\ [][Next]_vars /\ Fairness

-----------------------------------------------------------------------------
(* Type correctness of the runner, its rows, its sessions and its calls;   *)
(* a call that waits for a stop has one to wait for.                       *)
TypeOK ==
    /\ rows \in [Runs -> [status : {"none", "stopped", "failed"} \cup LiveStatus,
                         ref : Refs \cup {None}, commit : Commits \cup {None}]]
    /\ tree \in Commits \cup {None}
    /\ tips \in [Refs -> 0 .. MaxPushes]
    /\ up \in {"booting", "up", "closing", "dead"}
    /\ boots \in 0 .. MaxBoots
    /\ runId \in {0} \cup Runs
    /\ session \in {0} \cup Sessions
    /\ inFlight \in BOOLEAN
    /\ stopping \in [run : {0} \cup Runs, told : {0} \cup Sessions, fresh : BOOLEAN]
    /\ procs \in [Sessions -> [state : {"gone", "busy", "idle", "closing"}, run : {0} \cup Runs]]
    /\ calls \in [Calls -> [pc : {"idle", "stop", "look", "resolve", "reset", "ready"},
                           op : {"none", "start", "refresh"}, ref : Refs \cup {None},
                           run : {0} \cup Runs, next : Commits \cup {None},
                           target : Commits \cup {None}]]
    /\ stopping.run = 0 => \A c \in Calls : calls[c].pc # "stop"

(* "One environment, so one run": at most one row is live, whatever starts, *)
(* stops, refreshes, crashes and late events overlap (beginLocalRun(),      *)
(* settle(), up()).                                                         *)
OneLiveRun == \A r, s \in LiveRuns : r = s

(* A row that reads starting or running in a harness that is up is watched: *)
(* the runner claims it and a session of that run has yet to exit, so its   *)
(* exit will settle the row (wire()'s exit handler, keyed on the run id).   *)
LiveRunIsWatched ==
    up = "up" =>
      \A r \in Runs : rows[r].status \in {"starting", "running"} =>
        runId = r /\ \E p \in Sessions : procs[p].run = r /\ procs[p].state # "gone"

(* The claim on a row goes with the row: the runner never claims a run that *)
(* is being stopped or has ended, so no late event can revive it.           *)
ClaimIsLive == runId # 0 => rows[runId].status \in {"starting", "running"}

(* The runner and the rows agree on the one run there is: with any number   *)
(* of calls awaiting git at once, a shutdown that overtakes them and a      *)
(* desktop call before the boot is over.                                    *)
LiveRunIsKept == TypeOK /\ OneLiveRun /\ LiveRunIsWatched /\ ClaimIsLive

(* An ended run never lives again, and one being stopped only ends: not its *)
(* stop turn's own end, not a boot and not a refresh brings it back.        *)
EndedIsFinal ==
    [][\A r \in Runs :
         /\ rows[r].status \in {"stopped", "failed"} => rows'[r].status \in {"stopped", "failed"}
         /\ rows[r].status = "stopping" => rows'[r].status \in {"stopping", "stopped"}]_vars

(* A stop ends, told or not: a swap waits for it, and a harness that waited *)
(* for ever could start nothing again (STOP_TIMEOUT_MS, runStop()'s finally). *)
StopIsBounded == stopping.run # 0 ~> stopping.run = 0

(* Every start and refresh answers its caller. *)
CallIsAnswered == \A c \in Calls : calls[c].pc # "idle" ~> calls[c].pc = "idle"

(* The runner owns every session that is not ending: it is the one it holds *)
(* or the one a stop told, so that a stop, a swap or a shutdown reaches it. *)
NoStraySession ==
    \A p \in Sessions : procs[p].state \in {"busy", "idle"} => p \in {session, stopping.told}

(* A swap stops before it prepares the checkout: no call of start() is past *)
(* its stop while a run is live, so the tree is never reset under a session. *)
SwapStopsFirst ==
    \A c \in Calls : calls[c].op = "start" /\ calls[c].pc \in {"resolve", "reset", "ready"}
                      => LiveRuns = {}

(* A turn in flight is in a session that is held and still to answer, while *)
(* the run is claimed: the flag that refuses messages and refreshes cannot  *)
(* outlive what clears it.                                                  *)
BusyIsAnswered ==
    inFlight /\ stopping.run = 0 /\ runId # 0 =>
      \E p \in Sessions : procs[p].run = runId /\ procs[p].state \in {"busy", "closing"}

(* commit_sha is where the checkout of a running environment stands, but    *)
(* for the moment a refresh is between its reset and its record: a crash in *)
(* that moment leaves them apart.                                           *)
CommitTellsTree ==
    boots = 0 /\ (\A c \in Calls : calls[c].pc = "idle") =>
      \A r \in Runs : rows[r].status = "running" => tree \in {rows[r].commit, None}

(* With one start or refresh at a time the runner accounts for its run:    *)
(* every session is in its hands, a swap stops before it prepares, a turn  *)
(* in flight will be answered and the commit on record is the tree's.      *)
RunIsAccounted == NoStraySession /\ SwapStopsFirst /\ BusyIsAnswered /\ CommitTellsTree

(* Whoever asks the runner for anything hears of it again, and a stop ends *)
(* whether its session listens or not.                                     *)
CallsEnd == StopIsBounded /\ CallIsAnswered
=============================================================================
