----------------------------- MODULE RemoteRuns -----------------------------
(***************************************************************************)
(* Validation runs against deployed environments (validation/remote/): the *)
(* operator's OK on a sheet and the pulse that presses it (intent.ts), the *)
(* press, its pin and the lock on an environment (run.ts), the agent that  *)
(* the dispatcher sends on an open run, its listing (listing.ts) and its   *)
(* report (readings.ts), and the sweep of runs whose agent has gone        *)
(* (desk.ts).  A press, a report and a pass over the OKs await commands    *)
(* and files in the middle, and a cancel, an answer, a deployment, another *)
(* press or the end of the process may come in each of those gaps.         *)
(*                                                                         *)
(* A sheet is a goal on an environment with the tenant it resolves to; its *)
(* rows are one or more state queries, which the press reads, and one      *)
(* check, which is the agent's where the sheet owes it one.                *)
(***************************************************************************)
EXTENDS Naturals, FiniteSets, Sequences

CONSTANTS
    Goals, Envs,
    Owing,       \* the goals whose sheet holds a check for an agent to carry out
    Builds,      \* what may be deployed
    Holding,     \* the builds that hold the goals' work
    NoBuild,     \* a probe that named no commit
    MaxRuns,     \* bound: runs that may be opened
    Routes,      \* requests to press, from the cockpit or the desktop; the pulse is one more presser
    Pulse,
    Oks,         \* bound: times each sheet is OK'd
    Moves,       \* bound: deployments, changed pages, requested presses, readings people take and OKs they take back
    Boots        \* bound: crashes

ASSUME RemoteRunsAssumption ==
    /\ Owing \subseteq Goals /\ Holding \subseteq Builds
    /\ NoBuild \notin Builds
    /\ Pulse \notin Routes
    /\ MaxRuns \in Nat /\ Oks \in Nat /\ Moves \in Nat /\ Boots \in Nat

Sheets   == Goals \X Envs
Runs     == 1 .. MaxRuns
NoRun    == 0
NoSheet  == <<>>
Pressers == Routes \cup {Pulse}
Commits  == Builds \cup {NoBuild}

VARIABLES
    build,      \* what each environment runs now
    runs,       \* the rows of remote_runs
    readings,   \* what each run's rows came back as
    checks,     \* whose reading each goal's check row carries, nobody's where it is unrun
    agents,     \* the agents started on each run: how many, and the last one's state
    calls,      \* the listing or report each run's agent is waiting on
    presses,    \* each presser's press
    intents,    \* the OK of each sheet
    pages,      \* the page each sheet shows
    pulse,      \* where the pulse is, with the OKs it listed and the runs it will dispatch for
    moves,
    crashes     \* the crashes so far: of each, the run whose press by the pulse it cut off, if there was one

outside == <<build, pages, moves, crashes>>
answers == <<checks, intents>>
vars    == <<build, runs, readings, checks, agents, calls, presses, intents, pages, pulse, moves, crashes>>

Statuses == {"unused", "pending", "dispatched", "ended", "abandoned"}
RunRow   == [status : Statuses, sheet : Sheets \cup {NoSheet}, ok : Nat, start : Commits, task : Nat]
Reading  == [by : {"press", "listing", "agent"}, outcome : {"answered", "passed", "failed", "blocked"}, end : Commits]
Hands    == {"nobody", "person", "instrument"}
Call     == [at : {"none", "listing", "report", "fold", "ending"}, build : Commits, seen : Hands, spared : BOOLEAN]
Press    == [at : {"idle", "pinning", "pinned", "reading", "ending"}, sheet : Sheets \cup {NoSheet},
             ok : Nat, build : Commits, run : Runs \cup {NoRun}]
Intent   == [state : {"none", "given", "not_here", "withdrawn", "consumed"}, page : Nat, no : Nat]
Listed   == [sheet : Sheets, page : Nat, no : Nat]

Unopened == [status |-> "unused", sheet |-> NoSheet, ok |-> 0, start |-> NoBuild, task |-> 0]
NoCall   == [at |-> "none", build |-> NoBuild, seen |-> "nobody", spared |-> FALSE]
NoPress  == [at |-> "idle", sheet |-> NoSheet, ok |-> 0, build |-> NoBuild, run |-> NoRun]
AtRest   == [at |-> "idle", queue |-> {}, plan |-> {}]

TypeOK ==
    /\ build \in [Envs -> Builds]
    /\ runs \in [Runs -> RunRow]
    /\ readings \in [Runs -> SUBSET Reading]
    /\ checks \in [Goals -> Hands]
    /\ agents \in [Runs -> [no : Nat, working : BOOLEAN]]
    /\ calls \in [Runs -> Call]
    /\ presses \in [Pressers -> Press]
    /\ intents \in [Sheets -> Intent]
    /\ pages \in [Sheets -> Nat]
    /\ pulse \in [at : {"idle", "intents", "dispatch"}, queue : SUBSET Listed, plan : SUBSET Runs]
    /\ moves \in 0 .. Moves
    /\ crashes \in Seq(Runs \cup {NoRun}) /\ Len(crashes) <= Boots

Init ==
    /\ build \in [Envs -> Builds]
    /\ runs = [r \in Runs |-> Unopened]
    /\ readings = [r \in Runs |-> {}]
    /\ checks = [g \in Goals |-> "nobody"]
    /\ agents = [r \in Runs |-> [no |-> 0, working |-> FALSE]]
    /\ calls = [r \in Runs |-> NoCall]
    /\ presses = [p \in Pressers |-> NoPress]
    /\ intents = [s \in Sheets |-> [state |-> "none", page |-> 0, no |-> 0]]
    /\ pages = [s \in Sheets |-> 0]
    /\ pulse = AtRest
    /\ moves = 0 /\ crashes = <<>>

Live(r)    == runs[r].status \in {"pending", "dispatched"}
LiveOn(e)  == {r \in Runs : Live(r) /\ runs[r].sheet[2] = e}
GoalOf(r)  == runs[r].sheet[1]
EnvOf(r)   == runs[r].sheet[2]
Owes(r)    == GoalOf(r) \in Owing

\* The UPDATE that settles a run, which finds only a live row.
Settled(r, how) == IF Live(r) THEN [runs EXCEPT ![r].status = how] ELSE runs

\* A reading is appended, never replaced.
Read(r, rd) == [readings EXCEPT ![r] = @ \cup {rd}]

\* The UPDATE that writes a run's closing commit onto every reading it took.
Attributed(r, b) == [readings EXCEPT ![r] = {[rd EXCEPT !.end = b] : rd \in @}]

\* What an environment's probe may say: the commit deployed, or nothing.
Probed(e) == {build[e], NoBuild}

-----------------------------------------------------------------------------
(* The world and the operator's answers. *)

OneMove == moves < Moves /\ moves' = moves + 1

Deploy(e) ==
    /\ OneMove
    /\ \E b \in Builds \ {build[e]} : build' = [build EXCEPT ![e] = b]
    /\ UNCHANGED <<runs, readings, agents, calls, presses, pulse, pages, crashes, answers>>

\* A check is amended, a query edited, the set authored again.
PageMoves(s) ==
    /\ OneMove
    /\ pages' = [pages EXCEPT ![s] = @ + 1]
    /\ UNCHANGED <<build, runs, readings, agents, calls, presses, pulse, crashes, answers>>

\* A person reads the check, at the page or the keyboard, or sets it back to unrun.
PersonRecords(g) ==
    /\ OneMove
    /\ \E h \in {"person", "nobody"} : checks' = [checks EXCEPT ![g] = h]
    /\ UNCHANGED <<runs, readings, agents, calls, presses, intents, pulse, build, pages, crashes>>

\* give() writes its intent last, over the page that then stands.
Give(s) ==
    /\ intents[s].no < Oks
    /\ intents' = [intents EXCEPT ![s] = [state |-> "given", page |-> pages[s], no |-> @.no + 1]]
    /\ UNCHANGED <<runs, readings, checks, agents, calls, presses, pulse, outside>>

NotHere(s) ==
    /\ OneMove
    /\ intents' = [intents EXCEPT ![s] = [state |-> "not_here", page |-> 0, no |-> @.no]]
    /\ UNCHANGED <<runs, readings, checks, agents, calls, presses, pulse, build, pages, crashes>>

\* The flips of a given intent, which find no other.
Flipped(s, how) == IF intents[s].state = "given" THEN [intents EXCEPT ![s].state = how] ELSE intents

Withdraw(s) ==
    /\ OneMove
    /\ intents[s].state = "given"
    /\ intents' = Flipped(s, "withdrawn")
    /\ UNCHANGED <<runs, readings, checks, agents, calls, presses, pulse, build, pages, crashes>>

Cancel(e) ==
    /\ \E r \in LiveOn(e) : runs' = Settled(r, "abandoned")
    /\ UNCHANGED <<readings, agents, calls, presses, pulse, outside, answers>>

-----------------------------------------------------------------------------
(* The press: pressable and the tenant are read at once, then the pin is awaited, then the lock is *)
(* taken, and the state rows are read under it.                                                    *)

Pressing(p, s, ok) == [NoPress EXCEPT !.at = "pinning", !.sheet = s, !.ok = ok]

RoutePresses(p, s) ==
    /\ OneMove
    /\ presses[p].at = "idle"
    /\ presses' = [presses EXCEPT ![p] = Pressing(p, s, 0)]
    /\ UNCHANGED <<runs, readings, agents, calls, pulse, build, pages, crashes, answers>>

PinReads(p) ==
    /\ presses[p].at = "pinning"
    /\ \E b \in Probed(presses[p].sheet[2]) : presses' = [presses EXCEPT ![p].at = "pinned", ![p].build = b]
    /\ UNCHANGED <<runs, readings, agents, calls, pulse, outside, answers>>

\* The press answers; the pulse marks the OK it pressed consumed where a run was opened.
ReturnsLive(p, opened) ==
    /\ presses' = [presses EXCEPT ![p] = NoPress]
    /\ intents' = IF p = Pulse /\ presses[p].at # "pinned" THEN Flipped(presses[p].sheet, "consumed") ELSE intents
Returns(p, opened) ==
    /\ presses' = [presses EXCEPT ![p] = NoPress]
    /\ intents' = IF p = Pulse /\ opened THEN Flipped(presses[p].sheet, "consumed") ELSE intents

\* Bound: with every run spent a press is refused like one that met a live run.
Spent == \A r \in Runs : runs[r].status # "unused"

PressRefused(p) ==
    /\ presses[p].at = "pinned"
    /\ LiveOn(presses[p].sheet[2]) # {} \/ Spent
    /\ Returns(p, FALSE)
    /\ UNCHANGED <<runs, readings, checks, agents, calls, pulse, outside>>

Opened(p, status) ==
    [status |-> status, sheet |-> presses[p].sheet, ok |-> presses[p].ok, start |-> presses[p].build, task |-> 0]

FreeUnasked(p, r) ==
    /\ presses[p].at = "pinned"
    /\ runs[r].status = "unused" /\ \A q \in 1 .. r - 1 : runs[q].status # "unused"
Free(p, r) ==
    /\ presses[p].at = "pinned"
    /\ LiveOn(presses[p].sheet[2]) = {}
    /\ runs[r].status = "unused" /\ \A q \in 1 .. r - 1 : runs[q].status # "unused"

\* The probe named a commit and the goal's work is in it.
Pinned(p) == presses[p].build \in Holding

\* No commit, no landing, a clone that cannot say, or a build the work has gone from: the run is
\* written and abandoned at once.
PinLost(p, r) ==
    /\ Free(p, r)
    /\ runs' = [runs EXCEPT ![r] = Opened(p, "abandoned")]
    /\ Returns(p, TRUE)
    /\ UNCHANGED <<readings, checks, agents, calls, pulse, outside>>

PressOpens(p, r) ==
    /\ Free(p, r)
    /\ Pinned(p)
    /\ runs' = [runs EXCEPT ![r] = Opened(p, "pending")]
    /\ presses' = [presses EXCEPT ![p] = [NoPress EXCEPT !.at = "reading", !.sheet = presses[p].sheet, !.run = r]]
    /\ UNCHANGED <<readings, agents, calls, pulse, outside, answers>>

ReadsRow(p) ==
    /\ presses[p].at = "reading"
    /\ readings' = Read(presses[p].run, [by |-> "press", outcome |-> "answered", end |-> NoBuild])
    /\ UNCHANGED <<runs, agents, calls, presses, pulse, outside, answers>>

\* The rows are read.  A check the agent owes leaves the run open for the rule to dispatch.
LeavesOpen(p) ==
    /\ presses[p].at = "reading"
    /\ Owes(presses[p].run)
    /\ Returns(p, TRUE)
    /\ UNCHANGED <<runs, readings, checks, agents, calls, pulse, outside>>

NothingOwed(p) ==
    /\ presses[p].at = "reading"
    /\ ~Owes(presses[p].run)
    /\ presses' = [presses EXCEPT ![p].at = "ending"]
    /\ UNCHANGED <<runs, readings, agents, calls, pulse, outside, answers>>

PressEnds(p) ==
    /\ presses[p].at = "ending"
    /\ \E b \in Probed(presses[p].sheet[2]) : readings' = Attributed(presses[p].run, b)
    /\ runs' = Settled(presses[p].run, "ended")
    /\ Returns(p, TRUE)
    /\ UNCHANGED <<checks, agents, calls, pulse, outside>>

-----------------------------------------------------------------------------
(* The pulse: the sweep, the OKs one after another, then the rule and its dispatches. *)

\* A dispatched run whose task is known and no longer active.
ForsakenUnnamed(r) == runs[r].status = "dispatched" /\ ~agents[r].working /\ runs[r].task # agents[r].no
Forsaken(r) == runs[r].status = "dispatched" /\ ~(agents[r].working /\ runs[r].task = agents[r].no)

Sweep ==
    /\ pulse.at = "idle"
    /\ runs' = [r \in Runs |-> IF Forsaken(r) THEN [runs[r] EXCEPT !.status = "abandoned"] ELSE runs[r]]
    /\ pulse' = [at |-> "intents", plan |-> {},
                 queue |-> {[sheet |-> s, page |-> intents[s].page, no |-> intents[s].no] :
                              s \in {t \in Sheets : intents[t].state = "given"}}]
    /\ UNCHANGED <<readings, agents, calls, presses, outside, answers>>

\* An OK's turn comes once the press of the one before has answered.
Turn(i) ==
    /\ pulse.at = "intents" /\ presses[Pulse].at = "idle"
    /\ i \in pulse.queue
    /\ pulse' = [pulse EXCEPT !.queue = @ \ {i}]

OkLapses(i) ==
    /\ Turn(i)
    /\ pages[i.sheet] # i.page
    /\ intents' = Flipped(i.sheet, "withdrawn")
    /\ UNCHANGED <<runs, readings, checks, agents, calls, presses, outside>>

OkWaits(i) ==
    /\ Turn(i)
    /\ pages[i.sheet] = i.page
    /\ LiveOn(i.sheet[2]) # {}
    /\ UNCHANGED <<runs, readings, agents, calls, presses, outside, answers>>

OkPresses(i) ==
    /\ Turn(i)
    /\ pages[i.sheet] = i.page
    /\ LiveOn(i.sheet[2]) = {}
    /\ presses' = [presses EXCEPT ![Pulse] = Pressing(Pulse, i.sheet, i.no)]
    /\ UNCHANGED <<runs, readings, agents, calls, outside, answers>>

\* The rule: an open run that owes its check to an agent and has none on its origin.
AwaitsWhileLive(r) == Live(r) /\ Owes(r) /\ ~agents[r].working
Awaits(r) == runs[r].status = "pending" /\ Owes(r) /\ ~agents[r].working

Decide ==
    /\ pulse.at = "intents" /\ presses[Pulse].at = "idle" /\ pulse.queue = {}
    /\ pulse' = [pulse EXCEPT !.at = "dispatch",
                   !.plan = {r \in Runs : Awaits(r)}]
    /\ UNCHANGED <<runs, readings, agents, calls, presses, outside, answers>>

Proposed(r) == pulse.at = "dispatch" /\ r \in pulse.plan

\* The task is written and its agent started, then the run is claimed if it is still pending.
Started(r) == [agents EXCEPT ![r] = [no |-> @.no + 1, working |-> TRUE]]
Claimed(r) == IF runs[r].status = "pending"
              THEN [runs EXCEPT ![r].status = "dispatched", ![r].task = agents[r].no + 1]
              ELSE runs

Dispatch(r) ==
    /\ Proposed(r) /\ ~agents[r].working
    /\ agents' = Started(r)
    /\ runs' = Claimed(r)
    /\ pulse' = [pulse EXCEPT !.plan = @ \ {r}]
    /\ UNCHANGED <<readings, calls, presses, outside, answers>>

\* A gate, the cap or the spawn itself keeps the agent from starting; a later pulse proposes it again.
NotDispatched(r) ==
    /\ Proposed(r)
    /\ pulse' = [pulse EXCEPT !.plan = @ \ {r}]
    /\ UNCHANGED <<runs, readings, agents, calls, presses, outside, answers>>

EndPulse ==
    /\ pulse.at = "dispatch" /\ pulse.plan = {}
    /\ pulse' = AtRest
    /\ UNCHANGED <<runs, readings, agents, calls, presses, outside, answers>>

-----------------------------------------------------------------------------
(* The agent's tools.  Each asks whether the run is live and is refused where it is not. *)

Answered(r) == agents[r].working /\ calls[r].at = "none" /\ Live(r)

Lists(r) ==
    /\ Answered(r)
    /\ calls' = [calls EXCEPT ![r].at = "listing"]
    /\ UNCHANGED <<runs, readings, agents, presses, pulse, outside, answers>>

\* The listing is read and folded, whatever has become of the run meanwhile.
ListingFolds(r) ==
    /\ calls[r].at = "listing"
    /\ calls' = [calls EXCEPT ![r] = NoCall]
    /\ \/ readings' = Read(r, [by |-> "listing", outcome |-> "blocked", end |-> NoBuild])
       \/ UNCHANGED readings
    /\ UNCHANGED <<runs, agents, presses, pulse, outside, answers>>

CouldNotRun(r) ==
    /\ Answered(r)
    /\ runs' = Settled(r, "abandoned")
    /\ UNCHANGED <<readings, agents, calls, presses, pulse, outside, answers>>

Reports(r) ==
    /\ Answered(r)
    /\ calls' = [calls EXCEPT ![r].at = "report"]
    /\ UNCHANGED <<runs, readings, agents, presses, pulse, outside, answers>>

\* Whether the run's check row reads blocked already; what the press read has rows of its own.
BlockedByListing(r) == \E rd \in readings[r] : rd.by = "listing"
ListingBlocked(r) == \E rd \in readings[r] : rd.outcome = "blocked"

\* The report and the closing commit are in: the check and the rows the listing blocked are read
\* once, before the rows are folded.
ReportRead(r) ==
    /\ calls[r].at = "report"
    /\ \E b \in Probed(EnvOf(r)) :
         calls' = [calls EXCEPT ![r] = [at |-> "fold", build |-> b, seen |-> checks[GoalOf(r)], spared |-> ListingBlocked(r)]]
    /\ UNCHANGED <<runs, readings, agents, presses, pulse, outside, answers>>

\* A failure read across two builds is no reading; a pass is one.
Moved(r) == NoBuild \notin {runs[r].start, calls[r].build} /\ runs[r].start # calls[r].build
MoveUnaware(r, o) == o
MoveAware(r, o) == IF Moved(r) /\ o = "failed" THEN "blocked" ELSE o

\* The instrument writes where nothing was read, or where what was read is its own.
MayWrite(by) == by # "person"

\* The screen a row handed back has been kept, and the row is written.
RowFolds(r) ==
    /\ calls[r].at = "fold"
    /\ calls' = [calls EXCEPT ![r].at = "ending"]
    /\ IF calls[r].spared
       THEN UNCHANGED <<readings, checks>>
       ELSE \E o \in {"passed", "failed", "blocked"} :
              LET read == MoveAware(r, o) IN
              /\ readings' = Read(r, [by |-> "agent", outcome |-> read, end |-> calls[r].build])
              /\ checks' = IF read # "blocked" /\ MayWrite(calls[r].seen)
                           THEN [checks EXCEPT ![GoalOf(r)] = "instrument"]
                           ELSE checks
    /\ UNCHANGED <<runs, agents, presses, intents, pulse, outside>>

ReportEnds(r) ==
    /\ calls[r].at = "ending"
    /\ readings' = Attributed(r, calls[r].build)
    /\ runs' = Settled(r, "ended")
    /\ calls' = [calls EXCEPT ![r] = NoCall]
    /\ UNCHANGED <<agents, presses, pulse, outside, answers>>

\* It finishes, crashes, is killed or spends its park.
AgentEnds(r) ==
    /\ agents[r].working
    /\ agents' = [agents EXCEPT ![r].working = FALSE]
    /\ UNCHANGED <<runs, readings, calls, presses, pulse, outside, answers>>

-----------------------------------------------------------------------------
(* The process ends and starts again.  Presses, reports and the pulse are gone; recovery gives an  *)
(* agent back or gives its task up.                                                                *)
Recovered(was) ==
    \E lost \in SUBSET Runs :
      agents' = [r \in Runs |-> IF r \in lost THEN [was[r] EXCEPT !.working = FALSE] ELSE was[r]]

Restart ==
    /\ Len(crashes) < Boots
    /\ crashes' = Append(crashes, presses[Pulse].run)
    /\ calls' = [r \in Runs |-> NoCall]
    /\ presses' = [p \in Pressers |-> NoPress]
    /\ pulse' = AtRest
    /\ UNCHANGED <<build, runs, readings, pages, moves, answers>>

Crash == Recovered(agents) /\ Restart

\* It ends between the task it has just written and the claim.
DiesUnclaimed(r) == Proposed(r) /\ ~agents[r].working /\ Recovered(Started(r)) /\ Restart

-----------------------------------------------------------------------------
World == (\E e \in Envs : Deploy(e)) \/ (\E s \in Sheets : PageMoves(s)) \/ (\E g \in Goals : PersonRecords(g))

Operator == (\E s \in Sheets : Give(s) \/ NotHere(s) \/ Withdraw(s)) \/ (\E e \in Envs : Cancel(e))

PressStep(p) ==
    \/ PinReads(p) \/ PressRefused(p) \/ ReadsRow(p) \/ LeavesOpen(p) \/ NothingOwed(p) \/ PressEnds(p)
    \/ \E r \in Runs : PinLost(p, r) \/ PressOpens(p, r)

PulseStep ==
    \/ Sweep \/ Decide \/ EndPulse
    \/ \E i \in pulse.queue : OkLapses(i) \/ OkWaits(i) \/ OkPresses(i)
    \/ \E r \in Runs : Dispatch(r) \/ NotDispatched(r)

HandlerStep(r) == ListingFolds(r) \/ ReportRead(r) \/ RowFolds(r) \/ ReportEnds(r)

AgentStep(r) == Lists(r) \/ CouldNotRun(r) \/ Reports(r) \/ AgentEnds(r) \/ HandlerStep(r)

\* The pulse goes from one OK to the next without an await between, so nothing else runs.
Busy == pulse.at = "intents" /\ presses[Pulse].at = "idle" /\ pulse.queue # {}

Elsewhere ==
    \/ World \/ Operator
    \/ \E p \in Routes, s \in Sheets : RoutePresses(p, s)
    \/ \E p \in Pressers : PressStep(p)
    \/ \E r \in Runs : AgentStep(r)

Next ==
    \/ PulseStep
    \/ ~Busy /\ Elsewhere
    \/ Crash \/ \E r \in Runs : DiesUnclaimed(r)

\* Commands are awaited under timeouts, the heartbeat beats, and an agent ends.
Fairness ==
    /\ WF_vars(PulseStep)
    /\ \A p \in Pressers : WF_vars(PressStep(p))
    /\ \A r \in Runs : WF_vars(HandlerStep(r)) /\ WF_vars(AgentEnds(r)) /\ SF_vars(Dispatch(r))

Spec == Init /\ [][Next]_vars /\ Fairness

-----------------------------------------------------------------------------
(* Properties. *)

\* Two presses against one (environment, tenant) yield one run (store/remoteValidation.ts,
\* beginRemoteRun), though each press asked before it awaited its pin.
OneRunPerTenant == \A q, r \in Runs : Live(q) /\ Live(r) /\ EnvOf(q) = EnvOf(r) => q = r

\* Nothing is run where the environment no longer holds the goal's work (run.ts, pin): no reading and
\* no agent belongs to a run that was opened on another build.
PinHeld == \A r \in Runs : readings[r] # {} \/ agents[r].no > 0 => runs[r].start \in Holding

\* One agent per run: none is started on a run that another has claimed, settled or not.
OneAgentPerRun == \A r \in Runs : runs[r].task > 0 => runs[r].task = agents[r].no

\* A block the listing or an earlier pass wrote is not overwritten (readings.ts, listingBlockedRows):
\* once a row of a run reads blocked no later step adds a reading of it that does not.
Blocked(r) == \E rd \in readings[r] : rd.outcome = "blocked"
AgentsRead(r) == {rd.outcome : rd \in {x \in readings[r] : x.by = "agent"}} \ {"blocked"}
BlockStands == [][\A r \in Runs : Blocked(r) => AgentsRead(r)' \subseteq AgentsRead(r)]_vars

\* A failure stands only for a run that began and ended on one build (readings.ts, moveAware).  A
\* report repeated after a crash closes the run on its own commit, so this is of a life without one.
FailureIsOfOneBuild ==
    Boots = 0 => \A r \in Runs : \A rd \in readings[r] :
       rd.by = "agent" /\ rd.outcome = "failed" => rd.end \in {NoBuild, runs[r].start}

\* A run whose press a crash cut off: its row is written and the OK behind it is not consumed yet.
CutOff(r) == \E i \in DOMAIN crashes : crashes[i] = r

\* An OK opens one run (intent.ts, press), crash or no crash, but for one: where the process ended
\* between a run's row and the consuming of its OK, the OK is pressed again.  So of the runs one OK
\* opened at most one was not cut off.
OfOneOk(q, r) == runs[q].ok > 0 /\ runs[q].ok = runs[r].ok /\ runs[q].sheet = runs[r].sheet
OkOpensOneRun == \A q, r \in Runs : OfOneOk(q, r) => q = r \/ CutOff(q) \/ CutOff(r)

\* Every reading a run took carries the commit it ended on (readings.ts, settle).  It does where the
\* pulse opened the run: nobody is dispatched on it before its press has read its rows.
OneClosingCommit(r) == \A x, y \in readings[r] : x.end = y.end
OkdRunIsAttributed == \A r \in Runs : runs[r].status = "ended" /\ runs[r].ok > 0 => OneClosingCommit(r)

\* What a run's readings say is of the build they name: read where the goal's work is, closed on one
\* commit, and no failure accuses a build it was not read on (run.ts, readings.ts).
ReadingsAreTold == PinHeld /\ OkdRunIsAttributed /\ FailureIsOfOneBuild

\* The rows keep their shape and account for the agents: a run is one agent's (store/remoteValidation.ts,
\* claimRemoteRun), whatever crash falls between the task and the claim.
RunsAreAccounted == TypeOK /\ OneAgentPerRun

\* A run that was dispatched is settled: reported on, called off, or swept once its agent has gone.
RunSettles == \A r \in Runs : runs[r].status = "dispatched" ~> ~Live(r)

\* A given OK is answered, by a run, by a lapse or by the operator.
OkIsAnswered == \A s \in Sheets : intents[s].state = "given" ~> intents[s].state # "given" \/ Spent

\* So an environment is not held for good by an agent that is gone, across crashes: its run settles and
\* the OK behind it is answered (desk.ts, sweep; intent.ts, run).
RunsComeToAnEnd == RunSettles /\ OkIsAnswered

-----------------------------------------------------------------------------
(* What the lock on an environment promises, and how the rows of remote_runs keep it. *)

Holder == [e \in Envs |-> IF LiveOn(e) = {} THEN NoRun ELSE CHOOSE r \in LiveOn(e) : TRUE]
Lock   == INSTANCE TenantLock WITH holder <- Holder, spent <- {r \in Runs : runs[r].status # "unused"}

\* Every step opens a run on an environment nobody holds, lets go of some, or leaves the locks alone
\* (store/remoteValidation.ts, beginRemoteRun and endRemoteRun): no lock passes from run to run and
\* no settled run holds one again.
KeepsTheLock == Lock!Spec

\* The lock is exclusive, though the holder it is handed to was chosen before the pin was awaited.
LockIsExclusive == []OneRunPerTenant /\ KeepsTheLock

-----------------------------------------------------------------------------
(* What the documents say and the code does not keep. *)

\* An OK is consumed once (intent.ts, give), so no two runs are of one OK.
OkConsumedOnce == \A q, r \in Runs : OfOneOk(q, r) => q = r

\* Every run's readings, a cockpit's press included, carry one closing commit.
EndedIsAttributed == \A r \in Runs : runs[r].status = "ended" => OneClosingCommit(r)

\* The pulse presses nothing for a sheet its operator will not validate.
NotHereIsNotPressed ==
    [][\A s \in Sheets : intents[s].state = "not_here" /\ presses[Pulse].at = "idle"
                            => ~(presses[Pulse].at = "pinning" /\ presses[Pulse].sheet = s)']_vars

\* A reading a person took is theirs: no instrument writes over it.
PersonsReadingStands == [][\A g \in Goals : checks[g] = "person" => checks'[g] # "instrument"]_vars
=============================================================================
