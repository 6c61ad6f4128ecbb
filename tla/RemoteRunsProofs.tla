-------------------------- MODULE RemoteRunsProofs --------------------------
(***************************************************************************)
(* Proofs about RemoteRuns: type correctness, one run on a tenant, the     *)
(* pin, one agent per run, the closing commit of an OK'd run, that blocks  *)
(* stand, that failures are of one build and that an OK opens one run, and *)
(* that the rows of remote_runs keep the lock.                             *)
(***************************************************************************)
EXTENDS RemoteRuns, TLAPS

\* A run that nobody has opened has left no trace, and the agents' work is on runs the pin let through.
RunPart == \A r \in Runs :
    /\ runs[r].status = "unused" => readings[r] = {} /\ agents[r].no = 0
    /\ runs[r].status # "unused" => runs[r].sheet \in Sheets
    /\ runs[r].status \in {"pending", "dispatched", "ended"} => runs[r].start \in Holding
    /\ readings[r] # {} => runs[r].start \in Holding

\* Agents are started one after another, on open runs that owe them something, and the claim names
\* the last.
AgentPart == \A r \in Runs :
    /\ agents[r].no > 0 => Owes(r) /\ runs[r].start \in Holding
    /\ agents[r].working => agents[r].no > 0
    /\ calls[r].at # "none" => agents[r].no > 0
    /\ runs[r].status \in {"unused", "pending"} => runs[r].task = 0
    /\ runs[r].task > 0 => runs[r].task = agents[r].no
    /\ r \in pulse.plan => runs[r].task = 0 /\ runs[r].status # "unused" /\ Owes(r) /\ runs[r].start \in Holding

\* A press reads under the run it opened, and the pulse waits for its own.
PressPart ==
    /\ \A p \in Pressers :
         /\ presses[p].at # "idle" => presses[p].sheet \in Sheets
         /\ presses[p].at \in {"reading", "ending"} =>
               /\ presses[p].run \in Runs
               /\ runs[presses[p].run].status # "unused"
               /\ runs[presses[p].run].sheet = presses[p].sheet
               /\ runs[presses[p].run].start \in Holding
               /\ p # Pulse => runs[presses[p].run].ok = 0
         /\ presses[p].at = "ending" => ~Owes(presses[p].run)
         /\ p # Pulse => presses[p].ok = 0
    /\ presses[Pulse].at # "idle" => pulse.at = "intents"
    /\ presses[Pulse].at \in {"reading", "ending"} => agents[presses[Pulse].run].no = 0
    /\ pulse.at # "dispatch" => pulse.plan = {}

LockPart == OneRunPerTenant

\* What the pulse's own press may still read is under a run that has not ended.
ClosingPart ==
    /\ \A r \in Runs : runs[r].status = "ended" =>
         /\ calls[r].at = "none"
         /\ runs[r].ok > 0 => ~(presses[Pulse].at \in {"reading", "ending"} /\ presses[Pulse].run = r)
    /\ OkdRunIsAttributed

\* A report knows of every block its run's row had before it read them.
BlockPart == \A r \in Runs : calls[r].at = "fold" /\ Blocked(r) => calls[r].spared

Inv == TypeOK /\ RunPart /\ AgentPart /\ PressPart /\ LockPart /\ ClosingPart /\ BlockPart

\* Without a crash an agent's readings are those of one report, closed on one commit.
AgentRead(r) == \E rd \in readings[r] : rd.by = "agent"
ReportPart == \A r \in Runs :
    /\ calls[r].at \in {"listing", "report", "fold"} => ~AgentRead(r)
    /\ calls[r].at = "none" /\ Live(r) => ~AgentRead(r)
    /\ AgentRead(r) => agents[r].no > 0
    /\ calls[r].at = "ending" => \A rd \in readings[r] :
          rd.by = "agent" /\ rd.outcome = "failed" => calls[r].build \in {NoBuild, runs[r].start}

\* An OK that opened a run is in nobody's hands but the press that opened it, unless a crash cut the
\* press off: the press of the pulse reads under it then, and what no crash cut off was never pressed again.
OkPart ==
    /\ \A i \in pulse.queue : i.no > 0 /\ i.no <= intents[i.sheet].no
    /\ \A i, j \in pulse.queue : i.sheet = j.sheet => i = j
    /\ presses[Pulse].at \in {"pinning", "pinned"} =>
         /\ presses[Pulse].ok <= intents[presses[Pulse].sheet].no
         /\ \A i \in pulse.queue : i.sheet # presses[Pulse].sheet
    /\ \A s \in Sheets : intents[s].state = "given" => intents[s].no > 0
    /\ \A r \in Runs : runs[r].ok > 0 => runs[r].sheet \in Sheets /\ runs[r].ok <= intents[runs[r].sheet].no
    /\ \A r \in Runs : runs[r].ok > 0 /\ ~CutOff(r) =>
         /\ \A i \in pulse.queue : i.sheet = runs[r].sheet => i.no # runs[r].ok
         /\ presses[Pulse].at \in {"pinning", "pinned"} /\ presses[Pulse].sheet = runs[r].sheet => presses[Pulse].ok # runs[r].ok
         /\ intents[runs[r].sheet].state = "given" /\ intents[runs[r].sheet].no = runs[r].ok =>
              presses[Pulse].at \in {"reading", "ending"} /\ presses[Pulse].run = r

CalmInv == Inv /\ ReportPart /\ FailureIsOfOneBuild

-----------------------------------------------------------------------------
(* What the updates of the rows come to. *)

\* The parts of a sheet.
LEMMA SheetParts == ASSUME NEW s \in Sheets PROVE s[1] \in Goals /\ s[2] \in Envs
  BY DEF Sheets

\* The settling UPDATE moves the status of a live row and nothing else.
LEMMA SettledIs ==
  ASSUME runs \in [Runs -> RunRow], NEW r \in Runs, NEW how \in Statuses
  PROVE  /\ Settled(r, how) \in [Runs -> RunRow]
         /\ \A q \in Runs : /\ Settled(r, how)[q].sheet = runs[q].sheet
                            /\ Settled(r, how)[q].ok = runs[q].ok
                            /\ Settled(r, how)[q].start = runs[q].start
                            /\ Settled(r, how)[q].task = runs[q].task
                            /\ Settled(r, how)[q].status = IF q = r /\ Live(r) THEN how ELSE runs[q].status
  BY DEF Settled, RunRow, Live

\* The attribution rewrites the closing commit of every reading of one run.
LEMMA AttributedIs ==
  ASSUME readings \in [Runs -> SUBSET Reading], NEW r \in Runs, NEW b \in Commits
  PROVE  /\ Attributed(r, b) \in [Runs -> SUBSET Reading]
         /\ \A q \in Runs \ {r} : Attributed(r, b)[q] = readings[q]
         /\ \A x \in Attributed(r, b)[r] :
               x.end = b /\ \E y \in readings[r] : x.by = y.by /\ x.outcome = y.outcome
         /\ \A y \in readings[r] : \E x \in Attributed(r, b)[r] : x.by = y.by /\ x.outcome = y.outcome
<1> DEFINE New == {[rd EXCEPT !.end = b] : rd \in readings[r]}
<1>1. Attributed(r, b) = [readings EXCEPT ![r] = New]  BY Zenon DEF Attributed
<1>2. ASSUME NEW y \in readings[r]
      PROVE  /\ [y EXCEPT !.end = b] \in Reading /\ [y EXCEPT !.end = b].end = b
             /\ [y EXCEPT !.end = b].by = y.by /\ [y EXCEPT !.end = b].outcome = y.outcome
  <2>1. y \in Reading  OBVIOUS
  <2> QED  BY <2>1 DEF Reading
<1>3. New \subseteq Reading  BY <1>2
<1>4. /\ Attributed(r, b) \in [Runs -> SUBSET Reading] /\ Attributed(r, b)[r] = New
      /\ \A q \in Runs \ {r} : Attributed(r, b)[q] = readings[q]
  <2> HIDE DEF New
  <2> QED  BY <1>1, <1>3
<1>5. \A x \in New : x.end = b /\ \E y \in readings[r] : x.by = y.by /\ x.outcome = y.outcome  BY <1>2
<1>6. \A y \in readings[r] : \E x \in New : x.by = y.by /\ x.outcome = y.outcome  BY <1>2
<1> QED  BY <1>4, <1>5, <1>6 DEF New

\* A reading is added to one run.
LEMMA ReadIs ==
  ASSUME readings \in [Runs -> SUBSET Reading], NEW r \in Runs, NEW rd \in Reading
  PROVE  /\ Read(r, rd) \in [Runs -> SUBSET Reading]
         /\ Read(r, rd)[r] = readings[r] \cup {rd}
         /\ \A q \in Runs \ {r} : Read(r, rd)[q] = readings[q]
  BY DEF Read

\* The claim moves a pending row to dispatched under the task just started.
LEMMA ClaimedIs ==
  ASSUME runs \in [Runs -> RunRow], agents \in [Runs -> [no : Nat, working : BOOLEAN]], NEW r \in Runs
  PROVE  /\ Claimed(r) \in [Runs -> RunRow]
         /\ \A q \in Runs \ {r} : Claimed(r)[q] = runs[q]
         /\ /\ Claimed(r)[r].sheet = runs[r].sheet
            /\ Claimed(r)[r].ok = runs[r].ok
            /\ Claimed(r)[r].start = runs[r].start
         /\ runs[r].status = "pending" => Claimed(r)[r].status = "dispatched" /\ Claimed(r)[r].task = agents[r].no + 1
         /\ runs[r].status # "pending" => Claimed(r)[r] = runs[r]
<1> DEFINE a == [runs[r] EXCEPT !.status = "dispatched"]
           b == [a EXCEPT !.task = agents[r].no + 1]
<1>1. agents[r].no + 1 \in Nat  OBVIOUS
<1>2. a \in RunRow /\ a.sheet = runs[r].sheet /\ a.ok = runs[r].ok /\ a.start = runs[r].start /\ a.status = "dispatched"
  BY DEF RunRow, Statuses
<1>3. /\ b \in RunRow /\ b.sheet = runs[r].sheet /\ b.ok = runs[r].ok /\ b.start = runs[r].start
      /\ b.status = "dispatched" /\ b.task = agents[r].no + 1
  <2> HIDE DEF a
  <2> QED  BY <1>1, <1>2 DEF RunRow
<1>4. Claimed(r) = IF runs[r].status = "pending" THEN [runs EXCEPT ![r] = b] ELSE runs  BY DEF Claimed
<1> HIDE DEF b
<1> QED  BY <1>3, <1>4

\* The agent started is the run's next.
LEMMA StartedIs ==
  ASSUME agents \in [Runs -> [no : Nat, working : BOOLEAN]], NEW r \in Runs
  PROVE  /\ Started(r) \in [Runs -> [no : Nat, working : BOOLEAN]]
         /\ \A q \in Runs \ {r} : Started(r)[q] = agents[q]
         /\ Started(r)[r].no = agents[r].no + 1 /\ Started(r)[r].working = TRUE
  BY DEF Started

\* Recovery takes agents away and leaves their numbers.
LEMMA RecoveredIs ==
  ASSUME NEW was \in [Runs -> [no : Nat, working : BOOLEAN]], Recovered(was)
  PROVE  /\ agents' \in [Runs -> [no : Nat, working : BOOLEAN]]
         /\ \A q \in Runs : agents'[q].no = was[q].no /\ (agents'[q].working => was[q].working)
<1>1. PICK lost \in SUBSET Runs :
        agents' = [q \in Runs |-> IF q \in lost THEN [was[q] EXCEPT !.working = FALSE] ELSE was[q]]
  BY Zenon DEF Recovered
<1>2. ASSUME NEW q \in Runs
      PROVE  /\ agents'[q] \in [no : Nat, working : BOOLEAN]
             /\ agents'[q].no = was[q].no /\ (agents'[q].working => was[q].working)
  <2>1. agents'[q] = IF q \in lost THEN [was[q] EXCEPT !.working = FALSE] ELSE was[q]  BY <1>1
  <2> QED  BY <2>1
<1>3. agents' = [q \in Runs |-> agents'[q]]  BY <1>1
<1> QED  BY <1>2, <1>3

\* A flip answers one given intent and nothing else.
LEMMA FlippedIs ==
  ASSUME intents \in [Sheets -> Intent], NEW s \in Sheets, NEW how \in {"withdrawn", "consumed"}
  PROVE  /\ Flipped(s, how) \in [Sheets -> Intent]
         /\ \A t \in Sheets : /\ Flipped(s, how)[t].no = intents[t].no
                              /\ Flipped(s, how)[t].page = intents[t].page
                              /\ Flipped(s, how)[t].state =
                                   IF t = s /\ intents[s].state = "given" THEN how ELSE intents[t].state
  BY DEF Flipped, Intent

\* A press that answers leaves its presser idle, and the pulse's that opened a run leaves no given OK.
LEMMA ReturnsIs ==
  ASSUME TypeOK, NEW p \in Pressers, presses[p].sheet \in Sheets, NEW opened \in BOOLEAN, Returns(p, opened)
  PROVE  /\ presses' \in [Pressers -> Press] /\ presses'[p].at = "idle" /\ presses'[p].ok = 0
         /\ \A q \in Pressers \ {p} : presses'[q] = presses[q]
         /\ intents' \in [Sheets -> Intent]
         /\ \A s \in Sheets : /\ intents'[s].no = intents[s].no
                              /\ intents'[s].state = "given" => intents[s].state = "given"
                              /\ s # presses[p].sheet => intents'[s].state = intents[s].state
         /\ p = Pulse /\ opened => intents'[presses[p].sheet].state # "given"
         /\ ~opened => intents' = intents
<1> DEFINE s0 == presses[p].sheet
<1>1. NoPress \in Press /\ NoPress.at = "idle" /\ NoPress.ok = 0  BY DEF NoPress, Press, Commits
<1>2. presses' = [presses EXCEPT ![p] = NoPress]  BY DEF Returns
<1>3. /\ presses' \in [Pressers -> Press] /\ presses'[p] = NoPress
      /\ \A q \in Pressers \ {p} : presses'[q] = presses[q]
  BY <1>1, <1>2 DEF TypeOK
<1>4. intents \in [Sheets -> Intent]  BY DEF TypeOK
<1>5. s0 \in Sheets  OBVIOUS
<1>6. intents' = IF p = Pulse /\ opened THEN Flipped(s0, "consumed") ELSE intents  BY DEF Returns
<1> HIDE DEF s0
<1>7. CASE p = Pulse /\ opened
  <2>1. intents' = Flipped(s0, "consumed")  BY <1>6, <1>7
  <2>2. /\ Flipped(s0, "consumed") \in [Sheets -> Intent]
        /\ \A t \in Sheets : /\ Flipped(s0, "consumed")[t].no = intents[t].no
                             /\ Flipped(s0, "consumed")[t].state =
                                  IF t = s0 /\ intents[s0].state = "given" THEN "consumed" ELSE intents[t].state
    BY <1>4, <1>5, FlippedIs
  <2>3. /\ intents' \in [Sheets -> Intent]
        /\ \A t \in Sheets : /\ intents'[t].no = intents[t].no
                             /\ intents'[t].state =
                                  IF t = s0 /\ intents[s0].state = "given" THEN "consumed" ELSE intents[t].state
    BY <2>1, <2>2
  <2>4. intents'[s0].state # "given"  BY <1>5, <2>3
  <2> QED  BY <1>1, <1>3, <1>7, <2>3, <2>4 DEF s0
<1>8. CASE ~(p = Pulse /\ opened)
  <2>1. intents' = intents  BY <1>6, <1>8
  <2> QED  BY <1>1, <1>3, <1>4, <1>8, <2>1
<1> QED  BY <1>7, <1>8

\* A press begins on a sheet.
LEMMA PressingIs ==
  ASSUME NEW p \in Pressers, NEW s \in Sheets, NEW ok \in Nat
  PROVE  /\ Pressing(p, s, ok) \in Press
         /\ Pressing(p, s, ok).at = "pinning" /\ Pressing(p, s, ok).sheet = s /\ Pressing(p, s, ok).ok = ok
<1> DEFINE a == [NoPress EXCEPT !.at = "pinning"]
           b == [a EXCEPT !.sheet = s]
           c == [b EXCEPT !.ok = ok]
<1>1. NoPress \in Press  BY DEF NoPress, Press, Commits
<1>2. a \in Press /\ a.at = "pinning"  BY <1>1 DEF Press
<1>3. b \in Press /\ b.at = "pinning" /\ b.sheet = s
  <2> HIDE DEF a
  <2> QED  BY <1>2 DEF Press
<1>4. c \in Press /\ c.at = "pinning" /\ c.sheet = s /\ c.ok = ok
  <2> HIDE DEF b
  <2> QED  BY <1>3 DEF Press
<1>5. Pressing(p, s, ok) = c  BY Zenon DEF Pressing
<1> QED  BY <1>4, <1>5

\* The run a press opens carries its sheet, its OK and its pin.
LEMMA OpenedIs ==
  ASSUME TypeOK, NEW p \in Pressers, presses[p].sheet \in Sheets, NEW status \in Statuses
  PROVE  /\ Opened(p, status) \in RunRow
         /\ Opened(p, status).status = status /\ Opened(p, status).sheet = presses[p].sheet
         /\ Opened(p, status).ok = presses[p].ok /\ Opened(p, status).start = presses[p].build
         /\ Opened(p, status).task = 0
<1>1. presses[p] \in Press  BY DEF TypeOK
<1>2. presses[p].ok \in Nat /\ presses[p].build \in Commits  BY <1>1 DEF Press
<1> QED  BY <1>2 DEF Opened, RunRow

-----------------------------------------------------------------------------
(* What each step does, row by row. *)

\* A step that touches no run, no reading, no agent, no call, no press and not the pulse.
inside == <<runs, readings, agents, calls, presses, pulse>>

\* What the world and the operator leave alone keeps its shape.
LEMMA InsideIs ==
  ASSUME UNCHANGED inside
  PROVE  /\ runs' = runs /\ readings' = readings /\ agents' = agents
         /\ calls' = calls /\ presses' = presses /\ pulse' = pulse
  BY Zenon DEF inside

\* The pin writes what the probe named onto the press.
LEMMA PinReadsIs ==
  ASSUME TypeOK, PressPart, NEW p \in Pressers, PinReads(p)
  PROVE  /\ presses' \in [Pressers -> Press]
         /\ \A q \in Pressers \ {p} : presses'[q] = presses[q]
         /\ presses'[p].at = "pinned" /\ presses'[p].sheet = presses[p].sheet
         /\ presses'[p].ok = presses[p].ok /\ presses'[p].run = presses[p].run
<1>1. presses \in [Pressers -> Press] /\ build \in [Envs -> Builds]  BY DEF TypeOK
<1>2. presses[p].at = "pinning"  BY DEF PinReads
<1>3. presses[p].sheet \in Sheets  BY <1>2 DEF PressPart
<1>4. presses[p].sheet[2] \in Envs  BY <1>3, SheetParts
<1>5. PICK n \in Probed(presses[p].sheet[2]) :
        presses' = [presses EXCEPT ![p].at = "pinned", ![p].build = n]
  BY Zenon DEF PinReads
<1>6. n \in Commits  BY <1>1, <1>4, <1>5 DEF Probed, Commits
<1> DEFINE a == [presses[p] EXCEPT !.at = "pinned"]
           b == [a EXCEPT !.build = n]
<1>7. a \in Press /\ a.at = "pinned" /\ a.sheet = presses[p].sheet /\ a.ok = presses[p].ok /\ a.run = presses[p].run
  BY <1>1 DEF Press
<1>8. /\ b \in Press /\ b.at = "pinned"
      /\ b.sheet = presses[p].sheet /\ b.ok = presses[p].ok /\ b.run = presses[p].run
  <2> HIDE DEF a
  <2> QED  BY <1>6, <1>7 DEF Press
<1>9. presses' = [presses EXCEPT ![p] = b]  BY <1>5
<1> HIDE DEF b
<1> QED  BY <1>1, <1>8, <1>9

\* The press that opens a run goes on to read under it.
LEMMA PressOpensIs ==
  ASSUME TypeOK, PressPart, NEW p \in Pressers, NEW r \in Runs, PressOpens(p, r)
  PROVE  /\ presses' \in [Pressers -> Press]
         /\ \A q \in Pressers \ {p} : presses'[q] = presses[q]
         /\ presses'[p].at = "reading" /\ presses'[p].sheet = presses[p].sheet
         /\ presses'[p].ok = 0 /\ presses'[p].run = r
         /\ presses[p].sheet \in Sheets
<1>1. presses \in [Pressers -> Press]  BY DEF TypeOK
<1>2. presses[p].sheet \in Sheets  BY DEF PressOpens, Free, PressPart
<1> DEFINE s == presses[p].sheet
           a == [NoPress EXCEPT !.at = "reading"]
           b == [a EXCEPT !.sheet = s]
           c == [b EXCEPT !.run = r]
<1>3. presses' = [presses EXCEPT ![p] = c]  BY DEF PressOpens
<1>4. s \in Sheets  BY <1>2
<1> HIDE DEF s
<1>5. NoPress \in Press /\ NoPress.ok = 0  BY DEF NoPress, Press, Commits
<1>6. a \in Press /\ a.at = "reading" /\ a.ok = 0  BY <1>5 DEF Press
<1>7. b \in Press /\ b.at = "reading" /\ b.ok = 0 /\ b.sheet = s
  <2> HIDE DEF a
  <2> QED  BY <1>4, <1>6 DEF Press
<1>8. c \in Press /\ c.at = "reading" /\ c.ok = 0 /\ c.sheet = s /\ c.run = r
  <2> HIDE DEF b
  <2> QED  BY <1>7 DEF Press
<1> HIDE DEF c
<1> QED  BY <1>1, <1>2, <1>3, <1>8 DEF s

\* The sweep gives up the dispatched runs whose agent has gone, and lists the given OKs.
LEMMA SweepIs ==
  ASSUME TypeOK, Sweep
  PROVE  /\ runs' \in [Runs -> RunRow]
         /\ \A q \in Runs : /\ runs'[q].sheet = runs[q].sheet /\ runs'[q].ok = runs[q].ok
                            /\ runs'[q].start = runs[q].start /\ runs'[q].task = runs[q].task
                            /\ runs'[q].status = IF Forsaken(q) THEN "abandoned" ELSE runs[q].status
         /\ pulse' \in [at : {"idle", "intents", "dispatch"}, queue : SUBSET Listed, plan : SUBSET Runs]
         /\ pulse'.at = "intents" /\ pulse'.plan = {}
         /\ \A i \in pulse'.queue : /\ i.sheet \in Sheets /\ intents[i.sheet].state = "given"
                                    /\ i.no = intents[i.sheet].no /\ i.page = intents[i.sheet].page
<1>1. runs \in [Runs -> RunRow] /\ intents \in [Sheets -> Intent]  BY DEF TypeOK
<1>2. runs' = [r \in Runs |-> IF Forsaken(r) THEN [runs[r] EXCEPT !.status = "abandoned"] ELSE runs[r]]
  BY Zenon DEF Sweep
<1>3. ASSUME NEW q \in Runs
      PROVE  /\ runs'[q] \in RunRow
             /\ runs'[q].sheet = runs[q].sheet /\ runs'[q].ok = runs[q].ok
             /\ runs'[q].start = runs[q].start /\ runs'[q].task = runs[q].task
             /\ runs'[q].status = IF Forsaken(q) THEN "abandoned" ELSE runs[q].status
  <2>1. runs'[q] = IF Forsaken(q) THEN [runs[q] EXCEPT !.status = "abandoned"] ELSE runs[q]  BY <1>2
  <2>2. runs[q] \in RunRow  BY <1>1
  <2> QED  BY <2>1, <2>2 DEF RunRow, Statuses
<1> DEFINE E(s) == [sheet |-> s, page |-> intents[s].page, no |-> intents[s].no]
           Q == {E(s) : s \in {t \in Sheets : intents[t].state = "given"}}
<1>4. pulse' = [at |-> "intents", plan |-> {}, queue |-> Q]  BY Zenon DEF Sweep
<1>5. ASSUME NEW i \in Q
      PROVE  /\ i \in Listed /\ i.sheet \in Sheets /\ intents[i.sheet].state = "given"
             /\ i.no = intents[i.sheet].no /\ i.page = intents[i.sheet].page
  <2>1. PICK s \in Sheets : intents[s].state = "given" /\ i = E(s)  OBVIOUS
  <2>2. intents[s].page \in Nat /\ intents[s].no \in Nat  BY <1>1 DEF Intent
  <2> QED  BY <2>1, <2>2 DEF Listed
<1>6. pulse'.at = "intents" /\ pulse'.plan = {} /\ pulse'.queue = Q
  <2> HIDE DEF Q
  <2> QED  BY <1>4
<1>7. pulse' \in [at : {"idle", "intents", "dispatch"}, queue : SUBSET Listed, plan : SUBSET Runs]
  <2>1. Q \subseteq Listed  BY <1>5
  <2> HIDE DEF Q
  <2> QED  BY <1>4, <2>1
<1>8. runs' = [q \in Runs |-> runs'[q]]  BY <1>2
<1>9. runs' \in [Runs -> RunRow]  BY <1>3, <1>8
<1> QED  BY <1>3, <1>5, <1>6, <1>7, <1>9

PulseType == [at : {"idle", "intents", "dispatch"}, queue : SUBSET Listed, plan : SUBSET Runs]

\* An OK's turn takes it off the pulse's list.
LEMMA TurnIs ==
  ASSUME TypeOK, NEW i, Turn(i)
  PROVE  /\ pulse' \in PulseType /\ pulse'.at = pulse.at /\ pulse'.plan = pulse.plan
         /\ pulse'.queue = pulse.queue \ {i} /\ i \in Listed /\ i \in pulse.queue
         /\ pulse.at = "intents" /\ presses[Pulse].at = "idle"
<1>1. pulse \in PulseType  BY DEF TypeOK, PulseType
<1>2. /\ pulse' = [pulse EXCEPT !.queue = @ \ {i}] /\ i \in pulse.queue
      /\ pulse.at = "intents" /\ presses[Pulse].at = "idle"
  BY Zenon DEF Turn
<1> QED  BY <1>1, <1>2 DEF PulseType

\* The rule's proposals are one fewer.
LEMMA PlanIs ==
  ASSUME TypeOK, NEW r \in Runs, pulse' = [pulse EXCEPT !.plan = @ \ {r}]
  PROVE  /\ pulse' \in PulseType /\ pulse'.at = pulse.at /\ pulse'.queue = pulse.queue
         /\ pulse'.plan = pulse.plan \ {r}
<1>1. pulse \in PulseType  BY DEF TypeOK, PulseType
<1> QED  BY <1>1 DEF PulseType

\* The rule proposes an agent for every run that awaits one.
LEMMA DecideIs ==
  ASSUME TypeOK, Decide
  PROVE  /\ pulse' \in PulseType /\ pulse'.at = "dispatch" /\ pulse'.queue = pulse.queue
         /\ \A q \in Runs : q \in pulse'.plan <=> Awaits(q)
         /\ presses[Pulse].at = "idle" /\ pulse.queue = {}
<1> DEFINE D == {r \in Runs : Awaits(r)}
           a == [pulse EXCEPT !.at = "dispatch"]
           b == [a EXCEPT !.plan = D]
<1>1. pulse \in PulseType  BY DEF TypeOK, PulseType
<1>2. pulse' = b /\ presses[Pulse].at = "idle" /\ pulse.queue = {}  BY DEF Decide
<1>3. a \in PulseType /\ a.at = "dispatch" /\ a.queue = pulse.queue  BY <1>1 DEF PulseType
<1>4. D \subseteq Runs /\ \A q \in Runs : q \in D <=> Awaits(q)  OBVIOUS
<1>5. b \in PulseType /\ b.at = "dispatch" /\ b.queue = pulse.queue /\ b.plan = D
  <2> HIDE DEF a, D
  <2> QED  BY <1>3, <1>4 DEF PulseType
<1> HIDE DEF b, D
<1> QED  BY <1>2, <1>4, <1>5

\* A pulse at rest has nothing in hand.
LEMMA AtRestIs == AtRest \in PulseType /\ AtRest.at = "idle" /\ AtRest.queue = {} /\ AtRest.plan = {}
  BY DEF AtRest, PulseType

\* A tool's call goes on to its next stage.
LEMMA CallIs ==
  ASSUME TypeOK, NEW r \in Runs, NEW at \in {"none", "listing", "report", "fold", "ending"},
         calls' = [calls EXCEPT ![r].at = at]
  PROVE  /\ calls' \in [Runs -> Call]
         /\ \A q \in Runs : calls'[q].at = IF q = r THEN at ELSE calls[q].at
         /\ \A q \in Runs : /\ calls'[q].build = calls[q].build
                            /\ calls'[q].seen = calls[q].seen /\ calls'[q].spared = calls[q].spared
<1>1. calls \in [Runs -> Call]  BY DEF TypeOK
<1> QED  BY <1>1 DEF Call

\* A tool that has answered leaves its agent no call.
LEMMA NoCallIs == NoCall \in Call /\ NoCall.at = "none"
  BY DEF NoCall, Call, Commits, Hands

\* A tool's call that has been answered is gone.
LEMMA AnsweredIs ==
  ASSUME TypeOK, NEW r \in Runs, calls' = [calls EXCEPT ![r] = NoCall]
  PROVE  /\ calls' \in [Runs -> Call] /\ calls'[r].at = "none"
         /\ \A q \in Runs \ {r} : calls'[q] = calls[q]
  BY NoCallIs DEF TypeOK

\* A report reads the check and the blocked rows once.
LEMMA ReportReadIs ==
  ASSUME TypeOK, RunPart, AgentPart, NEW r \in Runs, ReportRead(r)
  PROVE  /\ calls' \in [Runs -> Call] /\ calls[r].at = "report"
         /\ \A q \in Runs \ {r} : calls'[q] = calls[q]
         /\ calls'[r].at = "fold" /\ calls'[r].spared = ListingBlocked(r)
<1>1. calls \in [Runs -> Call] /\ build \in [Envs -> Builds] /\ checks \in [Goals -> Hands]  BY DEF TypeOK
<1>2. calls[r].at = "report"  BY DEF ReportRead
<1>3. runs[r].status # "unused"
  <2>1. agents[r].no > 0  BY <1>2 DEF AgentPart
  <2>2. runs[r].status = "unused" => agents[r].no = 0  BY Zenon DEF RunPart
  <2> QED  BY <2>1, <2>2
<1>4. runs[r].sheet \in Sheets  BY <1>3 DEF RunPart
<1>5. GoalOf(r) \in Goals /\ EnvOf(r) \in Envs  BY <1>4, SheetParts DEF GoalOf, EnvOf
<1> DEFINE g == GoalOf(r)
           sp == ListingBlocked(r)
           C(b) == [at |-> "fold", build |-> b, seen |-> checks[g], spared |-> sp]
<1>6. PICK b \in Probed(EnvOf(r)) : calls' = [calls EXCEPT ![r] = C(b)]  BY Zenon DEF ReportRead
<1>7. b \in Commits  BY <1>1, <1>5, <1>6 DEF Probed, Commits
<1>8. sp \in BOOLEAN  BY DEF ListingBlocked
<1>9. g \in Goals  BY <1>5
<1>10. C(b) \in Call /\ C(b).at = "fold" /\ C(b).spared = sp
  <2> HIDE DEF g, sp
  <2> QED  BY <1>1, <1>7, <1>8, <1>9 DEF Call
<1> HIDE DEF C, sp
<1>11. /\ calls' \in [Runs -> Call] /\ calls'[r] = C(b)
       /\ \A q \in Runs \ {r} : calls'[q] = calls[q]
  BY <1>1, <1>6, <1>10
<1> QED  BY <1>2, <1>10, <1>11 DEF sp

\* A fold adds an agent's reading of its run where no block spared the row, and that only.
LEMMA RowFoldsIs ==
  ASSUME TypeOK, RunPart, AgentPart, NEW r \in Runs, RowFolds(r)
  PROVE  /\ readings' \in [Runs -> SUBSET Reading] /\ checks' \in [Goals -> Hands]
         /\ \A q \in Runs \ {r} : readings'[q] = readings[q]
         /\ calls[r].at = "fold" /\ calls' = [calls EXCEPT ![r].at = "ending"]
         /\ \/ calls[r].spared /\ readings' = readings
            \/ ~calls[r].spared /\ \E rd \in Reading :
                 /\ readings' = Read(r, rd) /\ rd.by = "agent" /\ rd.end = calls[r].build
                 /\ rd.outcome = "failed" => ~Moved(r)
<1>1. /\ calls \in [Runs -> Call] /\ readings \in [Runs -> SUBSET Reading] /\ checks \in [Goals -> Hands]
  BY DEF TypeOK
<1>2. calls[r].at = "fold" /\ calls' = [calls EXCEPT ![r].at = "ending"]  BY DEF RowFolds
<1>3. CASE calls[r].spared
  <2>1. readings' = readings /\ checks' = checks  BY <1>3 DEF RowFolds
  <2> QED  BY <1>1, <1>2, <1>3, <2>1
<1>4. CASE ~calls[r].spared
  <2>1. PICK o \in {"passed", "failed", "blocked"} :
          /\ readings' = Read(r, [by |-> "agent", outcome |-> MoveAware(r, o), end |-> calls[r].build])
          /\ checks' = IF MoveAware(r, o) # "blocked" /\ MayWrite(calls[r].seen)
                       THEN [checks EXCEPT ![GoalOf(r)] = "instrument"]
                       ELSE checks
    BY <1>4 DEF RowFolds
  <2> DEFINE v == MoveAware(r, o)
             rd == [by |-> "agent", outcome |-> v, end |-> calls[r].build]
  <2>2. v \in {"passed", "failed", "blocked"} /\ (v = "failed" => ~Moved(r))  BY DEF MoveAware
  <2>3. rd \in Reading /\ rd.by = "agent" /\ rd.end = calls[r].build /\ (rd.outcome = "failed" => ~Moved(r))
    <3>1. calls[r].build \in Commits  BY <1>1 DEF Call
    <3> HIDE DEF v
    <3> QED  BY <2>2, <3>1 DEF Reading
  <2>4. readings' = Read(r, rd)  BY <2>1
  <2>5. checks' \in [Goals -> Hands]  BY <1>1, <2>1 DEF Hands
  <2> HIDE DEF rd
  <2>6. readings' \in [Runs -> SUBSET Reading] /\ \A q \in Runs \ {r} : readings'[q] = readings[q]
    BY <1>1, <2>3, <2>4, ReadIs
  <2> QED  BY <1>2, <1>4, <2>3, <2>4, <2>5, <2>6
<1> QED  BY <1>3, <1>4

\* The press's and the listing's readings.
LEMMA TheirReadings ==
  /\ [by |-> "press", outcome |-> "answered", end |-> NoBuild] \in Reading
  /\ [by |-> "listing", outcome |-> "blocked", end |-> NoBuild] \in Reading
  BY DEF Reading, Commits

-----------------------------------------------------------------------------
(* Type correctness. *)

\* The world's steps and the operator's answers stay outside the presses, the runs and the pulse.
LEMMA OutsideTypes ==
  ASSUME TypeOK, World \/ (\E s \in Sheets : Give(s) \/ NotHere(s) \/ Withdraw(s))
  PROVE  TypeOK' /\ UNCHANGED inside
<1> DEFINE Kept == /\ build' \in [Envs -> Builds] /\ checks' \in [Goals -> Hands]
                   /\ intents' \in [Sheets -> Intent] /\ pages' \in [Sheets -> Nat]
                   /\ moves' \in 0 .. Moves /\ crashes' = crashes /\ UNCHANGED inside
<1>1. /\ build \in [Envs -> Builds] /\ checks \in [Goals -> Hands] /\ intents \in [Sheets -> Intent]
      /\ pages \in [Sheets -> Nat] /\ moves \in 0 .. Moves /\ Moves \in Nat
  BY RemoteRunsAssumption DEF TypeOK
<1>2. OneMove => moves' \in 0 .. Moves  BY <1>1 DEF OneMove
<1>3. ASSUME NEW e \in Envs, Deploy(e)  PROVE Kept
  BY <1>1, <1>2, <1>3 DEF Deploy, inside, answers
<1>4. ASSUME NEW s \in Sheets, PageMoves(s)  PROVE Kept
  BY <1>1, <1>2, <1>4 DEF PageMoves, inside, answers
<1>5. ASSUME NEW g \in Goals, PersonRecords(g)  PROVE Kept
  BY <1>1, <1>2, <1>5 DEF PersonRecords, inside, Hands
<1>6. ASSUME NEW s \in Sheets, Give(s)  PROVE Kept
  <2> DEFINE i == [state |-> "given", page |-> pages[s], no |-> intents[s].no + 1]
  <2>1. intents' = [intents EXCEPT ![s] = i]  BY <1>6 DEF Give
  <2>2. pages[s] \in Nat /\ intents[s].no + 1 \in Nat  BY <1>1 DEF Intent
  <2>3. i \in Intent  BY <2>2 DEF Intent
  <2>4. intents' \in [Sheets -> Intent]
    <3> HIDE DEF i
    <3> QED  BY <1>1, <2>1, <2>3
  <2> QED  BY <1>1, <1>6, <2>4 DEF Give, outside, inside
<1>7. ASSUME NEW s \in Sheets, NotHere(s)  PROVE Kept
  <2> DEFINE i == [state |-> "not_here", page |-> 0, no |-> intents[s].no]
  <2>1. intents' = [intents EXCEPT ![s] = i]  BY <1>7 DEF NotHere
  <2>2. i \in Intent  BY <1>1 DEF Intent
  <2>3. intents' \in [Sheets -> Intent]
    <3> HIDE DEF i
    <3> QED  BY <1>1, <2>1, <2>2
  <2> QED  BY <1>1, <1>2, <1>7, <2>3 DEF NotHere, inside
<1>8. ASSUME NEW s \in Sheets, Withdraw(s)  PROVE Kept
  <2>1. Flipped(s, "withdrawn") \in [Sheets -> Intent]  BY <1>1, FlippedIs
  <2> QED  BY <1>1, <1>2, <1>8, <2>1 DEF Withdraw, inside
<1>9. Kept
  BY <1>3, <1>4, <1>5, <1>6, <1>7, <1>8 DEF World
<1>10. /\ runs' = runs /\ readings' = readings /\ agents' = agents
       /\ calls' = calls /\ presses' = presses /\ pulse' = pulse
  BY <1>9, InsideIs
<1> QED  BY <1>9, <1>10 DEF TypeOK

\* Each step of a press keeps the shape of the rows.
LEMMA PressTypes ==
  ASSUME TypeOK, RunPart, PressPart,
         NEW p \in Pressers, PressStep(p) \/ (\E s \in Sheets : RoutePresses(p, s))
  PROVE  TypeOK'
<1>1. /\ runs \in [Runs -> RunRow] /\ readings \in [Runs -> SUBSET Reading] /\ presses \in [Pressers -> Press]
      /\ build \in [Envs -> Builds]
  BY DEF TypeOK
<1>2. presses[p].at # "idle" => presses[p].sheet \in Sheets  BY DEF PressPart
<1>3. presses[p].at \in {"reading", "ending"} => presses[p].run \in Runs  BY DEF PressPart
<1>4. ASSUME NEW s \in Sheets, RoutePresses(p, s)  PROVE TypeOK'
  <2>1. Pressing(p, s, 0) \in Press  BY PressingIs
  <2>2. presses' = [presses EXCEPT ![p] = Pressing(p, s, 0)]  BY <1>4 DEF RoutePresses
  <2>3. presses' \in [Pressers -> Press]  BY <1>1, <2>1, <2>2
  <2>4. moves' \in 0 .. Moves  BY <1>4, RemoteRunsAssumption DEF RoutePresses, OneMove, TypeOK
  <2> QED  BY <1>4, <2>3, <2>4 DEF RoutePresses, TypeOK, answers
<1>5. CASE PinReads(p)
  <2>1. presses' \in [Pressers -> Press]  BY <1>5, PinReadsIs
  <2> QED  BY <1>5, <2>1 DEF PinReads, TypeOK, outside, answers
<1>6. CASE PressRefused(p)
  <2>1. Returns(p, FALSE) /\ presses[p].sheet \in Sheets  BY <1>2, <1>6 DEF PressRefused
  <2>2. presses' \in [Pressers -> Press] /\ intents' \in [Sheets -> Intent]  BY <2>1, ReturnsIs
  <2> QED  BY <1>6, <2>2 DEF PressRefused, TypeOK, outside
<1>7. CASE ReadsRow(p)
  <2> DEFINE rd == [by |-> "press", outcome |-> "answered", end |-> NoBuild]
  <2>1. rd \in Reading /\ presses[p].run \in Runs  BY <1>3, <1>7, TheirReadings DEF ReadsRow
  <2>2. readings' = Read(presses[p].run, rd)  BY <1>7 DEF ReadsRow
  <2> HIDE DEF rd
  <2>3. readings' \in [Runs -> SUBSET Reading]  BY <1>1, <2>1, <2>2, ReadIs
  <2> QED  BY <1>7, <2>3 DEF ReadsRow, TypeOK, outside, answers
<1>8. CASE LeavesOpen(p)
  <2>1. Returns(p, TRUE) /\ presses[p].sheet \in Sheets  BY <1>2, <1>8 DEF LeavesOpen
  <2>2. presses' \in [Pressers -> Press] /\ intents' \in [Sheets -> Intent]  BY <2>1, ReturnsIs
  <2> QED  BY <1>8, <2>2 DEF LeavesOpen, TypeOK, outside
<1>9. CASE NothingOwed(p)
  <2>1. presses' = [presses EXCEPT ![p].at = "ending"]  BY <1>9 DEF NothingOwed
  <2>2. presses' \in [Pressers -> Press]  BY <1>1, <2>1 DEF Press
  <2> QED  BY <1>9, <2>2 DEF NothingOwed, TypeOK, outside, answers
<1>10. CASE PressEnds(p)
  <2>1. /\ Returns(p, TRUE) /\ presses[p].sheet \in Sheets /\ presses[p].run \in Runs
        /\ runs' = Settled(presses[p].run, "ended")
    BY <1>2, <1>3, <1>10 DEF PressEnds
  <2>2. presses' \in [Pressers -> Press] /\ intents' \in [Sheets -> Intent]  BY <2>1, ReturnsIs
  <2>3. runs' \in [Runs -> RunRow]  BY <1>1, <2>1, SettledIs DEF Statuses
  <2>4. PICK b \in Probed(presses[p].sheet[2]) : readings' = Attributed(presses[p].run, b)
    BY <1>10 DEF PressEnds
  <2>5. b \in Commits  BY <1>1, <2>1, <2>4, SheetParts DEF Probed, Commits
  <2>6. readings' \in [Runs -> SUBSET Reading]  BY <1>1, <2>1, <2>4, <2>5, AttributedIs
  <2> QED  BY <1>10, <2>2, <2>3, <2>6 DEF PressEnds, TypeOK, outside
<1>11. ASSUME NEW r \in Runs, PinLost(p, r)  PROVE TypeOK'
  <2>1. /\ Returns(p, TRUE) /\ presses[p].sheet \in Sheets /\ runs' = [runs EXCEPT ![r] = Opened(p, "abandoned")]
    BY <1>2, <1>11 DEF PinLost, Free
  <2>2. presses' \in [Pressers -> Press] /\ intents' \in [Sheets -> Intent]  BY <2>1, ReturnsIs
  <2>3. Opened(p, "abandoned") \in RunRow  BY <2>1, OpenedIs DEF Statuses
  <2>4. runs' \in [Runs -> RunRow]  BY <1>1, <2>1, <2>3
  <2> QED  BY <1>11, <2>2, <2>4 DEF PinLost, TypeOK, outside
<1>12. ASSUME NEW r \in Runs, PressOpens(p, r)  PROVE TypeOK'
  <2>1. /\ presses[p].sheet \in Sheets /\ runs' = [runs EXCEPT ![r] = Opened(p, "pending")]
    BY <1>2, <1>12 DEF PressOpens, Free
  <2>2. presses' \in [Pressers -> Press]  BY <1>12, PressOpensIs
  <2>3. Opened(p, "pending") \in RunRow  BY <2>1, OpenedIs DEF Statuses
  <2>4. runs' \in [Runs -> RunRow]  BY <1>1, <2>1, <2>3
  <2> QED  BY <1>12, <2>2, <2>4 DEF PressOpens, TypeOK, outside, answers
<1> QED  BY <1>4, <1>5, <1>6, <1>7, <1>8, <1>9, <1>10, <1>11, <1>12 DEF PressStep

\* Each step of the pulse keeps the shape of the rows.
LEMMA PulseTypes ==
  ASSUME TypeOK, PulseStep
  PROVE  TypeOK'
<1>1. /\ runs \in [Runs -> RunRow] /\ presses \in [Pressers -> Press] /\ intents \in [Sheets -> Intent]
      /\ agents \in [Runs -> [no : Nat, working : BOOLEAN]] /\ Pulse \in Pressers
  BY DEF TypeOK, Pressers
<1>2. CASE Sweep
  <2>1. runs' \in [Runs -> RunRow] /\ pulse' \in PulseType  BY <1>2, SweepIs DEF PulseType
  <2> QED  BY <1>2, <2>1 DEF Sweep, TypeOK, outside, answers, PulseType
<1>3. CASE Decide
  <2>1. pulse' \in PulseType  BY <1>3, DecideIs
  <2> QED  BY <1>3, <2>1 DEF Decide, TypeOK, outside, answers, PulseType
<1>4. CASE EndPulse
  <2>1. pulse' = AtRest  BY <1>4 DEF EndPulse
  <2>2. pulse' \in PulseType  BY <2>1, AtRestIs
  <2> QED  BY <1>4, <2>2 DEF EndPulse, TypeOK, outside, answers, PulseType
<1>5. ASSUME NEW i, OkLapses(i)  PROVE TypeOK'
  <2>1. Turn(i) /\ intents' = Flipped(i.sheet, "withdrawn")  BY <1>5 DEF OkLapses
  <2>2. pulse' \in PulseType /\ i \in Listed  BY <2>1, TurnIs
  <2>3. i.sheet \in Sheets  BY <2>2 DEF Listed
  <2>4. intents' \in [Sheets -> Intent]  BY <1>1, <2>1, <2>3, FlippedIs
  <2> QED  BY <1>5, <2>2, <2>4 DEF OkLapses, TypeOK, outside, PulseType
<1>6. ASSUME NEW i, OkWaits(i)  PROVE TypeOK'
  <2>1. Turn(i)  BY <1>6 DEF OkWaits
  <2>2. pulse' \in PulseType  BY <2>1, TurnIs
  <2> QED  BY <1>6, <2>2 DEF OkWaits, TypeOK, outside, answers, PulseType
<1>7. ASSUME NEW i, OkPresses(i)  PROVE TypeOK'
  <2>1. Turn(i) /\ presses' = [presses EXCEPT ![Pulse] = Pressing(Pulse, i.sheet, i.no)]  BY <1>7 DEF OkPresses
  <2>2. pulse' \in PulseType /\ i \in Listed  BY <2>1, TurnIs
  <2>3. i.sheet \in Sheets /\ i.no \in Nat  BY <2>2 DEF Listed
  <2>4. Pressing(Pulse, i.sheet, i.no) \in Press  BY <1>1, <2>3, PressingIs
  <2>5. presses' \in [Pressers -> Press]  BY <1>1, <2>1, <2>4
  <2> QED  BY <1>7, <2>2, <2>5 DEF OkPresses, TypeOK, outside, answers, PulseType
<1>8. ASSUME NEW r \in Runs, Dispatch(r)  PROVE TypeOK'
  <2>1. agents' = Started(r) /\ runs' = Claimed(r) /\ pulse' = [pulse EXCEPT !.plan = @ \ {r}]
    BY <1>8 DEF Dispatch
  <2>2. agents' \in [Runs -> [no : Nat, working : BOOLEAN]]  BY <1>1, <2>1, StartedIs
  <2>3. runs' \in [Runs -> RunRow]  BY <1>1, <2>1, ClaimedIs
  <2>4. pulse' \in PulseType  BY <2>1, PlanIs
  <2> QED  BY <1>8, <2>2, <2>3, <2>4 DEF Dispatch, TypeOK, outside, answers, PulseType
<1>9. ASSUME NEW r \in Runs, NotDispatched(r)  PROVE TypeOK'
  <2>1. pulse' = [pulse EXCEPT !.plan = @ \ {r}]  BY <1>9 DEF NotDispatched
  <2>2. pulse' \in PulseType  BY <2>1, PlanIs
  <2> QED  BY <1>9, <2>2 DEF NotDispatched, TypeOK, outside, answers, PulseType
<1> QED  BY <1>2, <1>3, <1>4, <1>5, <1>6, <1>7, <1>8, <1>9 DEF PulseStep

\* Each step of an agent or of its tools keeps the shape of the rows.
LEMMA AgentTypes ==
  ASSUME TypeOK, RunPart, AgentPart, NEW r \in Runs, AgentStep(r)
  PROVE  TypeOK'
<1>1. /\ runs \in [Runs -> RunRow] /\ readings \in [Runs -> SUBSET Reading] /\ calls \in [Runs -> Call]
      /\ agents \in [Runs -> [no : Nat, working : BOOLEAN]]
  BY DEF TypeOK
<1>2. CASE Lists(r)
  <2>1. calls' = [calls EXCEPT ![r].at = "listing"]  BY <1>2 DEF Lists
  <2>2. calls' \in [Runs -> Call]  BY <2>1, CallIs
  <2> QED  BY <1>2, <2>2 DEF Lists, TypeOK, outside, answers
<1>3. CASE Reports(r)
  <2>1. calls' = [calls EXCEPT ![r].at = "report"]  BY <1>3 DEF Reports
  <2>2. calls' \in [Runs -> Call]  BY <2>1, CallIs
  <2> QED  BY <1>3, <2>2 DEF Reports, TypeOK, outside, answers
<1>4. CASE CouldNotRun(r)
  <2>1. runs' = Settled(r, "abandoned")  BY <1>4 DEF CouldNotRun
  <2>2. runs' \in [Runs -> RunRow]  BY <1>1, <2>1, SettledIs DEF Statuses
  <2> QED  BY <1>4, <2>2 DEF CouldNotRun, TypeOK, outside, answers
<1>5. CASE AgentEnds(r)
  <2>1. agents' = [agents EXCEPT ![r].working = FALSE]  BY <1>5 DEF AgentEnds
  <2>2. agents' \in [Runs -> [no : Nat, working : BOOLEAN]]  BY <1>1, <2>1
  <2> QED  BY <1>5, <2>2 DEF AgentEnds, TypeOK, outside, answers
<1>6. CASE ListingFolds(r)
  <2> DEFINE rd == [by |-> "listing", outcome |-> "blocked", end |-> NoBuild]
  <2>1. calls' = [calls EXCEPT ![r] = NoCall] /\ (readings' = Read(r, rd) \/ readings' = readings)
    BY <1>6 DEF ListingFolds
  <2>2. rd \in Reading  BY TheirReadings
  <2> HIDE DEF rd
  <2>3. readings' \in [Runs -> SUBSET Reading]  BY <1>1, <2>1, <2>2, ReadIs
  <2>4. calls' \in [Runs -> Call]  BY <2>1, AnsweredIs
  <2> QED  BY <1>6, <2>3, <2>4 DEF ListingFolds, TypeOK, outside, answers
<1>7. CASE ReportRead(r)
  <2>1. calls' \in [Runs -> Call]  BY <1>7, ReportReadIs
  <2> QED  BY <1>7, <2>1 DEF ReportRead, TypeOK, outside, answers
<1>8. CASE RowFolds(r)
  <2>1. /\ readings' \in [Runs -> SUBSET Reading] /\ checks' \in [Goals -> Hands]
        /\ calls' = [calls EXCEPT ![r].at = "ending"]
    BY <1>8, RowFoldsIs
  <2>2. calls' \in [Runs -> Call]  BY <2>1, CallIs
  <2>3. UNCHANGED <<runs, agents, presses, intents, pulse, outside>>  BY <1>8 DEF RowFolds
  <2> QED  BY <2>1, <2>2, <2>3 DEF TypeOK, outside
<1>9. CASE ReportEnds(r)
  <2>1. /\ readings' = Attributed(r, calls[r].build) /\ runs' = Settled(r, "ended")
        /\ calls' = [calls EXCEPT ![r] = NoCall]
    BY <1>9 DEF ReportEnds
  <2>2. calls[r].build \in Commits  BY <1>1 DEF Call
  <2>3. readings' \in [Runs -> SUBSET Reading]  BY <1>1, <2>1, <2>2, AttributedIs
  <2>4. runs' \in [Runs -> RunRow]  BY <1>1, <2>1, SettledIs DEF Statuses
  <2>5. calls' \in [Runs -> Call]  BY <2>1, AnsweredIs
  <2> QED  BY <1>9, <2>3, <2>4, <2>5 DEF ReportEnds, TypeOK, outside, answers
<1> QED  BY <1>2, <1>3, <1>4, <1>5, <1>6, <1>7, <1>8, <1>9 DEF AgentStep, HandlerStep

\* The end of the process forgets what was in hand, and a task just written may have been lost with it.
LEMMA RestartIs ==
  ASSUME TypeOK, Crash \/ \E r \in Runs : DiesUnclaimed(r)
  PROVE  /\ TypeOK'
         /\ Len(crashes) < Boots /\ crashes' = Append(crashes, presses[Pulse].run)
         /\ runs' = runs /\ readings' = readings /\ intents' = intents
         /\ calls' \in [Runs -> Call] /\ \A q \in Runs : calls'[q].at = "none"
         /\ presses' \in [Pressers -> Press] /\ \A p \in Pressers : presses'[p].at = "idle" /\ presses'[p].ok = 0
         /\ pulse'.at = "idle" /\ pulse'.queue = {} /\ pulse'.plan = {}
<1>1. Restart  BY DEF Crash, DiesUnclaimed
<1>2. agents' \in [Runs -> [no : Nat, working : BOOLEAN]]
  <2>1. agents \in [Runs -> [no : Nat, working : BOOLEAN]]  BY DEF TypeOK
  <2>2. CASE Crash  BY <2>1, <2>2, RecoveredIs DEF Crash
  <2>3. ASSUME NEW r \in Runs, DiesUnclaimed(r)  PROVE agents' \in [Runs -> [no : Nat, working : BOOLEAN]]
    <3>1. Started(r) \in [Runs -> [no : Nat, working : BOOLEAN]]  BY <2>1, StartedIs
    <3>2. Recovered(Started(r))  BY <2>3 DEF DiesUnclaimed
    <3> QED  BY <3>1, <3>2, RecoveredIs
  <2> QED  BY <2>2, <2>3
<1>3. /\ Len(crashes) < Boots /\ crashes' = Append(crashes, presses[Pulse].run)
      /\ calls' = [r \in Runs |-> NoCall] /\ presses' = [p \in Pressers |-> NoPress] /\ pulse' = AtRest
      /\ build' = build /\ runs' = runs /\ readings' = readings /\ pages' = pages /\ moves' = moves
      /\ checks' = checks /\ intents' = intents
  BY <1>1 DEF Restart, answers
<1>4. calls' \in [Runs -> Call] /\ \A q \in Runs : calls'[q].at = "none"  BY <1>3, NoCallIs
<1>5. NoPress \in Press /\ NoPress.at = "idle" /\ NoPress.ok = 0  BY DEF NoPress, Press, Commits
<1>6. presses' \in [Pressers -> Press] /\ \A p \in Pressers : presses'[p].at = "idle" /\ presses'[p].ok = 0
  BY <1>3, <1>5
<1>7. pulse' \in PulseType /\ pulse'.at = "idle" /\ pulse'.queue = {} /\ pulse'.plan = {}
  BY <1>3, AtRestIs
<1>8. crashes' \in Seq(Runs \cup {NoRun}) /\ Len(crashes') <= Boots
  <2>1. Pulse \in Pressers /\ presses \in [Pressers -> Press] /\ crashes \in Seq(Runs \cup {NoRun})
    BY DEF Pressers, TypeOK
  <2>2. presses[Pulse].run \in Runs \cup {NoRun}  BY <2>1 DEF Press
  <2>3. Len(crashes') = Len(crashes) + 1 /\ crashes' \in Seq(Runs \cup {NoRun})  BY <1>3, <2>1, <2>2
  <2> QED  BY <1>3, <2>1, <2>3, RemoteRunsAssumption
<1>9. TypeOK'  BY <1>2, <1>3, <1>4, <1>6, <1>7, <1>8 DEF TypeOK, PulseType
<1> QED  BY <1>3, <1>4, <1>6, <1>7, <1>9

-----------------------------------------------------------------------------
(* The steps that open no run and start no agent. *)

\* Runs are settled, if anything.
Lets == \A q \in Runs :
    /\ runs'[q].sheet = runs[q].sheet /\ runs'[q].ok = runs[q].ok
    /\ runs'[q].start = runs[q].start /\ runs'[q].task = runs[q].task
    /\ runs'[q].status = runs[q].status \/ (Live(q) /\ runs'[q].status \in {"ended", "abandoned"})

AgentsStay == \A q \in Runs : agents'[q].no = agents[q].no /\ (agents'[q].working => agents[q].working)

\* Readings come from a tool's call or a press.
ReadsStay == \A q \in Runs : readings'[q] # {} =>
    readings[q] # {} \/ calls[q].at # "none" \/ \E p \in Pressers : presses[p].at = "reading" /\ presses[p].run = q

CallsStay == \A q \in Runs : calls'[q].at # "none" => calls[q].at # "none" \/ agents[q].working

PlanStay ==
    /\ \A q \in Runs : q \in pulse'.plan => q \in pulse.plan \/ Awaits(q)
    /\ pulse'.at # "dispatch" => pulse'.plan = {}

PressStays(p) ==
    \/ presses'[p] = presses[p]
    \/ presses'[p].at = "idle" /\ presses'[p].ok = 0
    \/ /\ presses'[p].at \in {"pinning", "pinned"} /\ presses'[p].sheet \in Sheets
       /\ p # Pulse => presses'[p].ok = 0
    \/ /\ presses[p].at = "reading" /\ presses'[p].at = "ending" /\ ~Owes(presses[p].run)
       /\ presses'[p].sheet = presses[p].sheet /\ presses'[p].run = presses[p].run /\ presses'[p].ok = presses[p].ok

PressesStay ==
    /\ \A p \in Pressers : PressStays(p)
    /\ presses'[Pulse].at # "idle" => pulse'.at = "intents"

Ordinary == Lets /\ AgentsStay /\ ReadsStay /\ CallsStay /\ PlanStay /\ PressesStay

Parts == TypeOK /\ RunPart /\ AgentPart /\ PressPart

\* What a step leaves alone is kept.
LEMMA Unchanged ==
  ASSUME Parts
  PROVE  /\ runs' = runs => Lets
         /\ agents' = agents => AgentsStay
         /\ readings' = readings => ReadsStay
         /\ calls' = calls => CallsStay
         /\ pulse' = pulse => PlanStay
         /\ presses' = presses /\ pulse' = pulse => PressesStay
         /\ presses' = presses => \A p \in Pressers : PressStays(p)
  BY DEF Parts, PressPart, Lets, AgentsStay, ReadsStay, CallsStay, PlanStay, PressesStay, PressStays

\* The settling UPDATE opens no run.
LEMMA SettledLets ==
  ASSUME TypeOK, NEW r \in Runs, NEW how \in {"ended", "abandoned"}, runs' = Settled(r, how)
  PROVE  Lets
<1>1. runs \in [Runs -> RunRow] /\ how \in Statuses  BY DEF TypeOK, Statuses
<1>2. \A q \in Runs : /\ runs'[q].sheet = runs[q].sheet
                      /\ runs'[q].ok = runs[q].ok
                      /\ runs'[q].start = runs[q].start
                      /\ runs'[q].task = runs[q].task
                      /\ runs'[q].status = IF q = r /\ Live(r) THEN how ELSE runs[q].status
  BY <1>1, SettledIs
<1> QED  BY <1>2 DEF Lets

\* A tool's call, or a press past its pin, reads.
LEMMA ReadStays ==
  ASSUME TypeOK, NEW r \in Runs, NEW rd \in Reading, readings' = Read(r, rd),
         calls[r].at # "none" \/ \E p \in Pressers : presses[p].at = "reading" /\ presses[p].run = r
  PROVE  ReadsStay
<1>1. readings \in [Runs -> SUBSET Reading]  BY DEF TypeOK
<1>2. \A q \in Runs \ {r} : readings'[q] = readings[q]  BY <1>1, ReadIs
<1> QED  BY <1>2 DEF ReadsStay

\* The attribution adds no reading to a run without one.
LEMMA AttributedStays ==
  ASSUME TypeOK, NEW r \in Runs, NEW b \in Commits, readings' = Attributed(r, b)
  PROVE  ReadsStay
<1>1. readings \in [Runs -> SUBSET Reading]  BY DEF TypeOK
<1>2. /\ \A q \in Runs \ {r} : readings'[q] = readings[q]
      /\ \A x \in readings'[r] : \E y \in readings[r] : x.by = y.by
  BY <1>1, AttributedIs
<1>3. readings'[r] # {} => readings[r] # {}  BY <1>2
<1> QED  BY <1>2, <1>3 DEF ReadsStay

\* A press that answers is over.
LEMMA ReturnsStays ==
  ASSUME Parts, NEW p \in Pressers, presses[p].at # "idle", NEW opened \in BOOLEAN, Returns(p, opened), pulse' = pulse
  PROVE  PressesStay
<1>1. TypeOK /\ presses[p].sheet \in Sheets /\ (presses[Pulse].at # "idle" => pulse.at = "intents")
  BY DEF Parts, PressPart
<1>2. presses'[p].at = "idle" /\ presses'[p].ok = 0 /\ \A q \in Pressers \ {p} : presses'[q] = presses[q]
  BY <1>1, ReturnsIs
<1>3. Pulse \in Pressers  BY DEF Pressers
<1> QED  BY <1>1, <1>2, <1>3 DEF PressesStay, PressStays

\* A press that opens no run.
LEMMA PressOrdinary ==
  ASSUME Parts, NEW p \in Pressers,
         \/ PinReads(p) \/ PressRefused(p) \/ ReadsRow(p) \/ LeavesOpen(p) \/ NothingOwed(p) \/ PressEnds(p)
         \/ \E s \in Sheets : p # Pulse /\ RoutePresses(p, s)
  PROVE  Ordinary
<1> USE DEF Ordinary
<1>1. TypeOK /\ PressPart /\ Pulse \in Pressers  BY DEF Parts, Pressers
<1>2. /\ presses[p].at # "idle" => presses[p].sheet \in Sheets
      /\ presses[p].at \in {"reading", "ending"} => presses[p].run \in Runs
      /\ p # Pulse => presses[p].ok = 0
      /\ presses[Pulse].at # "idle" => pulse.at = "intents"
  BY <1>1 DEF PressPart
<1>3. presses \in [Pressers -> Press] /\ build \in [Envs -> Builds]  BY <1>1 DEF TypeOK
<1>4. CASE PinReads(p)
  <2>1. /\ \A q \in Pressers \ {p} : presses'[q] = presses[q]
        /\ presses'[p].at = "pinned" /\ presses'[p].sheet = presses[p].sheet /\ presses'[p].ok = presses[p].ok
    BY <1>1, <1>4, PinReadsIs
  <2>2. UNCHANGED <<runs, readings, agents, calls, pulse>> /\ presses[p].at = "pinning"
    BY <1>4 DEF PinReads
  <2>3. PressesStay  BY <1>1, <1>2, <2>1, <2>2 DEF PressesStay, PressStays
  <2> QED  BY <2>2, <2>3, Unchanged
<1>5. CASE PressRefused(p)
  <2>1. Returns(p, FALSE) /\ presses[p].at # "idle" /\ UNCHANGED <<runs, readings, agents, calls, pulse>>
    BY <1>5 DEF PressRefused
  <2>2. PressesStay  BY <2>1, ReturnsStays
  <2> QED  BY <2>1, <2>2, Unchanged
<1>6. CASE ReadsRow(p)
  <2> DEFINE rd == [by |-> "press", outcome |-> "answered", end |-> NoBuild]
  <2>1. /\ presses[p].at = "reading" /\ readings' = Read(presses[p].run, rd)
        /\ UNCHANGED <<runs, agents, calls, presses, pulse>>
    BY <1>6 DEF ReadsRow
  <2>2. rd \in Reading  BY TheirReadings
  <2> HIDE DEF rd
  <2>3. ReadsStay  BY <1>1, <1>2, <2>1, <2>2, ReadStays
  <2> QED  BY <2>1, <2>3, Unchanged
<1>7. CASE LeavesOpen(p)
  <2>1. Returns(p, TRUE) /\ presses[p].at # "idle" /\ UNCHANGED <<runs, readings, agents, calls, pulse>>
    BY <1>7 DEF LeavesOpen
  <2>2. PressesStay  BY <2>1, ReturnsStays
  <2> QED  BY <2>1, <2>2, Unchanged
<1>8. CASE NothingOwed(p)
  <2>1. /\ presses[p].at = "reading" /\ ~Owes(presses[p].run) /\ presses' = [presses EXCEPT ![p].at = "ending"]
        /\ UNCHANGED <<runs, readings, agents, calls, pulse>>
    BY <1>8 DEF NothingOwed
  <2>2. /\ \A q \in Pressers \ {p} : presses'[q] = presses[q]
        /\ presses'[p].at = "ending" /\ presses'[p].sheet = presses[p].sheet
        /\ presses'[p].run = presses[p].run /\ presses'[p].ok = presses[p].ok
    BY <1>3, <2>1 DEF Press
  <2>3. PressesStay  BY <1>1, <1>2, <2>1, <2>2 DEF PressesStay, PressStays
  <2> QED  BY <2>1, <2>3, Unchanged
<1>9. CASE PressEnds(p)
  <2>1. /\ Returns(p, TRUE) /\ presses[p].at = "ending" /\ runs' = Settled(presses[p].run, "ended")
        /\ UNCHANGED <<agents, calls, pulse>>
    BY <1>9 DEF PressEnds
  <2>2. PressesStay  BY <2>1, ReturnsStays
  <2>3. presses[p].run \in Runs /\ presses[p].sheet \in Sheets  BY <1>2, <2>1
  <2>4. PICK b \in Probed(presses[p].sheet[2]) : readings' = Attributed(presses[p].run, b)
    BY <1>9 DEF PressEnds
  <2>5. b \in Commits  BY <1>3, <2>3, <2>4, SheetParts DEF Probed, Commits
  <2>6. ReadsStay  BY <1>1, <2>3, <2>4, <2>5, AttributedStays
  <2>7. Lets  BY <1>1, <2>1, <2>3, SettledLets
  <2> QED  BY <2>1, <2>2, <2>6, <2>7, Unchanged
<1>10. ASSUME NEW s \in Sheets, p # Pulse, RoutePresses(p, s)  PROVE Ordinary
  <2> DEFINE n == Pressing(p, s, 0)
  <2>1. presses' = [presses EXCEPT ![p] = n] /\ UNCHANGED <<runs, readings, agents, calls, pulse>>
    BY <1>10 DEF RoutePresses
  <2>2. n.at = "pinning" /\ n.sheet = s /\ n.ok = 0  BY PressingIs
  <2> HIDE DEF n
  <2>3. presses'[p] = n /\ \A q \in Pressers \ {p} : presses'[q] = presses[q]  BY <1>3, <2>1
  <2>4. PressesStay  BY <1>1, <1>2, <1>10, <2>1, <2>2, <2>3 DEF PressesStay, PressStays
  <2> QED  BY <2>1, <2>4, Unchanged
<1> QED  BY <1>4, <1>5, <1>6, <1>7, <1>8, <1>9, <1>10

\* The pulse where it starts no agent.
LEMMA PulseOrdinary ==
  ASSUME Parts,
         \/ Sweep \/ Decide \/ EndPulse
         \/ \E i \in pulse.queue : OkLapses(i) \/ OkWaits(i) \/ OkPresses(i)
         \/ \E r \in Runs : NotDispatched(r)
  PROVE  Ordinary
<1> USE DEF Ordinary
<1>1. TypeOK /\ PressPart /\ Pulse \in Pressers  BY DEF Parts, Pressers
<1>2. /\ presses[Pulse].at # "idle" => pulse.at = "intents"
      /\ pulse.at # "dispatch" => pulse.plan = {}
  BY <1>1 DEF PressPart
<1>3. presses \in [Pressers -> Press]  BY <1>1 DEF TypeOK
<1>4. CASE Sweep
  <2>1. pulse.at = "idle" /\ UNCHANGED <<readings, agents, calls, presses>>  BY <1>4 DEF Sweep
  <2>2. \A q \in Runs : /\ runs'[q].sheet = runs[q].sheet /\ runs'[q].ok = runs[q].ok
                        /\ runs'[q].start = runs[q].start /\ runs'[q].task = runs[q].task
                        /\ runs'[q].status = IF Forsaken(q) THEN "abandoned" ELSE runs[q].status
    BY <1>1, <1>4, SweepIs
  <2>3. pulse'.at = "intents" /\ pulse'.plan = {}  BY <1>1, <1>4, SweepIs
  <2>4. Lets  BY <2>2 DEF Lets, Forsaken, Live
  <2>5. PlanStay  BY <2>3 DEF PlanStay
  <2>6. PressesStay  BY <2>1, <2>3, Unchanged DEF PressesStay
  <2> QED  BY <2>1, <2>4, <2>5, <2>6, Unchanged
<1>5. CASE Decide
  <2>1. UNCHANGED <<runs, readings, agents, calls, presses>>  BY <1>5 DEF Decide
  <2>2. pulse'.at = "dispatch" /\ presses[Pulse].at = "idle" /\ \A q \in Runs : q \in pulse'.plan <=> Awaits(q)
    BY <1>1, <1>5, DecideIs
  <2>3. PlanStay  BY <2>2 DEF PlanStay
  <2>4. PressesStay  BY <2>1, <2>2, Unchanged DEF PressesStay
  <2> QED  BY <2>1, <2>3, <2>4, Unchanged
<1>6. CASE EndPulse
  <2>1. pulse.at = "dispatch" /\ pulse' = AtRest /\ UNCHANGED <<runs, readings, agents, calls, presses>>
    BY <1>6 DEF EndPulse
  <2>2. pulse'.plan = {}  BY <2>1, AtRestIs
  <2>3. PlanStay  BY <2>2 DEF PlanStay
  <2>4. PressesStay  BY <1>2, <2>1, Unchanged DEF PressesStay
  <2> QED  BY <2>1, <2>3, <2>4, Unchanged
<1>7. ASSUME NEW i, Turn(i)
      PROVE  PlanStay /\ pulse'.at = "intents" /\ presses[Pulse].at = "idle" /\ i \in Listed
  <2>1. /\ pulse'.at = "intents" /\ pulse.at = "intents" /\ pulse'.plan = pulse.plan
        /\ presses[Pulse].at = "idle" /\ i \in Listed
    BY <1>1, <1>7, TurnIs
  <2> QED  BY <1>2, <2>1 DEF PlanStay
<1>8. ASSUME NEW i, OkLapses(i) \/ OkWaits(i)  PROVE Ordinary
  <2>1. Turn(i) /\ UNCHANGED <<runs, readings, agents, calls, presses>>  BY <1>8 DEF OkLapses, OkWaits
  <2>2. PressesStay  BY <1>7, <2>1, Unchanged DEF PressesStay
  <2> QED  BY <1>7, <2>1, <2>2, Unchanged
<1>9. ASSUME NEW i, OkPresses(i)  PROVE Ordinary
  <2> DEFINE n == Pressing(Pulse, i.sheet, i.no)
  <2>1. Turn(i) /\ presses' = [presses EXCEPT ![Pulse] = n] /\ UNCHANGED <<runs, readings, agents, calls>>
    BY <1>9 DEF OkPresses
  <2>2. i.sheet \in Sheets /\ i.no \in Nat  BY <1>7, <2>1 DEF Listed
  <2>3. n.at = "pinning" /\ n.sheet \in Sheets  BY <1>1, <2>2, PressingIs
  <2> HIDE DEF n
  <2>4. presses'[Pulse] = n /\ \A q \in Pressers \ {Pulse} : presses'[q] = presses[q]  BY <1>1, <1>3, <2>1
  <2>5. PressesStay  BY <1>7, <2>1, <2>3, <2>4 DEF PressesStay, PressStays
  <2> QED  BY <1>7, <2>1, <2>5, Unchanged
<1>10. ASSUME NEW r \in Runs, NotDispatched(r)  PROVE Ordinary
  <2>1. /\ pulse' = [pulse EXCEPT !.plan = @ \ {r}] /\ pulse.at = "dispatch"
        /\ UNCHANGED <<runs, readings, agents, calls, presses>>
    BY <1>10 DEF NotDispatched, Proposed
  <2>2. pulse'.at = pulse.at /\ pulse'.plan = pulse.plan \ {r}  BY <1>1, <2>1, PlanIs
  <2>3. PlanStay  BY <2>1, <2>2 DEF PlanStay
  <2>4. PressesStay  BY <1>2, <2>1, <2>2, Unchanged DEF PressesStay
  <2> QED  BY <2>1, <2>3, <2>4, Unchanged
<1> QED  BY <1>4, <1>5, <1>6, <1>8, <1>9, <1>10

\* Agents and their tools open and start nothing.
LEMMA AgentOrdinary ==
  ASSUME Parts, NEW r \in Runs, AgentStep(r)
  PROVE  Ordinary
<1> USE DEF Ordinary
<1>1. TypeOK /\ RunPart /\ AgentPart  BY DEF Parts
<1>2. calls \in [Runs -> Call] /\ agents \in [Runs -> [no : Nat, working : BOOLEAN]]  BY <1>1 DEF TypeOK
<1>3. ASSUME NEW at \in {"none", "listing", "report", "fold", "ending"}, calls' = [calls EXCEPT ![r].at = at],
             calls[r].at # "none" \/ agents[r].working
      PROVE  CallsStay
  <2>1. \A q \in Runs \ {r} : calls'[q] = calls[q]  BY <1>2, <1>3
  <2> QED  BY <1>3, <2>1 DEF CallsStay
<1>4. ASSUME calls' = [calls EXCEPT ![r] = NoCall]  PROVE CallsStay
  <2>1. calls'[r].at = "none" /\ \A q \in Runs \ {r} : calls'[q] = calls[q]  BY <1>1, <1>4, AnsweredIs
  <2> QED  BY <2>1 DEF CallsStay
<1>5. CASE Lists(r) \/ Reports(r)
  <2>1. /\ calls' = [calls EXCEPT ![r].at = "listing"] \/ calls' = [calls EXCEPT ![r].at = "report"]
        /\ agents[r].working /\ UNCHANGED <<runs, readings, agents, presses, pulse>>
    BY <1>5 DEF Lists, Reports, Answered
  <2>2. CallsStay  BY <1>3, <2>1
  <2> QED  BY <2>1, <2>2, Unchanged
<1>6. CASE CouldNotRun(r)
  <2>1. runs' = Settled(r, "abandoned") /\ UNCHANGED <<readings, agents, calls, presses, pulse>>
    BY <1>6 DEF CouldNotRun
  <2>2. Lets  BY <1>1, <2>1, SettledLets
  <2> QED  BY <2>1, <2>2, Unchanged
<1>7. CASE AgentEnds(r)
  <2>1. agents' = [agents EXCEPT ![r].working = FALSE] /\ UNCHANGED <<runs, readings, calls, presses, pulse>>
    BY <1>7 DEF AgentEnds
  <2>2. AgentsStay  BY <1>2, <2>1 DEF AgentsStay
  <2> QED  BY <2>1, <2>2, Unchanged
<1>8. CASE ListingFolds(r)
  <2> DEFINE rd == [by |-> "listing", outcome |-> "blocked", end |-> NoBuild]
  <2>1. /\ calls[r].at = "listing" /\ calls' = [calls EXCEPT ![r] = NoCall]
        /\ readings' = Read(r, rd) \/ readings' = readings
        /\ UNCHANGED <<runs, agents, presses, pulse>>
    BY <1>8 DEF ListingFolds
  <2>2. rd \in Reading  BY TheirReadings
  <2> HIDE DEF rd
  <2>3. ReadsStay  BY <1>1, <2>1, <2>2, ReadStays, Unchanged
  <2> QED  BY <1>4, <2>1, <2>3, Unchanged
<1>9. CASE ReportRead(r)
  <2>1. UNCHANGED <<runs, readings, agents, presses, pulse>>  BY <1>9 DEF ReportRead
  <2>2. calls[r].at = "report" /\ \A q \in Runs \ {r} : calls'[q] = calls[q]  BY <1>1, <1>9, ReportReadIs
  <2>3. CallsStay  BY <2>2 DEF CallsStay
  <2> QED  BY <2>1, <2>3, Unchanged
<1>10. CASE RowFolds(r)
  <2>1. UNCHANGED <<runs, agents, presses, pulse>>  BY <1>10 DEF RowFolds
  <2>2. /\ calls[r].at = "fold" /\ calls' = [calls EXCEPT ![r].at = "ending"]
        /\ readings' = readings \/ \E rd \in Reading : readings' = Read(r, rd)
    BY <1>1, <1>10, RowFoldsIs
  <2>3. CallsStay  BY <1>3, <2>2
  <2>4. ReadsStay  BY <1>1, <2>2, ReadStays, Unchanged
  <2> QED  BY <2>1, <2>3, <2>4, Unchanged
<1>11. CASE ReportEnds(r)
  <2>1. /\ readings' = Attributed(r, calls[r].build) /\ runs' = Settled(r, "ended")
        /\ calls' = [calls EXCEPT ![r] = NoCall] /\ UNCHANGED <<agents, presses, pulse>>
    BY <1>11 DEF ReportEnds
  <2>2. calls[r].build \in Commits  BY <1>2 DEF Call
  <2>3. ReadsStay  BY <1>1, <2>1, <2>2, AttributedStays
  <2>4. Lets  BY <1>1, <2>1, SettledLets
  <2> QED  BY <1>4, <2>1, <2>3, <2>4, Unchanged
<1> QED  BY <1>5, <1>6, <1>7, <1>8, <1>9, <1>10, <1>11 DEF AgentStep, HandlerStep

\* Nor do the world and the operator.
LEMMA OutsideOrdinary ==
  ASSUME Parts, World \/ Operator \/ UNCHANGED vars
  PROVE  Ordinary
<1> USE DEF Ordinary
<1>1. TypeOK  BY DEF Parts
<1>2. CASE World \/ \E s \in Sheets : Give(s) \/ NotHere(s) \/ Withdraw(s)
  <2>1. UNCHANGED inside  BY <1>1, <1>2, OutsideTypes
  <2> QED  BY <2>1, InsideIs, Unchanged
<1>3. ASSUME NEW e \in Envs, Cancel(e)  PROVE Ordinary
  <2>1. UNCHANGED <<readings, agents, calls, presses, pulse>>  BY <1>3 DEF Cancel
  <2>2. PICK r \in Runs : runs' = Settled(r, "abandoned")  BY <1>3 DEF Cancel, LiveOn
  <2>3. Lets  BY <1>1, <2>2, SettledLets
  <2> QED  BY <2>1, <2>3, Unchanged
<1>4. CASE UNCHANGED vars
  <2>1. UNCHANGED inside  BY <1>4 DEF vars, inside
  <2> QED  BY <2>1, InsideIs, Unchanged
<1> QED  BY <1>2, <1>3, <1>4 DEF Operator

\* A step of the ordinary kind keeps what the runs, the agents, the presses and the lock rely on.
LEMMA OrdinaryKeeps ==
  ASSUME Parts, Ordinary, TypeOK'
  PROVE  /\ RunPart' /\ AgentPart' /\ PressPart'
         /\ LockPart => LockPart'
<1> USE DEF Parts, Ordinary
<1>1. ASSUME NEW r \in Runs
      PROVE  /\ runs'[r].sheet = runs[r].sheet /\ runs'[r].ok = runs[r].ok
             /\ runs'[r].start = runs[r].start /\ runs'[r].task = runs[r].task
             /\ runs'[r].status = runs[r].status \/ (Live(r) /\ runs'[r].status \in {"ended", "abandoned"})
             /\ agents'[r].no = agents[r].no /\ (agents'[r].working => agents[r].working)
             /\ Live(r)' => Live(r)
             /\ Owes(r)' <=> Owes(r)
  BY DEF Lets, AgentsStay, Live, Owes, GoalOf
<1>2. ASSUME NEW r \in Runs
      PROVE  /\ runs[r].status = "unused" => readings[r] = {} /\ agents[r].no = 0
             /\ runs[r].status # "unused" => runs[r].sheet \in Sheets
             /\ runs[r].status \in {"pending", "dispatched", "ended"} => runs[r].start \in Holding
             /\ readings[r] # {} => runs[r].start \in Holding
             /\ agents[r].no > 0 => Owes(r) /\ runs[r].start \in Holding
             /\ agents[r].working => agents[r].no > 0
             /\ calls[r].at # "none" => agents[r].no > 0
             /\ runs[r].status \in {"unused", "pending"} => runs[r].task = 0
             /\ runs[r].task > 0 => runs[r].task = agents[r].no
             /\ r \in pulse.plan =>
                  runs[r].task = 0 /\ runs[r].status # "unused" /\ Owes(r) /\ runs[r].start \in Holding
  BY DEF RunPart, AgentPart
<1>3. ASSUME NEW p \in Pressers
      PROVE  /\ presses[p].at # "idle" => presses[p].sheet \in Sheets
             /\ presses[p].at \in {"reading", "ending"} =>
                  /\ presses[p].run \in Runs
                  /\ runs[presses[p].run].status # "unused"
                  /\ runs[presses[p].run].sheet = presses[p].sheet
                  /\ runs[presses[p].run].start \in Holding
                  /\ p # Pulse => runs[presses[p].run].ok = 0
             /\ presses[p].at = "ending" => ~Owes(presses[p].run)
             /\ p # Pulse => presses[p].ok = 0
  BY DEF PressPart
<1>4. RunPart'
  <2>1. ASSUME NEW r \in Runs, readings'[r] # {}
        PROVE  runs[r].status # "unused" /\ runs[r].start \in Holding
    <3>1. readings[r] # {} \/ calls[r].at # "none" \/ \E p \in Pressers : presses[p].at = "reading" /\ presses[p].run = r
      BY <2>1 DEF ReadsStay
    <3>2. agents[r].no > 0 => agents[r].no # 0  BY DEF TypeOK
    <3> QED  BY <1>2, <1>3, <3>1, <3>2
  <2>2. ASSUME NEW r \in Runs
        PROVE  /\ runs'[r].status = "unused" => readings'[r] = {} /\ agents'[r].no = 0
               /\ runs'[r].status # "unused" => runs'[r].sheet \in Sheets
               /\ runs'[r].status \in {"pending", "dispatched", "ended"} => runs'[r].start \in Holding
               /\ readings'[r] # {} => runs'[r].start \in Holding
    BY <1>1, <1>2, <2>1 DEF Live
  <2> QED  BY <2>2 DEF RunPart
<1>5. AgentPart'
  <2>1. ASSUME NEW r \in Runs, r \in pulse'.plan
        PROVE  runs[r].task = 0 /\ runs[r].status # "unused" /\ Owes(r) /\ runs[r].start \in Holding
    <3>1. r \in pulse.plan \/ Awaits(r)  BY <2>1 DEF PlanStay
    <3> QED  BY <1>2, <3>1 DEF Awaits
  <2>2. ASSUME NEW r \in Runs
        PROVE  /\ (agents'[r].no > 0 => Owes(r)' /\ runs'[r].start \in Holding)
               /\ agents'[r].working => agents'[r].no > 0
               /\ calls'[r].at # "none" => agents'[r].no > 0
    <3>1. calls'[r].at # "none" => calls[r].at # "none" \/ agents[r].working  BY DEF CallsStay
    <3> QED  BY <1>1, <1>2, <3>1
  <2>3. ASSUME NEW r \in Runs
        PROVE  /\ runs'[r].status \in {"unused", "pending"} => runs'[r].task = 0
               /\ runs'[r].task > 0 => runs'[r].task = agents'[r].no
               /\ (r \in pulse'.plan =>
                     runs'[r].task = 0 /\ runs'[r].status # "unused" /\ Owes(r)' /\ runs'[r].start \in Holding)
    BY <1>1, <1>2, <2>1 DEF Live
  <2> QED  BY <2>2, <2>3 DEF AgentPart
<1>6. PressPart'
  <2>1. Pulse \in Pressers  BY DEF Pressers
  <2>2. ASSUME NEW p \in Pressers
        PROVE  /\ presses'[p].at # "idle" => presses'[p].sheet \in Sheets
               /\ presses'[p].at \in {"reading", "ending"} =>
                    /\ presses[p].at \in {"reading", "ending"}
                    /\ presses'[p].run = presses[p].run /\ presses'[p].sheet = presses[p].sheet
               /\ presses'[p].at = "ending" => ~Owes(presses'[p].run)
               /\ p # Pulse => presses'[p].ok = 0
    <3>1. PressStays(p)  BY DEF PressesStay
    <3> QED  BY <1>3, <3>1 DEF PressStays
  <2>3. ASSUME NEW p \in Pressers, presses'[p].at \in {"reading", "ending"}
        PROVE  /\ presses'[p].run \in Runs
               /\ runs'[presses'[p].run].status # "unused"
               /\ runs'[presses'[p].run].sheet = presses'[p].sheet
               /\ runs'[presses'[p].run].start \in Holding
               /\ p # Pulse => runs'[presses'[p].run].ok = 0
    <3> DEFINE q == presses[p].run
    <3>1. presses'[p].run = q /\ presses'[p].sheet = presses[p].sheet  BY <2>2, <2>3
    <3>2. /\ q \in Runs /\ runs[q].status # "unused" /\ runs[q].sheet = presses[p].sheet
          /\ runs[q].start \in Holding /\ (p # Pulse => runs[q].ok = 0)
      BY <1>3, <2>2, <2>3
    <3>3. /\ runs'[q].sheet = runs[q].sheet /\ runs'[q].ok = runs[q].ok /\ runs'[q].start = runs[q].start
          /\ runs'[q].status = runs[q].status \/ runs'[q].status \in {"ended", "abandoned"}
      BY <1>1, <3>2
    <3> HIDE DEF q
    <3> QED  BY <3>1, <3>2, <3>3
  <2>4. ASSUME NEW p \in Pressers, presses'[p].at = "ending"
        PROVE  (runs[presses'[p].run].sheet)[1] \notin Owing /\ runs'[presses'[p].run].sheet = runs[presses'[p].run].sheet
    BY <1>1, <1>3, <2>2, <2>4 DEF Owes, GoalOf
  <2>5. presses'[Pulse].at # "idle" => pulse'.at = "intents"  BY DEF PressesStay
  <2>6. presses'[Pulse].at \in {"reading", "ending"} => agents'[presses'[Pulse].run].no = 0
    <3>1. ASSUME presses'[Pulse].at \in {"reading", "ending"}
          PROVE  /\ presses'[Pulse].run \in Runs /\ agents[presses'[Pulse].run].no = 0
                 /\ agents'[presses'[Pulse].run].no = agents[presses'[Pulse].run].no
      <4>1. /\ presses'[Pulse].run = presses[Pulse].run /\ presses'[Pulse].run \in Runs
            /\ presses[Pulse].at \in {"reading", "ending"}
        BY <2>1, <2>2, <2>3, <3>1
      <4>2. agents[presses[Pulse].run].no = 0  BY <4>1 DEF PressPart
      <4> QED  BY <1>1, <4>1, <4>2
    <3> QED  BY <3>1
  <2>7. pulse'.at # "dispatch" => pulse'.plan = {}  BY DEF PlanStay
  <2> QED  BY <2>2, <2>3, <2>4, <2>5, <2>6, <2>7 DEF PressPart, Owes, GoalOf
<1>7. LockPart => LockPart'
  <2>1. ASSUME NEW q \in Runs, NEW r \in Runs, LockPart, Live(q)', Live(r)', runs'[q].sheet[2] = runs'[r].sheet[2]
        PROVE  q = r
    BY <1>1, <2>1 DEF LockPart, OneRunPerTenant, EnvOf
  <2> QED  BY <2>1 DEF LockPart, OneRunPerTenant, EnvOf
<1> QED  BY <1>4, <1>5, <1>6, <1>7

-----------------------------------------------------------------------------
(* The steps that open a run or start an agent, and the end of the process. *)

\* A press opens its run on an environment nobody holds, pinned or abandoned at once.
LEMMA OpenKeeps ==
  ASSUME Parts, LockPart, NEW p \in Pressers, NEW r \in Runs, PinLost(p, r) \/ PressOpens(p, r)
  PROVE  /\ RunPart' /\ AgentPart' /\ PressPart' /\ LockPart'
         /\ \A q \in Runs \ {r} : runs'[q] = runs[q]
         /\ runs[r].status = "unused" /\ runs'[r].status \in {"pending", "abandoned"}
         /\ runs'[r].ok = presses[p].ok /\ runs'[r].sheet = presses[p].sheet
<1> USE DEF Parts
<1>1. /\ presses[p].at = "pinned" /\ runs[r].status = "unused" /\ LiveOn(presses[p].sheet[2]) = {}
      /\ UNCHANGED <<readings, agents, calls, pulse>>
  BY DEF PinLost, PressOpens, Free
<1>2. presses[p].sheet \in Sheets /\ (p # Pulse => presses[p].ok = 0)  BY <1>1 DEF PressPart
<1>3. PICK st \in {"pending", "abandoned"} :
        /\ runs' = [runs EXCEPT ![r] = Opened(p, st)]
        /\ st = "pending" => Pinned(p)
  BY DEF PinLost, PressOpens
<1>4. st \in Statuses  BY DEF Statuses
<1>5. /\ Opened(p, st).status = st /\ Opened(p, st).sheet = presses[p].sheet
      /\ Opened(p, st).ok = presses[p].ok /\ Opened(p, st).start = presses[p].build
      /\ Opened(p, st).task = 0
  BY <1>2, <1>4, OpenedIs
<1>6. runs \in [Runs -> RunRow]  BY DEF TypeOK
<1>7. runs'[r] = Opened(p, st) /\ \A q \in Runs \ {r} : runs'[q] = runs[q]  BY <1>3, <1>6
<1>8. /\ runs'[r].status = st /\ runs'[r].sheet = presses[p].sheet /\ runs'[r].ok = presses[p].ok
      /\ runs'[r].task = 0 /\ (st = "pending" => runs'[r].start \in Holding)
  BY <1>3, <1>5, <1>7 DEF Pinned
<1>9. /\ readings[r] = {} /\ agents[r].no = 0 /\ ~agents[r].working /\ calls[r].at = "none" /\ r \notin pulse.plan
  BY <1>1 DEF RunPart, AgentPart
<1>10. RunPart'
  BY <1>1, <1>2, <1>7, <1>8, <1>9 DEF RunPart
<1>11. AgentPart'
  <2>1. \A q \in Runs \ {r} : Owes(q)' <=> Owes(q)  BY <1>7 DEF Owes, GoalOf
  <2>2. ASSUME NEW q \in Runs \ {r}
        PROVE  /\ (agents'[q].no > 0 => Owes(q)' /\ runs'[q].start \in Holding)
               /\ agents'[q].working => agents'[q].no > 0
               /\ calls'[q].at # "none" => agents'[q].no > 0
               /\ runs'[q].status \in {"unused", "pending"} => runs'[q].task = 0
               /\ runs'[q].task > 0 => runs'[q].task = agents'[q].no
               /\ (q \in pulse'.plan =>
                    runs'[q].task = 0 /\ runs'[q].status # "unused" /\ Owes(q)' /\ runs'[q].start \in Holding)
    BY <1>1, <1>7, <2>1 DEF AgentPart
  <2>3. ASSUME NEW q \in {r}
        PROVE  /\ (agents'[q].no > 0 => Owes(q)' /\ runs'[q].start \in Holding)
               /\ agents'[q].working => agents'[q].no > 0
               /\ calls'[q].at # "none" => agents'[q].no > 0
               /\ runs'[q].status \in {"unused", "pending"} => runs'[q].task = 0
               /\ runs'[q].task > 0 => runs'[q].task = agents'[q].no
               /\ (q \in pulse'.plan =>
                    runs'[q].task = 0 /\ runs'[q].status # "unused" /\ Owes(q)' /\ runs'[q].start \in Holding)
    BY <1>1, <1>8, <1>9
  <2> QED  BY <2>2, <2>3 DEF AgentPart
<1>12. PressPart'
  <2>1. ASSUME NEW q \in Pressers \ {p}  PROVE presses'[q] = presses[q]
    BY <1>2, PressOpensIs, ReturnsIs DEF PinLost
  <2>2. \/ presses'[p].at = "idle" /\ presses'[p].ok = 0
        \/ /\ presses'[p].at = "reading" /\ presses'[p].sheet = presses[p].sheet
           /\ presses'[p].ok = 0 /\ presses'[p].run = r /\ st = "pending"
    <3>1. CASE PinLost(p, r)  BY <1>2, <3>1, ReturnsIs DEF PinLost
    <3>2. CASE PressOpens(p, r)
      <4>1. runs' = [runs EXCEPT ![r] = Opened(p, "pending")]  BY <3>2 DEF PressOpens
      <4>2. Opened(p, "pending").status = "pending"  BY <1>2, OpenedIs DEF Statuses
      <4>3. st = "pending"  BY <1>6, <1>8, <4>1, <4>2
      <4> QED  BY <3>2, <4>3, PressOpensIs
    <3> QED  BY <3>1, <3>2
  <2>3. ASSUME NEW q \in Pressers \ {p}
        PROVE  /\ presses'[q].at # "idle" => presses'[q].sheet \in Sheets
               /\ presses'[q].at \in {"reading", "ending"} =>
                     /\ presses'[q].run \in Runs \ {r}
                     /\ runs'[presses'[q].run].status # "unused"
                     /\ runs'[presses'[q].run].sheet = presses'[q].sheet
                     /\ runs'[presses'[q].run].start \in Holding
                     /\ q # Pulse => runs'[presses'[q].run].ok = 0
               /\ (presses'[q].at = "ending" => ~Owes(presses[q].run) /\ Owes(presses[q].run)' = Owes(presses[q].run))
               /\ q # Pulse => presses'[q].ok = 0
    <3> DEFINE x == presses[q].run
    <3>1. /\ presses[q].at # "idle" => presses[q].sheet \in Sheets
          /\ presses[q].at \in {"reading", "ending"} =>
               /\ x \in Runs /\ runs[x].status # "unused" /\ runs[x].sheet = presses[q].sheet
               /\ runs[x].start \in Holding /\ (q # Pulse => runs[x].ok = 0)
          /\ presses[q].at = "ending" => ~Owes(x)
          /\ q # Pulse => presses[q].ok = 0
      BY DEF PressPart
    <3>2. presses'[q] = presses[q]  BY <2>1
    <3>3. presses[q].at \in {"reading", "ending"} => x \in Runs \ {r} /\ runs'[x] = runs[x]
      BY <1>1, <1>7, <3>1
    <3>4. runs'[x] = runs[x] => Owes(x)' = Owes(x)  BY <3>2 DEF Owes, GoalOf
    <3> QED  BY <3>1, <3>2, <3>3, <3>4
  <2>4. /\ presses'[p].at # "idle" => presses'[p].sheet \in Sheets
        /\ presses'[p].at \in {"reading", "ending"} =>
              /\ presses'[p].run \in Runs
              /\ runs'[presses'[p].run].status # "unused"
              /\ runs'[presses'[p].run].sheet = presses'[p].sheet
              /\ runs'[presses'[p].run].start \in Holding
              /\ p # Pulse => runs'[presses'[p].run].ok = 0
        /\ presses'[p].at # "ending"
        /\ p # Pulse => presses'[p].ok = 0
    BY <1>2, <1>8, <2>2
  <2>5. Pulse \in Pressers  BY DEF Pressers
  <2>6. presses'[Pulse].at # "idle" => pulse'.at = "intents"
    BY <1>1, <2>1, <2>5 DEF PressPart
  <2>7. presses'[Pulse].at \in {"reading", "ending"} => agents'[presses'[Pulse].run].no = 0
    BY <1>1, <1>9, <2>1, <2>2, <2>5 DEF PressPart
  <2>8. pulse'.at # "dispatch" => pulse'.plan = {}  BY <1>1 DEF PressPart
  <2>9. ASSUME NEW q \in Pressers, presses'[q].at = "ending"  PROVE (runs'[presses'[q].run].sheet)[1] \notin Owing
    BY <2>1, <2>3, <2>4, <2>9 DEF Owes, GoalOf
  <2> QED  BY <2>3, <2>4, <2>6, <2>7, <2>8, <2>9 DEF PressPart, Owes, GoalOf
<1>13. LockPart'
  <2>1. ASSUME NEW q \in Runs \ {r}  PROVE (Live(q)' <=> Live(q)) /\ runs'[q].sheet = runs[q].sheet
    BY <1>7 DEF Live
  <2>2. ASSUME NEW q \in Runs \ {r}, Live(q)  PROVE runs[q].sheet[2] # runs'[r].sheet[2]
    BY <1>1, <1>8, <2>2 DEF LiveOn
  <2> QED  BY <2>1, <2>2 DEF LockPart, OneRunPerTenant, EnvOf
<1> QED  BY <1>1, <1>7, <1>8, <1>10, <1>11, <1>12, <1>13

\* A dispatch starts the run's next agent and claims the run only if nobody has.
LEMMA DispatchKeeps ==
  ASSUME Parts, LockPart, NEW r \in Runs, Dispatch(r)
  PROVE  /\ RunPart' /\ AgentPart' /\ PressPart' /\ LockPart'
         /\ \A q \in Runs : /\ runs'[q].sheet = runs[q].sheet /\ runs'[q].ok = runs[q].ok
                            /\ runs'[q].start = runs[q].start
         /\ \A q \in Runs : runs'[q].status = "ended" => runs[q].status = "ended"
         /\ \A q \in Runs : Live(q)' <=> Live(q)
<1> USE DEF Parts
<1>1. /\ agents' = Started(r) /\ runs' = Claimed(r) /\ pulse' = [pulse EXCEPT !.plan = @ \ {r}]
      /\ pulse.at = "dispatch" /\ r \in pulse.plan
      /\ UNCHANGED <<readings, calls, presses>>
  BY DEF Dispatch, Proposed
<1>2. /\ agents \in [Runs -> [no : Nat, working : BOOLEAN]] /\ runs \in [Runs -> RunRow]
  BY DEF TypeOK
<1>3. /\ \A q \in Runs \ {r} : agents'[q] = agents[q]
      /\ agents'[r].no = agents[r].no + 1 /\ agents'[r].working = TRUE /\ agents[r].no \in Nat
  BY <1>1, <1>2, StartedIs
<1>4. /\ \A q \in Runs \ {r} : runs'[q] = runs[q]
      /\ runs'[r].sheet = runs[r].sheet /\ runs'[r].ok = runs[r].ok /\ runs'[r].start = runs[r].start
      /\ runs[r].status = "pending" => runs'[r].status = "dispatched" /\ runs'[r].task = agents[r].no + 1
      /\ runs[r].status # "pending" => runs'[r] = runs[r]
  BY <1>1, <1>2, ClaimedIs
<1>5. pulse'.at = pulse.at /\ pulse'.plan = pulse.plan \ {r}  BY <1>1, PlanIs
<1>6. runs[r].task = 0 /\ runs[r].status # "unused" /\ Owes(r) /\ runs[r].start \in Holding
  BY <1>1 DEF AgentPart
<1>7. \A q \in Runs : Owes(q)' <=> Owes(q)  BY <1>4 DEF Owes, GoalOf
<1>8. \A q \in Runs : Live(q)' <=> Live(q)  BY <1>4 DEF Live
<1>9. RunPart'  BY <1>1, <1>3, <1>4, <1>6 DEF RunPart
<1>10. AgentPart'
  <2>1. ASSUME NEW q \in Runs \ {r}
        PROVE  /\ (agents'[q].no > 0 => Owes(q)' /\ runs'[q].start \in Holding)
               /\ agents'[q].working => agents'[q].no > 0
               /\ calls'[q].at # "none" => agents'[q].no > 0
               /\ runs'[q].status \in {"unused", "pending"} => runs'[q].task = 0
               /\ runs'[q].task > 0 => runs'[q].task = agents'[q].no
               /\ (q \in pulse'.plan =>
                    runs'[q].task = 0 /\ runs'[q].status # "unused" /\ Owes(q)' /\ runs'[q].start \in Holding)
    BY <1>1, <1>3, <1>4, <1>5, <1>7 DEF AgentPart
  <2>2. ASSUME NEW q \in {r}
        PROVE  /\ (agents'[q].no > 0 => Owes(q)' /\ runs'[q].start \in Holding)
               /\ agents'[q].working => agents'[q].no > 0
               /\ calls'[q].at # "none" => agents'[q].no > 0
               /\ runs'[q].status \in {"unused", "pending"} => runs'[q].task = 0
               /\ runs'[q].task > 0 => runs'[q].task = agents'[q].no
               /\ q \notin pulse'.plan
    BY <1>3, <1>4, <1>5, <1>6, <1>7
  <2> QED  BY <2>1, <2>2 DEF AgentPart
<1>11. PressPart'
  <2>1. Pulse \in Pressers /\ presses[Pulse].at = "idle"  BY <1>1 DEF PressPart, Pressers
  <2>2. \A q \in Runs : /\ runs'[q].sheet = runs[q].sheet /\ runs'[q].ok = runs[q].ok
                        /\ runs'[q].start = runs[q].start
                        /\ runs[q].status # "unused" => runs'[q].status # "unused"
    BY <1>4
  <2>3. ASSUME NEW p \in Pressers, presses[p].at \in {"reading", "ending"}
        PROVE  /\ presses[p].run \in Runs
               /\ runs'[presses[p].run].status # "unused"
               /\ runs'[presses[p].run].sheet = presses[p].sheet
               /\ runs'[presses[p].run].start \in Holding
               /\ p # Pulse => runs'[presses[p].run].ok = 0
               /\ presses[p].at = "ending" => runs'[presses[p].run].sheet[1] \notin Owing
    BY <2>2, <2>3 DEF PressPart, Owes, GoalOf
  <2> QED  BY <1>1, <1>5, <2>1, <2>3 DEF PressPart, Owes, GoalOf
<1>12. LockPart'  BY <1>4, <1>8 DEF LockPart, OneRunPerTenant, EnvOf
<1>13. ASSUME NEW q \in Runs
       PROVE  /\ runs'[q].sheet = runs[q].sheet /\ runs'[q].ok = runs[q].ok
              /\ runs'[q].start = runs[q].start
              /\ runs'[q].status = "ended" => runs[q].status = "ended"
  BY <1>4
<1> QED  BY <1>8, <1>9, <1>10, <1>11, <1>12, <1>13

\* The end of the process frees nothing and claims nothing.
LEMMA RestartKeeps ==
  ASSUME Parts, Crash \/ \E r \in Runs : DiesUnclaimed(r)
  PROVE  RunPart' /\ AgentPart' /\ PressPart' /\ (LockPart => LockPart')
<1> USE DEF Parts
<1>1. /\ runs' = runs /\ readings' = readings
      /\ \A q \in Runs : calls'[q].at = "none"
      /\ \A p \in Pressers : presses'[p].at = "idle" /\ presses'[p].ok = 0
      /\ pulse'.at = "idle" /\ pulse'.plan = {}
  BY RestartIs
<1>2. agents \in [Runs -> [no : Nat, working : BOOLEAN]]  BY DEF TypeOK
<1>3. PICK was \in [Runs -> [no : Nat, working : BOOLEAN]] :
        /\ Recovered(was)
        /\ was = agents \/ \E r \in Runs : was = Started(r) /\ r \in pulse.plan
  <2>1. CASE Crash  BY <1>2, <2>1 DEF Crash
  <2>2. ASSUME NEW r \in Runs, DiesUnclaimed(r)
        PROVE  Started(r) \in [Runs -> [no : Nat, working : BOOLEAN]] /\ Recovered(Started(r)) /\ r \in pulse.plan
    BY <1>2, <2>2, StartedIs DEF DiesUnclaimed, Proposed
  <2> QED  BY <2>1, <2>2
<1>4. \A q \in Runs : agents'[q].no = was[q].no /\ (agents'[q].working => was[q].working)
  BY <1>3, RecoveredIs
<1>5. \A q \in Runs : Owes(q)' <=> Owes(q)  BY <1>1 DEF Owes, GoalOf
<1>6. ASSUME NEW q \in Runs
      PROVE  /\ was[q] = agents[q] \/ (was[q].no = agents[q].no + 1 /\ q \in pulse.plan)
             /\ agents[q].no \in Nat
  <2>1. CASE was = agents  BY <1>2, <2>1
  <2>2. ASSUME NEW r \in Runs, was = Started(r), r \in pulse.plan
        PROVE  was[q] = agents[q] \/ (was[q].no = agents[q].no + 1 /\ q \in pulse.plan)
    <3>1. /\ \A x \in Runs \ {r} : Started(r)[x] = agents[x]
          /\ Started(r)[r].no = agents[r].no + 1
      BY <1>2, StartedIs
    <3> QED  BY <2>2, <3>1
  <2> QED  BY <1>2, <1>3, <2>1, <2>2
<1>7. ASSUME NEW q \in Runs
      PROVE  /\ (agents'[q].no > 0 => Owes(q) /\ runs[q].start \in Holding)
             /\ agents'[q].working => agents'[q].no > 0
             /\ runs[q].task > 0 => runs[q].task = agents'[q].no
             /\ (runs[q].status = "unused" => agents'[q].no = 0)
  <2>1. CASE was[q] = agents[q]  BY <1>4, <2>1 DEF RunPart, AgentPart
  <2>2. CASE was[q].no = agents[q].no + 1 /\ q \in pulse.plan
    <3>1. runs[q].task = 0 /\ runs[q].status # "unused" /\ Owes(q) /\ runs[q].start \in Holding
      BY <2>2 DEF AgentPart
    <3>2. agents'[q].no = agents[q].no + 1 /\ agents[q].no \in Nat  BY <1>4, <1>6, <2>2
    <3> QED  BY <3>1, <3>2
  <2> QED  BY <1>6, <2>1, <2>2
<1>8. RunPart'  BY <1>1, <1>7 DEF RunPart
<1>9. AgentPart'  BY <1>1, <1>5, <1>7 DEF AgentPart
<1>10. Pulse \in Pressers  BY DEF Pressers
<1>11. PressPart'  BY <1>1, <1>10 DEF PressPart
<1>12. LockPart => LockPart'  BY <1>1 DEF LockPart, OneRunPerTenant, Live, EnvOf
<1> QED  BY <1>8, <1>9, <1>11, <1>12

-----------------------------------------------------------------------------
(* Type correctness and the parts that do not look at the readings. *)

\* The steps that neither read, nor answer a tool, nor end the process.
Quiet ==
    \/ World \/ Operator \/ UNCHANGED vars
    \/ PulseStep
    \/ \E p \in Routes, s \in Sheets : RoutePresses(p, s)
    \/ \E p \in Pressers : \/ PinReads(p) \/ PressRefused(p) \/ LeavesOpen(p) \/ NothingOwed(p)
                           \/ \E r \in Runs : PinLost(p, r) \/ PressOpens(p, r)

\* Every step is quiet, reads or ends a press, is an agent's, or ends the process.
LEMMA Steps ==
  ASSUME [Next]_vars
  PROVE  \/ Quiet
         \/ \E p \in Pressers : ReadsRow(p) \/ PressEnds(p)
         \/ \E r \in Runs : AgentStep(r)
         \/ Crash \/ \E r \in Runs : DiesUnclaimed(r)
<1>1. CASE UNCHANGED vars  BY <1>1 DEF Quiet
<1>2. CASE Next
  <2>1. ASSUME NEW p \in Pressers, PressStep(p)
        PROVE  Quiet \/ ReadsRow(p) \/ PressEnds(p)
    BY Zenon, <2>1 DEF PressStep, Quiet
  <2>2. CASE Elsewhere
    <3>1. \/ World \/ Operator
          \/ \E p \in Routes, s \in Sheets : RoutePresses(p, s)
          \/ \E p \in Pressers : PressStep(p)
          \/ \E r \in Runs : AgentStep(r)
      BY Zenon, <2>2 DEF Elsewhere
    <3>2. World \/ Operator \/ (\E p \in Routes, s \in Sheets : RoutePresses(p, s)) => Quiet  BY Zenon DEF Quiet
    <3> QED  BY Zenon, <2>1, <3>1, <3>2
  <2>3. PulseStep => Quiet  BY Zenon DEF Quiet
  <2>4. PulseStep \/ Elsewhere \/ Crash \/ \E r \in Runs : DiesUnclaimed(r)  BY Zenon, <1>2 DEF Next
  <2> QED
    <3>1. CASE Elsewhere  BY Zenon, <2>2, <3>1
    <3>2. CASE PulseStep  BY Zenon, <2>3, <3>2
    <3>3. CASE Crash \/ \E r \in Runs : DiesUnclaimed(r)  BY Zenon, <3>3
    <3> QED  BY Zenon, <2>4, <3>1, <3>2, <3>3
<1> QED  BY Zenon, <1>1, <1>2

\* A quiet step ends no run, reads nothing and brings the pulse's press to no run that has ended.
LEMMA QuietIs ==
  ASSUME Parts, LockPart, Quiet
  PROVE  /\ TypeOK' /\ RunPart' /\ AgentPart' /\ PressPart' /\ LockPart'
         /\ readings' = readings /\ calls' = calls
         /\ \A q \in Runs : runs'[q].status = "ended" => runs[q].status = "ended" /\ runs'[q].ok = runs[q].ok
         /\ \A q \in Runs : runs[q].status = "ended" /\ presses'[Pulse].at \in {"reading", "ending"} /\ presses'[Pulse].run = q
               => presses[Pulse].at \in {"reading", "ending"} /\ presses[Pulse].run = q
<1> DEFINE Goal == /\ TypeOK' /\ RunPart' /\ AgentPart' /\ PressPart' /\ LockPart'
                   /\ readings' = readings /\ calls' = calls
                   /\ \A q \in Runs : runs'[q].status = "ended" => runs[q].status = "ended" /\ runs'[q].ok = runs[q].ok
                   /\ \A q \in Runs : runs[q].status = "ended" /\ presses'[Pulse].at \in {"reading", "ending"} /\ presses'[Pulse].run = q
                         => presses[Pulse].at \in {"reading", "ending"} /\ presses[Pulse].run = q
<1>1. TypeOK /\ RunPart /\ PressPart /\ Pulse \in Pressers  BY DEF Parts, Pressers
<1>2. ASSUME Ordinary, TypeOK', readings' = readings, calls' = calls,
             \A q \in Runs : runs'[q].status = "ended" => runs[q].status = "ended"
      PROVE  Goal
  <2>1. RunPart' /\ AgentPart' /\ PressPart' /\ LockPart'  BY <1>2, OrdinaryKeeps
  <2>2. \A q \in Runs : runs'[q].ok = runs[q].ok  BY <1>2 DEF Ordinary, Lets
  <2>3. PressStays(Pulse)  BY <1>1, <1>2 DEF Ordinary, PressesStay
  <2>4. presses'[Pulse].at \in {"reading", "ending"} =>
          presses[Pulse].at \in {"reading", "ending"} /\ presses'[Pulse].run = presses[Pulse].run
    BY <2>3 DEF PressStays
  <2> QED  BY <1>2, <2>1, <2>2, <2>4
<1>3. ASSUME NEW r \in Runs, NEW how \in {"ended", "abandoned"}, how # "ended", runs' = Settled(r, how)
      PROVE  \A q \in Runs : runs'[q].status = "ended" => runs[q].status = "ended"
  <2>1. runs \in [Runs -> RunRow] /\ how \in Statuses  BY <1>1 DEF TypeOK, Statuses
  <2>2. \A q \in Runs : runs'[q].status = IF q = r /\ Live(r) THEN how ELSE runs[q].status
    BY <1>3, <2>1, SettledIs
  <2> QED  BY <1>3, <2>2
<1>4. ASSUME World \/ Operator \/ UNCHANGED vars  PROVE Goal
  <2>1. Ordinary  BY <1>4, OutsideOrdinary
  <2>2. CASE World \/ \E s \in Sheets : Give(s) \/ NotHere(s) \/ Withdraw(s)
    <3>1. TypeOK' /\ UNCHANGED inside  BY <1>1, <2>2, OutsideTypes
    <3>2. runs' = runs /\ readings' = readings /\ calls' = calls  BY <3>1, InsideIs
    <3> QED  BY <1>2, <2>1, <3>1, <3>2
  <2>3. ASSUME NEW e \in Envs, Cancel(e)  PROVE Goal
    <3>1. UNCHANGED <<readings, agents, calls, presses, pulse, outside, answers>>  BY <2>3 DEF Cancel
    <3>2. PICK r \in Runs : runs' = Settled(r, "abandoned")  BY <2>3 DEF Cancel, LiveOn
    <3>3. runs' \in [Runs -> RunRow]  BY <1>1, <3>2, SettledIs DEF TypeOK, Statuses
    <3>4. TypeOK'  BY <1>1, <3>1, <3>3 DEF TypeOK, outside, answers
    <3>5. \A q \in Runs : runs'[q].status = "ended" => runs[q].status = "ended"  BY <1>3, <3>2
    <3> QED  BY <1>2, <2>1, <3>1, <3>4, <3>5
  <2>4. CASE UNCHANGED vars
    <3>1. TypeOK' /\ runs' = runs /\ readings' = readings /\ calls' = calls  BY <1>1, <2>4 DEF vars, TypeOK
    <3> QED  BY <1>2, <2>1, <3>1
  <2> QED  BY <1>4, <2>2, <2>3, <2>4 DEF Operator
<1>5. ASSUME NEW r \in Runs, Dispatch(r)  PROVE Goal
  <2>1. TypeOK'  BY <1>1, <1>5, PulseTypes DEF PulseStep
  <2>2. /\ RunPart' /\ AgentPart' /\ PressPart' /\ LockPart'
    BY <1>5, DispatchKeeps
  <2>3. readings' = readings /\ calls' = calls /\ presses' = presses  BY <1>5 DEF Dispatch
  <2>4. ASSUME NEW q \in Runs, runs'[q].status = "ended"
        PROVE  runs[q].status = "ended" /\ runs'[q].ok = runs[q].ok
    BY <1>5, <2>4, DispatchKeeps
  <2> QED  BY <2>1, <2>2, <2>3, <2>4
<1>6. ASSUME \/ Sweep \/ Decide \/ EndPulse
             \/ \E i \in pulse.queue : OkLapses(i) \/ OkWaits(i) \/ OkPresses(i)
             \/ \E r \in Runs : NotDispatched(r)
      PROVE  Goal
  <2>1. Ordinary  BY <1>6, PulseOrdinary
  <2>2. TypeOK'  BY <1>1, <1>6, PulseTypes DEF PulseStep
  <2>3. readings' = readings /\ calls' = calls
    BY <1>6 DEF Sweep, Decide, EndPulse, OkLapses, OkWaits, OkPresses, NotDispatched
  <2>4. \A q \in Runs : runs'[q].status = "ended" => runs[q].status = "ended"
    <3>1. CASE Sweep
      <4>1. \A q \in Runs : runs'[q].status = IF Forsaken(q) THEN "abandoned" ELSE runs[q].status
        BY <1>1, <3>1, SweepIs
      <4> QED  BY <4>1
    <3>2. CASE ~Sweep
      <4>1. runs' = runs  BY <1>6, <3>2 DEF Decide, EndPulse, OkLapses, OkWaits, OkPresses, NotDispatched
      <4> QED  BY <4>1
    <3> QED  BY <3>1, <3>2
  <2> QED  BY <1>2, <2>1, <2>2, <2>3, <2>4
<1>7. ASSUME NEW p \in Pressers,
             \/ PinReads(p) \/ PressRefused(p) \/ LeavesOpen(p) \/ NothingOwed(p)
             \/ \E s \in Sheets : p # Pulse /\ RoutePresses(p, s)
      PROVE  Goal
  <2>1. Ordinary  BY <1>7, PressOrdinary
  <2>2. TypeOK'  BY <1>1, <1>7, PressTypes DEF PressStep
  <2>3. runs' = runs /\ readings' = readings /\ calls' = calls
    BY <1>7 DEF PinReads, PressRefused, LeavesOpen, NothingOwed, RoutePresses
  <2> QED  BY <1>2, <2>1, <2>2, <2>3
<1>8. ASSUME NEW p \in Pressers, NEW r \in Runs, PinLost(p, r) \/ PressOpens(p, r)  PROVE Goal
  <2>1. TypeOK'  BY <1>1, <1>8, PressTypes DEF PressStep
  <2>2. /\ RunPart' /\ AgentPart' /\ PressPart' /\ LockPart'
        /\ \A q \in Runs \ {r} : runs'[q] = runs[q]
        /\ runs[r].status = "unused" /\ runs'[r].status \in {"pending", "abandoned"}
    BY <1>8, OpenKeeps
  <2>3. readings' = readings /\ calls' = calls  BY <1>8 DEF PinLost, PressOpens
  <2>4. ASSUME NEW q \in Runs, runs[q].status = "ended",
               presses'[Pulse].at \in {"reading", "ending"}, presses'[Pulse].run = q
        PROVE  presses[Pulse].at \in {"reading", "ending"} /\ presses[Pulse].run = q
    <3>1. presses[p].sheet \in Sheets  BY <1>1, <1>8 DEF PressPart, PinLost, PressOpens, Free
    <3>2. /\ \A x \in Pressers \ {p} : presses'[x] = presses[x]
          /\ presses'[p].at = "idle" \/ presses'[p].run = r
      <4>1. CASE PinLost(p, r)
        <5>1. Returns(p, TRUE)  BY <4>1 DEF PinLost
        <5> QED  BY <1>1, <3>1, <5>1, ReturnsIs
      <4>2. CASE PressOpens(p, r)  BY <1>1, <4>2, PressOpensIs
      <4> QED  BY <1>8, <4>1, <4>2
    <3> QED  BY <1>1, <2>2, <2>4, <3>2
  <2> QED  BY <2>1, <2>2, <2>3, <2>4
<1>9. PulseStep => Goal
  <2>1. PulseStep => \/ Sweep \/ Decide \/ EndPulse
                     \/ \E i \in pulse.queue : OkLapses(i) \/ OkWaits(i) \/ OkPresses(i)
                     \/ \E r \in Runs : NotDispatched(r)
                     \/ \E r \in Runs : Dispatch(r)
    BY Zenon DEF PulseStep
  <2> HIDE DEF Goal
  <2>2. (\E r \in Runs : Dispatch(r)) => Goal  BY Zenon, <1>5
  <2> QED  BY Zenon, <1>6, <2>1, <2>2
<1>10. ASSUME NEW p \in Routes, NEW s \in Sheets, RoutePresses(p, s)  PROVE Goal
  <2>1. p \in Pressers /\ p # Pulse  BY RemoteRunsAssumption DEF Pressers
  <2> HIDE DEF Goal
  <2> QED  BY <1>7, <1>10, <2>1
<1> HIDE DEF Goal
<1>11. Goal
  <2>1. \/ World \/ Operator \/ UNCHANGED vars
        \/ PulseStep
        \/ \E p \in Routes, s \in Sheets : RoutePresses(p, s)
        \/ \E p \in Pressers : \/ PinReads(p) \/ PressRefused(p) \/ LeavesOpen(p) \/ NothingOwed(p)
                               \/ \E r \in Runs : PinLost(p, r) \/ PressOpens(p, r)
    BY Zenon DEF Quiet
  <2>2. ASSUME NEW p \in Pressers, \/ PinReads(p) \/ PressRefused(p) \/ LeavesOpen(p) \/ NothingOwed(p)
                                   \/ \E r \in Runs : PinLost(p, r) \/ PressOpens(p, r)
        PROVE  Goal
    BY Zenon, <1>7, <1>8, <2>2
  <2>3. World \/ Operator \/ UNCHANGED vars => Goal  BY Zenon, <1>4
  <2> QED  BY Zenon, <1>9, <1>10, <2>1, <2>2, <2>3
<1> QED  BY <1>11 DEF Goal

\* Every step keeps the parts that do not look at the readings.
LEMMA PartsStep ==
  ASSUME Parts, LockPart, [Next]_vars
  PROVE  Parts' /\ LockPart'
<1>1. TypeOK /\ RunPart /\ AgentPart /\ PressPart  BY DEF Parts
<1>2. CASE Quiet  BY <1>2, QuietIs DEF Parts
<1>3. ASSUME NEW p \in Pressers, ReadsRow(p) \/ PressEnds(p)  PROVE Parts' /\ LockPart'
  <2>1. Ordinary  BY <1>3, PressOrdinary
  <2>2. TypeOK'  BY <1>1, <1>3, PressTypes DEF PressStep
  <2> QED  BY <2>1, <2>2, OrdinaryKeeps DEF Parts
<1>4. ASSUME NEW r \in Runs, AgentStep(r)  PROVE Parts' /\ LockPart'
  <2>1. Ordinary  BY <1>4, AgentOrdinary
  <2>2. TypeOK'  BY <1>1, <1>4, AgentTypes
  <2> QED  BY <2>1, <2>2, OrdinaryKeeps DEF Parts
<1>5. CASE Crash \/ \E r \in Runs : DiesUnclaimed(r)  BY <1>1, <1>5, RestartIs, RestartKeeps DEF Parts
<1> QED  BY <1>2, <1>3, <1>4, <1>5, Steps

-----------------------------------------------------------------------------
(* The closing commit, and the blocks a report spares. *)

\* An attributed run's readings carry one commit.
LEMMA AttributedClose ==
  ASSUME TypeOK, NEW r \in Runs, NEW b \in Commits, readings' = Attributed(r, b)
  PROVE  /\ OneClosingCommit(r)' /\ \A q \in Runs \ {r} : readings'[q] = readings[q]
         /\ \A x \in readings'[r] : x.end = b /\ \E y \in readings[r] : x.by = y.by /\ x.outcome = y.outcome
         /\ \A y \in readings[r] : \E x \in readings'[r] : x.by = y.by /\ x.outcome = y.outcome
<1>1. readings \in [Runs -> SUBSET Reading]  BY DEF TypeOK
<1>2. /\ \A q \in Runs \ {r} : readings'[q] = readings[q]
      /\ \A x \in readings'[r] : x.end = b /\ \E y \in readings[r] : x.by = y.by /\ x.outcome = y.outcome
      /\ \A y \in readings[r] : \E x \in readings'[r] : x.by = y.by /\ x.outcome = y.outcome
  BY <1>1, AttributedIs
<1> QED  BY <1>2 DEF OneClosingCommit

\* What a press that ends does to the rows.
LEMMA PressEndsIs ==
  ASSUME Parts, NEW p \in Pressers, PressEnds(p)
  PROVE  /\ presses[p].run \in Runs /\ presses[p].at = "ending" /\ ~Owes(presses[p].run)
         /\ \E b \in Commits : readings' = Attributed(presses[p].run, b)
         /\ presses'[p].at = "idle" /\ \A q \in Pressers \ {p} : presses'[q] = presses[q]
         /\ calls' = calls
         /\ p # Pulse => runs[presses[p].run].ok = 0
         /\ \A q \in Runs \ {presses[p].run} : runs'[q].status = runs[q].status
         /\ \A q \in Runs : runs'[q].ok = runs[q].ok
<1>1. TypeOK /\ PressPart  BY DEF Parts
<1>2. /\ Returns(p, TRUE) /\ presses[p].at = "ending" /\ runs' = Settled(presses[p].run, "ended") /\ calls' = calls
  BY DEF PressEnds
<1>3. /\ presses[p].run \in Runs /\ presses[p].sheet \in Sheets /\ ~Owes(presses[p].run)
      /\ p # Pulse => runs[presses[p].run].ok = 0
  BY <1>1, <1>2 DEF PressPart
<1>4. PICK b \in Probed(presses[p].sheet[2]) : readings' = Attributed(presses[p].run, b)
  BY DEF PressEnds
<1>5. b \in Commits  BY <1>1, <1>3, <1>4, SheetParts DEF Probed, Commits, TypeOK
<1>6. presses'[p].at = "idle" /\ \A q \in Pressers \ {p} : presses'[q] = presses[q]
  BY <1>1, <1>2, <1>3, ReturnsIs
<1>7. \A q \in Runs : /\ runs'[q].ok = runs[q].ok
                      /\ runs'[q].status = IF q = presses[p].run /\ Live(presses[p].run) THEN "ended" ELSE runs[q].status
  <2> DEFINE x == presses[p].run
  <2>1. x \in Runs /\ runs' = Settled(x, "ended") /\ runs \in [Runs -> RunRow] /\ "ended" \in Statuses
    BY <1>1, <1>2, <1>3 DEF TypeOK, Statuses
  <2> HIDE DEF x
  <2>2. \A q \in Runs : /\ runs'[q].ok = runs[q].ok
                        /\ runs'[q].status = IF q = x /\ Live(x) THEN "ended" ELSE runs[q].status
    BY <2>1, SettledIs
  <2> QED  BY <2>2 DEF x
<1> QED  BY <1>2, <1>3, <1>4, <1>5, <1>6, <1>7

\* What an agent's step does to its run's row and call, and to no other's.
LEMMA AgentStepIs ==
  ASSUME Parts, NEW r \in Runs, AgentStep(r)
  PROVE  /\ \A q \in Runs \ {r} : calls'[q] = calls[q] /\ readings'[q] = readings[q]
                                   /\ runs'[q].status = runs[q].status
         /\ presses' = presses
         /\ \A q \in Runs : runs'[q].ok = runs[q].ok /\ runs'[q].start = runs[q].start
         /\ \/ Lists(r) /\ calls'[r].at = "listing" /\ readings' = readings /\ runs' = runs /\ Live(r) /\ calls[r].at = "none"
            \/ Reports(r) /\ calls'[r].at = "report" /\ readings' = readings /\ runs' = runs /\ Live(r) /\ calls[r].at = "none"
            \/ CouldNotRun(r) /\ Live(r) /\ calls' = calls /\ readings' = readings /\ runs'[r].status = "abandoned"
            \/ AgentEnds(r) /\ calls' = calls /\ readings' = readings /\ runs' = runs
            \/ /\ ListingFolds(r) /\ calls[r].at = "listing" /\ calls'[r].at = "none" /\ runs' = runs
               /\ \/ readings' = readings
                  \/ \E rd \in Reading : readings'[r] = readings[r] \cup {rd} /\ rd.by = "listing"
            \/ /\ ReportRead(r) /\ calls[r].at = "report" /\ calls'[r].at = "fold" /\ calls'[r].spared = ListingBlocked(r)
               /\ readings' = readings /\ runs' = runs
            \/ /\ RowFolds(r) /\ calls[r].at = "fold" /\ calls'[r].at = "ending" /\ runs' = runs
               /\ calls'[r].build = calls[r].build
               /\ \/ calls[r].spared /\ readings' = readings
                  \/ ~calls[r].spared /\ \E rd \in Reading :
                       /\ readings'[r] = readings[r] \cup {rd} /\ rd.by = "agent" /\ rd.end = calls[r].build
                       /\ rd.outcome = "failed" => ~Moved(r)
            \/ /\ ReportEnds(r) /\ calls[r].at = "ending" /\ calls'[r].at = "none"
               /\ calls[r].build \in Commits /\ readings' = Attributed(r, calls[r].build)
               /\ runs'[r].status = IF Live(r) THEN "ended" ELSE runs[r].status
<1>1. TypeOK /\ RunPart /\ AgentPart  BY DEF Parts
<1>2. /\ runs \in [Runs -> RunRow] /\ readings \in [Runs -> SUBSET Reading] /\ calls \in [Runs -> Call]
  BY <1>1 DEF TypeOK
<1>3. CASE Lists(r)
  <2>1. calls' = [calls EXCEPT ![r].at = "listing"] /\ Live(r) /\ calls[r].at = "none"
    BY <1>3 DEF Lists, Answered
  <2>2. UNCHANGED <<runs, readings, presses>>  BY <1>3 DEF Lists
  <2>3. calls'[r].at = "listing" /\ \A q \in Runs \ {r} : calls'[q] = calls[q]  BY <1>2, <2>1
  <2> QED  BY <1>3, <2>1, <2>2, <2>3
<1>4. CASE Reports(r)
  <2>1. calls' = [calls EXCEPT ![r].at = "report"] /\ Live(r) /\ calls[r].at = "none"
    BY <1>4 DEF Reports, Answered
  <2>2. UNCHANGED <<runs, readings, presses>>  BY <1>4 DEF Reports
  <2>3. calls'[r].at = "report" /\ \A q \in Runs \ {r} : calls'[q] = calls[q]  BY <1>2, <2>1
  <2> QED  BY <1>4, <2>1, <2>2, <2>3
<1>5. CASE CouldNotRun(r)
  <2>1. runs' = Settled(r, "abandoned") /\ Live(r) /\ UNCHANGED <<readings, calls, presses>>
    BY <1>5 DEF CouldNotRun, Answered
  <2>2. "abandoned" \in Statuses  BY DEF Statuses
  <2>3. \A q \in Runs : /\ runs'[q].ok = runs[q].ok /\ runs'[q].start = runs[q].start
                        /\ runs'[q].status = IF q = r /\ Live(r) THEN "abandoned" ELSE runs[q].status
    BY <1>2, <2>1, <2>2, SettledIs
  <2> QED  BY <1>5, <2>1, <2>3
<1>6. CASE AgentEnds(r)
  <2>1. UNCHANGED <<runs, readings, calls, presses>>  BY <1>6 DEF AgentEnds
  <2> QED  BY <1>6, <2>1
<1>7. CASE ListingFolds(r)
  <2> DEFINE rd == [by |-> "listing", outcome |-> "blocked", end |-> NoBuild]
  <2>1. /\ calls[r].at = "listing" /\ calls' = [calls EXCEPT ![r] = NoCall]
        /\ readings' = Read(r, rd) \/ readings' = readings
        /\ UNCHANGED <<runs, presses>>
    BY <1>7 DEF ListingFolds
  <2>2. rd \in Reading /\ rd.by = "listing"  BY TheirReadings
  <2> HIDE DEF rd
  <2>3. calls'[r].at = "none" /\ \A q \in Runs \ {r} : calls'[q] = calls[q]  BY <1>1, <2>1, AnsweredIs
  <2>4. readings' = Read(r, rd) =>
          readings'[r] = readings[r] \cup {rd} /\ \A q \in Runs \ {r} : readings'[q] = readings[q]
    BY <1>2, <2>2, ReadIs
  <2> QED  BY <1>7, <2>1, <2>2, <2>3, <2>4
<1>8. CASE ReportRead(r)
  <2>1. UNCHANGED <<runs, readings, presses>>  BY <1>8 DEF ReportRead
  <2>2. /\ calls[r].at = "report" /\ \A q \in Runs \ {r} : calls'[q] = calls[q]
        /\ calls'[r].at = "fold" /\ calls'[r].spared = ListingBlocked(r)
    BY <1>1, <1>8, ReportReadIs
  <2> QED  BY <1>8, <2>1, <2>2
<1>9. CASE RowFolds(r)
  <2>1. UNCHANGED <<runs, presses>>  BY <1>9 DEF RowFolds
  <2>2. /\ \A q \in Runs \ {r} : readings'[q] = readings[q]
        /\ calls[r].at = "fold" /\ calls' = [calls EXCEPT ![r].at = "ending"]
        /\ \/ calls[r].spared /\ readings' = readings
           \/ ~calls[r].spared /\ \E rd \in Reading :
                /\ readings' = Read(r, rd) /\ rd.by = "agent" /\ rd.end = calls[r].build
                /\ rd.outcome = "failed" => ~Moved(r)
    BY <1>1, <1>9, RowFoldsIs
  <2>3. calls'[r].at = "ending" /\ calls'[r].build = calls[r].build /\ \A q \in Runs \ {r} : calls'[q] = calls[q]
    BY <1>2, <2>2 DEF Call
  <2>4. \A rd \in Reading : readings' = Read(r, rd) => readings'[r] = readings[r] \cup {rd}
    BY <1>2, ReadIs
  <2> QED  BY <1>9, <2>1, <2>2, <2>3, <2>4
<1>10. CASE ReportEnds(r)
  <2>1. /\ readings' = Attributed(r, calls[r].build) /\ runs' = Settled(r, "ended") /\ calls[r].at = "ending"
        /\ calls' = [calls EXCEPT ![r] = NoCall] /\ UNCHANGED presses
    BY <1>10 DEF ReportEnds
  <2>2. calls[r].build \in Commits  BY <1>2 DEF Call
  <2>3. \A q \in Runs \ {r} : readings'[q] = readings[q]  BY <1>1, <2>1, <2>2, AttributedClose
  <2>4. calls'[r].at = "none" /\ \A q \in Runs \ {r} : calls'[q] = calls[q]  BY <1>1, <2>1, AnsweredIs
  <2>5. "ended" \in Statuses  BY DEF Statuses
  <2>6. \A q \in Runs : /\ runs'[q].ok = runs[q].ok /\ runs'[q].start = runs[q].start
                        /\ runs'[q].status = IF q = r /\ Live(r) THEN "ended" ELSE runs[q].status
    BY <1>2, <2>1, <2>5, SettledIs
  <2> QED  BY <1>10, <2>1, <2>2, <2>3, <2>4, <2>6
<1> QED  BY <1>3, <1>4, <1>5, <1>6, <1>7, <1>8, <1>9, <1>10 DEF AgentStep, HandlerStep

\* What ClosingPart says of one run.
Closed(q) == runs[q].status = "ended" =>
    /\ calls[q].at = "none"
    /\ runs[q].ok > 0 => /\ ~(presses[Pulse].at \in {"reading", "ending"} /\ presses[Pulse].run = q)
                         /\ OneClosingCommit(q)

\* The closing part, run by run.
LEMMA ClosingIs == ClosingPart <=> \A q \in Runs : Closed(q)
  BY DEF ClosingPart, Closed, OkdRunIsAttributed

\* Every step keeps it: a report closes what no press of the pulse can still add to.
LEMMA ClosingStep ==
  ASSUME Parts, LockPart, ClosingPart, [Next]_vars
  PROVE  ClosingPart'
<1>1. TypeOK /\ RunPart /\ AgentPart /\ PressPart /\ Pulse \in Pressers /\ \A q \in Runs : Closed(q)
  BY ClosingIs DEF Parts, Pressers
<1>2. ASSUME NEW q \in Runs,
             runs'[q].status = "ended" => runs[q].status = "ended", runs'[q].ok = runs[q].ok,
             calls'[q] = calls[q] \/ calls'[q].at = "none",
             readings'[q] = readings[q],
             runs[q].status = "ended" /\ presses'[Pulse].at \in {"reading", "ending"} /\ presses'[Pulse].run = q
               => presses[Pulse].at \in {"reading", "ending"} /\ presses[Pulse].run = q
      PROVE  Closed(q)'
  <2>1. Closed(q)  BY <1>1
  <2> QED  BY <1>2, <2>1 DEF Closed, OneClosingCommit
<1>3. ASSUME Quiet, NEW q \in Runs  PROVE Closed(q)'
  <2>1. /\ readings' = readings /\ calls' = calls
        /\ \A x \in Runs : runs'[x].status = "ended" => runs[x].status = "ended" /\ runs'[x].ok = runs[x].ok
        /\ \A x \in Runs : runs[x].status = "ended" /\ presses'[Pulse].at \in {"reading", "ending"} /\ presses'[Pulse].run = x
               => presses[Pulse].at \in {"reading", "ending"} /\ presses[Pulse].run = x
    BY <1>3, QuietIs
  <2>2. CASE runs'[q].status = "ended"  BY <1>2, <2>1, <2>2
  <2>3. CASE runs'[q].status # "ended"  BY <2>3 DEF Closed
  <2> QED  BY <2>2, <2>3
<1>4. ASSUME NEW p \in Pressers, ReadsRow(p), NEW q \in Runs  PROVE Closed(q)'
  <2> DEFINE rd == [by |-> "press", outcome |-> "answered", end |-> NoBuild]
  <2>1. /\ presses[p].at = "reading" /\ readings' = Read(presses[p].run, rd)
        /\ UNCHANGED <<runs, calls, presses>>
    BY <1>4 DEF ReadsRow
  <2>2. rd \in Reading  BY TheirReadings
  <2>3. presses[p].run \in Runs /\ (p # Pulse => runs[presses[p].run].ok = 0)  BY <1>1, <2>1 DEF PressPart
  <2> HIDE DEF rd
  <2>4. \A x \in Runs \ {presses[p].run} : readings'[x] = readings[x]
    BY <1>1, <2>1, <2>2, <2>3, ReadIs DEF TypeOK
  <2>5. CASE q # presses[p].run  BY <1>2, <2>1, <2>4, <2>5
  <2>6. CASE q = presses[p].run
    <3>1. Closed(q) /\ runs[q].ok \in Nat  BY <1>1 DEF TypeOK, RunRow
    <3> QED  BY <2>1, <2>3, <2>6, <3>1 DEF Closed
  <2> QED  BY <2>5, <2>6
<1>5. ASSUME NEW p \in Pressers, PressEnds(p), NEW q \in Runs  PROVE Closed(q)'
  <2>1. PICK x \in Runs :
        /\ x = presses[p].run /\ presses[p].at = "ending" /\ ~Owes(x) /\ \E b \in Commits : readings' = Attributed(x, b)
        /\ presses'[p].at = "idle" /\ \A y \in Pressers \ {p} : presses'[y] = presses[y]
        /\ calls' = calls /\ (p # Pulse => runs[x].ok = 0)
        /\ \A y \in Runs \ {x} : runs'[y].status = runs[y].status
        /\ \A y \in Runs : runs'[y].ok = runs[y].ok
    BY <1>5, PressEndsIs
  <2>2. OneClosingCommit(x)' /\ \A y \in Runs \ {x} : readings'[y] = readings[y]
    <3>1. PICK b \in Commits : readings' = Attributed(x, b)  BY <2>1
    <3> QED  BY <1>1, <3>1, AttributedClose
  <2>3. calls[x].at = "none"  BY <1>1, <2>1 DEF AgentPart
  <2>4. presses'[Pulse].at \in {"reading", "ending"} /\ presses'[Pulse].run = q
          => presses[Pulse].at \in {"reading", "ending"} /\ presses[Pulse].run = q
    BY <1>1, <2>1
  <2>5. CASE q # x  BY <1>2, <2>1, <2>2, <2>4, <2>5
  <2>6. CASE q = x /\ p = Pulse  BY <2>1, <2>2, <2>3, <2>6 DEF Closed, OneClosingCommit
  <2>7. CASE q = x /\ p # Pulse
    <3>1. runs'[q].ok = 0  BY <2>1, <2>7
    <3> QED  BY <2>1, <2>3, <2>7, <3>1 DEF Closed
  <2> QED  BY <2>5, <2>6, <2>7
<1>6. ASSUME NEW r \in Runs, AgentStep(r), NEW q \in Runs  PROVE Closed(q)'
  <2>1. /\ \A x \in Runs \ {r} : calls'[x] = calls[x] /\ readings'[x] = readings[x] /\ runs'[x].status = runs[x].status
        /\ presses' = presses /\ \A x \in Runs : runs'[x].ok = runs[x].ok
    BY <1>6, AgentStepIs
  <2>2. CASE q # r  BY <1>2, <2>1, <2>2
  <2>3. CASE q = r
    <3>1. Closed(r)  BY <1>1
    <3>2. runs[r].status = "ended" => ~Live(r) /\ calls[r].at = "none"  BY <3>1 DEF Live, Closed
    <3>3. CASE ~ReportEnds(r)
      <4>1. \/ runs' = runs /\ Live(r)
            \/ runs'[r].status = "abandoned"
            \/ runs' = runs /\ calls' = calls /\ readings' = readings
            \/ runs' = runs /\ calls[r].at # "none"
        BY <1>6, <3>3, AgentStepIs
      <4> QED  BY <2>1, <2>3, <3>1, <3>2, <4>1 DEF Closed, OneClosingCommit
    <3>4. CASE ReportEnds(r)
      <4>1. calls[r].at = "ending" /\ calls'[r].at = "none" /\ readings' = Attributed(r, calls[r].build)
        BY <1>1, <3>4, AnsweredIs DEF ReportEnds
      <4>2. calls[r].build \in Commits  BY <1>1 DEF TypeOK, Call
      <4>3. OneClosingCommit(r)'  BY <1>1, <4>1, <4>2, AttributedClose
      <4>4. agents[r].no > 0  BY <1>1, <4>1 DEF AgentPart
      <4>5. ~(presses[Pulse].at \in {"reading", "ending"} /\ presses[Pulse].run = r)
        BY <1>1, <4>4 DEF PressPart
      <4> QED  BY <2>1, <2>3, <4>1, <4>3, <4>5 DEF Closed
    <3> QED  BY <3>3, <3>4
  <2> QED  BY <2>2, <2>3
<1>7. ASSUME Crash \/ \E r \in Runs : DiesUnclaimed(r), NEW q \in Runs  PROVE Closed(q)'
  <2>1. /\ runs' = runs /\ readings' = readings /\ \A x \in Runs : calls'[x].at = "none"
        /\ \A p \in Pressers : presses'[p].at = "idle"
    BY <1>1, <1>7, RestartIs
  <2> QED  BY <1>1, <1>2, <2>1
<1>8. ASSUME NEW q \in Runs  PROVE Closed(q)'
  <2>1. (\E p \in Pressers : ReadsRow(p) \/ PressEnds(p)) => Closed(q)'  BY Zenon, <1>4, <1>5
  <2>2. (\E r \in Runs : AgentStep(r)) => Closed(q)'  BY Zenon, <1>6
  <2>3. Quiet => Closed(q)'  BY Zenon, <1>3
  <2>4. Crash \/ (\E r \in Runs : DiesUnclaimed(r)) => Closed(q)'  BY Zenon, <1>7
  <2> QED  BY Zenon, <2>1, <2>2, <2>3, <2>4, Steps
<1>9. (\A q \in Runs : Closed(q))'  BY Zenon, <1>8
<1> QED  BY <1>9, ClosingIs, PTL

\* A press's reading, a listing's and an attribution take no block away; a fold adds none to a row
\* that is still to be folded.
LEMMA BlockStep ==
  ASSUME Parts, LockPart, BlockPart, [Next]_vars
  PROVE  BlockPart'
<1>1. TypeOK /\ PressPart  BY DEF Parts
<1>2. ASSUME NEW q \in Runs, calls'[q] = calls[q], readings'[q] = readings[q]
      PROVE  calls'[q].at = "fold" /\ Blocked(q)' => calls'[q].spared
  BY <1>2 DEF BlockPart, Blocked
<1>3. ASSUME Quiet  PROVE BlockPart'
  <2>1. readings' = readings /\ calls' = calls  BY <1>3, QuietIs
  <2> QED  BY <1>2, <2>1 DEF BlockPart
<1>4. ASSUME NEW p \in Pressers, ReadsRow(p)  PROVE BlockPart'
  <2> DEFINE rd == [by |-> "press", outcome |-> "answered", end |-> NoBuild]
             x == presses[p].run
  <2>1. presses[p].at = "reading" /\ readings' = Read(x, rd) /\ calls' = calls
    BY <1>4 DEF ReadsRow
  <2>2. rd \in Reading /\ rd.outcome # "blocked"  BY TheirReadings
  <2>3. x \in Runs  BY <1>1, <2>1 DEF PressPart
  <2> HIDE DEF rd, x
  <2>4. readings'[x] = readings[x] \cup {rd} /\ \A q \in Runs \ {x} : readings'[q] = readings[q]
    BY <1>1, <2>1, <2>2, <2>3, ReadIs DEF TypeOK
  <2>5. \A q \in Runs : Blocked(q)' => Blocked(q)  BY <2>2, <2>4 DEF Blocked
  <2> QED  BY <2>1, <2>5 DEF BlockPart
<1>5. ASSUME NEW p \in Pressers, PressEnds(p)  PROVE BlockPart'
  <2> DEFINE x == presses[p].run
  <2>1. x \in Runs /\ calls' = calls /\ \E b \in Commits : readings' = Attributed(x, b)
    BY <1>5, PressEndsIs
  <2> HIDE DEF x
  <2>2. /\ \A q \in Runs \ {x} : readings'[q] = readings[q]
        /\ \A z \in readings'[x] : \E y \in readings[x] : z.outcome = y.outcome
    BY <1>1, <2>1, AttributedClose
  <2>3. \A q \in Runs : Blocked(q)' => Blocked(q)  BY <2>2 DEF Blocked
  <2> QED  BY <2>1, <2>3 DEF BlockPart
<1>6. ASSUME NEW r \in Runs, AgentStep(r)  PROVE BlockPart'
  <2>1. \A q \in Runs \ {r} : calls'[q] = calls[q] /\ readings'[q] = readings[q]  BY <1>6, AgentStepIs
  <2>2. \/ calls' = calls /\ readings' = readings
        \/ calls'[r].at # "fold"
        \/ calls'[r].spared = ListingBlocked(r) /\ readings' = readings
    BY <1>6, AgentStepIs
  <2>3. calls'[r].at = "fold" /\ Blocked(r)' => calls'[r].spared
    BY <1>2, <2>2 DEF Blocked, ListingBlocked
  <2> QED  BY <1>2, <2>1, <2>3 DEF BlockPart
<1>7. ASSUME Crash \/ \E r \in Runs : DiesUnclaimed(r)  PROVE BlockPart'
  <2>1. \A q \in Runs : calls'[q].at = "none"  BY <1>1, <1>7, RestartIs
  <2> QED  BY <2>1 DEF BlockPart
<1> QED  BY Zenon, <1>3, <1>4, <1>5, <1>6, <1>7, Steps

-----------------------------------------------------------------------------
(* The theorems that hold of every life. *)

\* No run has been opened yet.
LEMMA InitInv == ASSUME Init PROVE Inv
<1>1. TypeOK
  <2>1. Unopened \in RunRow  BY DEF Unopened, RunRow, Statuses, Commits
  <2>2. NoPress \in Press  BY DEF NoPress, Press, Commits
  <2>3. AtRest \in PulseType  BY AtRestIs
  <2>4. moves \in 0 .. Moves /\ crashes \in Seq(Runs \cup {NoRun}) /\ Len(crashes) <= Boots
    BY RemoteRunsAssumption DEF Init
  <2>5. intents \in [Sheets -> Intent]
    <3>1. [state |-> "none", page |-> 0, no |-> 0] \in Intent  BY DEF Intent
    <3> QED  BY <3>1 DEF Init
  <2>6. checks \in [Goals -> Hands] /\ readings \in [Runs -> SUBSET Reading] /\ pages \in [Sheets -> Nat]
        /\ agents \in [Runs -> [no : Nat, working : BOOLEAN]]
    BY DEF Init, Hands
  <2> QED  BY <2>1, <2>2, <2>3, <2>4, <2>5, <2>6, NoCallIs DEF Init, TypeOK, PulseType
<1>2. \A r \in Runs : /\ runs[r].status = "unused" /\ runs[r].task = 0 /\ readings[r] = {}
                      /\ agents[r].no = 0 /\ ~agents[r].working /\ calls[r].at = "none"
  BY NoCallIs DEF Init, Unopened
<1>3. (\A p \in Pressers : presses[p].at = "idle" /\ presses[p].ok = 0) /\ pulse.at = "idle" /\ pulse.plan = {}
  BY AtRestIs DEF Init, NoPress
<1>4. RunPart  BY <1>2 DEF RunPart
<1>5. AgentPart  BY <1>2, <1>3 DEF AgentPart
<1>6. Pulse \in Pressers  BY DEF Pressers
<1>7. PressPart  BY <1>3, <1>6 DEF PressPart
<1>8. LockPart  BY <1>2 DEF LockPart, OneRunPerTenant, Live
<1>9. ClosingPart  BY <1>2 DEF ClosingPart, OkdRunIsAttributed
<1>10. BlockPart  BY <1>2 DEF BlockPart
<1> QED  BY <1>1, <1>4, <1>5, <1>7, <1>8, <1>9, <1>10 DEF Inv

\* Every step keeps the invariant.
LEMMA NextInv == ASSUME Inv, [Next]_vars PROVE Inv'
<1>1. Parts /\ LockPart /\ ClosingPart /\ BlockPart  BY DEF Inv, Parts
<1>2. Parts' /\ LockPart'  BY <1>1, PartsStep
<1>3. ClosingPart'  BY <1>1, ClosingStep
<1>4. BlockPart'  BY <1>1, BlockStep
<1> QED  BY <1>2, <1>3, <1>4 DEF Inv, Parts

\* The invariant holds in every behaviour.
LEMMA Invariance == Spec => []Inv
  BY InitInv, NextInv, PTL DEF Spec

\* The rows, the presses, the calls and the pulse hold what their tables and types say.
THEOREM RunsTyped == Spec => []TypeOK
<1>1. Inv => TypeOK  BY DEF Inv
<1> QED  BY <1>1, Invariance, PTL

\* However many presses asked before their pins, an environment has one live run.
THEOREM OneRun == Spec => []OneRunPerTenant
<1>1. Inv => OneRunPerTenant  BY DEF Inv, LockPart
<1> QED  BY <1>1, Invariance, PTL

\* Every run that was read under, or that an agent was sent on, was opened on a build that holds the work.
THEOREM PinIsHeld == Spec => []PinHeld
<1>1. Inv => PinHeld
  <2>1. Inv => RunPart /\ AgentPart  BY DEF Inv
  <2> QED  BY <2>1 DEF RunPart, AgentPart, PinHeld
<1> QED  BY <1>1, Invariance, PTL

\* A run that has been claimed is never given a second agent.
THEOREM OneAgent == Spec => []OneAgentPerRun
<1>1. Inv => OneAgentPerRun  BY DEF Inv, AgentPart, OneAgentPerRun
<1> QED  BY <1>1, Invariance, PTL

\* The readings of a run an OK opened carry one closing commit once it has ended.
THEOREM OkdRunsClose == Spec => []OkdRunIsAttributed
<1>1. Inv => OkdRunIsAttributed  BY DEF Inv, ClosingPart
<1> QED  BY <1>1, Invariance, PTL

\* A step adds an agent's reading to a row that reads blocked only as another block.
LEMMA BlockStandsStep ==
  ASSUME Inv, [Next]_vars
  PROVE  \A r \in Runs : Blocked(r) => AgentsRead(r)' \subseteq AgentsRead(r)
<1>1. Parts /\ LockPart /\ BlockPart /\ TypeOK /\ PressPart  BY DEF Inv, Parts
<1> DEFINE Same(q) == AgentsRead(q)' \subseteq AgentsRead(q)
<1>2. ASSUME NEW q \in Runs, \A x \in readings'[q] : \E y \in readings[q] : x.by = y.by /\ x.outcome = y.outcome
      PROVE  Same(q)
  BY <1>2 DEF AgentsRead
<1>3. ASSUME NEW q \in Runs, readings'[q] = readings[q]  PROVE Same(q)
  BY <1>3 DEF AgentsRead
<1>4. ASSUME NEW q \in Runs, NEW rd, readings'[q] = readings[q] \cup {rd}, rd.by # "agent"  PROVE Same(q)
  BY <1>4 DEF AgentsRead
<1> HIDE DEF Same
<1> DEFINE Goal == \A r \in Runs : Blocked(r) => Same(r)
<1>5. ASSUME Quiet  PROVE Goal
  <2>1. readings' = readings  BY <1>1, <1>5, QuietIs
  <2> QED  BY <1>3, <2>1
<1>6. ASSUME NEW p \in Pressers, ReadsRow(p)  PROVE Goal
  <2> DEFINE rd == [by |-> "press", outcome |-> "answered", end |-> NoBuild]
             x == presses[p].run
  <2>1. presses[p].at = "reading" /\ readings' = Read(x, rd)  BY <1>6 DEF ReadsRow
  <2>2. rd \in Reading /\ rd.by # "agent"  BY TheirReadings
  <2>3. x \in Runs  BY <1>1, <2>1 DEF PressPart
  <2> HIDE DEF rd, x
  <2>4. readings'[x] = readings[x] \cup {rd} /\ \A q \in Runs \ {x} : readings'[q] = readings[q]
    BY <1>1, <2>1, <2>2, <2>3, ReadIs DEF TypeOK
  <2>5. Same(x)  BY <1>4, <2>2, <2>3, <2>4
  <2> QED  BY <1>3, <2>4, <2>5
<1>7. ASSUME NEW p \in Pressers, PressEnds(p)  PROVE Goal
  <2> DEFINE x == presses[p].run
  <2>1. x \in Runs /\ \E b \in Commits : readings' = Attributed(x, b)  BY <1>1, <1>7, PressEndsIs
  <2> HIDE DEF x
  <2>2. /\ \A q \in Runs \ {x} : readings'[q] = readings[q]
        /\ \A z \in readings'[x] : \E y \in readings[x] : z.by = y.by /\ z.outcome = y.outcome
    BY <1>1, <2>1, AttributedClose
  <2>3. Same(x)  BY <1>2, <2>1, <2>2
  <2> QED  BY <1>3, <2>2, <2>3
<1>8. ASSUME NEW r \in Runs, AgentStep(r)  PROVE Goal
  <2>1. \A q \in Runs \ {r} : readings'[q] = readings[q]  BY <1>1, <1>8, AgentStepIs
  <2>2. \/ readings' = readings
        \/ \E rd \in Reading : readings'[r] = readings[r] \cup {rd} /\ rd.by = "listing"
        \/ calls[r].at = "fold" /\ ~calls[r].spared
        \/ calls[r].build \in Commits /\ readings' = Attributed(r, calls[r].build)
    BY <1>1, <1>8, AgentStepIs
  <2>3. ASSUME Blocked(r)  PROVE Same(r)
    <3>1. CASE readings' = readings  BY <1>3, <3>1
    <3>2. ASSUME NEW rd \in Reading, readings'[r] = readings[r] \cup {rd}, rd.by = "listing"  PROVE Same(r)
      BY <1>4, <3>2
    <3>3. ~(calls[r].at = "fold" /\ ~calls[r].spared)  BY <1>1, <2>3 DEF BlockPart
    <3>4. ASSUME calls[r].build \in Commits, readings' = Attributed(r, calls[r].build)  PROVE Same(r)
      <4>1. \A z \in readings'[r] : \E y \in readings[r] : z.by = y.by /\ z.outcome = y.outcome
        BY <1>1, <3>4, AttributedClose
      <4> QED  BY <1>2, <4>1
    <3> QED  BY <2>2, <3>1, <3>2, <3>3, <3>4
  <2> QED  BY <1>3, <2>1, <2>3
<1>9. ASSUME Crash \/ \E r \in Runs : DiesUnclaimed(r)  PROVE Goal
  <2>1. readings' = readings  BY <1>1, <1>9, RestartIs
  <2> QED  BY <1>3, <2>1
<1> HIDE DEF Goal
<1>10. Goal  BY Zenon, <1>5, <1>6, <1>7, <1>8, <1>9, Steps
<1> QED  BY <1>10 DEF Goal, Same

\* Once a row of a run reads blocked, no report adds another reading of it.
THEOREM BlocksStand == Spec => BlockStands
<1>1. Inv /\ [Next]_vars => [\A r \in Runs : Blocked(r) => AgentsRead(r)' \subseteq AgentsRead(r)]_vars
  BY BlockStandsStep
<1> QED  BY <1>1, Invariance, PTL DEF Spec, BlockStands

-----------------------------------------------------------------------------
(* The rows keep the lock. *)

Spents == {r \in Runs : runs[r].status # "unused"}

\* What the holder tells of an environment under one run at most.
HolderTells ==
    /\ Holder = [e \in Envs |-> Holder[e]]
    /\ \A e \in Envs : LiveOn(e) = {} => Holder[e] = NoRun
    /\ \A e \in Envs : \A r \in LiveOn(e) : Holder[e] = r

\* With one run per environment the holder is the run that is live there.
LEMMA HolderIs == LockPart => HolderTells
<1> SUFFICES ASSUME LockPart PROVE HolderTells
  OBVIOUS
<1>1. ASSUME NEW e \in Envs  PROVE LiveOn(e) = {} => Holder[e] = NoRun
  BY DEF Holder
<1>2. ASSUME NEW e \in Envs, NEW r \in LiveOn(e)  PROVE Holder[e] = r
  <2>1. Holder[e] = CHOOSE q \in LiveOn(e) : TRUE  BY DEF Holder
  <2>2. Holder[e] \in LiveOn(e)  BY <2>1
  <2>3. \A q \in LiveOn(e) : q = r  BY DEF LiveOn, LockPart, OneRunPerTenant, EnvOf
  <2> QED  BY <2>2, <2>3
<1>3. Holder = [e \in Envs |-> Holder[e]]  BY DEF Holder
<1> QED  BY <1>1, <1>2, <1>3 DEF HolderTells

\* The same of the next state.
LEMMA HolderNext == LockPart' => HolderTells'
  BY HolderIs, PTL

\* A step under which no run becomes live lets go of what is no longer held.
LEMMA LetsGoStep ==
  ASSUME LockPart, LockPart',
         \A r \in Runs : /\ runs'[r].sheet = runs[r].sheet
                         /\ runs'[r].status \in {"pending", "dispatched"} => runs[r].status \in {"pending", "dispatched"}
                         /\ runs'[r].status = "unused" <=> runs[r].status = "unused"
  PROVE  Lock!Next
<1> DEFINE On(e) == {r \in Runs : runs'[r].status \in {"pending", "dispatched"} /\ runs'[r].sheet[2] = e}
           E == {e \in Envs : On(e) = {}}
           H == Holder
           H2 == Holder'
<1>1. /\ H2 = [e \in Envs |-> H2[e]]
      /\ \A e \in Envs : On(e) = {} => H2[e] = NoRun
      /\ \A e \in Envs : \A r \in On(e) : H2[e] = r
  <2>1. \A e \in Envs : LiveOn(e)' = On(e)  BY DEF LiveOn, Live
  <2>2. /\ Holder' = [e \in Envs |-> Holder'[e]]
        /\ \A e \in Envs : LiveOn(e)' = {} => Holder'[e] = NoRun
        /\ \A e \in Envs : \A r \in LiveOn(e)' : Holder'[e] = r
    BY HolderNext DEF HolderTells
  <2> HIDE DEF On
  <2> QED  BY <2>1, <2>2
<1>2. /\ \A e \in Envs : LiveOn(e) = {} => H[e] = NoRun
      /\ \A e \in Envs : \A r \in LiveOn(e) : H[e] = r
  BY HolderIs DEF HolderTells
<1>3. \A e \in Envs : On(e) \subseteq LiveOn(e)  BY DEF LiveOn, Live
<1> HIDE DEF H, H2, On
<1>4. \A e \in Envs : H2[e] = IF e \in E THEN NoRun ELSE H[e]  BY <1>1, <1>2, <1>3
<1>5. H2 = [e \in Envs |-> IF e \in E THEN NoRun ELSE H[e]]  BY <1>1, <1>4
<1>6. {r \in Runs : runs'[r].status # "unused"} = {r \in Runs : runs[r].status # "unused"}  OBVIOUS
<1>7. E \in SUBSET Envs  OBVIOUS
<1> HIDE DEF E
<1>8. Lock!LetsGo(E)  BY <1>5, <1>6 DEF Lock!LetsGo, H, H2
<1> QED  BY <1>7, <1>8 DEF Lock!Next

\* A press that opens a run takes the lock, or spends the run without it.
LEMMA OpensStep ==
  ASSUME Inv, Inv', NEW p \in Pressers, NEW r \in Runs, PinLost(p, r) \/ PressOpens(p, r)
  PROVE  Lock!Next
<1> DEFINE On(d) == {q \in Runs : runs'[q].status \in {"pending", "dispatched"} /\ runs'[q].sheet[2] = d}
           H == Holder
           H2 == Holder'
<1>1. Parts /\ LockPart /\ LockPart' /\ TypeOK /\ PressPart  BY DEF Inv, Parts
<1>2. /\ \A q \in Runs \ {r} : runs'[q] = runs[q]
      /\ runs[r].status = "unused" /\ runs'[r].status \in {"pending", "abandoned"}
      /\ runs'[r].sheet = presses[p].sheet
  BY <1>1, OpenKeeps
<1>3. LiveOn(presses[p].sheet[2]) = {} /\ presses[p].at = "pinned"  BY DEF PinLost, PressOpens, Free
<1>4. PICK e \in Envs : e = presses[p].sheet[2]  BY <1>1, <1>3, SheetParts DEF PressPart
<1>5. /\ H2 = [d \in Envs |-> H2[d]]
      /\ \A d \in Envs : On(d) = {} => H2[d] = NoRun
      /\ \A d \in Envs : \A q \in On(d) : H2[d] = q
  <2>1. \A d \in Envs : LiveOn(d)' = On(d)  BY DEF LiveOn, Live
  <2>2. /\ Holder' = [d \in Envs |-> Holder'[d]]
        /\ \A d \in Envs : LiveOn(d)' = {} => Holder'[d] = NoRun
        /\ \A d \in Envs : \A q \in LiveOn(d)' : Holder'[d] = q
    BY <1>1, HolderNext DEF HolderTells
  <2> HIDE DEF On
  <2> QED  BY <2>1, <2>2
<1>6. /\ H = [d \in Envs |-> H[d]]
      /\ \A d \in Envs : LiveOn(d) = {} => H[d] = NoRun
      /\ \A d \in Envs : \A q \in LiveOn(d) : H[d] = q
  BY <1>1, HolderIs DEF HolderTells
<1>7. /\ \A d \in Envs \ {e} : On(d) = LiveOn(d)
      /\ runs'[r].status = "pending" => On(e) = {r}
      /\ runs'[r].status = "abandoned" => On(e) = {}
  BY <1>2, <1>3, <1>4 DEF LiveOn, Live
<1>8. /\ r \notin {q \in Runs : runs[q].status # "unused"}
      /\ {q \in Runs : runs'[q].status # "unused"} = {q \in Runs : runs[q].status # "unused"} \cup {r}
  BY <1>2
<1> HIDE DEF H, H2, On
<1>9. H[e] = NoRun  BY <1>3, <1>4, <1>6
<1>10. Lock!Opens(e, r)  BY <1>8, <1>9 DEF Lock!Opens, H
<1>11. CASE runs'[r].status = "pending"
  <2>1. \A d \in Envs : H2[d] = IF d = e THEN r ELSE H[d]  BY <1>4, <1>5, <1>6, <1>7, <1>11
  <2>2. H2 = [H EXCEPT ![e] = r]  BY <1>5, <1>6, <2>1
  <2>3. Lock!Takes(e, r)  BY <1>10, <2>2 DEF Lock!Takes, H, H2
  <2> QED  BY <1>4, <2>3 DEF Lock!Next
<1>12. CASE runs'[r].status = "abandoned"
  <2>1. \A d \in Envs : H2[d] = H[d]  BY <1>4, <1>5, <1>6, <1>7, <1>9, <1>12
  <2>2. H2 = H  BY <1>5, <1>6, <2>1
  <2>3. Lock!Wastes(e, r)  BY <1>10, <2>2 DEF Lock!Wastes, H, H2
  <2> QED  BY <1>4, <2>3 DEF Lock!Next
<1> QED  BY <1>2, <1>11, <1>12

\* Every step opens a run for somebody or lets go of some.
LEMMA LockStep ==
  ASSUME Inv, [Next]_vars
  PROVE  Lock!Next
<1>1. Parts /\ LockPart /\ Parts' /\ LockPart' /\ TypeOK  BY PartsStep DEF Inv, Parts
<1>2. Inv'  BY NextInv
<1>3. ASSUME Ordinary  PROVE Lock!Next
  <2>1. Lets  BY <1>3 DEF Ordinary
  <2>2. \A r \in Runs : /\ runs'[r].sheet = runs[r].sheet
                        /\ runs'[r].status \in {"pending", "dispatched"} => runs[r].status \in {"pending", "dispatched"}
                        /\ runs'[r].status = "unused" <=> runs[r].status = "unused"
    BY <2>1 DEF Lets, Live
  <2> QED  BY <1>1, <2>2, LetsGoStep
<1>4. ASSUME NEW r \in Runs, Dispatch(r)  PROVE Lock!Next
  <2>1. \A q \in Runs : runs'[q].sheet = runs[q].sheet  BY <1>1, <1>4, DispatchKeeps
  <2>2. \A q \in Runs : Live(q)' <=> Live(q)  BY <1>1, <1>4, DispatchKeeps
  <2>3. \A q \in Runs : runs'[q].status = "unused" <=> runs[q].status = "unused"
    <3>1. runs' = Claimed(r)  BY <1>4 DEF Dispatch
    <3>2. /\ \A q \in Runs \ {r} : runs'[q] = runs[q]
          /\ runs[r].status = "pending" => runs'[r].status = "dispatched"
          /\ runs[r].status # "pending" => runs'[r] = runs[r]
      BY <1>1, <3>1, ClaimedIs DEF TypeOK
    <3> QED  BY <3>2
  <2> QED  BY <1>1, <2>1, <2>2, <2>3, LetsGoStep DEF Live
<1>5. ASSUME Crash \/ \E r \in Runs : DiesUnclaimed(r)  PROVE Lock!Next
  <2>1. runs' = runs  BY <1>1, <1>5, RestartIs
  <2> QED  BY <1>1, <2>1, LetsGoStep
<1>6. ASSUME NEW p \in Pressers, NEW r \in Runs, PinLost(p, r) \/ PressOpens(p, r)  PROVE Lock!Next
  BY <1>2, <1>6, OpensStep
<1>7. ASSUME Quiet  PROVE Lock!Next
  <2>1. ASSUME World \/ Operator \/ UNCHANGED vars  PROVE Lock!Next  BY <1>1, <1>3, <2>1, OutsideOrdinary
  <2>2. ASSUME \/ Sweep \/ Decide \/ EndPulse
               \/ \E i \in pulse.queue : OkLapses(i) \/ OkWaits(i) \/ OkPresses(i)
               \/ \E r \in Runs : NotDispatched(r)
        PROVE  Lock!Next
    BY <1>1, <1>3, <2>2, PulseOrdinary
  <2>3. ASSUME NEW p \in Pressers,
               \/ PinReads(p) \/ PressRefused(p) \/ LeavesOpen(p) \/ NothingOwed(p)
               \/ \E s \in Sheets : p # Pulse /\ RoutePresses(p, s)
        PROVE  Lock!Next
    BY <1>1, <1>3, <2>3, PressOrdinary
  <2>4. ASSUME NEW p \in Routes, NEW s \in Sheets, RoutePresses(p, s)  PROVE Lock!Next
    <3>1. p \in Pressers /\ p # Pulse  BY RemoteRunsAssumption DEF Pressers
    <3> QED  BY <2>3, <2>4, <3>1
  <2>5. PulseStep => \/ Sweep \/ Decide \/ EndPulse
                     \/ \E i \in pulse.queue : OkLapses(i) \/ OkWaits(i) \/ OkPresses(i)
                     \/ \E r \in Runs : NotDispatched(r)
                     \/ \E r \in Runs : Dispatch(r)
    BY Zenon DEF PulseStep
  <2>6. PulseStep => Lock!Next
    <3>1. (\E r \in Runs : Dispatch(r)) => Lock!Next  BY Zenon, <1>4
    <3> QED  BY Zenon, <2>2, <2>5, <3>1
  <2>7. (\E p \in Routes, s \in Sheets : RoutePresses(p, s)) => Lock!Next  BY Zenon, <2>4
  <2>8. ASSUME NEW p \in Pressers, \/ PinReads(p) \/ PressRefused(p) \/ LeavesOpen(p) \/ NothingOwed(p)
                                   \/ \E r \in Runs : PinLost(p, r) \/ PressOpens(p, r)
        PROVE  Lock!Next
    BY Zenon, <1>6, <2>3, <2>8
  <2>9. \/ World \/ Operator \/ UNCHANGED vars
        \/ PulseStep
        \/ \E p \in Routes, s \in Sheets : RoutePresses(p, s)
        \/ \E p \in Pressers : \/ PinReads(p) \/ PressRefused(p) \/ LeavesOpen(p) \/ NothingOwed(p)
                               \/ \E r \in Runs : PinLost(p, r) \/ PressOpens(p, r)
    BY Zenon, <1>7 DEF Quiet
  <2> QED  BY Zenon, <2>1, <2>6, <2>7, <2>8, <2>9
<1>8. ASSUME NEW p \in Pressers, ReadsRow(p) \/ PressEnds(p)  PROVE Lock!Next
  BY <1>1, <1>3, <1>8, PressOrdinary
<1>9. ASSUME NEW r \in Runs, AgentStep(r)  PROVE Lock!Next
  BY <1>1, <1>3, <1>9, AgentOrdinary
<1> QED  BY Zenon, <1>5, <1>7, <1>8, <1>9, Steps

\* The rows of remote_runs implement the lock: a run takes an environment from nobody, once, and no
\* lock passes from run to run.
THEOREM LockIsKept == Spec => KeepsTheLock
<1>1. Init => Lock!Init
  <2> SUFFICES ASSUME Init PROVE Lock!Init
    OBVIOUS
  <2>1. \A r \in Runs : runs[r].status = "unused"  BY DEF Init, Unopened
  <2>2. \A e \in Envs : LiveOn(e) = {}  BY <2>1 DEF LiveOn, Live
  <2>3. Holder = [e \in Envs |-> NoRun]  BY <2>2 DEF Holder
  <2>4. {r \in Runs : runs[r].status # "unused"} = {}  BY <2>1
  <2> QED  BY <2>3, <2>4 DEF Lock!Init
<1>2. Inv /\ [Next]_vars => [Lock!Next]_<<Holder, Spents>>
  BY LockStep
<1> QED  BY <1>1, <1>2, Invariance, PTL DEF Spec, KeepsTheLock, Lock!Spec, Spents

-----------------------------------------------------------------------------
(* A life without a crash: the report. *)

\* What a run under which something was read keeps through a quiet step.
LEMMA QuietCalm ==
  ASSUME Parts, LockPart, Quiet, NEW q \in Runs, readings[q] # {}
  PROVE  /\ runs'[q].start = runs[q].start
         /\ runs'[q].status \in {"pending", "dispatched"} => runs[q].status \in {"pending", "dispatched"}
         /\ agents'[q].no = agents[q].no \/ agents'[q].no = agents[q].no + 1
<1> DEFINE Goal == /\ runs'[q].start = runs[q].start
                   /\ runs'[q].status \in {"pending", "dispatched"} => runs[q].status \in {"pending", "dispatched"}
                   /\ agents'[q].no = agents[q].no \/ agents'[q].no = agents[q].no + 1
<1>1. TypeOK /\ RunPart  BY DEF Parts
<1>2. Ordinary => Goal  BY DEF Ordinary, Lets, AgentsStay, Live
<1>3. ASSUME NEW r \in Runs, Dispatch(r)  PROVE Goal
  <2>1. runs'[q].start = runs[q].start /\ (Live(q)' <=> Live(q))  BY <1>3, DispatchKeeps
  <2>2. agents' = Started(r)  BY <1>3 DEF Dispatch
  <2>3. agents'[q].no = agents[q].no \/ agents'[q].no = agents[q].no + 1
    <3>1. agents \in [Runs -> [no : Nat, working : BOOLEAN]]  BY <1>1 DEF TypeOK
    <3>2. /\ \A x \in Runs \ {r} : Started(r)[x] = agents[x]
          /\ Started(r)[r].no = agents[r].no + 1
      BY <3>1, StartedIs
    <3> QED  BY <2>2, <3>2
  <2> QED  BY <2>1, <2>3 DEF Live
<1>4. ASSUME NEW p \in Pressers, NEW r \in Runs, PinLost(p, r) \/ PressOpens(p, r)  PROVE Goal
  <2>1. runs[r].status = "unused" /\ \A x \in Runs \ {r} : runs'[x] = runs[x]  BY <1>4, OpenKeeps
  <2>2. q # r  BY <1>1, <2>1 DEF RunPart
  <2>3. agents' = agents  BY <1>4 DEF PinLost, PressOpens
  <2> QED  BY <2>1, <2>2, <2>3
<1>5. ASSUME NEW p \in Pressers,
             \/ PinReads(p) \/ PressRefused(p) \/ LeavesOpen(p) \/ NothingOwed(p)
             \/ \E s \in Sheets : p # Pulse /\ RoutePresses(p, s)
      PROVE  Goal
  BY <1>2, <1>5, PressOrdinary
<1>6. ASSUME NEW p \in Routes, NEW s \in Sheets, RoutePresses(p, s)  PROVE Goal
  <2>1. p \in Pressers /\ p # Pulse  BY RemoteRunsAssumption DEF Pressers
  <2> QED  BY <1>5, <1>6, <2>1
<1>7. ASSUME \/ Sweep \/ Decide \/ EndPulse
             \/ \E i \in pulse.queue : OkLapses(i) \/ OkWaits(i) \/ OkPresses(i)
             \/ \E r \in Runs : NotDispatched(r)
      PROVE  Goal
  BY <1>2, <1>7, PulseOrdinary
<1>8. ASSUME World \/ Operator \/ UNCHANGED vars  PROVE Goal
  BY <1>2, <1>8, OutsideOrdinary
<1> HIDE DEF Goal
<1>9. PulseStep => Goal
  <2>1. PulseStep => \/ Sweep \/ Decide \/ EndPulse
                     \/ \E i \in pulse.queue : OkLapses(i) \/ OkWaits(i) \/ OkPresses(i)
                     \/ \E r \in Runs : NotDispatched(r)
                     \/ \E r \in Runs : Dispatch(r)
    BY Zenon DEF PulseStep
  <2>2. (\E r \in Runs : Dispatch(r)) => Goal  BY Zenon, <1>3
  <2> QED  BY Zenon, <1>7, <2>1, <2>2
<1>10. ASSUME NEW p \in Pressers, \/ PinReads(p) \/ PressRefused(p) \/ LeavesOpen(p) \/ NothingOwed(p)
                                  \/ \E r \in Runs : PinLost(p, r) \/ PressOpens(p, r)
       PROVE  Goal
  BY Zenon, <1>4, <1>5, <1>10
<1>11. Goal
  <2>1. (\E p \in Routes, s \in Sheets : RoutePresses(p, s)) => Goal  BY Zenon, <1>6
  <2>2. \/ World \/ Operator \/ UNCHANGED vars
        \/ PulseStep
        \/ \E p \in Routes, s \in Sheets : RoutePresses(p, s)
        \/ \E p \in Pressers : \/ PinReads(p) \/ PressRefused(p) \/ LeavesOpen(p) \/ NothingOwed(p)
                               \/ \E r \in Runs : PinLost(p, r) \/ PressOpens(p, r)
    BY Zenon DEF Quiet
  <2> QED  BY Zenon, <1>8, <1>9, <1>10, <2>1, <2>2
<1> QED  BY <1>11 DEF Goal

\* A failed reading of an agent is of one build.
OneBuild(r) == \A rd \in readings[r] : rd.by = "agent" /\ rd.outcome = "failed" => rd.end \in {NoBuild, runs[r].start}

\* What ReportPart says of one run.
Reported(r) ==
    /\ calls[r].at \in {"listing", "report", "fold"} => ~AgentRead(r)
    /\ calls[r].at = "none" /\ Live(r) => ~AgentRead(r)
    /\ AgentRead(r) => agents[r].no > 0
    /\ calls[r].at = "ending" => \A rd \in readings[r] :
          rd.by = "agent" /\ rd.outcome = "failed" => calls[r].build \in {NoBuild, runs[r].start}

\* The reports, run by run.
LEMMA ReportIs ==
  /\ ReportPart <=> \A r \in Runs : Reported(r)
  /\ Boots = 0 => (FailureIsOfOneBuild <=> \A r \in Runs : OneBuild(r))
  BY DEF ReportPart, Reported, FailureIsOfOneBuild, OneBuild

\* Every step without a crash keeps an agent's failures to one report and its two commits.
LEMMA ReportStep ==
  ASSUME Parts, LockPart, \A r \in Runs : Reported(r) /\ OneBuild(r), Boots = 0, [Next]_vars
  PROVE  \A q \in Runs : Reported(q)' /\ OneBuild(q)'
<1>1. TypeOK /\ RunPart /\ AgentPart /\ PressPart  BY DEF Parts
<1> DEFINE Kept(q) == Reported(q)' /\ OneBuild(q)'
<1>2. ASSUME NEW q \in Runs, readings'[q] = readings[q], calls'[q] = calls[q],
             readings[q] # {} =>
               /\ runs'[q].start = runs[q].start
               /\ runs'[q].status \in {"pending", "dispatched"} => runs[q].status \in {"pending", "dispatched"}
               /\ agents'[q].no = agents[q].no \/ agents'[q].no = agents[q].no + 1
      PROVE  Kept(q)
  <2>1. Reported(q) /\ OneBuild(q)  OBVIOUS
  <2>2. agents[q].no \in Nat  BY <1>1 DEF TypeOK
  <2>3. CASE readings[q] = {}
    <3>1. readings'[q] = {}  BY <1>2, <2>3
    <3> QED  BY <3>1 DEF Reported, OneBuild, AgentRead
  <2>4. CASE readings[q] # {}
    BY <1>2, <2>1, <2>2, <2>4 DEF Reported, OneBuild, AgentRead, Live
  <2> QED  BY <2>3, <2>4
<1>3. ASSUME Quiet, NEW q \in Runs  PROVE Kept(q)
  <2>1. readings' = readings /\ calls' = calls  BY <1>3, QuietIs
  <2>2. readings[q] # {} =>
               /\ runs'[q].start = runs[q].start
               /\ runs'[q].status \in {"pending", "dispatched"} => runs[q].status \in {"pending", "dispatched"}
               /\ agents'[q].no = agents[q].no \/ agents'[q].no = agents[q].no + 1
    BY <1>3, QuietCalm
  <2> QED  BY <1>2, <2>1, <2>2
<1>4. ASSUME NEW p \in Pressers, ReadsRow(p), NEW q \in Runs  PROVE Kept(q)
  <2> DEFINE rd == [by |-> "press", outcome |-> "answered", end |-> NoBuild]
  <2>1. PICK x \in Runs : x = presses[p].run  BY <1>1, <1>4 DEF ReadsRow, PressPart
  <2>2. readings' = Read(x, rd) /\ UNCHANGED <<runs, calls, agents>>  BY <1>4, <2>1 DEF ReadsRow
  <2>3. rd \in Reading /\ rd.by # "agent"  BY TheirReadings
  <2> HIDE DEF rd
  <2>4. readings'[x] = readings[x] \cup {rd} /\ \A y \in Runs \ {x} : readings'[y] = readings[y]
    BY <1>1, <2>2, <2>3, ReadIs DEF TypeOK
  <2>5. CASE q # x  BY <1>2, <2>2, <2>4, <2>5
  <2>6. CASE q = x
    <3>1. Reported(q) /\ OneBuild(q)  OBVIOUS
    <3> QED  BY <2>2, <2>3, <2>4, <2>6, <3>1 DEF Reported, OneBuild, AgentRead, Live
  <2> QED  BY <2>5, <2>6
<1>5. ASSUME NEW p \in Pressers, PressEnds(p), NEW q \in Runs  PROVE Kept(q)
  <2>1. PICK x \in Runs :
          /\ x = presses[p].run /\ ~Owes(x) /\ \E b \in Commits : readings' = Attributed(x, b)
          /\ calls' = calls
    BY <1>5, PressEndsIs
  <2>2. Lets /\ agents' = agents  BY <1>5, PressOrdinary DEF Ordinary, PressEnds
  <2>3. /\ \A y \in Runs \ {x} : readings'[y] = readings[y]
        /\ \A z \in readings'[x] : \E y \in readings[x] : z.by = y.by /\ z.outcome = y.outcome
    <3>1. PICK b \in Commits : readings' = Attributed(x, b)  BY <2>1
    <3> QED  BY <1>1, <3>1, AttributedClose
  <2>4. CASE q # x  BY <1>2, <2>1, <2>2, <2>3, <2>4 DEF Lets, Live
  <2>5. CASE q = x
    <3>1. ~AgentRead(x)
      <4>1. agents[x].no \in Nat /\ ~(agents[x].no > 0)  BY <1>1, <2>1 DEF TypeOK, AgentPart
      <4>2. Reported(x)  OBVIOUS
      <4> QED  BY <4>1, <4>2 DEF Reported
    <3>2. \A z \in readings'[x] : z.by # "agent"  BY <2>3, <3>1 DEF AgentRead
    <3> QED  BY <2>5, <3>2 DEF Reported, OneBuild, AgentRead
  <2> QED  BY <2>4, <2>5
<1>6. ASSUME NEW r \in Runs, AgentStep(r), NEW q \in Runs  PROVE Kept(q)
  <2>1. /\ \A x \in Runs \ {r} : calls'[x] = calls[x] /\ readings'[x] = readings[x] /\ runs'[x].status = runs[x].status
        /\ \A x \in Runs : runs'[x].ok = runs[x].ok /\ runs'[x].start = runs[x].start
    BY <1>6, AgentStepIs
  <2>2. Ordinary  BY <1>6, AgentOrdinary
  <2>3. /\ \A x \in Runs : agents'[x].no = agents[x].no
        /\ runs'[r].status \in {"pending", "dispatched"} => runs[r].status \in {"pending", "dispatched"}
    BY <2>2 DEF Ordinary, AgentsStay, Lets
  <2>4. CASE q # r  BY <1>2, <2>1, <2>3, <2>4
  <2>5. CASE q = r
    <3>1. Reported(r) /\ OneBuild(r)  OBVIOUS
    <3>2. runs'[r].start = runs[r].start /\ agents'[r].no = agents[r].no  BY <2>1, <2>3
    <3>3. CASE \/ calls'[r].at \in {"listing", "report"} /\ readings' = readings /\ Live(r) /\ calls[r].at = "none"
               \/ calls' = calls /\ readings' = readings
               \/ calls[r].at = "report" /\ calls'[r].at = "fold" /\ readings' = readings
      BY <2>3, <2>5, <3>1, <3>2, <3>3 DEF Reported, OneBuild, AgentRead, Live
    <3>4. CASE calls[r].at = "listing" /\ calls'[r].at = "none" /\ readings' = readings
      BY <2>3, <2>5, <3>1, <3>2, <3>4 DEF Reported, OneBuild, AgentRead, Live
    <3>5. ASSUME calls[r].at = "listing", calls'[r].at = "none",
                 NEW rd \in Reading, readings'[r] = readings[r] \cup {rd}, rd.by = "listing"
          PROVE  Kept(r)
      <4>1. ~AgentRead(r)  BY <3>1, <3>5 DEF Reported
      <4>2. \A z \in readings'[r] : z.by # "agent"  BY <3>5, <4>1 DEF AgentRead
      <4> QED  BY <3>5, <4>2 DEF Reported, OneBuild, AgentRead
    <3>6. CASE calls[r].at = "fold" /\ calls'[r].at = "ending" /\ readings' = readings
      <4>1. \A z \in readings'[r] : z.by # "agent"  BY <3>1, <3>6 DEF Reported, AgentRead
      <4> QED  BY <2>5, <3>6, <4>1 DEF Reported, OneBuild, AgentRead
    <3>7. ASSUME calls[r].at = "fold", calls'[r].at = "ending", calls'[r].build = calls[r].build,
                 NEW rd \in Reading, readings'[r] = readings[r] \cup {rd},
                 rd.end = calls[r].build, rd.outcome = "failed" => ~Moved(r)
          PROVE  Kept(r)
      <4>1. \A z \in readings[r] : z.by # "agent"  BY <3>1, <3>7 DEF Reported, AgentRead
      <4>2. agents[r].no > 0 /\ runs[r].start # NoBuild
        BY <1>1, <3>7, RemoteRunsAssumption DEF AgentPart
      <4>3. rd.outcome = "failed" => calls[r].build \in {NoBuild, runs[r].start}
        BY <3>7, <4>2 DEF Moved
      <4>4. \A z \in readings'[r] : z.by = "agent" /\ z.outcome = "failed" =>
              z.end = calls[r].build /\ calls[r].build \in {NoBuild, runs[r].start}
        BY <3>7, <4>1, <4>3
      <4> QED  BY <3>2, <3>7, <4>2, <4>4 DEF Reported, OneBuild
    <3>8. ASSUME calls[r].at = "ending", calls'[r].at = "none", calls[r].build \in Commits,
                 readings' = Attributed(r, calls[r].build),
                 runs'[r].status = IF Live(r) THEN "ended" ELSE runs[r].status
          PROVE  Kept(r)
      <4>1. \A z \in readings'[r] : /\ z.end = calls[r].build
                                    /\ \E y \in readings[r] : z.by = y.by /\ z.outcome = y.outcome
        BY <1>1, <3>8, AttributedClose
      <4>2. runs'[r].status \notin {"pending", "dispatched"}  BY <3>8 DEF Live
      <4>3. AgentRead(r)' => agents'[r].no > 0
        <5>1. AgentRead(r)' => AgentRead(r)  BY <4>1 DEF AgentRead
        <5> QED  BY <3>1, <3>2, <5>1 DEF Reported
      <4>4. OneBuild(r)'  BY <3>1, <3>2, <3>8, <4>1 DEF Reported, OneBuild
      <4> QED  BY <3>8, <4>2, <4>3, <4>4 DEF Reported, Live
    <3>9. \/ calls'[r].at \in {"listing", "report"} /\ readings' = readings /\ Live(r) /\ calls[r].at = "none"
          \/ calls' = calls /\ readings' = readings
          \/ calls[r].at = "report" /\ calls'[r].at = "fold" /\ readings' = readings
          \/ calls[r].at = "listing" /\ calls'[r].at = "none" /\ readings' = readings
          \/ /\ calls[r].at = "listing" /\ calls'[r].at = "none"
             /\ \E rd \in Reading : readings'[r] = readings[r] \cup {rd} /\ rd.by = "listing"
          \/ calls[r].at = "fold" /\ calls'[r].at = "ending" /\ readings' = readings
          \/ /\ calls[r].at = "fold" /\ calls'[r].at = "ending" /\ calls'[r].build = calls[r].build
             /\ \E rd \in Reading : /\ readings'[r] = readings[r] \cup {rd} /\ rd.end = calls[r].build
                                    /\ rd.outcome = "failed" => ~Moved(r)
          \/ /\ calls[r].at = "ending" /\ calls'[r].at = "none" /\ calls[r].build \in Commits
             /\ readings' = Attributed(r, calls[r].build)
             /\ runs'[r].status = IF Live(r) THEN "ended" ELSE runs[r].status
      BY <1>6, AgentStepIs
    <3> HIDE DEF Kept
    <3> QED  BY <2>5, <3>3, <3>4, <3>5, <3>6, <3>7, <3>8, <3>9
  <2> QED  BY <2>4, <2>5
<1>7. ~(Crash \/ \E r \in Runs : DiesUnclaimed(r))
  <2>1. Len(crashes) \in Nat  BY <1>1 DEF TypeOK
  <2> QED  BY <1>1, <2>1, RestartIs
<1> HIDE DEF Kept
<1>8. ASSUME NEW q \in Runs  PROVE Kept(q)
  <2>1. (\E p \in Pressers : ReadsRow(p) \/ PressEnds(p)) => Kept(q)  BY Zenon, <1>4, <1>5
  <2>2. (\E r \in Runs : AgentStep(r)) => Kept(q)  BY Zenon, <1>6
  <2>3. Quiet => Kept(q)  BY Zenon, <1>3
  <2> QED  BY Zenon, <1>7, <2>1, <2>2, <2>3, Steps
<1> QED  BY <1>8 DEF Kept

-----------------------------------------------------------------------------
(* The OK. *)

\* A step that opens nothing from an OK, takes none up and forgets none that is still to be answered.
OkFrame ==
    /\ pulse'.queue \subseteq pulse.queue
    /\ \A r \in Runs : runs'[r].ok > 0 => runs'[r].ok = runs[r].ok /\ runs'[r].sheet = runs[r].sheet
    /\ \A s \in Sheets :
         /\ intents'[s].no >= intents[s].no
         /\ intents'[s].state = "given" =>
              intents'[s].no > intents[s].no \/ (intents[s].state = "given" /\ intents'[s].no = intents[s].no)
    /\ presses'[Pulse].at \in {"pinning", "pinned"} =>
         /\ presses[Pulse].at \in {"pinning", "pinned"}
         /\ presses'[Pulse].sheet = presses[Pulse].sheet /\ presses'[Pulse].ok = presses[Pulse].ok
    /\ presses[Pulse].at \in {"reading", "ending"} =>
         \/ presses'[Pulse].at \in {"reading", "ending"} /\ presses'[Pulse].run = presses[Pulse].run
         \/ intents'[presses[Pulse].sheet].state # "given"

OkInv == OkPart /\ OkOpensOneRun

\* Only the end of the process is a crash.
LEMMA CrashesStay ==
  ASSUME [Next]_vars, ~(Crash \/ \E r \in Runs : DiesUnclaimed(r))
  PROVE  crashes' = crashes
<1>1. World \/ Operator \/ UNCHANGED vars => crashes' = crashes
  BY DEF World, Operator, Deploy, PageMoves, PersonRecords, Give, NotHere, Withdraw, Cancel, outside, vars
<1>2. PulseStep => crashes' = crashes
  BY DEF PulseStep, Sweep, Decide, EndPulse, OkLapses, OkWaits, OkPresses, Dispatch, NotDispatched, outside
<1>3. ASSUME NEW p \in Pressers, PressStep(p)  PROVE crashes' = crashes
  BY <1>3 DEF PressStep, PinReads, PressRefused, ReadsRow, LeavesOpen, NothingOwed, PressEnds, PinLost, PressOpens, outside
<1>4. ASSUME NEW r \in Runs, AgentStep(r)  PROVE crashes' = crashes
  BY <1>4 DEF AgentStep, HandlerStep, Lists, CouldNotRun, Reports, AgentEnds, ListingFolds, ReportRead, RowFolds,
              ReportEnds, outside
<1>5. ASSUME NEW p \in Routes, NEW s \in Sheets, RoutePresses(p, s)  PROVE crashes' = crashes
  BY <1>5 DEF RoutePresses
<1>6. Elsewhere => crashes' = crashes  BY Zenon, <1>1, <1>3, <1>4, <1>5 DEF Elsewhere
<1> QED  BY Zenon, <1>1, <1>2, <1>6 DEF Next

\* A step of the frame keeps every OK to one run.
LEMMA OkFrameKeeps ==
  ASSUME Parts, Parts', OkInv, OkFrame, crashes' = crashes
  PROVE  OkInv'
<1> USE DEF OkInv
<1>1. /\ intents \in [Sheets -> Intent] /\ pulse.queue \subseteq Listed
      /\ intents' \in [Sheets -> Intent] /\ runs \in [Runs -> RunRow]
      /\ runs' \in [Runs -> RunRow] /\ presses \in [Pressers -> Press]
  BY DEF Parts, TypeOK
<1>2. Pulse \in Pressers  BY DEF Pressers
<1>3. \A s \in Sheets : intents[s].no \in Nat /\ intents'[s].no \in Nat  BY <1>1 DEF Intent
<1>4. \A r \in Runs : runs[r].ok \in Nat /\ runs'[r].ok \in Nat  BY <1>1 DEF RunRow
<1>5. \A i \in pulse.queue : i.sheet \in Sheets /\ i.no \in Nat  BY <1>1 DEF Listed
<1>6. presses[Pulse].ok \in Nat /\ (presses[Pulse].at # "idle" => presses[Pulse].sheet \in Sheets)
  BY <1>1, <1>2 DEF Parts, PressPart, Press
<1>7. ASSUME NEW i \in pulse'.queue
      PROVE  i \in pulse.queue /\ i.no > 0 /\ i.no <= intents'[i.sheet].no
  <2>1. i \in pulse.queue /\ i.no > 0 /\ i.no <= intents[i.sheet].no  BY <1>7 DEF OkFrame, OkPart
  <2>2. i.sheet \in Sheets /\ i.no \in Nat  BY <1>5, <2>1
  <2>3. intents'[i.sheet].no >= intents[i.sheet].no  BY <2>2 DEF OkFrame
  <2> QED  BY <1>3, <2>1, <2>2, <2>3
<1>8. \A i, j \in pulse'.queue : i.sheet = j.sheet => i = j  BY <1>7 DEF OkPart
<1>9. ASSUME presses'[Pulse].at \in {"pinning", "pinned"}
      PROVE  /\ presses'[Pulse].ok <= intents'[presses'[Pulse].sheet].no
             /\ \A i \in pulse'.queue : i.sheet # presses'[Pulse].sheet
  <2>1. /\ presses[Pulse].at \in {"pinning", "pinned"}
        /\ presses'[Pulse].sheet = presses[Pulse].sheet /\ presses'[Pulse].ok = presses[Pulse].ok
    BY <1>9 DEF OkFrame
  <2>2. /\ presses[Pulse].ok <= intents[presses[Pulse].sheet].no
        /\ \A i \in pulse.queue : i.sheet # presses[Pulse].sheet
    BY <2>1 DEF OkPart
  <2>3. presses[Pulse].sheet \in Sheets /\ presses[Pulse].ok \in Nat  BY <1>6, <2>1
  <2>4. intents'[presses[Pulse].sheet].no >= intents[presses[Pulse].sheet].no  BY <2>3 DEF OkFrame
  <2>5. presses[Pulse].ok <= intents'[presses[Pulse].sheet].no  BY <1>3, <2>2, <2>3, <2>4
  <2> QED  BY <1>7, <2>1, <2>2, <2>5
<1>10. ASSUME NEW s \in Sheets, intents'[s].state = "given"  PROVE intents'[s].no > 0
  <2>1. intents'[s].no > intents[s].no \/ (intents[s].state = "given" /\ intents'[s].no = intents[s].no)
    BY <1>10 DEF OkFrame
  <2>2. intents[s].state = "given" => intents[s].no > 0  BY DEF OkPart
  <2> QED  BY <1>3, <2>1, <2>2
<1>11. ASSUME NEW r \in Runs, runs'[r].ok > 0
       PROVE  /\ runs'[r].sheet \in Sheets /\ runs'[r].ok <= intents'[runs'[r].sheet].no
              /\ runs'[r].ok = runs[r].ok /\ runs'[r].sheet = runs[r].sheet
  <2>1. /\ runs'[r].ok = runs[r].ok /\ runs'[r].sheet = runs[r].sheet /\ runs[r].ok > 0
        /\ runs[r].sheet \in Sheets /\ runs[r].ok <= intents[runs[r].sheet].no
    BY <1>11 DEF OkFrame, OkPart
  <2>2. intents'[runs[r].sheet].no >= intents[runs[r].sheet].no  BY <2>1 DEF OkFrame
  <2> QED  BY <1>3, <1>4, <2>1, <2>2
<1>12. \A r \in Runs : CutOff(r)' <=> CutOff(r)  BY DEF CutOff
<1>13. ASSUME NEW r \in Runs, runs'[r].ok > 0, ~CutOff(r)'
       PROVE  /\ \A i \in pulse'.queue : i.sheet = runs'[r].sheet => i.no # runs'[r].ok
              /\ (presses'[Pulse].at \in {"pinning", "pinned"} /\ presses'[Pulse].sheet = runs'[r].sheet
                   => presses'[Pulse].ok # runs'[r].ok)
              /\ (intents'[runs'[r].sheet].state = "given" /\ intents'[runs'[r].sheet].no = runs'[r].ok
                   => presses'[Pulse].at \in {"reading", "ending"} /\ presses'[Pulse].run = r)
  <2>1. PICK s \in Sheets : s = runs[r].sheet  BY <1>11, <1>13
  <2>2. runs'[r].ok = runs[r].ok /\ runs'[r].sheet = s /\ runs[r].ok > 0  BY <1>11, <1>13, <2>1
  <2>3. /\ runs[r].ok <= intents[s].no
        /\ \A i \in pulse.queue : i.sheet = s => i.no # runs[r].ok
        /\ presses[Pulse].at \in {"pinning", "pinned"} /\ presses[Pulse].sheet = s => presses[Pulse].ok # runs[r].ok
        /\ intents[s].state = "given" /\ intents[s].no = runs[r].ok =>
             presses[Pulse].at \in {"reading", "ending"} /\ presses[Pulse].run = r
    BY <1>12, <1>13, <2>1, <2>2 DEF OkPart
  <2>4. /\ intents'[s].no >= intents[s].no
        /\ intents'[s].state = "given" =>
              intents'[s].no > intents[s].no \/ (intents[s].state = "given" /\ intents'[s].no = intents[s].no)
    BY DEF OkFrame
  <2>5. \A i \in pulse'.queue : i.sheet = s => i.no # runs[r].ok  BY <1>7, <2>3
  <2>6. presses'[Pulse].at \in {"pinning", "pinned"} /\ presses'[Pulse].sheet = s => presses'[Pulse].ok # runs[r].ok
    BY <2>3 DEF OkFrame
  <2>7. ASSUME intents'[s].state = "given", intents'[s].no = runs[r].ok
        PROVE  presses'[Pulse].at \in {"reading", "ending"} /\ presses'[Pulse].run = r
    <3>1. ~(intents'[s].no > intents[s].no)  BY <1>3, <2>3, <2>7
    <3>2. presses[Pulse].at \in {"reading", "ending"} /\ presses[Pulse].run = r  BY <2>3, <2>4, <2>7, <3>1
    <3>3. presses[Pulse].sheet = s  BY <1>2, <2>1, <3>2 DEF Parts, PressPart
    <3> QED  BY <2>7, <3>2, <3>3 DEF OkFrame
  <2> QED  BY <2>2, <2>5, <2>6, <2>7
<1>14. OkPart'  BY <1>7, <1>8, <1>9, <1>10, <1>11, <1>13 DEF OkPart
<1>15. OkOpensOneRun'  BY <1>11, <1>12, <1>4 DEF OkOpensOneRun, OfOneOk
<1> QED  BY <1>14, <1>15

\* What leaves the OKs and the pulse's press alone is of the frame.
LEMMA OkStill ==
  ASSUME Parts, pulse'.queue \subseteq pulse.queue, presses'[Pulse] = presses[Pulse],
         \A r \in Runs : runs'[r].ok > 0 => runs'[r].ok = runs[r].ok /\ runs'[r].sheet = runs[r].sheet,
         \A s \in Sheets :
           /\ intents'[s].no >= intents[s].no
           /\ intents'[s].state = "given" =>
                intents'[s].no > intents[s].no \/ (intents[s].state = "given" /\ intents'[s].no = intents[s].no)
  PROVE  OkFrame
  BY DEF OkFrame

\* Intents that stay are given no more.
LEMMA IntentsStill ==
  ASSUME Parts, intents' = intents
  PROVE  \A s \in Sheets :
           /\ intents'[s].no >= intents[s].no
           /\ intents'[s].state = "given" =>
                intents'[s].no > intents[s].no \/ (intents[s].state = "given" /\ intents'[s].no = intents[s].no)
<1>1. \A s \in Sheets : intents[s].no \in Nat  BY DEF Parts, TypeOK, Intent
<1> QED  BY <1>1

\* The operator gives an OK a new number and gives an old one again never.
LEMMA OkOutside ==
  ASSUME Parts, World \/ Operator \/ UNCHANGED vars
  PROVE  OkFrame
<1>1. intents \in [Sheets -> Intent]  BY DEF Parts, TypeOK
<1>2. ASSUME NEW s \in Sheets  PROVE intents[s].no \in Nat
  BY <1>1 DEF Intent
<1> DEFINE IntentsOk == \A s \in Sheets :
             /\ intents'[s].no >= intents[s].no
             /\ intents'[s].state = "given" =>
                  intents'[s].no > intents[s].no \/ (intents[s].state = "given" /\ intents'[s].no = intents[s].no)
<1>3. IntentsOk
  <2>1. intents' = intents => IntentsOk  BY IntentsStill
  <2>2. ASSUME NEW s \in Sheets, Give(s)  PROVE IntentsOk
    <3> DEFINE i == [state |-> "given", page |-> pages[s], no |-> intents[s].no + 1]
    <3>1. intents' = [intents EXCEPT ![s] = i]  BY <2>2 DEF Give
    <3>2. i.no = intents[s].no + 1  OBVIOUS
    <3> HIDE DEF i
    <3>3. intents'[s] = i /\ \A t \in Sheets \ {s} : intents'[t] = intents[t]  BY <1>1, <3>1
    <3> QED  BY <1>2, <3>2, <3>3
  <2>3. ASSUME NEW s \in Sheets, NotHere(s)  PROVE IntentsOk
    <3> DEFINE i == [state |-> "not_here", page |-> 0, no |-> intents[s].no]
    <3>1. intents' = [intents EXCEPT ![s] = i]  BY <2>3 DEF NotHere
    <3>2. i.no = intents[s].no /\ i.state # "given"  OBVIOUS
    <3> HIDE DEF i
    <3>3. intents'[s] = i /\ \A t \in Sheets \ {s} : intents'[t] = intents[t]  BY <1>1, <3>1
    <3> QED  BY <1>2, <3>2, <3>3
  <2>4. ASSUME NEW s \in Sheets, Withdraw(s)  PROVE IntentsOk
    <3>1. intents' = Flipped(s, "withdrawn")  BY <2>4 DEF Withdraw
    <3>2. \A t \in Sheets : /\ intents'[t].no = intents[t].no
                            /\ intents'[t].state = IF t = s /\ intents[s].state = "given" THEN "withdrawn" ELSE intents[t].state
      BY <1>1, <3>1, FlippedIs
    <3> QED  BY <1>2, <3>2
  <2>5. (\E e \in Envs : Cancel(e)) \/ World \/ UNCHANGED vars => intents' = intents
    BY DEF Cancel, World, Deploy, PageMoves, PersonRecords, answers, vars
  <2> HIDE DEF IntentsOk
  <2> QED  BY Zenon, <2>1, <2>2, <2>3, <2>4, <2>5 DEF Operator
<1>4. Lets  BY OutsideOrdinary DEF Ordinary
<1>5. presses' = presses /\ pulse' = pulse
  BY DEF World, Operator, Deploy, PageMoves, PersonRecords, Give, NotHere, Withdraw, Cancel, vars
<1>6. \A r \in Runs : runs'[r].ok > 0 => runs'[r].ok = runs[r].ok /\ runs'[r].sheet = runs[r].sheet
  BY <1>4 DEF Lets
<1> QED  BY <1>3, <1>5, <1>6, OkStill

\* Agents do not touch an OK.
LEMMA OkAgent ==
  ASSUME Parts, NEW r \in Runs, AgentStep(r)
  PROVE  OkFrame
<1>1. Lets  BY AgentOrdinary DEF Ordinary
<1>2. presses' = presses /\ pulse' = pulse /\ intents' = intents
  BY DEF AgentStep, HandlerStep, Lists, CouldNotRun, Reports, AgentEnds, ListingFolds, ReportRead, RowFolds,
         ReportEnds, answers
<1>3. \A q \in Runs : runs'[q].ok > 0 => runs'[q].ok = runs[q].ok /\ runs'[q].sheet = runs[q].sheet
  BY <1>1 DEF Lets
<1> QED  BY <1>2, <1>3, OkStill, IntentsStill

\* A press that opened a run for an OK leaves it given only while it reads.
LEMMA OkPress ==
  ASSUME Parts, NEW p \in Pressers,
         \/ PinReads(p) \/ PressRefused(p) \/ ReadsRow(p) \/ LeavesOpen(p) \/ NothingOwed(p) \/ PressEnds(p)
         \/ \E s \in Sheets : p # Pulse /\ RoutePresses(p, s)
  PROVE  OkFrame
<1>1. TypeOK /\ PressPart /\ Pulse \in Pressers /\ presses \in [Pressers -> Press]  BY DEF Parts, Pressers, TypeOK
<1>2. Lets  BY PressOrdinary DEF Ordinary
<1>3. \A r \in Runs : runs'[r].ok > 0 => runs'[r].ok = runs[r].ok /\ runs'[r].sheet = runs[r].sheet
  BY <1>2 DEF Lets
<1>4. pulse' = pulse
  BY DEF PinReads, PressRefused, ReadsRow, LeavesOpen, NothingOwed, PressEnds, RoutePresses
<1>5. \A s \in Sheets : intents[s].no \in Nat  BY <1>1 DEF TypeOK, Intent
<1>6. CASE PinReads(p)
  <2>1. /\ \A q \in Pressers \ {p} : presses'[q] = presses[q]
        /\ presses'[p].at = "pinned" /\ presses'[p].sheet = presses[p].sheet /\ presses'[p].ok = presses[p].ok
    BY <1>1, <1>6, PinReadsIs
  <2>2. intents' = intents /\ presses[p].at = "pinning"  BY <1>6 DEF PinReads, answers
  <2>3. CASE p # Pulse  BY <1>1, <1>3, <1>4, <2>1, <2>2, <2>3, OkStill, IntentsStill
  <2>4. CASE p = Pulse  BY <1>3, <1>4, <2>1, <2>2, <2>4, IntentsStill DEF OkFrame
  <2> QED  BY <2>3, <2>4
<1>7. CASE ReadsRow(p)
  <2>1. intents' = intents /\ presses' = presses  BY <1>7 DEF ReadsRow, answers
  <2> QED  BY <1>3, <1>4, <2>1, OkStill, IntentsStill
<1>8. CASE NothingOwed(p)
  <2>1. /\ intents' = intents /\ presses[p].at = "reading" /\ presses' = [presses EXCEPT ![p].at = "ending"]
    BY <1>8 DEF NothingOwed, answers
  <2>2. /\ \A q \in Pressers \ {p} : presses'[q] = presses[q]
        /\ presses'[p].at = "ending" /\ presses'[p].sheet = presses[p].sheet
    BY <1>1, <2>1 DEF Press
  <2>3. CASE p # Pulse  BY <1>1, <1>3, <1>4, <2>1, <2>2, <2>3, OkStill, IntentsStill
  <2>4. CASE p = Pulse  BY <1>3, <1>4, <2>1, <2>2, <2>4, IntentsStill DEF OkFrame
  <2> QED  BY <2>3, <2>4
<1>9. ASSUME NEW s \in Sheets, p # Pulse, RoutePresses(p, s)  PROVE OkFrame
  <2>1. intents' = intents /\ presses' = [presses EXCEPT ![p] = Pressing(p, s, 0)]
    BY <1>9 DEF RoutePresses, answers
  <2>2. presses'[Pulse] = presses[Pulse]  BY <1>1, <1>9, <2>1
  <2> QED  BY <1>3, <1>4, <2>1, <2>2, OkStill, IntentsStill
<1>10. ASSUME NEW opened \in BOOLEAN, Returns(p, opened), presses[p].at # "idle",
              opened \/ presses[p].at = "pinned"
       PROVE  OkFrame
  <2>1. presses[p].sheet \in Sheets  BY <1>1, <1>10 DEF PressPart
  <2>2. /\ presses'[p].at = "idle" /\ \A q \in Pressers \ {p} : presses'[q] = presses[q]
        /\ \A s \in Sheets : intents'[s].no = intents[s].no /\ (intents'[s].state = "given" => intents[s].state = "given")
        /\ p = Pulse /\ opened => intents'[presses[p].sheet].state # "given"
    <3>1. TypeOK /\ presses[p].sheet \in Sheets /\ opened \in BOOLEAN /\ Returns(p, opened)  BY <1>1, <1>10, <2>1
    <3>2. presses'[p].at = "idle" /\ \A q \in Pressers \ {p} : presses'[q] = presses[q]  BY <3>1, ReturnsIs
    <3>3. \A s \in Sheets : intents'[s].no = intents[s].no /\ (intents'[s].state = "given" => intents[s].state = "given")
      BY <3>1, ReturnsIs
    <3>4. p = Pulse /\ opened => intents'[presses[p].sheet].state # "given"  BY <3>1, ReturnsIs
    <3> QED  BY <3>2, <3>3, <3>4
  <2>3. \A s \in Sheets :
           /\ intents'[s].no >= intents[s].no
           /\ intents'[s].state = "given" =>
                intents'[s].no > intents[s].no \/ (intents[s].state = "given" /\ intents'[s].no = intents[s].no)
    BY <1>5, <2>2
  <2>4. CASE p # Pulse  BY <1>1, <1>3, <1>4, <2>2, <2>3, <2>4, OkStill
  <2>5. CASE p = Pulse  BY <1>3, <1>4, <1>10, <2>2, <2>3, <2>5 DEF OkFrame
  <2> QED  BY <2>4, <2>5
<1>11. CASE PressRefused(p)  BY <1>10, <1>11 DEF PressRefused
<1>12. CASE LeavesOpen(p)  BY <1>10, <1>12 DEF LeavesOpen
<1>13. CASE PressEnds(p)  BY <1>10, <1>13 DEF PressEnds
<1> QED  BY <1>6, <1>7, <1>8, <1>9, <1>11, <1>12, <1>13

\* The pulse's steps other than a sweep and a press.
LEMMA OkPulse ==
  ASSUME Parts, LockPart,
         \/ Decide \/ EndPulse
         \/ \E i \in pulse.queue : OkLapses(i) \/ OkWaits(i)
         \/ \E r \in Runs : Dispatch(r) \/ NotDispatched(r)
  PROVE  OkFrame
<1>1. TypeOK /\ PressPart /\ intents \in [Sheets -> Intent]  BY DEF Parts, TypeOK
<1>2. presses' = presses
  BY DEF Decide, EndPulse, OkLapses, OkWaits, Dispatch, NotDispatched
<1>3. \A r \in Runs : runs'[r].ok > 0 => runs'[r].ok = runs[r].ok /\ runs'[r].sheet = runs[r].sheet
  <2>1. ASSUME NEW r \in Runs, Dispatch(r)  PROVE \A q \in Runs : runs'[q].ok = runs[q].ok /\ runs'[q].sheet = runs[q].sheet
    BY <2>1, DispatchKeeps
  <2>2. (\E r \in Runs : Dispatch(r)) \/ runs' = runs
    BY DEF Decide, EndPulse, OkLapses, OkWaits, NotDispatched
  <2> QED  BY <2>1, <2>2
<1>4. pulse'.queue \subseteq pulse.queue
  <2>1. CASE Decide  BY <1>1, <2>1, DecideIs
  <2>2. CASE EndPulse
    <3>1. pulse' = AtRest  BY <2>2 DEF EndPulse
    <3> QED  BY <3>1, AtRestIs
  <2>3. ASSUME NEW i, Turn(i)  PROVE pulse'.queue \subseteq pulse.queue  BY <1>1, <2>3, TurnIs
  <2>4. (\E i \in pulse.queue : OkLapses(i) \/ OkWaits(i)) => \E i \in pulse.queue : Turn(i)
    BY DEF OkLapses, OkWaits
  <2>5. ASSUME NEW r \in Runs, Dispatch(r) \/ NotDispatched(r)  PROVE pulse'.queue \subseteq pulse.queue
    <3>1. pulse' = [pulse EXCEPT !.plan = @ \ {r}]  BY <2>5 DEF Dispatch, NotDispatched
    <3> QED  BY <1>1, <3>1, PlanIs
  <2> QED  BY <2>1, <2>2, <2>3, <2>4, <2>5
<1>5. \A s \in Sheets :
         /\ intents'[s].no >= intents[s].no
         /\ intents'[s].state = "given" =>
              intents'[s].no > intents[s].no \/ (intents[s].state = "given" /\ intents'[s].no = intents[s].no)
  <2>1. ASSUME NEW i, OkLapses(i)
        PROVE  \A s \in Sheets : intents'[s].no = intents[s].no /\ (intents'[s].state = "given" => intents[s].state = "given")
    <3>1. intents' = Flipped(i.sheet, "withdrawn") /\ Turn(i)  BY <2>1 DEF OkLapses
    <3>2. i \in Listed  BY <1>1, <3>1, TurnIs
    <3>3. i.sheet \in Sheets  BY <3>2 DEF Listed
    <3>4. \A s \in Sheets : /\ intents'[s].no = intents[s].no
                            /\ intents'[s].state =
                                 IF s = i.sheet /\ intents[i.sheet].state = "given" THEN "withdrawn" ELSE intents[s].state
      BY <1>1, <3>1, <3>3, FlippedIs
    <3> QED  BY <3>4
  <2>2. (\E i \in pulse.queue : OkLapses(i)) \/ intents' = intents
    BY DEF Decide, EndPulse, OkWaits, Dispatch, NotDispatched, answers
  <2>3. \A s \in Sheets : intents[s].no \in Nat  BY <1>1 DEF Intent
  <2>4. CASE \E i \in pulse.queue : OkLapses(i)  BY <2>1, <2>3, <2>4
  <2>5. CASE intents' = intents  BY <2>5, IntentsStill
  <2> QED  BY <2>2, <2>4, <2>5
<1> QED  BY <1>2, <1>3, <1>4, <1>5, OkStill

\* The sweep lists the given OKs, and no press of the pulse's is under way.
LEMMA OkSweep ==
  ASSUME Parts, OkInv, Sweep, crashes' = crashes
  PROVE  OkInv'
<1> USE DEF OkInv
<1>1. TypeOK /\ PressPart /\ Pulse \in Pressers  BY DEF Parts, Pressers
<1>2. /\ \A q \in Runs : runs'[q].sheet = runs[q].sheet /\ runs'[q].ok = runs[q].ok
      /\ pulse' \in PulseType
      /\ \A i \in pulse'.queue : /\ i.sheet \in Sheets /\ intents[i.sheet].state = "given"
                                 /\ i.no = intents[i.sheet].no /\ i.page = intents[i.sheet].page
  BY <1>1, SweepIs DEF PulseType
<1>3. presses' = presses /\ intents' = intents /\ pulse.at = "idle"  BY DEF Sweep, answers
<1>4. presses[Pulse].at = "idle"  BY <1>1, <1>3 DEF PressPart
<1>5. pulse'.queue \subseteq Listed  BY <1>2 DEF PulseType
<1>6. \A s \in Sheets : intents[s].no \in Nat  BY <1>1 DEF TypeOK, Intent
<1>7. \A i \in pulse'.queue : i.no > 0 /\ i.no <= intents'[i.sheet].no
  BY <1>2, <1>3, <1>6 DEF OkPart
<1>8. ASSUME NEW i \in pulse'.queue, NEW j \in pulse'.queue, i.sheet = j.sheet  PROVE i = j
  <2>1. i \in Listed /\ j \in Listed  BY <1>5
  <2>2. i.page = j.page /\ i.no = j.no  BY <1>2, <1>8
  <2> QED  BY <1>8, <2>1, <2>2 DEF Listed
<1>9. \A r \in Runs : CutOff(r)' <=> CutOff(r)  BY DEF CutOff
<1>10. ASSUME NEW r \in Runs, runs'[r].ok > 0, ~CutOff(r)'
       PROVE  /\ \A i \in pulse'.queue : i.sheet = runs'[r].sheet => i.no # runs'[r].ok
              /\ ~(intents'[runs'[r].sheet].state = "given" /\ intents'[runs'[r].sheet].no = runs'[r].ok)
  <2>1. runs'[r].sheet = runs[r].sheet /\ runs'[r].ok = runs[r].ok /\ runs[r].ok > 0  BY <1>2, <1>10
  <2>2. ~(intents[runs[r].sheet].state = "given" /\ intents[runs[r].sheet].no = runs[r].ok)
    BY <1>4, <1>9, <1>10, <2>1 DEF OkPart
  <2>3. \A i \in pulse'.queue : i.sheet = runs[r].sheet => i.no # runs[r].ok  BY <1>2, <2>2
  <2> QED  BY <1>3, <2>1, <2>2, <2>3
<1>11. OkPart'
  <2>1. \A s \in Sheets : intents'[s].state = "given" => intents'[s].no > 0  BY <1>3 DEF OkPart
  <2>2. \A r \in Runs : runs'[r].ok > 0 => runs'[r].sheet \in Sheets /\ runs'[r].ok <= intents'[runs'[r].sheet].no
    BY <1>2, <1>3 DEF OkPart
  <2> QED  BY <1>3, <1>4, <1>7, <1>8, <1>10, <2>1, <2>2 DEF OkPart
<1>12. OkOpensOneRun'  BY <1>2, <1>9 DEF OkOpensOneRun, OfOneOk
<1> QED  BY <1>11, <1>12

\* The pulse takes an OK up: it leaves the list, and no run carries it yet.
LEMMA OkTaken ==
  ASSUME Parts, OkInv, NEW i, OkPresses(i), crashes' = crashes
  PROVE  OkInv'
<1> USE DEF OkInv
<1>1. TypeOK /\ Pulse \in Pressers /\ presses \in [Pressers -> Press]  BY DEF Parts, Pressers, TypeOK
<1>2. /\ Turn(i) /\ presses' = [presses EXCEPT ![Pulse] = Pressing(Pulse, i.sheet, i.no)]
      /\ runs' = runs /\ intents' = intents
  BY DEF OkPresses, answers
<1>3. pulse'.queue = pulse.queue \ {i} /\ i \in Listed /\ i \in pulse.queue /\ presses[Pulse].at = "idle"
  BY <1>1, <1>2, TurnIs
<1>4. i.sheet \in Sheets /\ i.no \in Nat  BY <1>3 DEF Listed
<1>5. presses'[Pulse] = Pressing(Pulse, i.sheet, i.no)  BY <1>1, <1>2
<1>6. presses'[Pulse].at = "pinning" /\ presses'[Pulse].sheet = i.sheet /\ presses'[Pulse].ok = i.no
  BY <1>1, <1>4, <1>5, PressingIs
<1>7. i.no <= intents[i.sheet].no /\ \A j \in pulse'.queue : j.sheet # i.sheet  BY <1>3 DEF OkPart
<1>8. ASSUME NEW r \in Runs, runs[r].ok > 0, ~CutOff(r)
      PROVE  /\ i.sheet = runs[r].sheet => i.no # runs[r].ok
             /\ ~(intents[runs[r].sheet].state = "given" /\ intents[runs[r].sheet].no = runs[r].ok)
  BY <1>3, <1>8 DEF OkPart
<1>9. \A r \in Runs : CutOff(r)' <=> CutOff(r)  BY DEF CutOff
<1>10. OkPart'  BY <1>2, <1>3, <1>6, <1>7, <1>8, <1>9 DEF OkPart
<1>11. OkOpensOneRun'  BY <1>2, <1>9 DEF OkOpensOneRun, OfOneOk
<1> QED  BY <1>10, <1>11

\* A press that opens a run: the pulse's OK is no other run's, and is answered or still being read under.
LEMMA OkOpens ==
  ASSUME Parts, LockPart, Parts', OkInv, crashes' = crashes,
         NEW p \in Pressers, NEW r \in Runs, PinLost(p, r) \/ PressOpens(p, r)
  PROVE  OkInv'
<1> USE DEF OkInv
<1>1. TypeOK /\ PressPart /\ Pulse \in Pressers /\ presses[p].at = "pinned" /\ presses[p].sheet \in Sheets
      /\ presses[p].ok \in Nat
  <2>1. presses[p].at = "pinned"  BY DEF PinLost, PressOpens, Free
  <2> QED  BY <2>1 DEF Parts, PressPart, Pressers, TypeOK, Press
<1>2. /\ \A q \in Runs \ {r} : runs'[q] = runs[q]
      /\ runs'[r].ok = presses[p].ok /\ runs'[r].sheet = presses[p].sheet
  BY OpenKeeps
<1>3. pulse' = pulse  BY DEF PinLost, PressOpens
<1>4. /\ \A q \in Pressers \ {p} : presses'[q] = presses[q]
      /\ \A s \in Sheets : /\ intents'[s].no = intents[s].no
                           /\ intents'[s].state = "given" => intents[s].state = "given"
      /\ \/ /\ presses'[p].at = "idle"
            /\ p = Pulse => intents'[presses[p].sheet].state # "given"
         \/ presses'[p].at = "reading" /\ presses'[p].run = r
  <2>1. CASE PinLost(p, r)
    <3>1. Returns(p, TRUE)  BY <2>1 DEF PinLost
    <3>2. presses'[p].at = "idle" /\ \A q \in Pressers \ {p} : presses'[q] = presses[q]  BY <1>1, <3>1, ReturnsIs
    <3>3. \A s \in Sheets : intents'[s].no = intents[s].no /\ (intents'[s].state = "given" => intents[s].state = "given")
      BY <1>1, <3>1, ReturnsIs
    <3>4. p = Pulse => intents'[presses[p].sheet].state # "given"  BY <1>1, <3>1, ReturnsIs
    <3> QED  BY <3>2, <3>3, <3>4
  <2>2. CASE PressOpens(p, r)
    <3>1. intents' = intents  BY <2>2 DEF PressOpens, answers
    <3>2. /\ \A q \in Pressers \ {p} : presses'[q] = presses[q]
          /\ presses'[p].at = "reading" /\ presses'[p].run = r
      BY <1>1, <2>2, PressOpensIs
    <3> QED  BY <3>1, <3>2
  <2> QED  BY <2>1, <2>2
<1>5. \A s \in Sheets : intents[s].no \in Nat  BY <1>1 DEF TypeOK, Intent
<1>6. CASE p # Pulse
  <2>1. runs'[r].ok = 0  BY <1>1, <1>2, <1>6 DEF PressPart
  <2>2. \A q \in Runs : runs'[q].ok > 0 => runs'[q].ok = runs[q].ok /\ runs'[q].sheet = runs[q].sheet
    BY <1>2, <2>1
  <2>3. presses'[Pulse] = presses[Pulse]  BY <1>1, <1>4, <1>6
  <2>4. \A s \in Sheets :
           /\ intents'[s].no >= intents[s].no
           /\ intents'[s].state = "given" =>
                intents'[s].no > intents[s].no \/ (intents[s].state = "given" /\ intents'[s].no = intents[s].no)
    BY <1>4, <1>5
  <2>5. OkFrame  BY <1>3, <2>2, <2>3, <2>4, OkStill
  <2> QED  BY <2>5, OkFrameKeeps
<1>7. CASE p = Pulse
  <2>1. PICK s \in Sheets : s = presses[Pulse].sheet  BY <1>1, <1>7
  <2>2. /\ presses[Pulse].ok <= intents[s].no /\ \A i \in pulse.queue : i.sheet # s
    BY <1>1, <1>7, <2>1 DEF OkPart
  <2>3. /\ \A q \in Runs : runs[q].ok > 0 => runs[q].sheet \in Sheets /\ runs[q].ok <= intents[runs[q].sheet].no
        /\ \A q \in Runs : runs[q].ok > 0 /\ ~CutOff(q) =>
             /\ \A i \in pulse.queue : i.sheet = runs[q].sheet => i.no # runs[q].ok
             /\ s = runs[q].sheet => presses[Pulse].ok # runs[q].ok
             /\ ~(intents[runs[q].sheet].state = "given" /\ intents[runs[q].sheet].no = runs[q].ok)
    BY <1>1, <1>7, <2>1 DEF OkPart
  <2>4. presses'[Pulse].at \notin {"pinning", "pinned"}  BY <1>4, <1>7
  <2>5. \A q \in Runs : CutOff(q)' <=> CutOff(q)  BY DEF CutOff
  <2>6. runs'[r].sheet = s /\ runs'[r].ok = presses[Pulse].ok  BY <1>2, <1>7, <2>1
  <2>7. \A q \in Runs : runs'[q].ok > 0 => runs'[q].sheet \in Sheets /\ runs'[q].ok <= intents'[runs'[q].sheet].no
    BY <1>2, <1>4, <2>2, <2>3, <2>6
  <2>8. ASSUME NEW q \in Runs, runs'[q].ok > 0, ~CutOff(q)'
        PROVE  /\ \A i \in pulse'.queue : i.sheet = runs'[q].sheet => i.no # runs'[q].ok
               /\ (intents'[runs'[q].sheet].state = "given" /\ intents'[runs'[q].sheet].no = runs'[q].ok
                    => presses'[Pulse].at \in {"reading", "ending"} /\ presses'[Pulse].run = q)
    <3>1. CASE q # r  BY <1>2, <1>3, <1>4, <2>3, <2>5, <2>8, <3>1
    <3>2. CASE q = r
      <4>1. \/ intents'[s].state # "given"
            \/ presses'[Pulse].at = "reading" /\ presses'[Pulse].run = r
        BY <1>4, <1>7, <2>1
      <4> QED  BY <1>3, <1>4, <2>2, <2>6, <3>2, <4>1
    <3> QED  BY <3>1, <3>2
  <2>9. \A i \in pulse'.queue : i.no > 0 /\ i.no <= intents'[i.sheet].no
    <3>1. \A i \in pulse.queue : i.sheet \in Sheets /\ i.no > 0 /\ i.no <= intents[i.sheet].no
      BY <1>1 DEF OkPart, TypeOK, Listed
    <3> QED  BY <1>3, <1>4, <3>1
  <2>10. \A i, j \in pulse'.queue : i.sheet = j.sheet => i = j  BY <1>3 DEF OkPart
  <2>11. \A t \in Sheets : intents'[t].state = "given" => intents'[t].no > 0  BY <1>4 DEF OkPart
  <2>12. OkPart'  BY <2>4, <2>7, <2>8, <2>9, <2>10, <2>11 DEF OkPart
  <2>13. ASSUME NEW q \in Runs, NEW x \in Runs, OfOneOk(q, x)', ~CutOff(q)', ~CutOff(x)'  PROVE q = x
    <3>1. runs'[q].ok > 0 /\ runs'[q].ok = runs'[x].ok /\ runs'[q].sheet = runs'[x].sheet  BY <2>13 DEF OfOneOk
    <3>2. CASE q # r /\ x # r  BY <1>2, <2>5, <2>13, <3>1, <3>2 DEF OkOpensOneRun, OfOneOk
    <3>3. CASE q = r /\ x # r  BY <1>2, <2>3, <2>5, <2>6, <2>13, <3>1, <3>3
    <3>4. CASE q # r /\ x = r  BY <1>2, <2>3, <2>5, <2>6, <2>13, <3>1, <3>4
    <3> QED  BY <3>2, <3>3, <3>4
  <2>14. OkOpensOneRun'  BY <2>13 DEF OkOpensOneRun
  <2> QED  BY <2>12, <2>14
<1> QED  BY <1>6, <1>7

\* A crash takes the pulse's press and its list with it; the run the press was reading under is cut off.
LEMMA OkCrash ==
  ASSUME Parts, OkInv, Crash \/ \E r \in Runs : DiesUnclaimed(r)
  PROVE  OkInv'
<1> USE DEF OkInv
<1>1. TypeOK /\ Pulse \in Pressers  BY DEF Parts, Pressers
<1>2. /\ runs' = runs /\ intents' = intents /\ presses'[Pulse].at = "idle" /\ pulse'.queue = {}
      /\ crashes' = Append(crashes, presses[Pulse].run)
  BY <1>1, RestartIs
<1>3. crashes \in Seq(Runs \cup {NoRun}) /\ presses[Pulse].run \in Runs \cup {NoRun}
  BY <1>1 DEF TypeOK, Press
<1>4. ASSUME NEW r \in Runs, ~CutOff(r)'  PROVE ~CutOff(r) /\ presses[Pulse].run # r
  <2>1. /\ Len(crashes') = Len(crashes) + 1 /\ crashes'[Len(crashes) + 1] = presses[Pulse].run
        /\ \A i \in 1 .. Len(crashes) : crashes'[i] = crashes[i]
        /\ DOMAIN crashes = 1 .. Len(crashes) /\ DOMAIN crashes' = 1 .. Len(crashes) + 1 /\ Len(crashes) \in Nat
    BY <1>2, <1>3
  <2>2. \A i \in 1 .. Len(crashes) + 1 : crashes'[i] # r  BY <1>4, <2>1 DEF CutOff
  <2> QED  BY <2>1, <2>2 DEF CutOff
<1>5. ASSUME NEW r \in Runs, runs[r].ok > 0, ~CutOff(r)'
      PROVE  ~(intents[runs[r].sheet].state = "given" /\ intents[runs[r].sheet].no = runs[r].ok)
  BY <1>4, <1>5 DEF OkPart
<1>6. OkPart'  BY <1>2, <1>5 DEF OkPart
<1>7. OkOpensOneRun'  BY <1>2, <1>4 DEF OkOpensOneRun, OfOneOk
<1> QED  BY <1>6, <1>7

\* Every step keeps every OK to one run, but for the runs a crash cut off.
LEMMA OkStep ==
  ASSUME Parts, LockPart, OkInv, [Next]_vars
  PROVE  OkInv'
<1> SUFFICES ASSUME ~(Crash \/ \E r \in Runs : DiesUnclaimed(r))
             PROVE  OkInv'
  BY OkCrash
<1>1. Parts' /\ crashes' = crashes  BY PartsStep, CrashesStay
<1>2. OkFrame => OkInv'  BY <1>1, OkFrameKeeps
<1>3. ASSUME NEW p \in Pressers,
             \/ PinReads(p) \/ PressRefused(p) \/ ReadsRow(p) \/ LeavesOpen(p) \/ NothingOwed(p) \/ PressEnds(p)
             \/ \E s \in Sheets : p # Pulse /\ RoutePresses(p, s)
      PROVE  OkInv'
  BY <1>2, <1>3, OkPress
<1>4. ASSUME NEW p \in Pressers, NEW r \in Runs, PinLost(p, r) \/ PressOpens(p, r)  PROVE OkInv'
  BY <1>1, <1>4, OkOpens
<1>5. ASSUME Quiet  PROVE OkInv'
  <2>1. World \/ Operator \/ UNCHANGED vars => OkInv'  BY <1>2, OkOutside
  <2>2. Sweep => OkInv'  BY <1>1, OkSweep
  <2>3. ASSUME NEW i \in pulse.queue, OkPresses(i)  PROVE OkInv'  BY <1>1, <2>3, OkTaken
  <2>4. ASSUME \/ Decide \/ EndPulse
               \/ \E i \in pulse.queue : OkLapses(i) \/ OkWaits(i)
               \/ \E r \in Runs : Dispatch(r) \/ NotDispatched(r)
        PROVE  OkInv'
    BY <1>2, <2>4, OkPulse
  <2>5. PulseStep => OkInv'  BY Zenon, <2>2, <2>3, <2>4 DEF PulseStep
  <2>6. ASSUME NEW p \in Routes, NEW s \in Sheets, RoutePresses(p, s)  PROVE OkInv'
    <3>1. p \in Pressers /\ p # Pulse  BY RemoteRunsAssumption DEF Pressers
    <3> QED  BY <1>3, <2>6, <3>1
  <2>7. ASSUME NEW p \in Pressers, \/ PinReads(p) \/ PressRefused(p) \/ LeavesOpen(p) \/ NothingOwed(p)
                                   \/ \E r \in Runs : PinLost(p, r) \/ PressOpens(p, r)
        PROVE  OkInv'
    BY Zenon, <1>3, <1>4, <2>7
  <2>8. \/ World \/ Operator \/ UNCHANGED vars
        \/ PulseStep
        \/ \E p \in Routes, s \in Sheets : RoutePresses(p, s)
        \/ \E p \in Pressers : \/ PinReads(p) \/ PressRefused(p) \/ LeavesOpen(p) \/ NothingOwed(p)
                               \/ \E r \in Runs : PinLost(p, r) \/ PressOpens(p, r)
    BY Zenon, <1>5 DEF Quiet
  <2>9. (\E p \in Routes, s \in Sheets : RoutePresses(p, s)) => OkInv'  BY Zenon, <2>6
  <2> QED  BY Zenon, <2>1, <2>5, <2>7, <2>8, <2>9
<1>6. ASSUME NEW r \in Runs, AgentStep(r)  PROVE OkInv'  BY <1>2, <1>6, OkAgent
<1>7. (\E p \in Pressers : ReadsRow(p) \/ PressEnds(p)) => OkInv'  BY Zenon, <1>3
<1>8. (\E r \in Runs : AgentStep(r)) => OkInv'  BY Zenon, <1>6
<1> QED  BY Zenon, <1>5, <1>7, <1>8, Steps

-----------------------------------------------------------------------------
(* The OK and the report over a whole life. *)

AllInv == Inv /\ OkInv /\ (Boots = 0 => CalmInv)

\* Nobody has read or been given anything yet.
LEMMA InitAll == ASSUME Init PROVE AllInv
<1>1. Inv  BY InitInv
<1>2. \A r \in Runs : readings[r] = {} /\ runs[r].ok = 0 /\ runs[r].status = "unused" /\ calls[r].at = "none"
  BY NoCallIs DEF Init, Unopened
<1>3. pulse.queue = {} /\ presses[Pulse].at = "idle" /\ \A s \in Sheets : intents[s].state # "given"
  <2>1. Pulse \in Pressers  BY DEF Pressers
  <2> QED  BY <2>1, AtRestIs DEF Init, NoPress
<1>4. ReportPart  BY <1>2 DEF ReportPart, AgentRead, Live
<1>5. OkPart  BY <1>2, <1>3 DEF OkPart
<1>6. OkOpensOneRun /\ FailureIsOfOneBuild  BY <1>2 DEF OkOpensOneRun, OfOneOk, FailureIsOfOneBuild
<1> QED  BY <1>1, <1>4, <1>5, <1>6 DEF AllInv, CalmInv, OkInv

\* Every step keeps it; what is said of the failures, every step without a crash.
LEMMA NextAll == ASSUME AllInv, [Next]_vars PROVE AllInv'
<1>1. Inv' /\ Parts /\ LockPart  BY NextInv DEF AllInv, Inv, Parts
<1>2. OkInv'  BY <1>1, OkStep DEF AllInv
<1>3. ASSUME Boots = 0  PROVE CalmInv'
  <2>1. \A r \in Runs : Reported(r) /\ OneBuild(r)  BY <1>3, ReportIs DEF AllInv, CalmInv
  <2>2. \A q \in Runs : Reported(q)' /\ OneBuild(q)'  BY <1>1, <1>3, <2>1, ReportStep
  <2>3. ReportPart'  BY <2>2 DEF ReportPart, Reported
  <2>4. FailureIsOfOneBuild'  BY <2>2 DEF FailureIsOfOneBuild, OneBuild
  <2> QED  BY <1>1, <2>3, <2>4 DEF CalmInv
<1> QED  BY <1>1, <1>2, <1>3 DEF AllInv

LEMMA WholeInvariance == Spec => []AllInv
<1>1. Init => AllInv  BY InitAll
<1>2. AllInv /\ [Next]_vars => AllInv'  BY NextAll
<1> QED  BY <1>1, <1>2, PTL DEF Spec

\* Without a crash no run keeps a failure that was read across two builds.
THEOREM FailuresAreOfOneBuild == Spec => []FailureIsOfOneBuild
<1>1. AllInv => FailureIsOfOneBuild  BY DEF AllInv, CalmInv, FailureIsOfOneBuild
<1> QED  BY <1>1, WholeInvariance, PTL

\* Through any crashes an OK opens one run at most that was not cut off by one.
THEOREM OksOpenOneRun == Spec => []OkOpensOneRun
<1>1. AllInv => OkOpensOneRun  BY DEF AllInv, OkInv
<1> QED  BY <1>1, WholeInvariance, PTL

-----------------------------------------------------------------------------
(* What the runs check, from the theorems of its parts. *)

\* Rows keep their shape and a run its one agent, crash or no crash.
THEOREM RunsStayAccounted == Spec => []RunsAreAccounted
  BY RunsTyped, OneAgent, PTL DEF RunsAreAccounted

\* Readings are of the build they name.
THEOREM ReadingsStayTold == Spec => []ReadingsAreTold
  BY PinIsHeld, OkdRunsClose, FailuresAreOfOneBuild, PTL DEF ReadingsAreTold

\* One live run holds an environment, and the rows implement the lock.
THEOREM LockStaysExclusive == Spec => LockIsExclusive
  BY OneRun, LockIsKept, PTL DEF LockIsExclusive
=============================================================================
