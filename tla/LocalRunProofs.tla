--------------------------- MODULE LocalRunProofs ---------------------------
(***************************************************************************)
(* What LocalRun keeps for any number of branches, calls, runs, sessions,  *)
(* pushes and crashes: one row at most is live, the runner claims only a   *)
(* run that starts or runs, a run that ended or is being stopped never     *)
(* lives again, and a run that starts or runs is claimed and has a session *)
(* whose exit will be heard.  The invariant that carries them adds that a  *)
(* row once written names a branch, that a refresh under way names a run,  *)
(* and that the session a stop tells belongs to no run that still runs.    *)
(* With one call at a time the runner also accounts for its run            *)
(* (RunAlwaysAccounted); the invariant of that is AInv.                    *)
(***************************************************************************)
EXTENDS LocalRun, TLAPS

Statuses == {"none", "stopped", "failed"} \cup LiveStatus
RowSet == [status : Statuses, ref : Refs \cup {None}, commit : Commits \cup {None}]
Steps == {"idle", "stop", "look", "resolve", "reset", "ready"}
Ops == {"none", "start", "refresh"}
CallSet == [pc : Steps, op : Ops, ref : Refs \cup {None}, run : {0} \cup Runs,
            next : Commits \cup {None}, target : Commits \cup {None}]
ProcSet == [state : {"gone", "busy", "idle", "closing"}, run : {0} \cup Runs]

(* The rows and the claim on one of them. *)
RowsPart ==
    /\ rows \in [Runs -> RowSet]
    /\ runId \in {0} \cup Runs
    /\ \A r \in Runs : rows[r].status # "none" => rows[r].ref \in Refs
    /\ OneLiveRun
    /\ ClaimIsLive

(* The sessions and the stop under way. *)
HandPart ==
    /\ session \in {0} \cup Sessions
    /\ stopping \in [run : {0} \cup Runs, told : {0} \cup Sessions, fresh : BOOLEAN]
    /\ procs \in [Sessions -> ProcSet]
    /\ stopping.told # 0 => stopping.run # 0
    /\ stopping.run # 0 => rows[stopping.run].status # "none"

(* The calls: past its first step each names a branch, a refresh its run,  *)
(* and one that waits for a stop has one to wait for.                      *)
CallsPart ==
    /\ calls \in [Calls -> CallSet]
    /\ \A c \in Calls : calls[c].pc # "idle" => calls[c].ref \in Refs
    /\ \A c \in Calls : calls[c].op = "refresh" => calls[c].run \in Runs
    /\ stopping.run = 0 => \A c \in Calls : calls[c].pc # "stop"

WorldPart ==
    /\ tree \in Commits \cup {None}
    /\ tips \in [Refs -> 0 .. MaxPushes]
    /\ up \in {"booting", "up", "closing", "dead"}
    /\ boots \in 0 .. MaxBoots

FlagPart == inFlight \in BOOLEAN

IInv == RowsPart /\ HandPart /\ CallsPart /\ WorldPart /\ FlagPart

(* A session names a run that was written, and the one a stop tells is of  *)
(* no run that still starts or runs: its exit is the stop's, nobody else's. *)
NamePart ==
    /\ \A p \in Sessions : procs[p].run # 0 => rows[procs[p].run].status # "none"
    /\ stopping.told # 0 =>
         \/ procs[stopping.told].run = 0
         \/ rows[procs[stopping.told].run].status \in {"stopping", "stopped", "failed"}

WInv == IInv /\ NamePart /\ LiveRunIsWatched

(* What a step may do to a run: the matrix of EndedIsFinal, and a row once *)
(* written stays.                                                          *)
OnlyEnds ==
    \A r \in Runs :
      /\ rows[r].status # "none" => rows'[r].status # "none"
      /\ rows[r].status \in {"stopped", "failed"} => rows'[r].status \in {"stopped", "failed"}
      /\ rows[r].status = "stopping" => rows'[r].status \in {"stopping", "stopped"}

-----------------------------------------------------------------------------
(* liveLocalRun() finds a live row when there is one, and only then. *)
LEMMA LiveRunFound ==
  ASSUME OneLiveRun, LiveRuns # {}
  PROVE  /\ LiveRun \in LiveRuns
         /\ LiveRun \in Runs
         /\ LiveRun # 0
         /\ rows[LiveRun].status \in LiveStatus
  <1> LiveRuns \subseteq Nat
    BY BoundsAssumption, SMT DEF LiveRuns, Runs
  <1>1. PICK r \in LiveRuns : TRUE
    OBVIOUS
  <1>2. \A s \in LiveRuns : s <= r
    BY SMT DEF OneLiveRun
  <1>3. LiveRun \in LiveRuns
    BY <1>1, <1>2, Zenon DEF LiveRun
  <1> QED
    BY <1>3, BoundsAssumption, SMT DEF LiveRuns, Runs

LEMMA NoLiveRun == LiveRuns = {} => LiveRun = 0
  BY DEF LiveRun

(* A row that is settled keeps its type and the other rows. *)
LEMMA SettledRows ==
  ASSUME rows \in [Runs -> RowSet], NEW r \in Runs, NEW s \in Statuses
  PROVE  /\ Settled(r, s) \in [Runs -> RowSet]
         /\ Settled(r, s)[r].status = s
         /\ Settled(r, s)[r].ref = rows[r].ref
         /\ \A q \in Runs \ {r} : Settled(r, s)[q] = rows[q]
  BY SMT DEF Settled, RowSet

(* A session that is free is one of the sessions. *)
LEMMA NewSessionFound == FreeSessions # {} => NewSession \in Sessions
  BY DEF FreeSessions, NewSession

(* Processes keep their type when they are told, killed, started or gone. *)
LEMMA ProcsKept ==
  ASSUME NEW ps \in [Sessions -> ProcSet]
  PROVE  /\ \A d : Killed(ps, d) \in [Sessions -> ProcSet]
         /\ \A p \in Sessions : Told(ps, p) \in [Sessions -> ProcSet]
         /\ \A p \in Sessions, x \in ProcSet : [ps EXCEPT ![p] = x] \in [Sessions -> ProcSet]
         /\ \A p \in Sessions, st \in {"gone", "busy", "idle", "closing"} :
              [ps EXCEPT ![p].state = st] \in [Sessions -> ProcSet]
  BY SMT DEF Killed, Told, ProcSet

-----------------------------------------------------------------------------
LEMMA LocalRunInit == Init => IInv
  <1> SUFFICES ASSUME Init PROVE IInv
    OBVIOUS
  <1> USE BoundsAssumption DEF Init
  <1>1. RowsPart
    BY SMT DEF RowsPart, RowSet, Statuses, LiveStatus, NoRow, OneLiveRun, LiveRuns, ClaimIsLive
  <1>2. HandPart
    BY SMT DEF HandPart, ProcSet, NoProc, NoStop
  <1>3. CallsPart
    BY SMT DEF CallsPart, CallSet, Idle, Steps, Ops
  <1>4. WorldPart
    BY SMT DEF WorldPart
  <1>5. FlagPart
    BY Zenon DEF FlagPart
  <1> QED
    BY <1>1, <1>2, <1>3, <1>4, <1>5 DEF IInv

(* A step that settles one live run, and lets go of the claim if it was    *)
(* that run's, keeps the rows.                                             *)
LEMMA SettleKeeps ==
  ASSUME IInv, NEW r \in Runs, NEW s \in {"stopped", "failed"},
         rows[r].status # "none", rows[r].status = "stopping" => s = "stopped",
         rows' = Settled(r, s), runId' \in {0} \cup (Runs \ {r}), runId' # 0 => runId' = runId
  PROVE  RowsPart' /\ OnlyEnds
  <1>1. /\ rows' \in [Runs -> RowSet]
        /\ rows'[r].status = s
        /\ rows'[r].ref = rows[r].ref
        /\ \A q \in Runs \ {r} : rows'[q] = rows[q]
    BY SettledRows, SMT DEF IInv, RowsPart, Statuses
  <1> QED
    BY <1>1, BoundsAssumption, SMT
       DEF IInv, RowsPart, OnlyEnds, OneLiveRun, LiveRuns, ClaimIsLive, LiveStatus, Runs

(* So does one that moves a live run, not being stopped, to another live   *)
(* status, if the claim is kept, taken or dropped with it.                 *)
LEMMA MoveKeeps ==
  ASSUME IInv, NEW r \in LiveRuns, NEW s \in LiveStatus, rows[r].status # "stopping",
         rows' = Settled(r, s),
         runId' = 0 \/ (runId' = r /\ s # "stopping")
  PROVE  RowsPart' /\ OnlyEnds
  <1> r \in Runs /\ s \in Statuses /\ rows \in [Runs -> RowSet]
    BY DEF LiveRuns, Statuses, IInv, RowsPart
  <1>1. /\ rows' \in [Runs -> RowSet]
        /\ rows'[r].status = s
        /\ rows'[r].ref = rows[r].ref
        /\ \A q \in Runs \ {r} : rows'[q] = rows[q]
    BY SettledRows, Zenon
  <1>2. LiveRuns' = LiveRuns
    BY <1>1, SMT DEF LiveRuns, LiveStatus
  <1> QED
    BY <1>1, <1>2, BoundsAssumption, SMT
       DEF IInv, RowsPart, OnlyEnds, OneLiveRun, LiveRuns, ClaimIsLive, LiveStatus, Runs

(* A step that changes no row and claims nothing new keeps them. *)
LEMMA SameKeeps ==
  ASSUME IInv, rows' = rows, runId' = runId \/ runId' = 0
  PROVE  RowsPart' /\ OnlyEnds
  BY SMT DEF IInv, RowsPart, OnlyEnds, OneLiveRun, LiveRuns, ClaimIsLive

LEMMA StopNowRows ==
  ASSUME IInv, NEW then, StopNow(then)
  PROVE  RowsPart' /\ OnlyEnds
  <1>1. CASE UNCHANGED <<rows, runId>>
    BY <1>1, SameKeeps, Zenon
  <1>2. CASE LiveRun # 0 /\ stopping.run = 0 /\ StopTurn
    <2>1. LiveRun \in LiveRuns /\ LiveRun \in Runs
      BY <1>2, LiveRunFound, NoLiveRun, Zenon DEF IInv, RowsPart
    <2>2. rows' = Settled(LiveRun, "stopping") /\ runId' = 0
      BY <1>2, Zenon DEF StopTurn
    <2>3. CASE rows[LiveRun].status # "stopping"
      BY <2>1, <2>2, <2>3, MoveKeeps, Zenon DEF LiveStatus
    <2>4. CASE rows[LiveRun].status = "stopping"
      <3>1. rows' = rows
        BY <2>1, <2>2, <2>4, SMT DEF Settled, IInv, RowsPart, RowSet
      <3> QED
        BY <3>1, <2>2, SameKeeps, Zenon
    <2> QED
      BY <2>3, <2>4, Zenon
  <1>3. CASE LiveRun # 0 /\ stopping.run = 0 /\ StopAtOnce
    <2>1. LiveRun \in Runs /\ rows[LiveRun].status # "none"
      BY <1>3, LiveRunFound, NoLiveRun, SMT DEF IInv, RowsPart, LiveStatus
    <2>2. rows' = Settled(LiveRun, "stopped") /\ runId' = 0
      BY <1>3, Zenon DEF StopAtOnce
    <2> QED
      BY <2>1, <2>2, SettleKeeps, Zenon
  <1> QED
    BY <1>1, <1>2, <1>3, Zenon DEF StopNow, runner

LEMMA StopOverRows ==
  ASSUME IInv, NEW ps, stopping.run # 0, StopOver(ps)
  PROVE  RowsPart' /\ OnlyEnds
  <1>1. stopping.run \in Runs /\ rows[stopping.run].status # "none"
    BY SMT DEF IInv, HandPart
  <1>2. rows' = Settled(stopping.run, "stopped") /\ runId' = Unclaimed(stopping.run)
    BY Zenon DEF StopOver
  <1>3. runId' \in {0} \cup (Runs \ {stopping.run}) /\ (runId' # 0 => runId' = runId)
    BY <1>2, SMT DEF Unclaimed, IInv, RowsPart
  <1> QED
    BY <1>1, <1>2, <1>3, SettleKeeps, Zenon

-----------------------------------------------------------------------------
(* Every step keeps the rows and only ends runs. *)
LEMMA RowsNext == IInv /\ [Next]_vars => RowsPart' /\ OnlyEnds
  <1> SUFFICES ASSUME IInv, [Next]_vars PROVE RowsPart' /\ OnlyEnds
    OBVIOUS
  <1>1. CASE StopAsked
    BY <1>1, StopNowRows, Zenon DEF StopAsked
  <1>2. CASE StopTimesOut
    BY <1>2, StopOverRows, Zenon DEF StopTimesOut
  <1>3. ASSUME NEW c \in Calls, NEW ref \in Refs, StartAsked(c, ref)
        PROVE  RowsPart' /\ OnlyEnds
    BY <1>3, StopNowRows, Zenon DEF StartAsked
  <1>4. ASSUME NEW c \in Calls, RefreshAsked(c) \/ Look(c) \/ Resolve(c) \/ Reset(c) \/ GitFails(c)
        PROVE  RowsPart' /\ OnlyEnds
    <2>1. UNCHANGED <<rows, runId>>
      BY <1>4, Zenon DEF RefreshAsked, Look, Resolve, Reset, GitFails, runner
    <2> QED
      BY <2>1, SameKeeps, Zenon
  <1>5. ASSUME NEW c \in Calls, Begin(c)
        PROVE  RowsPart' /\ OnlyEnds
    <2>1. PICK r \in Runs, starts \in BOOLEAN :
            /\ rows[r].status = "none"
            /\ rows' = [s \in Runs |->
                 IF s = r THEN [status |-> IF starts THEN "starting" ELSE "failed",
                                ref |-> calls[c].ref, commit |-> calls[c].target]
                 ELSE Superseded(s)]
            /\ runId' = IF starts THEN r ELSE 0
      BY <1>5, Zenon DEF Begin
    <2>2. calls[c].ref \in Refs /\ calls[c].target \in Commits \cup {None}
      BY <1>5, SMT DEF Begin, IInv, CallsPart, CallSet
    <2>3. /\ rows'[r].status \in {"starting", "failed"}
          /\ starts => rows'[r].status = "starting"
          /\ rows'[r].ref \in Refs
          /\ rows'[r] \in RowSet
      BY <2>1, <2>2, SMT DEF RowSet, Statuses, LiveStatus
    <2>4. ASSUME NEW q \in Runs, q # r
          PROVE  /\ rows'[q] \in RowSet
                 /\ rows'[q].status \notin LiveStatus
                 /\ rows'[q].ref = rows[q].ref
                 /\ rows[q].status # "none" <=> rows'[q].status # "none"
                 /\ rows[q].status \in LiveStatus => rows'[q].status = "stopped"
                 /\ rows[q].status \notin LiveStatus => rows'[q].status = rows[q].status
      <3>1. rows'[q] = Superseded(q) /\ rows[q] \in RowSet
        BY <2>1, <2>4, SMT DEF IInv, RowsPart
      <3>2. CASE rows[q].status \in LiveStatus
        BY <3>1, <3>2, SMT DEF Superseded, LiveRuns, RowSet, Statuses, LiveStatus
      <3>3. CASE rows[q].status \notin LiveStatus
        BY <3>1, <3>3, SMT DEF Superseded, LiveRuns, RowSet, Statuses, LiveStatus
      <3> QED
        BY <3>2, <3>3
    <2>5. rows' \in [Runs -> RowSet]
      <3>1. \A q \in Runs : rows'[q] \in RowSet
        BY <2>3, <2>4, Zenon
      <3> QED
        BY <2>1, <3>1, SMT
    <2>6. OneLiveRun' /\ ClaimIsLive'
      BY <2>1, <2>3, <2>4, BoundsAssumption, SMT DEF OneLiveRun, LiveRuns, ClaimIsLive, Runs
    <2>7. OnlyEnds
      BY <2>1, <2>3, <2>4, SMT DEF OnlyEnds, LiveStatus
    <2>8. \A q \in Runs : rows'[q].status # "none" => rows'[q].ref \in Refs
      BY <2>3, <2>4, SMT DEF IInv, RowsPart
    <2>9. runId' \in {0} \cup Runs
      BY <2>1, SMT
    <2> QED
      BY <2>5, <2>6, <2>7, <2>8, <2>9, Zenon DEF RowsPart
  <1>6. ASSUME NEW c \in Calls, Land(c)
        PROVE  RowsPart' /\ OnlyEnds
    <2>1. CASE StillRuns(c)
      <3> DEFINE r == calls[c].run
      <3>1. r \in Runs /\ rows[r].status = "running" /\ rows \in [Runs -> RowSet]
        BY <1>6, <2>1, SMT DEF Land, StillRuns, IInv, CallsPart, RowsPart
      <3>2. /\ rows' = [rows EXCEPT ![r].commit = calls[c].next,
                                   ![r].status = IF session = 0 THEN "running" ELSE @]
            /\ runId' = runId
        BY <1>6, <2>1, Zenon DEF Land
      <3>3. calls[c].next \in Commits \cup {None}
        BY SMT DEF IInv, CallsPart, CallSet
      <3> DEFINE n == calls[c].next
                 a == [rows[r] EXCEPT !.commit = n]
                 b == [a EXCEPT !.status = IF session = 0 THEN "running" ELSE a.status]
      <3> HIDE DEF r, n
      <3>a. a \in RowSet /\ a.status = "running" /\ a.ref = rows[r].ref
        BY <3>1, <3>3, SMT DEF RowSet, Statuses, n
      <3> DEFINE R == [rows EXCEPT ![r] = a]
      <3>b. /\ R = [rows EXCEPT ![r].commit = n] /\ R \in [Runs -> RowSet] /\ R[r] = a
            /\ \A q \in Runs \ {r} : R[q] = rows[q]
        BY <3>1, <3>a, SMT
      <3>d. rows' = [R EXCEPT ![r].status = IF session = 0 THEN "running" ELSE @]
        BY <3>2, <3>b, ZenonT(60) DEF n, r
      <3> HIDE DEF a, R
      <3>e. rows' = [R EXCEPT ![r] = b]
        BY <3>1, <3>b, <3>d, SMT
      <3>c. b \in RowSet /\ b.status = "running" /\ b.ref = rows[r].ref
        BY <3>a, SMT DEF RowSet, Statuses
      <3> HIDE DEF b
      <3>4. /\ rows' \in [Runs -> RowSet]
            /\ rows'[r].status = "running" /\ rows'[r].ref = rows[r].ref
            /\ \A q \in Runs \ {r} : rows'[q] = rows[q]
        BY <3>1, <3>b, <3>c, <3>e, SMT
      <3>s. /\ \A q \in Runs : /\ rows'[q].status = rows[q].status
                               /\ rows'[q].ref = rows[q].ref
        BY <3>1, <3>4, Zenon
      <3>5. LiveRuns' = LiveRuns
        BY <3>s, Zenon DEF LiveRuns
      <3>6. OneLiveRun'
        BY <3>5, Zenon DEF IInv, RowsPart, OneLiveRun
      <3>9. ClaimIsLive'
        <4>1. runId # 0 => runId \in Runs /\ rows[runId].status \in {"starting", "running"}
          BY Zenon DEF IInv, RowsPart, ClaimIsLive
        <4> QED
          BY <3>2, <3>s, <4>1, Zenon DEF ClaimIsLive
      <3>7. OnlyEnds
        BY <3>s, Zenon DEF OnlyEnds
      <3>8. \A q \in Runs : rows'[q].status # "none" => rows'[q].ref \in Refs
        BY <3>s, Zenon DEF IInv, RowsPart
      <3> QED
        BY <3>2, <3>4, <3>6, <3>7, <3>8, <3>9, Zenon DEF IInv, RowsPart
    <2>2. CASE ~StillRuns(c)
      BY <1>6, <2>2, SameKeeps, Zenon DEF Land
    <2> QED
      BY <2>1, <2>2
  <1>7. CASE Send
    BY <1>7, SameKeeps, Zenon DEF Send
  <1>8. ASSUME NEW p \in Sessions, TurnEnds(p)
        PROVE  RowsPart' /\ OnlyEnds
    <2>1. PICK after \in {"idle", "closing"} :
            IF stopping.told = p THEN StopOver([procs EXCEPT ![p].state = after])
            ELSE /\ IF Claims(p) THEN rows' = Settled(runId, "running") ELSE UNCHANGED rows
                 /\ UNCHANGED runId
      BY <1>8, Zenon DEF TurnEnds
    <2>2. CASE stopping.told = p
      <3>1. stopping.run # 0
        BY <2>2, BoundsAssumption, SMT DEF Sessions, IInv, HandPart
      <3> QED
        BY <2>1, <2>2, <3>1, StopOverRows, Zenon
    <2>3. CASE stopping.told # p /\ Claims(p)
      <3>1. runId \in LiveRuns /\ rows[runId].status # "stopping"
        BY <2>3, SMT DEF Claims, IInv, RowsPart, ClaimIsLive, LiveRuns, LiveStatus
      <3>2. rows' = Settled(runId, "running") /\ runId' = runId
        BY <2>1, <2>3, Zenon
      <3> QED
        BY <3>1, <3>2, MoveKeeps, SMT DEF LiveStatus
    <2>4. CASE stopping.told # p /\ ~Claims(p)
      BY <2>1, <2>4, SameKeeps, Zenon
    <2> QED
      BY <2>2, <2>3, <2>4
  <1>9. ASSUME NEW p \in Sessions, SessionExits(p)
        PROVE  RowsPart' /\ OnlyEnds
    <2>1. IF stopping.told = p THEN StopOver([procs EXCEPT ![p] = NoProc])
          ELSE IF ExitFails(p) THEN rows' = Settled(runId, "failed") /\ runId' = 0
               ELSE UNCHANGED <<rows, runId>>
      BY <1>9, Zenon DEF SessionExits
    <2>2. CASE stopping.told = p
      <3>1. stopping.run # 0
        BY <2>2, BoundsAssumption, SMT DEF Sessions, IInv, HandPart
      <3> QED
        BY <2>1, <2>2, <3>1, StopOverRows, Zenon
    <2>3. CASE stopping.told # p /\ ExitFails(p)
      <3>1. runId \in Runs /\ rows[runId].status \in {"starting", "running"}
        BY <2>3, SMT DEF ExitFails, Claims, IInv, RowsPart, ClaimIsLive
      <3>2. rows' = Settled(runId, "failed") /\ runId' = 0
        BY <2>1, <2>3, Zenon
      <3> QED
        BY <3>1, <3>2, SettleKeeps, SMT
    <2>4. CASE stopping.told # p /\ ~ExitFails(p)
      BY <2>1, <2>4, SameKeeps, Zenon
    <2> QED
      BY <2>2, <2>3, <2>4
  <1>10. CASE StopFast
    <2>1. CASE UNCHANGED rows
      BY <1>10, <2>1, SameKeeps, Zenon DEF StopFast
    <2>2. CASE LiveRun # 0 /\ rows' = Settled(LiveRun, "stopped")
      <3>1. LiveRun \in Runs /\ rows[LiveRun].status # "none"
        BY <2>2, LiveRunFound, NoLiveRun, SMT DEF IInv, RowsPart, LiveStatus
      <3>2. runId' = 0
        BY <1>10, Zenon DEF StopFast
      <3> QED
        BY <2>2, <3>1, <3>2, SettleKeeps, Zenon
    <2> QED
      BY <1>10, <2>1, <2>2, Zenon DEF StopFast
  <1>11. CASE Dies
    BY <1>11, SameKeeps, Zenon DEF Dies
  <1>12. CASE Boot
    BY <1>12, SameKeeps, Zenon DEF Boot, runner
  <1>13. CASE ResumeInterrupted
    <2>1. CASE UNCHANGED <<rows, runner>>
      BY <2>1, SameKeeps, Zenon DEF runner
    <2>2. ASSUME LiveRun # 0
          PROVE  LiveRun \in LiveRuns /\ LiveRun \in Runs /\ rows[LiveRun].status # "none"
      BY <2>2, LiveRunFound, NoLiveRun, SMT DEF IInv, RowsPart, LiveStatus
    <2>3. CASE LiveRun # 0 /\ rows' = Settled(LiveRun, "stopped") /\ runId' = Unclaimed(LiveRun)
      <3>1. runId' \in {0} \cup (Runs \ {LiveRun}) /\ (runId' # 0 => runId' = runId)
        BY <2>3, SMT DEF Unclaimed, IInv, RowsPart
      <3> QED
        BY <2>2, <2>3, <3>1, SettleKeeps, Zenon
    <2>4. CASE LiveRun # 0 /\ Resumable /\ rows' = Settled(LiveRun, "starting") /\ runId' = LiveRun
      BY <2>2, <2>4, MoveKeeps, SMT DEF Resumable, LiveStatus
    <2>5. CASE LiveRun # 0 /\ Resumable /\ rows' = Settled(LiveRun, "failed") /\ runId' = 0
      BY <2>2, <2>5, SettleKeeps, SMT DEF Resumable
    <2> QED
      BY <1>13, <2>1, <2>3, <2>4, <2>5, Zenon DEF ResumeInterrupted
  <1>14. ASSUME NEW ref \in Refs, Push(ref)
         PROVE  RowsPart' /\ OnlyEnds
    BY <1>14, SameKeeps, Zenon DEF Push, runner
  <1>15. CASE UNCHANGED vars
    BY <1>15, SameKeeps, Zenon DEF vars
  <1> QED
    BY <1>1, <1>2, <1>3, <1>4, <1>5, <1>6, <1>7, <1>8, <1>9, <1>10, <1>11, <1>12, <1>13,
       <1>14, <1>15, Zenon DEF Next, CallGoesOn

-----------------------------------------------------------------------------
(* Every step keeps the sessions and the stop under way. *)
LEMMA StopNowHand ==
  ASSUME IInv, NEW then, StopNow(then), OnlyEnds
  PROVE  HandPart'
  <1> USE DEF IInv, HandPart
  <1>0. stopping.run # 0 => rows'[stopping.run].status # "none"
    BY SMT DEF OnlyEnds
  <1>1. CASE UNCHANGED runner
    BY <1>0, <1>1, SMT DEF runner
  <1>2. CASE session' = 0 /\ procs' = Killed(procs, {session}) /\ UNCHANGED stopping
    BY <1>0, <1>2, ProcsKept, SMT
  <1>3. CASE LiveRun # 0 /\ stopping.run = 0 /\ StopTurn
    <2>1. LiveRun \in Runs /\ rows[LiveRun].status # "none" /\ LiveRun # 0
      BY <1>3, LiveRunFound, NoLiveRun, SMT DEF RowsPart, LiveStatus
    <2>2. rows'[LiveRun].status # "none"
      BY <2>1, SMT DEF OnlyEnds
    <2>3. CASE session = 0
      <3>1. NewSession \in Sessions
        BY <1>3, <2>3, NewSessionFound, Zenon DEF StopTurn
      <3>2. /\ stopping' = [run |-> LiveRun, told |-> NewSession, fresh |-> TRUE]
            /\ procs' = [procs EXCEPT ![NewSession] = [state |-> "busy", run |-> 0]]
            /\ session' = session
        BY <1>3, <2>3, Zenon DEF StopTurn
      <3>3. [state |-> "busy", run |-> 0] \in ProcSet
        BY SMT DEF ProcSet
      <3>4. procs' \in [Sessions -> ProcSet]
        BY <3>1, <3>2, <3>3, ProcsKept, SMT
      <3> QED
        BY <2>1, <2>2, <3>1, <3>2, <3>4, SMT
    <2>4. CASE session # 0
      <3>1. /\ stopping' = [run |-> LiveRun, told |-> session, fresh |-> FALSE]
            /\ procs' = Told(procs, session)
            /\ session' = session
        BY <1>3, <2>4, Zenon DEF StopTurn
      <3>2. procs' \in [Sessions -> ProcSet]
        BY <2>4, <3>1, ProcsKept, SMT
      <3> QED
        BY <2>1, <2>2, <2>4, <3>1, <3>2, SMT
    <2> QED
      BY <2>3, <2>4
  <1> QED
    BY <1>1, <1>2, <1>3, Zenon DEF StopNow, StopAtOnce

LEMMA StopOverHand ==
  ASSUME IInv, NEW ps \in [Sessions -> ProcSet], StopOver(ps)
  PROVE  HandPart'
  <1>1. /\ procs' = Killed(ps, {session} \cup (IF stopping.fresh THEN {stopping.told} ELSE {}))
        /\ session' = 0
        /\ stopping' = NoStop
    BY Zenon DEF StopOver
  <1>2. procs' \in [Sessions -> ProcSet]
    BY <1>1, ProcsKept, Zenon
  <1> QED
    BY <1>1, <1>2, SMT DEF HandPart, NoStop

(* A step that leaves the stop alone, or drops it, and keeps the types. *)
LEMMA HandKept ==
  ASSUME IInv, OnlyEnds, stopping' = stopping \/ stopping' = NoStop,
         session' \in {0} \cup Sessions, procs' \in [Sessions -> ProcSet]
  PROVE  HandPart'
  <1>1. CASE stopping' = stopping
    BY <1>1, SMT DEF IInv, HandPart, OnlyEnds
  <1>2. CASE stopping' = NoStop
    BY <1>2, SMT DEF HandPart, NoStop
  <1> QED
    BY <1>1, <1>2

LEMMA HandNext == IInv /\ [Next]_vars => HandPart'
  <1> SUFFICES ASSUME IInv, [Next]_vars PROVE HandPart'
    OBVIOUS
  <1>0. OnlyEnds
    BY RowsNext
  <1>t. /\ session \in {0} \cup Sessions
        /\ procs \in [Sessions -> ProcSet]
        /\ runId \in {0} \cup Runs
    BY Zenon DEF IInv, HandPart, RowsPart
  <1>1. CASE StopAsked
    BY <1>0, <1>1, StopNowHand, Zenon DEF StopAsked
  <1>2. CASE StopTimesOut
    BY <1>t, <1>2, StopOverHand, Zenon DEF StopTimesOut
  <1>3. ASSUME NEW c \in Calls, NEW ref \in Refs, StartAsked(c, ref)
        PROVE  HandPart'
    BY <1>0, <1>3, StopNowHand, Zenon DEF StartAsked
  <1>4. ASSUME UNCHANGED <<session, stopping, procs>>
        PROVE  HandPart'
    BY <1>0, <1>t, <1>4, HandKept, Zenon
  <1>5. ASSUME NEW c \in Calls, Begin(c)
        PROVE  HandPart'
    <2>1. PICK r \in Runs, starts \in BOOLEAN :
            procs' = IF starts THEN [procs EXCEPT ![NewSession] = [state |-> "busy", run |-> r]]
                               ELSE procs
      BY <1>5, Zenon DEF Begin
    <2>2. NewSession \in Sessions /\ session' = NewSession /\ stopping' = stopping
      BY <1>5, NewSessionFound, Zenon DEF Begin
    <2>3. [state |-> "busy", run |-> r] \in ProcSet
      BY SMT DEF ProcSet
    <2>4. procs' \in [Sessions -> ProcSet]
      BY <1>t, <2>1, <2>2, <2>3, ProcsKept, SMT
    <2> QED
      BY <1>0, <2>2, <2>4, HandKept, SMT
  <1>6. ASSUME NEW c \in Calls, Land(c)
        PROVE  HandPart'
    <2>1. session' = session /\ stopping' = stopping
      BY <1>6, Zenon DEF Land
    <2>2. procs' \in [Sessions -> ProcSet]
      <3>1. procs' = procs \/ (session # 0 /\ procs' = Told(procs, session))
        BY <1>6, Zenon DEF Land
      <3> QED
        BY <1>t, <3>1, ProcsKept, SMT
    <2> QED
      BY <1>0, <1>t, <2>1, <2>2, HandKept, Zenon
  <1>7. CASE Send
    <2>1. procs' \in [Sessions -> ProcSet]
      BY <1>t, <1>7, ProcsKept, SMT DEF Send
    <2> QED
      BY <1>0, <1>t, <1>7, <2>1, HandKept, Zenon DEF Send
  <1>8. ASSUME NEW p \in Sessions, TurnEnds(p)
        PROVE  HandPart'
    <2>1. PICK after \in {"idle", "closing"} :
            IF stopping.told = p THEN StopOver([procs EXCEPT ![p].state = after])
            ELSE procs' = [procs EXCEPT ![p].state = after] /\ UNCHANGED <<session, stopping>>
      BY <1>8, Zenon DEF TurnEnds
    <2>2. [procs EXCEPT ![p].state = after] \in [Sessions -> ProcSet]
      <3>1. after \in {"gone", "busy", "idle", "closing"}
        BY SMT
      <3> QED
        BY <1>t, <3>1, ProcsKept, Zenon
    <2> QED
      BY <1>0, <1>t, <2>1, <2>2, StopOverHand, HandKept, Zenon
  <1>9. ASSUME NEW p \in Sessions, SessionExits(p)
        PROVE  HandPart'
    <2>1. IF stopping.told = p THEN StopOver([procs EXCEPT ![p] = NoProc])
          ELSE procs' = [procs EXCEPT ![p] = NoProc] /\ UNCHANGED <<session, stopping>>
      BY <1>9, Zenon DEF SessionExits
    <2>2. [procs EXCEPT ![p] = NoProc] \in [Sessions -> ProcSet]
      <3>1. NoProc \in ProcSet
        BY SMT DEF NoProc, ProcSet
      <3> QED
        BY <1>t, <3>1, ProcsKept, Zenon
    <2> QED
      BY <1>0, <1>t, <2>1, <2>2, StopOverHand, HandKept, Zenon
  <1>10. CASE StopFast
    <2>1. session' = 0 /\ procs' = Killed(procs, {session}) /\ stopping' = stopping
      BY <1>10, Zenon DEF StopFast
    <2>2. procs' \in [Sessions -> ProcSet]
      BY <1>t, <2>1, ProcsKept, Zenon
    <2> QED
      BY <1>0, <2>1, <2>2, HandKept, Zenon
  <1>11. CASE Dies
    <2>1. procs' \in [Sessions -> ProcSet]
      BY <1>11, SMT DEF Dies, NoProc, ProcSet
    <2> QED
      BY <1>0, <1>11, <2>1, HandKept, Zenon DEF Dies
  <1>12. CASE ResumeInterrupted
    <2>1. stopping' = stopping
      BY <1>12, Zenon DEF ResumeInterrupted, runner
    <2>2. CASE UNCHANGED <<session, procs>>
      BY <1>4, <2>1, <2>2, Zenon
    <2>3. CASE FreeSessions # {} /\ session' = NewSession /\ LiveRun # 0
               /\ \/ procs' = [procs EXCEPT ![NewSession] = [state |-> "busy", run |-> LiveRun]]
                  \/ UNCHANGED procs
      <3>1. NewSession \in Sessions
        BY <2>3, NewSessionFound
      <3>2. LiveRun \in Runs
        BY <2>3, LiveRunFound, NoLiveRun, Zenon DEF IInv, RowsPart
      <3>3. [state |-> "busy", run |-> LiveRun] \in ProcSet
        BY <3>2, SMT DEF ProcSet
      <3> DEFINE z == [state |-> "busy", run |-> LiveRun]
                 n == NewSession
      <3>5. /\ z \in ProcSet /\ n \in Sessions
            /\ procs' = [procs EXCEPT ![n] = z] \/ procs' = procs
        BY <2>3, <3>1, <3>3
      <3> HIDE DEF z, n
      <3>6. [procs EXCEPT ![n] = z] \in [Sessions -> ProcSet]
        BY <1>t, <3>5, ProcsKept, Zenon
      <3>4. procs' \in [Sessions -> ProcSet]
        BY <1>t, <3>5, <3>6
      <3> QED
        BY <1>0, <2>1, <2>3, <3>1, <3>4, HandKept, SMT
    <2> QED
      BY <1>12, <2>2, <2>3, Zenon DEF ResumeInterrupted, runner
  <1> QED
    <2>1. ASSUME NEW c \in Calls, RefreshAsked(c) \/ Look(c) \/ Resolve(c) \/ Reset(c) \/ GitFails(c)
          PROVE  HandPart'
      BY <1>4, <2>1, Zenon DEF RefreshAsked, Look, Resolve, Reset, GitFails, runner
    <2>2. ASSUME NEW ref \in Refs, Push(ref)
          PROVE  HandPart'
      BY <1>4, <2>2, Zenon DEF Push, runner
    <2>3. CASE Boot \/ UNCHANGED vars
      BY <1>4, <2>3, Zenon DEF Boot, runner, vars
    <2> QED
      BY <1>1, <1>2, <1>3, <1>5, <1>6, <1>7, <1>8, <1>9, <1>10, <1>11, <1>12, <2>1, <2>2, <2>3,
         Zenon DEF Next, CallGoesOn

-----------------------------------------------------------------------------
(* Every step keeps the calls. *)
LEMMA TipIsCommit == ASSUME IInv, NEW ref \in Refs PROVE Tip(ref) \in Commits
  BY SMT DEF IInv, WorldPart, Tip, Commits

(* A call keeps its type, one field at a time. *)
LEMMA CallFields ==
  ASSUME NEW x \in CallSet
  PROVE  /\ \A v \in Steps : [x EXCEPT !.pc = v] \in CallSet
         /\ \A v \in Ops : [x EXCEPT !.op = v] \in CallSet
         /\ \A v \in Refs \cup {None} : [x EXCEPT !.ref = v] \in CallSet
         /\ \A v \in {0} \cup Runs : [x EXCEPT !.run = v] \in CallSet
         /\ \A v \in Commits \cup {None} : [x EXCEPT !.next = v] \in CallSet
         /\ \A v \in Commits \cup {None} : [x EXCEPT !.target = v] \in CallSet
  BY SMT DEF CallSet

(* A step that gives one call a new state and leaves the stop alone. *)
LEMMA OneCallMoves ==
  ASSUME IInv, NEW c \in Calls, NEW x \in CallSet,
         calls' = [calls EXCEPT ![c] = x], stopping' = stopping,
         x.pc # "idle" => x.ref \in Refs, x.op = "refresh" => x.run \in Runs, x.pc # "stop"
  PROVE  CallsPart'
  BY SMT DEF IInv, CallsPart

LEMMA StopOverCalls ==
  ASSUME IInv, NEW ps, StopOver(ps)
  PROVE  CallsPart'
  <1>1. /\ calls' = [c \in Calls |-> IF calls[c].pc = "stop" THEN [calls[c] EXCEPT !.pc = "resolve"]
                                                          ELSE calls[c]]
        /\ stopping' = NoStop
    BY Zenon DEF StopOver
  <1>2. calls \in [Calls -> CallSet] /\ \A c \in Calls : calls[c].op = "refresh" => calls[c].run \in Runs
    BY DEF IInv, CallsPart
  <1>3. \A c \in Calls : calls[c].pc # "idle" => calls[c].ref \in Refs
    BY DEF IInv, CallsPart
  <1>4. ASSUME NEW c \in Calls
        PROVE  /\ calls'[c] \in CallSet
               /\ calls'[c].pc # "idle" => calls'[c].ref \in Refs
               /\ calls'[c].op = "refresh" => calls'[c].run \in Runs
               /\ calls'[c].pc # "stop"
    <2>1. CASE calls[c].pc = "stop"
      <3>1. calls[c] \in CallSet /\ "resolve" \in Steps
        BY <1>2, SMT DEF Steps
      <3>2. calls'[c] = [calls[c] EXCEPT !.pc = "resolve"]
        BY <1>1, <2>1
      <3>a. [calls[c] EXCEPT !.pc = "resolve"] \in CallSet
        BY <3>1, CallFields, Zenon
      <3>3. calls'[c] \in CallSet
        BY <3>2, <3>a
      <3>4. /\ calls'[c].pc = "resolve"
            /\ calls'[c].op = calls[c].op /\ calls'[c].ref = calls[c].ref
            /\ calls'[c].run = calls[c].run
        BY <3>1, <3>2, SMT DEF CallSet
      <3> QED
        BY <1>2, <1>3, <2>1, <3>3, <3>4
    <2>2. CASE calls[c].pc # "stop"
      BY <1>1, <1>2, <1>3, <2>2, SMT
    <2> QED
      BY <2>1, <2>2
  <1>5. calls' \in [Calls -> CallSet]
    BY <1>1, <1>4, SMT
  <1> QED
    BY <1>4, <1>5, Zenon DEF CallsPart

LEMMA CallsNext == IInv /\ [Next]_vars => CallsPart'
  <1> SUFFICES ASSUME IInv, [Next]_vars PROVE CallsPart'
    OBVIOUS
  <1>i. Idle \in CallSet /\ Idle.pc = "idle" /\ Idle.op = "none"
    BY SMT DEF Idle, CallSet, Steps, Ops
  <1>t. ASSUME NEW c \in Calls
        PROVE  /\ calls[c] \in CallSet
               /\ calls[c].pc # "idle" => calls[c].ref \in Refs
               /\ calls[c].op = "refresh" => calls[c].run \in Runs
    BY SMT DEF IInv, CallsPart
  <1>u. ASSUME UNCHANGED <<calls, stopping>>
        PROVE  CallsPart'
    BY <1>u, SMT DEF IInv, CallsPart
  <1>m. ASSUME StopTurn, LiveRun # 0
        PROVE  stopping'.run # 0
    <2>1. \E told, fresh : stopping' = [run |-> LiveRun, told |-> told, fresh |-> fresh]
      BY <1>m, Zenon DEF StopTurn
    <2> QED
      BY <1>m, <2>1, SMT
  <1>n. ASSUME NEW then, StopNow(then)
        PROVE  \/ stopping' = stopping /\ (then = "stop" => stopping.run # 0)
               \/ stopping'.run # 0 /\ then # "resolve"
    <2>1. "stop" # "resolve"
      BY SMT
    <2> QED
      BY <1>m, <1>n, <2>1, Zenon DEF StopNow, StopAtOnce, runner
  <1>1. CASE StopAsked
    <2>1. UNCHANGED calls /\ (stopping' = stopping \/ stopping'.run # 0)
      BY <1>1, <1>n, Zenon DEF StopAsked
    <2> QED
      BY <2>1, SMT DEF IInv, CallsPart
  <1>2. CASE StopTimesOut
    BY <1>2, StopOverCalls, Zenon DEF StopTimesOut
  <1>3. ASSUME NEW c \in Calls, NEW ref \in Refs, StartAsked(c, ref)
        PROVE  CallsPart'
    <2>1. PICK then \in {"stop", "resolve"} :
            /\ StopNow(then)
            /\ calls' = [calls EXCEPT ![c] = [Idle EXCEPT !.pc = then, !.op = "start", !.ref = ref]]
      BY <1>3, Zenon DEF StartAsked
    <2> DEFINE x == [Idle EXCEPT !.pc = then, !.op = "start", !.ref = ref]
    <2>a. then \in Steps /\ "start" \in Ops /\ ref \in Refs \cup {None}
      BY SMT DEF Steps, Ops
    <2>b. x \in CallSet
      BY <1>i, <2>a, CallFields, Zenon
    <2>2. x.pc = then /\ x.op = "start" /\ x.ref = ref
      BY SMT DEF Idle
    <2>3. calls' = [calls EXCEPT ![c] = x]
      BY <2>1
    <2> HIDE DEF x
    <2>4. (stopping' = stopping /\ (then = "stop" => stopping.run # 0))
            \/ (stopping'.run # 0 /\ then # "resolve")
      BY <1>n, <2>1, Zenon
    <2> QED
      BY <2>b, <2>2, <2>3, <2>4, SMT DEF IInv, CallsPart
  <1>4. ASSUME NEW c \in Calls, RefreshAsked(c)
        PROVE  CallsPart'
    <2>1. LiveRun \in Runs /\ rows[LiveRun].status = "running"
      BY <1>4, LiveRunFound, NoLiveRun, Zenon DEF RefreshAsked, IInv, RowsPart
    <2>2. rows[LiveRun] \in RowSet /\ rows[LiveRun].ref \in Refs
      BY <2>1, SMT DEF IInv, RowsPart
    <2>3. rows[LiveRun].commit \in Commits \cup {None}
      BY <2>2, SMT DEF RowSet
    <2> DEFINE x == [Idle EXCEPT !.pc = "look", !.op = "refresh", !.ref = rows[LiveRun].ref,
                                 !.run = LiveRun, !.next = rows[LiveRun].commit]
    <2>4. calls' = [calls EXCEPT ![c] = x] /\ stopping' = stopping
      BY <1>4, Zenon DEF RefreshAsked, runner
    <2>a. "look" \in Steps /\ "refresh" \in Ops /\ rows[LiveRun].ref \in Refs \cup {None}
            /\ LiveRun \in {0} \cup Runs
      BY <2>1, <2>2, SMT DEF Steps, Ops
    <2>b. x \in CallSet
      BY <1>i, <2>a, <2>3, CallFields, Zenon
    <2>5. x.pc = "look" /\ x.ref \in Refs /\ x.run \in Runs
      BY <2>1, <2>2, SMT DEF Idle
    <2>6. x.pc # "stop"
      BY <2>5
    <2> HIDE DEF x
    <2> QED
      BY <2>b, <2>4, <2>5, <2>6, OneCallMoves, Zenon
  <1>5. ASSUME NEW c \in Calls, Look(c)
        PROVE  CallsPart'
    <2>1. calls[c].pc = "look" /\ stopping' = stopping
      BY <1>5, Zenon DEF Look, runner
    <2>2. calls[c].ref \in Refs
      BY <1>t, <2>1
    <2>3. Tip(calls[c].ref) \in Commits
      BY <2>2, TipIsCommit, Zenon
    <2> DEFINE x == [calls[c] EXCEPT !.pc = "resolve", !.next = Tip(calls[c].ref)]
    <2>4. calls' = [calls EXCEPT ![c] = Idle] \/ calls' = [calls EXCEPT ![c] = x]
      BY <1>5, Zenon DEF Look
    <2>5. calls[c] \in CallSet /\ (calls[c].op = "refresh" => calls[c].run \in Runs)
      BY <1>t, Zenon
    <2>a. "resolve" \in Steps /\ Tip(calls[c].ref) \in Commits \cup {None}
      BY <2>3, SMT DEF Steps
    <2>b. x \in CallSet
      BY <2>a, <2>5, CallFields, Zenon
    <2>6. /\ x.pc = "resolve" /\ x.ref \in Refs
          /\ x.op = "refresh" => x.run \in Runs
      BY <2>2, <2>5, SMT DEF CallSet
    <2>7. x.pc # "stop"
      BY <2>6
    <2> HIDE DEF x
    <2>8. Idle.pc # "stop" /\ Idle.op # "refresh"
      BY <1>i
    <2> QED
      BY <1>i, <2>b, <2>1, <2>4, <2>6, <2>7, <2>8, OneCallMoves, Zenon
  <1>6. ASSUME NEW c \in Calls, Resolve(c)
        PROVE  CallsPart'
    <2>1. /\ calls' = [calls EXCEPT ![c] = [calls[c] EXCEPT !.pc = "reset", !.target = Tip(calls[c].ref)]]
          /\ calls[c].pc = "resolve" /\ stopping' = stopping
      BY <1>6, Zenon DEF Resolve, runner
    <2>2. calls[c].ref \in Refs
      BY <1>t, <2>1
    <2>3. Tip(calls[c].ref) \in Commits
      BY <2>2, TipIsCommit, Zenon
    <2>4. calls \in [Calls -> CallSet] /\ (calls[c].op = "refresh" => calls[c].run \in Runs)
      BY Zenon DEF IInv, CallsPart
    <2> DEFINE x == [calls[c] EXCEPT !.pc = "reset", !.target = Tip(calls[c].ref)]
    <2>a. "reset" \in Steps /\ Tip(calls[c].ref) \in Commits \cup {None} /\ calls[c] \in CallSet
      BY <2>3, <2>4, SMT DEF Steps
    <2>b. x \in CallSet
      BY <2>a, CallFields, Zenon
    <2>5. calls' = [calls EXCEPT ![c] = x]
      BY <2>1
    <2>6. /\ x.pc = "reset" /\ x.ref \in Refs
          /\ x.op = "refresh" => x.run \in Runs
      BY <2>2, <2>4, <2>a, SMT DEF CallSet
    <2>7. x.pc # "stop"
      BY <2>6
    <2> HIDE DEF x
    <2> QED
      BY <2>1, <2>b, <2>5, <2>6, <2>7, OneCallMoves, Zenon
  <1>7. ASSUME NEW c \in Calls, Reset(c)
        PROVE  CallsPart'
    <2>1. /\ calls' = [calls EXCEPT ![c].pc = "ready"]
          /\ calls[c].pc = "reset" /\ stopping' = stopping
      BY <1>7, Zenon DEF Reset, runner
    <2>2. calls[c].ref \in Refs
      BY <1>t, <2>1
    <2>3. calls \in [Calls -> CallSet] /\ (calls[c].op = "refresh" => calls[c].run \in Runs)
      BY Zenon DEF IInv, CallsPart
    <2> DEFINE x == [calls[c] EXCEPT !.pc = "ready"]
    <2>a. "ready" \in Steps /\ calls[c] \in CallSet
      BY <2>3, SMT DEF Steps
    <2>b. x \in CallSet
      BY <2>a, CallFields, Zenon
    <2>4. calls' = [calls EXCEPT ![c] = x]
      BY <2>1, <2>3, SMT
    <2>5. /\ x.pc = "ready" /\ x.ref \in Refs
          /\ x.op = "refresh" => x.run \in Runs
      BY <2>2, <2>3, <2>a, SMT DEF CallSet
    <2>6. x.pc # "stop"
      BY <2>5
    <2> HIDE DEF x
    <2> QED
      BY <2>1, <2>b, <2>4, <2>5, <2>6, OneCallMoves, Zenon
  <1>8. ASSUME NEW c \in Calls, GitFails(c) \/ Begin(c) \/ Land(c)
        PROVE  CallsPart'
    <2>1. calls' = [calls EXCEPT ![c] = Idle] /\ stopping' = stopping
      BY <1>8, Zenon DEF GitFails, Begin, Land, runner
    <2>2. Idle.pc # "stop" /\ Idle.op # "refresh"
      BY <1>i
    <2> QED
      BY <1>i, <2>1, <2>2, OneCallMoves, Zenon
  <1>9. ASSUME NEW p \in Sessions, TurnEnds(p) \/ SessionExits(p)
        PROVE  CallsPart'
    <2>1. (\E ps : StopOver(ps)) \/ UNCHANGED <<calls, stopping>>
      BY <1>9, Zenon DEF TurnEnds, SessionExits
    <2> QED
      BY <1>u, <2>1, StopOverCalls, Zenon
  <1>10. CASE Dies
    <2>1. calls' = [c \in Calls |-> Idle]
      BY <1>10, Zenon DEF Dies
    <2>2. Idle.pc # "stop" /\ Idle.op # "refresh"
      BY <1>i
    <2> HIDE DEF Idle
    <2> QED
      BY <1>i, <2>1, <2>2, SMT DEF CallsPart
  <1>11. CASE Send \/ StopFast \/ Boot \/ ResumeInterrupted \/ UNCHANGED vars
    <2>1. UNCHANGED <<calls, stopping>>
      BY <1>11, Zenon DEF Send, StopFast, Boot, ResumeInterrupted, runner, vars
    <2> QED
      BY <1>u, <2>1, Zenon
  <1>12. ASSUME NEW ref \in Refs, Push(ref)
         PROVE  CallsPart'
    BY <1>u, <1>12, Zenon DEF Push, runner
  <1> QED
    BY <1>1, <1>2, <1>3, <1>4, <1>5, <1>6, <1>7, <1>8, <1>9, <1>10, <1>11, <1>12,
       Zenon DEF Next, CallGoesOn

-----------------------------------------------------------------------------
(* Every step keeps the checkout, the tips and the harness's own state. *)
LEMMA WorldNext == IInv /\ [Next]_vars => WorldPart'
  <1> SUFFICES ASSUME IInv, [Next]_vars PROVE WorldPart'
    OBVIOUS
  <1>t. WorldPart
    BY DEF IInv
  <1>u. ASSUME UNCHANGED <<tips, boots>>, tree' \in Commits \cup {None},
               up' \in {"booting", "up", "closing", "dead"}
        PROVE  WorldPart'
    BY <1>t, <1>u, SMT DEF WorldPart
  <1>s. ASSUME UNCHANGED <<tree, tips, up, boots>>
        PROVE  WorldPart'
    BY <1>t, <1>s, Zenon DEF WorldPart
  <1>1. CASE StopAsked \/ StopTimesOut \/ Send
    BY <1>s, <1>1, Zenon DEF StopAsked, StopTimesOut, Send
  <1>2. ASSUME NEW c \in Calls, NEW ref \in Refs, StartAsked(c, ref)
        PROVE  WorldPart'
    BY <1>s, <1>2, Zenon DEF StartAsked
  <1>3. ASSUME NEW c \in Calls, RefreshAsked(c) \/ Look(c) \/ Resolve(c) \/ Begin(c) \/ Land(c)
        PROVE  WorldPart'
    BY <1>s, <1>3, Zenon DEF RefreshAsked, Look, Resolve, Begin, Land
  <1>4. ASSUME NEW c \in Calls, Reset(c) \/ GitFails(c)
        PROVE  WorldPart'
    <2>1. calls[c].target \in Commits \cup {None}
      BY SMT DEF IInv, CallsPart, CallSet
    <2>2. /\ UNCHANGED <<tips, up, boots>>
          /\ tree' \in {tree, None, calls[c].target}
      BY <1>4, Zenon DEF Reset, GitFails
    <2> QED
      BY <1>t, <1>u, <2>1, <2>2, SMT DEF WorldPart
  <1>5. ASSUME NEW p \in Sessions, TurnEnds(p) \/ SessionExits(p)
        PROVE  WorldPart'
    BY <1>s, <1>5, Zenon DEF TurnEnds, SessionExits
  <1>6. CASE StopFast \/ Boot \/ ResumeInterrupted
    <2>1. UNCHANGED <<tree, tips, boots>> /\ up' \in {"closing", "booting", "up"}
      BY <1>6, Zenon DEF StopFast, Boot, ResumeInterrupted
    <2> QED
      BY <1>t, <1>u, <2>1, SMT DEF WorldPart
  <1>7. CASE Dies
    <2>1. UNCHANGED <<tree, tips>> /\ up' = "dead" /\ boots < MaxBoots /\ boots' = boots + 1
      BY <1>7, Zenon DEF Dies
    <2> QED
      BY <1>t, <2>1, BoundsAssumption, SMT DEF WorldPart
  <1>8. ASSUME NEW ref \in Refs, Push(ref)
        PROVE  WorldPart'
    <2>1. /\ UNCHANGED <<tree, up, boots>> /\ tips[ref] < MaxPushes
          /\ tips' = [tips EXCEPT ![ref] = tips[ref] + 1]
      BY <1>8, Zenon DEF Push
    <2>2. tips[ref] + 1 \in 0 .. MaxPushes
      BY <1>t, <2>1, BoundsAssumption, SMT DEF WorldPart
    <2>3. tips' \in [Refs -> 0 .. MaxPushes]
      BY <1>t, <2>1, <2>2, SMT DEF WorldPart
    <2> QED
      BY <1>t, <2>1, <2>3, Zenon DEF WorldPart
  <1>9. CASE UNCHANGED vars
    BY <1>s, <1>9, Zenon DEF vars
  <1> QED
    BY <1>1, <1>2, <1>3, <1>4, <1>5, <1>6, <1>7, <1>8, <1>9, Zenon DEF Next, CallGoesOn

(* Every step keeps the flag of the turn in flight a flag. *)
LEMMA FlagNext == IInv /\ [Next]_vars => FlagPart'
  <1> SUFFICES ASSUME IInv, [Next]_vars PROVE FlagPart'
    OBVIOUS
  <1>t. inFlight \in BOOLEAN
    BY DEF IInv, FlagPart
  <1>s. ASSUME inFlight' = inFlight \/ inFlight' = TRUE \/ inFlight' = FALSE
        PROVE  FlagPart'
    BY <1>t, <1>s, Zenon DEF FlagPart
  <1>n. ASSUME NEW then, StopNow(then)
        PROVE  FlagPart'
    BY <1>n, <1>s, Zenon DEF StopNow, StopTurn, StopAtOnce, runner
  <1>o. ASSUME NEW ps, StopOver(ps)
        PROVE  FlagPart'
    BY <1>o, <1>s, Zenon DEF StopOver
  <1>1. CASE StopAsked \/ StopTimesOut \/ Send \/ StopFast \/ Dies \/ Boot \/ UNCHANGED vars
    BY <1>1, <1>n, <1>o, <1>s, Zenon
       DEF StopAsked, StopTimesOut, Send, StopFast, Dies, Boot, runner, vars
  <1>2. ASSUME NEW c \in Calls, NEW ref \in Refs, StartAsked(c, ref)
        PROVE  FlagPart'
    BY <1>2, <1>n, Zenon DEF StartAsked
  <1>3. ASSUME NEW c \in Calls, RefreshAsked(c) \/ Look(c) \/ Resolve(c) \/ Reset(c) \/ GitFails(c)
        PROVE  FlagPart'
    BY <1>3, <1>s, Zenon DEF RefreshAsked, Look, Resolve, Reset, GitFails, runner
  <1>4. ASSUME NEW c \in Calls, Begin(c)
        PROVE  FlagPart'
    BY <1>4, <1>s, Zenon DEF Begin
  <1>5. ASSUME NEW c \in Calls, Land(c)
        PROVE  FlagPart'
    BY <1>5, <1>t, Zenon DEF Land, FlagPart
  <1>6. ASSUME NEW p \in Sessions, TurnEnds(p) \/ SessionExits(p)
        PROVE  FlagPart'
    BY <1>6, <1>o, <1>s, Zenon DEF TurnEnds, SessionExits
  <1>7. CASE ResumeInterrupted
    BY <1>7, <1>s, Zenon DEF ResumeInterrupted, runner
  <1>8. ASSUME NEW ref \in Refs, Push(ref)
        PROVE  FlagPart'
    BY <1>8, <1>s, Zenon DEF Push, runner
  <1> QED
    BY <1>1, <1>2, <1>3, <1>4, <1>5, <1>6, <1>7, <1>8, Zenon DEF Next, CallGoesOn

-----------------------------------------------------------------------------
(* The watch over a live run.  What telling, killing, ending a turn and    *)
(* starting do to the processes.                                           *)
LEMMA ProcsGoOn ==
  ASSUME NEW ps \in [Sessions -> ProcSet], NEW q \in Sessions
  PROVE  /\ \A d : /\ Killed(ps, d)[q].run = ps[q].run
                   /\ ps[q].state # "gone" => Killed(ps, d)[q].state # "gone"
         /\ \A p \in Sessions : /\ Told(ps, p)[q].run = ps[q].run
                                /\ ps[q].state # "gone" => Told(ps, p)[q].state # "gone"
         /\ \A p \in Sessions, st \in {"idle", "closing"} :
              /\ [ps EXCEPT ![p].state = st][q].run = ps[q].run
              /\ ps[q].state # "gone" => [ps EXCEPT ![p].state = st][q].state # "gone"
  BY SMT DEF Killed, Told, ProcSet

(* A free session is gone, and neither held nor told. *)
LEMMA NewSessionIsFree ==
  FreeSessions # {} => /\ NewSession \in Sessions
                       /\ procs[NewSession].state = "gone"
                       /\ NewSession # session
                       /\ NewSession # stopping.told
  <1> SUFFICES ASSUME FreeSessions # {} PROVE NewSession \in FreeSessions
    BY SMT DEF FreeSessions
  <1> QED
    BY Zenon DEF NewSession

(* What settles the live run to an end, or to its stop, leaves no run that *)
(* starts or runs.                                                         *)
LEMMA NothingRuns ==
  ASSUME IInv, LiveRun # 0, NEW s \in {"stopping", "stopped", "failed"},
         rows' = Settled(LiveRun, s), NEW r \in Runs
  PROVE  /\ rows'[r].status \notin {"starting", "running"}
         /\ rows[r].status # "none" => rows'[r].status \in {"stopping", "stopped", "failed"}
  <1>1. LiveRun \in LiveRuns /\ LiveRun \in Runs
    BY LiveRunFound, NoLiveRun, Zenon DEF IInv, RowsPart
  <1>2. rows \in [Runs -> RowSet] /\ s \in Statuses
    BY SMT DEF IInv, RowsPart, Statuses, LiveStatus
  <1>3. /\ rows'[LiveRun].status = s
        /\ \A q \in Runs \ {LiveRun} : rows'[q] = rows[q]
    BY <1>1, <1>2, SettledRows, Zenon
  <1>4. r # LiveRun => r \notin LiveRuns
    BY <1>1, SMT DEF IInv, RowsPart, OneLiveRun
  <1>5. rows[r].status \in Statuses
    BY <1>2, SMT DEF RowSet
  <1> QED
    BY <1>3, <1>4, <1>5, SMT DEF LiveRuns, LiveStatus, Statuses

(* With no live run nothing starts or runs. *)
LEMMA NothingLives ==
  ASSUME IInv, LiveRun = 0, NEW r \in Runs
  PROVE  rows[r].status \notin LiveStatus
  <1>1. LiveRuns = {}
    BY LiveRunFound, Zenon DEF IInv, RowsPart
  <1> QED
    BY <1>1, SMT DEF LiveRuns

-----------------------------------------------------------------------------
(* A step that moves no process to another run and names no other stop     *)
(* keeps the names.                                                        *)
LEMMA NamesKept ==
  ASSUME WInv, OnlyEnds, procs' \in [Sessions -> ProcSet],
         \A p \in Sessions : procs'[p].run = 0 \/ procs'[p].run = procs[p].run,
         stopping'.told = 0 \/ stopping'.told = stopping.told
  PROVE  NamePart'
  <1>1. /\ procs \in [Sessions -> ProcSet]
        /\ \A p \in Sessions : procs[p].run \in {0} \cup Runs
        /\ stopping.told \in {0} \cup Sessions
    BY SMT DEF WInv, IInv, HandPart, ProcSet
  <1>2. \A p \in Sessions : procs'[p].run # 0 => rows'[procs'[p].run].status # "none"
    BY <1>1, SMT DEF WInv, NamePart, OnlyEnds
  <1>3. ASSUME stopping'.told # 0, procs'[stopping'.told].run # 0
        PROVE  rows'[procs'[stopping'.told].run].status \in {"stopping", "stopped", "failed"}
    <2> DEFINE r == procs[stopping.told].run
    <2>1. /\ stopping'.told = stopping.told /\ stopping.told \in Sessions
          /\ procs'[stopping'.told].run = r /\ r \in Runs
      BY <1>1, <1>3, SMT
    <2>2. rows[r].status \in {"stopping", "stopped", "failed"}
      BY <1>3, <2>1, SMT DEF WInv, NamePart
    <2>3. rows'[r].status \in {"stopping", "stopped", "failed"}
      BY <2>1, <2>2, SMT DEF OnlyEnds
    <2> QED
      BY <2>1, <2>3, Zenon
  <1> QED
    BY <1>2, <1>3, SMT DEF NamePart

(* A step that sets no run going, keeps the claim on every run that goes   *)
(* on and ends no session of such a run keeps the watch.                   *)
LEMMA WatchKept ==
  ASSUME WInv, up' = up,
         \A r \in Runs : rows'[r].status \in {"starting", "running"} /\ up = "up" =>
           /\ rows[r].status \in {"starting", "running"}
           /\ runId = r => runId' = r
           /\ \A p \in Sessions : procs[p].run = r /\ procs[p].state # "gone" =>
                procs'[p].run = r /\ procs'[p].state # "gone"
  PROVE  LiveRunIsWatched'
  BY SMT DEF WInv, LiveRunIsWatched

(* The processes go on: none changes its run, none exits. *)
GoOn == \A p \in Sessions : /\ procs'[p].run = procs[p].run
                            /\ procs[p].state # "gone" => procs'[p].state # "gone"

(* A step on which the processes go on and rows, claim and stop stay. *)
LEMMA QuietKeeps ==
  ASSUME WInv, IInv', GoOn, OnlyEnds, up' = up, rows' = rows, runId' = runId,
         stopping'.told = 0 \/ stopping'.told = stopping.told
  PROVE  NamePart' /\ LiveRunIsWatched'
  <1>1. NamePart'
    BY NamesKept, Zenon DEF GoOn, IInv, HandPart
  <1>2. LiveRunIsWatched'
    BY WatchKept, SMT DEF GoOn
  <1> QED
    BY <1>1, <1>2

LEMMA StopNowWatch ==
  ASSUME WInv, IInv', OnlyEnds, up' = up, NEW then, StopNow(then)
  PROVE  NamePart' /\ LiveRunIsWatched'
  <1>t. procs \in [Sessions -> ProcSet] /\ procs' \in [Sessions -> ProcSet] /\ IInv
        /\ session \in {0} \cup Sessions /\ (\A p \in Sessions : procs[p].run \in {0} \cup Runs)
    BY SMT DEF WInv, IInv, HandPart, ProcSet
  <1>1. CASE UNCHANGED <<rows, runner>>
    BY <1>1, QuietKeeps, Zenon DEF GoOn, runner
  <1>2. CASE UNCHANGED <<rows, runId, stopping>> /\ procs' = Killed(procs, {session})
    <2>1. GoOn
      BY <1>t, <1>2, ProcsGoOn, SMT DEF GoOn
    <2> QED
      BY <1>2, <2>1, QuietKeeps, Zenon
  <1>3. CASE LiveRun # 0 /\ StopTurn
    <2>1. \A r \in Runs : /\ rows'[r].status \notin {"starting", "running"}
                          /\ rows[r].status # "none" => rows'[r].status \in {"stopping", "stopped", "failed"}
      <3>1. rows' = Settled(LiveRun, "stopping")
        BY <1>3, Zenon DEF StopTurn
      <3> QED
        BY <1>t, <1>3, <3>1, NothingRuns, SMT
    <2>2. LiveRunIsWatched'
      BY <2>1, SMT DEF LiveRunIsWatched
    <2>3. CASE session # 0
      <3>1. procs' = Told(procs, session) /\ stopping'.told = session
        BY <1>3, <2>3, SMT DEF StopTurn
      <3>2. \A p \in Sessions : procs'[p].run = procs[p].run
        BY <1>t, <2>3, <3>1, ProcsGoOn, SMT
      <3> QED
        BY <1>t, <2>1, <2>2, <2>3, <3>1, <3>2, SMT DEF NamePart, WInv, OnlyEnds
    <2>4. CASE session = 0
      <3>1. /\ procs' = [procs EXCEPT ![NewSession] = [state |-> "busy", run |-> 0]]
            /\ stopping'.told = NewSession /\ NewSession \in Sessions
        BY <1>3, <2>4, NewSessionFound, SMT DEF StopTurn
      <3>2. \A p \in Sessions : procs'[p].run = IF p = NewSession THEN 0 ELSE procs[p].run
        BY <1>t, <3>1, SMT
      <3> QED
        BY <1>t, <2>1, <2>2, <3>1, <3>2, SMT DEF NamePart, WInv, OnlyEnds
    <2> QED
      BY <2>3, <2>4
  <1>4. CASE LiveRun # 0 /\ StopAtOnce
    <2>1. /\ rows' = Settled(LiveRun, "stopped") /\ stopping' = stopping
          /\ procs' = Killed(procs, {session})
      BY <1>4, Zenon DEF StopAtOnce
    <2>2. LiveRunIsWatched'
      <3>1. \A r \in Runs : rows'[r].status \notin {"starting", "running"}
        BY <1>t, <1>4, <2>1, NothingRuns, SMT
      <3> QED
        BY <3>1, SMT DEF LiveRunIsWatched
    <2>3. \A p \in Sessions : procs'[p].run = procs[p].run
      BY <1>t, <2>1, ProcsGoOn, SMT
    <2>4. NamePart'
      BY <1>t, <2>1, <2>3, NamesKept, Zenon
    <2> QED
      BY <2>2, <2>4
  <1> QED
    BY <1>1, <1>2, <1>3, <1>4, Zenon DEF StopNow, runner

(* A stop that goes on ends what it told and nobody's watch: the session   *)
(* it told may be the one that just exited.                                *)
LEMMA StopOverWatch ==
  ASSUME WInv, IInv', OnlyEnds, up' = up, stopping.run # 0,
         NEW ps \in [Sessions -> ProcSet], StopOver(ps),
         \A p \in Sessions : ps[p].run = 0 \/ ps[p].run = procs[p].run,
         \A p \in Sessions : procs[p].state # "gone" /\ p # stopping.told =>
           ps[p].run = procs[p].run /\ ps[p].state # "gone"
  PROVE  NamePart' /\ LiveRunIsWatched'
  <1> DEFINE dying == {session} \cup (IF stopping.fresh THEN {stopping.told} ELSE {})
  <1>1. /\ procs' = Killed(ps, dying)
        /\ rows' = Settled(stopping.run, "stopped")
        /\ runId' = Unclaimed(stopping.run)
        /\ stopping' = NoStop
    BY Zenon DEF StopOver
  <1> HIDE DEF dying
  <1>2. \A p \in Sessions : /\ procs'[p].run = ps[p].run
                            /\ ps[p].state # "gone" => procs'[p].state # "gone"
    BY <1>1, ProcsGoOn, SMT
  <1>3. NamePart'
    <2>1. stopping'.told = 0 /\ procs' \in [Sessions -> ProcSet]
      BY <1>1, SMT DEF NoStop, IInv, HandPart
    <2> QED
      BY <1>2, <2>1, NamesKept, SMT
  <1>4. ASSUME NEW r \in Runs, rows'[r].status \in {"starting", "running"}, up = "up"
        PROVE  /\ rows[r].status \in {"starting", "running"}
               /\ runId = r => runId' = r
               /\ \A p \in Sessions : procs[p].run = r /\ procs[p].state # "gone" =>
                    procs'[p].run = r /\ procs'[p].state # "gone"
    <2>1. stopping.run \in Runs /\ rows \in [Runs -> RowSet] /\ "stopped" \in Statuses
      BY SMT DEF WInv, IInv, HandPart, RowsPart, Statuses
    <2>2. /\ rows'[stopping.run].status = "stopped"
          /\ \A q \in Runs \ {stopping.run} : rows'[q] = rows[q]
      <3> DEFINE S == Settled(stopping.run, "stopped")
      <3>1. S[stopping.run].status = "stopped" /\ \A q \in Runs \ {stopping.run} : S[q] = rows[q]
        BY <2>1, SettledRows, ZenonT(40)
      <3>2. rows' = S
        BY <1>1
      <3> HIDE DEF S
      <3> QED
        BY <3>1, <3>2
    <2>3. r # stopping.run /\ rows[r].status \in {"starting", "running"}
      BY <1>4, <2>2, SMT
    <2>4. runId = r => runId' = r
      BY <1>1, <2>3, SMT DEF Unclaimed
    <2>5. ASSUME NEW p \in Sessions, procs[p].run = r, procs[p].state # "gone"
          PROVE  procs'[p].run = r /\ procs'[p].state # "gone"
      <3>1. r # 0 /\ p # 0
        BY BoundsAssumption, SMT DEF Runs, Sessions
      <3>2. p # stopping.told
        BY <2>3, <2>5, <3>1, SMT DEF WInv, NamePart
      <3> QED
        BY <1>2, <2>5, <3>2, Zenon
    <2> QED
      BY <2>3, <2>4, <2>5
  <1>5. LiveRunIsWatched'
    BY <1>4, WatchKept, Zenon
  <1> QED
    BY <1>3, <1>5

-----------------------------------------------------------------------------
(* Every step keeps the names and the watch. *)
LEMMA WatchNext == WInv /\ IInv' /\ OnlyEnds /\ [Next]_vars => NamePart' /\ LiveRunIsWatched'
  <1> SUFFICES ASSUME WInv, IInv', OnlyEnds, [Next]_vars
               PROVE  NamePart' /\ LiveRunIsWatched'
    OBVIOUS
  <1>t. /\ IInv
        /\ procs \in [Sessions -> ProcSet] /\ procs' \in [Sessions -> ProcSet]
        /\ session \in {0} \cup Sessions
    BY Zenon DEF WInv, IInv, HandPart
  <1>u. \A p \in Sessions : p # 0
    BY BoundsAssumption, SMT DEF Sessions
  <1>s. ASSUME UNCHANGED <<rows, runId, stopping, procs, up>>
        PROVE  NamePart' /\ LiveRunIsWatched'
    BY <1>s, QuietKeeps, Zenon DEF GoOn
  <1>1. CASE StopAsked
    BY <1>1, StopNowWatch, Zenon DEF StopAsked
  <1>2. CASE StopTimesOut
    <2>1. StopOver(procs) /\ stopping.run # 0 /\ up' = up
      BY <1>2, Zenon DEF StopTimesOut
    <2> QED
      BY <1>t, <2>1, StopOverWatch, Zenon
  <1>3. ASSUME NEW c \in Calls, NEW ref \in Refs, StartAsked(c, ref)
        PROVE  NamePart' /\ LiveRunIsWatched'
    BY <1>3, StopNowWatch, Zenon DEF StartAsked
  <1>4. ASSUME NEW c \in Calls, RefreshAsked(c) \/ Look(c) \/ Resolve(c) \/ Reset(c) \/ GitFails(c)
        PROVE  NamePart' /\ LiveRunIsWatched'
    BY <1>4, <1>s, Zenon DEF RefreshAsked, Look, Resolve, Reset, GitFails, runner
  <1>5. ASSUME NEW c \in Calls, Begin(c)
        PROVE  NamePart' /\ LiveRunIsWatched'
    <2>1. PICK r \in Runs, starts \in BOOLEAN :
            /\ rows' = [s \in Runs |->
                 IF s = r THEN [status |-> IF starts THEN "starting" ELSE "failed",
                                ref |-> calls[c].ref, commit |-> calls[c].target]
                 ELSE Superseded(s)]
            /\ runId' = IF starts THEN r ELSE 0
            /\ procs' = IF starts THEN [procs EXCEPT ![NewSession] = [state |-> "busy", run |-> r]]
                                  ELSE procs
      BY <1>5, Zenon DEF Begin
    <2>2. stopping' = stopping /\ up' = up /\ FreeSessions # {}
      BY <1>5, Zenon DEF Begin
    <2>3. NewSession \in Sessions /\ NewSession # stopping.told
      BY <2>2, NewSessionIsFree, Zenon
    <2>4. \A q \in Runs \ {r} : rows'[q].status \notin {"starting", "running"}
      <3>1. \A q \in Runs : rows[q] \in RowSet
        BY <1>t, SMT DEF IInv, RowsPart
      <3> QED
        BY <2>1, <3>1, SMT DEF Superseded, LiveRuns, LiveStatus, RowSet
    <2>5. CASE starts
      <3>1. /\ procs' = [procs EXCEPT ![NewSession] = [state |-> "busy", run |-> r]]
            /\ runId' = r
        BY <2>1, <2>5, Zenon
      <3>2. rows'[r].status = "starting"
        BY <2>1, <2>5, SMT
      <3>3. /\ procs'[NewSession].run = r /\ procs'[NewSession].state = "busy"
            /\ \A p \in Sessions \ {NewSession} : procs'[p] = procs[p]
        BY <1>t, <2>3, <3>1, SMT
      <3>4. LiveRunIsWatched'
        BY <2>3, <2>4, <3>1, <3>3, SMT DEF LiveRunIsWatched
      <3>5. \A p \in Sessions : procs[p].run \in {0} \cup Runs
        BY <1>t, SMT DEF ProcSet
      <3>6. \A p \in Sessions : procs'[p].run # 0 => rows'[procs'[p].run].status # "none"
        BY <3>2, <3>3, <3>5, SMT DEF WInv, NamePart, OnlyEnds
      <3>7. ASSUME stopping'.told # 0, procs'[stopping'.told].run # 0
            PROVE  rows'[procs'[stopping'.told].run].status \in {"stopping", "stopped", "failed"}
        <4>1. stopping.told \in Sessions /\ stopping.told # NewSession
          BY <2>2, <2>3, <3>7, <1>t, SMT DEF IInv, HandPart
        <4>2. procs'[stopping'.told].run = procs[stopping.told].run
          BY <2>2, <3>3, <4>1, SMT
        <4> QED
          BY <2>2, <3>5, <3>7, <4>1, <4>2, SMT DEF WInv, NamePart, OnlyEnds
      <3> QED
        BY <3>4, <3>6, <3>7, SMT DEF NamePart
    <2>6. CASE ~starts
      <3>1. procs' = procs /\ rows'[r].status = "failed"
        BY <2>1, <2>6, SMT
      <3>2. LiveRunIsWatched'
        BY <2>4, <3>1, SMT DEF LiveRunIsWatched
      <3>3. NamePart'
        BY <1>t, <2>2, <3>1, NamesKept, Zenon
      <3> QED
        BY <3>2, <3>3
    <2> QED
      BY <2>5, <2>6
  <1>6. ASSUME NEW c \in Calls, Land(c)
        PROVE  NamePart' /\ LiveRunIsWatched'
    <2>1. stopping' = stopping /\ up' = up /\ runId' = runId
      BY <1>6, Zenon DEF Land
    <2>2. procs' = procs \/ (session # 0 /\ procs' = Told(procs, session))
      BY <1>6, Zenon DEF Land
    <2>3. GoOn
      BY <1>t, <2>2, ProcsGoOn, SMT DEF GoOn
    <2>4. NamePart'
      BY <1>t, <2>1, <2>3, NamesKept, Zenon DEF GoOn
    <2>5. CASE StillRuns(c)
      <3> DEFINE r == calls[c].run
      <3>1. r \in Runs /\ rows[r].status = "running" /\ rows \in [Runs -> RowSet]
        BY <1>t, <1>6, <2>5, SMT DEF Land, StillRuns, IInv, CallsPart, RowsPart
      <3>2. rows' = [rows EXCEPT ![r].commit = calls[c].next,
                                 ![r].status = IF session = 0 THEN "running" ELSE @]
        BY <1>6, <2>5, Zenon DEF Land
      <3>3. \A q \in Runs : rows'[q].status = rows[q].status
        BY <3>1, <3>2, SMT DEF RowSet
      <3>4. LiveRunIsWatched'
        BY <2>1, <2>3, <3>3, WatchKept, SMT DEF GoOn
      <3> QED
        BY <2>4, <3>4
    <2>6. CASE ~StillRuns(c)
      <3>1. rows' = rows
        BY <1>6, <2>6, Zenon DEF Land
      <3> QED
        BY <2>1, <2>3, <3>1, QuietKeeps, Zenon
    <2> QED
      BY <2>5, <2>6
  <1>7. CASE Send
    <2>1. UNCHANGED <<rows, runId, stopping, up>> /\ procs' = Told(procs, session) /\ session # 0
      BY <1>7, Zenon DEF Send
    <2>2. GoOn
      BY <1>t, <2>1, ProcsGoOn, SMT DEF GoOn
    <2> QED
      BY <2>1, <2>2, QuietKeeps, Zenon
  <1>8. ASSUME NEW p \in Sessions, TurnEnds(p)
        PROVE  NamePart' /\ LiveRunIsWatched'
    <2>1. PICK after \in {"idle", "closing"} :
            IF stopping.told = p THEN StopOver([procs EXCEPT ![p].state = after])
            ELSE /\ procs' = [procs EXCEPT ![p].state = after]
                 /\ IF Claims(p) THEN rows' = Settled(runId, "running") ELSE UNCHANGED rows
                 /\ UNCHANGED <<runId, stopping>>
      BY <1>8, Zenon DEF TurnEnds
    <2>2. up' = up
      BY <1>8, Zenon DEF TurnEnds
    <2> DEFINE ps == [procs EXCEPT ![p].state = after]
    <2>3. ps \in [Sessions -> ProcSet]
      <3>1. after \in {"gone", "busy", "idle", "closing"}
        BY SMT
      <3> QED
        BY <1>t, <3>1, ProcsKept, Zenon
    <2>4. \A q \in Sessions : /\ ps[q].run = procs[q].run
                              /\ procs[q].state # "gone" => ps[q].state # "gone"
      BY <1>t, ProcsGoOn, SMT
    <2> HIDE DEF ps
    <2>5. CASE stopping.told = p
      <3>1. stopping.run # 0
        BY <1>t, <1>u, <2>5, Zenon DEF IInv, HandPart
      <3>2. StopOver(ps)
        BY <2>1, <2>5, Zenon DEF ps
      <3> QED
        BY <2>2, <2>3, <2>4, <3>1, <3>2, StopOverWatch, Zenon
    <2>6. CASE stopping.told # p
      <3>1. procs' = ps /\ UNCHANGED <<runId, stopping>>
        BY <2>1, <2>6, Zenon DEF ps
      <3>2. GoOn
        BY <2>4, <3>1, Zenon DEF GoOn
      <3>3. NamePart'
        BY <1>t, <3>1, <3>2, NamesKept, Zenon DEF GoOn
      <3>4. \A r \in Runs : rows'[r].status \in {"starting", "running"} =>
              rows[r].status \in {"starting", "running"}
        <4>1. CASE Claims(p)
          <5>1. runId \in Runs /\ rows[runId].status \in {"starting", "running"}
            BY <1>t, <4>1, SMT DEF Claims, IInv, RowsPart, ClaimIsLive
          <5>2. rows' = Settled(runId, "running") /\ rows \in [Runs -> RowSet] /\ "running" \in Statuses
            BY <1>t, <2>1, <2>6, <4>1, SMT DEF IInv, RowsPart, Statuses, LiveStatus
          <5>4. \A q \in Runs \ {runId} : Settled(runId, "running")[q] = rows[q]
            BY <5>1, <5>2, SettledRows, Zenon
          <5>3. \A q \in Runs \ {runId} : rows'[q] = rows[q]
            BY <5>2, <5>4, Zenon
          <5> QED
            BY <5>1, <5>3, SMT
        <4>2. CASE ~Claims(p)
          BY <2>1, <2>6, <4>2, Zenon
        <4> QED
          BY <4>1, <4>2
      <3>5. LiveRunIsWatched'
        BY <2>2, <3>1, <3>2, <3>4, WatchKept, SMT DEF GoOn
      <3> QED
        BY <3>3, <3>5
    <2> QED
      BY <2>5, <2>6
  <1>9. ASSUME NEW p \in Sessions, SessionExits(p)
        PROVE  NamePart' /\ LiveRunIsWatched'
    <2> DEFINE ps == [procs EXCEPT ![p] = NoProc]
    <2>1. /\ up' = up
          /\ IF stopping.told = p THEN StopOver(ps)
             ELSE /\ procs' = ps /\ UNCHANGED stopping
                  /\ IF ExitFails(p) THEN rows' = Settled(runId, "failed") /\ runId' = 0
                     ELSE UNCHANGED <<rows, runId>>
      BY <1>9, Zenon DEF SessionExits
    <2>2. ps \in [Sessions -> ProcSet]
      <3>1. NoProc \in ProcSet
        BY SMT DEF NoProc, ProcSet
      <3> QED
        BY <1>t, <3>1, ProcsKept, Zenon
    <2>3. /\ ps[p].run = 0
          /\ \A q \in Sessions \ {p} : ps[q] = procs[q]
      BY <1>t, SMT DEF NoProc
    <2> HIDE DEF ps
    <2>4. CASE stopping.told = p
      <3>1. stopping.run # 0
        BY <1>t, <1>u, <2>4, Zenon DEF IInv, HandPart
      <3>2. \A q \in Sessions : ps[q].run = 0 \/ ps[q].run = procs[q].run
        BY <2>3, SMT
      <3>3. \A q \in Sessions : procs[q].state # "gone" /\ q # stopping.told =>
              ps[q].run = procs[q].run /\ ps[q].state # "gone"
        BY <2>3, <2>4, SMT
      <3> QED
        BY <2>1, <2>2, <2>4, <3>1, <3>2, <3>3, StopOverWatch, Zenon
    <2>5. CASE stopping.told # p
      <3>1. NamePart'
        BY <1>t, <2>1, <2>3, <2>5, NamesKept, SMT
      <3>2. CASE ExitFails(p)
        <4>1. LiveRun # 0 /\ rows' = Settled(LiveRun, "failed")
          BY <2>1, <2>5, <3>2, Zenon DEF ExitFails, Claims
        <4>2. \A r \in Runs : rows'[r].status \notin {"starting", "running"}
          BY <1>t, <4>1, NothingRuns, SMT
        <4>3. LiveRunIsWatched'
          BY <4>2, SMT DEF LiveRunIsWatched
        <4> QED
          BY <3>1, <4>3
      <3>3. CASE ~ExitFails(p)
        <4>1. rows' = rows /\ runId' = runId /\ procs' = ps
          BY <2>1, <2>5, <3>3, Zenon
        <4>2. ASSUME NEW r \in Runs, rows[r].status \in {"starting", "running"}, up = "up"
              PROVE  procs[p].run # r
          <5>1. runId = r
            BY <4>2, SMT DEF WInv, LiveRunIsWatched
          <5>2. r \in LiveRuns
            BY <4>2, SMT DEF LiveRuns, LiveStatus
          <5>3. LiveRun \in LiveRuns /\ OneLiveRun
            BY <1>t, <5>2, LiveRunFound, Zenon DEF IInv, RowsPart
          <5>4. LiveRun = r /\ r # 0
            BY <5>2, <5>3, BoundsAssumption, SMT DEF OneLiveRun, Runs
          <5> QED
            BY <3>3, <5>1, <5>4, Zenon DEF ExitFails, Claims
        <4>3. ASSUME NEW r \in Runs, rows'[r].status \in {"starting", "running"}, up = "up"
              PROVE  /\ rows[r].status \in {"starting", "running"}
                     /\ runId = r => runId' = r
                     /\ \A q \in Sessions : procs[q].run = r /\ procs[q].state # "gone" =>
                          procs'[q].run = r /\ procs'[q].state # "gone"
          BY <2>3, <4>1, <4>2, <4>3, SMT
        <4>4. LiveRunIsWatched'
          BY <2>1, <4>3, WatchKept, Zenon
        <4> QED
          BY <3>1, <4>4
      <3> QED
        BY <3>2, <3>3
    <2> QED
      BY <2>4, <2>5
  <1>10. CASE StopFast
    <2>1. up' = "closing" /\ stopping' = stopping /\ procs' = Killed(procs, {session})
      BY <1>10, Zenon DEF StopFast
    <2>2. \A p \in Sessions : procs'[p].run = procs[p].run
      BY <1>t, <2>1, ProcsGoOn, SMT
    <2>3. NamePart'
      BY <1>t, <2>1, <2>2, NamesKept, Zenon
    <2> QED
      BY <2>1, <2>3, SMT DEF LiveRunIsWatched
  <1>11. CASE Dies
    <2>1. /\ up' = "dead" /\ stopping'.told = 0
          /\ \A p \in Sessions : procs'[p].run = 0
      BY <1>11, SMT DEF Dies, NoStop, NoProc
    <2>2. NamePart'
      BY <1>t, <2>1, NamesKept, Zenon
    <2> QED
      BY <2>1, <2>2, SMT DEF LiveRunIsWatched
  <1>12. CASE Boot
    <2>1. up' = "booting" /\ stopping' = stopping /\ procs' = procs
      BY <1>12, Zenon DEF Boot, runner
    <2>2. NamePart'
      BY <1>t, <2>1, NamesKept, Zenon
    <2> QED
      BY <2>1, <2>2, SMT DEF LiveRunIsWatched
  <1>13. CASE ResumeInterrupted
    <2>1. CASE LiveRun = 0 /\ UNCHANGED <<rows, runner>>
      <3>1. NamePart'
        BY <1>t, <2>1, NamesKept, Zenon DEF runner
      <3>2. \A r \in Runs : rows'[r].status \notin LiveStatus
        BY <1>t, <2>1, NothingLives, SMT
      <3> QED
        BY <3>1, <3>2, SMT DEF LiveRunIsWatched, LiveStatus
    <2>2. CASE /\ LiveRun # 0
               /\ rows' = Settled(LiveRun, "stopped") \/ rows' = Settled(LiveRun, "failed")
               /\ UNCHANGED <<stopping, procs>>
      <3>1. NamePart'
        BY <1>t, <2>2, NamesKept, Zenon
      <3>2. \A r \in Runs : rows'[r].status \notin {"starting", "running"}
        BY <1>t, <2>2, NothingRuns, SMT
      <3> QED
        BY <3>1, <3>2, SMT DEF LiveRunIsWatched
    <2>3. CASE /\ LiveRun # 0 /\ FreeSessions # {}
               /\ rows' = Settled(LiveRun, "starting") /\ runId' = LiveRun
               /\ procs' = [procs EXCEPT ![NewSession] = [state |-> "busy", run |-> LiveRun]]
               /\ stopping' = stopping
      <3>1. /\ LiveRun \in LiveRuns /\ LiveRun \in Runs /\ OneLiveRun
            /\ rows[LiveRun].status # "none"
        BY <1>t, <2>3, LiveRunFound, NoLiveRun, SMT DEF IInv, RowsPart, LiveStatus
      <3>2. NewSession \in Sessions /\ NewSession # stopping.told
        BY <2>3, NewSessionIsFree, Zenon
      <3>3. rows \in [Runs -> RowSet] /\ "starting" \in Statuses
        BY <1>t, SMT DEF IInv, RowsPart, Statuses, LiveStatus
      <3>4. /\ rows'[LiveRun].status = "starting"
            /\ \A q \in Runs \ {LiveRun} : rows'[q] = rows[q]
        BY <2>3, <3>1, <3>3, SettledRows, Zenon
      <3>5. /\ procs'[NewSession].run = LiveRun /\ procs'[NewSession].state = "busy"
            /\ \A p \in Sessions \ {NewSession} : procs'[p] = procs[p]
        BY <1>t, <2>3, <3>2, SMT
      <3>6. \A q \in Runs \ {LiveRun} : rows'[q].status \notin {"starting", "running"}
        BY <3>1, <3>4, SMT DEF OneLiveRun, LiveRuns, LiveStatus
      <3>7. LiveRunIsWatched'
        BY <2>3, <3>2, <3>5, <3>6, SMT DEF LiveRunIsWatched
      <3>8. \A p \in Sessions : procs[p].run \in {0} \cup Runs
        BY <1>t, SMT DEF ProcSet
      <3>9. \A p \in Sessions : procs'[p].run # 0 => rows'[procs'[p].run].status # "none"
        BY <3>4, <3>5, <3>8, SMT DEF WInv, NamePart, OnlyEnds
      <3>10. ASSUME stopping'.told # 0, procs'[stopping'.told].run # 0
             PROVE  rows'[procs'[stopping'.told].run].status \in {"stopping", "stopped", "failed"}
        <4>1. stopping.told \in Sessions /\ stopping.told # NewSession
          BY <2>3, <3>2, <3>10, <1>t, SMT DEF IInv, HandPart
        <4>2. procs'[stopping'.told].run = procs[stopping.told].run
          BY <2>3, <3>5, <4>1, SMT
        <4> QED
          BY <2>3, <3>8, <3>10, <4>1, <4>2, SMT DEF WInv, NamePart, OnlyEnds
      <3> QED
        BY <3>7, <3>9, <3>10, SMT DEF NamePart
    <2> QED
      BY <1>13, <2>1, <2>2, <2>3, Zenon DEF ResumeInterrupted, runner
  <1>14. ASSUME NEW ref \in Refs, Push(ref)
         PROVE  NamePart' /\ LiveRunIsWatched'
    BY <1>14, <1>s, Zenon DEF Push, runner
  <1>15. CASE UNCHANGED vars
    BY <1>15, <1>s, Zenon DEF vars
  <1> QED
    BY <1>1, <1>2, <1>3, <1>4, <1>5, <1>6, <1>7, <1>8, <1>9, <1>10, <1>11, <1>12, <1>13,
       <1>14, <1>15, Zenon DEF Next, CallGoesOn

-----------------------------------------------------------------------------
(* The strengthened invariant holds in every state of every behaviour. *)
LEMMA LocalRunInvariant == Spec => []IInv
  <1>1. IInv /\ [Next]_vars => IInv'
    BY RowsNext, HandNext, CallsNext, WorldNext, FlagNext, Zenon DEF IInv
  <1> QED
    BY <1>1, LocalRunInit, PTL DEF Spec

(* Every row, process and call of the runner keeps its shape whatever      *)
(* overlaps, and a call parked on a stop always has a stop that will call  *)
(* it back (start()'s await of runStop()'s promise).                       *)
THEOREM LocalRunTypeCorrect == Spec => []TypeOK
  <1>1. IInv => TypeOK
    BY SMT DEF IInv, RowsPart, HandPart, CallsPart, WorldPart, FlagPart, TypeOK,
       RowSet, Statuses, CallSet, Steps, Ops, ProcSet
  <1> QED
    BY <1>1, LocalRunInvariant, PTL

(* One environment, so one live row, for any number of branches, calls,    *)
(* sessions and crashes: beginLocalRun() ends what is live before it       *)
(* writes its row, and every later settlement is of a row that is live.    *)
THEOREM OneLiveRunAlways == Spec => []OneLiveRun
  <1>1. IInv => OneLiveRun
    BY DEF IInv, RowsPart
  <1> QED
    BY <1>1, LocalRunInvariant, PTL

(* The runner never claims a run that is being stopped or that ended, so   *)
(* an event of a session that outlived its run finds nothing to act on     *)
(* (stop() drops the claim, wire()'s handlers ask for it).                 *)
THEOREM ClaimIsLiveAlways == Spec => []ClaimIsLive
  <1>1. IInv => ClaimIsLive
    BY DEF IInv, RowsPart
  <1> QED
    BY <1>1, LocalRunInvariant, PTL

(* A run that ended, or that is being stopped, never lives again: neither  *)
(* a late turn, nor a refresh that was under way, nor a boot revives it.   *)
THEOREM EndedStaysEnded == Spec => EndedIsFinal
  <1>1. IInv /\ [Next]_vars =>
          [\A r \in Runs :
             /\ rows[r].status \in {"stopped", "failed"} => rows'[r].status \in {"stopped", "failed"}
             /\ rows[r].status = "stopping" => rows'[r].status \in {"stopping", "stopped"}]_vars
    BY RowsNext DEF OnlyEnds
  <1> QED
    BY <1>1, LocalRunInvariant, PTL DEF Spec, EndedIsFinal

(* A run that starts or runs in a harness that is up is claimed by the     *)
(* runner, and a session of that run has yet to exit: whatever stops,      *)
(* swaps, crashes and late events overlap, the exit that settles the row   *)
(* is still to come (wire()'s exit handler, settle(), resumeInterrupted()). *)
THEOREM LiveRunIsWatchedAlways == Spec => []LiveRunIsWatched
  <1>1. Init => WInv
    <2>1. Init => NamePart /\ LiveRunIsWatched
      BY SMT DEF Init, NamePart, LiveRunIsWatched, NoRow, NoProc, NoStop
    <2> QED
      BY <2>1, LocalRunInit, Zenon DEF WInv
  <1>2. IInv /\ [Next]_vars => IInv' /\ OnlyEnds
    BY RowsNext, HandNext, CallsNext, WorldNext, FlagNext, Zenon DEF IInv
  <1>3. WInv /\ [Next]_vars => WInv'
    BY <1>2, WatchNext, Zenon DEF WInv
  <1>4. WInv => LiveRunIsWatched
    BY DEF WInv
  <1> QED
    BY <1>1, <1>3, <1>4, PTL DEF Spec

(* The runner and the rows agree on the one run, for any number of refs,   *)
(* calls, runs, sessions, pushes and deaths of the harness.                *)
THEOREM LiveRunAlwaysKept == Spec => []LiveRunIsKept
  BY LocalRunTypeCorrect, OneLiveRunAlways, LiveRunIsWatchedAlways, ClaimIsLiveAlways, PTL DEF LiveRunIsKept

-----------------------------------------------------------------------------
(* One call at a time.  The runner then accounts for its run, but not by   *)
(* what RunIsAccounted says alone: the invariant adds what a call that is  *)
(* past its stop may rely on.                                              *)
OneCallOnly == \A c, d \in Calls : c = d
PastStop == {"resolve", "reset", "ready"}

(* A harness that is not up has run once, and has neither sessions, nor a  *)
(* claim, nor calls.                                                       *)
AsleepPart ==
    up \in {"dead", "booting"} =>
      /\ stopping.run = 0 /\ session = 0 /\ runId = 0 /\ boots # 0
      /\ \A c \in Calls : calls[c].pc = "idle"
      /\ \A p \in Sessions : procs[p].state = "gone"

(* During a stop nothing is claimed, nothing else is live, and a session   *)
(* that was told and listens is the one held, unless it is a fresh one.    *)
StopPart ==
    stopping.run # 0 =>
      /\ runId = 0
      /\ LiveRuns \subseteq {stopping.run}
      /\ rows[stopping.run].status \notin {"starting", "running"}
      /\ stopping.told # 0 /\ ~stopping.fresh /\ procs[stopping.told].state \in {"busy", "idle"}
           => stopping.told = session

(* Which call is where; a start past its stop has an empty stage.         *)
SwapPart ==
    \A c \in Calls :
      /\ calls[c].pc = "stop" => calls[c].op = "start"
      /\ calls[c].pc = "look" => calls[c].op = "refresh"
      /\ calls[c].pc \in PastStop => calls[c].op \in {"start", "refresh"}
      /\ calls[c].op = "start" /\ calls[c].pc \in PastStop =>
           LiveRuns = {} /\ session = 0 /\ stopping.run = 0

(* A claimed run is the held session's, which is taking the turn the flag  *)
(* is about, and no other session listens.                                 *)
HeldPart ==
    /\ NoStraySession
    /\ runId # 0 => /\ session # 0
                    /\ procs[session].run = runId
                    /\ procs[session].state # "gone"
                    /\ inFlight /\ stopping.run = 0 => procs[session].state # "idle"

(* What a call has read is still so when it acts on it, and until the      *)
(* harness dies a refresh is of the one run that may be live.              *)
TreePart ==
    \A c \in Calls :
      /\ calls[c].pc = "ready" => tree = calls[c].target
      /\ calls[c].pc \in {"reset", "ready"} => calls[c].target = Tip(calls[c].ref)
      /\ calls[c].op = "refresh" /\ calls[c].pc \in PastStop => calls[c].next = Tip(calls[c].ref)
      /\ calls[c].op = "refresh" /\ boots = 0 =>
           \A r \in LiveRuns : r = calls[c].run /\ rows[r].status # "starting"

CommitPart ==
    boots = 0 => \A r \in Runs : rows[r].status \in {"starting", "running"} =>
      \/ tree \in {rows[r].commit, None}
      \/ \E c \in Calls : calls[c].op = "refresh" /\ calls[c].pc = "ready"

AInv == WInv /\ AsleepPart /\ StopPart /\ SwapPart /\ HeldPart /\ TreePart /\ CommitPart

(* No run appears, none starts again, and commits stay on record: only a   *)
(* start writes a row, only a refresh another commit, and only a boot      *)
(* starts a run again.                                                     *)
RowsGoOn == \A r \in Runs : /\ rows[r].status = "none" => rows'[r].status = "none"
                            /\ rows'[r].status = "starting" => rows[r].status = "starting"
                            /\ rows'[r].commit = rows[r].commit

Calm == OneCallOnly /\ DesktopEarly = FALSE /\ PushesLate = FALSE

-----------------------------------------------------------------------------
LEMMA SameGoesOn == rows' = rows => RowsGoOn
  BY SMT DEF RowsGoOn

(* A row that is settled keeps its commit. *)
LEMMA SettledGoesOn ==
  ASSUME IInv, NEW r \in Runs, NEW s \in Statuses \ {"none", "starting"},
         rows[r].status # "none", rows' = Settled(r, s)
  PROVE  RowsGoOn
  <1>1. rows \in [Runs -> RowSet]
    BY DEF IInv, RowsPart
  <1>2. Settled(r, s) = [rows EXCEPT ![r].status = s]
    BY DEF Settled
  <1> QED
    BY <1>1, <1>2, SMT DEF RowsGoOn, RowSet

(* The live run is one that was written. *)
LEMMA LiveRunWritten ==
  ASSUME IInv, LiveRun # 0
  PROVE  LiveRun \in Runs /\ LiveRun \in LiveRuns /\ rows[LiveRun].status # "none"
  BY LiveRunFound, NoLiveRun, SMT DEF IInv, RowsPart, LiveStatus

LEMMA StopNowGoesOn ==
  ASSUME IInv, NEW then, StopNow(then)
  PROVE  RowsGoOn
  <1>1. CASE rows' = rows
    BY <1>1, SMT DEF RowsGoOn
  <1>2. CASE LiveRun # 0 /\ (rows' = Settled(LiveRun, "stopping") \/ rows' = Settled(LiveRun, "stopped"))
    <2>1. {"stopping", "stopped"} \subseteq Statuses \ {"none", "starting"}
      BY SMT DEF Statuses, LiveStatus
    <2> QED
      BY <1>2, <2>1, LiveRunWritten, SettledGoesOn, Zenon
  <1> QED
    BY <1>1, <1>2, Zenon DEF StopNow, StopTurn, StopAtOnce, runner

LEMMA StopOverGoesOn ==
  ASSUME IInv, NEW ps, StopOver(ps), stopping.run # 0
  PROVE  RowsGoOn
  <1>1. stopping.run \in Runs /\ rows[stopping.run].status # "none"
    BY SMT DEF IInv, HandPart
  <1>2. "stopped" \in Statuses \ {"none", "starting"}
    BY SMT DEF Statuses, LiveStatus
  <1>3. rows' = Settled(stopping.run, "stopped")
    BY Zenon DEF StopOver
  <1> QED
    BY <1>1, <1>2, <1>3, SettledGoesOn, Zenon

LEMMA SessionGoesOn ==
  ASSUME IInv, NEW p \in Sessions, TurnEnds(p) \/ SessionExits(p)
  PROVE  RowsGoOn
  <1>1. \/ stopping.told = p /\ \E ps : StopOver(ps)
        \/ Claims(p) /\ (rows' = Settled(runId, "running") \/ rows' = Settled(runId, "failed"))
        \/ rows' = rows
    BY Zenon DEF TurnEnds, SessionExits, ExitFails
  <1>2. ASSUME stopping.told = p PROVE stopping.run # 0
    BY <1>2, BoundsAssumption, SMT DEF Sessions, IInv, HandPart
  <1>3. ASSUME Claims(p) PROVE runId \in Runs /\ rows[runId].status # "none"
    BY <1>3, SMT DEF Claims, IInv, RowsPart, ClaimIsLive
  <1>4. {"running", "failed"} \subseteq Statuses \ {"none", "starting"}
    BY SMT DEF Statuses, LiveStatus
  <1> QED
    BY <1>1, <1>2, <1>3, <1>4, SameGoesOn, StopOverGoesOn, SettledGoesOn, Zenon

LEMMA StopFastGoesOn ==
  ASSUME IInv, StopFast
  PROVE  RowsGoOn
  <1>1. "stopped" \in Statuses \ {"none", "starting"}
    BY SMT DEF Statuses, LiveStatus
  <1> QED
    BY <1>1, SameGoesOn, LiveRunWritten, SettledGoesOn, Zenon DEF StopFast

(* So what is live was live, and what starts or runs did.                 *)
LEMMA LiveWasLive ==
  ASSUME IInv, OnlyEnds, RowsGoOn
  PROVE  /\ LiveRuns' \subseteq LiveRuns
         /\ \A r \in Runs : rows'[r].status \in {"starting", "running"} =>
              rows[r].status \in {"starting", "running"}
  <1>1. \A r \in Runs : rows[r].status \in {"none", "stopped", "failed", "starting", "running", "stopping"}
    BY SMT DEF IInv, RowsPart, RowSet, Statuses, LiveStatus
  <1> QED
    BY <1>1, SMT DEF OnlyEnds, RowsGoOn, LiveRuns, LiveStatus

(* While the harness is not up it dies, boots, and hears of pushes.       *)
LEMMA AsleepSteps ==
  ASSUME AInv, Calm, up \in {"dead", "booting"}, [Next]_vars
  PROVE  Dies \/ Boot \/ ResumeInterrupted \/ (\E ref \in Refs : Push(ref)) \/ UNCHANGED vars
  <1>1. ~Listening
    BY SMT DEF Calm, Listening
  <1>2. /\ stopping.run = 0
        /\ \A c \in Calls : calls[c].pc = "idle"
        /\ \A p \in Sessions : procs[p].state = "gone"
    BY Zenon DEF AInv, AsleepPart
  <1>3. ~StopAsked /\ ~Send /\ ~StopTimesOut
    BY <1>1, <1>2, Zenon DEF StopAsked, Send, StopTimesOut
  <1>4. \A c \in Calls : ~RefreshAsked(c) /\ \A ref \in Refs : ~StartAsked(c, ref)
    BY <1>1, Zenon DEF RefreshAsked, StartAsked
  <1>5. \A c \in Calls : ~CallGoesOn(c) /\ ~GitFails(c)
    BY <1>2, SMT DEF CallGoesOn, Look, Resolve, Reset, Begin, Land, GitFails
  <1>6. \A p \in Sessions : ~TurnEnds(p) /\ ~SessionExits(p)
    BY <1>2, SMT DEF TurnEnds, SessionExits
  <1>7. ~StopFast
    BY SMT DEF StopFast
  <1> QED
    BY <1>3, <1>4, <1>5, <1>6, <1>7, Zenon DEF Next

LEMMA AsleepNext == AInv /\ Calm /\ [Next]_vars => AsleepPart'
  <1> SUFFICES ASSUME AInv, Calm, [Next]_vars PROVE AsleepPart'
    OBVIOUS
  <1>1. CASE up' = up
    <2>1. CASE up \in {"dead", "booting"}
      <3>1. CASE (\E ref \in Refs : Push(ref)) \/ UNCHANGED vars
        BY <2>1, <3>1, SMT DEF Push, vars, runner, AInv, AsleepPart
      <3>2. /\ Dies => up # "dead" /\ up' = "dead"
            /\ Boot => up = "dead" /\ up' = "booting"
            /\ ResumeInterrupted => up = "booting" /\ up' = "up"
        BY Zenon DEF Dies, Boot, ResumeInterrupted
      <3>3. ~Dies /\ ~Boot /\ ~ResumeInterrupted
        BY <1>1, <3>2, SMT
      <3> QED
        BY <2>1, <3>1, <3>3, AsleepSteps, Zenon
    <2>2. CASE up \notin {"dead", "booting"}
      BY <1>1, <2>2, Zenon DEF AsleepPart
    <2> QED
      BY <2>1, <2>2
  <1>2. CASE Dies
    <2>1. /\ stopping' = NoStop /\ session' = 0 /\ runId' = 0 /\ boots' = boots + 1
          /\ procs' = [p \in Sessions |-> NoProc] /\ calls' = [c \in Calls |-> Idle]
      BY <1>2, Zenon DEF Dies
    <2>2. boots \in Nat
      BY BoundsAssumption, SMT DEF AInv, WInv, IInv, WorldPart
    <2> QED
      BY <2>1, <2>2, SMT DEF AsleepPart, NoStop, NoProc, Idle
  <1>3. CASE Boot
    BY <1>3, SMT DEF Boot, runner, AInv, AsleepPart
  <1>4. CASE StopFast \/ ResumeInterrupted
    BY <1>4, SMT DEF StopFast, ResumeInterrupted, AsleepPart
  <1> QED
    <2>1. \/ up' = up \/ Dies \/ Boot \/ StopFast \/ ResumeInterrupted
      BY Zenon DEF Next, vars, StopAsked, StopTimesOut, StartAsked, RefreshAsked, CallGoesOn, Look,
         Resolve, Reset, Begin, Land, GitFails, Send, TurnEnds, SessionExits, Push
    <2> QED
      BY <1>1, <1>2, <1>3, <1>4, <2>1

-----------------------------------------------------------------------------
(* What stop() leaves behind: it joins a stop, has nothing to tell, or     *)
(* tells the session held or a fresh one.                                  *)
LEMMA StopNowDoes ==
  ASSUME AInv, NEW then, StopNow(then)
  PROVE  \/ then = "stop" /\ stopping.run # 0 /\ UNCHANGED <<rows, runner>>
         \/ /\ then = "resolve" /\ stopping.run = 0 /\ stopping' = stopping
            /\ session' = 0 /\ runId' = 0 /\ LiveRuns' = {}
            /\ procs' = Killed(procs, {session})
         \/ /\ then = "stop" /\ stopping.run = 0 /\ LiveRuns # {}
            /\ session' = session /\ runId' = 0
            /\ stopping'.run # 0 /\ LiveRuns' \subseteq {stopping'.run}
            /\ rows'[stopping'.run].status = "stopping"
            /\ \/ /\ session # 0 /\ stopping'.told = session
                  /\ procs' = Told(procs, session)
               \/ /\ session = 0 /\ stopping'.told = NewSession /\ stopping'.fresh
                  /\ NewSession \in Sessions
                  /\ procs' = [procs EXCEPT ![NewSession] = [state |-> "busy", run |-> 0]]
  <1>t. IInv /\ rows \in [Runs -> RowSet] /\ OneLiveRun /\ ClaimIsLive
    BY Zenon DEF AInv, WInv, IInv, RowsPart
  <1>1. CASE stopping.run # 0
    BY <1>1, Zenon DEF StopNow
  <1>2. CASE stopping.run = 0 /\ LiveRun = 0
    <2>1. LiveRuns = {}
      BY <1>t, <1>2, LiveRunFound, Zenon
    <2>2. /\ then = "resolve" /\ procs' = Killed(procs, {session}) /\ session' = 0
          /\ UNCHANGED <<rows, runId, stopping>>
      BY <1>2, Zenon DEF StopNow
    <2>3. runId = 0
      BY <1>t, <2>1, SMT DEF ClaimIsLive, LiveRuns, LiveStatus, IInv, RowsPart
    <2>4. LiveRuns' = {}
      BY <2>1, <2>2, SMT DEF LiveRuns
    <2> QED
      BY <1>2, <2>2, <2>3, <2>4
  <1>3. CASE stopping.run = 0 /\ LiveRun # 0
    <2>1. LiveRun \in Runs /\ LiveRun \in LiveRuns
      BY <1>t, <1>3, LiveRunWritten, Zenon
    <2>2. ASSUME NEW s \in {"stopping", "stopped"}, rows' = Settled(LiveRun, s)
          PROVE  /\ rows'[LiveRun].status = s
                 /\ LiveRuns' \subseteq {LiveRun}
                 /\ s = "stopped" => LiveRuns' = {}
      <3>1. s \in Statuses
        BY SMT DEF Statuses, LiveStatus
      <3>2. rows'[LiveRun].status = s /\ \A q \in Runs \ {LiveRun} : rows'[q] = rows[q]
        BY <1>t, <2>1, <2>2, <3>1, SettledRows, Zenon
      <3> QED
        BY <1>t, <2>1, <3>2, SMT DEF OneLiveRun, LiveRuns, LiveStatus
    <2>3. CASE then = "resolve" /\ StopAtOnce
      <3>1. /\ rows' = Settled(LiveRun, "stopped") /\ stopping' = stopping
            /\ session' = 0 /\ runId' = 0 /\ procs' = Killed(procs, {session})
        BY <2>3, Zenon DEF StopAtOnce
      <3>2. LiveRuns' = {}
        BY <2>2, <3>1, SMT
      <3> QED
        BY <1>3, <2>3, <3>1, <3>2, Zenon
    <2>4. CASE then = "stop" /\ StopTurn
      <3>1. rows' = Settled(LiveRun, "stopping") /\ session' = session /\ runId' = 0
        BY <2>4, Zenon DEF StopTurn
      <3>2. rows'[LiveRun].status = "stopping" /\ LiveRuns' \subseteq {LiveRun}
        BY <2>2, <3>1, SMT
      <3>3. CASE session # 0
        <4>1. /\ stopping' = [run |-> LiveRun, told |-> session, fresh |-> FALSE]
              /\ procs' = Told(procs, session)
          BY <2>4, <3>3, Zenon DEF StopTurn
        <4>2. stopping'.run = LiveRun /\ stopping'.told = session
          BY <4>1
        <4> QED
          BY <1>3, <2>1, <2>4, <3>1, <3>2, <3>3, <4>1, <4>2, Zenon
      <3>4. CASE session = 0
        <4>1. /\ stopping' = [run |-> LiveRun, told |-> NewSession, fresh |-> TRUE]
              /\ procs' = [procs EXCEPT ![NewSession] = [state |-> "busy", run |-> 0]]
              /\ FreeSessions # {}
          BY <2>4, <3>4, Zenon DEF StopTurn
        <4>2. stopping'.run = LiveRun /\ stopping'.told = NewSession /\ stopping'.fresh
          BY <4>1
        <4>3. NewSession \in Sessions
          BY <4>1, NewSessionFound, Zenon
        <4> QED
          BY <1>3, <2>1, <2>4, <3>1, <3>2, <3>4, <4>1, <4>2, <4>3, Zenon
      <3> QED
        BY <3>3, <3>4
    <2> QED
      BY <1>3, <2>3, <2>4, Zenon DEF StopNow
  <1> QED
    BY <1>1, <1>2, <1>3

(* What the end of a stop leaves behind: nothing live, held or claimed.    *)
LEMMA StopOverDoes ==
  ASSUME AInv, NEW ps, StopOver(ps), stopping.run # 0
  PROVE  /\ session' = 0 /\ runId' = 0 /\ LiveRuns' = {}
         /\ stopping'.run = 0 /\ stopping'.told = 0
         /\ procs' = Killed(ps, {session} \cup (IF stopping.fresh THEN {stopping.told} ELSE {}))
         /\ \A c \in Calls :
              /\ calls[c].pc # "stop" => calls'[c] = calls[c]
              /\ calls[c].pc = "stop" => calls'[c].pc = "resolve" /\ calls'[c].op = calls[c].op
  <1>t. /\ rows \in [Runs -> RowSet] /\ calls \in [Calls -> CallSet]
        /\ stopping.run \in Runs /\ runId = 0 /\ LiveRuns \subseteq {stopping.run}
    BY SMT DEF AInv, WInv, IInv, RowsPart, CallsPart, HandPart, StopPart
  <1>1. /\ rows' = Settled(stopping.run, "stopped") /\ runId' = Unclaimed(stopping.run)
        /\ session' = 0 /\ stopping' = NoStop
        /\ procs' = Killed(ps, {session} \cup (IF stopping.fresh THEN {stopping.told} ELSE {}))
        /\ calls' = [c \in Calls |-> IF calls[c].pc = "stop" THEN [calls[c] EXCEPT !.pc = "resolve"]
                                                            ELSE calls[c]]
    BY Zenon DEF StopOver
  <1>2. LiveRuns' = {}
    <2>1. stopping.run \in Runs /\ rows \in [Runs -> RowSet] /\ "stopped" \in Statuses
      BY <1>t, SMT DEF Statuses
    <2>a. rows' = Settled(stopping.run, "stopped")
      BY <1>1
    <2>2. /\ rows'[stopping.run].status = "stopped"
          /\ \A q \in Runs \ {stopping.run} : rows'[q] = rows[q]
      BY <2>1, <2>a, SettledRows, Zenon
    <2> QED
      BY <1>t, <2>2, SMT DEF LiveRuns, LiveStatus
  <1>3. runId' = 0 /\ stopping'.run = 0 /\ stopping'.told = 0
    BY <1>t, <1>1, SMT DEF Unclaimed, NoStop
  <1>4. ASSUME NEW c \in Calls
        PROVE  /\ calls[c].pc # "stop" => calls'[c] = calls[c]
               /\ calls[c].pc = "stop" => calls'[c].pc = "resolve" /\ calls'[c].op = calls[c].op
    BY <1>t, <1>1, SMT DEF CallSet
  <1> QED
    BY <1>1, <1>2, <1>3, <1>4, Zenon

(* What a session says is a turn's end or its exit: a stop it was told     *)
(* goes on, or it is noted and nothing new is held, claimed or told.       *)
LEMMA SessionSays ==
  ASSUME AInv, NEW p \in Sessions, TurnEnds(p) \/ SessionExits(p)
  PROVE  \/ /\ stopping.run # 0
            /\ \E ps \in [Sessions -> ProcSet] :
                 /\ StopOver(ps)
                 /\ \A q \in Sessions : ps[q].state \in {"busy", "idle"} =>
                      procs[q].state \in {"busy", "idle"}
         \/ /\ stopping.told # p /\ UNCHANGED <<session, stopping, calls>>
            /\ runId' \in {0, runId}
            /\ \A q \in Sessions \ {p} : procs'[q] = procs[q]
            /\ procs'[p].state \in {"busy", "idle"} => procs[p].state \in {"busy", "idle"}
            /\ runId' # 0 /\ procs[p].run = runId =>
                 ~inFlight' /\ procs'[p].run = runId /\ procs'[p].state # "gone"
            /\ inFlight' => inFlight
  <1>t. /\ IInv /\ procs \in [Sessions -> ProcSet]
    BY Zenon DEF AInv, WInv, IInv, HandPart
  <1>s. stopping.told = p => stopping.run # 0
    BY BoundsAssumption, SMT DEF Sessions, AInv, WInv, IInv, HandPart
  <1>1. CASE TurnEnds(p)
    <2>1. PICK after \in {"idle", "closing"} :
            IF stopping.told = p THEN StopOver([procs EXCEPT ![p].state = after])
            ELSE /\ procs' = [procs EXCEPT ![p].state = after]
                 /\ IF Claims(p) THEN rows' = Settled(runId, "running") /\ inFlight' = FALSE
                                 ELSE UNCHANGED <<rows, inFlight>>
                 /\ UNCHANGED <<runId, session, stopping, calls>>
      BY <1>1, Zenon DEF TurnEnds
    <2> DEFINE ps == [procs EXCEPT ![p].state = after]
    <2>2. ps \in [Sessions -> ProcSet]
      <3>1. after \in {"gone", "busy", "idle", "closing"}
        BY SMT
      <3> QED
        BY <1>t, <3>1, ProcsKept, Zenon
    <2>3. /\ \A q \in Sessions \ {p} : ps[q] = procs[q]
          /\ ps[p].state = after /\ ps[p].run = procs[p].run
      BY <1>t, SMT DEF ProcSet
    <2>4. procs[p].state = "busy"
      BY <1>1, Zenon DEF TurnEnds
    <2>5. after # "gone" /\ \A q \in Sessions : ps[q].state \in {"busy", "idle"} =>
            procs[q].state \in {"busy", "idle"}
      BY <2>3, <2>4, SMT
    <2> HIDE DEF ps
    <2>6. CASE stopping.told = p
      BY <1>s, <2>1, <2>2, <2>5, <2>6, Zenon DEF ps
    <2>7. CASE stopping.told # p
      <3>1. procs' = ps /\ UNCHANGED <<runId, session, stopping, calls>>
        BY <2>1, <2>7, Zenon DEF ps
      <3>2. inFlight' => inFlight
        BY <2>1, <2>7, Zenon
      <3>3. runId' # 0 /\ procs[p].run = runId => ~inFlight'
        BY <2>1, <2>7, <3>1, Zenon DEF Claims
      <3> QED
        BY <2>3, <2>5, <2>7, <3>1, <3>2, <3>3, Zenon
    <2> QED
      BY <2>6, <2>7
  <1>2. CASE SessionExits(p)
    <2> DEFINE ps == [procs EXCEPT ![p] = NoProc]
    <2>1. IF stopping.told = p THEN StopOver(ps)
          ELSE /\ procs' = ps
               /\ IF ExitFails(p)
                    THEN rows' = Settled(runId, "failed") /\ inFlight' = FALSE /\ runId' = 0
                    ELSE UNCHANGED <<rows, inFlight, runId>>
               /\ UNCHANGED <<session, stopping, calls>>
      BY <1>2, Zenon DEF SessionExits
    <2>2. ps \in [Sessions -> ProcSet]
      <3>1. NoProc \in ProcSet
        BY SMT DEF NoProc, ProcSet
      <3> QED
        BY <1>t, <3>1, ProcsKept, Zenon
    <2>3. /\ \A q \in Sessions \ {p} : ps[q] = procs[q]
          /\ ps[p].state \notin {"busy", "idle"}
      BY <1>t, SMT DEF NoProc
    <2>4. \A q \in Sessions : ps[q].state \in {"busy", "idle"} => procs[q].state \in {"busy", "idle"}
      BY <2>3, SMT
    <2> HIDE DEF ps
    <2>5. CASE stopping.told = p
      BY <1>s, <2>1, <2>2, <2>4, <2>5, Zenon
    <2>6. CASE stopping.told # p
      <3>1. procs' = ps /\ UNCHANGED <<session, stopping, calls>>
        BY <2>1, <2>6, Zenon
      <3>2. (inFlight' => inFlight) /\ runId' \in {0, runId}
        BY <2>1, <2>6, Zenon
      <3>3. ~(runId' # 0 /\ procs[p].run = runId)
        <4>1. SUFFICES ASSUME runId' # 0, procs[p].run = runId PROVE FALSE
          OBVIOUS
        <4>2. ~ExitFails(p) /\ runId # 0
          BY <2>1, <2>6, <4>1, Zenon
        <4>3. runId \in LiveRuns
          BY <1>t, <4>2, SMT DEF IInv, RowsPart, ClaimIsLive, LiveRuns, LiveStatus
        <4>4. LiveRun \in LiveRuns /\ OneLiveRun
          BY <1>t, <4>3, LiveRunFound, Zenon DEF IInv, RowsPart
        <4>5. LiveRun = runId
          BY <4>3, <4>4, Zenon DEF OneLiveRun
        <4> QED
          BY <4>1, <4>2, <4>5, Zenon DEF ExitFails, Claims
      <3> QED
        BY <2>3, <2>4, <2>6, <3>1, <3>2, <3>3, Zenon
    <2> QED
      BY <2>5, <2>6
  <1> QED
    BY <1>1, <1>2

-----------------------------------------------------------------------------
(* A step that leaves the stop under way alone, claims nothing and lets    *)
(* nobody start to listen keeps what a stop relies on.                     *)
LEMMA StopKept ==
  ASSUME AInv, OnlyEnds, RowsGoOn, stopping' = stopping, runId' \in {0, runId},
         stopping.run # 0 /\ stopping.told # 0 /\ procs'[stopping.told].state \in {"busy", "idle"} =>
           procs[stopping.told].state \in {"busy", "idle"} /\ session' = session
  PROVE  StopPart'
  <1> SUFFICES ASSUME stopping.run # 0
               PROVE  /\ runId' = 0
                      /\ LiveRuns' \subseteq {stopping.run}
                      /\ rows'[stopping.run].status \notin {"starting", "running"}
                      /\ stopping.told # 0 /\ ~stopping.fresh
                           /\ procs'[stopping.told].state \in {"busy", "idle"}
                         => stopping.told = session'
    BY Zenon DEF StopPart
  <1>1. /\ runId = 0 /\ LiveRuns \subseteq {stopping.run} /\ stopping.run \in Runs
        /\ rows[stopping.run].status \notin {"starting", "running"}
        /\ stopping.told # 0 /\ ~stopping.fresh /\ procs[stopping.told].state \in {"busy", "idle"}
             => stopping.told = session
    BY SMT DEF AInv, StopPart, WInv, IInv, HandPart
  <1>2. /\ LiveRuns' \subseteq LiveRuns
        /\ rows'[stopping.run].status \notin {"starting", "running"}
    BY <1>1, LiveWasLive, Zenon DEF AInv, WInv
  <1>3. runId' = 0 /\ LiveRuns' \subseteq {stopping.run}
    BY <1>1, <1>2, SMT
  <1> QED
    BY <1>1, <1>2, <1>3, Zenon

(* What telling, killing and starting do to who listens. *)
LEMMA WhoListens ==
  ASSUME NEW ps \in [Sessions -> ProcSet]
  PROVE  /\ \A d, p \in Sessions : Told(ps, d)[p].state \in {"busy", "idle"} =>
              ps[p].state \in {"busy", "idle"}
         /\ \A d : \A p \in Sessions : Killed(ps, d)[p].state \in {"busy", "idle"} =>
              ps[p].state \in {"busy", "idle"} /\ p \notin d
         /\ \A p \in Sessions : ps[p].state # "gone" =>
              Told(ps, p)[p].state \notin {"gone", "idle"}
  BY SMT DEF Told, Killed, ProcSet

(* A call past its checkout finds no stop that it could disturb. *)
LEMMA LandStops ==
  ASSUME AInv, NEW c \in Calls, Land(c), stopping.run # 0
  PROVE  UNCHANGED <<rows, procs, inFlight>>
  BY Zenon DEF Land, StillRuns

(* A refresh that lands rewrites the commit of the run it is of and no     *)
(* status.                                                                 *)
LEMMA LandDoes ==
  ASSUME IInv, NEW c \in Calls, Land(c)
  PROVE  \A r \in Runs : /\ rows'[r].status = rows[r].status
                         /\ ~(StillRuns(c) /\ r = calls[c].run) => rows'[r].commit = rows[r].commit
                         /\ StillRuns(c) /\ r = calls[c].run => rows'[r].commit = calls[c].next
  <1> DEFINE k == calls[c].run
  <1>1. rows \in [Runs -> RowSet]
    BY DEF IInv, RowsPart
  <1>2. CASE StillRuns(c)
    <2>1. rows' = [rows EXCEPT ![k].commit = calls[c].next,
                               ![k].status = IF session = 0 THEN "running" ELSE @]
      BY <1>2, Zenon DEF Land
    <2>2. rows[k].status = "running"
      BY <1>2 DEF StillRuns
    <2> QED
      BY <1>1, <1>2, <2>1, <2>2, SMT DEF RowSet
  <1>3. CASE ~StillRuns(c)
    BY <1>3, Zenon DEF Land
  <1> QED
    BY <1>2, <1>3

LEMMA StopNext == AInv /\ Calm /\ OnlyEnds /\ [Next]_vars => StopPart'
  <1> SUFFICES ASSUME AInv, Calm, OnlyEnds, [Next]_vars PROVE StopPart'
    OBVIOUS
  <1>t. /\ IInv /\ procs \in [Sessions -> ProcSet] /\ stopping.told \in {0} \cup Sessions
        /\ session \in {0} \cup Sessions /\ (stopping.told # 0 => stopping.run # 0)
    BY SMT DEF AInv, WInv, IInv, HandPart
  <1>n. ASSUME NEW then, StopNow(then)
        PROVE  StopPart'
    <2>g. RowsGoOn
      BY <1>t, <1>n, StopNowGoesOn, Zenon
    <2>1. CASE UNCHANGED <<rows, runner>>
      BY <2>1, <2>g, StopKept, Zenon DEF runner
    <2>2. CASE stopping.run = 0 /\ stopping' = stopping
      BY <2>2, Zenon DEF StopPart
    <2>3. CASE /\ session' = session /\ runId' = 0
               /\ LiveRuns' \subseteq {stopping'.run}
               /\ rows'[stopping'.run].status = "stopping"
               /\ stopping'.told = session \/ stopping'.fresh
      BY <2>3, SMT DEF StopPart
    <2> QED
      BY <1>n, <2>1, <2>2, <2>3, StopNowDoes, Zenon
  <1>o. ASSUME NEW ps, StopOver(ps), stopping.run # 0
        PROVE  StopPart'
    BY <1>o, StopOverDoes, Zenon DEF StopPart
  <1>1. CASE StopAsked \/ StopTimesOut \/ \E c \in Calls, ref \in Refs : StartAsked(c, ref)
    BY <1>1, <1>n, <1>o, Zenon DEF StopAsked, StopTimesOut, StartAsked
  <1>2. ASSUME RowsGoOn, UNCHANGED <<stopping, runId, procs, session>>
        PROVE  StopPart'
    BY <1>2, StopKept, Zenon
  <1>3. CASE \/ Boot \/ UNCHANGED vars \/ \E ref \in Refs : Push(ref)
             \/ \E c \in Calls : RefreshAsked(c) \/ Look(c) \/ Resolve(c) \/ Reset(c) \/ GitFails(c)
    <2>1. UNCHANGED <<rows, stopping, runId, procs, session>>
      BY <1>3, Zenon DEF Boot, Push, RefreshAsked, Look, Resolve, Reset, GitFails, runner, vars
    <2>2. RowsGoOn
      BY <2>1, SMT DEF RowsGoOn
    <2> QED
      BY <1>2, <2>1, <2>2, Zenon
  <1>4. ASSUME NEW c \in Calls, Begin(c)
        PROVE  StopPart'
    <2>1. stopping' = stopping /\ calls[c].op = "start" /\ calls[c].pc \in PastStop
      BY <1>4, SMT DEF Begin, PastStop
    <2>2. stopping.run = 0
      BY <2>1, Zenon DEF AInv, SwapPart
    <2> QED
      BY <2>1, <2>2, Zenon DEF StopPart
  <1>5. ASSUME NEW c \in Calls, Land(c)
        PROVE  StopPart'
    <2>1. UNCHANGED <<stopping, runId, session>>
      BY <1>5, Zenon DEF Land
    <2>2. CASE stopping.run = 0
      BY <2>1, <2>2, Zenon DEF StopPart
    <2>3. CASE stopping.run # 0
      <3>1. rows' = rows /\ procs' = procs
        BY <1>5, <2>3, LandStops, Zenon
      <3>2. RowsGoOn
        BY <3>1, SMT DEF RowsGoOn
      <3> QED
        BY <1>2, <2>1, <3>1, <3>2, Zenon
    <2> QED
      BY <2>2, <2>3
  <1>6. CASE Send \/ ResumeInterrupted
    <2>1. stopping.run = 0 /\ stopping' = stopping
      BY <1>6, SMT DEF Send, ResumeInterrupted, runner, AInv, AsleepPart
    <2> QED
      BY <2>1, Zenon DEF StopPart
  <1>7. ASSUME NEW p \in Sessions, TurnEnds(p) \/ SessionExits(p)
        PROVE  StopPart'
    <2>g. RowsGoOn
      BY <1>t, <1>7, SessionGoesOn, Zenon
    <2>1. CASE stopping.run # 0 /\ \E ps : StopOver(ps)
      BY <2>1, <1>o, Zenon
    <2>2. CASE /\ stopping.told # p /\ UNCHANGED <<session, stopping>>
               /\ runId' \in {0, runId}
               /\ \A q \in Sessions \ {p} : procs'[q] = procs[q]
      <3>1. stopping.told # 0 => procs'[stopping.told] = procs[stopping.told]
        BY <1>t, <2>2, SMT
      <3> QED
        BY <2>g, <2>2, <3>1, StopKept, Zenon
    <2> QED
      BY <1>7, <2>1, <2>2, SessionSays, Zenon
  <1>8. CASE StopFast
    <2>g. RowsGoOn
      BY <1>t, <1>8, StopFastGoesOn, Zenon
    <2>1. stopping' = stopping /\ runId' = 0 /\ session' = 0 /\ procs' = Killed(procs, {session})
      BY <1>8, Zenon DEF StopFast
    <2>2. CASE stopping.run = 0
      BY <2>1, <2>2, Zenon DEF StopPart
    <2>3. CASE stopping.run # 0 /\ (stopping.told = 0 \/ procs'[stopping.told].state \notin {"busy", "idle"})
      BY <2>g, <2>1, <2>3, StopKept, Zenon
    <2>4. CASE stopping.run # 0 /\ stopping.told # 0 /\ procs'[stopping.told].state \in {"busy", "idle"}
      <3>1. procs[stopping.told].state \in {"busy", "idle"} /\ stopping.told # session
        BY <1>t, <2>1, <2>4, WhoListens, SMT
      <3>2. stopping.fresh
        BY <2>4, <3>1, Zenon DEF AInv, StopPart
      <3>3. /\ runId' = 0 /\ LiveRuns' \subseteq {stopping'.run}
            /\ rows'[stopping'.run].status \notin {"starting", "running"}
        <4>1. /\ LiveRuns \subseteq {stopping.run} /\ stopping.run \in Runs
              /\ rows[stopping.run].status \notin {"starting", "running"}
          BY <2>4, SMT DEF AInv, StopPart, WInv, IInv, HandPart
        <4>2. /\ LiveRuns' \subseteq LiveRuns
              /\ rows'[stopping.run].status \notin {"starting", "running"}
          BY <1>t, <2>g, <4>1, LiveWasLive, Zenon
        <4> QED
          BY <2>1, <4>1, <4>2, SMT
      <3> QED
        BY <2>1, <3>2, <3>3, Zenon DEF StopPart
    <2> QED
      BY <2>2, <2>3, <2>4
  <1>9. CASE Dies
    BY <1>9, SMT DEF Dies, NoStop, StopPart
  <1> QED
    BY <1>1, <1>3, <1>4, <1>5, <1>6, <1>7, <1>8, <1>9, Zenon DEF Next, CallGoesOn

-----------------------------------------------------------------------------
(* A call that ended, or a step during which nothing goes live and the     *)
(* stage stays as empty, keeps the calls where they may be.                *)
LEMMA SwapKept ==
  ASSUME SwapPart, calls' = calls,
         \/ LiveRuns' \subseteq LiveRuns /\ session' \in {0, session} /\ stopping'.run \in {0, stopping.run}
         \/ LiveRuns # {}
  PROVE  SwapPart'
  BY SMT DEF SwapPart

LEMMA NoCallsSwap ==
  ASSUME \A c \in Calls : calls'[c].pc = "idle"
  PROVE  SwapPart'
  BY SMT DEF SwapPart, PastStop

(* One call's move, when there is one call. *)
LEMMA SwapMoves ==
  ASSUME OneCallOnly, IInv, NEW c \in Calls, NEW x, calls' = [calls EXCEPT ![c] = x],
         x.pc = "stop" => x.op = "start",
         x.pc = "look" => x.op = "refresh",
         x.pc \in PastStop => x.op \in {"start", "refresh"},
         x.op = "start" /\ x.pc \in PastStop => LiveRuns' = {} /\ session' = 0 /\ stopping'.run = 0
  PROVE  SwapPart'
  <1>1. calls \in [Calls -> CallSet]
    BY DEF IInv, CallsPart
  <1>2. \A d \in Calls : calls'[d] = x
    BY <1>1, Zenon DEF OneCallOnly
  <1> QED
    BY <1>2, Zenon DEF SwapPart

LEMMA CallsTyped == IInv => calls \in [Calls -> CallSet]
  BY DEF IInv, CallsPart

LEMMA SwapNext == AInv /\ Calm /\ OnlyEnds /\ [Next]_vars => SwapPart'
  <1> SUFFICES ASSUME AInv, Calm, OnlyEnds, [Next]_vars PROVE SwapPart'
    OBVIOUS
  <1>t. /\ IInv /\ SwapPart /\ OneCallOnly /\ calls \in [Calls -> CallSet]
        /\ \A c \in Calls : calls[c] \in CallSet
    BY CallsTyped, Zenon DEF AInv, WInv, Calm
  <1>r. ASSUME rows' = rows PROVE LiveRuns' \subseteq LiveRuns
    BY <1>r, SMT DEF LiveRuns
  <1>n. ASSUME NEW then, StopNow(then)
        PROVE  \/ LiveRuns' = LiveRuns /\ session' = session /\ stopping'.run = stopping.run /\ then = "stop"
               \/ LiveRuns' = {} /\ session' = 0 /\ stopping'.run = 0 /\ stopping.run = 0 /\ then = "resolve"
               \/ LiveRuns # {} /\ then = "stop"
    <2>1. ASSUME UNCHANGED <<rows, runner>>
          PROVE  LiveRuns' = LiveRuns /\ session' = session /\ stopping'.run = stopping.run
      BY <2>1, SMT DEF LiveRuns, runner
    <2> QED
      BY <1>n, <2>1, StopNowDoes, Zenon
  <1>o. ASSUME NEW ps, StopOver(ps), stopping.run # 0
        PROVE  SwapPart'
    <2>1. /\ session' = 0 /\ LiveRuns' = {} /\ stopping'.run = 0
          /\ \A c \in Calls :
               /\ calls[c].pc # "stop" => calls'[c] = calls[c]
               /\ calls[c].pc = "stop" => calls'[c].pc = "resolve" /\ calls'[c].op = calls[c].op
      BY <1>o, StopOverDoes, Zenon
    <2> QED
      BY <1>t, <2>1, SMT DEF SwapPart
  <1>1. CASE StopAsked
    <2>1. PICK then \in {"stop", "resolve"} : StopNow(then)
      BY <1>1, Zenon DEF StopAsked
    <2>2. calls' = calls
      BY <1>1, Zenon DEF StopAsked
    <2> QED
      BY <1>n, <1>t, <2>1, <2>2, SwapKept, SMT
  <1>2. CASE StopTimesOut
    BY <1>2, <1>o, Zenon DEF StopTimesOut
  <1>3. ASSUME NEW c \in Calls, NEW ref \in Refs, StartAsked(c, ref)
        PROVE  SwapPart'
    <2>1. PICK then \in {"stop", "resolve"} :
            /\ StopNow(then)
            /\ calls' = [calls EXCEPT ![c] = [Idle EXCEPT !.pc = then, !.op = "start", !.ref = ref]]
      BY <1>3, Zenon DEF StartAsked
    <2> DEFINE x == [Idle EXCEPT !.pc = then, !.op = "start", !.ref = ref]
    <2>2. x.pc = then /\ x.op = "start"
      BY SMT DEF Idle
    <2>3. calls' = [calls EXCEPT ![c] = x]
      BY <2>1
    <2> HIDE DEF x
    <2>4. then = "resolve" => LiveRuns' = {} /\ session' = 0 /\ stopping'.run = 0
      BY <1>n, <2>1, SMT
    <2>5. /\ x.pc = "stop" => x.op = "start"
          /\ x.pc = "look" => x.op = "refresh"
          /\ x.pc \in PastStop => x.op \in {"start", "refresh"}
          /\ x.op = "start" /\ x.pc \in PastStop => LiveRuns' = {} /\ session' = 0 /\ stopping'.run = 0
      BY <2>1, <2>2, <2>4, SMT DEF PastStop
    <2> QED
      BY <1>t, <2>3, <2>5, SwapMoves, Zenon
  <1>4. ASSUME NEW c \in Calls, RefreshAsked(c)
        PROVE  SwapPart'
    <2> DEFINE x == [Idle EXCEPT !.pc = "look", !.op = "refresh", !.ref = rows[LiveRun].ref,
                                 !.run = LiveRun, !.next = rows[LiveRun].commit]
    <2>1. calls' = [calls EXCEPT ![c] = x]
      BY <1>4, Zenon DEF RefreshAsked
    <2>2. x.pc = "look" /\ x.op = "refresh"
      BY SMT DEF Idle
    <2> HIDE DEF x
    <2>3. /\ x.pc = "stop" => x.op = "start"
          /\ x.pc = "look" => x.op = "refresh"
          /\ x.pc \in PastStop => x.op \in {"start", "refresh"}
          /\ x.op = "start" /\ x.pc \in PastStop => LiveRuns' = {} /\ session' = 0 /\ stopping'.run = 0
      BY <2>2, SMT DEF PastStop
    <2> QED
      BY <1>t, <2>1, <2>3, SwapMoves, Zenon
  <1>i. ASSUME NEW c \in Calls, calls' = [calls EXCEPT ![c] = Idle]
        PROVE  SwapPart'
    <2>1. Idle.pc = "idle"
      BY DEF Idle
    <2>2. \A d \in Calls : calls'[d].pc = "idle"
      BY <1>t, <1>i, <2>1, Zenon DEF OneCallOnly
    <2> QED
      BY <2>2, NoCallsSwap, Zenon
  <1>5. ASSUME NEW c \in Calls, Look(c)
        PROVE  SwapPart'
    <2> DEFINE x == [calls[c] EXCEPT !.pc = "resolve", !.next = Tip(calls[c].ref)]
    <2>1. calls[c].pc = "look" /\ (calls' = [calls EXCEPT ![c] = Idle] \/ calls' = [calls EXCEPT ![c] = x])
      BY <1>5, Zenon DEF Look
    <2>2. calls[c].op = "refresh"
      BY <1>t, <2>1, Zenon DEF SwapPart
    <2>3. x.pc = "resolve" /\ x.op = "refresh"
      BY <1>t, <2>2, SMT DEF CallSet
    <2> HIDE DEF x
    <2>4. /\ x.pc = "stop" => x.op = "start"
          /\ x.pc = "look" => x.op = "refresh"
          /\ x.pc \in PastStop => x.op \in {"start", "refresh"}
          /\ x.op = "start" /\ x.pc \in PastStop => LiveRuns' = {} /\ session' = 0 /\ stopping'.run = 0
      BY <2>3, SMT DEF PastStop
    <2> QED
      BY <1>i, <1>t, <2>1, <2>4, SwapMoves, Zenon
  <1>6. ASSUME NEW c \in Calls, Resolve(c) \/ Reset(c)
        PROVE  SwapPart'
    <2> DEFINE u == [calls[c] EXCEPT !.pc = "reset", !.target = Tip(calls[c].ref)]
               v == [calls[c] EXCEPT !.pc = "ready"]
    <2>1. /\ \/ calls' = [calls EXCEPT ![c] = u]
             \/ calls' = [calls EXCEPT ![c] = v]
          /\ calls[c].pc \in PastStop /\ UNCHANGED <<rows, session, stopping>>
      <3>1. calls[c].pc \in {"resolve", "reset"} /\ UNCHANGED <<rows, session, stopping>>
        BY <1>6, SMT DEF Resolve, Reset, runner
      <3>2. \/ calls' = [calls EXCEPT ![c] = u]
            \/ calls' = [calls EXCEPT ![c].pc = "ready"]
        BY <1>6, Zenon DEF Resolve, Reset
      <3>3. [calls EXCEPT ![c].pc = "ready"] = [calls EXCEPT ![c] = v]
        BY <1>t, SMT
      <3> QED
        BY <3>1, <3>2, <3>3, SMT DEF PastStop
    <2>2. \A x \in {u, v} : x.pc \in {"reset", "ready"} /\ x.op = calls[c].op
      <3>1. calls[c] \in CallSet
        BY <1>t
      <3>2. u.pc = "reset" /\ u.op = calls[c].op
        BY <3>1, SMT DEF CallSet
      <3>3. v.pc = "ready" /\ v.op = calls[c].op
        BY <3>1, SMT DEF CallSet
      <3> HIDE DEF u, v
      <3> QED
        BY <3>2, <3>3, SMT
    <2>3. LiveRuns' = LiveRuns
      BY <2>1, SMT DEF LiveRuns
    <2> HIDE DEF u, v
    <2>4. /\ calls[c].op \in {"start", "refresh"}
          /\ calls[c].op = "start" => LiveRuns' = {} /\ session' = 0 /\ stopping'.run = 0
      BY <1>t, <2>1, <2>3, SMT DEF SwapPart
    <2>5. \A x \in {u, v} :
            /\ x.pc = "stop" => x.op = "start"
            /\ x.pc = "look" => x.op = "refresh"
            /\ x.pc \in PastStop => x.op \in {"start", "refresh"}
            /\ x.op = "start" /\ x.pc \in PastStop => LiveRuns' = {} /\ session' = 0 /\ stopping'.run = 0
      BY <2>2, <2>4, SMT
    <2> QED
      BY <1>t, <2>1, <2>5, SwapMoves, Zenon
  <1>7. ASSUME NEW c \in Calls, GitFails(c) \/ Begin(c) \/ Land(c)
        PROVE  SwapPart'
    BY <1>7, <1>i, Zenon DEF GitFails, Begin, Land
  <1>8. ASSUME NEW p \in Sessions, TurnEnds(p) \/ SessionExits(p)
        PROVE  SwapPart'
    <2>1. CASE stopping.run # 0 /\ \E ps : StopOver(ps)
      BY <2>1, <1>o, Zenon
    <2>2. CASE UNCHANGED <<session, stopping, calls>>
      <3>1. LiveRuns' \subseteq LiveRuns
        BY <1>t, <1>8, SessionGoesOn, LiveWasLive, Zenon
      <3> QED
        BY <1>t, <2>2, <3>1, SwapKept, SMT
    <2> QED
      BY <1>8, <2>1, <2>2, SessionSays, Zenon
  <1>9. CASE StopFast
    <2>1. LiveRuns' \subseteq LiveRuns
      BY <1>t, <1>9, StopFastGoesOn, LiveWasLive, Zenon
    <2>2. calls' = calls /\ session' = 0 /\ stopping' = stopping
      BY <1>9, Zenon DEF StopFast
    <2> QED
      BY <1>t, <2>1, <2>2, SwapKept, SMT
  <1>10. CASE Dies
    <2>1. \A c \in Calls : calls'[c].pc = "idle"
      BY <1>10, SMT DEF Dies, Idle
    <2> QED
      BY <2>1, NoCallsSwap, Zenon
  <1>11. CASE ResumeInterrupted
    <2>1. \A c \in Calls : calls'[c].pc = "idle"
      BY <1>11, SMT DEF ResumeInterrupted, AInv, AsleepPart
    <2> QED
      BY <2>1, NoCallsSwap, Zenon
  <1>12. CASE Send \/ Boot \/ UNCHANGED vars \/ \E ref \in Refs : Push(ref)
    <2>1. UNCHANGED <<rows, session, stopping, calls>>
      BY <1>12, Zenon DEF Send, Boot, Push, runner, vars
    <2> QED
      BY <1>r, <1>t, <2>1, SwapKept, SMT
  <1> QED
    BY <1>1, <1>2, <1>3, <1>4, <1>5, <1>6, <1>7, <1>8, <1>9, <1>10, <1>11, <1>12,
       Zenon DEF Next, CallGoesOn

-----------------------------------------------------------------------------
(* A step on which no session starts to listen, and none that the runner   *)
(* held or told is let go.                                                 *)
LEMMA StrayKept ==
  ASSUME NoStraySession,
         \A p \in Sessions : procs'[p].state \in {"busy", "idle"} =>
           /\ procs[p].state \in {"busy", "idle"}
           /\ p = session => p \in {session', stopping'.told}
           /\ p = stopping.told => p \in {session', stopping'.told}
  PROVE  NoStraySession'
  BY SMT DEF NoStraySession

(* What telling the session held does. *)
LEMMA ToldHeld ==
  ASSUME AInv, UNCHANGED <<session, stopping, runId>>, session # 0, procs' = Told(procs, session)
  PROVE  HeldPart'
  <1>t. /\ procs \in [Sessions -> ProcSet] /\ session \in Sessions
        /\ NoStraySession
        /\ runId # 0 => procs[session].run = runId /\ procs[session].state # "gone"
    BY SMT DEF AInv, WInv, IInv, HandPart, HeldPart
  <1>1. NoStraySession'
    <2>1. \A p \in Sessions : procs'[p].state \in {"busy", "idle"} => procs[p].state \in {"busy", "idle"}
      BY <1>t, WhoListens, Zenon
    <2> QED
      BY <1>t, <2>1, StrayKept, SMT
  <1>2. procs'[session].run = procs[session].run
    BY <1>t, ProcsGoOn, Zenon
  <1>3. procs[session].state # "gone" => procs'[session].state \notin {"gone", "idle"}
    BY <1>t, WhoListens, Zenon
  <1> QED
    BY <1>t, <1>1, <1>2, <1>3, SMT DEF HeldPart

(* With nothing claimed, who listens is all there is to it. *)
LEMMA NoClaimHeld == runId' = 0 /\ NoStraySession' => HeldPart'
  BY DEF HeldPart

(* A new session takes the stage when no other listens. *)
LEMMA NewSessionHeld ==
  ASSUME AInv, FreeSessions # {}, session = 0, stopping.told = 0,
         session' = NewSession, stopping' = stopping, NEW r,
         \/ runId' = r /\ procs' = [procs EXCEPT ![NewSession] = [state |-> "busy", run |-> r]]
         \/ runId' = 0 /\ procs' = procs
  PROVE  HeldPart'
  <1>t. /\ procs \in [Sessions -> ProcSet] /\ NewSession \in Sessions /\ NewSession # 0
    BY NewSessionFound, BoundsAssumption, SMT DEF AInv, WInv, IInv, HandPart, Sessions
  <1>1. \A p \in Sessions : procs[p].state \notin {"busy", "idle"}
    BY BoundsAssumption, SMT DEF AInv, HeldPart, NoStraySession, Sessions
  <1>2. CASE runId' = r /\ procs' = [procs EXCEPT ![NewSession] = [state |-> "busy", run |-> r]]
    <2>1. /\ procs'[NewSession].state = "busy" /\ procs'[NewSession].run = r
          /\ \A p \in Sessions \ {NewSession} : procs'[p] = procs[p]
      BY <1>t, <1>2, SMT
    <2>2. NoStraySession'
      BY <1>1, <2>1, SMT DEF NoStraySession
    <2> QED
      BY <1>t, <1>2, <2>1, <2>2, SMT DEF HeldPart
  <1>3. CASE runId' = 0 /\ procs' = procs
    <2>1. NoStraySession'
      BY <1>1, <1>3, Zenon DEF NoStraySession
    <2> QED
      BY <1>3, <2>1, NoClaimHeld, Zenon
  <1> QED
    BY <1>2, <1>3

LEMMA HeldNext == AInv /\ Calm /\ [Next]_vars => HeldPart'
  <1> SUFFICES ASSUME AInv, Calm, [Next]_vars PROVE HeldPart'
    OBVIOUS
  <1>t. /\ IInv /\ procs \in [Sessions -> ProcSet]
        /\ session \in {0} \cup Sessions
        /\ stopping.told \in {0} \cup Sessions
        /\ NoStraySession /\ HeldPart
    BY SMT DEF AInv, WInv, IInv, HandPart, HeldPart
  <1>z. /\ \A p \in Sessions : p # 0
        /\ stopping.run = 0 => stopping.told = 0
    BY BoundsAssumption, SMT DEF Sessions, AInv, WInv, IInv, HandPart
  <1>u. ASSUME UNCHANGED <<session, stopping, runId, procs>>, inFlight' => inFlight
        PROVE  HeldPart'
    BY <1>t, <1>u, SMT DEF HeldPart, NoStraySession
  <1>n. ASSUME NEW then, StopNow(then)
        PROVE  HeldPart'
    <2>1. CASE UNCHANGED <<rows, runner>>
      BY <1>u, <2>1, Zenon DEF runner
    <2>2. CASE /\ stopping.run = 0 /\ stopping' = stopping /\ session' = 0 /\ runId' = 0
               /\ procs' = Killed(procs, {session})
      <3>1. \A p \in Sessions : procs'[p].state \in {"busy", "idle"} =>
              procs[p].state \in {"busy", "idle"} /\ p # session
        BY <1>t, <2>2, WhoListens, SMT
      <3>2. \A p \in Sessions : p # stopping.told
        BY <1>z, <2>2, Zenon
      <3>3. NoStraySession'
        <4>1. \A p \in Sessions : procs'[p].state \notin {"busy", "idle"}
          BY <1>t, <3>1, <3>2, SMT DEF NoStraySession
        <4> QED
          BY <4>1, Zenon DEF NoStraySession
      <3> QED
        BY <2>2, <3>3, NoClaimHeld, Zenon
    <2>3. CASE /\ stopping.run = 0 /\ session' = session /\ runId' = 0
               /\ session # 0 /\ stopping'.told = session
               /\ procs' = Told(procs, session)
      <3>1. \A p \in Sessions : procs'[p].state \in {"busy", "idle"} => procs[p].state \in {"busy", "idle"}
        BY <1>t, <2>3, WhoListens, SMT
      <3>2. NoStraySession'
        BY <1>t, <1>z, <2>3, <3>1, StrayKept, SMT
      <3> QED
        BY <2>3, <3>2, NoClaimHeld, Zenon
    <2>4. CASE /\ stopping.run = 0 /\ session' = session /\ runId' = 0
               /\ session = 0 /\ stopping'.told = NewSession /\ NewSession \in Sessions
               /\ procs' = [procs EXCEPT ![NewSession] = [state |-> "busy", run |-> 0]]
      <3>1. \A p \in Sessions \ {NewSession} : procs'[p] = procs[p]
        BY <1>t, <2>4, SMT
      <3>2. NoStraySession'
        BY <1>t, <1>z, <2>4, <3>1, SMT DEF NoStraySession
      <3> QED
        BY <2>4, <3>2, NoClaimHeld, Zenon
    <2> QED
      BY <1>n, <2>1, <2>2, <2>3, <2>4, StopNowDoes, Zenon
  <1>o. ASSUME NEW ps \in [Sessions -> ProcSet], StopOver(ps), stopping.run # 0,
               \A q \in Sessions : ps[q].state \in {"busy", "idle"} => procs[q].state \in {"busy", "idle"}
        PROVE  HeldPart'
    <2> DEFINE dying == {session} \cup (IF stopping.fresh THEN {stopping.told} ELSE {})
    <2>1. runId' = 0 /\ procs' = Killed(ps, dying)
      BY <1>o, StopOverDoes, Zenon
    <2>2. stopping.fresh \in BOOLEAN
      BY <1>t, SMT DEF IInv, HandPart
    <2>3. \A p : p \notin dying => p # session /\ (stopping.fresh => p # stopping.told)
      BY <2>2, SMT
    <2> HIDE DEF dying
    <2>4. \A p \in Sessions : procs'[p].state \in {"busy", "idle"} =>
            ps[p].state \in {"busy", "idle"} /\ p \notin dying
      BY <1>o, <2>1, WhoListens, Zenon
    <2>5. ASSUME NEW p \in Sessions, procs'[p].state \in {"busy", "idle"}
          PROVE  FALSE
      <3>1. procs[p].state \in {"busy", "idle"} /\ p # session /\ (stopping.fresh => p # stopping.told)
        BY <1>o, <2>3, <2>4, <2>5, Zenon
      <3>2. p = stopping.told
        BY <1>t, <3>1, SMT DEF NoStraySession
      <3>3. stopping.told # 0 /\ ~stopping.fresh
        BY <1>z, <3>1, <3>2, Zenon
      <3>4. stopping.told = session
        BY <1>o, <3>1, <3>2, <3>3, Zenon DEF AInv, StopPart
      <3> QED
        BY <3>1, <3>2, <3>4
    <2>6. NoStraySession'
      BY <2>5, Zenon DEF NoStraySession
    <2> QED
      BY <2>1, <2>6, NoClaimHeld, Zenon
  <1>1. CASE StopAsked \/ \E c \in Calls, ref \in Refs : StartAsked(c, ref)
    BY <1>1, <1>n, Zenon DEF StopAsked, StartAsked
  <1>2. CASE StopTimesOut
    BY <1>2, <1>o, <1>t, Zenon DEF StopTimesOut
  <1>3. ASSUME NEW c \in Calls, RefreshAsked(c) \/ Look(c) \/ Resolve(c) \/ Reset(c) \/ GitFails(c)
        PROVE  HeldPart'
    <2>1. UNCHANGED <<session, stopping, runId, procs, inFlight>>
      BY <1>3, Zenon DEF RefreshAsked, Look, Resolve, Reset, GitFails, runner
    <2> QED
      BY <1>u, <2>1, Zenon
  <1>4. ASSUME NEW c \in Calls, Begin(c)
        PROVE  HeldPart'
    <2>1. PICK r \in Runs, starts \in BOOLEAN :
            /\ runId' = IF starts THEN r ELSE 0
            /\ session' = NewSession
            /\ procs' = IF starts THEN [procs EXCEPT ![NewSession] = [state |-> "busy", run |-> r]]
                                  ELSE procs
      BY <1>4, Zenon DEF Begin
    <2>2. FreeSessions # {} /\ stopping' = stopping /\ calls[c].op = "start" /\ calls[c].pc \in PastStop
      BY <1>4, SMT DEF Begin, PastStop
    <2>3. session = 0 /\ stopping.run = 0
      BY <2>2, Zenon DEF AInv, SwapPart
    <2>4. \/ runId' = r /\ procs' = [procs EXCEPT ![NewSession] = [state |-> "busy", run |-> r]]
          \/ runId' = 0 /\ procs' = procs
      BY <2>1, Zenon
    <2> QED
      BY <1>z, <2>1, <2>2, <2>3, <2>4, NewSessionHeld, Zenon
  <1>5. ASSUME NEW c \in Calls, Land(c)
        PROVE  HeldPart'
    <2>1. UNCHANGED <<session, stopping, runId>>
      BY <1>5, Zenon DEF Land
    <2>2. \/ session # 0 /\ procs' = Told(procs, session)
          \/ procs' = procs /\ (inFlight' => inFlight)
      BY <1>5, Zenon DEF Land
    <2> QED
      BY <1>u, <2>1, <2>2, ToldHeld, Zenon
  <1>6. CASE Send
    BY <1>6, ToldHeld, Zenon DEF Send
  <1>7. ASSUME NEW p \in Sessions, TurnEnds(p) \/ SessionExits(p)
        PROVE  HeldPart'
    <2>1. CASE stopping.run # 0 /\ \E ps \in [Sessions -> ProcSet] :
                 /\ StopOver(ps)
                 /\ \A q \in Sessions : ps[q].state \in {"busy", "idle"} =>
                      procs[q].state \in {"busy", "idle"}
      BY <1>o, <2>1, Zenon
    <2>2. CASE /\ UNCHANGED <<session, stopping>>
               /\ runId' \in {0, runId}
               /\ \A q \in Sessions \ {p} : procs'[q] = procs[q]
               /\ procs'[p].state \in {"busy", "idle"} => procs[p].state \in {"busy", "idle"}
               /\ runId' # 0 /\ procs[p].run = runId =>
                    ~inFlight' /\ procs'[p].run = runId /\ procs'[p].state # "gone"
               /\ inFlight' => inFlight
      <3>1. NoStraySession'
        BY <1>t, <2>2, SMT DEF NoStraySession
      <3>2. CASE runId' = 0
        BY <3>1, <3>2, NoClaimHeld, Zenon
      <3>3. CASE runId' # 0
        <4>1. /\ runId' = runId /\ runId # 0
              /\ session # 0 /\ procs[session].run = runId
              /\ procs[session].state # "gone"
              /\ inFlight /\ stopping.run = 0 => procs[session].state # "idle"
          BY <1>t, <2>2, <3>3, Zenon DEF HeldPart
        <4>2. CASE session = p
          <5>1. ~inFlight' /\ procs'[session].run = runId' /\ procs'[session].state # "gone"
            BY <2>2, <3>3, <4>1, <4>2, Zenon
          <5> QED
            BY <2>2, <3>1, <4>1, <5>1, Zenon DEF HeldPart
        <4>3. CASE session # p
          <5>1. procs'[session] = procs[session]
            BY <1>t, <2>2, <4>1, <4>3, SMT
          <5> QED
            BY <2>2, <3>1, <4>1, <5>1, Zenon DEF HeldPart
        <4> QED
          BY <4>2, <4>3
      <3> QED
        BY <3>2, <3>3
    <2> QED
      BY <1>7, <2>1, <2>2, SessionSays, Zenon
  <1>8. CASE StopFast
    <2>1. runId' = 0 /\ session' = 0 /\ stopping' = stopping /\ procs' = Killed(procs, {session})
      BY <1>8, Zenon DEF StopFast
    <2>2. \A p \in Sessions : procs'[p].state \in {"busy", "idle"} =>
            procs[p].state \in {"busy", "idle"} /\ p # session
      BY <1>t, <2>1, WhoListens, SMT
    <2>3. ASSUME NEW p \in Sessions, procs'[p].state \in {"busy", "idle"}
          PROVE  p \in {session', stopping'.told}
      <3>1. procs[p].state \in {"busy", "idle"} /\ p # session
        BY <2>2, <2>3, Zenon
      <3>2. p = stopping.told
        BY <1>t, <3>1, SMT DEF NoStraySession
      <3> QED
        BY <2>1, <3>2, SMT
    <2>4. NoStraySession'
      BY <2>3, Zenon DEF NoStraySession
    <2> QED
      BY <2>1, <2>4, NoClaimHeld, Zenon
  <1>9. CASE Dies
    <2>1. runId' = 0 /\ \A p \in Sessions : procs'[p].state = "gone"
      BY <1>9, SMT DEF Dies, NoProc
    <2>2. NoStraySession'
      BY <2>1, SMT DEF NoStraySession
    <2> QED
      BY <2>1, <2>2, NoClaimHeld, Zenon
  <1>10. CASE ResumeInterrupted
    <2>1. session = 0 /\ stopping.run = 0 /\ runId = 0 /\ stopping' = stopping
      BY <1>10, SMT DEF ResumeInterrupted, runner, AInv, AsleepPart
    <2>2. CASE UNCHANGED <<session, procs>> /\ runId' \in {0, runId}
      <3>1. NoStraySession'
        BY <1>t, <2>1, <2>2, SMT DEF NoStraySession
      <3>2. runId' = 0
        BY <2>1, <2>2, SMT
      <3> QED
        BY <3>1, <3>2, NoClaimHeld, Zenon
    <2>3. CASE /\ FreeSessions # {} /\ session' = NewSession
               /\ \/ /\ runId' = LiveRun
                     /\ procs' = [procs EXCEPT ![NewSession] = [state |-> "busy", run |-> LiveRun]]
                  \/ runId' = 0 /\ procs' = procs
      BY <1>z, <2>1, <2>3, NewSessionHeld, Zenon
    <2> QED
      BY <1>10, <2>2, <2>3, Zenon DEF ResumeInterrupted, runner, Unclaimed
  <1>11. CASE Boot \/ UNCHANGED vars \/ \E ref \in Refs : Push(ref)
    <2>1. UNCHANGED <<session, stopping, runId, procs, inFlight>>
      BY <1>11, Zenon DEF Boot, Push, runner, vars
    <2> QED
      BY <1>u, <2>1, Zenon
  <1> QED
    BY <1>1, <1>2, <1>3, <1>4, <1>5, <1>6, <1>7, <1>8, <1>9, <1>10, <1>11,
       Zenon DEF Next, CallGoesOn

-----------------------------------------------------------------------------
(* A step that moves neither tree nor tips, and no call but into a start's *)
(* first steps, keeps what the calls have read and what is on record.      *)
LEMMA TreeKept ==
  ASSUME AInv, OnlyEnds, RowsGoOn, UNCHANGED <<tree, tips, boots>>,
         \A c \in Calls : \/ calls'[c] = calls[c]
                          \/ /\ calls[c].pc # "ready"
                             /\ calls'[c].pc \notin {"ready", "reset"}
                             /\ calls'[c].op # "refresh"
  PROVE  TreePart' /\ CommitPart'
  <1>1. /\ LiveRuns' \subseteq LiveRuns
        /\ \A r \in Runs : rows'[r].status \in {"starting", "running"} =>
             rows[r].status \in {"starting", "running"}
    BY LiveWasLive, Zenon DEF AInv, WInv
  <1>2. \A r \in LiveRuns : rows'[r].status = "starting" => rows[r].status = "starting"
    BY SMT DEF RowsGoOn, LiveRuns
  <1>3. \A ref : Tip(ref)' = Tip(ref)
    BY Zenon DEF Tip
  <1>4. TreePart'
    <2> SUFFICES ASSUME NEW c \in Calls
                 PROVE  /\ calls'[c].pc = "ready" => tree' = calls'[c].target
                        /\ calls'[c].pc \in {"reset", "ready"} => calls'[c].target = Tip(calls[c].ref)'
                        /\ calls'[c].op = "refresh" /\ calls'[c].pc \in PastStop =>
                             calls'[c].next = Tip(calls[c].ref)'
                        /\ calls'[c].op = "refresh" /\ boots' = 0 =>
                             \A r \in LiveRuns' : r = calls'[c].run /\ rows'[r].status # "starting"
      BY Zenon DEF TreePart, Tip
    <2>1. CASE calls'[c] = calls[c]
      <3>1. /\ calls[c].pc = "ready" => tree = calls[c].target
            /\ calls[c].pc \in {"reset", "ready"} => calls[c].target = Tip(calls[c].ref)
            /\ calls[c].op = "refresh" /\ calls[c].pc \in PastStop => calls[c].next = Tip(calls[c].ref)
            /\ calls[c].op = "refresh" /\ boots = 0 =>
                 \A r \in LiveRuns : r = calls[c].run /\ rows[r].status # "starting"
        BY Zenon DEF AInv, TreePart
      <3> QED
        BY <1>1, <1>2, <2>1, <3>1, SMT DEF Tip
    <2>2. CASE calls'[c].pc \notin {"ready", "reset"} /\ calls'[c].op # "refresh"
      BY <2>2, SMT
    <2> QED
      BY <2>1, <2>2
  <1>5. CommitPart'
    <2> SUFFICES ASSUME boots = 0, NEW r \in Runs, rows'[r].status \in {"starting", "running"}
                 PROVE  \/ tree' \in {rows'[r].commit, None}
                        \/ \E c \in Calls : calls'[c].op = "refresh" /\ calls'[c].pc = "ready"
      BY Zenon DEF CommitPart
    <2>1. /\ rows'[r].commit = rows[r].commit
          /\ rows[r].status \in {"starting", "running"}
      BY <1>1, Zenon DEF RowsGoOn
    <2>2. \/ tree \in {rows[r].commit, None}
          \/ \E c \in Calls : calls[c].op = "refresh" /\ calls[c].pc = "ready"
      BY <2>1, Zenon DEF AInv, CommitPart
    <2> QED
      BY <2>1, <2>2, Zenon
  <1> QED
    BY <1>4, <1>5

(* One call's move, when there is one call. *)
LEMMA TreeMoves ==
  ASSUME OneCallOnly, IInv, NEW c \in Calls, NEW x, calls' = [calls EXCEPT ![c] = x],
         tips' = tips,
         x.pc = "ready" => tree' = x.target,
         x.pc \in {"reset", "ready"} => x.target = Tip(x.ref),
         x.op = "refresh" /\ x.pc \in PastStop => x.next = Tip(x.ref),
         x.op = "refresh" /\ boots' = 0 =>
           \A r \in LiveRuns' : r = x.run /\ rows'[r].status # "starting"
  PROVE  TreePart'
  <1>1. \A d \in Calls : calls'[d] = x
    BY CallsTyped, Zenon DEF OneCallOnly
  <1> QED
    BY <1>1, Zenon DEF TreePart, Tip

LEMMA NoCallsTree ==
  ASSUME \A c \in Calls : calls'[c].pc = "idle" /\ (calls'[c].op = "refresh" => boots' # 0)
  PROVE  TreePart'
  BY SMT DEF TreePart, PastStop

(* The rows stay, and the tree at most fails to be one. *)
LEMMA CommitKept ==
  ASSUME AInv, UNCHANGED <<rows, boots>>, tree' \in {tree, None},
         \A c \in Calls : calls[c].pc = "ready" => calls'[c] = calls[c]
  PROVE  CommitPart'
  BY Zenon DEF AInv, CommitPart

(* What a start that begins, and a refresh that lands, put on record is    *)
(* where the tree stands.                                                  *)
LEMMA BeginRecords ==
  ASSUME AInv, NEW c \in Calls, Begin(c)
  PROVE  CommitPart'
  <1>1. PICK r \in Runs, starts \in BOOLEAN :
          rows' = [s \in Runs |->
                     IF s = r THEN [status |-> IF starts THEN "starting" ELSE "failed",
                                    ref |-> calls[c].ref, commit |-> calls[c].target]
                     ELSE Superseded(s)]
    BY Zenon DEF Begin
  <1>2. \A s \in Runs : rows[s] \in RowSet
    BY SMT DEF AInv, WInv, IInv, RowsPart
  <1>3. /\ rows'[r].commit = calls[c].target
        /\ \A s \in Runs \ {r} : rows'[s].status \notin {"starting", "running"}
    BY <1>1, <1>2, SMT DEF Superseded, LiveRuns, LiveStatus, RowSet
  <1>4. tree' = calls[c].target
    BY Zenon DEF Begin, AInv, TreePart
  <1> QED
    BY <1>3, <1>4, SMT DEF CommitPart

LEMMA LandRecords ==
  ASSUME AInv, NEW c \in Calls, Land(c)
  PROVE  CommitPart'
  <1> SUFFICES ASSUME boots = 0, NEW r \in Runs, rows'[r].status \in {"starting", "running"}
               PROVE  tree \in {rows'[r].commit, None}
    BY Zenon DEF Land, CommitPart
  <1>1. /\ calls[c].pc = "ready" /\ calls[c].op = "refresh" /\ calls[c].pc \in PastStop
    BY SMT DEF Land, PastStop
  <1>2. /\ tree = calls[c].target /\ calls[c].target = calls[c].next
        /\ \A s \in LiveRuns : s = calls[c].run /\ rows[s].status # "starting"
    BY <1>1, SMT DEF AInv, TreePart
  <1>3. r \in LiveRuns /\ rows[r].status \in {"starting", "running"}
    BY LandDoes, SMT DEF AInv, WInv, LiveRuns, LiveStatus
  <1>4. r = calls[c].run /\ rows[r].status = "running"
    BY <1>2, <1>3, Zenon
  <1>5. LiveRun = r
    <2>1. LiveRun \in LiveRuns
      BY <1>3, LiveRunFound, Zenon DEF AInv, WInv, IInv, RowsPart
    <2> QED
      BY <1>2, <1>4, <2>1, Zenon
  <1>6. stopping.run = 0
    <2> SUFFICES ASSUME stopping.run # 0 PROVE FALSE
      OBVIOUS
    <2>1. LiveRuns \subseteq {stopping.run} /\ rows[stopping.run].status \notin {"starting", "running"}
      BY Zenon DEF AInv, StopPart
    <2>2. r = stopping.run
      BY <1>3, <2>1, Zenon
    <2> QED
      BY <1>3, <2>1, <2>2, Zenon
  <1>7. StillRuns(c)
    BY <1>4, <1>5, <1>6, Zenon DEF StillRuns
  <1>8. rows'[r].commit = calls[c].next
    BY <1>4, <1>7, LandDoes, Zenon DEF AInv, WInv
  <1> QED
    BY <1>2, <1>8, SMT

LEMMA RecordNext == AInv /\ Calm /\ OnlyEnds /\ [Next]_vars => TreePart' /\ CommitPart'
  <1> SUFFICES ASSUME AInv, Calm, OnlyEnds, [Next]_vars PROVE TreePart' /\ CommitPart'
    OBVIOUS
  <1>t. /\ IInv /\ TreePart /\ OneCallOnly /\ OneLiveRun
        /\ calls \in [Calls -> CallSet] /\ \A c \in Calls : calls[c] \in CallSet
    BY CallsTyped, Zenon DEF AInv, WInv, Calm, IInv, RowsPart
  <1>u. ASSUME UNCHANGED <<tree, tips, boots>>, RowsGoOn, calls' = calls
        PROVE  TreePart' /\ CommitPart'
    BY <1>u, TreeKept, Zenon
  <1>o. ASSUME NEW ps, StopOver(ps), stopping.run # 0, UNCHANGED <<tree, tips, boots>>
        PROVE  TreePart' /\ CommitPart'
    <2>1. RowsGoOn
      BY <1>t, <1>o, StopOverGoesOn, Zenon
    <2>2. ASSUME NEW c \in Calls
          PROVE  \/ calls'[c] = calls[c]
                 \/ /\ calls[c].pc # "ready"
                    /\ calls'[c].pc \notin {"ready", "reset"}
                    /\ calls'[c].op # "refresh"
      <3>1. /\ calls[c].pc # "stop" => calls'[c] = calls[c]
            /\ calls[c].pc = "stop" => calls'[c].pc = "resolve" /\ calls'[c].op = calls[c].op
        BY <1>o, StopOverDoes, Zenon
      <3>2. calls[c].pc = "stop" => calls[c].op = "start"
        BY Zenon DEF AInv, SwapPart
      <3> QED
        BY <3>1, <3>2, SMT
    <2> QED
      BY <1>o, <2>1, <2>2, TreeKept, Zenon
  <1>1. CASE StopAsked
    BY <1>1, <1>t, <1>u, StopNowGoesOn, Zenon DEF StopAsked
  <1>2. CASE StopTimesOut
    BY <1>2, <1>o, Zenon DEF StopTimesOut
  <1>3. ASSUME NEW c \in Calls, NEW ref \in Refs, StartAsked(c, ref)
        PROVE  TreePart' /\ CommitPart'
    <2>1. PICK then \in {"stop", "resolve"} :
            /\ StopNow(then)
            /\ calls' = [calls EXCEPT ![c] = [Idle EXCEPT !.pc = then, !.op = "start", !.ref = ref]]
      BY <1>3, Zenon DEF StartAsked
    <2>2. UNCHANGED <<tree, tips, boots>> /\ calls[c].pc = "idle"
      BY <1>3, Zenon DEF StartAsked
    <2> DEFINE x == [Idle EXCEPT !.pc = then, !.op = "start", !.ref = ref]
    <2>3. x.pc = then /\ x.op = "start"
      BY SMT DEF Idle
    <2>4. calls' = [calls EXCEPT ![c] = x]
      BY <2>1
    <2> HIDE DEF x
    <2>5. /\ calls'[c].pc \notin {"ready", "reset"} /\ calls'[c].op # "refresh" /\ calls[c].pc # "ready"
          /\ \A d \in Calls \ {c} : calls'[d] = calls[d]
      BY <1>t, <2>2, <2>3, <2>4, SMT
    <2>6. RowsGoOn
      BY <1>t, <2>1, StopNowGoesOn, Zenon
    <2> QED
      BY <2>2, <2>5, <2>6, TreeKept, SMT
  <1>4. ASSUME NEW c \in Calls, RefreshAsked(c)
        PROVE  TreePart' /\ CommitPart'
    <2> DEFINE x == [Idle EXCEPT !.pc = "look", !.op = "refresh", !.ref = rows[LiveRun].ref,
                                 !.run = LiveRun, !.next = rows[LiveRun].commit]
    <2>1. /\ calls' = [calls EXCEPT ![c] = x] /\ UNCHANGED <<rows, tree, tips, boots>>
          /\ calls[c].pc = "idle" /\ LiveRun # 0 /\ rows[LiveRun].status = "running"
      BY <1>4, Zenon DEF RefreshAsked
    <2>2. x.pc = "look" /\ x.op = "refresh" /\ x.run = LiveRun
      BY SMT DEF Idle
    <2> HIDE DEF x
    <2>3. \A r \in LiveRuns' : r = LiveRun /\ rows'[r].status # "starting"
      <3>1. LiveRuns' = LiveRuns /\ LiveRun \in LiveRuns
        BY <1>t, <2>1, LiveRunWritten, SMT DEF LiveRuns
      <3> QED
        BY <1>t, <2>1, <3>1, SMT DEF OneLiveRun
    <2>4. TreePart'
      <3>1. x.pc # "ready" /\ x.pc \notin {"reset", "ready"} /\ x.pc \notin PastStop
        BY <2>2, SMT DEF PastStop
      <3> QED
        BY <1>t, <2>1, <2>2, <2>3, <3>1, TreeMoves, Zenon
    <2>5. \A d \in Calls : calls[d].pc = "ready" => calls'[d] = calls[d]
      BY <1>t, <2>1, SMT
    <2>6. CommitPart'
      BY <2>1, <2>5, CommitKept, Zenon
    <2> QED
      BY <2>4, <2>6
  <1>i. ASSUME NEW c \in Calls, calls' = [calls EXCEPT ![c] = Idle]
        PROVE  TreePart'
    <2>1. Idle.pc = "idle" /\ Idle.op # "refresh"
      BY SMT DEF Idle
    <2>2. \A d \in Calls : calls'[d] = Idle
      BY <1>t, <1>i, Zenon DEF OneCallOnly
    <2> QED
      BY <2>1, <2>2, NoCallsTree, Zenon
  <1>5. ASSUME NEW c \in Calls, Look(c) \/ Resolve(c)
        PROVE  TreePart' /\ CommitPart'
    <2> DEFINE u == [calls[c] EXCEPT !.pc = "resolve", !.next = Tip(calls[c].ref)]
               v == [calls[c] EXCEPT !.pc = "reset", !.target = Tip(calls[c].ref)]
    <2>1. UNCHANGED <<rows, tree, tips, boots>>
      BY <1>5, Zenon DEF Look, Resolve
    <2>2. \/ calls' = [calls EXCEPT ![c] = Idle]
          \/ calls[c].pc = "look" /\ calls' = [calls EXCEPT ![c] = u]
          \/ calls[c].pc = "resolve" /\ calls' = [calls EXCEPT ![c] = v]
      BY <1>5, Zenon DEF Look, Resolve
    <2>3. calls[c].pc \in {"look", "resolve"}
      BY <1>5, Zenon DEF Look, Resolve
    <2>4. CommitPart'
      <3>1. \A d \in Calls : calls[d].pc = "ready" => calls'[d] = calls[d]
        BY <1>t, <2>2, <2>3, SMT
      <3> QED
        BY <2>1, <3>1, CommitKept, Zenon
    <2>5. calls[c] \in CallSet
      BY <1>t
    <2>6. /\ u.pc = "resolve" /\ u.op = calls[c].op /\ u.ref = calls[c].ref /\ u.run = calls[c].run
          /\ u.next = Tip(calls[c].ref)
      BY <2>5, SMT DEF CallSet
    <2>7. /\ v.pc = "reset" /\ v.op = calls[c].op /\ v.ref = calls[c].ref /\ v.run = calls[c].run
          /\ v.target = Tip(calls[c].ref) /\ v.next = calls[c].next
      BY <2>5, SMT DEF CallSet
    <2> HIDE DEF u, v
    <2>8. calls[c].op = "refresh" /\ boots' = 0 =>
            \A r \in LiveRuns' : r = calls[c].run /\ rows'[r].status # "starting"
      <3>1. LiveRuns' = LiveRuns
        BY <2>1, SMT DEF LiveRuns
      <3> QED
        BY <1>t, <2>1, <3>1, Zenon DEF TreePart
    <2>9. CASE calls' = [calls EXCEPT ![c] = u]
      <3>1. u.pc # "ready" /\ u.pc \notin {"reset", "ready"}
        BY <2>6, SMT
      <3> QED
        BY <1>t, <2>1, <2>4, <2>6, <2>8, <2>9, <3>1, TreeMoves, Zenon
    <2>10. CASE calls[c].pc = "resolve" /\ calls' = [calls EXCEPT ![c] = v]
      <3>1. v.pc # "ready" /\ calls[c].pc \in PastStop
        BY <2>7, <2>10, SMT DEF PastStop
      <3>2. calls[c].op = "refresh" => calls[c].next = Tip(calls[c].ref)
        BY <1>t, <3>1, Zenon DEF TreePart
      <3> QED
        BY <1>t, <2>1, <2>4, <2>7, <2>8, <2>10, <3>1, <3>2, TreeMoves, Zenon
    <2> QED
      BY <1>i, <2>2, <2>4, <2>9, <2>10
  <1>6. ASSUME NEW c \in Calls, Reset(c)
        PROVE  TreePart' /\ CommitPart'
    <2> DEFINE x == [calls[c] EXCEPT !.pc = "ready"]
    <2>1. /\ calls[c].pc = "reset" /\ tree' = calls[c].target /\ calls' = [calls EXCEPT ![c].pc = "ready"]
          /\ UNCHANGED <<rows, tips, boots>>
      BY <1>6, Zenon DEF Reset
    <2>2. calls' = [calls EXCEPT ![c] = x]
      BY <1>t, <2>1, SMT
    <2>3. calls[c] \in CallSet /\ calls[c].pc \in PastStop /\ calls[c].pc \in {"reset", "ready"}
      BY <1>t, <2>1, SMT DEF PastStop
    <2>4. /\ x.pc = "ready" /\ x.op = calls[c].op /\ x.ref = calls[c].ref /\ x.run = calls[c].run
          /\ x.target = calls[c].target /\ x.next = calls[c].next
      BY <2>3, SMT DEF CallSet
    <2> HIDE DEF x
    <2>5. LiveRuns' = LiveRuns
      BY <2>1, SMT DEF LiveRuns
    <2>6. /\ calls[c].target = Tip(calls[c].ref)
          /\ calls[c].op = "refresh" => calls[c].next = Tip(calls[c].ref)
          /\ calls[c].op = "refresh" /\ boots' = 0 =>
               \A r \in LiveRuns' : r = calls[c].run /\ rows'[r].status # "starting"
      BY <1>t, <2>1, <2>3, <2>5, Zenon DEF TreePart
    <2>7. TreePart'
      <3>1. /\ x.pc = "ready" => tree' = x.target
            /\ x.pc \in {"reset", "ready"} => x.target = Tip(x.ref)
            /\ x.op = "refresh" /\ x.pc \in PastStop => x.next = Tip(x.ref)
            /\ x.op = "refresh" /\ boots' = 0 =>
                 \A r \in LiveRuns' : r = x.run /\ rows'[r].status # "starting"
        BY <2>1, <2>4, <2>6, Zenon
      <3> QED
        BY <1>t, <2>1, <2>2, <3>1, TreeMoves, Zenon
    <2>8. CommitPart'
      <3>1. CASE calls[c].op = "refresh"
        <4>1. calls'[c].op = "refresh" /\ calls'[c].pc = "ready"
          BY <1>t, <2>2, <2>4, <3>1, SMT
        <4> QED
          BY <4>1, Zenon DEF CommitPart
      <3>2. CASE calls[c].op = "start"
        <4>1. LiveRuns' = {}
          BY <2>3, <2>5, <3>2, Zenon DEF AInv, SwapPart
        <4> QED
          BY <4>1, SMT DEF CommitPart, LiveRuns, LiveStatus
      <3> QED
        BY <2>3, <3>1, <3>2, Zenon DEF AInv, SwapPart
    <2> QED
      BY <2>7, <2>8
  <1>7. ASSUME NEW c \in Calls, GitFails(c)
        PROVE  TreePart' /\ CommitPart'
    <2>1. /\ calls[c].pc \in {"look", "resolve", "reset"} /\ calls' = [calls EXCEPT ![c] = Idle]
          /\ tree' \in {tree, None} /\ UNCHANGED <<rows, boots>>
      BY <1>7, Zenon DEF GitFails
    <2>2. \A d \in Calls : calls[d].pc = "ready" => calls'[d] = calls[d]
      BY <1>t, <2>1, SMT
    <2> QED
      BY <1>i, <2>1, <2>2, CommitKept, Zenon
  <1>8. ASSUME NEW c \in Calls, Begin(c) \/ Land(c)
        PROVE  TreePart' /\ CommitPart'
    <2>1. calls' = [calls EXCEPT ![c] = Idle]
      BY <1>8, Zenon DEF Begin, Land
    <2> QED
      BY <1>8, <1>i, <2>1, BeginRecords, LandRecords, Zenon
  <1>9. CASE Send \/ Boot \/ UNCHANGED vars
    <2>1. UNCHANGED <<rows, tree, tips, boots, calls>>
      BY <1>9, Zenon DEF Send, Boot, runner, vars
    <2> QED
      BY <1>u, <2>1, SameGoesOn, Zenon
  <1>10. ASSUME NEW p \in Sessions, TurnEnds(p) \/ SessionExits(p)
         PROVE  TreePart' /\ CommitPart'
    <2>1. UNCHANGED <<tree, tips, boots>> /\ RowsGoOn
      BY <1>t, <1>10, SessionGoesOn, Zenon DEF TurnEnds, SessionExits
    <2>2. \/ stopping.run # 0 /\ \E ps : StopOver(ps)
          \/ calls' = calls
      BY <1>10, SessionSays, Zenon
    <2> QED
      BY <1>o, <1>u, <2>1, <2>2, Zenon
  <1>11. CASE StopFast
    <2>1. UNCHANGED <<tree, tips, boots, calls>>
      BY <1>11, Zenon DEF StopFast
    <2> QED
      BY <1>t, <1>11, <1>u, <2>1, StopFastGoesOn, Zenon
  <1>12. CASE Dies
    <2>1. boots' = boots + 1 /\ calls' = [c \in Calls |-> Idle] /\ boots \in Nat
      BY <1>t, <1>12, BoundsAssumption, SMT DEF Dies, IInv, WorldPart
    <2>2. boots' # 0 /\ \A c \in Calls : calls'[c].pc = "idle"
      BY <2>1, SMT DEF Idle
    <2> QED
      BY <2>2, NoCallsTree, Zenon DEF CommitPart
  <1>13. CASE ResumeInterrupted
    <2>1. boots' # 0 /\ \A c \in Calls : calls'[c].pc = "idle"
      BY <1>13, SMT DEF ResumeInterrupted, AInv, AsleepPart
    <2> QED
      BY <2>1, NoCallsTree, Zenon DEF CommitPart
  <1>14. ASSUME NEW ref \in Refs, Push(ref)
         PROVE  TreePart' /\ CommitPart'
    <2>1. /\ \A c \in Calls : calls[c].pc = "idle"
          /\ UNCHANGED <<rows, tree, boots, calls>>
      BY <1>14, Zenon DEF Push, Calm
    <2>2. CommitPart'
      BY <2>1, CommitKept, Zenon
    <2>3. LiveRuns' = LiveRuns
      BY <2>1, SMT DEF LiveRuns
    <2>4. ASSUME NEW c \in Calls
          PROVE  /\ calls'[c].pc \notin {"ready", "reset", "resolve"}
                 /\ calls'[c].op = "refresh" /\ boots' = 0 =>
                      \A r \in LiveRuns' : r = calls'[c].run /\ rows'[r].status # "starting"
      <3>1. calls'[c].pc = "idle" /\ calls'[c] = calls[c]
        BY <2>1, Zenon
      <3>2. calls[c].op = "refresh" /\ boots = 0 =>
              \A r \in LiveRuns : r = calls[c].run /\ rows[r].status # "starting"
        BY <1>t, Zenon DEF TreePart
      <3> QED
        BY <2>1, <2>3, <3>1, <3>2, SMT
    <2>5. TreePart'
      BY <2>4, SMT DEF TreePart, PastStop
    <2> QED
      BY <2>2, <2>5
  <1> QED
    BY <1>1, <1>2, <1>3, <1>4, <1>5, <1>6, <1>7, <1>8, <1>9, <1>10, <1>11, <1>12, <1>13,
       <1>14, Zenon DEF Next, CallGoesOn

-----------------------------------------------------------------------------
(* With one start or refresh at a time, a desktop server that takes calls  *)
(* only once the boot is over, and no push while a call is in flight, the  *)
(* runner accounts for its run, for any number of branches, runs, sessions *)
(* and deaths: every session that listens is in its hands, start() stops   *)
(* before it prepares the checkout, a turn in flight will be answered, and *)
(* commit_sha is the tree's.  Each of the three conditions is needed: a    *)
(* second call begins over the first one's stop, a call during the boot    *)
(* meets resumeInterrupted(), a push parts what was looked at from what is *)
(* checked out.                                                            *)
THEOREM RunAlwaysAccounted ==
  ASSUME \A c, d \in Calls : c = d, DesktopEarly = FALSE, PushesLate = FALSE
  PROVE  Spec => []RunIsAccounted
  <1>c. Calm
    BY DEF Calm, OneCallOnly
  <1>1. Init => AInv
    <2> SUFFICES ASSUME Init PROVE AInv
      OBVIOUS
    <2>1. WInv
      <3>1. NamePart /\ LiveRunIsWatched
        BY SMT DEF Init, NamePart, LiveRunIsWatched, NoRow, NoProc, NoStop
      <3> QED
        BY <3>1, LocalRunInit, Zenon DEF WInv
    <2>2. /\ LiveRuns = {} /\ up = "up" /\ session = 0 /\ runId = 0 /\ stopping.run = 0
          /\ \A r \in Runs : rows[r].status = "none"
          /\ \A p \in Sessions : procs[p].state = "gone"
          /\ \A c \in Calls : calls[c].pc = "idle" /\ calls[c].op = "none"
      BY SMT DEF Init, LiveRuns, LiveStatus, NoRow, NoProc, NoStop, Idle
    <2>3. AsleepPart /\ StopPart /\ SwapPart
      BY <2>2, SMT DEF AsleepPart, StopPart, SwapPart, PastStop
    <2>4. HeldPart /\ TreePart /\ CommitPart
      BY <2>2, SMT DEF HeldPart, NoStraySession, TreePart, CommitPart, PastStop
    <2> QED
      BY <2>1, <2>3, <2>4, Zenon DEF AInv
  <1>2. AInv /\ [Next]_vars => AInv'
    <2> SUFFICES ASSUME AInv, [Next]_vars PROVE AInv'
      OBVIOUS
    <2>1. IInv' /\ OnlyEnds
      BY RowsNext, HandNext, CallsNext, WorldNext, FlagNext, Zenon DEF AInv, WInv, IInv
    <2>2. WInv'
      BY <2>1, WatchNext, Zenon DEF AInv, WInv
    <2> QED
      BY <1>c, <2>1, <2>2, AsleepNext, StopNext, SwapNext, HeldNext, RecordNext, Zenon DEF AInv
  <1>3. AInv => RunIsAccounted
    <2> SUFFICES ASSUME AInv PROVE RunIsAccounted
      OBVIOUS
    <2>1. NoStraySession
      BY DEF AInv, HeldPart
    <2>2. SwapStopsFirst
      BY Zenon DEF AInv, SwapPart, PastStop, SwapStopsFirst
    <2>3. BusyIsAnswered
      <3> SUFFICES ASSUME inFlight, stopping.run = 0, runId # 0
                   PROVE  \E p \in Sessions : procs[p].run = runId /\ procs[p].state \in {"busy", "closing"}
        BY DEF BusyIsAnswered
      <3>1. /\ session \in Sessions /\ procs[session] \in ProcSet
            /\ procs[session].run = runId /\ procs[session].state \notin {"gone", "idle"}
        BY SMT DEF AInv, HeldPart, WInv, IInv, HandPart
      <3>2. procs[session].state \in {"busy", "closing"}
        BY <3>1, SMT DEF ProcSet
      <3> QED
        BY <3>1, <3>2
    <2>4. CommitTellsTree
      BY SMT DEF AInv, CommitPart, CommitTellsTree
    <2> QED
      BY <2>1, <2>2, <2>3, <2>4 DEF RunIsAccounted
  <1> QED
    BY <1>1, <1>2, <1>3, PTL DEF Spec
=============================================================================
