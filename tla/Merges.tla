------------------------------- MODULE Merges -------------------------------
(***************************************************************************)
(* Merging a stack of pull requests: the rule that proposes a merge        *)
(* (dispatcher/rules/prConcerns.ts), the proposal with its ask and the     *)
(* operator's word on it (proposals/), the executor that authorizes and    *)
(* sends it (executor/actionExecutor.ts, authorizedActs.ts), the standing  *)
(* authorization to land a whole stack (stacks/) and the work graph that   *)
(* remembers what merged (graph/).  A pulse reads the world once and acts  *)
(* on that reading for as long as it runs, or on an older one: a local     *)
(* pulse reads nothing.                                                    *)
(***************************************************************************)
EXTENDS Naturals, FiniteSets

CONSTANTS
    Height,   \* pull requests of the stack; each is based on the branch of the one below
    Boots     \* bound: crashes

ASSUME MergesAssumption == Height \in Nat \ {0} /\ Boots \in Nat

Prs == 1 .. Height

VARIABLES
    world,     \* the pull requests at the provider
    window,    \* those no longer open that the provider still lists
    snap,      \* the reading the pulse acts on, kept for the next local one
    graph,     \* the work graph's rows
    pc,        \* where the pulse is
    plan,      \* the merges it still has to authorize
    proposal,  \* the latest merge proposal of each pull request
    cards,     \* the open approve_change escalations
    landing,   \* the rungs of the standing landing, {} for none
    calls,     \* the merge calls under way and who authorized them
    boots

provider  == <<world, window>>
memory    == <<snap, pc, plan>>
record    == <<proposal, cards, landing>>
vars      == <<world, window, snap, graph, pc, plan, proposal, cards, landing, calls, boots>>

Healths   == {"clear", "pending", "adverse"}
NoAsk     == [status |-> "none", settling |-> FALSE, moved |-> FALSE]
Deciders  == {"human", "stack_landing"}

TypeOK ==
    /\ world \in [Prs -> [state : {"open", "merged", "closed"}, health : Healths]]
    /\ window \subseteq Prs
    /\ snap \in [Prs -> [state : {"open", "merged", "closed", "gone"}, health : Healths, stacked : BOOLEAN]]
    /\ graph \in [Prs -> {"open", "merged", "closed"}]
    /\ pc \in {"idle", "read", "settled", "recorded", "tidied", "acting", "sending"}
    /\ plan \subseteq Prs
    /\ proposal \in [Prs -> [status : {"none", "pending", "accepted", "rejected", "withdrawn"},
                             settling : BOOLEAN, moved : BOOLEAN]]
    /\ cards \subseteq Prs \X {"ask", "failed"}
    /\ landing \subseteq Prs
    /\ calls \subseteq [pr : Prs, by : Deciders]
    /\ boots \in 0 .. Boots

Open(n) == world[n].state = "open"

\* A pull request targets the default branch from the bottom of the stack, or once the one below it
\* has merged and the provider has retargeted it.
Stacked(n) == n > 1 /\ world[n - 1].state # "merged"

\* What a reading says of one: a closed one is listed for a while and then not at all.
Reading == [n \in Prs |-> [state   |-> IF Open(n) \/ n \in window THEN world[n].state ELSE "gone",
                           health  |-> world[n].health,
                           stacked |-> Open(n) /\ Stacked(n)]]

\* A pull request that is no longer open has no health anyone asks about.
Over(s) == [state |-> s, health |-> "pending"]

Init ==
    /\ world \in [Prs -> [state : {"open"}, health : {"clear", "pending"}]]
    /\ window = {}
    /\ snap = Reading
    /\ graph = [n \in Prs |-> "open"]
    /\ pc = "idle" /\ plan = {}
    /\ proposal = [n \in Prs |-> NoAsk]
    /\ cards = {} /\ landing = {} /\ calls = {}
    /\ boots = 0

(***************************************************************************)
(* The provider, and the people on it.                                     *)
(***************************************************************************)
HealthMoves(n) ==
    /\ Open(n)
    /\ \E h \in Healths \ {world[n].health} : world' = [world EXCEPT ![n] = [@ EXCEPT !.health = h]]
    /\ UNCHANGED <<window, memory, graph, record, calls, boots>>

SettledElsewhere(n) ==
    /\ Open(n)
    /\ \E s \in {"merged", "closed"} : world' = [world EXCEPT ![n] = Over(s)]
    /\ window' = window \cup {n}
    /\ UNCHANGED <<memory, graph, record, calls, boots>>

\* closedPrWindowMs passes.
Ages(n) ==
    /\ n \in window
    /\ window' = window \ {n}
    /\ UNCHANGED <<world, memory, graph, record, calls, boots>>

(***************************************************************************)
(* The pulse.                                                              *)
(***************************************************************************)
\* A cycle reads the world and files what changed since the last reading; a change is what lets a
\* rejected merge be asked about again.
Read ==
    /\ pc = "idle"
    /\ snap' = Reading
    /\ proposal' = [n \in Prs |-> [proposal[n] EXCEPT !.moved =
                        @ \/ (proposal[n].status = "rejected" /\ Reading[n] # snap[n])]]
    /\ pc' = "read"
    /\ UNCHANGED <<provider, graph, plan, cards, landing, calls, boots>>

\* A local cycle acts on the reading the last real one left behind.
ReadNothing ==
    /\ pc = "idle"
    /\ pc' = "read"
    /\ UNCHANGED <<provider, snap, graph, plan, record, calls, boots>>

MergedOnRecord(n) == graph[n] = "merged" \/ snap[n].state = "merged"
Remaining         == {n \in landing : ~MergedOnRecord(n)}
Gone              == {n \in Remaining : snap[n].state # "open"}
Faulty            == {n \in Remaining : snap[n].state = "open" /\ snap[n].health = "adverse"}

\* StackLandingDesk.settle: landed when every rung has merged, stopped when one is gone or at fault.
SettleLandings ==
    /\ pc = "read"
    /\ landing' = IF Remaining = {} \/ Gone # {} \/ Faulty # {} THEN {} ELSE landing
    /\ pc' = "settled"
    /\ UNCHANGED <<provider, snap, graph, plan, proposal, cards, calls, boots>>

\* foldPrs: what the reading lists is taken from it; what it no longer lists has merged, by inference.
\* Mutant: the reading is taken as it is.
FoldedVerbatim(n) == snap[n].state

\* Mutant: what the reading no longer lists is left as it was.
FoldedFromReading(n) == IF snap[n].state # "gone" THEN snap[n].state ELSE graph[n]

Folded(n) ==
    CASE snap[n].state # "gone" -> snap[n].state
      [] graph[n] = "open"      -> "merged"
      [] OTHER                  -> graph[n]

RecordGraph ==
    /\ pc = "settled"
    /\ graph' = [n \in Prs |-> Folded(n)]
    /\ pc' = "recorded"
    /\ UNCHANGED <<provider, snap, plan, record, calls, boots>>

SettledOnRecord == {n \in Prs : graph[n] # "open"}

\* Mutant: the card is answered and the proposal behind it left pending.
TidyCardsOnly ==
    /\ pc = "recorded"
    /\ cards' = {c \in cards : c[1] \notin SettledOnRecord}
    /\ pc' = "tidied"
    /\ UNCHANGED <<provider, snap, graph, plan, proposal, landing, calls, boots>>

TidySettledMerges ==
    /\ pc = "recorded"
    /\ proposal' = [n \in Prs |-> IF n \in SettledOnRecord /\ proposal[n].status = "pending"
                                  THEN [NoAsk EXCEPT !.status = "withdrawn", !.settling = TRUE]
                                  ELSE proposal[n]]
    /\ cards' = {c \in cards : c[1] \notin SettledOnRecord}
    /\ pc' = "tidied"
    /\ UNCHANGED <<provider, snap, graph, plan, landing, calls, boots>>

\* proposalHold: an ask stands, a refusal holds until the world moves, and what was authorized or
\* withdrawn holds for as long as the world is given to catch up with it.
\* Mutant: what was authorized a moment ago may be authorized again.
HeldUntilDecided(n) ==
    \/ proposal[n].status = "pending"
    \/ proposal[n].status = "rejected" /\ ~proposal[n].moved

\* Mutant: a refusal is an answer like any other and holds nothing.
HeldUnlessRefused(n) == proposal[n].status = "pending" \/ proposal[n].settling

\* Mutant: what was authorized once is never authorized again.
HeldForGood(n) ==
    \/ proposal[n].status \in {"pending", "accepted"}
    \/ proposal[n].status = "rejected" /\ ~proposal[n].moved

Held(n) ==
    \/ proposal[n].status = "pending"
    \/ proposal[n].status = "rejected" /\ ~proposal[n].moved
    \/ proposal[n].settling

MergeReady(n) == snap[n].state = "open" /\ snap[n].health = "clear" /\ ~snap[n].stacked

Decide ==
    /\ pc = "tidied"
    /\ plan' = {n \in Prs : MergeReady(n) /\ ~Held(n)}
    /\ pc' = "acting"
    /\ UNCHANGED <<provider, snap, graph, record, calls, boots>>

(***************************************************************************)
(* The executor: authorize, once per planned merge.  It asks proposalHold  *)
(* again and hears what the decision heard: nothing but a pulse proposes a *)
(* merge, and only what is pending can be accepted or refused.             *)
(***************************************************************************)
Propose(n) ==
    /\ pc = "acting" /\ n \in plan /\ n \notin landing
    /\ plan' = plan \ {n}
    /\ proposal' = [proposal EXCEPT ![n] = [NoAsk EXCEPT !.status = "pending"]]
    /\ cards' = cards \cup {<<n, "ask">>}
    /\ UNCHANGED <<provider, snap, graph, pc, landing, calls, boots>>

Accepted    == [NoAsk EXCEPT !.status = "accepted", !.settling = TRUE]
Sent(n, by) == calls \cup {[pr |-> n, by |-> by]}

SendForLanding(n) ==
    /\ pc = "acting" /\ n \in plan /\ n \in landing
    /\ plan' = plan \ {n}
    /\ proposal' = [proposal EXCEPT ![n] = Accepted]
    /\ calls' = Sent(n, "stack_landing")
    /\ pc' = "sending"
    /\ UNCHANGED <<provider, snap, graph, cards, landing, boots>>

EndPulse ==
    /\ pc = "acting" /\ plan = {}
    /\ pc' = "idle"
    /\ UNCHANGED <<provider, snap, graph, plan, record, calls, boots>>

\* Mutant: a refused merge raises its card and leaves the landing standing.
FailedOnly(n) == cards' = cards \cup {<<n, "failed">>} /\ UNCHANGED landing

\* A merge that failed stops the landing that covers it, whoever authorized it, and raises a card.
Failed(n) ==
    /\ cards' = cards \cup {<<n, "failed">>}
    /\ landing' = IF n \in landing THEN {} ELSE landing

MergedNow(n) ==
    /\ Open(n)
    /\ world' = [world EXCEPT ![n] = Over("merged")]
    /\ window' = window \cup {n}

\* The provider carries a call out, refuses it, or carries it out and loses the answer; the answer goes
\* to whoever sent the call, which for a landing is the pulse.
Answered(c) ==
    /\ calls' = calls \ {c}
    /\ \/ MergedNow(c.pr) /\ UNCHANGED <<cards, landing>>
       \/ MergedNow(c.pr) /\ Failed(c.pr)
       \/ UNCHANGED provider /\ Failed(c.pr)
    /\ pc' = IF c.by = "stack_landing" THEN "acting" ELSE pc
    /\ UNCHANGED <<snap, graph, plan, proposal, boots>>

\* The window an authorization holds for passes; a call is taken to be answered within it.
Lapses(n) ==
    /\ proposal[n].settling /\ \A c \in calls : c.pr # n
    /\ proposal' = [proposal EXCEPT ![n] = [@ EXCEPT !.settling = FALSE]]
    /\ UNCHANGED <<provider, memory, graph, cards, landing, calls, boots>>

(***************************************************************************)
(* The operator.                                                           *)
(***************************************************************************)
Accept(n) ==
    /\ proposal[n].status = "pending"
    /\ proposal' = [proposal EXCEPT ![n] = Accepted]
    /\ cards' = cards \ {<<n, "ask">>}
    /\ calls' = Sent(n, "human")
    /\ UNCHANGED <<provider, memory, graph, landing, boots>>

Reject(n) ==
    /\ proposal[n].status = "pending"
    /\ proposal' = [proposal EXCEPT ![n] = [NoAsk EXCEPT !.status = "rejected"]]
    /\ cards' = cards \ {<<n, "ask">>}
    /\ UNCHANGED <<provider, memory, graph, landing, calls, boots>>

\* A failed merge's card has no proposal behind it and is simply answered.
AnswerCard(n) ==
    /\ <<n, "failed">> \in cards
    /\ cards' = cards \ {<<n, "failed">>}
    /\ UNCHANGED <<provider, memory, graph, proposal, landing, calls, boots>>

\* The stack the click names: two open pull requests or more, each based on the one below.
Stacks == {r \in SUBSET {n \in Prs : Open(n)} :
             /\ Cardinality(r) > 1
             /\ \A n \in r : n - 1 \in r \/ n = 1 \/ ~Open(n - 1)
             /\ \A n \in r : n + 1 \in Prs /\ Open(n + 1) => n + 1 \in r
             /\ \A m, n \in r : \A i \in m .. n : i \in r}

\* POST /api/stacks/:ref/land, on a reading of its own.
Land(r) ==
    /\ \A n \in r : world[n].health = "clear"
    /\ landing' = r
    /\ UNCHANGED <<provider, memory, graph, proposal, cards, calls, boots>>

Revoke ==
    /\ landing # {}
    /\ landing' = {}
    /\ UNCHANGED <<provider, memory, graph, proposal, cards, calls, boots>>

\* The rows survive; the pulse and the calls do not.  A call on the wire may still arrive.
Crash ==
    /\ boots < Boots
    /\ boots' = boots + 1
    /\ pc' = "idle" /\ plan' = {} /\ calls' = {}
    /\ \E arrive \in SUBSET {n \in Prs : Open(n) /\ \E c \in calls : c.pr = n} :
         /\ world' = [n \in Prs |-> IF n \in arrive THEN Over("merged") ELSE world[n]]
         /\ window' = window \cup arrive
    /\ UNCHANGED <<snap, graph, record>>

PulseStep == \/ SettleLandings \/ RecordGraph \/ TidySettledMerges \/ Decide \/ EndPulse
             \/ \E n \in Prs : Propose(n) \/ SendForLanding(n)
CallStep  == \E c \in calls : Answered(c)
Operator  == \/ Revoke
             \/ \E n \in Prs : Accept(n) \/ Reject(n) \/ AnswerCard(n)
             \/ \E r \in Stacks : Land(r)
Provider  == \E n \in Prs : HealthMoves(n) \/ SettledElsewhere(n) \/ Ages(n)
Lapse     == \E n \in Prs : Lapses(n)

Next == Read \/ ReadNothing \/ PulseStep \/ CallStep \/ Lapse \/ Operator \/ Provider \/ Crash

\* The clock fires a real cycle again and again, a cycle and a call run to their end, and time passes;
\* the operator and the people at the provider owe nothing.
Fairness == SF_vars(Read) /\ WF_vars(PulseStep) /\ WF_vars(CallStep) /\ WF_vars(Lapse)

Spec == Init /\ [][Next]_vars /\ Fairness

(***************************************************************************)
(* Properties.                                                             *)
(***************************************************************************)
\* No pull request has two merge calls under way: the operator's accept and the landing race between
\* the decision of a pulse and its execution.
OneCallAtATime == \A c, d \in calls : c.pr = d.pr => c = d

\* A refused merge stays refused until something happens to its pull request: no pulse, whenever it
\* decided, and no landing that covers it overrides the operator's no (action property).
RefusalHolds ==
    [][\A n \in Prs : (proposal[n].status = "rejected" /\ ~proposal[n].moved)
          => proposal'[n].status = "rejected"]_vars

\* An ask has its card and a card of an ask has its proposal, whatever withdrew either.
AskHasItsCard == \A n \in Prs : proposal[n].status = "pending" <=> <<n, "ask">> \in cards

\* A card for a merge does not outlive its pull request, whoever merged or closed it and whenever the
\* card was raised: the desk catches up again and again.
CardsAreTidied == []<>(\A c \in cards : Open(c[1]))

\* What was authorized is not dropped: a merge does not stay authorized and ready for ever, though the
\* process died between the word and the deed.  It is carried out, asked about again, or has its card.
Ready(n) == Open(n) /\ world[n].health = "clear" /\ ~Stacked(n)
AcceptedIsSettled ==
    []<>(\A n \in Prs : (Ready(n) /\ proposal[n].status = "accepted") => \E c \in cards : c[1] = n)

\* A landing does not stand for ever over rungs that stay clear: it lands, is refused or called off.
Clear       == \A n \in landing : Open(n) => world[n].health = "clear"
LandingEnds == []<>(landing = {} \/ ~Clear)

\* The same, of a landing none of whose rungs was asked about or refused when it was clicked.
Unasked            == \A n \in landing : proposal[n].status \notin {"pending", "rejected"}
UnaskedLandingEnds == []<>(landing = {} \/ ~Clear \/ ~Unasked)

\* A landing that stops because a rung is gone stops for a rung that did not merge (action property).
StopIsTrue == [][(SettleLandings /\ landing # {} /\ landing' = {} /\ Gone # {})
                    => \E n \in Gone : world[n].state # "merged"]_vars

\* A card stands exactly as long as what it asks or tells: with its ask while that is pending, and no
\* longer than its pull request.
CardsFollowAsks == []AskHasItsCard /\ CardsAreTidied

\* Nothing about a merge that an operator authorized is left standing: one merge or a whole landing.
MergesEnd == AcceptedIsSettled /\ UnaskedLandingEnds
=============================================================================
