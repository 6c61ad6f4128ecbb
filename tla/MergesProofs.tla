---------------------------- MODULE MergesProofs ----------------------------
(***************************************************************************)
(* The safety properties of Merges, for a stack of any height and any      *)
(* number of crashes.  What makes them inductive is what the executor      *)
(* relies on when it asks proposalHold a second time: a pulse that is not  *)
(* executing has no plan, what it plans is not held, and a call under way  *)
(* keeps the proposal it was made for accepted and settling.               *)
(***************************************************************************)
EXTENDS Merges, TLAPS

Rungs     == [state : {"open", "merged", "closed"}, health : Healths]
Seen      == [state : {"open", "merged", "closed", "gone"}, health : Healths, stacked : BOOLEAN]
Statuses  == {"none", "pending", "accepted", "rejected", "withdrawn"}
Proposals == [status : Statuses, settling : BOOLEAN, moved : BOOLEAN]

(* Only an executing pulse has a plan, and nothing it plans is held.       *)
PlanIsFree ==
    /\ pc \notin {"acting", "sending"} => plan = {}
    /\ \A n \in plan : ~Held(n)

(* A call goes with the proposal that authorized it.                       *)
CallIsHeld ==
    \A c \in calls : proposal[c.pr].status = "accepted" /\ proposal[c.pr].settling

-----------------------------------------------------------------------------
(* The rows the actions write. *)
LEMMA OverRow == ASSUME NEW s \in {"merged", "closed"} PROVE Over(s) \in Rungs
  BY SMT DEF Over, Rungs, Healths

(* The rows the executor and the operator write in place of an ask.        *)
AskRow(r, status, settling) ==
    r \in Proposals /\ r.status = status /\ r.settling = settling /\ r.moved = FALSE

LEMMA AskRows ==
  /\ AskRow(NoAsk, "none", FALSE)
  /\ AskRow(Accepted, "accepted", TRUE)
  /\ AskRow([NoAsk EXCEPT !.status = "pending"], "pending", FALSE)
  /\ AskRow([NoAsk EXCEPT !.status = "rejected"], "rejected", FALSE)
  /\ AskRow([NoAsk EXCEPT !.status = "withdrawn", !.settling = TRUE], "withdrawn", TRUE)
  <1>1. AskRow(NoAsk, "none", FALSE)
    BY SMT DEF NoAsk, Proposals, Statuses, AskRow
  <1>2. ASSUME NEW t \in Statuses
        PROVE  AskRow([NoAsk EXCEPT !.status = t], t, FALSE)
    BY <1>1, SMT DEF AskRow, Proposals
  <1>3. ASSUME NEW t \in Statuses
        PROVE  AskRow([NoAsk EXCEPT !.status = t, !.settling = TRUE], t, TRUE)
    <2> DEFINE r == [NoAsk EXCEPT !.status = t]
    <2>1. AskRow(r, t, FALSE)
      BY <1>2, Zenon
    <2>2. [NoAsk EXCEPT !.status = t, !.settling = TRUE] = [r EXCEPT !.settling = TRUE]
      BY <1>1, SMT DEF AskRow, Proposals
    <2> HIDE DEF r
    <2>3. ASSUME NEW b \in BOOLEAN PROVE AskRow([r EXCEPT !.settling = b], t, b)
      BY <2>1, SMT DEF AskRow, Proposals
    <2> QED
      BY <2>2, <2>3, Zenon
  <1>4. {"pending", "accepted", "rejected", "withdrawn"} \subseteq Statuses
    BY SMT DEF Statuses
  <1> QED
    BY <1>1, <1>2, <1>3, <1>4, Zenon DEF Accepted

LEMMA ReadingRows == TypeOK => Reading \in [Prs -> Seen]
  <1> SUFFICES ASSUME TypeOK, NEW n \in Prs
               PROVE  [state   |-> IF Open(n) \/ n \in window THEN world[n].state ELSE "gone",
                       health  |-> world[n].health,
                       stacked |-> Open(n) /\ Stacked(n)] \in Seen
    BY Zenon DEF Reading
  <1>1. world[n].state \in {"open", "merged", "closed"} /\ world[n].health \in Healths
    BY SMT DEF TypeOK
  <1>2. (Open(n) /\ Stacked(n)) \in BOOLEAN
    BY Zenon DEF Open, Stacked
  <1> DEFINE st == IF Open(n) \/ n \in window THEN world[n].state ELSE "gone"
             sk == Open(n) /\ Stacked(n)
  <1>3. st \in {"open", "merged", "closed", "gone"}
    BY <1>1, Zenon
  <1> HIDE DEF st, sk
  <1>4. [state |-> st, health |-> world[n].health, stacked |-> sk] \in Seen
    BY <1>1, <1>2, <1>3, SMT DEF Seen, sk
  <1> QED
    BY <1>4, Zenon DEF st, sk

LEMMA LoosenedRows ==
  ASSUME NEW r \in Proposals, NEW b \in BOOLEAN
  PROVE  /\ [r EXCEPT !.moved = b] \in Proposals
         /\ [r EXCEPT !.moved = b].status = r.status
         /\ [r EXCEPT !.moved = b].settling = r.settling
         /\ [r EXCEPT !.moved = b].moved = b
         /\ [r EXCEPT !.settling = b] \in Proposals
         /\ [r EXCEPT !.settling = b].status = r.status
         /\ [r EXCEPT !.settling = b].settling = b
         /\ [r EXCEPT !.settling = b].moved = r.moved
  BY SMT DEF Proposals

-----------------------------------------------------------------------------
(* Every step keeps the types. *)
LEMMA TypeNext == TypeOK /\ [Next]_vars => TypeOK'
  <1> SUFFICES ASSUME TypeOK, [Next]_vars PROVE TypeOK'
    OBVIOUS
  <1> USE DEF provider, memory, record
  <1>p. proposal \in [Prs -> Proposals]
    BY Zenon DEF TypeOK, Proposals, Statuses
  <1>w. world \in [Prs -> Rungs]
    BY Zenon DEF TypeOK, Rungs
  <1>t. ASSUME /\ world' \in [Prs -> Rungs] /\ window' \subseteq Prs
               /\ snap' \in [Prs -> Seen] /\ graph' \in [Prs -> {"open", "merged", "closed"}]
               /\ pc' \in {"idle", "read", "settled", "recorded", "tidied", "acting", "sending"}
               /\ plan' \subseteq Prs /\ proposal' \in [Prs -> Proposals]
               /\ cards' \subseteq Prs \X {"ask", "failed"} /\ landing' \subseteq Prs
               /\ calls' \subseteq [pr : Prs, by : Deciders] /\ boots' \in 0 .. Boots
        PROVE  TypeOK'
    BY <1>t, Zenon DEF TypeOK, Rungs, Seen, Proposals, Statuses
  <1>s. /\ world \in [Prs -> Rungs] /\ window \subseteq Prs
        /\ snap \in [Prs -> Seen] /\ graph \in [Prs -> {"open", "merged", "closed"}]
        /\ pc \in {"idle", "read", "settled", "recorded", "tidied", "acting", "sending"}
        /\ plan \subseteq Prs /\ proposal \in [Prs -> Proposals]
        /\ cards \subseteq Prs \X {"ask", "failed"} /\ landing \subseteq Prs
        /\ calls \subseteq [pr : Prs, by : Deciders] /\ boots \in 0 .. Boots
    BY Zenon DEF TypeOK, Rungs, Seen, Proposals, Statuses
  <1>1. CASE UNCHANGED vars
    BY <1>1, <1>s, <1>t, SMT DEF vars
  <1>2. CASE Read
    <2>1. Reading \in [Prs -> Seen]
      BY ReadingRows, Zenon
    <2>2. proposal' \in [Prs -> Proposals]
      <3> SUFFICES ASSUME NEW n \in Prs
                   PROVE  [proposal[n] EXCEPT !.moved =
                             @ \/ (proposal[n].status = "rejected" /\ Reading[n] # snap[n])] \in Proposals
        BY <1>2, Zenon DEF Read
      <3>1. proposal[n] \in Proposals
        BY <1>p, Zenon
      <3> DEFINE b == proposal[n].moved \/ (proposal[n].status = "rejected" /\ Reading[n] # snap[n])
      <3>2. b \in BOOLEAN
        BY Zenon
      <3> HIDE DEF b
      <3>3. [proposal[n] EXCEPT !.moved = b] \in Proposals
        BY <3>1, <3>2, LoosenedRows, Zenon
      <3> QED
        BY <3>3, Zenon DEF b
    <2> QED
      BY <1>2, <1>s, <1>t, <2>1, <2>2, Zenon DEF Read
  <1>3. CASE ReadNothing
    BY <1>3, <1>s, <1>t, Zenon DEF ReadNothing
  <1>4. CASE SettleLandings
    BY <1>4, <1>s, <1>t, SMT DEF SettleLandings
  <1>5. CASE RecordGraph
    <2>1. ASSUME NEW n \in Prs PROVE Folded(n) \in {"open", "merged", "closed"}
      <3>1. snap[n].state \in {"open", "merged", "closed", "gone"} /\ graph[n] \in {"open", "merged", "closed"}
        BY <1>s, SMT DEF Seen
      <3> QED
        BY <3>1, SMT DEF Folded
    <2> QED
      BY <1>5, <1>s, <1>t, <2>1, Zenon DEF RecordGraph
  <1>6. CASE TidySettledMerges
    BY <1>6, <1>s, <1>t, AskRows, Zenon DEF TidySettledMerges, AskRow
  <1>7. CASE Decide
    BY <1>7, <1>s, <1>t, Zenon DEF Decide
  <1>8. CASE EndPulse
    BY <1>8, <1>s, <1>t, Zenon DEF EndPulse
  <1>9. ASSUME NEW n \in Prs, Propose(n) PROVE TypeOK'
    <2>1. proposal' \in [Prs -> Proposals]
      BY <1>9, <1>p, AskRows, Zenon DEF Propose, AskRow
    <2>2. cards' \subseteq Prs \X {"ask", "failed"}
      BY <1>9, <1>s, SMT DEF Propose
    <2>3. plan' \subseteq Prs
      BY <1>9, <1>s, SMT DEF Propose
    <2> QED
      BY <1>9, <1>s, <1>t, <2>1, <2>2, <2>3, Zenon DEF Propose
  <1>10. ASSUME NEW n \in Prs, SendForLanding(n) PROVE TypeOK'
    <2>1. proposal' \in [Prs -> Proposals]
      BY <1>10, <1>p, AskRows, Zenon DEF SendForLanding, AskRow
    <2>2. calls' \subseteq [pr : Prs, by : Deciders]
      BY <1>10, <1>s, SMT DEF SendForLanding, Sent, Deciders
    <2>3. plan' \subseteq Prs
      BY <1>10, <1>s, SMT DEF SendForLanding
    <2> QED
      BY <1>10, <1>s, <1>t, <2>1, <2>2, <2>3, Zenon DEF SendForLanding
  <1>m. ASSUME NEW n \in Prs
        PROVE  /\ MergedNow(n) => world' \in [Prs -> Rungs] /\ window' \subseteq Prs
               /\ Failed(n) => cards' \subseteq Prs \X {"ask", "failed"} /\ landing' \subseteq Prs
    <2>1. MergedNow(n) => world' \in [Prs -> Rungs]
      BY <1>w, OverRow, Zenon DEF MergedNow
    <2>2. MergedNow(n) => window' \subseteq Prs
      BY <1>s, SMT DEF MergedNow
    <2>3. Failed(n) => cards' \subseteq Prs \X {"ask", "failed"}
      BY <1>s, SMT DEF Failed
    <2>4. Failed(n) => landing' \subseteq Prs
      BY <1>s, SMT DEF Failed
    <2> QED
      BY <2>1, <2>2, <2>3, <2>4, Zenon
  <1>11. ASSUME NEW c \in calls, Answered(c) PROVE TypeOK'
    <2>1. c.pr \in Prs
      BY <1>s, SMT
    <2>2. /\ world' \in [Prs -> Rungs] /\ window' \subseteq Prs
          /\ cards' \subseteq Prs \X {"ask", "failed"} /\ landing' \subseteq Prs
      <3>1. /\ MergedNow(c.pr) \/ (world' = world /\ window' = window)
            /\ Failed(c.pr) \/ (cards' = cards /\ landing' = landing)
        BY <1>11, Zenon DEF Answered
      <3>2. /\ MergedNow(c.pr) => world' \in [Prs -> Rungs] /\ window' \subseteq Prs
            /\ Failed(c.pr) => cards' \subseteq Prs \X {"ask", "failed"} /\ landing' \subseteq Prs
        BY <1>m, <2>1, Zenon
      <3> QED
        BY <3>1, <3>2, <1>s, SMT
    <2>3. calls' \subseteq [pr : Prs, by : Deciders]
      BY <1>11, <1>s, Zenon DEF Answered
    <2>4. pc' \in {"idle", "read", "settled", "recorded", "tidied", "acting", "sending"}
      BY <1>11, <1>s, SMT DEF Answered
    <2> QED
      BY <1>11, <1>s, <1>t, <2>2, <2>3, <2>4, Zenon DEF Answered
  <1>12. ASSUME NEW n \in Prs, Lapses(n) PROVE TypeOK'
    <2>1. [proposal[n] EXCEPT !.settling = FALSE] \in Proposals
      BY <1>p, LoosenedRows, Zenon
    <2>2. proposal' = [proposal EXCEPT ![n] = [proposal[n] EXCEPT !.settling = FALSE]]
      BY <1>12, Zenon DEF Lapses
    <2>3. proposal' \in [Prs -> Proposals]
      BY <1>p, <2>1, <2>2, Zenon
    <2> QED
      BY <1>12, <1>s, <1>t, <2>3, Zenon DEF Lapses
  <1>13. ASSUME NEW n \in Prs, Accept(n) PROVE TypeOK'
    <2>1. proposal' \in [Prs -> Proposals]
      BY <1>13, <1>p, AskRows, Zenon DEF Accept, AskRow
    <2>2. calls' \subseteq [pr : Prs, by : Deciders]
      BY <1>13, <1>s, SMT DEF Accept, Sent, Deciders
    <2>3. cards' \subseteq Prs \X {"ask", "failed"}
      BY <1>13, <1>s, Zenon DEF Accept
    <2> QED
      BY <1>13, <1>s, <1>t, <2>1, <2>2, <2>3, Zenon DEF Accept
  <1>14. ASSUME NEW n \in Prs, Reject(n) PROVE TypeOK'
    <2>1. proposal' \in [Prs -> Proposals]
      BY <1>14, <1>p, AskRows, Zenon DEF Reject, AskRow
    <2>2. cards' \subseteq Prs \X {"ask", "failed"}
      BY <1>14, <1>s, Zenon DEF Reject
    <2> QED
      BY <1>14, <1>s, <1>t, <2>1, <2>2, Zenon DEF Reject
  <1>15. ASSUME NEW n \in Prs, AnswerCard(n) PROVE TypeOK'
    <2>1. cards' \subseteq Prs \X {"ask", "failed"}
      BY <1>15, <1>s, Zenon DEF AnswerCard
    <2> QED
      BY <1>15, <1>s, <1>t, <2>1, Zenon DEF AnswerCard
  <1>16. ASSUME NEW r \in Stacks, Land(r) PROVE TypeOK'
    <2>1. r \subseteq Prs
      BY SMT DEF Stacks
    <2> QED
      BY <1>16, <1>s, <1>t, <2>1, Zenon DEF Land
  <1>17. CASE Revoke
    BY <1>17, <1>s, <1>t, SMT DEF Revoke
  <1>18. ASSUME NEW n \in Prs, HealthMoves(n) PROVE TypeOK'
    <2>1. ASSUME NEW h \in Healths PROVE [world[n] EXCEPT !.health = h] \in Rungs
      <3>1. world[n] \in Rungs
        BY <1>w, Zenon
      <3> QED
        BY <3>1, SMT DEF Rungs
    <2>2. PICK h \in Healths : world' = [world EXCEPT ![n] = [world[n] EXCEPT !.health = h]]
      BY <1>18, Zenon DEF HealthMoves
    <2>3. world' \in [Prs -> Rungs]
      BY <1>w, <2>1, <2>2, Zenon
    <2> QED
      BY <1>18, <1>s, <1>t, <2>3, Zenon DEF HealthMoves
  <1>19. ASSUME NEW n \in Prs, SettledElsewhere(n) PROVE TypeOK'
    <2>1. world' \in [Prs -> Rungs]
      BY <1>19, <1>w, OverRow, Zenon DEF SettledElsewhere
    <2>2. window' \subseteq Prs
      BY <1>19, <1>s, SMT DEF SettledElsewhere
    <2> QED
      BY <1>19, <1>s, <1>t, <2>1, <2>2, Zenon DEF SettledElsewhere
  <1>20. ASSUME NEW n \in Prs, Ages(n) PROVE TypeOK'
    <2>1. window' \subseteq Prs
      BY <1>20, <1>s, SMT DEF Ages
    <2> QED
      BY <1>20, <1>s, <1>t, <2>1, Zenon DEF Ages
  <1>21. CASE Crash
    <2>1. world' \in [Prs -> Rungs]
      BY <1>21, <1>w, OverRow, Zenon DEF Crash
    <2>2. window' \subseteq Prs
      BY <1>21, <1>s, SMT DEF Crash
    <2>3. boots' \in 0 .. Boots
      BY <1>21, <1>s, MergesAssumption, SMT DEF Crash
    <2>4. plan' \subseteq Prs /\ calls' \subseteq [pr : Prs, by : Deciders]
      BY <1>21, SMT DEF Crash
    <2> QED
      BY <1>21, <1>s, <1>t, <2>1, <2>2, <2>3, <2>4, Zenon DEF Crash
  <1> QED
    BY <1>1, <1>2, <1>3, <1>4, <1>5, <1>6, <1>7, <1>8, <1>9, <1>10, <1>11, <1>12, <1>13, <1>14, <1>15,
       <1>16, <1>17, <1>18, <1>19, <1>20, <1>21, Zenon
       DEF Next, PulseStep, CallStep, Lapse, Operator, Provider

-----------------------------------------------------------------------------
(* Plans, calls, cards and asks stay in step. *)
Kept == PlanIsFree /\ CallIsHeld /\ OneCallAtATime /\ AskHasItsCard

(* Steps that touch no proposal and open no call, ask or plan.             *)
LEMMA QuietStep ==
  ASSUME TypeOK, Kept, proposal' = proposal, calls' \subseteq calls, plan' \subseteq plan,
         pc' \notin {"acting", "sending"} => plan' = {},
         \A n \in Prs : <<n, "ask">> \in cards' <=> <<n, "ask">> \in cards
  PROVE  Kept'
  <1>1. PlanIsFree'
    BY Zenon DEF Kept, PlanIsFree, Held
  <1>2. CallIsHeld' /\ OneCallAtATime'
    BY Zenon DEF Kept, CallIsHeld, OneCallAtATime
  <1>3. AskHasItsCard'
    BY Zenon DEF Kept, AskHasItsCard
  <1> QED
    BY <1>1, <1>2, <1>3 DEF Kept

(* A proposal is replaced: no call was made for the one that goes, the one *)
(* that comes has a card if it is an ask and a call if it is accepted.     *)
LEMMA ReplacingStep ==
  ASSUME TypeOK, Kept, NEW n \in Prs, NEW r \in Proposals, proposal' = [proposal EXCEPT ![n] = r],
         \A c \in calls : c.pr # n,
         \/ calls' = calls
         \/ r.status = "accepted" /\ r.settling /\ \E by \in Deciders : calls' = Sent(n, by),
         n \notin plan', plan' \subseteq plan, pc' \notin {"acting", "sending"} => plan' = {},
         \A m \in Prs \ {n} : <<m, "ask">> \in cards' <=> <<m, "ask">> \in cards,
         <<n, "ask">> \in cards' <=> r.status = "pending"
  PROVE  Kept'
  <1>1. proposal'[n] = r /\ \A m \in Prs \ {n} : proposal'[m] = proposal[m]
    BY SMT DEF TypeOK
  <1>2. plan \subseteq Prs /\ \A c \in calls : c.pr \in Prs
    BY SMT DEF TypeOK
  <1>3. PlanIsFree'
    BY <1>1, <1>2, Zenon DEF Kept, PlanIsFree, Held
  <1>4. AskHasItsCard'
    BY <1>1, Zenon DEF Kept, AskHasItsCard
  <1>5. CASE calls' = calls
    BY <1>1, <1>2, <1>3, <1>4, <1>5, Zenon DEF Kept, CallIsHeld, OneCallAtATime
  <1>6. ASSUME r.status = "accepted", r.settling, NEW by \in Deciders, calls' = Sent(n, by)
        PROVE  Kept'
    <2> DEFINE d == [pr |-> n, by |-> by]
    <2>1. d.pr = n
      BY SMT
    <2>2. calls' = calls \cup {d}
      BY <1>6, Zenon DEF Sent
    <2> HIDE DEF d
    <2>3. CallIsHeld'
      BY <1>1, <1>2, <1>6, <2>1, <2>2, Zenon DEF Kept, CallIsHeld
    <2>4. OneCallAtATime'
      BY <2>1, <2>2, Zenon DEF Kept, OneCallAtATime
    <2> QED
      BY <1>3, <1>4, <2>3, <2>4 DEF Kept
  <1> QED
    BY <1>5, <1>6, Zenon

LEMMA KeptNext ==
  ASSUME TypeOK, Kept, [Next]_vars
  PROVE  Kept'
  <1> USE DEF provider, memory, record
  <1>c. ASSUME NEW c \in calls
        PROVE  c.pr \in Prs /\ proposal[c.pr].status = "accepted" /\ proposal[c.pr].settling
    BY SMT DEF TypeOK, Kept, CallIsHeld
  <1>f. ASSUME NEW n \in Prs, ~(proposal[n].status = "accepted" /\ proposal[n].settling)
        PROVE  \A c \in calls : c.pr # n
    BY <1>c, <1>f, Zenon
  <1>p. \A n \in Prs : n \in plan => ~Held(n) /\ pc \in {"acting", "sending"}
    BY Zenon DEF Kept, PlanIsFree
  <1>k. ASSUME NEW n \in Prs, NEW m \in Prs, NEW kind \in {"ask", "failed"}
        PROVE  /\ <<m, "ask">> # <<n, "failed">>
               /\ m # n => <<m, "ask">> # <<n, kind>>
    BY SMT
  <1>1. CASE UNCHANGED vars
    <2>1. UNCHANGED <<proposal, calls, plan, pc, cards>>
      BY <1>1, Zenon DEF vars
    <2> QED
      BY <2>1, QuietStep, Zenon DEF Kept, PlanIsFree
  <1>2. CASE Read
    <2>1. plan = {} /\ plan' = {} /\ calls' = calls /\ cards' = cards
      BY <1>2, Zenon DEF Read, Kept, PlanIsFree
    <2>2. ASSUME NEW n \in Prs
          PROVE  proposal'[n].status = proposal[n].status /\ proposal'[n].settling = proposal[n].settling
      <3> DEFINE b == proposal[n].moved \/ (proposal[n].status = "rejected" /\ Reading[n] # snap[n])
      <3>1. proposal'[n] = [proposal[n] EXCEPT !.moved = b]
        BY <1>2, Zenon DEF Read
      <3>2. proposal[n] \in Proposals /\ b \in BOOLEAN
        BY Zenon DEF TypeOK, Proposals, Statuses
      <3> DEFINE r == [proposal[n] EXCEPT !.moved = b]
      <3> HIDE DEF b
      <3>3. r.status = proposal[n].status /\ r.settling = proposal[n].settling
        BY <3>2, LoosenedRows, SMT
      <3>4. proposal'[n] = r
        BY <3>1, Zenon
      <3> HIDE DEF r
      <3> QED
        BY <3>3, <3>4, Zenon
    <2>3. PlanIsFree'
      BY <2>1, Zenon DEF PlanIsFree
    <2>4. CallIsHeld' /\ OneCallAtATime'
      BY <1>c, <2>1, <2>2, Zenon DEF Kept, CallIsHeld, OneCallAtATime
    <2>5. AskHasItsCard'
      BY <2>1, <2>2, Zenon DEF Kept, AskHasItsCard
    <2> QED
      BY <2>3, <2>4, <2>5 DEF Kept
  <1>3. CASE ReadNothing \/ SettleLandings \/ RecordGraph
    <2>1. UNCHANGED <<proposal, calls, plan, cards>> /\ plan = {}
      BY <1>3, Zenon DEF ReadNothing, SettleLandings, RecordGraph, Kept, PlanIsFree
    <2> QED
      BY <2>1, QuietStep, Zenon
  <1>4. CASE EndPulse
    <2>1. UNCHANGED <<proposal, calls, plan, cards>> /\ plan = {}
      BY <1>4, Zenon DEF EndPulse
    <2> QED
      BY <2>1, QuietStep, Zenon
  <1>5. CASE TidySettledMerges
    <2>1. plan = {} /\ plan' = {} /\ calls' = calls
      BY <1>5, Zenon DEF TidySettledMerges, Kept, PlanIsFree
    <2>2. ASSUME NEW n \in Prs
          PROVE  IF n \in SettledOnRecord /\ proposal[n].status = "pending"
                 THEN proposal'[n].status = "withdrawn"
                 ELSE proposal'[n] = proposal[n]
      BY <1>5, AskRows, Zenon DEF TidySettledMerges, AskRow
    <2>3. PlanIsFree'
      BY <2>1, Zenon DEF PlanIsFree
    <2>4. CallIsHeld' /\ OneCallAtATime'
      BY <1>c, <2>1, <2>2, Zenon DEF Kept, CallIsHeld, OneCallAtATime
    <2>5. ASSUME NEW n \in Prs
          PROVE  <<n, "ask">> \in cards' <=> <<n, "ask">> \in cards /\ n \notin SettledOnRecord
      BY <1>5, SMT DEF TidySettledMerges
    <2>6. AskHasItsCard'
      BY <2>2, <2>5, Zenon DEF Kept, AskHasItsCard
    <2> QED
      BY <2>3, <2>4, <2>6 DEF Kept
  <1>6. CASE Decide
    <2>1. UNCHANGED <<proposal, calls, cards>> /\ pc' = "acting"
      BY <1>6, Zenon DEF Decide
    <2>2. PlanIsFree'
      BY <1>6, <2>1, Zenon DEF Decide, PlanIsFree, Held
    <2>3. CallIsHeld' /\ OneCallAtATime' /\ AskHasItsCard'
      BY <2>1, Zenon DEF Kept, CallIsHeld, OneCallAtATime, AskHasItsCard
    <2> QED
      BY <2>2, <2>3 DEF Kept
  <1>7. ASSUME NEW n \in Prs, Propose(n) PROVE Kept'
    <2> DEFINE r == [NoAsk EXCEPT !.status = "pending"]
    <2>1. r \in Proposals /\ r.status = "pending"
      BY AskRows, Zenon DEF AskRow
    <2>2. /\ proposal' = [proposal EXCEPT ![n] = r] /\ calls' = calls
          /\ plan' = plan \ {n} /\ pc' = "acting" /\ cards' = cards \cup {<<n, "ask">>}
      BY <1>7, Zenon DEF Propose
    <2>3. \A c \in calls : c.pr # n
      BY <1>7, <1>p, <1>f, Zenon DEF Propose, Held
    <2>4. /\ \A m \in Prs \ {n} : <<m, "ask">> \in cards' <=> <<m, "ask">> \in cards
          /\ <<n, "ask">> \in cards'
      BY <2>2, SMT
    <2> HIDE DEF r
    <2> QED
      BY <2>1, <2>2, <2>3, <2>4, ReplacingStep, Zenon
  <1>8. ASSUME NEW n \in Prs, SendForLanding(n) PROVE Kept'
    <2>1. AskRow(Accepted, "accepted", TRUE)
      BY AskRows, Zenon
    <2>2. /\ proposal' = [proposal EXCEPT ![n] = Accepted] /\ calls' = Sent(n, "stack_landing")
          /\ plan' = plan \ {n} /\ pc' = "sending" /\ cards' = cards
      BY <1>8, Zenon DEF SendForLanding
    <2>3. (\A c \in calls : c.pr # n) /\ proposal[n].status # "pending"
      BY <1>8, <1>p, <1>f, Zenon DEF SendForLanding, Held
    <2>4. <<n, "ask">> \notin cards
      BY <2>3, Zenon DEF Kept, AskHasItsCard
    <2>5. "stack_landing" \in Deciders
      BY Zenon DEF Deciders
    <2> QED
      BY <2>1, <2>2, <2>3, <2>4, <2>5, ReplacingStep, Zenon DEF AskRow
  <1>9. ASSUME NEW c \in calls, Answered(c) PROVE Kept'
    <2>1. /\ UNCHANGED <<proposal, plan>> /\ calls' \subseteq calls
          /\ pc' = "acting" \/ pc' = pc
          /\ cards' = cards \/ cards' = cards \cup {<<c.pr, "failed">>}
      BY <1>9, Zenon DEF Answered, Failed
    <2>2. \A n \in Prs : <<n, "ask">> \in cards' <=> <<n, "ask">> \in cards
      BY <2>1, <1>c, SMT
    <2> QED
      BY <2>1, <2>2, QuietStep, Zenon DEF Kept, PlanIsFree
  <1>10. ASSUME NEW n \in Prs, Lapses(n) PROVE Kept'
    <2>1. /\ proposal' = [proposal EXCEPT ![n] = [proposal[n] EXCEPT !.settling = FALSE]]
          /\ UNCHANGED <<calls, plan, cards, pc>> /\ \A c \in calls : c.pr # n
      BY <1>10, Zenon DEF Lapses
    <2>2. /\ proposal'[n] = [proposal[n] EXCEPT !.settling = FALSE]
          /\ \A m \in Prs \ {n} : proposal'[m] = proposal[m]
      BY <2>1, SMT DEF TypeOK
    <2>3. /\ proposal'[n].status = proposal[n].status /\ ~proposal'[n].settling
          /\ proposal'[n].moved = proposal[n].moved
      <3>1. proposal[n] \in Proposals
        BY Zenon DEF TypeOK, Proposals, Statuses
      <3> DEFINE r == [proposal[n] EXCEPT !.settling = FALSE]
      <3>2. r.status = proposal[n].status /\ r.settling = FALSE /\ r.moved = proposal[n].moved
        BY <3>1, LoosenedRows, Zenon
      <3>3. proposal'[n] = r
        BY <2>2, Zenon
      <3> HIDE DEF r
      <3> QED
        BY <3>2, <3>3, SMT
    <2>4. ASSUME NEW m \in plan PROVE ~Held(m)'
      <3>1. m \in Prs /\ ~Held(m)
        BY <1>p, SMT DEF TypeOK
      <3> QED
        BY <3>1, <2>2, <2>3, Zenon DEF Held
    <2>5. PlanIsFree'
      BY <2>1, <2>4, Zenon DEF Kept, PlanIsFree
    <2>6. CallIsHeld' /\ OneCallAtATime'
      BY <1>c, <2>1, <2>2, Zenon DEF Kept, CallIsHeld, OneCallAtATime
    <2>7. AskHasItsCard'
      BY <2>1, <2>2, <2>3, Zenon DEF Kept, AskHasItsCard
    <2> QED
      BY <2>5, <2>6, <2>7 DEF Kept
  <1>11. ASSUME NEW n \in Prs, proposal[n].status = "pending", NEW r \in Proposals,
                r.status # "pending", proposal' = [proposal EXCEPT ![n] = r],
                cards' = cards \ {<<n, "ask">>}, UNCHANGED <<plan, pc>>,
                \/ calls' = calls
                \/ r.status = "accepted" /\ r.settling /\ \E by \in Deciders : calls' = Sent(n, by)
         PROVE  Kept'
    <2>1. n \notin plan /\ \A c \in calls : c.pr # n
      BY <1>11, <1>p, <1>f, Zenon DEF Held
    <2>2. /\ \A m \in Prs \ {n} : <<m, "ask">> \in cards' <=> <<m, "ask">> \in cards
          /\ <<n, "ask">> \notin cards'
      BY <1>11, SMT
    <2>3. plan' \subseteq plan /\ n \notin plan' /\ (pc' \notin {"acting", "sending"} => plan' = {})
      BY <1>11, <2>1, Zenon DEF Kept, PlanIsFree
    <2> QED
      BY <1>11, <2>1, <2>2, <2>3, ReplacingStep, Zenon
  <1>12. ASSUME NEW n \in Prs, Accept(n) PROVE Kept'
    <2>1. AskRow(Accepted, "accepted", TRUE)
      BY AskRows, Zenon
    <2>2. /\ proposal[n].status = "pending" /\ proposal' = [proposal EXCEPT ![n] = Accepted]
          /\ cards' = cards \ {<<n, "ask">>} /\ UNCHANGED <<plan, pc>> /\ calls' = Sent(n, "human")
      BY <1>12, Zenon DEF Accept
    <2>3. "human" \in Deciders
      BY Zenon DEF Deciders
    <2> QED
      BY <2>1, <2>2, <2>3, <1>11, Zenon DEF AskRow
  <1>13. ASSUME NEW n \in Prs, Reject(n) PROVE Kept'
    <2> DEFINE r == [NoAsk EXCEPT !.status = "rejected"]
    <2>1. AskRow(r, "rejected", FALSE)
      BY AskRows, Zenon
    <2>2. /\ proposal[n].status = "pending" /\ proposal' = [proposal EXCEPT ![n] = r]
          /\ cards' = cards \ {<<n, "ask">>} /\ UNCHANGED <<plan, pc>> /\ calls' = calls
      BY <1>13, Zenon DEF Reject
    <2> HIDE DEF r
    <2> QED
      BY <2>1, <2>2, <1>11, Zenon DEF AskRow
  <1>14. ASSUME NEW n \in Prs, AnswerCard(n) PROVE Kept'
    <2>1. UNCHANGED <<proposal, plan, pc, calls>> /\ cards' = cards \ {<<n, "failed">>}
      BY <1>14, Zenon DEF AnswerCard
    <2>2. \A m \in Prs : <<m, "ask">> \in cards' <=> <<m, "ask">> \in cards
      BY <2>1, <1>k, SMT
    <2> QED
      BY <2>1, <2>2, QuietStep, Zenon DEF Kept, PlanIsFree
  <1>15. CASE \/ Revoke \/ \E r \in Stacks : Land(r)
              \/ \E n \in Prs : HealthMoves(n) \/ SettledElsewhere(n) \/ Ages(n)
    <2>1. UNCHANGED <<proposal, calls, plan, pc, cards>>
      BY <1>15, Zenon DEF Revoke, Land, HealthMoves, SettledElsewhere, Ages
    <2> QED
      BY <2>1, QuietStep, Zenon DEF Kept, PlanIsFree
  <1>16. CASE Crash
    <2>1. UNCHANGED <<proposal, cards>> /\ plan' = {} /\ calls' = {}
      BY <1>16, Zenon DEF Crash
    <2> QED
      BY <2>1, QuietStep, Zenon
  <1> QED
    BY <1>1, <1>2, <1>3, <1>4, <1>5, <1>6, <1>7, <1>8, <1>9, <1>10, <1>12, <1>13, <1>14, <1>15, <1>16,
       Zenon DEF Next, PulseStep, CallStep, Lapse, Operator, Provider

-----------------------------------------------------------------------------
LEMMA MergesInit == Init => TypeOK /\ Kept
  <1> SUFFICES ASSUME Init PROVE TypeOK /\ Kept
    OBVIOUS
  <1>1. world \in [Prs -> Rungs]
    BY SMT DEF Init, Rungs, Healths
  <1>2. snap \in [Prs -> Seen]
    <2>1. ASSUME NEW n \in Prs
          PROVE  [state   |-> IF Open(n) \/ n \in window THEN world[n].state ELSE "gone",
                  health  |-> world[n].health,
                  stacked |-> Open(n) /\ Stacked(n)] \in Seen
      <3> DEFINE st == IF Open(n) \/ n \in window THEN world[n].state ELSE "gone"
                 sk == Open(n) /\ Stacked(n)
      <3>1. world[n].state \in {"open", "merged", "closed"} /\ world[n].health \in Healths
        BY <1>1, SMT DEF Rungs
      <3>2. st \in {"open", "merged", "closed", "gone"} /\ sk \in BOOLEAN
        BY <3>1, Zenon DEF Open, Stacked
      <3> HIDE DEF st, sk
      <3>3. [state |-> st, health |-> world[n].health, stacked |-> sk] \in Seen
        BY <3>1, <3>2, SMT DEF Seen
      <3> QED
        BY <3>3, Zenon DEF st, sk
    <2> QED
      BY <2>1, Zenon DEF Init, Reading
  <1>3. proposal \in [Prs -> Proposals] /\ \A n \in Prs : proposal[n].status = "none"
    BY AskRows, Zenon DEF Init, AskRow
  <1>4. TypeOK
    BY <1>1, <1>2, <1>3, MergesAssumption, SMT DEF Init, TypeOK, Rungs, Seen, Proposals, Statuses
  <1>5. Kept
    BY <1>3, SMT DEF Init, Kept, PlanIsFree, CallIsHeld, OneCallAtATime, AskHasItsCard
  <1> QED
    BY <1>4, <1>5

LEMMA MergesInvariant == Spec => [](TypeOK /\ Kept)
  <1>1. TypeOK /\ Kept /\ [Next]_vars => (TypeOK /\ Kept)'
    BY TypeNext, KeptNext, Zenon
  <1> QED
    BY MergesInit, <1>1, PTL DEF Spec

(* Every record of the merges keeps its shape: for a stack of any height.  *)
THEOREM MergesTypeCorrect == Spec => []TypeOK
  BY MergesInvariant, PTL

(* No pull request has two merge calls under way, although the operator's  *)
(* accept and the executor's send are both made on readings of their own   *)
(* (proposalHold asked by the decision and again by authorize).            *)
THEOREM OneCallAlways == Spec => []OneCallAtATime
  <1>1. Kept => OneCallAtATime
    BY DEF Kept
  <1> QED
    BY MergesInvariant, <1>1, PTL

(* An ask and its card come and go together, whether the operator answers  *)
(* it or the desk withdraws it (decideProposal, tidySettledMerges): the    *)
(* first half of CardsFollowAsks.                                          *)
THEOREM AskAlwaysHasItsCard == Spec => []AskHasItsCard
  <1>1. Kept => AskHasItsCard
    BY DEF Kept
  <1> QED
    BY MergesInvariant, <1>1, PTL

(* A refusal stands until the world moves, under every pulse and landing.  *)
THEOREM RefusalAlwaysHolds == Spec => RefusalHolds
  <1> DEFINE Refused(n) == proposal[n].status = "rejected" /\ ~proposal[n].moved
             Stands == \A n \in Prs : Refused(n) => proposal'[n].status = "rejected"
  <1>1. TypeOK /\ Kept /\ [Next]_vars => [Stands]_vars
    <2> SUFFICES ASSUME TypeOK, Kept, Next, NEW n \in Prs, Refused(n)
                 PROVE  proposal'[n].status = "rejected"
      BY Zenon
    <2> USE DEF provider, memory, record
    <2>1. n \notin plan /\ proposal[n].status # "pending"
      BY Zenon DEF Kept, PlanIsFree, Held
    <2>2. ASSUME NEW m \in Prs, NEW r, m # n, proposal' = [proposal EXCEPT ![m] = r]
          PROVE  proposal'[n].status = "rejected"
      BY <2>2, SMT DEF TypeOK
    <2>3. CASE proposal' = proposal
      BY <2>3, Zenon
    <2>4. CASE Read
      <3> DEFINE b == proposal[n].moved \/ (proposal[n].status = "rejected" /\ Reading[n] # snap[n])
                 r == [proposal[n] EXCEPT !.moved = b]
      <3>1. proposal'[n] = r
        BY <2>4, Zenon DEF Read
      <3>2. proposal[n] \in Proposals /\ b \in BOOLEAN
        BY Zenon DEF TypeOK, Proposals, Statuses
      <3> HIDE DEF b
      <3>3. r.status = proposal[n].status
        BY <3>2, LoosenedRows, SMT
      <3> QED
        BY <3>1, <3>3, Zenon
    <2>5. CASE TidySettledMerges
      BY <2>1, <2>5, Zenon DEF TidySettledMerges
    <2>6. ASSUME NEW m \in Prs, Propose(m) \/ SendForLanding(m) \/ Accept(m) \/ Reject(m)
          PROVE  proposal'[n].status = "rejected"
      <3>1. m # n /\ \E r : proposal' = [proposal EXCEPT ![m] = r]
        BY <2>1, <2>6, Zenon DEF Propose, SendForLanding, Accept, Reject
      <3> QED
        BY <3>1, <2>2, Zenon
    <2>7. ASSUME NEW m \in Prs, Lapses(m) PROVE proposal'[n].status = "rejected"
      <3> DEFINE r == [proposal[n] EXCEPT !.settling = FALSE]
      <3>1. m # n => \E q : proposal' = [proposal EXCEPT ![m] = q]
        BY <2>7, Zenon DEF Lapses
      <3>2. m = n => proposal'[n] = r
        BY <2>7, Zenon DEF Lapses, TypeOK
      <3>3. r.status = proposal[n].status
        <4>1. proposal[n] \in Proposals
          BY Zenon DEF TypeOK, Proposals, Statuses
        <4> QED
          BY <4>1, LoosenedRows, Zenon
      <3> QED
        BY <3>1, <3>2, <3>3, <2>2, Zenon
    <2>8. \/ proposal' = proposal \/ Read \/ TidySettledMerges
          \/ \E m \in Prs : \/ Propose(m) \/ SendForLanding(m) \/ Accept(m) \/ Reject(m)
                            \/ Lapses(m)
      BY Zenon DEF Next, ReadNothing, PulseStep, SettleLandings, RecordGraph, Decide, EndPulse,
                   CallStep, Answered, Lapse, Operator, AnswerCard, Land, Revoke,
                   Provider, HealthMoves, SettledElsewhere, Ages, Crash
    <2> QED
      BY <2>3, <2>4, <2>5, <2>6, <2>7, <2>8, Zenon
  <1> QED
    BY MergesInvariant, <1>1, PTL DEF Spec, RefusalHolds
=============================================================================
