----------------------------- MODULE PoolProofs -----------------------------
(***************************************************************************)
(* What WorktreePool keeps for any number of branches, read-only keys,     *)
(* slots and operations waiting, whoever moves a HEAD, whichever orphan is *)
(* restored and however dispatches overlap the exits of agents.  After the *)
(* rule: that the pool implements Tenancy.                                 *)
(*                                                                         *)
(* The accounting of leases needs three facts the property does not state: *)
(* at most one dispatch waits in the queue and its name has no other row   *)
(* (WaitPart), an operation past its survey is that dispatch's or a warm   *)
(* (StepPart), and who holds a name has a directory on record (HomePart).  *)
(***************************************************************************)
EXTENDS WorktreePool, TLAPS, WellFoundedInduction, FiniteSetTheorems

Rows == {"none", "asked", "active", "orphan", "ejected"}
Entries == [kind : Kinds, name : Names \cup {None}]

(* The type of each variable, grouped as the state is. *)
DiskType ==
    /\ head \in [Slots -> Branches \cup {Detached, Absent}]
    /\ edits \in [Slots -> Names \cup {None}]
    /\ built \in [Slots -> SUBSET (Branches \cup Refs)]
    /\ mark \in [Slots -> Keys \cup {None}]
    /\ branches \subseteq Branches
    /\ condemned \subseteq Slots
PoolType ==
    /\ lease \in [Names -> Slots \cup {None}]
    /\ queue \in Seq(Entries)
OpType ==
    /\ step \in {"survey", "wipe", "switch"}
    /\ slot \in IF step = "survey" THEN {None} ELSE Slots
    /\ target \in Names \cup {None}
    /\ report \in BOOLEAN
    /\ saved \subseteq Names
    /\ verdict \in {"none", "exhausted"}
FleetType ==
    /\ task \in [Names -> Rows]
    /\ home \in [Names -> Slots \cup {None}]
    /\ leaving \in [Names -> Slots \cup {None, Absent}]

(* What waits in the queue: a release and a dispatch name something, a     *)
(* reap a branch, and the one dispatch that waits is for a name that has   *)
(* been asked for and nothing more.                                        *)
WaitOK(q, rows) ==
    \A i \in 1..Len(q) :
        /\ q[i].kind \in {"ensure", "release"} => q[i].name \in Names
        /\ q[i].kind = "reap" => q[i].name \in Branches
        /\ q[i].kind = "ensure" =>
             /\ rows[q[i].name] = "asked"
             /\ \A j \in 1..Len(q) : q[j].kind = "ensure" => i = j
WaitPart == WaitOK(queue, task)
Released(q, n) == \E i \in 1..Len(q) : q[i].kind = "release" /\ q[i].name = n

(* An operation past its survey is the running dispatch's or a warm. *)
StepPart ==
    step # "survey" =>
        /\ queue # <<>>
        /\ Head(queue).kind \in {"ensure", "warm"}
        /\ target \in Names
        /\ Head(queue).kind = "ensure" => target = Head(queue).name

(* Who holds a name has a directory on record, nobody else has. *)
HomePart == \A n \in Names : IF Held(n) THEN home[n] \in Slots ELSE home[n] = None

(* An orphan's process is gone. *)
OrphanPart == \A n \in Names : task[n] = "orphan" => leaving[n] = None

(* No more ejections stand than may. *)
EjectPart == Cardinality({n \in Names : task[n] = "ejected"}) <= MaxEjections

(* What the queue, the rows and the leases say of one another; and the     *)
(* whole of the invariant.                                                 *)
Book ==
    /\ PoolType /\ FleetType
    /\ WaitPart /\ HomePart /\ OrphanPart /\ LeaseIsAccounted
IInv == DiskType /\ OpType /\ StepPart /\ Book /\ EjectPart

-----------------------------------------------------------------------------
(* A set of slots has a least one: the order of Nat is well founded. *)
LEMMA LeastFound ==
  ASSUME NEW S, S \subseteq Slots, S # {}
  PROVE  Least(S) \in S /\ \A t \in S : Least(S) <= t
  <1> DEFINE R == {ss \in Nat \X Nat : ss[1] < ss[2]}
  <1>1. IsWellFoundedOn(R, Nat)
    BY NatLessThanWellFounded DEF OpToRel
  <1>2. \A x, y \in Nat : x < y => <<x, y>> \in R
    OBVIOUS
  <1>3. S \subseteq Nat
    BY PoolAssumption, SMT DEF Slots
  <1> HIDE DEF R
  <1>4. PICK s \in S : \A t \in S : ~(<<t, s>> \in R)
    BY <1>1, <1>3, WFMin, Zenon
  <1>5. \A t \in S : ~(t < s)
    BY <1>2, <1>3, <1>4, Zenon
  <1>6. \A t \in S : t \in Nat /\ s \in Nat
    BY <1>3
  <1>7. \A t \in S : s <= t
    BY <1>5, <1>6, SMT
  <1> QED
    BY <1>7, Zenon DEF Least

(* A slot is no marker and no name of a branch. *)
LEMMA Apart ==
  /\ None \notin Slots /\ Absent \notin Slots /\ None # Absent
  /\ None \notin Names /\ Absent \notin Names /\ Detached \notin Names
  /\ Detached # None /\ Detached # Absent
  /\ Branches \subseteq Names /\ Keys \subseteq Names /\ Branches \cap Keys = {}
  BY PoolAssumption, MarkersAssumption, Zenon DEF Names

-----------------------------------------------------------------------------
(* The queue: what its head, its tail and an append leave of the rest. *)
LEMMA QueueOps ==
  ASSUME NEW q \in Seq(Entries)
  PROVE  /\ q # <<>> =>
              /\ Head(q) \in Entries /\ Tail(q) \in Seq(Entries)
              /\ 1 \in 1..Len(q) /\ Head(q) = q[1]
              /\ \A i \in 1..Len(Tail(q)) : i + 1 \in 1..Len(q) /\ Tail(q)[i] = q[i + 1]
              /\ \A i \in 1..Len(q) : i = 1 \/ (i - 1 \in 1..Len(Tail(q)) /\ Tail(q)[i - 1] = q[i])
         /\ \A e \in Entries :
              /\ Append(q, e) \in Seq(Entries)
              /\ Append(q, e) # <<>>
              /\ Len(q) + 1 \in 1..Len(Append(q, e)) /\ Append(q, e)[Len(q) + 1] = e
              /\ q # <<>> => Head(Append(q, e)) = Head(q)
              /\ \A i \in 1..Len(q) : i \in 1..Len(Append(q, e)) /\ Append(q, e)[i] = q[i]
              /\ \A i \in 1..Len(Append(q, e)) : i \in 1..Len(q) \/ i = Len(q) + 1
  <1>1. ASSUME q # <<>>
        PROVE  /\ Head(q) \in Entries /\ Tail(q) \in Seq(Entries)
               /\ 1 \in 1..Len(q) /\ Head(q) = q[1]
               /\ \A i \in 1..Len(Tail(q)) : i + 1 \in 1..Len(q) /\ Tail(q)[i] = q[i + 1]
               /\ \A i \in 1..Len(q) : i = 1 \/ (i - 1 \in 1..Len(Tail(q)) /\ Tail(q)[i - 1] = q[i])
    BY <1>1, SMT
  <1>2. ASSUME NEW e \in Entries
        PROVE  /\ Append(q, e) \in Seq(Entries)
               /\ Append(q, e) # <<>>
               /\ Len(q) + 1 \in 1..Len(Append(q, e)) /\ Append(q, e)[Len(q) + 1] = e
               /\ q # <<>> => Head(Append(q, e)) = Head(q)
               /\ \A i \in 1..Len(q) : i \in 1..Len(Append(q, e)) /\ Append(q, e)[i] = q[i]
               /\ \A i \in 1..Len(Append(q, e)) : i \in 1..Len(q) \/ i = Len(q) + 1
    <2>a. Append(q, e) \in Seq(Entries)
      BY <1>2, SMT
    <2>2. Len(Append(q, e)) = Len(q) + 1 /\ Len(q) \in Nat
      BY <1>2, SMT
    <2>b. Append(q, e) # <<>>
      BY <2>2, SMT
    <2>1. Append(q, e) \in Seq(Entries) /\ Append(q, e) # <<>>
      BY <2>a, <2>b
    <2>3. Append(q, e)[Len(q) + 1] = e
      BY <1>2, SMT
    <2>4. \A i \in 1..Len(q) : Append(q, e)[i] = q[i]
      BY <1>2, SMT
    <2>5. q # <<>> => Head(q) = q[1] /\ 1 \in 1..Len(q)
      BY <1>1
    <2>6. Head(Append(q, e)) = Append(q, e)[1]
      BY <2>1, SMT
    <2>7. q # <<>> => Head(Append(q, e)) = Head(q)
      BY <2>4, <2>5, <2>6, Zenon
    <2>8. /\ Len(q) + 1 \in 1..Len(Append(q, e))
          /\ \A i \in 1..Len(q) : i \in 1..Len(Append(q, e))
          /\ \A i \in 1..Len(Append(q, e)) : i \in 1..Len(q) \/ i = Len(q) + 1
      BY <2>2, SMT
    <2> QED
      BY <2>1, <2>3, <2>4, <2>7, <2>8
  <1> QED
    BY <1>1, <1>2

(* What runs, by kind. *)
LEMMA HeadTyped ==
  ASSUME queue \in Seq(Entries), WaitPart, queue # <<>>
  PROVE  /\ Running("ensure") => Asked \in Names /\ task[Asked] = "asked"
         /\ Running("release") => Asked \in Names
         /\ Running("reap") => Asked \in Branches
  BY QueueOps, SMT DEF WaitPart, WaitOK, Running, Asked

(* The head leaves the queue, and with a dispatch its row may change: what *)
(* else waits goes on waiting, and no other dispatch does.                 *)
LEMMA WaitTail ==
  ASSUME NEW q \in Seq(Entries), NEW t, NEW u, WaitOK(q, t), q # <<>>,
         \A n \in Names : \/ u[n] = t[n] \/ t[n] # "asked"
                          \/ Head(q).kind = "ensure" /\ n = Head(q).name
  PROVE  /\ Tail(q) \in Seq(Entries)
         /\ WaitOK(Tail(q), u)
         /\ \A n : Released(q, n) => \/ Released(Tail(q), n)
                                     \/ Head(q).kind = "release" /\ n = Head(q).name
         /\ Head(q).kind = "ensure" => \A i \in 1..Len(Tail(q)) : Tail(q)[i].kind # "ensure"
  <1> DEFINE r == Tail(q)
  <1>1. /\ r \in Seq(Entries) /\ q[1] = Head(q) /\ 1 \in 1..Len(q)
        /\ \A i \in 1..Len(r) : i + 1 \in 1..Len(q) /\ r[i] = q[i + 1]
        /\ \A i \in 1..Len(q) : i = 1 \/ (i - 1 \in 1..Len(r) /\ r[i - 1] = q[i])
    BY QueueOps
  <1> HIDE DEF r
  <1>2. ASSUME NEW i \in 1..Len(r)
        PROVE  /\ i + 1 \in 1..Len(q) /\ q[i + 1] = r[i] /\ i + 1 # 1
               /\ \A j \in 1..Len(r) : i + 1 = j + 1 => i = j
    BY <1>1, SMT
  <1>3. ASSUME NEW i \in 1..Len(r), r[i].kind = "ensure"
        PROVE  /\ Head(q).kind # "ensure"
               /\ u[r[i].name] = "asked"
               /\ \A j \in 1..Len(r) : r[j].kind = "ensure" => i = j
    <2>2. /\ q[i + 1].name \in Names /\ t[q[i + 1].name] = "asked"
          /\ \A j \in 1..Len(q) : q[j].kind = "ensure" => i + 1 = j
      BY <1>2, <1>3, SMT DEF WaitOK
    <2>3. Head(q).kind # "ensure"
      BY <1>1, <1>2, <2>2, SMT
    <2>4. \A j \in 1..Len(r) : r[j].kind = "ensure" => i = j
      BY <1>2, <2>2, SMT
    <2> QED
      BY <1>2, <2>2, <2>3, <2>4, SMT
  <1>4. WaitOK(r, u)
    BY <1>2, <1>3, SMT DEF WaitOK
  <1>5. ASSUME NEW n, Released(q, n)
        PROVE  Released(r, n) \/ (Head(q).kind = "release" /\ n = Head(q).name)
    <2>1. PICK i \in 1..Len(q) : q[i].kind = "release" /\ q[i].name = n
      BY <1>5, Zenon DEF Released
    <2>2. CASE i = 1
      BY <1>1, <2>1, <2>2, Zenon
    <2>3. CASE i # 1
      BY <1>1, <2>1, <2>3, Zenon DEF Released
    <2> QED
      BY <2>2, <2>3
  <1> QED
    BY <1>1, <1>3, <1>4, <1>5, Zenon DEF r

(* An entry joins the queue. *)
LEMMA WaitAppend ==
  ASSUME NEW q \in Seq(Entries), NEW k \in Kinds, NEW m \in Names \cup {None},
         NEW t, WaitOK(q, t),
         k \in {"ensure", "release"} => m \in Names,
         k = "reap" => m \in Branches,
         k = "ensure" => t[m] = "asked" /\ \A i \in 1..Len(q) : q[i].kind # "ensure"
  PROVE  LET p == Append(q, [kind |-> k, name |-> m])
         IN  /\ p \in Seq(Entries)
             /\ WaitOK(p, t)
             /\ \A n : Released(q, n) => Released(p, n)
             /\ k = "release" => Released(p, m)
             /\ q # <<>> => Head(p) = Head(q)
             /\ p # <<>>
  <1> DEFINE e == [kind |-> k, name |-> m]
             p == Append(q, e)
  <1>0. e \in Entries /\ e.kind = k /\ e.name = m
    BY SMT DEF Entries
  <1> HIDE DEF e
  <1>1. /\ p \in Seq(Entries) /\ Len(q) + 1 \in 1..Len(p) /\ p[Len(q) + 1] = e
        /\ \A i \in 1..Len(q) : i \in 1..Len(p) /\ p[i] = q[i]
        /\ \A i \in 1..Len(p) : i \in 1..Len(q) \/ i = Len(q) + 1
        /\ q # <<>> => Head(p) = Head(q)
        /\ p # <<>>
    BY <1>0, QueueOps
  <1> HIDE DEF p
  <1>3. WaitOK(p, t)
    BY <1>0, <1>1, SMT DEF WaitOK
  <1>4. \A n : Released(q, n) => Released(p, n)
    BY <1>1, SMT DEF Released
  <1>5. k = "release" => Released(p, m)
    BY <1>0, <1>1, SMT DEF Released
  <1> QED
    BY <1>1, <1>3, <1>4, <1>5 DEF p, e

-----------------------------------------------------------------------------
(* The book through an operation that ends in a grant: the name that runs  *)
(* is asked for, so it has no directory and no orphan stands under it.     *)
LEMMA GrantedBook ==
  ASSUME Book, Running("ensure"), NEW s \in Slots, Granted(Asked, s)
  PROVE  Book'
  <1> DEFINE n == Asked
  <1>q. queue \in Seq(Entries) /\ WaitPart /\ queue # <<>>
    BY SMT DEF Book, PoolType, Running
  <1>n. n \in Names /\ task[n] = "asked"
    BY <1>q, HeadTyped
  <1>h. home[n] = None /\ ~Held(n)
    BY <1>n, SMT DEF Book, HomePart, Held
  <1>1. lease' = [lease EXCEPT ![n] = s] /\ leaving' = leaving
    BY Zenon DEF Granted
  <1>2. \/ /\ task' = [task EXCEPT ![n] = "active"] /\ home' = [home EXCEPT ![n] = s]
           /\ queue' = Tail(queue)
        \/ /\ task' = [task EXCEPT ![n] = "none"] /\ home' = home
           /\ queue' = Append(Tail(queue), [kind |-> "release", name |-> n])
    BY Zenon DEF Granted
  <1> HIDE DEF n
  <1>3. lease' \in [Names -> Slots \cup {None}] /\ FleetType'
    BY <1>n, <1>1, <1>2, SMT DEF Book, PoolType, FleetType, Rows
  <1>4. HomePart'
    BY <1>n, <1>h, <1>2, <1>3, Apart, SMT DEF Book, HomePart, Held, FleetType
  <1>5. OrphanPart'
    BY <1>n, <1>1, <1>2, <1>3, SMT DEF Book, OrphanPart, FleetType
  <1>6. /\ \A m \in Names : m # n => task'[m] = task[m] /\ lease'[m] = lease[m]
        /\ task'[n] \in {"active", "none"}
    BY <1>n, <1>1, <1>2, SMT DEF Book, PoolType, FleetType
  <1>7. /\ queue' \in Seq(Entries) /\ WaitPart'
        /\ \A m : Released(queue, m) => Released(queue', m)
        /\ task'[n] # "active" => Released(queue', n)
    <2>0. Head(queue).kind = "ensure" /\ Head(queue).name = n /\ WaitOK(queue, task)
      BY <1>q, Zenon DEF Running, Asked, n, WaitPart
    <2>1. \A m \in Names : task'[m] = task[m] \/ m = Head(queue).name
      BY <1>6, <2>0, Zenon
    <2>2. /\ Tail(queue) \in Seq(Entries) /\ WaitOK(Tail(queue), task')
          /\ \A m : Released(queue, m) => Released(Tail(queue), m)
      <3>1. "ensure" # "release"
        OBVIOUS
      <3> QED
        BY <1>q, <2>0, <2>1, <3>1, WaitTail, Zenon
    <2>3. CASE queue' = Tail(queue) /\ task' = [task EXCEPT ![n] = "active"]
      <3>1. task'[n] = "active"
        BY <1>n, <2>3, SMT DEF Book, FleetType
      <3> QED
        BY <2>2, <2>3, <3>1, Zenon DEF WaitPart
    <2>4. CASE queue' = Append(Tail(queue), [kind |-> "release", name |-> n])
      <3>1. "release" \in Kinds /\ n \in Names \cup {None} /\ "release" # "reap" /\ "release" # "ensure"
        BY <1>n, SMT DEF Kinds
      <3> QED
        BY <1>n, <2>2, <2>4, <3>1, WaitAppend, Zenon DEF WaitPart
    <2> QED
      BY <1>2, <2>3, <2>4
  <1>8. LeaseIsAccounted'
    <2> SUFFICES ASSUME NEW m \in Names, lease'[m] # None
                 PROVE  task'[m] = "active" \/ leaving'[m] # None \/ Released(queue', m)
      BY Zenon DEF LeaseIsAccounted, WaitsFor, Released
    <2>1. CASE m = n
      BY <1>7, <2>1, Zenon
    <2>2. CASE m # n
      BY <1>1, <1>6, <1>7, <2>2, Zenon DEF Book, LeaseIsAccounted, WaitsFor, Released
    <2> QED
      BY <2>1, <2>2
  <1> QED
    BY <1>3, <1>4, <1>5, <1>7, <1>8, Zenon DEF Book, PoolType

(* The book from what a step makes of each name. *)
LEMMA BookOf ==
  ASSUME PoolType', FleetType', WaitPart',
         \A n \in Names :
            /\ IF task'[n] \in {"active", "orphan", "ejected"} THEN home'[n] \in Slots
                                                               ELSE home'[n] = None
            /\ task'[n] = "orphan" => leaving'[n] = None
            /\ lease'[n] # None => \/ task'[n] = "active" \/ leaving'[n] # None
                                   \/ Released(queue', n)
  PROVE  Book'
  BY Zenon DEF Book, HomePart, Held, OrphanPart, LeaseIsAccounted, WaitsFor, Released

(* And what it says of each name. *)
LEMMA BookSays ==
  ASSUME Book, NEW n \in Names
  PROVE  /\ task[n] \in Rows /\ lease[n] \in Slots \cup {None}
         /\ home[n] \in Slots \cup {None} /\ leaving[n] \in Slots \cup {None, Absent}
         /\ IF task[n] \in {"active", "orphan", "ejected"} THEN home[n] \in Slots
                                                           ELSE home[n] = None
         /\ task[n] = "orphan" => leaving[n] = None
         /\ lease[n] # None => \/ task[n] = "active" \/ leaving[n] # None
                               \/ Released(queue, n)
  <1>1. /\ task[n] \in Rows /\ lease[n] \in Slots \cup {None}
        /\ home[n] \in Slots \cup {None} /\ leaving[n] \in Slots \cup {None, Absent}
    BY SMT DEF Book, PoolType, FleetType
  <1> QED
    BY <1>1, Zenon DEF Book, HomePart, Held, OrphanPart, LeaseIsAccounted, WaitsFor, Released

(* A dispatch that is refused: its row is settled and a release waits. *)
LEMMA RejectedBook ==
  ASSUME Book, Running("ensure"), NEW how, Rejected(Asked, how)
  PROVE  Book'
  <1> DEFINE n == Asked
  <1>q. queue \in Seq(Entries) /\ WaitPart /\ queue # <<>>
    BY SMT DEF Book, PoolType, Running
  <1>n. n \in Names /\ task[n] = "asked"
    BY <1>q, HeadTyped
  <1>0. Head(queue).kind = "ensure" /\ Head(queue).name = n /\ WaitOK(queue, task)
    BY <1>q, Zenon DEF Running, Asked, WaitPart
  <1>1. /\ task' = [task EXCEPT ![n] = "none"]
        /\ queue' = Append(Tail(queue), [kind |-> "release", name |-> n])
        /\ UNCHANGED <<lease, home, leaving>>
    BY Zenon DEF Rejected, pool
  <1> HIDE DEF n
  <1>2. FleetType' /\ task'[n] = "none" /\ \A m \in Names : m # n => task'[m] = task[m]
    BY <1>n, <1>1, SMT DEF Book, FleetType, Rows
  <1>3. /\ Tail(queue) \in Seq(Entries) /\ WaitOK(Tail(queue), task')
        /\ \A m : Released(queue, m) => Released(Tail(queue), m)
    <2>1. "ensure" # "release"
      OBVIOUS
    <2> QED
      BY <1>q, <1>0, <1>2, <2>1, WaitTail, Zenon
  <1>4. /\ queue' \in Seq(Entries) /\ WaitPart'
        /\ \A m : Released(queue, m) => Released(queue', m)
        /\ Released(queue', n)
    <2>1. "release" \in Kinds /\ n \in Names \cup {None} /\ "release" # "reap" /\ "release" # "ensure"
      BY <1>n, SMT DEF Kinds
    <2> QED
      BY <1>n, <1>1, <1>3, <2>1, WaitAppend, Zenon DEF WaitPart
  <1>5. PoolType'
    BY <1>1, <1>4, Zenon DEF Book, PoolType
  <1>6. ASSUME NEW m \in Names
        PROVE  /\ IF task'[m] \in {"active", "orphan", "ejected"} THEN home'[m] \in Slots
                                                                  ELSE home'[m] = None
               /\ task'[m] = "orphan" => leaving'[m] = None
               /\ lease'[m] # None => \/ task'[m] = "active" \/ leaving'[m] # None
                                      \/ Released(queue', m)
    BY <1>n, <1>1, <1>2, <1>4, BookSays, SMT
  <1> QED
    BY <1>2, <1>4, <1>5, <1>6, BookOf

(* A sweep ends nobody's accounting: who has yet to exit still has. *)
LEMMA SweepKeeps ==
  ASSUME Book, NEW s \in Slots \cup {None}, Swept(s) \/ UNCHANGED leaving, s # None \/ UNCHANGED leaving
  PROVE  /\ leaving' \in [Names -> Slots \cup {None, Absent}]
         /\ \A n \in Names : leaving'[n] = None <=> leaving[n] = None
  <1>1. leaving \in [Names -> Slots \cup {None, Absent}]
    BY DEF Book, FleetType
  <1>2. CASE UNCHANGED leaving
    BY <1>1, <1>2
  <1>3. CASE s # None /\ leaving' = [n \in Names |-> IF leaving[n] = s THEN Absent ELSE leaving[n]]
    BY <1>1, <1>3, Apart, SMT
  <1> QED
    BY <1>2, <1>3, Zenon DEF Swept

(* An operation that asks nothing of rows and leases, at most a sweep. *)
LEMMA QuietBook ==
  ASSUME Book, UNCHANGED <<queue, lease, task, home>>,
         leaving' \in [Names -> Slots \cup {None, Absent}],
         \A n \in Names : leaving'[n] = None <=> leaving[n] = None
  PROVE  Book'
  <1>1. PoolType' /\ FleetType' /\ WaitPart'
    BY Zenon DEF Book, PoolType, FleetType, WaitPart
  <1>2. ASSUME NEW m \in Names
        PROVE  /\ IF task'[m] \in {"active", "orphan", "ejected"} THEN home'[m] \in Slots
                                                                  ELSE home'[m] = None
               /\ task'[m] = "orphan" => leaving'[m] = None
               /\ lease'[m] # None => \/ task'[m] = "active" \/ leaving'[m] # None
                                      \/ Released(queue', m)
    BY BookSays, Zenon
  <1> QED
    BY <1>1, <1>2, BookOf

(* One that is over and was no dispatch: it may drop the lease of the name *)
(* it was for, and a release does.                                         *)
LEMMA EndedBook ==
  ASSUME Book, queue # <<>>, ~Running("ensure"), queue' = Tail(queue), UNCHANGED <<task, home>>,
         leaving' \in [Names -> Slots \cup {None, Absent}],
         \A n \in Names : leaving'[n] = None <=> leaving[n] = None,
         UNCHANGED lease \/ lease' = [lease EXCEPT ![Asked] = None],
         Running("release") => lease' = [lease EXCEPT ![Asked] = None]
  PROVE  Book'
  <1>q. queue \in Seq(Entries) /\ WaitPart
    BY DEF Book, PoolType
  <1>1. lease' \in [Names -> Slots \cup {None}] /\ FleetType'
    BY SMT DEF Book, PoolType, FleetType
  <1>2. \A m \in Names : /\ lease'[m] = lease[m] \/ lease'[m] = None
                         /\ Running("release") /\ m = Asked => lease'[m] = None
    BY SMT DEF Book, PoolType
  <1>3. /\ queue' \in Seq(Entries) /\ WaitPart'
        /\ \A m : Released(queue, m) => Released(queue', m) \/ (Running("release") /\ m = Asked)
    BY <1>q, WaitTail, Zenon DEF WaitPart, Running, Asked
  <1>4. PoolType'
    BY <1>1, <1>3, Zenon DEF PoolType
  <1>5. ASSUME NEW m \in Names
        PROVE  /\ IF task'[m] \in {"active", "orphan", "ejected"} THEN home'[m] \in Slots
                                                                  ELSE home'[m] = None
               /\ task'[m] = "orphan" => leaving'[m] = None
               /\ lease'[m] # None => \/ task'[m] = "active" \/ leaving'[m] # None
                                      \/ Released(queue', m)
    BY <1>2, <1>3, BookSays, Zenon
  <1> QED
    BY <1>1, <1>3, <1>4, <1>5, BookOf

(* A caller asks for an operation and touches no row. *)
LEMMA AskedBook ==
  ASSUME Book, NEW k \in Kinds \ {"ensure"}, NEW m \in Names \cup {None}, Asks(k, m),
         k = "release" => m \in Names, k = "reap" => m \in Branches,
         UNCHANGED <<lease, task, home>>,
         leaving' \in [Names -> Slots \cup {None, Absent}],
         \A n \in Names : \/ leaving'[n] = leaving[n]
                          \/ leaving'[n] = None /\ (k = "release" /\ n = m)
  PROVE  Book'
  <1>q. queue \in Seq(Entries) /\ WaitOK(queue, task)
    BY DEF Book, PoolType, WaitPart
  <1>1. queue' = Append(queue, [kind |-> k, name |-> m]) /\ k \in Kinds /\ k # "ensure"
    BY Zenon DEF Asks
  <1>2. /\ queue' \in Seq(Entries) /\ WaitPart'
        /\ \A n : Released(queue, n) => Released(queue', n)
        /\ k = "release" => Released(queue', m)
    <2>1. k \in {"ensure", "release"} => m \in Names
      BY <1>1
    <2> QED
      BY <1>q, <1>1, <2>1, WaitAppend, Zenon DEF WaitPart
  <1>3. PoolType' /\ FleetType'
    BY <1>2, Zenon DEF Book, PoolType, FleetType
  <1>4. ASSUME NEW n \in Names
        PROVE  /\ IF task'[n] \in {"active", "orphan", "ejected"} THEN home'[n] \in Slots
                                                                  ELSE home'[n] = None
               /\ task'[n] = "orphan" => leaving'[n] = None
               /\ lease'[n] # None => \/ task'[n] = "active" \/ leaving'[n] # None
                                      \/ Released(queue', n)
    BY <1>2, BookSays, Zenon
  <1> QED
    BY <1>2, <1>3, <1>4, BookOf

(* A caller changes one row, that of no dispatch that waits. *)
LEMMA RowBook ==
  ASSUME Book, NEW n \in Names, task[n] # "asked", UNCHANGED <<queue, lease>>, FleetType',
         \A m \in Names \ {n} : task'[m] = task[m] /\ home'[m] = home[m] /\ leaving'[m] = leaving[m],
         IF task'[n] \in {"active", "orphan", "ejected"} THEN home'[n] \in Slots ELSE home'[n] = None,
         task'[n] = "orphan" => leaving'[n] = None,
         lease[n] # None => task'[n] = "active" \/ leaving'[n] # None \/ Released(queue, n)
  PROVE  Book'
  <1>1. WaitPart'
    <2>1. \A m \in Names : task'[m] = task[m] \/ task[m] # "asked"
      OBVIOUS
    <2>2. WaitOK(queue, task) /\ queue' = queue
      BY Zenon DEF Book, WaitPart
    <2>3. WaitOK(queue, task')
      BY <2>1, <2>2, SMT DEF WaitOK
    <2> QED
      BY <2>2, <2>3, Zenon DEF WaitPart
  <1>2. PoolType'
    BY Zenon DEF Book, PoolType
  <1>3. ASSUME NEW m \in Names
        PROVE  /\ IF task'[m] \in {"active", "orphan", "ejected"} THEN home'[m] \in Slots
                                                                  ELSE home'[m] = None
               /\ task'[m] = "orphan" => leaving'[m] = None
               /\ lease'[m] # None => \/ task'[m] = "active" \/ leaving'[m] # None
                                      \/ Released(queue', m)
    <2>1. CASE m = n
      BY <2>1
    <2>2. CASE m # n
      BY <2>2, BookSays, Zenon
    <2> QED
      BY <2>1, <2>2
  <1> QED
    BY <1>1, <1>2, <1>3, BookOf

(* The slots an operation takes or mints are slots. *)
LEMMA TakenIsSlot ==
  ASSUME NEW n
  PROVE  /\ Reused(n) # {} => Least(Reused(n)) \in Reused(n) /\ Least(Reused(n)) \in Slots
         /\ Mintable # {} => Least(Mintable) \in Mintable /\ Least(Mintable) \in Slots
         /\ Candidates(n) # {} => Least(Candidates(n)) \in Candidates(n) /\ Least(Candidates(n)) \in Slots
         /\ Spare(n) # {} => Least(Spare(n)) \in Spare(n) /\ Least(Spare(n)) \in Slots
  <1>1. Registered \subseteq Slots
    BY DEF Registered
  <1>2. Clean \subseteq Registered
    BY DEF Clean, Open
  <1>3. /\ Warm(n) \subseteq Slots /\ Spare(n) \subseteq Slots /\ Evictable(n) \subseteq Slots
        /\ Own(n) \subseteq Slots /\ On(n) \subseteq Slots /\ Mintable \subseteq Slots
    BY <1>1, <1>2, Zenon DEF Warm, Spare, Evictable, Own, On, Mintable
  <1>4. Reused(n) \subseteq Slots
    BY <1>3, Zenon DEF Reused
  <1>5. Candidates(n) \subseteq Slots
    BY <1>3, Zenon DEF Candidates
  <1> QED
    BY <1>3, <1>4, <1>5, LeastFound, Zenon

(* What runs is one thing, and past its survey it is a dispatch or a warm. *)
LEMMA RunningOne ==
  /\ Running("ensure") => queue # <<>> /\ ~Running("warm") /\ ~Running("release") /\ ~Running("reap")
  /\ Running("warm") => queue # <<>> /\ ~Running("ensure") /\ ~Running("release") /\ ~Running("reap")
  /\ Running("release") => queue # <<>> /\ ~Running("ensure") /\ ~Running("warm") /\ ~Running("reap")
  /\ Running("reap") => queue # <<>> /\ ~Running("ensure") /\ ~Running("warm") /\ ~Running("release")
  BY SMT DEF Running

LEMMA PastSurvey ==
  ASSUME OpType, StepPart, step # "survey"
  PROVE  /\ slot \in Slots /\ target \in Names
         /\ queue # <<>>
         /\ Running("ensure") \/ Running("warm")
         /\ Running("ensure") => target = Asked
  BY SMT DEF OpType, StepPart, Running, Asked

(* Every operation keeps the book. *)
LEMMA OperationBook ==
  ASSUME IInv, Operation
  PROVE  Book'
  <1> USE DEF IInv
  <1>q. queue \in Seq(Entries) /\ WaitPart
    BY DEF Book, PoolType
  <1>l. /\ leaving \in [Names -> Slots \cup {None, Absent}]
        /\ \A n \in Names : leaving[n] = None <=> leaving[n] = None
    BY DEF Book, FleetType
  <1>1. CASE AcquireOwn
    BY <1>1, TakenIsSlot, GrantedBook, Zenon DEF AcquireOwn
  <1>2. CASE AcquireMints
    BY <1>2, TakenIsSlot, GrantedBook, Zenon DEF AcquireMints
  <1>3. CASE AcquireFails \/ AcquireRefuses
    BY <1>3, RejectedBook, Zenon DEF AcquireFails, AcquireRefuses
  <1>4. CASE AcquireTakes \/ PrewarmTakes
    <2>1. UNCHANGED <<queue, lease, task, home, leaving>>
      BY <1>4, Zenon DEF AcquireTakes, PrewarmTakes, HandsOver, pool, fleet
    <2> QED
      BY <1>l, <2>1, QuietBook, Zenon
  <1>5. CASE AcquireSalvages
    <2>1. UNCHANGED <<queue, lease, task, home, leaving>>
      BY <1>5, Zenon DEF AcquireSalvages, fleet
    <2> QED
      BY <1>l, <2>1, QuietBook, Zenon
  <1>6. CASE Wipe
    <2>1. UNCHANGED <<queue, lease, task, home>> /\ Swept(slot) /\ step = "wipe"
      BY <1>6, Zenon DEF Wipe, pool
    <2>2. slot \in Slots
      BY <2>1, PastSurvey, SMT
    <2>3. slot \in Slots \cup {None} /\ slot # None
      BY <2>2, Apart
    <2> QED
      BY <2>1, <2>3, SweepKeeps, QuietBook, Zenon
  <1>7. CASE Refused
    <2>1. /\ UNCHANGED <<lease, task, home>> /\ Swept(slot)
          /\ queue' = IF Running("warm") THEN Tail(queue) ELSE queue
          /\ step \in {"wipe", "switch"}
      BY <1>7, Zenon DEF Refused
    <2>2. slot \in Slots /\ queue # <<>>
      BY <2>1, PastSurvey, SMT
    <2>3. slot \in Slots \cup {None} /\ slot # None
      BY <2>2, Apart
    <2>4. CASE Running("warm")
      <3>1. queue' = Tail(queue) /\ ~Running("ensure") /\ ~Running("release")
        BY <2>1, <2>4, RunningOne, Zenon
      <3> QED
        BY <2>1, <2>2, <2>3, <3>1, SweepKeeps, EndedBook, Zenon
    <2>5. CASE ~Running("warm")
      BY <2>1, <2>3, <2>5, SweepKeeps, QuietBook, Zenon
    <2> QED
      BY <2>4, <2>5
  <1>8. CASE Switch
    <2>1. /\ slot \in Slots /\ queue # <<>> /\ (Running("ensure") => target = Asked)
          /\ Running("ensure") \/ Running("warm")
      BY <1>8, PastSurvey, SMT DEF Switch
    <2>2. CASE Running("ensure")
      <3>1. Granted(Asked, slot)
        BY <1>8, <2>1, <2>2, Zenon DEF Switch
      <3> QED
        BY <2>1, <2>2, <3>1, GrantedBook, Zenon
    <2>3. CASE ~Running("ensure")
      <3>1. queue' = Tail(queue) /\ UNCHANGED <<lease, task, home, leaving>>
        BY <1>8, <2>3, Zenon DEF Switch, Settled, fleet
      <3> QED
        BY <1>l, <2>1, <2>3, <3>1, RunningOne, EndedBook, Zenon
    <2> QED
      BY <2>2, <2>3
  <1>9. CASE PrewarmMints \/ PrewarmEnds \/ ReapRefused
    <2>1. /\ queue' = Tail(queue) /\ UNCHANGED <<lease, task, home, leaving>>
          /\ Running("warm") \/ Running("reap")
      BY <1>9, Zenon DEF PrewarmMints, PrewarmEnds, ReapRefused, Settled, pool, fleet
    <2> QED
      BY <1>l, <2>1, RunningOne, EndedBook, Zenon
  <1>10. CASE Release \/ Reap
    <2>1. /\ queue' = Tail(queue) /\ UNCHANGED <<task, home>>
          /\ lease' = [lease EXCEPT ![Asked] = None]
          /\ IF lease[Asked] = None THEN UNCHANGED leaving ELSE Swept(lease[Asked])
          /\ Running("release") \/ Running("reap")
      BY <1>10, Zenon DEF Release, Reap, Settled
    <2>2. queue # <<>> /\ ~Running("ensure")
      BY <2>1, RunningOne, Zenon
    <2>3. Asked \in Names
      BY <1>q, <2>1, <2>2, HeadTyped, Apart, Zenon
    <2>4. lease[Asked] \in Slots \cup {None}
      BY <2>3, BookSays
    <2>5. Swept(lease[Asked]) \/ UNCHANGED leaving
      BY <2>1
    <2>6. lease[Asked] # None \/ UNCHANGED leaving
      BY <2>1
    <2> HIDE DEF IInv
    <2>7. /\ leaving' \in [Names -> Slots \cup {None, Absent}]
          /\ \A n \in Names : leaving'[n] = None <=> leaving[n] = None
      BY <2>4, <2>5, <2>6, SweepKeeps, Zenon DEF IInv
    <2> QED
      BY <2>1, <2>2, <2>7, EndedBook, Zenon DEF IInv
  <1> QED
    BY <1>1, <1>2, <1>3, <1>4, <1>5, <1>6, <1>7, <1>8, <1>9, <1>10, Zenon DEF Operation

(* So does everything else that happens. *)
LEMMA CallerBook ==
  ASSUME IInv, [Next]_vars, ~Operation
  PROVE  Book'
  <1> USE DEF IInv
  <1>q. queue \in Seq(Entries) /\ WaitOK(queue, task)
    BY DEF Book, PoolType, WaitPart
  <1>l. leaving \in [Names -> Slots \cup {None, Absent}] /\ FleetType
    BY DEF Book, FleetType
  <1>1. ASSUME NEW n \in Names, Dispatch(n)
        PROVE  Book'
    <2>1. /\ ~Waits("ensure") /\ ~Held(n)
          /\ task' = [task EXCEPT ![n] = "asked"]
          /\ queue' = Append(queue, [kind |-> "ensure", name |-> n])
          /\ UNCHANGED <<lease, home, leaving>>
      BY <1>1, Zenon DEF Dispatch, Asks, pool
    <2>2. /\ FleetType' /\ task'[n] = "asked"
          /\ \A m \in Names : m # n => task'[m] = task[m]
      BY <1>l, <2>1, SMT DEF FleetType, Rows
    <2>3. \A i \in 1..Len(queue) : queue[i].kind # "ensure"
      BY <2>1, Zenon DEF Waits
    <2>4. WaitOK(queue, task')
      BY <1>q, <2>3, SMT DEF WaitOK
    <2>5. "ensure" \in Kinds /\ n \in Names \cup {None} /\ "ensure" # "reap" /\ "ensure" # "release"
      BY SMT DEF Kinds
    <2>6. /\ queue' \in Seq(Entries) /\ WaitPart'
          /\ \A m : Released(queue, m) => Released(queue', m)
      BY <1>q, <2>1, <2>2, <2>3, <2>4, <2>5, WaitAppend, Zenon DEF WaitPart
    <2>7. PoolType'
      BY <2>1, <2>6, Zenon DEF Book, PoolType
    <2>8. task[n] \notin {"active", "orphan", "ejected"}
      BY <2>1, SMT DEF Held
    <2>9. ASSUME NEW m \in Names
          PROVE  /\ IF task'[m] \in {"active", "orphan", "ejected"} THEN home'[m] \in Slots
                                                                    ELSE home'[m] = None
                 /\ task'[m] = "orphan" => leaving'[m] = None
                 /\ lease'[m] # None => \/ task'[m] = "active" \/ leaving'[m] # None
                                        \/ Released(queue', m)
      BY <2>1, <2>2, <2>6, <2>8, BookSays, SMT
    <2> QED
      BY <2>2, <2>6, <2>7, <2>9, BookOf
  <1>2. ASSUME NEW n \in Names, Finish(n) \/ Eject(n) \/ Settle(n) \/ Decide(n)
        PROVE  Book'
    <2>1. UNCHANGED <<queue, lease>> /\ task[n] \in {"active", "ejected", "orphan"}
      BY <1>2, Zenon DEF Finish, Eject, Settle, Decide, pool
    <2>2. home[n] \in Slots /\ home[n] # None
      BY <2>1, BookSays, Apart, SMT
    <2>3. /\ FleetType'
          /\ \A m \in Names \ {n} : task'[m] = task[m] /\ home'[m] = home[m] /\ leaving'[m] = leaving[m]
          /\ IF task'[n] \in {"active", "orphan", "ejected"} THEN home'[n] \in Slots ELSE home'[n] = None
          /\ task'[n] # "orphan"
          /\ task'[n] = "active" \/ leaving'[n] # None \/ (task[n] # "active" /\ leaving'[n] = leaving[n])
      <3>1. CASE Finish(n)
        BY <1>l, <2>2, <3>1, SMT DEF FleetType, Finish, Rows
      <3>2. CASE Eject(n)
        BY <1>l, <2>2, <3>2, SMT DEF FleetType, Eject, Rows
      <3>3. CASE Settle(n)
        BY <1>l, <2>2, <3>3, SMT DEF FleetType, Settle, Rows
      <3>4. CASE Decide(n)
        BY <1>l, <2>2, <3>4, SMT DEF FleetType, Decide, Rows
      <3> QED
        BY <1>2, <3>1, <3>2, <3>3, <3>4
    <2>4. lease[n] # None => task'[n] = "active" \/ leaving'[n] # None \/ Released(queue, n)
      BY <2>3, BookSays, Zenon
    <2>5. task[n] # "asked"
      BY <2>1, SMT
    <2> QED
      BY <2>1, <2>3, <2>4, <2>5, RowBook, Zenon
  <1>3. ASSUME NEW n \in Names, Exits(n)
        PROVE  Book'
    <2>1. /\ leaving[n] # None /\ leaving' = [leaving EXCEPT ![n] = None]
          /\ UNCHANGED <<lease, task, home>>
      BY <1>3, Zenon DEF Exits, pool
    <2>2. /\ leaving' \in [Names -> Slots \cup {None, Absent}]
          /\ leaving'[n] = None /\ \A m \in Names : m # n => leaving'[m] = leaving[m]
      BY <1>l, <2>1, SMT
    <2>3. CASE task[n] \in {"active", "orphan"}
      <3>1. task[n] = "active" /\ task[n] # "asked" /\ UNCHANGED queue
        BY <1>3, <2>1, <2>3, BookSays, SMT DEF Exits
      <3>2. FleetType'
        BY <2>1, <2>2, Zenon DEF Book, FleetType
      <3>3. IF task'[n] \in {"active", "orphan", "ejected"} THEN home'[n] \in Slots ELSE home'[n] = None
        BY <2>1, BookSays, Zenon
      <3>4. task'[n] = "active" /\ task'[n] # "orphan"
        BY <2>1, <3>1, Zenon
      <3>5. \A m \in Names \ {n} : task'[m] = task[m] /\ home'[m] = home[m] /\ leaving'[m] = leaving[m]
        BY <2>1, <2>2, Zenon
      <3> QED
        BY <2>1, <3>1, <3>2, <3>3, <3>4, <3>5, RowBook, Zenon
    <2>4. CASE task[n] \notin {"active", "orphan"}
      <3>1. Asks("release", n)
        BY <1>3, <2>4, Zenon DEF Exits
      <3>2. "release" \in Kinds \ {"ensure"} /\ n \in Names \cup {None} /\ "release" # "reap"
        BY SMT DEF Kinds
      <3>3. \A m \in Names : \/ leaving'[m] = leaving[m]
                             \/ leaving'[m] = None /\ ("release" = "release" /\ m = n)
        BY <2>2, Zenon
      <3> QED
        BY <2>1, <2>2, <3>1, <3>2, <3>3, AskedBook, Zenon
    <2> QED
      BY <2>3, <2>4
  <1>4. CASE Prewarm
    <2>1. Asks("warm", None) /\ UNCHANGED <<lease, task, home, leaving>>
      BY <1>4, Zenon DEF Prewarm, pool, fleet
    <2>2. /\ "warm" \in Kinds \ {"ensure"} /\ None \in Names \cup {None}
          /\ "warm" # "reap" /\ "warm" # "release"
      BY SMT DEF Kinds
    <2> QED
      BY <1>l, <2>1, <2>2, AskedBook, Zenon
  <1>5. ASSUME NEW b \in Branches, AskReap(b)
        PROVE  Book'
    <2>1. Asks("reap", b) /\ UNCHANGED <<lease, task, home, leaving>>
      BY <1>5, Zenon DEF AskReap, pool, fleet
    <2>2. "reap" \in Kinds \ {"ensure"} /\ b \in Names \cup {None} /\ "reap" # "release"
      BY Apart, SMT DEF Kinds
    <2> QED
      BY <1>l, <2>1, <2>2, AskedBook, Zenon
  <1>6. CASE (\E n \in Names, s \in Slots : Edit(n, s) \/ Move(n, s)) \/ UNCHANGED vars
    <2>1. UNCHANGED <<queue, lease, task, home, leaving>>
      BY <1>6, Zenon DEF Edit, Move, pool, fleet, vars
    <2> QED
      BY <1>l, <2>1, QuietBook, Zenon
  <1>7. CASE Restart
    <2>1. /\ lease' = [n \in Names |-> None]
          /\ leaving' = [n \in Names |-> None]
          /\ queue' = <<>> /\ home' = home
          /\ task' = [n \in Names |->
                  CASE task[n] = "active" -> "orphan"
                    [] task[n] = "asked" -> "none"
                    [] OTHER -> task[n]]
      BY <1>7, Zenon DEF Restart
    <2>2. PoolType' /\ FleetType'
      <3>1. queue' \in Seq(Entries)
        BY <2>1, SMT
      <3>2. \A n \in Names : task'[n] \in Rows
        BY <1>l, <2>1, SMT DEF FleetType, Rows
      <3>3. task' \in [Names -> Rows]
        BY <2>1, <3>2, SMT
      <3> QED
        BY <1>l, <2>1, <3>1, <3>3, SMT DEF PoolType, FleetType
    <2>3. WaitPart'
      BY <2>1, SMT DEF WaitPart, WaitOK
    <2>4. ASSUME NEW m \in Names
          PROVE  /\ IF task'[m] \in {"active", "orphan", "ejected"} THEN home'[m] \in Slots
                                                                    ELSE home'[m] = None
                 /\ task'[m] = "orphan" => leaving'[m] = None
                 /\ lease'[m] # None => \/ task'[m] = "active" \/ leaving'[m] # None
                                        \/ Released(queue', m)
      BY <2>1, BookSays, SMT DEF Rows
    <2> QED
      BY <2>2, <2>3, <2>4, BookOf
  <1> QED
    BY <1>1, <1>2, <1>3, <1>4, <1>5, <1>6, <1>7, Zenon DEF Next

LEMMA BookNext == IInv /\ [Next]_vars => Book'
  BY OperationBook, CallerBook, Zenon

-----------------------------------------------------------------------------
(* Every step keeps the running operation in its shape. *)
LEMMA OverOp ==
  ASSUME NEW how \in {"none", "exhausted"}, Over(how)
  PROVE  OpType' /\ StepPart'
  <1>1. /\ step' = "survey" /\ slot' = None /\ target' = None /\ report' = FALSE
        /\ saved' = {} /\ verdict' = how
    BY Zenon DEF Over
  <1>2. /\ step' \in {"survey", "wipe", "switch"}
        /\ slot' \in IF step' = "survey" THEN {None} ELSE Slots
        /\ target' \in Names \cup {None} /\ saved' \subseteq Names
        /\ report' \in BOOLEAN
    BY <1>1, Zenon
  <1>3. OpType'
    BY <1>1, <1>2, Zenon DEF OpType
  <1>4. StepPart'
    BY <1>1, Zenon DEF StepPart
  <1> QED
    BY <1>3, <1>4

LEMMA HandsOverOp ==
  ASSUME IInv, NEW s \in Slots, NEW n \in Names, HandsOver(s, n), step = "survey",
         (Running("ensure") /\ n = Asked) \/ Running("warm")
  PROVE  OpType' /\ StepPart'
  <1>1. /\ step' = "wipe" /\ slot' = s /\ target' = n /\ queue' = queue
        /\ UNCHANGED <<report, saved, verdict>>
    BY Zenon DEF HandsOver
  <1>2. OpType'
    BY <1>1, SMT DEF IInv, OpType
  <1>3. StepPart'
    BY <1>1, SMT DEF StepPart, Running, Asked
  <1> QED
    BY <1>2, <1>3

(* The operation stands where it stood, and its queue only grows. *)
LEMMA SameOp ==
  ASSUME IInv, UNCHANGED op,
         \/ queue' = queue
         \/ \E k \in Kinds, m \in Names \cup {None} : queue' = Append(queue, [kind |-> k, name |-> m])
  PROVE  OpType' /\ StepPart'
  <1>1. OpType'
    BY Zenon DEF IInv, OpType, op
  <1>2. queue # <<>> => queue' # <<>> /\ Head(queue') = Head(queue)
    <2>1. CASE queue' = queue
      BY <2>1
    <2>2. ASSUME NEW k \in Kinds, NEW m \in Names \cup {None},
                 queue' = Append(queue, [kind |-> k, name |-> m])
          PROVE  queue # <<>> => queue' # <<>> /\ Head(queue') = Head(queue)
      <3> DEFINE e == [kind |-> k, name |-> m]
      <3>1. e \in Entries /\ queue \in Seq(Entries)
        BY SMT DEF Entries, IInv, Book, PoolType
      <3>2. queue' = Append(queue, e)
        BY <2>2
      <3> HIDE DEF e
      <3> QED
        BY <3>1, <3>2, QueueOps, Zenon
    <2> QED
      BY <2>1, <2>2
  <1>3. StepPart'
    BY <1>2, Zenon DEF IInv, StepPart, op
  <1> QED
    BY <1>1, <1>3

LEMMA OpNext == IInv /\ [Next]_vars => OpType' /\ StepPart'
  <1> SUFFICES ASSUME IInv, [Next]_vars PROVE OpType' /\ StepPart'
    OBVIOUS
  <1>t. OpType /\ StepPart /\ queue \in Seq(Entries) /\ WaitPart
    BY DEF IInv, Book, PoolType
  <1>1. CASE \/ AcquireOwn \/ AcquireMints \/ AcquireFails \/ AcquireRefuses
             \/ PrewarmMints \/ PrewarmEnds \/ Release \/ Reap \/ ReapRefused \/ Switch \/ Restart
    <2>1. Over("none") \/ Over("exhausted")
      BY <1>1, Zenon DEF AcquireOwn, AcquireMints, AcquireFails, AcquireRefuses, Granted, Rejected,
         PrewarmMints, PrewarmEnds, Release, Reap, ReapRefused, Switch, Settled, Restart
    <2> QED
      BY <2>1, OverOp, Zenon
  <1>2. CASE AcquireTakes
    <2>1. /\ Running("ensure") /\ step = "survey"
          /\ Candidates(Asked) # {} /\ HandsOver(Least(Candidates(Asked)), Asked)
      BY <1>2, Zenon DEF AcquireTakes, Seeking
    <2>2. Asked \in Names
      BY <1>t, <2>1, RunningOne, HeadTyped
    <2> QED
      BY <2>1, <2>2, TakenIsSlot, HandsOverOp, Zenon
  <1>3. CASE PrewarmTakes
    <2>1. Running("warm") /\ step = "survey"
      BY <1>3, Zenon DEF PrewarmTakes
    <2>2. PICK b \in Warmable : Spare(b) # {} /\ HandsOver(Least(Spare(b)), b)
      BY <1>3, Zenon DEF PrewarmTakes
    <2>3. b \in Names
      BY Apart, Zenon DEF Warmable, IInv, DiskType
    <2> QED
      BY <2>1, <2>2, <2>3, TakenIsSlot, HandsOverOp, Zenon
  <1>4. CASE AcquireSalvages
    <2>1. PICK S \in SUBSET Stuck : saved' = {edits[s] : s \in S}
      BY <1>4, Zenon DEF AcquireSalvages
    <2>2. /\ step = "survey" /\ report' = TRUE
          /\ UNCHANGED <<queue, step, slot, target, verdict>>
      BY <1>4, Zenon DEF AcquireSalvages, DeadEnd, Seeking
    <2>3. \A s \in Stuck : edits[s] \in Names
      BY SMT DEF Stuck, Open, Registered, IInv, DiskType
    <2>4. saved' \subseteq Names
      BY <2>1, <2>3, Zenon
    <2>5. OpType'
      BY <1>t, <2>2, <2>4, Zenon DEF OpType
    <2>6. StepPart'
      BY <2>2, Zenon DEF StepPart
    <2> QED
      BY <2>5, <2>6
  <1>5. CASE Wipe
    <2>1. /\ step = "wipe" /\ step' = "switch"
          /\ UNCHANGED <<queue, slot, target, report, saved, verdict>>
      BY <1>5, Zenon DEF Wipe
    <2>2. OpType'
      <3>1. slot' \in IF step' = "survey" THEN {None} ELSE Slots
        BY <2>1, PastSurvey, <1>t, SMT
      <3>2. step' \in {"survey", "wipe", "switch"}
        BY <2>1, SMT
      <3> QED
        BY <1>t, <2>1, <3>1, <3>2, Zenon DEF OpType
    <2>3. StepPart'
      BY <1>t, <2>1, SMT DEF StepPart
    <2> QED
      BY <2>2, <2>3
  <1>6. CASE Refused
    <2>1. /\ step' = "survey" /\ slot' = None /\ target' = None
          /\ report' = (report /\ Running("ensure")) /\ UNCHANGED <<saved, verdict>>
      BY <1>6, Zenon DEF Refused
    <2>2. report' \in BOOLEAN
      BY <2>1, Zenon
    <2>3. slot' \in IF step' = "survey" THEN {None} ELSE Slots
      BY <2>1
    <2>4. target' \in Names \cup {None} /\ step' \in {"survey", "wipe", "switch"}
      BY <2>1, SMT
    <2>5. OpType'
      BY <1>t, <2>1, <2>2, <2>3, <2>4, Zenon DEF OpType
    <2>6. StepPart'
      BY <2>1, Zenon DEF StepPart
    <2> QED
      BY <2>5, <2>6
  <1>7. CASE \/ \E n \in Names : Dispatch(n) \/ Finish(n) \/ Eject(n) \/ Settle(n) \/ Exits(n) \/ Decide(n)
             \/ \E n \in Names, s \in Slots : Edit(n, s) \/ Move(n, s)
             \/ \E b \in Branches : AskReap(b)
             \/ Prewarm \/ UNCHANGED vars
    <2>0. {"ensure", "release", "reap", "warm"} \subseteq Kinds /\ None \in Names \cup {None}
      BY SMT DEF Kinds
    <2>1. UNCHANGED op
      BY <1>7, Zenon DEF Dispatch, Finish, Eject, Settle, Exits, Decide, Edit, Move, AskReap,
         Prewarm, vars
    <2>2. \/ queue' = queue
          \/ \E k \in Kinds, m \in Names \cup {None} : queue' = Append(queue, [kind |-> k, name |-> m])
      BY <1>7, <2>0, Apart, Zenon DEF Dispatch, Finish, Eject, Settle, Exits, Decide, Edit, Move,
         AskReap, Prewarm, vars, Asks
    <2> QED
      BY <2>1, <2>2, SameOp, Zenon
  <1> QED
    BY <1>1, <1>2, <1>3, <1>4, <1>5, <1>6, <1>7, Zenon DEF Next, Operation

-----------------------------------------------------------------------------
(* Every step keeps the slots in their shape. *)
LEMMA MintedDisk ==
  ASSUME DiskType, NEW s \in Slots, NEW n \in Names, Minted(s, n)
  PROVE  /\ head' \in [Slots -> Branches \cup {Detached, Absent}]
         /\ edits' \in [Slots -> Names \cup {None}]
         /\ mark' \in [Slots -> Keys \cup {None}]
         /\ branches' \subseteq Branches
  <1>1. n \notin Keys => n \in Branches
    BY DEF Names
  <1> QED
    BY <1>1, SMT DEF Minted, DiskType

LEMMA BuildsDisk ==
  ASSUME DiskType, NEW s \in Slots, NEW n \in Names, NEW before \in SUBSET (Branches \cup Refs),
         Builds(s, n, before)
  PROVE  built' \in [Slots -> SUBSET (Branches \cup Refs)]
  <1>1. Source(n) \in Branches \cup Refs
    BY DEF Source, Names, Refs
  <1> DEFINE b == before \cup {Source(n)}
  <1>2. b \in SUBSET (Branches \cup Refs)
    BY <1>1
  <1>3. built' = [built EXCEPT ![s] = b]
    BY DEF Builds
  <1> HIDE DEF b
  <1> QED
    BY <1>2, <1>3, SMT DEF DiskType

LEMMA DiskNext == IInv /\ [Next]_vars => DiskType'
  <1> SUFFICES ASSUME IInv, [Next]_vars PROVE DiskType'
    OBVIOUS
  <1>t. /\ DiskType /\ OpType /\ StepPart
        /\ queue \in Seq(Entries) /\ WaitPart
    BY DEF IInv, Book, PoolType
  <1>a. Running("ensure") => Asked \in Names
    BY <1>t, RunningOne, HeadTyped
  <1>b. \A s \in Slots : built[s] \in SUBSET (Branches \cup Refs)
    BY <1>t, SMT DEF DiskType
  <1>1. CASE AcquireOwn
    <2>1. PICK s \in Slots : Builds(s, Asked, built[s])
      BY <1>1, TakenIsSlot, Zenon DEF AcquireOwn
    <2>2. Asked \in Names /\ UNCHANGED <<head, edits, mark, branches, condemned>>
      BY <1>1, <1>a, Zenon DEF AcquireOwn
    <2>3. built' \in [Slots -> SUBSET (Branches \cup Refs)]
      BY <1>t, <1>b, <2>1, <2>2, BuildsDisk
    <2> QED
      BY <1>t, <2>2, <2>3, Zenon DEF DiskType
  <1>2. CASE AcquireMints
    <2>1. PICK s \in Slots : Minted(s, Asked) /\ Builds(s, Asked, {})
      BY <1>2, TakenIsSlot, Zenon DEF AcquireMints
    <2>2. Asked \in Names /\ UNCHANGED condemned
      BY <1>2, <1>a, Zenon DEF AcquireMints
    <2>3. built' \in [Slots -> SUBSET (Branches \cup Refs)]
      BY <1>t, <2>1, <2>2, BuildsDisk
    <2> QED
      BY <1>t, <2>1, <2>2, <2>3, MintedDisk, Zenon DEF DiskType
  <1>3. CASE AcquireSalvages
    <2>1. PICK S \in SUBSET Stuck, R \in SUBSET condemned :
            /\ edits' = [s \in Slots |-> IF s \in S THEN None ELSE edits[s]]
            /\ condemned' = condemned \ R
            /\ built' = [s \in Slots |-> IF s \in R THEN {} ELSE built[s]]
      BY <1>3, Zenon DEF AcquireSalvages
    <2>2. UNCHANGED <<head, mark, branches>>
      BY <1>3, Zenon DEF AcquireSalvages
    <2> QED
      BY <1>t, <2>1, <2>2, SMT DEF DiskType
  <1>4. CASE PrewarmMints
    <2>1. PICK b \in Warmable, s \in Slots : Minted(s, b) /\ built' = [built EXCEPT ![s] = {}]
      BY <1>4, TakenIsSlot, Zenon DEF PrewarmMints
    <2>2. b \in Names /\ UNCHANGED condemned
      BY <1>4, <1>t, Apart, Zenon DEF PrewarmMints, Warmable, DiskType, pool
    <2>3. built' \in [Slots -> SUBSET (Branches \cup Refs)]
      BY <1>t, <2>1, SMT DEF DiskType
    <2> QED
      BY <1>t, <2>1, <2>2, <2>3, MintedDisk, Zenon DEF DiskType
  <1>5. CASE Wipe
    <2>1. /\ mark' = [mark EXCEPT ![slot] = None]
          /\ built' = [built EXCEPT ![slot] = IF SameRef(target, slot) THEN built[slot] ELSE {}]
          /\ UNCHANGED <<head, edits, branches, condemned>>
          /\ step = "wipe"
      BY <1>5, Zenon DEF Wipe, pool
    <2>s. slot \in Slots
      BY <1>t, <2>1, PastSurvey, SMT
    <2>2. built' \in [Slots -> SUBSET (Branches \cup Refs)]
      <3> DEFINE b == IF SameRef(target, slot) THEN built[slot] ELSE {}
      <3>1. b \in SUBSET (Branches \cup Refs)
        BY <1>b, <2>s
      <3>2. built' = [built EXCEPT ![slot] = b]
        BY <2>1
      <3> HIDE DEF b
      <3> QED
        BY <1>t, <2>s, <3>1, <3>2, SMT DEF DiskType
    <2>3. mark' \in [Slots -> Keys \cup {None}]
      BY <1>t, <2>1, <2>s, SMT DEF DiskType
    <2> QED
      BY <1>t, <2>1, <2>2, <2>3, Zenon DEF DiskType
  <1>6. CASE Refused
    <2>1. /\ mark' = [mark EXCEPT ![slot] = None] /\ condemned' = condemned \cup {slot}
          /\ UNCHANGED <<head, edits, built, branches>>
          /\ step \in {"wipe", "switch"}
      BY <1>6, Zenon DEF Refused
    <2>2. slot \in Slots
      BY <1>t, <2>1, PastSurvey, SMT
    <2> QED
      BY <1>t, <2>1, <2>2, SMT DEF DiskType
  <1>7. CASE Switch
    <2>1. /\ Minted(slot, target) /\ UNCHANGED condemned
          /\ Builds(slot, target, built[slot]) \/ UNCHANGED built
          /\ step = "switch"
      BY <1>7, Zenon DEF Switch
    <2>2. slot \in Slots /\ target \in Names
      BY <1>t, <2>1, PastSurvey, SMT
    <2>3. built' \in [Slots -> SUBSET (Branches \cup Refs)]
      <3>1. CASE Builds(slot, target, built[slot])
        BY <1>t, <1>b, <2>2, <3>1, BuildsDisk
      <3>2. CASE UNCHANGED built
        BY <1>t, <3>2, Zenon DEF DiskType
      <3> QED
        BY <2>1, <3>1, <3>2
    <2> QED
      BY <1>t, <2>1, <2>2, <2>3, MintedDisk, Zenon DEF DiskType
  <1>8. CASE Reap
    <2>1. /\ UNCHANGED <<edits, built, mark, condemned>>
          /\ \/ UNCHANGED <<head, branches>>
             \/ /\ head' = [s \in Slots |-> IF head[s] = Asked THEN Detached ELSE head[s]]
                /\ branches' = branches \ {Asked}
      BY <1>8, Zenon DEF Reap
    <2> QED
      BY <1>t, <2>1, SMT DEF DiskType
  <1>9. ASSUME NEW n \in Names, NEW s \in Slots, Edit(n, s)
        PROVE  DiskType'
    BY <1>t, <1>9, SMT DEF DiskType, Edit, pool
  <1>10. ASSUME NEW n \in Names, NEW s \in Slots, Move(n, s)
         PROVE  DiskType'
    <2>1. PICK b \in {Detached} \cup (Branches \ Elsewhere) :
            /\ head' = [head EXCEPT ![s] = b]
            /\ branches' = branches \cup ({b} \ {Detached})
      BY <1>10, Zenon DEF Move
    <2>2. UNCHANGED <<edits, built, mark, condemned>>
      BY <1>10, Zenon DEF Move, pool
    <2> QED
      BY <1>t, <2>1, <2>2, SMT DEF DiskType
  <1>11. CASE \/ AcquireFails \/ AcquireRefuses \/ AcquireTakes \/ PrewarmTakes \/ PrewarmEnds
              \/ Release \/ ReapRefused \/ Prewarm \/ Restart \/ UNCHANGED vars
              \/ \E n \in Names : Dispatch(n) \/ Finish(n) \/ Eject(n) \/ Settle(n) \/ Exits(n) \/ Decide(n)
              \/ \E b \in Branches : AskReap(b)
    <2>1. UNCHANGED disk /\ (condemned' = condemned \/ condemned' = {})
      BY <1>11, Zenon DEF AcquireFails, AcquireRefuses, Rejected, AcquireTakes, PrewarmTakes, HandsOver,
         PrewarmEnds, Release, ReapRefused, Prewarm, Restart, vars, pool, disk, Dispatch, Finish,
         Eject, Settle, Exits, Decide, AskReap
    <2> QED
      BY <1>t, <2>1, Zenon DEF DiskType, disk
  <1> QED
    BY <1>1, <1>2, <1>3, <1>4, <1>5, <1>6, <1>7, <1>8, <1>9, <1>10, <1>11,
       Zenon DEF Next, Operation

-----------------------------------------------------------------------------
(* The ejections that stand, and how many may. *)
Ejections == {n \in Names : task[n] = "ejected"}

LEMMA NamesFinite ==
  ASSUME NEW S, S \subseteq Names
  PROVE  IsFiniteSet(S) /\ Cardinality(S) \in Nat
  <1>1. IsFiniteSet(Names)
    BY PoolAssumption, FS_Union, Zenon DEF Names
  <1> QED
    BY <1>1, FS_Subset, FS_CardinalityType, Zenon

LEMMA EjectsKept ==
  ASSUME EjectPart, \A n \in Names : task'[n] = "ejected" => task[n] = "ejected"
  PROVE  EjectPart'
  <1> DEFINE E == {n \in Names : task'[n] = "ejected"}
  <1>1. E \subseteq Ejections /\ Ejections \subseteq Names
    BY DEF Ejections
  <1>2. Cardinality(E) <= Cardinality(Ejections)
    BY <1>1, NamesFinite, FS_Subset, Zenon
  <1>3. Cardinality(E) \in Nat /\ Cardinality(Ejections) \in Nat
    BY <1>1, NamesFinite
  <1>4. Cardinality(Ejections) <= MaxEjections
    BY DEF EjectPart, Ejections
  <1>5. Cardinality(E) <= MaxEjections
    BY <1>2, <1>3, <1>4, PoolAssumption, SMT
  <1> QED
    BY <1>5 DEF EjectPart

LEMMA EjectNext == IInv /\ [Next]_vars => EjectPart'
  <1> SUFFICES ASSUME IInv, [Next]_vars PROVE EjectPart'
    OBVIOUS
  <1>t. EjectPart /\ task \in [Names -> Rows]
    BY DEF IInv, Book, FleetType
  <1>1. ASSUME NEW n, NEW x \in {"none", "asked", "active"}, task' = [task EXCEPT ![n] = x]
        PROVE  EjectPart'
    BY <1>t, <1>1, EjectsKept, SMT
  <1>2. CASE UNCHANGED task
    BY <1>t, <1>2, EjectsKept, Zenon
  <1>3. CASE Operation
    <2>1. \/ UNCHANGED task
          \/ \E n : task' = [task EXCEPT ![n] = "active"] \/ task' = [task EXCEPT ![n] = "none"]
      BY <1>3, Zenon DEF Operation, AcquireOwn, AcquireFails, AcquireTakes, AcquireMints,
         AcquireSalvages, AcquireRefuses, Wipe, Refused, Switch, PrewarmMints, PrewarmTakes,
         PrewarmEnds, Release, Reap, ReapRefused, Granted, Rejected, HandsOver, fleet
    <2> QED
      BY <1>1, <1>2, <2>1
  <1>4. ASSUME NEW n \in Names, Dispatch(n) \/ Finish(n) \/ Settle(n) \/ Exits(n) \/ Decide(n)
        PROVE  EjectPart'
    <2>1. \/ UNCHANGED task
          \/ task' = [task EXCEPT ![n] = "asked"] \/ task' = [task EXCEPT ![n] = "none"]
          \/ task' = [task EXCEPT ![n] = "active"]
      BY <1>4, Zenon DEF Dispatch, Finish, Settle, Exits, Decide
    <2> QED
      BY <1>1, <1>2, <2>1
  <1>5. ASSUME NEW n \in Names, Eject(n)
        PROVE  EjectPart'
    <2> DEFINE E == {m \in Names : task'[m] = "ejected"}
    <2>1. task' = [task EXCEPT ![n] = "ejected"] /\ Cardinality(Ejections) < MaxEjections
          /\ task[n] = "active"
      BY <1>5, Zenon DEF Eject, Ejections
    <2>2. E = Ejections \cup {n} /\ n \notin Ejections /\ Ejections \subseteq Names
      BY <1>t, <2>1, SMT DEF Ejections
    <2>3. Cardinality(E) = Cardinality(Ejections) + 1 /\ Cardinality(Ejections) \in Nat
      BY <2>2, NamesFinite, FS_AddElement, Zenon
    <2>4. Cardinality(E) <= MaxEjections
      BY <2>1, <2>3, PoolAssumption, SMT
    <2> QED
      BY <2>4 DEF EjectPart
  <1>6. CASE Restart
    <2>1. \A n \in Names : task'[n] = "ejected" => task[n] = "ejected"
      BY <1>6, SMT DEF Restart
    <2> QED
      BY <1>t, <2>1, EjectsKept, Zenon
  <1>7. CASE \/ \E n \in Names, s \in Slots : Edit(n, s) \/ Move(n, s)
             \/ \E b \in Branches : AskReap(b)
             \/ Prewarm \/ UNCHANGED vars
    BY <1>2, <1>7, Zenon DEF Edit, Move, AskReap, Prewarm, fleet, vars
  <1> QED
    BY <1>3, <1>4, <1>5, <1>6, <1>7, Zenon DEF Next

-----------------------------------------------------------------------------
LEMMA PoolInit == Init => IInv
  <1> SUFFICES ASSUME Init PROVE IInv
    OBVIOUS
  <1>1. /\ head = [s \in Slots |-> Absent]
        /\ edits = [s \in Slots |-> None]
        /\ built = [s \in Slots |-> {}]
        /\ mark = [s \in Slots |-> None]
        /\ branches \in {Elsewhere, Branches} /\ condemned = {}
    BY Zenon DEF Init, Fresh
  <1>2. /\ task = [n \in Names |-> "none"] /\ home = [n \in Names |-> None]
        /\ leaving = [n \in Names |-> None] /\ lease = [n \in Names |-> None]
        /\ queue = <<>>
    BY Zenon DEF Init, Fresh
  <1>3. DiskType
    BY <1>1, PoolAssumption, SMT DEF DiskType
  <1>4. OpType /\ StepPart
    <2>1. step = "survey" /\ slot = None /\ target = None /\ report = FALSE /\ saved = {}
          /\ verdict = "none"
      BY Zenon DEF Init, Fresh
    <2> QED
      BY <2>1, Zenon DEF OpType, StepPart
  <1>5. PoolType /\ FleetType
    BY <1>2, SMT DEF PoolType, FleetType, Rows
  <1>6. WaitPart
    BY <1>2, SMT DEF WaitPart, WaitOK
  <1>7. HomePart /\ OrphanPart /\ LeaseIsAccounted
    BY <1>2, SMT DEF HomePart, OrphanPart, LeaseIsAccounted, Held
  <1>8. EjectPart
    <2>1. {n \in Names : task[n] = "ejected"} = {}
      BY <1>2, SMT
    <2>2. Cardinality({n \in Names : task[n] = "ejected"}) = 0
      BY <2>1, FS_EmptySet, Zenon
    <2> QED
      BY <2>2, PoolAssumption, SMT DEF EjectPart
  <1> QED
    BY <1>3, <1>4, <1>5, <1>6, <1>7, <1>8 DEF IInv, Book

(* The invariant holds in every state of every behaviour. *)
LEMMA PoolInvariant == Spec => []IInv
  <1>1. IInv /\ [Next]_vars => IInv'
    BY BookNext, OpNext, DiskNext, EjectNext, Zenon DEF IInv
  <1> QED
    BY <1>1, PoolInit, PTL DEF Spec

(* WorktreeManager's memory keeps its shape, and every lease it holds has  *)
(* somebody to give it back: an active task, a process whose exit is still *)
(* to come, or a release that waits in the queue.  So no sequence of       *)
(* refusals, sweeps, ejections and restarts leaks a slot.                  *)
THEOREM PoolIsAccountedAlways == Spec => []PoolIsAccounted
  <1>1. IInv => TypeOK
    BY Zenon DEF IInv, Book, DiskType, PoolType, OpType, FleetType, TypeOK, Rows, Entries
  <1>2. IInv => PoolIsAccounted
    BY <1>1 DEF IInv, Book, PoolIsAccounted
  <1> QED
    BY <1>2, PoolInvariant, PTL

-----------------------------------------------------------------------------
(* What a hand-over may never do. *)

(* Tracked work leaves a slot by its worker's hand, or for a salvage ref. *)
LEMMA WorkStep ==
  ASSUME IInv, [Next]_vars, NEW s \in Slots, edits[s] # None, edits'[s] # edits[s]
  PROVE  (\E n \in Names : WorksIn(n, s)) \/ edits[s] \in saved'
  <1>1. CASE AcquireSalvages
    <2>1. PICK S \in SUBSET Stuck :
            /\ edits' = [t \in Slots |-> IF t \in S THEN None ELSE edits[t]]
            /\ saved' = {edits[t] : t \in S}
      BY <1>1, Zenon DEF AcquireSalvages
    <2>2. s \in S
      BY <2>1
    <2> QED
      BY <2>1, <2>2
  <1>2. ASSUME NEW n \in Names, NEW t \in Slots, Edit(n, t)
        PROVE  \E m \in Names : WorksIn(m, s)
    <2>1. edits' = [edits EXCEPT ![t] = IF edits[t] = None THEN n ELSE None] /\ WorksIn(n, t)
      BY <1>2, Zenon DEF Edit
    <2>2. s = t
      BY <2>1, SMT DEF IInv, DiskType
    <2> QED
      BY <2>1, <2>2
  <1>3. CASE Operation /\ ~AcquireSalvages
    <2>1. UNCHANGED edits
      BY <1>3, Zenon DEF Operation, AcquireOwn, AcquireFails, AcquireTakes, AcquireMints,
         AcquireRefuses, Wipe, Refused, Switch, PrewarmMints, PrewarmTakes, PrewarmEnds,
         Release, Reap, ReapRefused, Rejected, HandsOver, Minted, disk
    <2> QED
      BY <2>1
  <1>4. CASE \/ \E n \in Names : Dispatch(n) \/ Finish(n) \/ Eject(n) \/ Settle(n) \/ Exits(n) \/ Decide(n)
             \/ \E n \in Names, t \in Slots : Move(n, t)
             \/ \E b \in Branches : AskReap(b)
             \/ Prewarm \/ Restart \/ UNCHANGED vars
    <2>1. UNCHANGED edits
      BY <1>4, Zenon DEF Dispatch, Finish, Eject, Settle, Exits, Decide, Move, AskReap, Prewarm,
         Restart, vars, disk
    <2> QED
      BY <2>1
  <1> QED
    BY <1>1, <1>2, <1>3, <1>4, Zenon DEF Next

(* With no slot left to mint the pool is at its size: the slots below the  *)
(* size are all slots of the pool, for no more ejections stand than may.   *)
LEMMA FullPool ==
  ASSUME IInv, Mintable = {}
  PROVE  Cardinality(Registered) >= Size
  <1> DEFINE N == Cardinality(Ejections)
  <1>1. N \in Nat /\ N <= MaxEjections /\ Size = Cap + Slack + N
    <2>1. Ejections \subseteq Names
      BY DEF Ejections
    <2> QED
      BY <2>1, NamesFinite, Zenon DEF IInv, EjectPart, Ejections, Size
  <1> HIDE DEF N
  <1>2. Size \in Nat /\ 0 .. Size - 1 \subseteq Slots /\ \A s \in 0 .. Size - 1 : s < Size
    BY <1>1, PoolAssumption, SMT DEF Slots
  <1>3. IsFiniteSet(Slots) /\ Registered \subseteq Slots
    BY PoolAssumption, FS_Interval, SMT DEF Slots, Registered
  <1>4. IsFiniteSet(Registered) /\ Cardinality(Registered) \in Nat
    BY <1>3, FS_Subset, FS_CardinalityType, Zenon
  <1>5. CASE ~(Cardinality(Registered) < Size)
    BY <1>2, <1>4, <1>5, SMT
  <1>6. CASE Cardinality(Registered) < Size
    <2>1. {s \in Slots \ Registered : s < Size} = {}
      BY <1>6 DEF Mintable
    <2>2. 0 .. Size - 1 \subseteq Registered
      BY <1>2, <2>1
    <2>3. Cardinality(0 .. Size - 1) <= Cardinality(Registered)
      BY <1>4, <2>2, FS_Subset, Zenon
    <2>4. Cardinality(0 .. Size - 1) = Size
      <3>1. 0 \in Int /\ Size - 1 \in Int /\ (0 > Size - 1 => Size = 0) /\ Size - 1 - 0 + 1 = Size
        BY <1>2, SMT
      <3>2. Cardinality(0 .. Size - 1) = IF 0 > Size - 1 THEN 0 ELSE Size - 1 - 0 + 1
        BY <3>1, FS_Interval, Zenon
      <3> QED
        BY <3>1, <3>2
    <2> QED
      BY <1>2, <1>4, <2>3, <2>4, SMT
  <1> QED
    BY <1>5, <1>6

(* A dispatch is refused at the dead end only: no slot stands that could   *)
(* be taken and none may be minted.                                        *)
LEMMA RefusalStep ==
  ASSUME IInv, [Next]_vars, verdict' = "exhausted", verdict # "exhausted"
  PROVE  /\ \A s \in Registered : s \in condemned \/ Holders(s) # {} \/ edits[s] # None
         /\ Cardinality(Registered) >= Size
  <1>1. AcquireRefuses
    <2>1. CASE AcquireSalvages \/ AcquireTakes \/ PrewarmTakes \/ Wipe \/ Refused
      BY <2>1, Zenon DEF AcquireSalvages, AcquireTakes, PrewarmTakes, HandsOver, Wipe, Refused
    <2>2. CASE \/ AcquireOwn \/ AcquireMints \/ AcquireFails \/ PrewarmMints \/ PrewarmEnds
               \/ Release \/ Reap \/ ReapRefused \/ Switch \/ Restart
      <3>1. Over("none")
        BY <2>2, Zenon DEF AcquireOwn, AcquireMints, AcquireFails, Granted, Rejected,
           PrewarmMints, PrewarmEnds, Release, Reap, ReapRefused, Switch, Settled, Restart
      <3>2. verdict' = "none"
        BY <3>1, Zenon DEF Over
      <3> QED
        BY <3>2
    <2>3. CASE \/ \E n \in Names : Dispatch(n) \/ Finish(n) \/ Eject(n) \/ Settle(n) \/ Exits(n) \/ Decide(n)
               \/ \E n \in Names, s \in Slots : Edit(n, s) \/ Move(n, s)
               \/ \E b \in Branches : AskReap(b)
               \/ Prewarm \/ UNCHANGED vars
      BY <2>3, Zenon DEF Dispatch, Finish, Eject, Settle, Exits, Decide, Edit, Move, AskReap,
         Prewarm, vars, op
    <2> QED
      BY <2>1, <2>2, <2>3, Zenon DEF Next, Operation
  <1>2. Candidates(Asked) = {} /\ Mintable = {}
    BY <1>1, Zenon DEF AcquireRefuses, DeadEnd
  <1>3. Warm(Asked) = {} /\ Spare(Asked) = {} /\ Evictable(Asked) = {}
    BY <1>2, Zenon DEF Candidates
  <1>4. Clean = {}
    BY <1>3 DEF Evictable
  <1>5. ASSUME NEW s \in Registered
        PROVE  s \in condemned \/ Holders(s) # {} \/ edits[s] # None
    BY <1>4, <1>5, Zenon DEF Clean, Stuck, Open
  <1> QED
    BY <1>2, <1>5, FullPool

(* A hand-over loses nobody's uncommitted work: it leaves a slot by the    *)
(* hand of whoever works there, or under a salvage ref.  And a dispatch is *)
(* refused for want of a slot only when every slot is held, condemned or   *)
(* carries work that could not be saved, and the pool has reached its size. *)
THEOREM HandOversAlwaysSafe == Spec => HandOversAreSafe
  <1>1. IInv /\ [Next]_vars =>
          [\A s \in Slots :
             edits[s] # None /\ edits'[s] # edits[s]
                 => (\E n \in Names : WorksIn(n, s)) \/ edits[s] \in saved']_vars
    BY WorkStep
  <1>2. IInv /\ [Next]_vars =>
          [(verdict' = "exhausted" /\ verdict # "exhausted")
             => /\ \A s \in Registered : s \in condemned \/ Holders(s) # {} \/ edits[s] # None
                /\ Cardinality(Registered) >= Size]_vars
    BY RefusalStep
  <1> QED
    BY <1>1, <1>2, PoolInvariant, PTL DEF Spec, HandOversAreSafe, WorkIsKept, RefusedOnlyWhenFull

-----------------------------------------------------------------------------
(***************************************************************************)
(* The pool keeps its promise to its tenants (Tenancy), for any number of  *)
(* branches, keys, slots and operations, while nobody who works in a slot  *)
(* switches its HEAD: a directory is made ready for somebody only while    *)
(* nobody's, and its tree is changed in no other step.                     *)
(*                                                                         *)
(* Leases are in memory and a restart forgets them, so the invariant reads *)
(* the tenant off the disk: whoever has a directory on record finds his    *)
(* branch, or his mark, in it.  That is what holder() falls back on.       *)
(*                                                                         *)
(* The second half goes on to the last process, and to the edits and       *)
(* ignored files a slot carries, where orphans are let go and a dispatch   *)
(* waits for the exit of the one before it: then whoever works in a slot   *)
(* holds its lease until he has left (StayPart).                           *)
(***************************************************************************)

(* The slot is checked out for the name. *)
TreeOf(n, s) == IF n \in Keys THEN head[s] = Detached /\ mark[s] = n ELSE head[s] = n

(* Whoever has a directory on record, or a slot on lease, finds his tree   *)
(* in it.                                                                  *)
TenantPart ==
    \A n \in Names : /\ home[n] # None => TreeOf(n, home[n])
                     /\ lease[n] # None => TreeOf(n, lease[n])

(* A branch is checked out in one slot at most. *)
HeadPart == \A s, t \in Slots : head[s] \in Branches /\ head[s] = head[t] => s = t

(* Nobody's: no directory on record and no lease names the slot. *)
Vacant(s) == \A n \in Names : home[n] # s /\ lease[n] # s

(* A slot that is handed over is nobody's until it is switched, and the    *)
(* branch it is for is checked out nowhere.                                *)
SlotPart ==
    step # "survey" => Vacant(slot) /\ (target \in Branches => On(target) = {})

TInv == IInv /\ TenantPart /\ HeadPart /\ SlotPart

-----------------------------------------------------------------------------
(* What the invariant says of the types these proofs read. *)
LEMMA TypesSay ==
  ASSUME IInv
  PROVE  /\ head \in [Slots -> Branches \cup {Detached, Absent}]
         /\ mark \in [Slots -> Keys \cup {None}]
         /\ home \in [Names -> Slots \cup {None}]
         /\ lease \in [Names -> Slots \cup {None}]
         /\ queue \in Seq(Entries) /\ WaitPart /\ OpType /\ StepPart
         /\ branches \subseteq Branches
         /\ \A n \in Names : Held(n) <=> home[n] # None
  <1>1. \A n \in Names : Held(n) <=> home[n] # None
    BY Apart, Zenon DEF IInv, Book, HomePart
  <1> QED
    BY <1>1, Zenon DEF IInv, Book, DiskType, PoolType, FleetType

(* Two names whose tree a slot is are one. *)
LEMMA OneTree ==
  ASSUME NEW n \in Names, NEW m \in Names, NEW s, TreeOf(n, s), TreeOf(m, s)
  PROVE  n = m
  BY Apart, SMT DEF TreeOf

(* An open slot is nobody's. *)
LEMMA OpenIsVacant ==
  ASSUME TInv, NEW s \in Open
  PROVE  Vacant(s)
  <1> SUFFICES ASSUME NEW n \in Names PROVE home[n] # s /\ lease[n] # s
    BY DEF Vacant
  <1>t. s \in Slots /\ Holders(s) = {}
    BY DEF Open, Registered
  <1>1. lease[n] # s
    BY <1>t, Zenon DEF Holders, Lessees
  <1>2. ASSUME home[n] = s PROVE FALSE
    <2>1. Held(n) /\ TreeOf(n, s)
      BY <1>2, <1>t, TypesSay, Apart, SMT DEF TInv, TenantPart
    <2>2. Lessees(s) = {}
      BY <1>t, Zenon DEF Holders
    <2>3. CASE n \in Keys
      BY <1>t, <2>1, <2>2, <2>3, Apart, SMT DEF Holders, TreeOf
    <2>4. CASE n \notin Keys
      BY <1>t, <2>1, <2>2, <2>4, Apart, SMT DEF Holders, TreeOf
    <2> QED
      BY <2>3, <2>4
  <1> QED
    BY <1>1, <1>2

(* A slot that is not registered is nobody's. *)
LEMMA AbsentIsVacant ==
  ASSUME TInv, NEW s \in Slots, head[s] = Absent
  PROVE  Vacant(s)
  <1> SUFFICES ASSUME NEW n \in Names, home[n] = s \/ lease[n] = s PROVE FALSE
    BY DEF Vacant
  <1>1. TreeOf(n, s)
    BY Apart, SMT DEF TInv, TenantPart
  <1> QED
    BY <1>1, Apart, SMT DEF TreeOf

(* The slot a dispatch finds its own carries its tree and is nobody        *)
(* else's.                                                                 *)
LEMMA ReusedIsOwn ==
  ASSUME TInv, NEW n \in Names, ~Held(n), NEW s \in Reused(n), s \in Slots
  PROVE  TreeOf(n, s) /\ \A m \in Names : home[m] # s
  <1>t. /\ head \in [Slots -> Branches \cup {Detached, Absent}] /\ mark \in [Slots -> Keys \cup {None}]
        /\ home[n] = None
    BY TypesSay, Zenon DEF TInv
  <1>1. ASSUME s \in Own(n), n \notin Branches \/ On(n) = {}
        PROVE  TreeOf(n, s)
    <2>1. n \in Holders(s) /\ s \in Registered
      BY <1>1, Zenon DEF Own
    <2>2. CASE lease[n] = s
      BY <2>2, Apart, SMT DEF TInv, TenantPart
    <2>3. CASE lease[n] # s
      BY <2>1, <2>3, SMT DEF Holders, Lessees
    <2> QED
      BY <2>2, <2>3
  <1>2. TreeOf(n, s)
    <2>1. CASE n \in Branches /\ On(n) # {}
      BY <2>1, Apart, SMT DEF Reused, On, TreeOf
    <2>2. CASE ~(n \in Branches /\ On(n) # {})
      <3>1. s \in Own(n)
        BY <2>2, Zenon DEF Reused
      <3> QED
        BY <1>1, <2>2, <3>1
    <2> QED
      BY <2>1, <2>2
  <1>3. ASSUME NEW m \in Names, home[m] = s PROVE FALSE
    <2>1. TreeOf(m, s)
      BY <1>3, Apart, SMT DEF TInv, TenantPart
    <2>2. m = n
      BY <1>2, <2>1, OneTree
    <2> QED
      BY <1>t, <1>3, <2>2, Apart
  <1> QED
    BY <1>2, <1>3

-----------------------------------------------------------------------------
(* A step that leaves heads and marks and only takes names off directories *)
(* and leases keeps the tenants.                                           *)
LEMMA OnlyLeaves ==
  ASSUME TInv, UNCHANGED <<head, mark>>,
         \A n \in Names : home'[n] \in {home[n], None} /\ lease'[n] \in {lease[n], None},
         UNCHANGED <<step, slot, target>> \/ step' = "survey"
  PROVE  TenantPart' /\ HeadPart' /\ SlotPart'
  <1>1. TenantPart' /\ HeadPart'
    BY SMT DEF TInv, TenantPart, HeadPart, TreeOf
  <1>2. SlotPart'
    <2>1. CASE step' = "survey"
      BY <2>1, Zenon DEF SlotPart
    <2>2. CASE UNCHANGED <<step, slot, target>> /\ step # "survey"
      <3>1. Vacant(slot) /\ (target \in Branches => On(target) = {}) /\ slot \in Slots
        BY <2>2, PastSurvey, Zenon DEF TInv, IInv, SlotPart
      <3>2. \A n \in Names : home'[n] # slot' /\ lease'[n] # slot'
        BY <2>2, <3>1, Apart, SMT DEF Vacant
      <3>3. target' \in Branches => \A s \in Slots : ~(head'[s] # Absent /\ head'[s] = target')
        BY <2>2, <3>1, SMT DEF On, Registered
      <3> QED
        BY <3>2, <3>3, Zenon DEF SlotPart, Vacant, On, Registered
    <2> QED
      BY <2>1, <2>2
  <1> QED
    BY <1>1, <1>2

(* A mark is cleared in a slot that is nobody's. *)
LEMMA Unmarks ==
  ASSUME TInv, NEW s \in Slots, Vacant(s), UNCHANGED <<head, home, lease>>,
         mark' = [mark EXCEPT ![s] = None],
         UNCHANGED <<step, slot, target>> \/ step' = "survey"
                  \/ (step # "survey" /\ UNCHANGED <<slot, target>>)
  PROVE  TenantPart' /\ HeadPart' /\ SlotPart'
  <1>1. \A t \in Slots : t # s => mark'[t] = mark[t]
    BY TypesSay, SMT DEF TInv
  <1>2. TenantPart'
    <2> SUFFICES ASSUME NEW n \in Names
                 PROVE  /\ home[n] # None => TreeOf(n, home[n])'
                        /\ lease[n] # None => TreeOf(n, lease[n])'
      BY Zenon DEF TenantPart, TreeOf
    <2>1. /\ home[n] # None => home[n] \in Slots /\ home[n] # s /\ TreeOf(n, home[n])
          /\ lease[n] # None => lease[n] \in Slots /\ lease[n] # s /\ TreeOf(n, lease[n])
      BY TypesSay, SMT DEF TInv, TenantPart, Vacant
    <2> QED
      BY <1>1, <2>1, Zenon DEF TreeOf
  <1>3. HeadPart'
    BY Zenon DEF TInv, HeadPart
  <1>4. SlotPart'
    BY Zenon DEF TInv, SlotPart, Vacant, On, Registered
  <1> QED
    BY <1>2, <1>3, <1>4

(* A slot that is nobody's is minted for a name whose branch is checked    *)
(* out nowhere, and is at most his from then on.                           *)
LEMMA Mints ==
  ASSUME TInv, NEW s \in Slots, NEW n \in Names, Vacant(s), Minted(s, n),
         n \in Branches => On(n) = {},
         home' = home \/ home' = [home EXCEPT ![n] = s],
         lease' = lease \/ lease' = [lease EXCEPT ![n] = s],
         step' = "survey"
  PROVE  TenantPart' /\ HeadPart' /\ SlotPart'
  <1>t. /\ head \in [Slots -> Branches \cup {Detached, Absent}]
        /\ mark \in [Slots -> Keys \cup {None}]
        /\ home \in [Names -> Slots \cup {None}]
        /\ lease \in [Names -> Slots \cup {None}]
    BY TypesSay, Zenon DEF TInv
  <1>1. /\ head'[s] = IF n \in Keys THEN Detached ELSE n
        /\ mark'[s] = IF n \in Keys THEN n ELSE None
        /\ \A t \in Slots : t # s => head'[t] = head[t] /\ mark'[t] = mark[t]
    BY <1>t, SMT DEF Minted
  <1>2. \A m \in Names : /\ home'[m] # home[m] => m = n /\ home'[m] = s
                         /\ lease'[m] # lease[m] => m = n /\ lease'[m] = s
    BY <1>t, SMT
  <1>3. IF n \in Keys THEN head'[s] = Detached /\ mark'[s] = n ELSE head'[s] = n
    BY <1>1, Zenon
  <1>4. ASSUME NEW m \in Names, NEW t \in Slots, t # s, TreeOf(m, t)
        PROVE  IF m \in Keys THEN head'[t] = Detached /\ mark'[t] = m ELSE head'[t] = m
    BY <1>1, <1>4, Zenon DEF TreeOf
  <1>5. ASSUME NEW m \in Names
        PROVE  /\ home'[m] # None =>
                    IF m \in Keys THEN head'[home'[m]] = Detached /\ mark'[home'[m]] = m
                                  ELSE head'[home'[m]] = m
               /\ lease'[m] # None =>
                    IF m \in Keys THEN head'[lease'[m]] = Detached /\ mark'[lease'[m]] = m
                                  ELSE head'[lease'[m]] = m
    <2>1. /\ home[m] # None => home[m] \in Slots /\ home[m] # s /\ TreeOf(m, home[m])
          /\ lease[m] # None => lease[m] \in Slots /\ lease[m] # s /\ TreeOf(m, lease[m])
      BY <1>t, SMT DEF TInv, TenantPart, Vacant
    <2>2. CASE home'[m] = home[m] /\ lease'[m] = lease[m]
      BY <1>4, <2>1, <2>2, Zenon
    <2>3. CASE home'[m] # home[m] /\ lease'[m] = lease[m]
      BY <1>2, <1>3, <1>4, <2>1, <2>3, Zenon
    <2>4. CASE home'[m] = home[m] /\ lease'[m] # lease[m]
      BY <1>2, <1>3, <1>4, <2>1, <2>4, Zenon
    <2>5. CASE home'[m] # home[m] /\ lease'[m] # lease[m]
      BY <1>2, <1>3, <2>5, Zenon
    <2> QED
      BY <2>2, <2>3, <2>4, <2>5
  <1>6. TenantPart'
    BY <1>5, Zenon DEF TenantPart, TreeOf
  <1>7. HeadPart'
    <2>1. \A t \in Slots : n \in Branches => head[t] # n
      BY Apart, Zenon DEF On, Registered
    <2>2. n \notin Keys => n \in Branches
      BY DEF Names
    <2> QED
      BY <1>1, <2>1, <2>2, Apart, SMT DEF TInv, HeadPart
  <1>8. SlotPart'
    BY Zenon DEF SlotPart
  <1> QED
    BY <1>6, <1>7, <1>8

-----------------------------------------------------------------------------
(* What an operation makes of one slot. *)

(* The dispatch that runs is for a name that nobody holds. *)
LEMMA AskedIsFree ==
  ASSUME IInv, Running("ensure")
  PROVE  Asked \in Names /\ ~Held(Asked) /\ home[Asked] = None
  <1>1. Asked \in Names /\ task[Asked] = "asked"
    BY TypesSay, RunningOne, HeadTyped
  <1>2. ~Held(Asked)
    BY <1>1, SMT DEF Held
  <1> QED
    BY <1>1, <1>2, TypesSay

(* A grant at most adds the name's own directory and lease. *)
LEMMA GrantSays ==
  ASSUME NEW n, NEW s, Granted(n, s)
  PROVE  /\ lease' = [lease EXCEPT ![n] = s]
         /\ home' = home \/ home' = [home EXCEPT ![n] = s]
         /\ step' = "survey"
  BY Zenon DEF Granted, Over

(* The name goes back to the slot it has. *)
LEMMA OwnStep ==
  ASSUME TInv, AcquireOwn
  PROVE  /\ TenantPart' /\ HeadPart' /\ SlotPart'
         /\ \E s \in Slots : /\ \A m \in Names : home[m] # s
                             /\ head' = head
                             /\ \/ home' = home
                                \/ home[Asked] = None /\ home' = [home EXCEPT ![Asked] = s]
  <1> DEFINE n == Asked
             s == Least(Reused(n))
  <1>1. /\ Running("ensure") /\ Reused(n) # {} /\ Granted(n, s)
        /\ UNCHANGED <<head, mark>>
    BY Zenon DEF AcquireOwn
  <1>2. n \in Names /\ ~Held(n) /\ home[n] = None
    BY <1>1, AskedIsFree DEF TInv
  <1>3. s \in Reused(n) /\ s \in Slots
    BY <1>1, TakenIsSlot
  <1> HIDE DEF n, s
  <1>4. TreeOf(n, s) /\ \A m \in Names : home[m] # s
    BY <1>2, <1>3, ReusedIsOwn
  <1>5. /\ lease' = [lease EXCEPT ![n] = s]
        /\ home' = home \/ home' = [home EXCEPT ![n] = s]
        /\ step' = "survey"
    BY <1>1, GrantSays
  <1>6. TenantPart'
    BY <1>1, <1>2, <1>4, <1>5, TypesSay, SMT DEF TInv, TenantPart, TreeOf
  <1>7. HeadPart' /\ SlotPart'
    BY <1>1, <1>5, Zenon DEF TInv, HeadPart, SlotPart
  <1> QED
    BY <1>1, <1>2, <1>3, <1>4, <1>5, <1>6, <1>7, Zenon DEF n

(* A slot is minted, for a dispatch or warm. *)
LEMMA MintStep ==
  ASSUME TInv, NEW s \in Slots, NEW n \in Names, Vacant(s), Minted(s, n),
         n \in Branches => On(n) = {}, step' = "survey",
         \/ UNCHANGED <<home, lease>>
         \/ home[n] = None /\ Granted(n, s)
  PROVE  /\ TenantPart' /\ HeadPart' /\ SlotPart'
         /\ \A m \in Names : home[m] # s
         /\ \A t \in Slots : t # s => head'[t] = head[t]
         /\ \/ home' = home
            \/ home[n] = None /\ home' = [home EXCEPT ![n] = s]
  <1>1. /\ home' = home \/ (home[n] = None /\ home' = [home EXCEPT ![n] = s])
        /\ lease' = lease \/ lease' = [lease EXCEPT ![n] = s]
    BY GrantSays, Zenon
  <1>2. TenantPart' /\ HeadPart' /\ SlotPart'
    BY <1>1, Mints, Zenon
  <1>3. \A t \in Slots : t # s => head'[t] = head[t]
    BY TypesSay, SMT DEF Minted, TInv
  <1> QED
    BY <1>1, <1>2, <1>3, Zenon DEF Vacant

(* A reap detaches the one slot its branch is checked out in, which is     *)
(* nobody's.                                                               *)
LEMMA ReapStep ==
  ASSUME TInv, Reap
  PROVE  /\ TenantPart' /\ HeadPart' /\ SlotPart'
         /\ home' = home /\ Names # {}
         /\ \/ head' = head
            \/ \E s \in Slots : /\ \A m \in Names : home[m] # s
                                /\ \A t \in Slots : t # s => head'[t] = head[t]
  <1> DEFINE b == Asked
  <1>t. /\ head \in [Slots -> Branches \cup {Detached, Absent}]
        /\ home \in [Names -> Slots \cup {None}]
        /\ lease \in [Names -> Slots \cup {None}]
    BY TypesSay, Zenon DEF TInv
  <1>1. /\ Running("reap") /\ Reapable(b)
        /\ lease' = [lease EXCEPT ![b] = None]
        /\ head' = head \/ head' = [s \in Slots |-> IF head[s] = b THEN Detached ELSE head[s]]
        /\ UNCHANGED <<mark, home>> /\ step' = "survey"
    BY Zenon DEF Reap, Settled, Over
  <1>2. b \in Branches
    BY <1>1, TypesSay, RunningOne, HeadTyped DEF TInv
  <1> HIDE DEF b
  <1>n. Names # {}
    BY <1>2 DEF Names
  <1>3. \A m \in Names : lease'[m] \in {lease[m], None}
    BY <1>t, <1>1, SMT
  <1>4. CASE head' = head
    BY <1>1, <1>3, <1>4, <1>n, OnlyLeaves, Zenon
  <1>5. CASE head' = [s \in Slots |-> IF head[s] = b THEN Detached ELSE head[s]]
    <2>1. ASSUME NEW s \in Slots, head[s] = b
          PROVE  Vacant(s)
      <3>1. s \in On(b)
        BY <1>2, <2>1, Apart, Zenon DEF On, Registered
      <3>2. ~Held(b) /\ Lessees(s) = {}
        BY <1>1, <3>1, Zenon DEF Reapable
      <3>3. \A m \in Names : lease[m] # s
        BY <3>2 DEF Lessees
      <3>4. ASSUME NEW m \in Names, home[m] = s PROVE FALSE
        <4>1. TreeOf(m, s) /\ Held(m)
          BY <3>4, TypesSay, Apart, SMT DEF TInv, TenantPart
        <4>2. m = b
          BY <1>2, <2>1, <4>1, Apart, Zenon DEF TreeOf
        <4> QED
          BY <3>2, <4>1, <4>2
      <3> QED
        BY <3>3, <3>4 DEF Vacant
    <2>2. \A t \in Slots : head'[t] = IF head[t] = b THEN Detached ELSE head[t]
      BY <1>5
    <2>3. TenantPart'
      <3> SUFFICES ASSUME NEW n \in Names
                   PROVE  /\ home'[n] # None => TreeOf(n, home[n])'
                          /\ lease'[n] # None => TreeOf(n, lease[n])'
        BY Zenon DEF TenantPart, TreeOf
      <3>1. /\ home[n] # None => home[n] \in Slots /\ head[home[n]] # b /\ TreeOf(n, home[n])
            /\ lease[n] # None => lease[n] \in Slots /\ head[lease[n]] # b /\ TreeOf(n, lease[n])
        BY <1>t, <2>1, SMT DEF TInv, TenantPart, Vacant
      <3> QED
        BY <1>1, <1>3, <2>2, <3>1, SMT DEF TreeOf
    <2>4. HeadPart'
      BY <1>2, <2>2, Apart, SMT DEF TInv, HeadPart
    <2>5. SlotPart'
      BY <1>1, Zenon DEF SlotPart
    <2>6. head' = head \/ \E s \in Slots : /\ \A m \in Names : home[m] # s
                                           /\ \A t \in Slots : t # s => head'[t] = head[t]
      <3>1. CASE \E s \in Slots : head[s] = b
        <4>1. PICK s \in Slots : head[s] = b
          BY <3>1
        <4>2. \A t \in Slots : t # s => head[t] # b
          BY <1>2, <4>1, Zenon DEF TInv, HeadPart
        <4> QED
          BY <2>1, <2>2, <4>1, <4>2, Zenon DEF Vacant
      <3>2. CASE ~\E s \in Slots : head[s] = b
        BY <1>t, <1>5, <3>2, SMT
      <3> QED
        BY <3>1, <3>2
    <2> QED
      BY <1>1, <1>n, <2>3, <2>4, <2>5, <2>6
  <1> QED
    BY <1>1, <1>4, <1>5

(* A slot is taken for a hand-over: it is nobody's, and so it stays. *)
LEMMA TakeStep ==
  ASSUME TInv, NEW s \in Open, NEW n \in Names, HandsOver(s, n),
         n \in Branches => On(n) = {}
  PROVE  TenantPart' /\ HeadPart' /\ SlotPart' /\ UNCHANGED <<head, home>>
  <1>1. UNCHANGED <<head, mark, home, lease>> /\ slot' = s /\ target' = n
    BY Zenon DEF HandsOver, disk, pool, fleet
  <1>2. Vacant(s)
    BY OpenIsVacant
  <1>3. TenantPart' /\ HeadPart'
    BY <1>1, Zenon DEF TInv, TenantPart, HeadPart, TreeOf
  <1>4. SlotPart'
    BY <1>1, <1>2, Zenon DEF SlotPart, Vacant, On, Registered
  <1> QED
    BY <1>1, <1>3, <1>4

-----------------------------------------------------------------------------
(* What a step does to the directories: names leave some, or one that is   *)
(* nobody's is made ready.                                                 *)
Leaves ==
    /\ head' = head
    /\ \A n \in Names : home'[n] \in {home[n], None}

Readies(s) ==
    /\ Names # {}
    /\ \A m \in Names : home[m] # s
    /\ \A t \in Slots : t # s => head'[t] = head[t]
    /\ \/ home' = home
       \/ \E n \in Names : home[n] = None /\ home' = [home EXCEPT ![n] = s]

Kept == TenantPart' /\ HeadPart' /\ SlotPart' /\ (Leaves \/ \E s \in Slots : Readies(s))

LEMMA OperationKept ==
  ASSUME TInv, Operation
  PROVE  Kept
  <1>i. IInv /\ OpType /\ StepPart
    BY TypesSay DEF TInv
  <1>l. ASSUME UNCHANGED <<head, home>> PROVE Leaves
    BY <1>l, Zenon DEF Leaves
  <1>1. CASE AcquireOwn
    <2>1. Running("ensure") /\ Asked \in Names
      BY <1>1, <1>i, AskedIsFree, Zenon DEF AcquireOwn
    <2>2. PICK s \in Slots : /\ \A m \in Names : home[m] # s
                             /\ head' = head
                             /\ \/ home' = home
                                \/ home[Asked] = None /\ home' = [home EXCEPT ![Asked] = s]
      BY <1>1, OwnStep, Zenon
    <2>3. Readies(s)
      BY <2>1, <2>2, Zenon DEF Readies
    <2> QED
      BY <1>1, <2>3, OwnStep, Zenon DEF Kept
  <1>2. CASE AcquireMints
    <2>1. PICK s \in Slots : s \in Mintable /\ Minted(s, Asked) /\ Granted(Asked, s)
      BY <1>2, TakenIsSlot, Zenon DEF AcquireMints
    <2>2. Running("ensure") /\ Reused(Asked) = {}
      BY <1>2, Zenon DEF AcquireMints, Seeking
    <2>3. Asked \in Names /\ home[Asked] = None
      BY <1>i, <2>2, AskedIsFree
    <2>4. Vacant(s)
      <3>1. head[s] = Absent
        BY <2>1, Zenon DEF Mintable, Registered
      <3> QED
        BY <3>1, AbsentIsVacant
    <2>5. Asked \in Branches => On(Asked) = {}
      BY <2>2, Zenon DEF Reused
    <2>6. step' = "survey"
      BY <2>1, GrantSays
    <2>7. Readies(s) /\ TenantPart' /\ HeadPart' /\ SlotPart'
      BY <2>1, <2>3, <2>4, <2>5, <2>6, MintStep, Zenon DEF Readies
    <2> QED
      BY <2>7, Zenon DEF Kept
  <1>3. CASE PrewarmMints
    <2>1. PICK b \in Warmable, s \in Slots : s \in Mintable /\ Minted(s, b)
      BY <1>3, TakenIsSlot, Zenon DEF PrewarmMints
    <2>2. b \in Names /\ On(b) = {}
      BY TypesSay, Apart, Zenon DEF Warmable, TInv
    <2>3. UNCHANGED <<home, lease>> /\ step' = "survey"
      BY <1>3, Zenon DEF PrewarmMints, Settled, Over, pool, fleet
    <2>4. Vacant(s)
      <3>1. head[s] = Absent
        BY <2>1, Zenon DEF Mintable, Registered
      <3> QED
        BY <3>1, AbsentIsVacant
    <2>5. Readies(s) /\ TenantPart' /\ HeadPart' /\ SlotPart'
      BY <2>1, <2>2, <2>3, <2>4, MintStep, Zenon DEF Readies
    <2> QED
      BY <2>5, Zenon DEF Kept
  <1>4. CASE Switch
    <2>1. /\ Minted(slot, target) /\ step = "switch"
          /\ \/ Running("ensure") /\ Granted(target, slot)
             \/ UNCHANGED <<home, lease>> /\ step' = "survey"
      BY <1>4, Zenon DEF Switch, Settled, Over, fleet
    <2>2. /\ slot \in Slots /\ target \in Names
          /\ Running("ensure") => target = Asked
          /\ step # "survey"
      BY <1>i, <2>1, PastSurvey, SMT
    <2>3. Vacant(slot) /\ (target \in Branches => On(target) = {})
      BY <2>2, Zenon DEF TInv, SlotPart
    <2>4. \/ UNCHANGED <<home, lease>>
          \/ home[target] = None /\ Granted(target, slot)
      BY <1>i, <2>1, <2>2, AskedIsFree, Zenon
    <2>5. step' = "survey"
      BY <2>1, GrantSays, Zenon
    <2>6. Readies(slot) /\ TenantPart' /\ HeadPart' /\ SlotPart'
      BY <2>1, <2>2, <2>3, <2>4, <2>5, MintStep, Zenon DEF Readies
    <2> QED
      BY <2>2, <2>6, Zenon DEF Kept
  <1>5. CASE Reap
    <2>1. /\ TenantPart' /\ HeadPart' /\ SlotPart' /\ home' = home /\ Names # {}
          /\ \/ head' = head
             \/ \E s \in Slots : /\ \A m \in Names : home[m] # s
                                 /\ \A t \in Slots : t # s => head'[t] = head[t]
      BY <1>5, ReapStep
    <2> QED
      BY <1>l, <2>1, Zenon DEF Readies, Kept
  <1>6. CASE AcquireTakes
    <2>1. /\ Seeking(Asked) /\ Running("ensure") /\ Candidates(Asked) # {}
          /\ HandsOver(Least(Candidates(Asked)), Asked)
      BY <1>6, Zenon DEF AcquireTakes
    <2>2. Asked \in Names /\ (Asked \in Branches => On(Asked) = {})
      BY <1>i, <2>1, AskedIsFree, Zenon DEF Seeking, Reused
    <2>3. Least(Candidates(Asked)) \in Open
      <3>1. Candidates(Asked) \subseteq Open
        BY Zenon DEF Candidates, Warm, Spare, Evictable, Clean
      <3> QED
        BY <2>1, <3>1, TakenIsSlot, Zenon
    <2> QED
      BY <1>l, <2>1, <2>2, <2>3, TakeStep, Zenon DEF Kept
  <1>7. CASE PrewarmTakes
    <2>1. PICK b \in Warmable : Spare(b) # {} /\ HandsOver(Least(Spare(b)), b)
      BY <1>7, Zenon DEF PrewarmTakes
    <2>2. b \in Names /\ On(b) = {}
      BY TypesSay, Apart, Zenon DEF Warmable, TInv
    <2>3. Least(Spare(b)) \in Open
      <3>1. Spare(b) \subseteq Open
        BY Zenon DEF Spare, Clean
      <3> QED
        BY <2>1, <3>1, TakenIsSlot, Zenon
    <2> QED
      BY <1>l, <2>1, <2>2, <2>3, TakeStep, Zenon DEF Kept
  <1>8. CASE Wipe \/ Refused
    <2>1. /\ mark' = [mark EXCEPT ![slot] = None] /\ UNCHANGED <<head, home, lease>>
          /\ step \in {"wipe", "switch"}
          /\ step' = "survey" \/ UNCHANGED <<slot, target>>
      BY <1>8, SMT DEF Wipe, Refused, pool
    <2>2. step # "survey" /\ slot \in Slots
      BY <1>i, <2>1, PastSurvey, SMT
    <2>3. Vacant(slot)
      BY <2>2, Zenon DEF TInv, SlotPart
    <2> QED
      BY <1>l, <2>1, <2>2, <2>3, Unmarks, Zenon DEF Kept
  <1>9. CASE \/ AcquireFails \/ AcquireRefuses \/ AcquireSalvages \/ PrewarmEnds
             \/ Release \/ ReapRefused
    <2>1. /\ UNCHANGED <<head, mark, home>>
          /\ UNCHANGED lease \/ lease' = [lease EXCEPT ![Asked] = None]
          /\ UNCHANGED <<step, slot, target>> \/ step' = "survey"
      BY <1>9, Zenon DEF AcquireFails, AcquireRefuses, Rejected, AcquireSalvages, PrewarmEnds,
         Release, ReapRefused, Settled, Over, disk, pool, fleet
    <2>2. \A n \in Names : home'[n] \in {home[n], None} /\ lease'[n] \in {lease[n], None}
      BY <2>1, TypesSay, SMT DEF TInv
    <2> QED
      BY <1>l, <2>1, <2>2, OnlyLeaves, Zenon DEF Kept
  <1> QED
    BY <1>1, <1>2, <1>3, <1>4, <1>5, <1>6, <1>7, <1>8, <1>9, Zenon DEF Operation

LEMMA TenancyNext ==
  ASSUME HeadMoves = FALSE, TInv, [Next]_vars
  PROVE  Kept
  <1>1. CASE Operation
    BY <1>1, OperationKept
  <1>2. CASE ~Operation
    <2>1. /\ UNCHANGED <<head, mark>>
          /\ UNCHANGED <<step, slot, target>> \/ step' = "survey"
          /\ \/ UNCHANGED home
             \/ \E n \in Names : home' = [home EXCEPT ![n] = None]
          /\ UNCHANGED lease \/ lease' = [n \in Names |-> None]
      BY <1>2, Zenon DEF Next, Dispatch, Finish, Eject, Settle, Exits, Decide, Edit, Move, AskReap,
         Prewarm, Restart, Over, disk, pool, op, fleet, vars
    <2>2. \A n \in Names : home'[n] \in {home[n], None} /\ lease'[n] \in {lease[n], None}
      BY <2>1, TypesSay, SMT DEF TInv
    <2> QED
      BY <2>1, <2>2, OnlyLeaves, Zenon DEF Kept, Leaves
  <1> QED
    BY <1>1, <1>2

LEMMA TenancyInit == Init => TInv
  <1> SUFFICES ASSUME Init PROVE TInv
    OBVIOUS
  <1>1. /\ head = [s \in Slots |-> Absent] /\ step = "survey"
        /\ home = [n \in Names |-> None] /\ lease = [n \in Names |-> None]
    BY Zenon DEF Init, Fresh
  <1>2. TenantPart /\ HeadPart /\ SlotPart
    BY <1>1, Apart, SMT DEF TenantPart, HeadPart, SlotPart
  <1> QED
    BY <1>2, PoolInit DEF TInv

-----------------------------------------------------------------------------
(* The tenants, as Tenancy reads them. *)
LEMMA TenantsAre ==
  ASSUME IInv, NEW s \in Slots
  PROVE  Tenants(s) = {n \in Names : home[n] = s}
  BY TypesSay, Apart, SMT DEF Tenants

LEMMA OneTenant ==
  ASSUME TInv, NEW s \in Slots, NEW n \in Tenants(s)
  PROVE  Tenants(s) = {n}
  <1>1. n \in Names /\ home[n] = s
    BY DEF Tenants
  <1>2. ASSUME NEW m \in Tenants(s) PROVE m = n
    <2>1. m \in Names /\ home[m] = s
      BY <1>2 DEF Tenants
    <2> QED
      BY <1>1, <2>1, OneTree, Apart, SMT DEF TInv, TenantPart
  <1> QED
    BY <1>2

(* Leaving is Tenancy's Leave. *)
LEMMA LeaveMaps ==
  ASSUME TInv, IInv', Leaves
  PROVE  Promise!Leave
  <1> DEFINE S == {s \in Slots : Tenants(s)' = {}}
  <1>1. ASSUME NEW s \in Slots
        PROVE  Tenants(s)' = IF s \in S THEN {} ELSE Tenants(s)
    <2>1. /\ Tenants(s)' = {n \in Names : home'[n] = s}
          /\ Tenants(s) = {n \in Names : home[n] = s}
      BY TypesSay, TenantsAre, Apart, SMT DEF TInv, IInv, Book, HomePart, Tenants, Held
    <2>2. Tenants(s)' \subseteq Tenants(s)
      BY <2>1, Apart, SMT DEF Leaves
    <2>3. CASE Tenants(s)' = {}
      BY <2>3
    <2>4. ASSUME NEW n \in Names, n \in Tenants(s)'
          PROVE  Tenants(s)' = Tenants(s) /\ s \notin S
      <3>1. n \in Tenants(s)
        BY <2>2, <2>4
      <3>2. Tenants(s) = {n}
        BY <3>1, OneTenant
      <3> QED
        BY <2>2, <2>4, <3>2
    <2> QED
      BY <2>1, <2>3, <2>4
  <1>2. [s \in Slots |-> Tenants(s)'] =
           [s \in Slots |-> IF s \in S THEN {} ELSE [t \in Slots |-> Tenants(t)][s]]
    BY <1>1
  <1>3. S \in SUBSET Slots
    OBVIOUS
  <1> QED
    BY <1>2, <1>3 DEF Promise!Leave, Leaves

(* Making a slot ready is Tenancy's MakeReady. *)
LEMMA ReadyMaps ==
  ASSUME TInv, IInv', NEW s \in Slots, Readies(s)
  PROVE  Promise!MakeReady(s)
  <1>t. /\ head \in [Slots -> Branches \cup {Detached, Absent}]
        /\ head' \in [Slots -> Branches \cup {Detached, Absent}]
        /\ home \in [Names -> Slots \cup {None}]
        /\ home' \in [Names -> Slots \cup {None}]
    BY TypesSay, Zenon DEF TInv, IInv, Book, DiskType, FleetType
  <1>1. \A t \in Slots : /\ Tenants(t)' = {n \in Names : home'[n] = t}
                         /\ Tenants(t) = {n \in Names : home[n] = t}
    BY TypesSay, TenantsAre, Apart, SMT DEF TInv, IInv, Book, HomePart, Tenants, Held
  <1>2. Tenants(s) = {}
    BY <1>1 DEF Readies
  <1>3. head' = [head EXCEPT ![s] = head'[s]] /\ head'[s] \in Branches \cup {Detached, Absent}
    BY <1>t, SMT DEF Readies
  <1>4. CASE home' = home
    <2>1. [t \in Slots |-> Tenants(t)'] = [t \in Slots |-> Tenants(t)]
      BY <1>1, <1>4
    <2>2. Names # {}
      BY DEF Readies
    <2> QED
      BY <1>2, <1>3, <2>1, <2>2 DEF Promise!MakeReady
  <1>5. ASSUME NEW n \in Names, home[n] = None, home' = [home EXCEPT ![n] = s]
        PROVE  Promise!MakeReady(s)
    <2>1. ASSUME NEW t \in Slots
          PROVE  Tenants(t)' = IF t = s THEN {n} ELSE Tenants(t)
      <3>1. \A m \in Names : home'[m] = t <=> (IF m = n THEN t = s ELSE home[m] = t)
        BY <1>t, <1>5, SMT
      <3>2. CASE t = s
        BY <1>1, <3>1, <3>2 DEF Readies
      <3>3. CASE t # s
        BY <1>1, <1>5, <3>1, <3>3, Apart
      <3> QED
        BY <3>2, <3>3
    <2>2. [t \in Slots |-> Tenants(t)'] = [[t \in Slots |-> Tenants(t)] EXCEPT ![s] = {n}]
      BY <2>1
    <2> QED
      BY <1>2, <1>3, <2>2 DEF Promise!MakeReady
  <1> QED
    BY <1>4, <1>5 DEF Readies

(* While nobody who works in a slot switches its HEAD, the pool implements *)
(* Tenancy: through hand-overs, warms, reaps, salvages, condemnations and  *)
(* restarts, with orphans restored and dispatches overlapping exits, a     *)
(* directory is one tenant's and its tree is changed only while it is      *)
(* nobody's.                                                               *)
THEOREM TenantsAlwaysKeepTheirTree ==
  ASSUME HeadMoves = FALSE
  PROVE  Spec => TenantsKeepTheirTree
  <1>1. IInv /\ [Next]_vars => IInv'
    BY BookNext, OpNext, DiskNext, EjectNext, Zenon DEF IInv
  <1>2. TInv /\ [Next]_vars => TInv'
    BY <1>1, TenancyNext, Zenon DEF TInv, Kept
  <1>3. Init => Promise!Init
    <2> SUFFICES ASSUME Init PROVE Promise!Init
      OBVIOUS
    <2>1. head = [s \in Slots |-> Absent] /\ IInv
      BY PoolInit, Zenon DEF Init
    <2>2. home = [n \in Names |-> None]
      BY Zenon DEF Init
    <2>3. \A s \in Slots : Tenants(s) = {}
      BY <2>1, <2>2, TenantsAre, Apart, SMT
    <2> QED
      BY <2>1, <2>3 DEF Promise!Init
  <1>4. TInv /\ [Next]_vars => [Promise!Next]_<<[s \in Slots |-> Tenants(s)], head>>
    <2> SUFFICES ASSUME TInv, [Next]_vars PROVE Promise!Next
      OBVIOUS
    <2>1. Kept /\ IInv'
      BY <1>1, TenancyNext DEF TInv
    <2> QED
      BY <2>1, LeaveMaps, ReadyMaps, Zenon DEF Kept, Promise!Next
  <1> QED
    BY <1>2, <1>3, <1>4, TenancyInit, PTL DEF Spec, TenantsKeepTheirTree, Promise!Spec

-----------------------------------------------------------------------------
(* The tree a name is told. *)

(* A mark vouches for the ignored files beside it; while a slot is between *)
(* wipe and switch it carries no mark, and only files of the ref it is     *)
(* prepared for.                                                           *)
MarkPart ==
    /\ MarkTellsTree
    /\ step = "switch" =>
          /\ mark[slot] = None
          /\ built[slot] \subseteq (IF target \in Keys THEN {Of[target]} ELSE {})

LEMMA MarkSays ==
  ASSUME MarkTellsTree, NEW s \in Slots, mark[s] # None
  PROVE  head[s] = Detached /\ built[s] \subseteq {Of[mark[s]]}
  BY DEF MarkTellsTree

(* Ignored files go and marks stay. *)
LEMMA MarkKept ==
  ASSUME MarkPart, UNCHANGED <<head, mark>>, \A s \in Slots : built'[s] \subseteq built[s],
         step' \in {"survey", "wipe"}
         \/ (UNCHANGED <<step, slot, target>> /\ (step = "switch" => slot \in Slots))
  PROVE  MarkPart'
  <1>1. MarkTellsTree'
    <2> SUFFICES ASSUME NEW s \in Slots, mark'[s] # None
                 PROVE  head'[s] = Detached /\ built'[s] \subseteq {Of[mark'[s]]}
      BY Zenon DEF MarkTellsTree
    <2>1. head[s] = Detached /\ built[s] \subseteq {Of[mark[s]]}
      BY MarkSays DEF MarkPart
    <2>2. built'[s] \subseteq built[s]
      OBVIOUS
    <2> QED
      BY <2>1, <2>2
  <1>2. CASE step' \in {"survey", "wipe"}
    BY <1>1, <1>2 DEF MarkPart
  <1>3. CASE UNCHANGED <<step, slot, target>> /\ (step = "switch" => slot \in Slots)
    <2> SUFFICES ASSUME step = "switch"
                 PROVE  /\ mark'[slot'] = None
                        /\ built'[slot'] \subseteq (IF target' \in Keys THEN {Of[target']} ELSE {})
      BY <1>1, <1>3, Zenon DEF MarkPart
    <2>1. /\ mark[slot] = None
          /\ built[slot] \subseteq (IF target \in Keys THEN {Of[target]} ELSE {})
          /\ built'[slot] \subseteq built[slot]
      BY <1>3, Zenon DEF MarkPart
    <2> QED
      BY <1>3, <2>1
  <1> QED
    BY <1>2, <1>3

(* A slot is minted over files that are the name's own, if any. *)
LEMMA MarkMinted ==
  ASSUME TInv, MarkPart, NEW s \in Slots, NEW n \in Names, Minted(s, n), step' = "survey",
         \A t \in Slots : t # s => built'[t] = built[t],
         n \in Keys => built'[s] \subseteq {Of[n]}
  PROVE  MarkPart'
  <1>1. /\ head \in [Slots -> Branches \cup {Detached, Absent}]
        /\ mark \in [Slots -> Keys \cup {None}]
    BY TypesSay, Zenon DEF TInv
  <1>2. /\ head'[s] = IF n \in Keys THEN Detached ELSE n
        /\ mark'[s] = IF n \in Keys THEN n ELSE None
        /\ \A t \in Slots : t # s => head'[t] = head[t] /\ mark'[t] = mark[t]
    BY <1>1, SMT DEF Minted
  <1>3. ASSUME NEW t \in Slots, mark'[t] # None
        PROVE  head'[t] = Detached /\ built'[t] \subseteq {Of[mark'[t]]}
    <2>1. CASE t = s
      BY <1>2, <1>3, <2>1
    <2>2. CASE t # s
      BY <1>2, <1>3, <2>2, MarkSays DEF MarkPart
    <2> QED
      BY <2>1, <2>2
  <1> QED
    BY <1>3 DEF MarkPart, MarkTellsTree

LEMMA MarkNext ==
  ASSUME HeadMoves = FALSE, TInv, MarkPart, [Next]_vars
  PROVE  MarkPart'
  <1>i. IInv /\ OpType /\ StepPart /\ DiskType
    BY TypesSay DEF TInv, IInv
  <1>t. /\ head \in [Slots -> Branches \cup {Detached, Absent}]
        /\ mark \in [Slots -> Keys \cup {None}]
        /\ built \in [Slots -> SUBSET (Branches \cup Refs)]
    BY <1>i DEF DiskType
  <1>p. step # "survey" => slot \in Slots /\ target \in Names
    BY <1>i, PastSurvey
  <1>1. CASE AcquireOwn
    <2> DEFINE n == Asked
               s == Least(Reused(n))
    <2>1. /\ Running("ensure") /\ Reused(n) # {} /\ Granted(n, s) /\ Builds(s, n, built[s])
          /\ UNCHANGED <<head, mark>>
      BY <1>1, Zenon DEF AcquireOwn
    <2>2. n \in Names /\ ~Held(n)
      BY <1>i, <2>1, AskedIsFree
    <2>3. s \in Reused(n) /\ s \in Slots
      BY <2>1, TakenIsSlot
    <2>4. step' = "survey"
      BY <2>1, GrantSays
    <2> HIDE DEF n, s
    <2>5. TreeOf(n, s)
      BY <2>2, <2>3, ReusedIsOwn
    <2>6. built' = [built EXCEPT ![s] = built[s] \cup {Source(n)}]
      BY <2>1, Zenon DEF Builds
    <2>7. ASSUME NEW t \in Slots, mark[t] # None
          PROVE  head[t] = Detached /\ built'[t] \subseteq {Of[mark[t]]}
      <3>1. head[t] = Detached /\ built[t] \subseteq {Of[mark[t]]}
        BY <2>7, MarkSays DEF MarkPart
      <3>2. CASE t = s
        <4>1. n \in Keys /\ mark[s] = n
          BY <2>2, <2>5, <3>1, <3>2, Apart, SMT DEF TreeOf
        <4>2. built'[s] = built[s] \cup {Of[n]}
          BY <1>t, <2>3, <2>6, <4>1 DEF Source
        <4> QED
          BY <3>1, <3>2, <4>1, <4>2
      <3>3. CASE t # s
        BY <1>t, <2>6, <3>1, <3>3
      <3> QED
        BY <3>2, <3>3
    <2> QED
      BY <2>1, <2>4, <2>7 DEF MarkPart, MarkTellsTree
  <1>2. CASE AcquireMints
    <2>1. PICK s \in Slots : s \in Mintable /\ Minted(s, Asked) /\ Granted(Asked, s)
                             /\ Builds(s, Asked, {})
      BY <1>2, TakenIsSlot, Zenon DEF AcquireMints
    <2>2. Asked \in Names
      BY <1>2, <1>i, AskedIsFree, Zenon DEF AcquireMints
    <2>3. /\ \A t \in Slots : t # s => built'[t] = built[t]
          /\ Asked \in Keys => built'[s] \subseteq {Of[Asked]}
      BY <1>t, <2>1, SMT DEF Builds, Source
    <2> QED
      BY <2>1, <2>2, <2>3, GrantSays, MarkMinted
  <1>3. CASE PrewarmMints
    <2>1. PICK b \in Warmable, s \in Slots : Minted(s, b) /\ built' = [built EXCEPT ![s] = {}]
      BY <1>3, TakenIsSlot, Zenon DEF PrewarmMints
    <2>2. b \in Names /\ step' = "survey"
      BY <1>3, TypesSay, Apart, Zenon DEF PrewarmMints, Settled, Over, Warmable, TInv
    <2>3. /\ \A t \in Slots : t # s => built'[t] = built[t]
          /\ built'[s] \subseteq {}
      BY <1>t, <2>1, SMT
    <2> QED
      BY <2>1, <2>2, <2>3, MarkMinted
  <1>4. CASE Switch
    <2>1. /\ step = "switch" /\ Minted(slot, target)
          /\ \/ Granted(target, slot) /\ Builds(slot, target, built[slot])
             \/ built' = built /\ step' = "survey"
      BY <1>4, Zenon DEF Switch, Settled, Over
    <2>2. slot \in Slots /\ target \in Names
      BY <1>p, <2>1
    <2>3. built[slot] \subseteq (IF target \in Keys THEN {Of[target]} ELSE {})
      BY <2>1, Zenon DEF MarkPart
    <2>4. /\ \A t \in Slots : t # slot => built'[t] = built[t]
          /\ target \in Keys => built'[slot] \subseteq {Of[target]}
      BY <1>t, <2>1, <2>2, <2>3, SMT DEF Builds, Source
    <2>5. step' = "survey"
      BY <2>1, GrantSays, Zenon
    <2> QED
      BY <2>1, <2>2, <2>4, <2>5, MarkMinted
  <1>5. CASE Wipe
    <2>1. /\ step = "wipe" /\ step' = "switch" /\ UNCHANGED <<head, slot, target>>
          /\ mark' = [mark EXCEPT ![slot] = None]
          /\ built' = [built EXCEPT ![slot] = IF SameRef(target, slot) THEN built[slot] ELSE {}]
      BY <1>5, Zenon DEF Wipe
    <2>2. slot \in Slots
      BY <1>p, <2>1
    <2>3. \A t \in Slots : t # slot => mark'[t] = mark[t] /\ built'[t] = built[t]
      BY <1>t, <2>1
    <2>4. /\ mark'[slot] = None
          /\ built'[slot] = IF SameRef(target, slot) THEN built[slot] ELSE {}
      BY <1>t, <2>1, <2>2
    <2>5. built'[slot] \subseteq (IF target \in Keys THEN {Of[target]} ELSE {})
      BY <2>2, <2>4, MarkSays DEF MarkPart, SameRef
    <2>6. MarkTellsTree'
      <3> SUFFICES ASSUME NEW t \in Slots, mark'[t] # None
                   PROVE  head'[t] = Detached /\ built'[t] \subseteq {Of[mark'[t]]}
        BY Zenon DEF MarkTellsTree
      <3>1. t # slot
        BY <2>4
      <3> QED
        BY <2>1, <2>3, <3>1, MarkSays DEF MarkPart
    <2> QED
      BY <2>1, <2>4, <2>5, <2>6, Zenon DEF MarkPart
  <1>6. CASE Refused
    <2>1. /\ step \in {"wipe", "switch"} /\ step' = "survey" /\ UNCHANGED <<head, built>>
          /\ mark' = [mark EXCEPT ![slot] = None]
      BY <1>6, Zenon DEF Refused
    <2>2. ASSUME NEW t \in Slots, mark'[t] # None
          PROVE  mark[t] = mark'[t]
      BY <1>t, <1>p, <2>1, <2>2
    <2>3. MarkTellsTree'
      <3> SUFFICES ASSUME NEW t \in Slots, mark'[t] # None
                   PROVE  head'[t] = Detached /\ built'[t] \subseteq {Of[mark'[t]]}
        BY Zenon DEF MarkTellsTree
      <3> QED
        BY <2>1, <2>2, MarkSays DEF MarkPart
    <2> QED
      BY <2>1, <2>3 DEF MarkPart
  <1>7. CASE Reap
    <2>1. /\ UNCHANGED <<mark, built>> /\ step' = "survey"
          /\ head' = head \/ head' = [s \in Slots |-> IF head[s] = Asked THEN Detached ELSE head[s]]
      BY <1>7, Zenon DEF Reap, Settled, Over
    <2>2. MarkTellsTree'
      <3> SUFFICES ASSUME NEW t \in Slots, mark[t] # None
                   PROVE  head'[t] = Detached /\ built[t] \subseteq {Of[mark[t]]}
        BY <2>1, Zenon DEF MarkTellsTree
      <3> QED
        BY <2>1, MarkSays DEF MarkPart
    <2> QED
      BY <2>1, <2>2 DEF MarkPart
  <1>8. CASE AcquireSalvages
    <2>1. /\ UNCHANGED <<head, mark>> /\ step = "survey" /\ step' = step
          /\ \E R \in SUBSET condemned : built' = [s \in Slots |-> IF s \in R THEN {} ELSE built[s]]
      BY <1>8, Zenon DEF AcquireSalvages, DeadEnd, Seeking
    <2>2. \A s \in Slots : built'[s] \subseteq built[s]
      BY <2>1
    <2> QED
      BY <2>1, <2>2, MarkKept
  <1>9. CASE ~(AcquireOwn \/ AcquireMints \/ PrewarmMints \/ Switch \/ Wipe \/ Refused \/ Reap
               \/ AcquireSalvages)
    <2>1. UNCHANGED <<head, mark, built>>
      BY <1>9, Zenon DEF Next, Operation, AcquireFails, AcquireTakes, AcquireRefuses, Rejected,
         HandsOver, PrewarmTakes, PrewarmEnds, Release, ReapRefused, Settled,
         Dispatch, Finish, Eject, Settle, Exits, Decide, Edit, Move, AskReap,
         Prewarm, Restart, disk, vars
    <2>2. step' \in {"survey", "wipe"} \/ UNCHANGED <<step, slot, target>>
      BY <1>9, Zenon DEF Next, Operation, AcquireFails, AcquireTakes, AcquireRefuses, Rejected,
         HandsOver, PrewarmTakes, PrewarmEnds, Release, ReapRefused, Settled, Over,
         Dispatch, Finish, Eject, Settle, Exits, Decide, Edit, Move, AskReap,
         Prewarm, Restart, op, vars
    <2>3. \A s \in Slots : built'[s] \subseteq built[s]
      BY <2>1
    <2> QED
      BY <1>p, <2>1, <2>2, <2>3, MarkKept
  <1> QED
    BY <1>1, <1>2, <1>3, <1>4, <1>5, <1>6, <1>7, <1>8, <1>9

-----------------------------------------------------------------------------
(* Whoever works in a slot has its lease, to the last process, if orphans  *)
(* are let go and a dispatch waits for the exit before it.                 *)
StayOK(row, leased, dir, left, q, n) ==
    /\ row = "active" => leased = dir
    /\ left \in Slots => leased = left /\ ~Released(q, n)
    /\ row \in {"asked", "active"} => left = None /\ ~Released(q, n)
StayPart == \A n \in Names : StayOK(task[n], lease[n], home[n], leaving[n], queue, n)

(* A release in the tail was in the queue, one after an append was or is   *)
(* the one appended.                                                       *)
LEMMA TailReleased ==
  ASSUME NEW q \in Seq(Entries), q # <<>>, NEW n, Released(Tail(q), n)
  PROVE  Released(q, n)
  BY QueueOps, SMT DEF Released

LEMMA AppendReleased ==
  ASSUME NEW q \in Seq(Entries), NEW k \in Kinds, NEW m \in Names \cup {None}, NEW n,
         Released(Append(q, [kind |-> k, name |-> m]), n)
  PROVE  Released(q, n) \/ (k = "release" /\ m = n)
  <1> DEFINE e == [kind |-> k, name |-> m]
  <1>1. e \in Entries /\ e.kind = k /\ e.name = m
    BY DEF Entries
  <1> HIDE DEF e
  <1>2. Released(Append(q, e), n)
    BY DEF e
  <1>3. Released(q, n) \/ (e.kind = "release" /\ e.name = n)
    BY <1>1, <1>2, QueueOps, SMT DEF Released
  <1> QED
    BY <1>1, <1>3

(* The name of a release that waits keeps only what the release may take.  *)
LEMMA StayKept ==
  ASSUME StayPart, NEW n \in Names,
         task'[n] = task[n] \/ task'[n] \notin {"asked", "active"},
         task'[n] = "active" => lease'[n] = lease[n] /\ home'[n] = home[n],
         leaving'[n] \in Slots => leaving'[n] = leaving[n] /\ lease'[n] = lease[n],
         leaving[n] = None => leaving'[n] = None,
         Released(queue', n) => Released(queue, n) \/ (task'[n] \notin {"asked", "active"}
                                                       /\ leaving'[n] \notin Slots)
  PROVE  StayOK(task'[n], lease'[n], home'[n], leaving'[n], queue', n)
  <1>1. StayOK(task[n], lease[n], home[n], leaving[n], queue, n)
    BY DEF StayPart
  <1> QED
    BY <1>1, Zenon DEF StayOK

(* The dispatch is granted a slot, or given up again. *)
LEMMA StayGranted ==
  ASSUME TInv, StayPart, Running("ensure"), NEW s \in Slots, Granted(Asked, s)
  PROVE  StayPart'
  <1> DEFINE a == Asked
  <1>t. /\ lease \in [Names -> Slots \cup {None}] /\ home \in [Names -> Slots \cup {None}]
        /\ task \in [Names -> Rows]
        /\ queue \in Seq(Entries) /\ queue # <<>>
    BY TypesSay, RunningOne DEF TInv, IInv, Book, FleetType
  <1>1. a \in Names /\ task[a] = "asked"
    BY TypesSay, RunningOne, HeadTyped DEF TInv
  <1> HIDE DEF a
  <1>2. /\ lease' = [lease EXCEPT ![a] = s] /\ leaving' = leaving
        /\ \/ /\ task' = [task EXCEPT ![a] = "active"]
              /\ home' = [home EXCEPT ![a] = s]
              /\ queue' = Tail(queue)
           \/ /\ task' = [task EXCEPT ![a] = "none"]
              /\ queue' = Append(Tail(queue), [kind |-> "release", name |-> a])
              /\ home' = home
    BY Zenon DEF Granted, a
  <1>3. Tail(queue) \in Seq(Entries) /\ "release" \in Kinds /\ a \in Names \cup {None}
    BY <1>t, <1>1, QueueOps DEF Kinds
  <1>4. ASSUME NEW n \in Names, Released(queue', n)
        PROVE  Released(queue, n) \/ (n = a /\ task'[n] = "none")
    <2>1. CASE queue' = Tail(queue)
      BY <1>t, <1>4, <2>1, TailReleased
    <2>2. CASE /\ task' = [task EXCEPT ![a] = "none"]
               /\ queue' = Append(Tail(queue), [kind |-> "release", name |-> a])
      <3>0. Released(Append(Tail(queue), [kind |-> "release", name |-> a]), n)
        BY <1>4, <2>2, Zenon
      <3>1. Released(Tail(queue), n) \/ a = n
        BY <1>3, <3>0, AppendReleased, Zenon
      <3> QED
        BY <1>t, <1>1, <2>2, <3>1, TailReleased
    <2> QED
      BY <1>2, <2>1, <2>2
  <1>5. leaving[a] = None
    BY <1>1, Zenon DEF StayPart, StayOK
  <1>6. ~Released(queue, a)
    BY <1>1, Zenon DEF StayPart, StayOK
  <1>7. StayOK(task'[a], lease'[a], home'[a], leaving'[a], queue', a)
    <2>1. /\ leaving'[a] = None /\ None \notin Slots
          /\ task'[a] \in {"active", "none"}
          /\ task'[a] = "active" => lease'[a] = home'[a] /\ ~Released(queue', a)
      BY <1>t, <1>1, <1>2, <1>4, <1>5, <1>6, Apart, SMT
    <2> QED
      BY <2>1 DEF StayOK
  <1>8. ASSUME NEW n \in Names, n # a
        PROVE  StayOK(task'[n], lease'[n], home'[n], leaving'[n], queue', n)
    <2>1. task'[n] = task[n] /\ lease'[n] = lease[n] /\ home'[n] = home[n] /\ leaving'[n] = leaving[n]
      BY <1>t, <1>1, <1>2, <1>8
    <2> QED
      BY <1>4, <1>8, <2>1, StayKept
  <1> QED
    BY <1>7, <1>8, Zenon DEF StayPart

(* What the queue may do that runs, ends or is joined by no release. *)
LEMMA QueueReleases ==
  ASSUME TInv, NEW n \in Names,
         \/ queue' = queue
         \/ queue # <<>> /\ queue' = Tail(queue)
         \/ \E k \in Kinds \ {"release"}, m \in Names \cup {None} :
               queue' = Append(queue, [kind |-> k, name |-> m])
         \/ queue' = <<>>,
         Released(queue', n)
  PROVE  Released(queue, n)
  <1>1. queue \in Seq(Entries)
    BY TypesSay DEF TInv
  <1>2. CASE queue' = queue
    BY <1>2
  <1>3. CASE queue # <<>> /\ queue' = Tail(queue)
    BY <1>1, <1>3, TailReleased
  <1>4. CASE \E k \in Kinds \ {"release"}, m \in Names \cup {None} :
               queue' = Append(queue, [kind |-> k, name |-> m])
    <2>1. PICK k \in Kinds \ {"release"}, m \in Names \cup {None} :
               queue' = Append(queue, [kind |-> k, name |-> m])
      BY <1>4
    <2>2. [kind |-> k, name |-> m] \in Entries
      BY DEF Entries
    <2> QED
      BY <1>1, <2>1, <2>2, AppendReleased
  <1>5. CASE queue' = <<>>
    BY <1>5 DEF Released
  <1> QED
    BY <1>2, <1>3, <1>4, <1>5

(* A branch that may be reaped has no lease. *)
LEMMA ReapedHasNoLease ==
  ASSUME TInv, Running("reap"), Reapable(Asked)
  PROVE  Asked \in Names /\ lease[Asked] = None
  <1>1. Asked \in Branches
    BY TypesSay, RunningOne, HeadTyped DEF TInv
  <1>2. ASSUME lease[Asked] # None PROVE FALSE
    <2>1. lease[Asked] \in Slots /\ TreeOf(Asked, lease[Asked])
      BY <1>1, <1>2, TypesSay, Apart, SMT DEF TInv, TenantPart
    <2>2. head[lease[Asked]] = Asked
      BY <1>1, <2>1, Apart, Zenon DEF TreeOf
    <2>3. lease[Asked] \in On(Asked)
      BY <1>1, <2>1, <2>2, Apart, Zenon DEF On, Registered
    <2>4. Lessees(lease[Asked]) = {}
      BY <2>3, Zenon DEF Reapable
    <2>5. Asked \in Lessees(lease[Asked])
      BY <1>1, Apart, Zenon DEF Lessees
    <2> QED
      BY <2>4, <2>5
  <1> QED
    BY <1>1, <1>2, Apart

LEMMA StayOperation ==
  ASSUME TInv, StayPart, Operation
  PROVE  StayPart'
  <1>t. /\ lease \in [Names -> Slots \cup {None}] /\ home \in [Names -> Slots \cup {None}]
        /\ task \in [Names -> Rows] /\ leaving \in [Names -> Slots \cup {None, Absent}]
        /\ queue \in Seq(Entries)
    BY TypesSay DEF TInv, IInv, Book, FleetType
  <1>p. step # "survey" => slot \in Slots /\ (Running("ensure") => target = Asked) /\ queue # <<>>
    BY PastSurvey, Zenon DEF TInv, IInv
  <1>1. CASE AcquireOwn \/ AcquireMints
    <2>1. PICK s \in Slots : Running("ensure") /\ Granted(Asked, s)
      BY <1>1, TakenIsSlot, Zenon DEF AcquireOwn, AcquireMints
    <2> QED
      BY <2>1, StayGranted
  <1>2. CASE Switch /\ Running("ensure")
    <2>1. Granted(Asked, slot) /\ slot \in Slots
      BY <1>2, <1>p, Zenon DEF Switch
    <2> QED
      BY <1>2, <2>1, StayGranted
  <1>3. CASE AcquireFails \/ AcquireRefuses
    <2> DEFINE a == Asked
    <2>1. Running("ensure") /\ \E how \in {"none", "exhausted"} : Rejected(a, how)
      BY <1>3, Zenon DEF AcquireFails, AcquireRefuses
    <2>2. a \in Names /\ task[a] = "asked" /\ queue # <<>>
      BY <2>1, TypesSay, RunningOne, HeadTyped DEF TInv
    <2>3. /\ task' = [task EXCEPT ![a] = "none"] /\ UNCHANGED <<lease, home, leaving>>
          /\ queue' = Append(Tail(queue), [kind |-> "release", name |-> a])
      BY <2>1, Zenon DEF Rejected, pool
    <2> HIDE DEF a
    <2>4. leaving[a] = None
      BY <2>2, Zenon DEF StayPart, StayOK
    <2>5. Tail(queue) \in Seq(Entries) /\ "release" \in Kinds /\ a \in Names \cup {None}
      BY <1>t, <2>2, QueueOps DEF Kinds
    <2>6. ASSUME NEW n \in Names
          PROVE  StayOK(task'[n], lease'[n], home'[n], leaving'[n], queue', n)
      <3>1. ASSUME Released(queue', n) PROVE Released(queue, n) \/ a = n
        <4>1. Released(Append(Tail(queue), [kind |-> "release", name |-> a]), n)
          BY <2>3, <3>1, Zenon
        <4>2. Released(Tail(queue), n) \/ a = n
          BY <2>5, <4>1, AppendReleased, Zenon
        <4> QED
          BY <1>t, <2>2, <4>2, TailReleased, Zenon
      <3>2. /\ task'[n] = (IF n = a THEN "none" ELSE task[n])
            /\ leaving'[n] = leaving[n] /\ lease'[n] = lease[n] /\ home'[n] = home[n]
        BY <1>t, <2>2, <2>3
      <3>3. None \notin Slots
        BY Apart
      <3> QED
        BY <2>4, <3>1, <3>2, <3>3, StayKept
    <2> QED
      BY <2>6, Zenon DEF StayPart
  <1>4. CASE Wipe \/ Refused \/ Release \/ Reap
    <2>1. \/ UNCHANGED leaving
          \/ \E s \in Slots :
                leaving' = [n \in Names |-> IF leaving[n] = s THEN Absent ELSE leaving[n]]
      <3>1. CASE Wipe \/ Refused
        BY <1>p, <3>1, SMT DEF Wipe, Refused, Swept
      <3>2. CASE Release \/ Reap
        <4>1. Asked \in Names
          BY <3>2, TypesSay, RunningOne, HeadTyped, Apart DEF TInv, Release, Reap
        <4> QED
          BY <1>t, <3>2, <4>1, SMT DEF Release, Reap, Swept
      <3> QED
        BY <1>4, <3>1, <3>2
    <2>2. /\ UNCHANGED <<task, home>>
          /\ \/ queue' = queue
             \/ queue # <<>> /\ queue' = Tail(queue)
          /\ \/ UNCHANGED lease
             \/ /\ \/ Running("release")
                   \/ Running("reap") /\ Reapable(Asked)
                /\ lease' = [lease EXCEPT ![Asked] = None]
      <3>1. Wipe \/ Refused => step # "survey"
        BY SMT DEF Wipe, Refused
      <3> QED
        BY <1>4, <1>p, <3>1, RunningOne, Zenon DEF Wipe, Refused, Release, Reap, Settled, pool
    <2>3. ASSUME NEW n \in Names
          PROVE  StayOK(task'[n], lease'[n], home'[n], leaving'[n], queue', n)
      <3>1. Released(queue', n) => Released(queue, n)
        BY <2>2, <2>3, QueueReleases, Zenon
      <3>2. /\ leaving'[n] \in Slots => leaving'[n] = leaving[n]
            /\ leaving[n] = None => leaving'[n] = None
        <4>1. CASE UNCHANGED leaving
          BY <4>1
        <4>2. CASE \E s \in Slots :
                      leaving' = [m \in Names |-> IF leaving[m] = s THEN Absent ELSE leaving[m]]
          BY <1>t, <4>2, Apart, SMT
        <4> QED
          BY <2>1, <4>1, <4>2
      <3>3. task'[n] = "active" \/ leaving'[n] \in Slots => lease'[n] = lease[n]
        <4>1. CASE UNCHANGED lease
          BY <4>1
        <4>2. CASE Running("release") /\ lease' = [lease EXCEPT ![Asked] = None]
          <5>1. Asked \in Names /\ queue # <<>>
            BY <4>2, TypesSay, RunningOne, HeadTyped DEF TInv
          <5>2. Released(queue, Asked)
            BY <1>t, <4>2, <5>1, QueueOps DEF Released, Running, Asked
          <5>3. n = Asked => task[n] # "active" /\ leaving[n] \notin Slots
            BY <5>2, Zenon DEF StayPart, StayOK
          <5>4. n # Asked => lease'[n] = lease[n]
            BY <1>t, <4>2
          <5> QED
            BY <2>2, <3>2, <5>3, <5>4
        <4>3. CASE Running("reap") /\ Reapable(Asked) /\ lease' = [lease EXCEPT ![Asked] = None]
          <5>1. Asked \in Names /\ lease[Asked] = None
            BY <4>3, ReapedHasNoLease
          <5> QED
            BY <1>t, <4>3, <5>1
        <4> QED
          BY <2>2, <4>1, <4>2, <4>3
      <3> QED
        BY <2>2, <3>1, <3>2, <3>3, StayKept
    <2> QED
      BY <2>3, Zenon DEF StayPart
  <1>5. CASE \/ AcquireTakes \/ AcquireSalvages \/ PrewarmMints \/ PrewarmTakes \/ PrewarmEnds
             \/ ReapRefused \/ (Switch /\ ~Running("ensure"))
    <2>1. /\ UNCHANGED <<task, home, leaving, lease>>
          /\ queue' = queue \/ (queue # <<>> /\ queue' = Tail(queue))
      <3>1. Switch => step # "survey"
        BY SMT DEF Switch
      <3>2. CASE AcquireTakes \/ PrewarmTakes \/ AcquireSalvages
        <4>1. UNCHANGED <<task, home, leaving, lease, queue>>
          BY <3>2, SMT DEF AcquireTakes, PrewarmTakes, AcquireSalvages, HandsOver, pool, fleet
        <4> QED
          BY <4>1
      <3>3. CASE PrewarmMints \/ PrewarmEnds \/ ReapRefused
        BY <3>3, RunningOne, Zenon DEF PrewarmMints, PrewarmEnds, ReapRefused, Settled, pool, fleet
      <3>4. CASE Switch /\ ~Running("ensure")
        BY <3>4, <1>p, <3>1, Zenon DEF Switch, Settled, fleet
      <3> QED
        BY <1>5, <3>2, <3>3, <3>4
    <2>2. ASSUME NEW n \in Names
          PROVE  StayOK(task'[n], lease'[n], home'[n], leaving'[n], queue', n)
      <3>1. Released(queue', n) => Released(queue, n)
        BY <2>1, QueueReleases
      <3> QED
        BY <2>1, <3>1, StayKept
    <2> QED
      BY <2>2, Zenon DEF StayPart
  <1> QED
    BY <1>1, <1>2, <1>3, <1>4, <1>5, Zenon DEF Operation

LEMMA StayCaller ==
  ASSUME Restores = FALSE, Overlaps = FALSE, TInv, StayPart, [Next]_vars, ~Operation
  PROVE  StayPart'
  <1>t. /\ lease \in [Names -> Slots \cup {None}] /\ home \in [Names -> Slots \cup {None}]
        /\ task \in [Names -> Rows] /\ leaving \in [Names -> Slots \cup {None, Absent}]
        /\ queue \in Seq(Entries)
    BY TypesSay DEF TInv, IInv, Book, FleetType
  <1>n. None \notin Slots /\ Absent \notin Slots
    BY Apart
  <1>1. ASSUME NEW n \in Names, Dispatch(n)
        PROVE  StayPart'
    <2>1. /\ leaving[n] = None /\ ~Released(queue, n)
          /\ task' = [task EXCEPT ![n] = "asked"] /\ UNCHANGED <<lease, home, leaving>>
          /\ queue' = Append(queue, [kind |-> "ensure", name |-> n])
      BY <1>1, Zenon DEF Dispatch, Asks, WaitsFor, Released, pool
    <2>2. ASSUME NEW m \in Names
          PROVE  StayOK(task'[m], lease'[m], home'[m], leaving'[m], queue', m)
      <3>1. ASSUME Released(queue', m) PROVE Released(queue, m)
        <4>1. "ensure" \in Kinds \ {"release"} /\ n \in Names \cup {None}
          BY DEF Kinds
        <4> QED
          BY <2>1, <3>1, <4>1, QueueReleases
      <3>2. CASE m = n
        <4>1. task'[n] = "asked" /\ leaving'[n] = None
          BY <1>t, <2>1
        <4> QED
          BY <1>n, <2>1, <3>1, <3>2, <4>1, SMT DEF StayOK
      <3>3. CASE m # n
        <4>1. task'[m] = task[m]
          BY <1>t, <2>1, <3>3
        <4> QED
          BY <2>1, <3>1, <4>1, StayKept
      <3> QED
        BY <3>2, <3>3
    <2> QED
      BY <2>2, Zenon DEF StayPart
  <1>2. ASSUME NEW n \in Names, Finish(n) \/ Eject(n)
        PROVE  StayPart'
    <2>1. /\ task[n] = "active" /\ task' \in {[task EXCEPT ![n] = "none"], [task EXCEPT ![n] = "ejected"]}
          /\ leaving' = [leaving EXCEPT ![n] = home[n]]
          /\ home' = home \/ home' = [home EXCEPT ![n] = None]
          /\ UNCHANGED <<lease, queue>>
      BY <1>2, SMT DEF Finish, Eject, pool
    <2>2. /\ task'[n] \in {"none", "ejected"} /\ leaving'[n] = home[n] /\ lease'[n] = lease[n]
          /\ \A m \in Names : m # n => /\ task'[m] = task[m] /\ leaving'[m] = leaving[m]
                                       /\ home'[m] = home[m] /\ lease'[m] = lease[m]
      BY <1>t, <2>1
    <2>3. StayOK(task'[n], lease'[n], home'[n], leaving'[n], queue', n)
      <3>1. lease[n] = home[n] /\ ~Released(queue, n)
        BY <2>1, Zenon DEF StayPart, StayOK
      <3> QED
        BY <2>1, <2>2, <3>1, SMT DEF StayOK
    <2>4. ASSUME NEW m \in Names, m # n
          PROVE  StayOK(task'[m], lease'[m], home'[m], leaving'[m], queue', m)
      BY <2>1, <2>2, <2>4, Zenon DEF StayPart
    <2> QED
      BY <2>3, <2>4, Zenon DEF StayPart
  <1>3. ASSUME NEW n \in Names, Settle(n) \/ Decide(n)
        PROVE  StayPart'
    <2>1. /\ task' = [task EXCEPT ![n] = "none"] /\ home' = [home EXCEPT ![n] = None]
          /\ UNCHANGED <<lease, queue, leaving>>
      BY <1>3, SMT DEF Settle, Decide, pool
    <2>2. ASSUME NEW m \in Names
          PROVE  StayOK(task'[m], lease'[m], home'[m], leaving'[m], queue', m)
      <3>1. IF m = n THEN task'[m] = "none" ELSE task'[m] = task[m] /\ home'[m] = home[m]
        BY <1>t, <2>1
      <3>2. task'[m] \in {"asked", "active"} => m # n
        BY <3>1
      <3> QED
        BY <2>1, <3>1, <3>2, StayKept
    <2> QED
      BY <2>2, Zenon DEF StayPart
  <1>4. ASSUME NEW n \in Names, Exits(n)
        PROVE  StayPart'
    <2>1. /\ leaving[n] # None /\ leaving' = [leaving EXCEPT ![n] = None]
          /\ queue' = queue \/ queue' = Append(queue, [kind |-> "release", name |-> n])
          /\ UNCHANGED <<lease, home, task>>
      BY <1>4, Zenon DEF Exits, Asks, pool
    <2>2. task[n] \notin {"asked", "active"}
      BY <2>1, Zenon DEF StayPart, StayOK
    <2>3. ASSUME NEW m \in Names
          PROVE  StayOK(task'[m], lease'[m], home'[m], leaving'[m], queue', m)
      <3>1. leaving'[m] = IF m = n THEN None ELSE leaving[m]
        BY <1>t, <2>1
      <3>2. ASSUME Released(queue', m) PROVE Released(queue, m) \/ m = n
        <4>1. "release" \in Kinds /\ n \in Names \cup {None}
          BY DEF Kinds
        <4>2. CASE queue' = queue
          BY <3>2, <4>2
        <4>3. CASE queue' = Append(queue, [kind |-> "release", name |-> n])
          BY <1>t, <3>2, <4>1, <4>3, AppendReleased
        <4> QED
          BY <2>1, <4>2, <4>3
      <3> QED
        BY <1>n, <2>1, <2>2, <3>1, <3>2, StayKept
    <2> QED
      BY <2>3, Zenon DEF StayPart
  <1>5. CASE Restart
    <2>1. /\ leaving' = [n \in Names |-> None] /\ queue' = <<>>
          /\ \A n \in Names : task'[n] \notin {"asked", "active"}
      BY <1>5, <1>t, SMT DEF Restart, Rows
    <2>2. \A n \in Names : leaving'[n] = None
      BY <2>1
    <2> QED
      BY <1>n, <2>1, <2>2, SMT DEF StayPart, StayOK
  <1>6. CASE Prewarm \/ \E b \in Branches : AskReap(b)
    <2>1. /\ UNCHANGED <<task, home, leaving, lease>>
          /\ \E k \in Kinds \ {"release"}, m \in Names \cup {None} :
                queue' = Append(queue, [kind |-> k, name |-> m])
      <3>1. CASE Prewarm
        <4>1. "warm" \in Kinds \ {"release"} /\ None \in Names \cup {None}
          BY DEF Kinds
        <4>2. /\ UNCHANGED <<task, home, leaving, lease>>
              /\ queue' = Append(queue, [kind |-> "warm", name |-> None])
          BY <3>1, Zenon DEF Prewarm, Asks, pool, fleet
        <4> QED
          BY <4>1, <4>2, Zenon
      <3>2. ASSUME NEW b \in Branches, AskReap(b)
            PROVE  /\ UNCHANGED <<task, home, leaving, lease>>
                   /\ \E k \in Kinds \ {"release"}, m \in Names \cup {None} :
                         queue' = Append(queue, [kind |-> k, name |-> m])
        <4>1. "reap" \in Kinds \ {"release"} /\ b \in Names \cup {None}
          BY Apart DEF Kinds
        <4>2. /\ UNCHANGED <<task, home, leaving, lease>>
              /\ queue' = Append(queue, [kind |-> "reap", name |-> b])
          BY <3>2, Zenon DEF AskReap, Asks, pool, fleet
        <4> QED
          BY <4>1, <4>2, Zenon
      <3> QED
        BY <1>6, <3>1, <3>2
    <2>2. ASSUME NEW m \in Names
          PROVE  StayOK(task'[m], lease'[m], home'[m], leaving'[m], queue', m)
      <3>1. Released(queue', m) => Released(queue, m)
        BY <2>1, QueueReleases
      <3> QED
        BY <2>1, <3>1, StayKept
    <2> QED
      BY <2>2, Zenon DEF StayPart
  <1>7. CASE UNCHANGED vars \/ (\E n \in Names, s \in Slots : Edit(n, s) \/ Move(n, s))
    <2>1. UNCHANGED <<task, home, leaving, lease, queue>>
      BY <1>7, Zenon DEF vars, Edit, Move, pool, fleet
    <2> QED
      BY <2>1, Zenon DEF StayPart
  <1> QED
    BY <1>1, <1>2, <1>3, <1>4, <1>5, <1>6, <1>7, Zenon DEF Next

LEMMA StayNext ==
  ASSUME Restores = FALSE, Overlaps = FALSE, TInv, StayPart, [Next]_vars
  PROVE  StayPart'
  BY StayOperation, StayCaller

-----------------------------------------------------------------------------
(* Who works in a slot finds his tree there, and whoever left it some has  *)
(* its lease.                                                              *)
LEMMA WorkerHasTree ==
  ASSUME TInv, StayPart, NEW s \in Slots, NEW n \in Names, WorksIn(n, s)
  PROVE  TreeOf(n, s) /\ (home[n] = s \/ lease[n] = s)
  <1>1. None \notin Slots
    BY Apart
  <1>2. leaving[n] = s => lease[n] = s
    BY Zenon DEF StayPart, StayOK
  <1> QED
    BY <1>1, <1>2, SMT DEF WorksIn, TInv, TenantPart

(* The edits a slot carries are of the name its tree is for; a slot that   *)
(* is not registered, or is being handed over, carries none.               *)
EditsPart ==
    /\ \A s \in Slots : /\ \A n \in Names : TreeOf(n, s) => edits[s] \in {None, n}
                        /\ head[s] = Absent => edits[s] = None
    /\ step # "survey" => edits[slot] = None

(* No slot becomes anybody's tree, and no edit is made. *)
LEMMA EditsKept ==
  ASSUME EditsPart, NEW s \in Slots,
         edits'[s] \in {edits[s], None},
         \A n \in Names : TreeOf(n, s)' => TreeOf(n, s),
         head'[s] = Absent => head[s] = Absent
  PROVE  /\ \A n \in Names : TreeOf(n, s)' => edits'[s] \in {None, n}
         /\ head'[s] = Absent => edits'[s] = None
  <1>1. /\ \A n \in Names : TreeOf(n, s) => edits[s] \in {None, n}
        /\ head[s] = Absent => edits[s] = None
    BY DEF EditsPart
  <1> HIDE DEF TreeOf
  <1> QED
    BY <1>1, SMT

(* A clean slot is minted. *)
LEMMA EditsMinted ==
  ASSUME TInv, EditsPart, NEW s \in Slots, NEW n \in Names, Minted(s, n), edits[s] = None,
         step' = "survey"
  PROVE  EditsPart'
  <1>1. /\ head \in [Slots -> Branches \cup {Detached, Absent}]
        /\ mark \in [Slots -> Keys \cup {None}]
    BY TypesSay, Zenon DEF TInv
  <1>2. /\ \A t \in Slots : t # s => head'[t] = head[t] /\ mark'[t] = mark[t]
        /\ edits' = edits
    BY <1>1, SMT DEF Minted
  <1>3. ASSUME NEW t \in Slots
        PROVE  /\ \A m \in Names : TreeOf(m, t)' => edits'[t] \in {None, m}
               /\ head'[t] = Absent => edits'[t] = None
    <2>1. CASE t = s
      BY <1>2, <2>1
    <2>2. CASE t # s
      BY <1>2, <2>2, Zenon DEF EditsPart, TreeOf
    <2> QED
      BY <2>1, <2>2
  <1> QED
    BY <1>3, Zenon DEF EditsPart, TreeOf

LEMMA EditsNext ==
  ASSUME HeadMoves = FALSE, TInv, MarkPart, StayPart, EditsPart, [Next]_vars
  PROVE  EditsPart'
  <1>t. /\ head \in [Slots -> Branches \cup {Detached, Absent}]
        /\ mark \in [Slots -> Keys \cup {None}]
        /\ edits \in [Slots -> Names \cup {None}]
    BY DEF TInv, IInv, DiskType
  <1>p. step # "survey" => slot \in Slots /\ target \in Names /\ edits[slot] = None
    BY PastSurvey DEF TInv, IInv, EditsPart
  <1>1. CASE AcquireMints
    <2>1. PICK s \in Slots : s \in Mintable /\ Minted(s, Asked) /\ Granted(Asked, s)
      BY <1>1, TakenIsSlot, Zenon DEF AcquireMints
    <2>2. Asked \in Names
      BY <1>1, AskedIsFree, Zenon DEF AcquireMints, TInv
    <2>3. edits[s] = None
      BY <2>1, Zenon DEF Mintable, Registered, EditsPart
    <2> QED
      BY <2>1, <2>2, <2>3, GrantSays, EditsMinted
  <1>2. CASE PrewarmMints
    <2>1. PICK b \in Warmable, s \in Slots : s \in Mintable /\ Minted(s, b)
      BY <1>2, TakenIsSlot, Zenon DEF PrewarmMints
    <2>2. b \in Names /\ step' = "survey"
      BY <1>2, TypesSay, Apart, Zenon DEF PrewarmMints, Settled, Over, Warmable, TInv
    <2>3. edits[s] = None
      BY <2>1, Zenon DEF Mintable, Registered, EditsPart
    <2> QED
      BY <2>1, <2>2, <2>3, EditsMinted
  <1>3. CASE Switch
    <2>1. /\ step = "switch" /\ Minted(slot, target)
          /\ Granted(target, slot) \/ step' = "survey"
      BY <1>3, Zenon DEF Switch, Settled, Over
    <2>2. step' = "survey"
      BY <2>1, GrantSays, Zenon
    <2> QED
      BY <1>p, <2>1, <2>2, EditsMinted
  <1>4. CASE Wipe \/ Refused
    <2>1. /\ UNCHANGED <<head, edits>> /\ mark' = [mark EXCEPT ![slot] = None]
          /\ step \in {"wipe", "switch"} /\ (step' = "survey" \/ slot' = slot)
      BY <1>4, SMT DEF Wipe, Refused
    <2>2. ASSUME NEW s \in Slots, NEW n \in Names, TreeOf(n, s)'
          PROVE  TreeOf(n, s)
      <3>1. mark'[s] \in {mark[s], None}
        BY <1>t, <2>1
      <3> QED
        BY <2>1, <2>2, <3>1, Apart, SMT DEF TreeOf
    <2>3. \A s \in Slots : /\ \A n \in Names : TreeOf(n, s)' => edits'[s] \in {None, n}
                           /\ head'[s] = Absent => edits'[s] = None
      BY <2>1, <2>2, EditsKept
    <2>4. step' # "survey" => edits'[slot'] = None
      BY <1>p, <2>1
    <2> QED
      BY <2>3, <2>4, Zenon DEF EditsPart, TreeOf
  <1>5. CASE Reap
    <2>1. /\ UNCHANGED <<mark, edits>> /\ step' = "survey"
          /\ head' = head \/ head' = [s \in Slots |-> IF head[s] = Asked THEN Detached ELSE head[s]]
          /\ Asked \in Branches
      BY <1>5, RunningOne, HeadTyped, TypesSay, Zenon DEF Reap, Settled, Over, TInv
    <2>2. ASSUME NEW s \in Slots, NEW n \in Names, TreeOf(n, s)'
          PROVE  TreeOf(n, s)
      <3>1. head'[s] = head[s] \/ (head[s] = Asked /\ head'[s] = Detached)
        BY <2>1
      <3>2. mark[s] # None => head[s] = Detached
        BY MarkSays DEF MarkPart
      <3> QED
        BY <2>1, <2>2, <3>1, <3>2, Apart, SMT DEF TreeOf
    <2>3. \A s \in Slots : head'[s] = Absent => head[s] = Absent
      BY <2>1, Apart
    <2>4. \A s \in Slots : /\ \A n \in Names : TreeOf(n, s)' => edits'[s] \in {None, n}
                           /\ head'[s] = Absent => edits'[s] = None
      BY <2>1, <2>2, <2>3, EditsKept
    <2> QED
      BY <2>1, <2>4, Zenon DEF EditsPart, TreeOf
  <1>6. CASE AcquireSalvages
    <2>1. /\ UNCHANGED <<head, mark>> /\ step' = "survey"
          /\ \E S \in SUBSET Stuck : edits' = [s \in Slots |-> IF s \in S THEN None ELSE edits[s]]
      BY <1>6, Zenon DEF AcquireSalvages, DeadEnd, Seeking
    <2>2. \A s \in Slots : edits'[s] \in {edits[s], None}
      BY <2>1
    <2>3. \A s \in Slots, n \in Names : TreeOf(n, s)' => TreeOf(n, s)
      BY <2>1, Zenon DEF TreeOf
    <2>4. \A s \in Slots : /\ \A n \in Names : TreeOf(n, s)' => edits'[s] \in {None, n}
                           /\ head'[s] = Absent => edits'[s] = None
      BY <2>1, <2>2, <2>3, EditsKept
    <2> QED
      BY <2>1, <2>4, Zenon DEF EditsPart, TreeOf
  <1>7. CASE AcquireTakes \/ PrewarmTakes
    <2>1. PICK s \in Clean : UNCHANGED <<head, mark, edits>> /\ slot' = s
      <3>1. CASE AcquireTakes
        <4>1. Least(Candidates(Asked)) \in Candidates(Asked)
          BY <3>1, TakenIsSlot, Zenon DEF AcquireTakes
        <4>2. Candidates(Asked) \subseteq Clean
          BY Zenon DEF Candidates, Warm, Spare, Evictable
        <4> QED
          BY <3>1, <4>1, <4>2, Zenon DEF AcquireTakes, HandsOver, disk
      <3>2. CASE PrewarmTakes
        <4>1. PICK b \in Warmable : Spare(b) # {} /\ HandsOver(Least(Spare(b)), b)
          BY <3>2, Zenon DEF PrewarmTakes
        <4>2. Least(Spare(b)) \in Clean
          BY <4>1, TakenIsSlot, Zenon DEF Spare
        <4> QED
          BY <4>1, <4>2, Zenon DEF HandsOver, disk
      <3> QED
        BY <1>7, <3>1, <3>2
    <2>2. edits[s] = None
      BY Zenon DEF Clean, Stuck
    <2> QED
      BY <2>1, <2>2, Zenon DEF EditsPart, TreeOf
  <1>8. ASSUME NEW n \in Names, NEW s \in Slots, Edit(n, s)
        PROVE  EditsPart'
    <2>1. /\ UNCHANGED <<head, mark, step, slot>> /\ WorksIn(n, s)
          /\ edits' = [edits EXCEPT ![s] = IF @ = None THEN n ELSE None]
      BY <1>8, Zenon DEF Edit, op
    <2>2. TreeOf(n, s) /\ (home[n] = s \/ lease[n] = s)
      BY <2>1, WorkerHasTree
    <2>3. head[s] # Absent
      BY <2>2, Apart, SMT DEF TreeOf
    <2>4. step # "survey" => slot # s
      BY <2>2, Zenon DEF TInv, SlotPart, Vacant
    <2>5. edits'[s] \in {None, n} /\ \A t \in Slots : t # s => edits'[t] = edits[t]
      BY <1>t, <2>1
    <2>6. ASSUME NEW t \in Slots
          PROVE  /\ \A m \in Names : TreeOf(m, t)' => edits'[t] \in {None, m}
                 /\ head'[t] = Absent => edits'[t] = None
      <3>1. CASE t = s
        <4>1. ASSUME NEW m \in Names, TreeOf(m, s)' PROVE m = n
          BY <2>1, <2>2, <4>1, OneTree, Zenon DEF TreeOf
        <4> QED
          BY <2>1, <2>3, <2>5, <3>1, <4>1
      <3>2. CASE t # s
        BY <2>1, <2>5, <3>2, Zenon DEF EditsPart, TreeOf
      <3> QED
        BY <3>1, <3>2
    <2>7. step' # "survey" => edits'[slot'] = None
      BY <1>p, <2>1, <2>4, <2>5
    <2> QED
      BY <2>6, <2>7, Zenon DEF EditsPart, TreeOf
  <1>9. CASE ~(AcquireMints \/ PrewarmMints \/ Switch \/ Wipe \/ Refused \/ Reap \/ AcquireSalvages
               \/ AcquireTakes \/ PrewarmTakes \/ \E n \in Names, s \in Slots : Edit(n, s))
    <2>1. UNCHANGED <<head, mark, edits>>
      BY <1>9, Zenon DEF Next, Operation, AcquireOwn, AcquireFails, AcquireRefuses, Rejected,
         PrewarmEnds, Release, ReapRefused, Settled,
         Dispatch, Finish, Eject, Settle, Exits, Decide, Move, AskReap, Prewarm, Restart, disk, vars
    <2>2. step' = "survey" \/ UNCHANGED <<step, slot>>
      BY <1>9, Zenon DEF Next, Operation, AcquireOwn, AcquireFails, AcquireRefuses, Rejected, Granted,
         PrewarmEnds, Release, ReapRefused, Settled, Over,
         Dispatch, Finish, Eject, Settle, Exits, Decide, Move, AskReap, Prewarm, Restart, op, vars
    <2> QED
      BY <2>1, <2>2, Zenon DEF EditsPart, TreeOf
  <1> QED
    BY <1>1, <1>2, <1>3, <1>4, <1>5, <1>6, <1>7, <1>8, <1>9

-----------------------------------------------------------------------------
(* What holds while dispatches wait for exits and orphans are let go. *)
OInv == TInv /\ MarkPart /\ StayPart /\ EditsPart

LEMMA OccupancyInit == Init => OInv
  <1> SUFFICES ASSUME Init PROVE OInv
    OBVIOUS
  <1>1. /\ head = [s \in Slots |-> Absent] /\ mark = [s \in Slots |-> None]
        /\ edits = [s \in Slots |-> None] /\ step = "survey"
        /\ task = [n \in Names |-> "none"] /\ leaving = [n \in Names |-> None]
    BY Zenon DEF Init, Fresh
  <1>2. MarkPart
    BY <1>1, SMT DEF MarkPart, MarkTellsTree
  <1>3. StayPart
    BY <1>1, Apart, SMT DEF StayPart, StayOK
  <1>4. EditsPart
    BY <1>1, SMT DEF EditsPart
  <1> QED
    BY <1>2, <1>3, <1>4, TenancyInit DEF OInv

LEMMA TenancyStep ==
  ASSUME HeadMoves = FALSE, TInv, [Next]_vars
  PROVE  TInv'
  <1>1. IInv'
    BY BookNext, OpNext, DiskNext, EjectNext, Zenon DEF TInv, IInv
  <1> QED
    BY <1>1, TenancyNext, Zenon DEF TInv, Kept

LEMMA OccupancyStep ==
  ASSUME HeadMoves = FALSE, Restores = FALSE, Overlaps = FALSE, OInv, [Next]_vars
  PROVE  OInv'
  BY TenancyStep, MarkNext, StayNext, EditsNext DEF OInv

(* Either names leave and no head changes, or no process leaves and the    *)
(* only directory that is gained is that of a name whose last process is   *)
(* gone.                                                                   *)
LEMMA OnlyOneMoves ==
  ASSUME OInv, [Next]_vars, HeadMoves = FALSE
  PROVE  \/ /\ Leaves
            /\ \A n \in Names : \/ leaving'[n] \in {leaving[n], None, Absent}
                                \/ leaving'[n] = home[n]
         \/ /\ leaving' = leaving
            /\ \A n \in Names : home'[n] \in {home[n], None} \/ leaving[n] = None
  <1>t. /\ home \in [Names -> Slots \cup {None}] /\ leaving \in [Names -> Slots \cup {None, Absent}]
    BY DEF OInv, TInv, IInv, Book, FleetType
  <1>p. step # "survey" /\ Running("ensure") => target = Asked
    BY PastSurvey, Zenon DEF OInv, TInv, IInv
  <1>1. CASE AcquireOwn \/ AcquireMints \/ Switch
    <2>1. \/ leaving' = leaving /\ home' = home
          \/ Running("ensure") /\ \E s : Granted(Asked, s)
      <3>1. Switch => step # "survey"
        BY SMT DEF Switch
      <3> QED
        BY <1>1, <1>p, <3>1, Zenon DEF AcquireOwn, AcquireMints, Switch, fleet
    <2>2. CASE leaving' = leaving /\ home' = home
      BY <2>2
    <2>3. CASE Running("ensure") /\ \E s : Granted(Asked, s)
      <3>1. /\ leaving' = leaving
            /\ home' = home \/ \E s : home' = [home EXCEPT ![Asked] = s]
        BY <2>3, Zenon DEF Granted
      <3>2. leaving[Asked] = None
        BY <2>3, TypesSay, RunningOne, HeadTyped, Zenon DEF OInv, TInv, StayPart, StayOK
      <3> QED
        BY <1>t, <3>1, <3>2
    <2> QED
      BY <2>1, <2>2, <2>3
  <1>2. CASE Reap
    <2>1. Running("reap") /\ Reapable(Asked) /\ home' = home
      BY <1>2, Zenon DEF Reap
    <2>2. lease[Asked] = None
      BY <2>1, ReapedHasNoLease DEF OInv
    <2>3. leaving' = leaving
      BY <1>2, <2>2, Zenon DEF Reap
    <2> QED
      BY <2>1, <2>3
  <1>3. CASE PrewarmMints
    BY <1>3, Zenon DEF PrewarmMints, fleet
  <1>4. CASE ~(AcquireOwn \/ AcquireMints \/ Switch \/ Reap \/ PrewarmMints)
    <2>1. /\ head' = head
          /\ home' = home \/ \E n \in Names : home' = [home EXCEPT ![n] = None]
      BY <1>4, Zenon DEF Next, Operation, AcquireFails, AcquireTakes, AcquireSalvages, AcquireRefuses,
         Rejected, HandsOver, Wipe, Refused, PrewarmTakes, PrewarmEnds, Release, ReapRefused, Settled,
         Dispatch, Finish, Eject, Settle, Exits, Decide, Edit, Move, AskReap, Prewarm, Restart,
         disk, fleet, vars
    <2>2. \/ leaving' = leaving
          \/ \E s : Swept(s)
          \/ \E n \in Names : leaving' \in {[leaving EXCEPT ![n] = None], [leaving EXCEPT ![n] = home[n]]}
          \/ leaving' = [n \in Names |-> None]
      <3>1. CASE Wipe \/ Refused \/ Release
        BY <3>1, Zenon DEF Wipe, Refused, Release
      <3>2. CASE \E n \in Names : Exits(n) \/ Finish(n) \/ Eject(n)
        BY <3>2, SMT DEF Exits, Finish, Eject
      <3>3. CASE Restart
        BY <3>3, Zenon DEF Restart
      <3>4. CASE ~(Wipe \/ Refused \/ Release \/ Restart
                   \/ \E n \in Names : Exits(n) \/ Finish(n) \/ Eject(n))
        BY <1>4, <3>4, Zenon DEF Next, Operation, AcquireFails, AcquireTakes, AcquireSalvages,
           AcquireRefuses, Rejected, HandsOver, PrewarmTakes, PrewarmEnds, ReapRefused, Settled,
           Dispatch, Settle, Decide, Edit, Move, AskReap, Prewarm, fleet, vars
      <3> QED
        BY <3>1, <3>2, <3>3, <3>4
    <2>3. ASSUME NEW n \in Names
          PROVE  \/ leaving'[n] \in {leaving[n], None, Absent}
                 \/ leaving'[n] = home[n]
      BY <1>t, <2>2, SMT DEF Swept
    <2>4. Leaves
      BY <1>t, <2>1 DEF Leaves
    <2> QED
      BY <2>3, <2>4
  <1> QED
    BY <1>1, <1>2, <1>3, <1>4

(* Occupants, as the rows and the processes have it; there is one at most. *)
LEMMA OccupantsAre ==
  ASSUME IInv, NEW s \in Slots
  PROVE  Occupants(s) = {n \in Names : home[n] = s \/ leaving[n] = s}
  BY TenantsAre, Zenon DEF Occupants

LEMMA OneOccupant ==
  ASSUME OInv, NEW s \in Slots, NEW n \in Occupants(s)
  PROVE  n \in Names /\ TreeOf(n, s) /\ Occupants(s) = {n}
  <1>1. ASSUME NEW m \in Occupants(s) PROVE m \in Names /\ TreeOf(m, s)
    <2>1. m \in Names /\ (home[m] = s \/ leaving[m] = s)
      BY <1>1, OccupantsAre DEF OInv, TInv
    <2>2. home[m] = s \/ lease[m] = s
      BY <2>1, SMT DEF OInv, StayPart, StayOK
    <2> QED
      BY <2>1, <2>2, Apart, SMT DEF OInv, TInv, TenantPart
  <1>2. \A m \in Occupants(s) : m = n
    BY <1>1, OneTree
  <1> QED
    BY <1>1, <1>2

LEMMA LastLeaves ==
  ASSUME OInv, OInv', Leaves,
         \A n \in Names : leaving'[n] \in {leaving[n], None, Absent} \/ leaving'[n] = home[n]
  PROVE  LastPromise!Leave
  <1> DEFINE S == {s \in Slots : Occupants(s)' = {}}
  <1>1. ASSUME NEW s \in Slots
        PROVE  Occupants(s)' = IF s \in S THEN {} ELSE Occupants(s)
    <2>1. /\ Occupants(s)' = {n \in Names : home'[n] = s \/ leaving'[n] = s}
          /\ Occupants(s) = {n \in Names : home[n] = s \/ leaving[n] = s}
      <3>1. /\ \A n \in Names : Held(n)' <=> home'[n] # None
            /\ IInv
        BY Apart, SMT DEF OInv, TInv, IInv, Book, HomePart, Held
      <3>2. Occupants(s)' = {n \in Names : home'[n] = s \/ leaving'[n] = s}
        BY <3>1, Apart, SMT DEF Occupants, Tenants, Held
      <3> QED
        BY <3>1, <3>2, OccupantsAre
    <2>2. Occupants(s)' \subseteq Occupants(s)
      BY <2>1, Apart, SMT DEF Leaves
    <2>3. CASE Occupants(s)' = {}
      BY <2>3
    <2>4. ASSUME NEW n \in Names, n \in Occupants(s)'
          PROVE  Occupants(s)' = Occupants(s) /\ s \notin S
      <3>1. n \in Occupants(s)
        BY <2>2, <2>4
      <3>2. Occupants(s) = {n}
        BY <3>1, OneOccupant
      <3> QED
        BY <2>2, <2>4, <3>2
    <2> QED
      BY <2>1, <2>3, <2>4
  <1>2. [s \in Slots |-> Occupants(s)'] =
           [s \in Slots |-> IF s \in S THEN {} ELSE [t \in Slots |-> Occupants(t)][s]]
    BY <1>1
  <1>3. S \in SUBSET Slots
    OBVIOUS
  <1> QED
    BY <1>2, <1>3 DEF LastPromise!Leave, Leaves

(* A slot that is made ready is nobody's to the last process: whoever is   *)
(* still leaving it would find his tree there before and after.            *)
LEMMA ReadyIsLeft ==
  ASSUME OInv, OInv', NEW s \in Slots, Readies(s), leaving' = leaving, ~Leaves,
         \A n \in Names : home'[n] \in {home[n], None} \/ leaving[n] = None
  PROVE  \A m \in Names : leaving[m] # s
  <1> SUFFICES ASSUME NEW m \in Names, leaving[m] = s PROVE FALSE
    OBVIOUS
  <1>t. /\ head \in [Slots -> Branches \cup {Detached, Absent}]
        /\ head' \in [Slots -> Branches \cup {Detached, Absent}]
        /\ home \in [Names -> Slots \cup {None}]
    BY TypesSay, Zenon DEF OInv, TInv, IInv, DiskType
  <1>n. None \notin Slots
    BY Apart
  <1>1. lease[m] = s /\ lease'[m] = s
    BY DEF OInv, StayPart, StayOK
  <1>2. TreeOf(m, s)
    BY <1>1, <1>n DEF OInv, TInv, TenantPart
  <1>3. IF m \in Keys THEN head'[s] = Detached /\ mark'[s] = m ELSE head'[s] = m
    BY <1>1, <1>n, SMT DEF OInv, TInv, TenantPart, TreeOf
  <1>4. head'[s] = head[s]
    BY <1>2, <1>3 DEF TreeOf
  <1>5. head' = head
    BY <1>t, <1>4 DEF Readies
  <1>6. PICK n \in Names : home[n] = None /\ home' = [home EXCEPT ![n] = s]
    BY <1>t, <1>5 DEF Readies, Leaves
  <1>7. home'[n] = s /\ leaving[n] = None
    BY <1>t, <1>n, <1>6
  <1>8. IF n \in Keys THEN head'[s] = Detached /\ mark'[s] = n ELSE head'[s] = n
    BY <1>7, <1>n, SMT DEF OInv, TInv, TenantPart, TreeOf
  <1>9. n = m
    BY <1>3, <1>8, Apart, SMT
  <1> QED
    BY <1>7, <1>9, <1>n

LEMMA LastReady ==
  ASSUME OInv, OInv', NEW s \in Slots, Readies(s), leaving' = leaving, ~Leaves,
         \A n \in Names : home'[n] \in {home[n], None} \/ leaving[n] = None
  PROVE  LastPromise!MakeReady(s)
  <1>t. /\ head \in [Slots -> Branches \cup {Detached, Absent}]
        /\ head' \in [Slots -> Branches \cup {Detached, Absent}]
        /\ home \in [Names -> Slots \cup {None}]
    BY TypesSay, Zenon DEF OInv, TInv, IInv, DiskType
  <1>l. \A m \in Names : leaving[m] # s
    BY ReadyIsLeft
  <1>1. ASSUME NEW t \in Slots
        PROVE  /\ Occupants(t)' = {n \in Names : home'[n] = t \/ leaving[n] = t}
               /\ Occupants(t) = {n \in Names : home[n] = t \/ leaving[n] = t}
    <2>1. (\A n \in Names : Held(n)' <=> home'[n] # None) /\ IInv
      BY Apart, SMT DEF OInv, TInv, IInv, Book, HomePart, Held
    <2>2. Occupants(t)' = {n \in Names : home'[n] = t \/ leaving[n] = t}
      BY <2>1, Apart, SMT DEF Occupants, Tenants, Held
    <2> QED
      BY <2>1, <2>2, OccupantsAre
  <1>2. Occupants(s) = {}
    BY <1>1, <1>l DEF Readies
  <1>3. head' = [head EXCEPT ![s] = head'[s]] /\ head'[s] \in Branches \cup {Detached, Absent}
    BY <1>t, SMT DEF Readies
  <1>4. CASE home' = home
    <2>1. [t \in Slots |-> Occupants(t)'] = [t \in Slots |-> Occupants(t)]
      BY <1>1, <1>4
    <2>2. Names # {}
      BY DEF Readies
    <2> QED
      BY <1>2, <1>3, <2>1, <2>2 DEF LastPromise!MakeReady
  <1>5. ASSUME NEW n \in Names, home[n] = None, home' = [home EXCEPT ![n] = s]
        PROVE  LastPromise!MakeReady(s)
    <2>1. ASSUME NEW t \in Slots
          PROVE  Occupants(t)' = IF t = s THEN {n} ELSE Occupants(t)
      <3>1. \A m \in Names : home'[m] = t <=> (IF m = n THEN t = s ELSE home[m] = t)
        BY <1>t, <1>5, SMT
      <3>2. CASE t = s
        BY <1>1, <1>l, <3>1, <3>2 DEF Readies
      <3>3. CASE t # s
        BY <1>1, <1>5, <3>1, <3>3, Apart
      <3> QED
        BY <3>2, <3>3
    <2>2. [t \in Slots |-> Occupants(t)'] = [[t \in Slots |-> Occupants(t)] EXCEPT ![s] = {n}]
      BY <2>1
    <2> QED
      BY <1>2, <1>3, <2>2 DEF LastPromise!MakeReady
  <1> QED
    BY <1>4, <1>5 DEF Readies

-----------------------------------------------------------------------------
(* Where besides orphans are let go and a dispatch waits for the exit of   *)
(* the last agent under its name, the promise is kept to the last process: *)
(* a directory is not switched, detached or given away before the exit of  *)
(* whoever was in it.                                                      *)
THEOREM OccupantsAlwaysKeepTheirTree ==
  ASSUME HeadMoves = FALSE, Restores = FALSE, Overlaps = FALSE
  PROVE  Spec => OccupantsKeepTheirTree
  <1>1. OInv /\ [Next]_vars => OInv'
    BY OccupancyStep
  <1>2. Init => LastPromise!Init
    <2> SUFFICES ASSUME Init PROVE LastPromise!Init
      OBVIOUS
    <2>1. /\ head = [s \in Slots |-> Absent] /\ IInv
          /\ home = [n \in Names |-> None] /\ leaving = [n \in Names |-> None]
      BY PoolInit, Zenon DEF Init, Fresh
    <2>2. \A s \in Slots : Occupants(s) = {}
      BY <2>1, OccupantsAre, Apart, SMT
    <2> QED
      BY <2>1, <2>2 DEF LastPromise!Init
  <1>3. OInv /\ [Next]_vars => [LastPromise!Next]_<<[s \in Slots |-> Occupants(s)], head>>
    <2> SUFFICES ASSUME OInv, [Next]_vars PROVE LastPromise!Next
      OBVIOUS
    <2>1. OInv' /\ Kept
      BY <1>1, TenancyNext DEF OInv
    <2>2. CASE /\ Leaves
               /\ \A n \in Names : \/ leaving'[n] \in {leaving[n], None, Absent}
                                   \/ leaving'[n] = home[n]
      BY <2>1, <2>2, LastLeaves, Zenon DEF LastPromise!Next
    <2>3. CASE /\ leaving' = leaving
               /\ \A n \in Names : home'[n] \in {home[n], None} \/ leaving[n] = None
      <3>1. CASE Leaves
        <4>1. \A n \in Names : leaving'[n] \in {leaving[n], None, Absent}
          BY <2>3
        <4> QED
          BY <2>1, <3>1, <4>1, LastLeaves, Zenon DEF LastPromise!Next
      <3>2. CASE ~Leaves
        BY <2>1, <2>3, <3>2, LastReady, Zenon DEF Kept, LastPromise!Next
      <3> QED
        BY <3>1, <3>2
    <2> QED
      BY <2>2, <2>3, OnlyOneMoves
  <1> QED
    BY <1>1, <1>2, <1>3, OccupancyInit, PTL DEF Spec, OccupantsKeepTheirTree, LastPromise!Spec

(* And a tree is what its dispatch is told: an agent at work finds nobody  *)
(* else's edits, and a mark vouches for the files beside it.               *)
THEOREM TreesAlwaysTold ==
  ASSUME HeadMoves = FALSE, Restores = FALSE, Overlaps = FALSE
  PROVE  Spec => []TreesAreTold
  <1>1. OInv /\ [Next]_vars => OInv'
    BY OccupancyStep
  <1>2. OInv => TreesAreTold
    <2> SUFFICES ASSUME OInv PROVE NoForeignEdits /\ MarkTellsTree
      BY DEF TreesAreTold
    <2>1. ASSUME NEW n \in Names, task[n] = "active"
          PROVE  edits[home[n]] \in {None, n}
      <3>1. home[n] \in Slots
        BY <2>1, SMT DEF OInv, TInv, IInv, Book, HomePart, Held
      <3>2. TreeOf(n, home[n])
        BY <3>1, Apart, Zenon DEF OInv, TInv, TenantPart
      <3> QED
        BY <3>1, <3>2, Zenon DEF OInv, EditsPart
    <2> QED
      BY <2>1 DEF NoForeignEdits, OInv, MarkPart
  <1> QED
    BY <1>1, <1>2, OccupancyInit, PTL DEF Spec

(* A mark needs less: it vouches for its slot also where orphans come back *)
(* and dispatches overlap exits, through every hand-over, crash and        *)
(* condemnation.                                                           *)
THEOREM MarksAlwaysTell ==
  ASSUME HeadMoves = FALSE
  PROVE  Spec => []MarkTellsTree
  <1>1. TInv /\ MarkPart /\ [Next]_vars => (TInv /\ MarkPart)'
    BY TenancyStep, MarkNext
  <1>2. Init => TInv /\ MarkPart
    BY OccupancyInit DEF OInv
  <1>3. MarkPart => MarkTellsTree
    BY DEF MarkPart
  <1> QED
    BY <1>1, <1>2, <1>3, PTL DEF Spec

=============================================================================
