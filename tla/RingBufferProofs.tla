-------------------------- MODULE RingBufferProofs --------------------------
(***************************************************************************)
(* Theorems about RingBuffer, for any number of pollers and readers: its   *)
(* maps of dispatchers and of readers, its count, and what the caches of   *)
(* the ring and of its dispatchers hold.                                   *)
(***************************************************************************)
EXTENDS RingBuffer, SequenceTheorems, FiniteSetTheorems, WellFoundedInduction, TLAPS

USE ConstantsAssumption, SizesAssumption

(***************************************************************************)
(* The inductive invariant.                                                *)
(***************************************************************************)

(* TypeOK without what depends on the caches. *)
MapTypes ==
  /\ ring \in {"alive", "gone"} /\ log \in Seq(BOOLEAN) /\ Len(log) <= MaxLog
  /\ total \in Nat
  /\ dispatcher \in [Pollers -> Dispatchers \union {None}]
  /\ home \in [Dispatchers -> Pollers \union {None}]
  /\ members \in [Dispatchers -> SUBSET Readers] /\ deleted \subseteq Dispatchers
  /\ queue \in [Pollers -> Seq(Task)]
  /\ pc \in [Pollers -> {"idle", "loop", "locked", "callback"}]
  /\ task \in [Pollers -> Task \union {NoTask}]
  /\ pin \in [Pollers -> Readers \union {None}]
  /\ of \in [Readers -> Dispatchers \union {None}] /\ held \subseteq Readers

(* A dispatcher has one poller for good, a reader one dispatcher.          *)
Homes ==
  /\ \A p \in Pollers : dispatcher[p] # None => home[dispatcher[p]] = p
  /\ \A r \in Readers : of[r] # None => home[of[r]] # None
  /\ \A d \in Dispatchers : \A r \in members[d] : of[r] = d
  /\ \A r \in held : of[r] # None
  /\ deleted # {} => ring = "gone"

(* A reader whose deleter runs, now or in a task, is not held by anyone;   *)
(* the loop's reader is one that was attached.                             *)
Dropped ==
  /\ \A p \in Pollers : \A i \in DOMAIN queue[p] :
       queue[p][i].op = "dealloc" => of[queue[p][i].on] # None /\ queue[p][i].on \notin held
  /\ \A p \in Pollers : pc[p] \in {"locked", "callback"} => pin[p] # None /\ of[pin[p]] # None
  /\ \A p \in Pollers : pc[p] # "idle" => task[p].op = "write"

(* The readers that are in the map of their dispatcher.                    *)
Linked == {r \in Readers : of[r] # None /\ r \in members[of[r]]}

(* A dispatcher with readers is in the map of dispatchers, whoever holds   *)
(* them; the count is that of the readers in a map.                        *)
InUse ==
  ring = "alive" =>
    /\ \A d \in Dispatchers : members[d] # {} => dispatcher[home[d]] = d
    /\ \A r \in held : r \in members[of[r]]
    /\ IsFiniteSet(Linked) /\ total = Cardinality(Linked)

IInv == MapTypes /\ Homes /\ Dropped /\ InUse

LEMMA MapTypeFacts ==
  ASSUME MapTypes
  PROVE  /\ dispatcher \in [Pollers -> Dispatchers \union {None}]
         /\ home \in [Dispatchers -> Pollers \union {None}]
         /\ members \in [Dispatchers -> SUBSET Readers]
         /\ queue \in [Pollers -> Seq(Task)] /\ task \in [Pollers -> Task \union {NoTask}]
         /\ pin \in [Pollers -> Readers \union {None}]
         /\ pc \in [Pollers -> {"idle", "loop", "locked", "callback"}]
         /\ of \in [Readers -> Dispatchers \union {None}] /\ held \subseteq Readers
         /\ None \notin Dispatchers /\ None \notin Readers /\ None \notin Pollers
  BY DEF MapTypes

(***************************************************************************)
(* Sequences.                                                              *)
(***************************************************************************)
LEMMA TailOf ==
  ASSUME NEW S, NEW q \in Seq(S), q # <<>>
  PROVE  /\ 1 \in DOMAIN q /\ q[1] = Head(q) /\ Head(q) \in S /\ Tail(q) \in Seq(S)
         /\ \A i \in DOMAIN Tail(q) : i + 1 \in DOMAIN q /\ Tail(q)[i] = q[i + 1]
<1>1. Len(q) \in Nat \ {0} /\ DOMAIN q = 1 .. Len(q)
  BY EmptySeq, LenProperties
<1>2. /\ Head(q) \in S /\ Tail(q) \in Seq(S) /\ Len(Tail(q)) = Len(q) - 1
      /\ \A i \in 1 .. Len(Tail(q)) : Tail(q)[i] = q[i + 1]
  BY HeadTailProperties
<1>3. DOMAIN Tail(q) = 1 .. Len(q) - 1
  BY <1>2, LenProperties
<1>4. q[1] = Head(q)
  OBVIOUS
<1> QED
  BY <1>1, <1>2, <1>3, <1>4

LEMMA Appended ==
  ASSUME NEW S, NEW q \in Seq(S), NEW e \in S
  PROVE  /\ Append(q, e) \in Seq(S)
         /\ DOMAIN Append(q, e) = DOMAIN q \union {Len(q) + 1}
         /\ \A i \in DOMAIN q : Append(q, e)[i] = q[i]
         /\ Append(q, e)[Len(q) + 1] = e
<1>1. Len(q) \in Nat /\ DOMAIN q = 1 .. Len(q)
  BY LenProperties
<1>2. /\ Append(q, e) \in Seq(S) /\ Len(Append(q, e)) = Len(q) + 1
      /\ \A i \in 1 .. Len(q) : Append(q, e)[i] = q[i]
      /\ Append(q, e)[Len(q) + 1] = e
  BY AppendProperties
<1>3. DOMAIN Append(q, e) = 1 .. Len(q) + 1
  BY <1>2, LenProperties
<1> QED
  BY <1>1, <1>2, <1>3

(***************************************************************************)
(* A reader leaves the map of its dispatcher.                              *)
(***************************************************************************)
LEMMA UnlinkKeeps ==
  ASSUME MapTypes, Homes, InUse, NEW r \in Readers, NEW d \in Dispatchers, r \in members[d],
         Unlink(d, r), r \notin held', held' \subseteq held,
         UNCHANGED <<ring, home, of, deleted>>
  PROVE  /\ Homes' /\ InUse' /\ total' \in Nat
         /\ members' \in [Dispatchers -> SUBSET Readers]
         /\ dispatcher' \in [Pollers -> Dispatchers \union {None}]
<1>0. /\ members' = [members EXCEPT ![d] = @ \ {r}]
      /\ of[r] = d /\ home[d] \in Pollers
      /\ of \in [Readers -> Dispatchers \union {None}]
      /\ members' \in [Dispatchers -> SUBSET Readers]
      /\ total \in Nat /\ held \subseteq Readers
  BY MapTypeFacts DEF Unlink, Homes, MapTypes
<1>1. /\ \A e \in Dispatchers : members'[e] \subseteq members[e]
      /\ \A e \in Dispatchers \ {d} : members'[e] = members[e]
      /\ members'[d] = members[d] \ {r}
  BY <1>0, MapTypeFacts
<1>2. CASE ring # "alive"
  <2>1. UNCHANGED <<total, dispatcher>>
    BY <1>2 DEF Unlink
  <2>2. Homes'
    BY <1>0, <1>1, <2>1, MapTypeFacts DEF Homes
  <2> QED
    BY <1>0, <1>2, <2>1, <2>2, MapTypeFacts DEF InUse
<1>3. CASE ring = "alive"
  <2>1. /\ total' = total - 1
        /\ dispatcher' = IF members[d] = {r} THEN [dispatcher EXCEPT ![home[d]] = None]
                         ELSE dispatcher
    BY <1>3 DEF Unlink
  <2>2. /\ dispatcher' \in [Pollers -> Dispatchers \union {None}]
        /\ \A p \in Pollers : dispatcher'[p] \in {dispatcher[p], None}
    BY <1>0, <2>1, MapTypeFacts
  <2>3. Homes'
    BY <1>0, <1>1, <2>2, MapTypeFacts DEF Homes
  <2>4. \A e \in Dispatchers : members'[e] # {} => dispatcher'[home[e]] = e
    <3>1. ASSUME NEW e \in Dispatchers, members'[e] # {} PROVE dispatcher'[home[e]] = e
      <4>1. PICK q \in Readers : q \in members[e]
        BY <1>1, <3>1, MapTypeFacts
      <4>2. home[e] \in Pollers /\ dispatcher[home[e]] = e
        BY <1>3, <4>1, MapTypeFacts DEF Homes, InUse
      <4>3. dispatcher[home[d]] = d
        BY <1>3 DEF InUse
      <4>4. CASE members[d] = {r}
        <5>1. e # d
          BY <1>1, <3>1, <4>4
        <5>2. home[e] # home[d]
          BY <4>2, <4>3, <5>1
        <5> QED
          BY <1>0, <2>1, <4>2, <5>2, MapTypeFacts
      <4>5. CASE members[d] # {r}
        BY <2>1, <4>2, <4>5
      <4> QED
        BY <4>4, <4>5
    <3> QED
      BY <3>1
  <2>5. \A q \in held' : q \in members'[of[q]]
    <3>1. ASSUME NEW q \in held' PROVE q \in members'[of[q]]
      <4>1. q \in Readers /\ q # r /\ q \in members[of[q]] /\ of[q] \in Dispatchers
        BY <1>0, <1>3, MapTypeFacts DEF InUse, Homes
      <4> QED
        BY <1>1, <4>1
    <3> QED
      BY <3>1
  <2>6. Linked' = Linked \ {r} /\ r \in Linked
    <3>1. \A q \in Readers \ {r} : of[q] # None =>
            (q \in members'[of[q]] <=> q \in members[of[q]])
      BY <1>1, MapTypeFacts
    <3> QED
      BY <1>0, <1>1, <3>1, MapTypeFacts DEF Linked
  <2>7. IsFiniteSet(Linked') /\ Cardinality(Linked') = total - 1
    <3>1. IsFiniteSet(Linked) /\ total = Cardinality(Linked)
      BY <1>3 DEF InUse
    <3> QED
      BY <2>6, <3>1, FS_RemoveElement
  <2>8. total' \in Nat
    BY <2>1, <2>7, FS_CardinalityType
  <2> QED
    BY <1>0, <2>1, <2>2, <2>3, <2>4, <2>5, <2>7, <2>8 DEF InUse
<1> QED
  BY <1>2, <1>3

(* The deleter of a reader, which finds it in the map or not.              *)
LEMMA DeallocKeeps ==
  ASSUME MapTypes, Homes, InUse, NEW r \in Readers, of[r] # None, Dealloc(r), r \notin held',
         held' \subseteq held, UNCHANGED <<ring, home, of, deleted>>
  PROVE  /\ Homes' /\ InUse' /\ total' \in Nat
         /\ members' \in [Dispatchers -> SUBSET Readers]
         /\ dispatcher' \in [Pollers -> Dispatchers \union {None}]
<1>0. of[r] \in Dispatchers
  BY MapTypeFacts
<1>1. CASE of[r] \notin deleted /\ r \in members[of[r]]
  <2>1. Unlink(of[r], r)
    BY <1>1 DEF Dealloc
  <2> QED
    BY <1>0, <1>1, <2>1, UnlinkKeeps
<1>2. CASE ~(of[r] \notin deleted /\ r \in members[of[r]])
  <2>1. UNCHANGED <<members, total, dispatcher>>
    BY <1>2 DEF Dealloc
  <2>2. Linked' = Linked
    BY <2>1 DEF Linked
  <2>3. Homes' /\ InUse'
    BY <2>1, <2>2 DEF Homes, InUse
  <2> QED
    BY <2>1, <2>3, MapTypeFacts DEF MapTypes
<1> QED
  BY <1>1, <1>2

(***************************************************************************)
(* What a step that leaves most things alone preserves.                    *)
(***************************************************************************)
LEMMA MapsKept ==
  ASSUME Homes, InUse, UNCHANGED <<ring, total, dispatcher, home, members, deleted, of>>,
         held' \subseteq held
  PROVE  Homes' /\ InUse'
<1>1. Linked' = Linked
  BY DEF Linked
<1> QED
  BY <1>1 DEF Homes, InUse

(* No task is added but of write and clear; the loop may go on.            *)
LEMMA DroppedKept ==
  ASSUME Dropped, held' \subseteq held,
         \A r \in Readers : of[r] # None => of'[r] = of[r],
         \A r \in held : r \in Readers,
         \A p \in Pollers : pin[p] \in Readers \union {None},
         \A p \in Pollers : \A i \in DOMAIN queue'[p] :
           queue'[p][i].op = "dealloc" =>
             /\ queue'[p][i].on \in Readers
             /\ \/ \E j \in DOMAIN queue[p] : queue'[p][i] = queue[p][j]
                \/ of[queue'[p][i].on] # None /\ queue'[p][i].on \notin held',
         UNCHANGED <<pc, task, pin>>
  PROVE  Dropped'
<1>1. ASSUME NEW p \in Pollers, NEW i \in DOMAIN queue'[p], queue'[p][i].op = "dealloc"
      PROVE  of'[queue'[p][i].on] # None /\ queue'[p][i].on \notin held'
  <2> DEFINE r == queue'[p][i].on
  <2>1. r \in Readers /\ of[r] # None /\ r \notin held'
    BY <1>1 DEF Dropped
  <2> HIDE DEF r
  <2>2. of'[r] # None /\ r \notin held'
    BY <2>1
  <2> QED
    BY <2>2 DEF r
<1>2. \A p \in Pollers : pc'[p] \in {"locked", "callback"} => pin'[p] # None /\ of'[pin'[p]] # None
  BY DEF Dropped
<1>3. \A p \in Pollers : pc'[p] # "idle" => task'[p].op = "write"
  BY DEF Dropped
<1> QED
  BY <1>1, <1>2, <1>3 DEF Dropped

LEMMA TasksOf ==
  ASSUME MapTypes
  PROVE  /\ \A p \in Pollers : queue[p] \in Seq(Task)
         /\ \A p \in Pollers : \A i \in DOMAIN queue[p] : queue[p][i] \in Task
         /\ \A t \in Task : /\ t.op \in {"write", "clear", "dealloc"}
                            /\ t.op = "dealloc" => t.on \in Readers
                            /\ t.op \in {"write", "clear"} => t.on \in Dispatchers
<1>1. \A p \in Pollers : queue[p] \in Seq(Task)
  BY MapTypeFacts
<1>2. \A p \in Pollers : \A i \in DOMAIN queue[p] : queue[p][i] \in Task
  BY <1>1, LenProperties, ElementOfSeq
<1> QED
  BY <1>1, <1>2 DEF Task

(***************************************************************************)
(* Calls of the ring buffer.                                               *)
(***************************************************************************)
LEMMA ToAllKeeps ==
  ASSUME MapTypes, NEW op \in {"write", "clear"}, NEW n,
         \A d \in Dispatchers : [op |-> op, on |-> d, n |-> n] \in Task, ToAll(op, n)
  PROVE  /\ queue' \in [Pollers -> Seq(Task)]
         /\ \A p \in Pollers : \A i \in DOMAIN queue'[p] :
              queue'[p][i].op = "dealloc" =>
                /\ queue'[p][i].on \in Readers
                /\ \E j \in DOMAIN queue[p] : queue'[p][i] = queue[p][j]
<1>1. ASSUME NEW p \in Pollers
      PROVE  /\ queue'[p] \in Seq(Task)
             /\ \A i \in DOMAIN queue'[p] :
                  queue'[p][i].op = "dealloc" =>
                    /\ queue'[p][i].on \in Readers
                    /\ \E j \in DOMAIN queue[p] : queue'[p][i] = queue[p][j]
  <2>1. CASE dispatcher[p] = None
    <3>1. queue'[p] = queue[p]
      BY <2>1 DEF ToAll
    <3> QED
      BY <3>1, TasksOf
  <2>2. CASE dispatcher[p] # None
    <3> DEFINE t == [op |-> op, on |-> dispatcher[p], n |-> n]
    <3>1. queue'[p] = Append(queue[p], t) /\ t \in Task /\ t.op = op
      BY <2>2, MapTypeFacts DEF ToAll
    <3> HIDE DEF t
    <3>2. /\ queue'[p] \in Seq(Task)
          /\ DOMAIN queue'[p] = DOMAIN queue[p] \union {Len(queue[p]) + 1}
          /\ \A i \in DOMAIN queue[p] : queue'[p][i] = queue[p][i]
          /\ queue'[p][Len(queue[p]) + 1] = t
      BY <3>1, Appended, TasksOf
    <3> QED
      BY <3>1, <3>2, TasksOf
  <2> QED
    BY <2>1, <2>2
<1>2. DOMAIN queue' = Pollers /\ queue' = [p \in Pollers |-> queue'[p]]
  BY DEF ToAll
<1> QED
  BY <1>1, <1>2

LEMMA WriteKeeps ==
  ASSUME IInv, NEW is_key \in BOOLEAN, Write(is_key) \/ ClearAll
  PROVE  IInv'
<1>1. /\ UNCHANGED <<ring, total, dispatcher, dispatcherVars, pc, task, left, pin, readerVars>>
  BY DEF Write, ClearAll
<1>2. /\ log' \in Seq(BOOLEAN) /\ Len(log') <= MaxLog
      /\ queue' \in [Pollers -> Seq(Task)]
      /\ \A p \in Pollers : \A i \in DOMAIN queue'[p] :
           queue'[p][i].op = "dealloc" =>
             /\ queue'[p][i].on \in Readers
             /\ \E j \in DOMAIN queue[p] : queue'[p][i] = queue[p][j]
  <2>0. log \in Seq(BOOLEAN) /\ Len(log) \in Nat /\ Len(log) <= MaxLog
    BY LenProperties DEF IInv, MapTypes
  <2>1. CASE Write(is_key)
    <3>1. ToAll("write", Len(log) + 1) /\ log' = Append(log, is_key) /\ Len(log) < MaxLog
      BY <2>1 DEF Write
    <3>2. \A d \in Dispatchers : [op |-> "write", on |-> d, n |-> Len(log) + 1] \in Task
      BY <2>0, <3>1 DEF Task
    <3>3. Len(log') = Len(log) + 1 /\ log' \in Seq(BOOLEAN)
      BY <2>0, <3>1, AppendProperties
    <3> QED
      BY <2>0, <3>1, <3>2, <3>3, ToAllKeeps DEF IInv
  <2>2. CASE ClearAll
    <3>1. ToAll("clear", 0) /\ log' = log
      BY <2>2 DEF ClearAll
    <3>2. \A d \in Dispatchers : [op |-> "clear", on |-> d, n |-> 0] \in Task
      BY DEF Task
    <3> QED
      BY <2>0, <3>1, <3>2, ToAllKeeps DEF IInv
  <2> QED
    BY <2>1, <2>2
<1>3. MapTypes'
  BY <1>1, <1>2 DEF IInv, MapTypes, dispatcherVars, readerVars
<1>4. Homes' /\ InUse'
  BY <1>1, MapsKept DEF IInv, dispatcherVars, readerVars
<1>5. Dropped'
  BY <1>1, <1>2, DroppedKept, MapTypeFacts DEF IInv, readerVars
<1> QED
  BY <1>3, <1>4, <1>5 DEF IInv

LEMMA FreshFacts ==
  ASSUME MapTypes, Homes, Unmade # {}
  PROVE  /\ Fresh \in Dispatchers /\ home[Fresh] = None /\ members[Fresh] = {}
         /\ \A p \in Pollers : dispatcher[p] # Fresh
<1>1. Fresh \in Unmade
  BY DEF Fresh
<1>2. Fresh \in Dispatchers /\ home[Fresh] = None
  BY <1>1 DEF Unmade
<1>3. members[Fresh] = {}
  <2>1. ASSUME NEW r \in members[Fresh] PROVE FALSE
    BY <1>2, MapTypeFacts DEF Homes
  <2> QED
    BY <2>1
<1> QED
  BY <1>2, <1>3, MapTypeFacts DEF Homes

(* A dispatcher is made for p.                                             *)
LEMMA MakeKeeps ==
  ASSUME MapTypes, Homes, InUse, NEW p \in Pollers, NEW M \in SUBSET Readers, Unmade # {},
         dispatcher[p] = None, ring = "alive", MakeDispatcher(p, Fresh, M)
  PROVE  /\ dispatcher' \in [Pollers -> Dispatchers \union {None}]
         /\ home' \in [Dispatchers -> Pollers \union {None}]
         /\ members' \in [Dispatchers -> SUBSET Readers]
         /\ members'[Fresh] = M /\ \A d \in Dispatchers \ {Fresh} : members'[d] = members[d]
         /\ \A q \in Pollers : dispatcher'[q] # None => home'[dispatcher'[q]] = q
         /\ \A d \in Dispatchers : home[d] # None => home'[d] # None
         /\ home'[Fresh] # None
         /\ \A d \in Dispatchers : members'[d] # {} => dispatcher'[home'[d]] = d
<1> DEFINE f == Fresh
<1>0. /\ f \in Dispatchers /\ home[f] = None /\ members[f] = {}
      /\ \A q \in Pollers : dispatcher[q] # f
  BY FreshFacts
<1>1. /\ home' = [home EXCEPT ![f] = p] /\ members' = [members EXCEPT ![f] = M]
      /\ dispatcher' = [dispatcher EXCEPT ![p] = f]
  BY DEF MakeDispatcher
<1> HIDE DEF f
<1>2. /\ dispatcher' \in [Pollers -> Dispatchers \union {None}]
      /\ home' \in [Dispatchers -> Pollers \union {None}]
      /\ members' \in [Dispatchers -> SUBSET Readers]
      /\ members'[f] = M /\ \A d \in Dispatchers \ {f} : members'[d] = members[d]
      /\ home'[f] = p /\ \A d \in Dispatchers \ {f} : home'[d] = home[d]
      /\ dispatcher'[p] = f /\ \A q \in Pollers \ {p} : dispatcher'[q] = dispatcher[q]
  BY <1>0, <1>1, MapTypeFacts
<1>3. ASSUME NEW q \in Pollers, dispatcher'[q] # None PROVE home'[dispatcher'[q]] = q
  <2>1. CASE q = p
    BY <1>2, <2>1
  <2>2. CASE q # p
    <3>1. dispatcher'[q] = dispatcher[q] /\ dispatcher[q] \in Dispatchers \ {f}
      BY <1>0, <1>2, <1>3, <2>2, MapTypeFacts
    <3>2. home[dispatcher[q]] = q
      BY <1>3, <3>1 DEF Homes
    <3> QED
      BY <1>2, <3>1, <3>2
  <2> QED
    BY <2>1, <2>2
<1>4. ASSUME NEW d \in Dispatchers, members'[d] # {} PROVE dispatcher'[home'[d]] = d
  <2>1. CASE d = f
    BY <1>2, <2>1
  <2>2. CASE d # f
    <3>1. PICK r \in members[d] : r \in Readers
      BY <1>2, <1>4, <2>2, MapTypeFacts
    <3>2. home[d] \in Pollers
      BY <3>1, MapTypeFacts DEF Homes
    <3>3. dispatcher[home[d]] = d
      BY <3>1 DEF InUse
    <3>4. home[d] # p
      BY <3>3, MapTypeFacts
    <3> QED
      BY <1>2, <2>2, <3>2, <3>3, <3>4
  <2> QED
    BY <2>1, <2>2
<1> QED
  BY <1>0, <1>2, <1>3, <1>4, MapTypeFacts DEF f

LEMMA AttachKeeps ==
  ASSUME IInv, NEW p \in Pollers, NEW r \in Readers, Attach(p, r)
  PROVE  IInv'
<1> DEFINE d == IF dispatcher[p] = None THEN Fresh ELSE dispatcher[p]
<1>1. /\ ring = "alive" /\ of[r] = None /\ total' = total + 1 /\ held' = held \union {r}
      /\ UNCHANGED <<ring, log, storage, deleted, pollerVars, hearing, got, detached>>
      /\ of' = [of EXCEPT ![r] = d] /\ d \in Dispatchers
  <2>1. CASE dispatcher[p] = None
    BY <2>1, FreshFacts DEF Attach, IInv
  <2>2. CASE dispatcher[p] # None
    BY <2>2, MapTypeFacts DEF Attach, IInv
  <2> QED
    BY <2>1, <2>2
<1>2. /\ dispatcher' \in [Pollers -> Dispatchers \union {None}]
      /\ home' \in [Dispatchers -> Pollers \union {None}]
      /\ members' \in [Dispatchers -> SUBSET Readers]
      /\ members'[d] = members[d] \union {r}
      /\ \A e \in Dispatchers \ {d} : members'[e] = members[e]
      /\ \A q \in Pollers : dispatcher'[q] # None => home'[dispatcher'[q]] = q
      /\ \A e \in Dispatchers : home[e] # None => home'[e] # None
      /\ home'[d] # None
      /\ \A e \in Dispatchers : members'[e] # {} => dispatcher'[home'[e]] = e
  <2>1. CASE dispatcher[p] = None
    <3>1. MakeDispatcher(p, Fresh, {r}) /\ Unmade # {} /\ d = Fresh
      BY <2>1 DEF Attach
    <3>2. members[Fresh] = {}
      BY <3>1, FreshFacts DEF IInv
    <3> HIDE DEF d
    <3> QED
      BY <1>1, <2>1, <3>1, <3>2, MakeKeeps DEF IInv
  <2>2. CASE dispatcher[p] # None
    <3>1. /\ d = dispatcher[p] /\ members' = [members EXCEPT ![d] = @ \union {r}]
          /\ UNCHANGED <<dispatcher, home>>
      BY <2>2 DEF Attach
    <3>2. home[d] = p
      BY <2>2, <3>1 DEF IInv, Homes
    <3> HIDE DEF d
    <3>3. /\ members' \in [Dispatchers -> SUBSET Readers]
          /\ members'[d] = members[d] \union {r}
          /\ \A e \in Dispatchers \ {d} : members'[e] = members[e]
      BY <1>1, <3>1, MapTypeFacts DEF IInv
    <3>4. ASSUME NEW e \in Dispatchers, members'[e] # {} PROVE dispatcher'[home'[e]] = e
      BY <1>1, <3>1, <3>2, <3>3, <3>4 DEF IInv, InUse
    <3> QED
      BY <3>1, <3>2, <3>3, <3>4, MapTypeFacts DEF IInv, Homes
  <2> QED
    BY <2>1, <2>2
<1> HIDE DEF d
<1>3. /\ of' \in [Readers -> Dispatchers \union {None}] /\ of'[r] = d
      /\ \A q \in Readers \ {r} : of'[q] = of[q]
  BY <1>1, MapTypeFacts DEF IInv
<1>4. MapTypes'
  BY <1>1, <1>2, <1>3 DEF IInv, MapTypes, pollerVars
<1>5. Homes'
  <2>1. \A q \in Readers : of'[q] # None => home'[of'[q]] # None
    BY <1>1, <1>2, <1>3, MapTypeFacts DEF IInv, Homes
  <2>2. \A e \in Dispatchers : \A q \in members'[e] : of'[q] = e
    <3>1. ASSUME NEW e \in Dispatchers, NEW q \in members'[e] PROVE of'[q] = e
      <4>1. CASE q = r
        <5>1. r \notin members[e]
          BY <1>1, MapTypeFacts DEF IInv, Homes
        <5> QED
          BY <1>2, <1>3, <3>1, <4>1, <5>1
      <4>2. CASE q # r
        <5>1. q \in members[e] /\ q \in Readers
          BY <1>2, <3>1, <4>2, MapTypeFacts DEF IInv
        <5> QED
          BY <1>3, <4>2, <5>1 DEF IInv, Homes
      <4> QED
        BY <4>1, <4>2
    <3> QED
      BY <3>1
  <2>3. \A q \in held' : of'[q] # None
    BY <1>1, <1>3, MapTypeFacts DEF IInv, Homes
  <2> QED
    BY <1>1, <1>2, <2>1, <2>2, <2>3 DEF IInv, Homes
<1>6. InUse'
  <2>1. Linked' = Linked \union {r} /\ r \notin Linked
    <3>1. ASSUME NEW q \in Readers
          PROVE  (of'[q] # None /\ q \in members'[of'[q]])
                   <=> (q = r \/ (of[q] # None /\ q \in members[of[q]]))
      <4>1. CASE q = r
        BY <1>1, <1>2, <1>3, <4>1, MapTypeFacts
      <4>2. CASE q # r
        <5>1. of'[q] = of[q] /\ of[q] \in Dispatchers \union {None}
          BY <1>3, <4>2, MapTypeFacts DEF IInv
        <5>2. CASE of[q] = None
          BY <4>2, <5>1, <5>2
        <5>3. CASE of[q] \in Dispatchers
          <6>1. q \in members'[of[q]] <=> q \in members[of[q]]
            BY <1>2, <4>2, <5>3
          <6>2. None # of[q]
            BY <5>3, MapTypeFacts DEF IInv
          <6> QED
            BY <4>2, <5>1, <6>1, <6>2
        <5> QED
          BY <5>1, <5>2, <5>3
      <4> QED
        BY <4>1, <4>2
    <3> QED
      BY <1>1, <3>1 DEF Linked
  <2>2. IsFiniteSet(Linked) /\ total = Cardinality(Linked)
    BY <1>1 DEF IInv, InUse
  <2>3. IsFiniteSet(Linked') /\ total' = Cardinality(Linked')
    <3>1. IsFiniteSet(Linked \union {r}) /\ Cardinality(Linked \union {r}) = Cardinality(Linked) + 1
      BY <2>1, <2>2, FS_AddElement
    <3> QED
      BY <1>1, <2>1, <2>2, <3>1
  <2>4. \A q \in held' : q \in members'[of'[q]]
    <3>1. ASSUME NEW q \in held, q # r PROVE q \in members'[of'[q]]
      <4>1. q \in Readers /\ of[q] \in Dispatchers /\ q \in members[of[q]]
        BY <1>1, MapTypeFacts DEF IInv, InUse, Homes
      <4> QED
        BY <1>2, <1>3, <3>1, <4>1
    <3> QED
      BY <1>1, <1>2, <1>3, <3>1
  <2> QED
    BY <1>2, <2>3, <2>4 DEF InUse
<1>7. Dropped'
  <2>1. ASSUME NEW q \in Pollers, NEW i \in DOMAIN queue[q], queue[q][i].op = "dealloc"
        PROVE  of'[queue[q][i].on] # None /\ queue[q][i].on \notin held'
    <3>1. queue[q][i].on \in Readers
      BY <2>1, TasksOf DEF IInv
    <3>2. of[queue[q][i].on] # None /\ queue[q][i].on \notin held
      BY <2>1 DEF IInv, Dropped
    <3> QED
      BY <1>1, <1>3, <3>1, <3>2
  <2>2. ASSUME NEW q \in Pollers, pc[q] \in {"locked", "callback"}
        PROVE  pin[q] # None /\ of'[pin[q]] # None
    <3>1. pin[q] \in Readers /\ of[pin[q]] # None
      BY <2>2, MapTypeFacts DEF IInv, Dropped
    <3> QED
      BY <1>1, <1>3, <3>1, MapTypeFacts
  <2> QED
    BY <1>1, <2>1, <2>2 DEF IInv, Dropped, pollerVars
<1> QED
  BY <1>4, <1>5, <1>6, <1>7 DEF IInv

LEMMA AttachElsewhereKeeps ==
  ASSUME IInv, NEW p \in Pollers, AttachElsewhere(p)
  PROVE  IInv'
<1>1. /\ ring = "alive" /\ dispatcher[p] = None /\ Unmade # {} /\ MakeDispatcher(p, Fresh, {})
      /\ UNCHANGED <<ring, log, storage, total, deleted, pollerVars, readerVars>>
      /\ {} \in SUBSET Readers
  BY DEF AttachElsewhere
<1>2. /\ dispatcher' \in [Pollers -> Dispatchers \union {None}]
      /\ home' \in [Dispatchers -> Pollers \union {None}]
      /\ members' \in [Dispatchers -> SUBSET Readers]
      /\ members'[Fresh] = {} /\ \A d \in Dispatchers \ {Fresh} : members'[d] = members[d]
      /\ \A q \in Pollers : dispatcher'[q] # None => home'[dispatcher'[q]] = q
      /\ \A d \in Dispatchers : home[d] # None => home'[d] # None
      /\ \A d \in Dispatchers : members'[d] # {} => dispatcher'[home'[d]] = d
  BY <1>1, MakeKeeps DEF IInv
<1>3. members[Fresh] = {} /\ Fresh \in Dispatchers
  BY <1>1, FreshFacts DEF IInv
<1>4. \A d \in Dispatchers : members'[d] = members[d]
  BY <1>2, <1>3
<1>5. MapTypes'
  BY <1>1, <1>2 DEF IInv, MapTypes, pollerVars, readerVars
<1>6. Homes'
  BY <1>1, <1>2, <1>4, MapTypeFacts DEF IInv, Homes, readerVars
<1>7. Linked' = Linked
  BY <1>1, <1>4, MapTypeFacts DEF Linked, readerVars, IInv
<1>8. InUse'
  <2>1. \A q \in held' : q \in members'[of'[q]]
    BY <1>1, <1>4, MapTypeFacts DEF IInv, InUse, Homes, readerVars
  <2> QED
    BY <1>1, <1>2, <1>7, <2>1 DEF IInv, InUse
<1>9. Dropped'
  BY <1>1 DEF IInv, Dropped, pollerVars, readerVars
<1> QED
  BY <1>5, <1>6, <1>8, <1>9 DEF IInv

(* The destructor of the ring buffer clears its map.                       *)
LEMMA DestroyKeeps ==
  ASSUME IInv, Destroy
  PROVE  IInv'
<1>1. /\ ring' = "gone" /\ dispatcher' = [p \in Pollers |-> None]
      /\ UNCHANGED <<log, storage, total, dispatcherVars, pollerVars, readerVars>>
  BY DEF Destroy
<1>2. MapTypes'
  BY <1>1 DEF IInv, MapTypes, dispatcherVars, pollerVars, readerVars
<1>3. Homes'
  BY <1>1 DEF IInv, Homes, dispatcherVars, readerVars
<1>4. Dropped'
  BY <1>1 DEF IInv, Dropped, pollerVars, readerVars
<1>5. InUse'
  BY <1>1 DEF InUse
<1> QED
  BY <1>2, <1>3, <1>4, <1>5 DEF IInv

(***************************************************************************)
(* Calls of a reader, and what changes nothing here.                       *)
(***************************************************************************)
LEMMA SetReadCBKeeps ==
  ASSUME IInv, NEW r \in Readers, SetReadCB(r)
  PROVE  IInv'
<1>1. UNCHANGED <<ringVars, dispatcherVars, pollerVars, of, held>>
  BY DEF SetReadCB
<1>2. MapTypes' /\ Dropped'
  BY <1>1 DEF IInv, MapTypes, Dropped, ringVars, dispatcherVars, pollerVars
<1>3. Homes' /\ InUse'
  BY <1>1, MapsKept DEF IInv, ringVars, dispatcherVars
<1> QED
  BY <1>2, <1>3 DEF IInv

LEMMA StutterKeeps ==
  ASSUME IInv, UNCHANGED vars
  PROVE  IInv'
<1>1. UNCHANGED <<ringVars, dispatcherVars, pollerVars, readerVars>>
  BY DEF vars
<1>2. MapTypes' /\ Dropped'
  BY <1>1 DEF IInv, MapTypes, Dropped, ringVars, dispatcherVars, pollerVars, readerVars
<1>3. Homes' /\ InUse'
  BY <1>1, MapsKept DEF IInv, ringVars, dispatcherVars, readerVars
<1> QED
  BY <1>2, <1>3 DEF IInv

(* The last reference outside goes: the loop may hold another, the deleter *)
(* may run here, or it is queued for the poller of the reader.             *)
LEMMA ReleaseKeeps ==
  ASSUME IInv, NEW x, NEW r \in Readers, Release(x, r)
  PROVE  IInv'
<1>1. /\ r \in held /\ held' = held \ {r} /\ r \notin held' /\ held' \subseteq held
      /\ UNCHANGED <<ring, log, storage, home, cache, deleted, pc, task, left, pin, of>>
  BY DEF Release
<1>2. of[r] # None /\ of[r] \in Dispatchers /\ home[of[r]] \in Pollers
  BY <1>1, MapTypeFacts DEF IInv, Homes
<1>3. CASE UNCHANGED <<queue, members, total, dispatcher>>
  <2>1. MapTypes'
    BY <1>1, <1>3, MapTypeFacts DEF IInv, MapTypes
  <2>2. Homes' /\ InUse'
    BY <1>1, <1>3, MapsKept DEF IInv
  <2>3. Dropped'
    BY <1>1, <1>3 DEF IInv, Dropped
  <2> QED
    BY <2>1, <2>2, <2>3 DEF IInv
<1>4. CASE Dealloc(r) /\ UNCHANGED queue
  <2>1. /\ Homes' /\ InUse' /\ total' \in Nat
        /\ members' \in [Dispatchers -> SUBSET Readers]
        /\ dispatcher' \in [Pollers -> Dispatchers \union {None}]
    BY <1>1, <1>2, <1>4, DeallocKeeps DEF IInv
  <2>2. MapTypes'
    BY <1>1, <1>4, <2>1, MapTypeFacts DEF IInv, MapTypes
  <2>3. Dropped'
    BY <1>1, <1>4 DEF IInv, Dropped
  <2> QED
    BY <2>1, <2>2, <2>3 DEF IInv
<1>5. CASE /\ queue' = [queue EXCEPT ![home[of[r]]] =
                          Append(@, [op |-> "dealloc", on |-> r, n |-> 0])]
           /\ UNCHANGED <<members, total, dispatcher>>
  <2> DEFINE h == home[of[r]]
             t == [op |-> "dealloc", on |-> r, n |-> 0]
  <2>1. t \in Task /\ t.op = "dealloc" /\ t.on = r
    BY DEF Task
  <2>2. h \in Pollers /\ queue' = [queue EXCEPT ![h] = Append(@, t)]
    BY <1>2, <1>5
  <2> HIDE DEF t, h
  <2>3. /\ queue'[h] = Append(queue[h], t) /\ \A p \in Pollers \ {h} : queue'[p] = queue[p]
        /\ queue[h] \in Seq(Task)
    BY <2>2, MapTypeFacts DEF IInv
  <2>4. /\ queue'[h] \in Seq(Task)
        /\ DOMAIN queue'[h] = DOMAIN queue[h] \union {Len(queue[h]) + 1}
        /\ \A i \in DOMAIN queue[h] : queue'[h][i] = queue[h][i]
        /\ queue'[h][Len(queue[h]) + 1] = t
    BY <2>1, <2>3, Appended
  <2>5. queue' \in [Pollers -> Seq(Task)]
    BY <2>2, <2>3, <2>4, MapTypeFacts DEF IInv
  <2>6. MapTypes'
    BY <1>1, <1>5, <2>5, MapTypeFacts DEF IInv, MapTypes
  <2>7. Homes' /\ InUse'
    BY <1>1, <1>5, MapsKept DEF IInv
  <2>8. ASSUME NEW p \in Pollers, NEW i \in DOMAIN queue'[p], queue'[p][i].op = "dealloc"
        PROVE  /\ queue'[p][i].on \in Readers
               /\ \/ \E j \in DOMAIN queue[p] : queue'[p][i] = queue[p][j]
                  \/ of[queue'[p][i].on] # None /\ queue'[p][i].on \notin held'
    <3>1. CASE p = h /\ i = Len(queue[h]) + 1
      BY <1>1, <1>2, <2>1, <2>4, <3>1
    <3>2. CASE ~(p = h /\ i = Len(queue[h]) + 1)
      <4>1. i \in DOMAIN queue[p] /\ queue'[p][i] = queue[p][i]
        BY <2>3, <2>4, <2>8, <3>2
      <4>2. queue[p][i].on \in Readers
        BY <2>8, <4>1, TasksOf DEF IInv
      <4> QED
        BY <4>1, <4>2
    <3> QED
      BY <3>1, <3>2
  <2>9. Dropped'
    BY <1>1, <2>8, DroppedKept, MapTypeFacts DEF IInv
  <2> QED
    BY <2>6, <2>7, <2>9 DEF IInv
<1> QED
  BY <1>3, <1>4, <1>5 DEF Release

(***************************************************************************)
(* The tasks of a poller.                                                  *)
(***************************************************************************)
LEMMA TakeKeeps ==
  ASSUME MapTypes, NEW p \in Pollers, NEW op, Take(p, op)
  PROVE  /\ Head(queue[p]) \in Task /\ Head(queue[p]).op = op
         /\ 1 \in DOMAIN queue[p] /\ queue[p][1] = Head(queue[p])
         /\ queue' \in [Pollers -> Seq(Task)]
         /\ \A q \in Pollers : \A i \in DOMAIN queue'[q] :
              /\ queue'[q][i] \in Task
              /\ \E j \in DOMAIN queue[q] : queue'[q][i] = queue[q][j]
<1>1. /\ queue[p] # <<>> /\ Head(queue[p]).op = op
      /\ queue' = [queue EXCEPT ![p] = Tail(@)]
  BY DEF Take
<1>2. /\ queue[p] \in Seq(Task) /\ queue'[p] = Tail(queue[p])
      /\ \A q \in Pollers \ {p} : queue'[q] = queue[q]
  BY <1>1, MapTypeFacts
<1>3. /\ 1 \in DOMAIN queue[p] /\ queue[p][1] = Head(queue[p]) /\ Head(queue[p]) \in Task
      /\ Tail(queue[p]) \in Seq(Task)
      /\ \A i \in DOMAIN Tail(queue[p]) :
           i + 1 \in DOMAIN queue[p] /\ Tail(queue[p])[i] = queue[p][i + 1]
  BY <1>1, <1>2, TailOf
<1>4. queue' \in [Pollers -> Seq(Task)]
  BY <1>1, <1>2, <1>3, MapTypeFacts
<1>5. ASSUME NEW q \in Pollers, NEW i \in DOMAIN queue'[q]
      PROVE  /\ queue'[q][i] \in Task
             /\ \E j \in DOMAIN queue[q] : queue'[q][i] = queue[q][j]
  <2>1. \E j \in DOMAIN queue[q] : queue'[q][i] = queue[q][j]
    <3>1. CASE q = p
      <4>1. i \in DOMAIN Tail(queue[p]) /\ queue'[q][i] = Tail(queue[p])[i]
        BY <1>2, <1>5, <3>1
      <4>2. i + 1 \in DOMAIN queue[q] /\ queue'[q][i] = queue[q][i + 1]
        BY <1>3, <3>1, <4>1
      <4> QED
        BY <4>2
    <3>2. CASE q # p
      BY <1>2, <1>5, <3>2
    <3> QED
      BY <3>1, <3>2
  <2> QED
    BY <2>1, TasksOf
<1> QED
  BY <1>1, <1>3, <1>4, <1>5

(* A task taken by the poller leaves a queue of which Dropped still holds. *)
LEMMA TakenDropped ==
  ASSUME MapTypes, Dropped, NEW p \in Pollers, NEW op, Take(p, op),
         UNCHANGED <<of, held, pin, pc, task>>
  PROVE  Dropped'
<1>1. \A q \in Pollers : \A i \in DOMAIN queue'[q] :
        queue'[q][i].op = "dealloc" =>
          /\ queue'[q][i].on \in Readers
          /\ \E j \in DOMAIN queue[q] : queue'[q][i] = queue[q][j]
  BY TakeKeeps, TasksOf
<1> QED
  BY <1>1, DroppedKept, MapTypeFacts

LEMMA BeginWriteKeeps ==
  ASSUME IInv, NEW p \in Pollers, BeginWrite(p)
  PROVE  IInv'
<1>1. /\ Take(p, "write") /\ task' = [task EXCEPT ![p] = Head(queue[p])]
      /\ pc' = [pc EXCEPT ![p] = "loop"]
      /\ UNCHANGED <<ringVars, dispatcherVars, pin, readerVars>>
  BY DEF BeginWrite
<1>2. /\ Head(queue[p]) \in Task /\ Head(queue[p]).op = "write"
      /\ queue' \in [Pollers -> Seq(Task)]
      /\ \A q \in Pollers : \A i \in DOMAIN queue'[q] :
           /\ queue'[q][i] \in Task
           /\ \E j \in DOMAIN queue[q] : queue'[q][i] = queue[q][j]
  BY <1>1, TakeKeeps DEF IInv
<1>3. /\ task' \in [Pollers -> Task \union {NoTask}]
      /\ pc' \in [Pollers -> {"idle", "loop", "locked", "callback"}]
      /\ pc'[p] = "loop" /\ task'[p].op = "write"
      /\ \A q \in Pollers \ {p} : pc'[q] = pc[q] /\ task'[q] = task[q]
  BY <1>1, <1>2, MapTypeFacts DEF IInv
<1>4. MapTypes'
  BY <1>1, <1>2, <1>3 DEF IInv, MapTypes, ringVars, dispatcherVars, readerVars
<1>5. Homes' /\ InUse'
  BY <1>1, MapsKept DEF IInv, ringVars, dispatcherVars, readerVars
<1>6. Dropped'
  <2>1. \A q \in Pollers : \A i \in DOMAIN queue'[q] :
          queue'[q][i].op = "dealloc" =>
            of[queue'[q][i].on] # None /\ queue'[q][i].on \notin held
    BY <1>2 DEF IInv, Dropped
  <2>2. \A q \in Pollers : pc'[q] \in {"locked", "callback"} =>
          pin[q] # None /\ of[pin[q]] # None
    BY <1>3 DEF IInv, Dropped
  <2>3. \A q \in Pollers : pc'[q] # "idle" => task'[q].op = "write"
    BY <1>3 DEF IInv, Dropped
  <2> QED
    BY <1>1, <2>1, <2>2, <2>3 DEF Dropped, readerVars
<1> QED
  BY <1>4, <1>5, <1>6 DEF IInv

LEMMA RunClearKeeps ==
  ASSUME IInv, NEW p \in Pollers, RunClear(p)
  PROVE  IInv'
<1>1. /\ Take(p, "clear")
      /\ UNCHANGED <<ringVars, home, members, deleted, pc, task, left, pin, readerVars>>
  BY DEF RunClear
<1>2. MapTypes'
  BY <1>1, TakeKeeps DEF IInv, MapTypes, ringVars, readerVars
<1>3. Homes' /\ InUse'
  BY <1>1, MapsKept DEF IInv, ringVars, readerVars
<1>4. Dropped'
  BY <1>1, TakenDropped DEF IInv, readerVars
<1> QED
  BY <1>2, <1>3, <1>4 DEF IInv

LEMMA RunDeallocKeeps ==
  ASSUME IInv, NEW p \in Pollers, RunDealloc(p)
  PROVE  IInv'
<1> DEFINE r == Head(queue[p]).on
<1>1. /\ Take(p, "dealloc") /\ Dealloc(r)
      /\ UNCHANGED <<ring, log, storage, home, cache, deleted, pc, task, left, pin, readerVars>>
  BY DEF RunDealloc
<1>2. r \in Readers /\ of[r] # None /\ r \notin held
  BY <1>1, TakeKeeps, TasksOf DEF IInv, Dropped
<1> HIDE DEF r
<1>3. /\ Homes' /\ InUse' /\ total' \in Nat
      /\ members' \in [Dispatchers -> SUBSET Readers]
      /\ dispatcher' \in [Pollers -> Dispatchers \union {None}]
  BY <1>1, <1>2, DeallocKeeps DEF IInv, readerVars
<1>4. MapTypes'
  BY <1>1, <1>3, TakeKeeps DEF IInv, MapTypes, readerVars
<1>5. Dropped'
  BY <1>1, TakenDropped DEF IInv, readerVars
<1> QED
  BY <1>3, <1>4, <1>5 DEF IInv

(* The loop locks a reader, or erases one that is gone.                    *)
LEMMA VisitKeeps ==
  ASSUME IInv, NEW p \in Pollers, NEW r \in Readers, Visit(p, r)
  PROVE  IInv'
<1>1. /\ pc[p] = "loop" /\ r \in members[task[p].on]
      /\ UNCHANGED <<ring, log, storage, home, cache, deleted, queue, task, of, held>>
  BY DEF Visit, Unvisited, readerVars
<1>2. task[p].op = "write" /\ task[p].on \in Dispatchers
  <2>1. task[p].op = "write"
    BY <1>1 DEF IInv, Dropped
  <2>2. task[p] \in Task
    BY <2>1, MapTypeFacts DEF IInv, NoTask
  <2> QED
    BY <2>1, <2>2, TasksOf DEF IInv
<1>3. CASE r \in held
  <2>1. /\ pin' = [pin EXCEPT ![p] = r] /\ pc' = [pc EXCEPT ![p] = "locked"]
        /\ UNCHANGED <<members, total, dispatcher>>
    BY <1>3 DEF Visit
  <2>2. /\ pin' \in [Pollers -> Readers \union {None}] /\ pin'[p] = r
        /\ pc' \in [Pollers -> {"idle", "loop", "locked", "callback"}]
        /\ \A q \in Pollers \ {p} : pin'[q] = pin[q] /\ pc'[q] = pc[q]
    BY <2>1, MapTypeFacts DEF IInv
  <2>3. MapTypes'
    BY <1>1, <2>1, <2>2, MapTypeFacts DEF IInv, MapTypes
  <2>4. Homes' /\ InUse'
    BY <1>1, <2>1, MapsKept DEF IInv
  <2>5. Dropped'
    <3>1. \A q \in Pollers : pc'[q] \in {"locked", "callback"} =>
            pin'[q] # None /\ of[pin'[q]] # None
      BY <1>3, <2>2, MapTypeFacts DEF IInv, Dropped, Homes
    <3>2. \A q \in Pollers : pc'[q] # "idle" => task[q].op = "write"
      BY <1>2, <2>2 DEF IInv, Dropped
    <3> QED
      BY <1>1, <3>1, <3>2 DEF IInv, Dropped
  <2> QED
    BY <2>3, <2>4, <2>5 DEF IInv
<1>4. CASE r \notin held
  <2>1. Unlink(task[p].on, r) /\ UNCHANGED <<pin, pc>>
    BY <1>4 DEF Visit
  <2>2. /\ Homes' /\ InUse' /\ total' \in Nat
        /\ members' \in [Dispatchers -> SUBSET Readers]
        /\ dispatcher' \in [Pollers -> Dispatchers \union {None}]
    BY <1>1, <1>2, <1>4, <2>1, UnlinkKeeps DEF IInv
  <2>3. MapTypes'
    BY <1>1, <2>1, <2>2, MapTypeFacts DEF IInv, MapTypes
  <2>4. Dropped'
    BY <1>1, <2>1 DEF IInv, Dropped
  <2> QED
    BY <2>2, <2>3, <2>4 DEF IInv
<1> QED
  BY <1>3, <1>4

LEMMA OnReadKeeps ==
  ASSUME IInv, NEW p \in Pollers, OnRead(p)
  PROVE  IInv'
<1>1. /\ pc[p] = "locked" /\ pc' = [pc EXCEPT ![p] = "callback"]
      /\ UNCHANGED <<ringVars, dispatcherVars, queue, task, left, pin, of, held>>
  BY DEF OnRead
<1>2. /\ pc' \in [Pollers -> {"idle", "loop", "locked", "callback"}] /\ pc'[p] = "callback"
      /\ \A q \in Pollers \ {p} : pc'[q] = pc[q]
  BY <1>1, MapTypeFacts DEF IInv
<1>3. MapTypes'
  BY <1>1, <1>2 DEF IInv, MapTypes, ringVars, dispatcherVars
<1>4. Homes' /\ InUse'
  BY <1>1, MapsKept DEF IInv, ringVars, dispatcherVars
<1>5. Dropped'
  BY <1>1, <1>2 DEF IInv, Dropped
<1> QED
  BY <1>3, <1>4, <1>5 DEF IInv

(* The loop lets go of a reader; if nobody else holds it, its deleter runs. *)
LEMMA OnReadReturnsKeeps ==
  ASSUME IInv, NEW p \in Pollers, OnReadReturns(p)
  PROVE  IInv'
<1> DEFINE r == pin[p]
<1>1. /\ pc[p] = "callback" /\ pc' = [pc EXCEPT ![p] = "loop"]
      /\ pin' = [pin EXCEPT ![p] = None]
      /\ UNCHANGED <<ring, log, storage, home, cache, deleted, queue, task, left, of, held>>
  BY DEF OnReadReturns
<1>2. /\ pc' \in [Pollers -> {"idle", "loop", "locked", "callback"}] /\ pc'[p] = "loop"
      /\ pin' \in [Pollers -> Readers \union {None}]
      /\ \A q \in Pollers \ {p} : pin'[q] = pin[q] /\ pc'[q] = pc[q]
  BY <1>1, MapTypeFacts DEF IInv
<1>3. Dropped'
  <2>1. \A q \in Pollers : pc'[q] \in {"locked", "callback"} =>
          pin'[q] # None /\ of[pin'[q]] # None
    BY <1>2 DEF IInv, Dropped
  <2>2. \A q \in Pollers : pc'[q] # "idle" => task[q].op = "write"
    BY <1>1, <1>2 DEF IInv, Dropped
  <2> QED
    BY <1>1, <2>1, <2>2 DEF IInv, Dropped
<1>4. r \in Readers /\ of[r] # None
  BY <1>1, MapTypeFacts DEF IInv, Dropped
<1>5. CASE r \in held
  <2>1. UNCHANGED <<members, total, dispatcher>>
    BY <1>5 DEF OnReadReturns
  <2>2. MapTypes'
    BY <1>1, <1>2, <2>1, MapTypeFacts DEF IInv, MapTypes
  <2>3. Homes' /\ InUse'
    BY <1>1, <2>1, MapsKept DEF IInv
  <2> QED
    BY <1>3, <2>2, <2>3 DEF IInv
<1>6. CASE r \notin held
  <2>1. Dealloc(r)
    BY <1>6 DEF OnReadReturns
  <2> HIDE DEF r
  <2>2. /\ Homes' /\ InUse' /\ total' \in Nat
        /\ members' \in [Dispatchers -> SUBSET Readers]
        /\ dispatcher' \in [Pollers -> Dispatchers \union {None}]
    BY <1>1, <1>4, <1>6, <2>1, DeallocKeeps DEF IInv
  <2>3. MapTypes'
    BY <1>1, <1>2, <2>2, MapTypeFacts DEF IInv, MapTypes
  <2> QED
    BY <1>3, <2>2, <2>3 DEF IInv
<1> QED
  BY <1>5, <1>6

LEMMA EndWriteKeeps ==
  ASSUME IInv, NEW p \in Pollers, EndWrite(p)
  PROVE  IInv'
<1>1. /\ pc' = [pc EXCEPT ![p] = "idle"] /\ task' = [task EXCEPT ![p] = NoTask]
      /\ UNCHANGED <<ringVars, home, members, deleted, queue, pin, readerVars>>
  BY DEF EndWrite
<1>2. /\ pc' \in [Pollers -> {"idle", "loop", "locked", "callback"}] /\ pc'[p] = "idle"
      /\ task' \in [Pollers -> Task \union {NoTask}]
      /\ \A q \in Pollers \ {p} : pc'[q] = pc[q] /\ task'[q] = task[q]
  BY <1>1, MapTypeFacts DEF IInv
<1>3. MapTypes'
  BY <1>1, <1>2 DEF IInv, MapTypes, ringVars, readerVars
<1>4. Homes' /\ InUse'
  BY <1>1, MapsKept DEF IInv, ringVars, readerVars
<1>5. Dropped'
  <2>1. \A q \in Pollers : pc'[q] \in {"locked", "callback"} =>
          pin[q] # None /\ of[pin[q]] # None
    BY <1>2 DEF IInv, Dropped
  <2>2. \A q \in Pollers : pc'[q] # "idle" => task'[q].op = "write"
    BY <1>2 DEF IInv, Dropped
  <2> QED
    BY <1>1, <2>1, <2>2 DEF IInv, Dropped, readerVars
<1> QED
  BY <1>3, <1>4, <1>5 DEF IInv

(* Dispatchers go only after the ring did: their readers are not counted.  *)
LEMMA DeleteDispatcherKeeps ==
  ASSUME IInv, NEW d \in Dispatchers, DeleteDispatcher(d)
  PROVE  IInv'
<1>1. /\ ring = "gone" /\ deleted' = deleted \union {d}
      /\ members' = [members EXCEPT ![d] = {}]
      /\ UNCHANGED <<ringVars, home, cache, pollerVars, of, held>>
  BY DEF DeleteDispatcher
<1>2. /\ members' \in [Dispatchers -> SUBSET Readers]
      /\ \A e \in Dispatchers : members'[e] \subseteq members[e]
  BY <1>1, MapTypeFacts DEF IInv
<1>3. MapTypes'
  BY <1>1, <1>2 DEF IInv, MapTypes, ringVars, pollerVars
<1>4. Homes'
  BY <1>1, <1>2 DEF IInv, Homes, ringVars
<1>5. Dropped'
  BY <1>1 DEF IInv, Dropped, pollerVars
<1>6. InUse'
  BY <1>1 DEF InUse, ringVars
<1> QED
  BY <1>3, <1>4, <1>5, <1>6 DEF IInv

LEMMA Initial == Init => IInv
<1> SUFFICES ASSUME Init PROVE IInv
  OBVIOUS
<1>1. MapTypes
  BY DEF Init, MapTypes
<1>2. Homes
  BY DEF Init, Homes
<1>3. Dropped
  BY DEF Init, Dropped
<1>4. Linked = {}
  BY DEF Init, Linked
<1>5. InUse
  BY <1>4, FS_EmptySet DEF Init, InUse
<1> QED
  BY <1>1, <1>2, <1>3, <1>5 DEF IInv

(* The invariant holds of every state: what a dispatcher and a reader are  *)
(* to each other, to the map of dispatchers, to the count of readers and   *)
(* to the tasks that will erase a reader (RingBuffer.h 55-133, 237-274,    *)
(* 326-362, 405-425).                                                      *)
THEOREM Invariance == Spec => []IInv
<1>1. IInv /\ [Next]_vars => IInv'
  <2> SUFFICES ASSUME IInv, [Next]_vars PROVE IInv'
    OBVIOUS
  <2>1. ASSUME NEW k \in BOOLEAN, Write(k) PROVE IInv'
    BY <2>1, WriteKeeps
  <2>2. CASE ClearAll
    <3>1. TRUE \in BOOLEAN
      OBVIOUS
    <3> QED
      BY <2>2, <3>1, WriteKeeps
  <2>3. CASE Destroy
    BY <2>3, DestroyKeeps
  <2>4. ASSUME NEW p \in Pollers, NEW r \in Readers, Attach(p, r) PROVE IInv'
    BY <2>4, AttachKeeps
  <2>5. ASSUME NEW p \in Pollers, AttachElsewhere(p) PROVE IInv'
    BY <2>5, AttachElsewhereKeeps
  <2>6. ASSUME NEW r \in Readers, SetReadCB(r) PROVE IInv'
    BY <2>6, SetReadCBKeeps
  <2>7. ASSUME NEW x \in Pollers \union {Elsewhere}, NEW r \in Readers, Release(x, r)
        PROVE  IInv'
    BY <2>7, ReleaseKeeps
  <2>8. ASSUME NEW p \in Pollers, PollerStep(p) PROVE IInv'
    <3>1. ASSUME NEW r \in Readers, Visit(p, r) PROVE IInv'
      BY <3>1, VisitKeeps
    <3>2. ASSUME NEW d \in Dispatchers, DeleteDispatcher(d) PROVE IInv'
      BY <3>2, DeleteDispatcherKeeps
    <3> QED
      BY <2>8, <3>1, <3>2, BeginWriteKeeps, RunClearKeeps, RunDeallocKeeps, OnReadKeeps,
         OnReadReturnsKeeps, EndWriteKeeps DEF PollerStep
  <2>9. CASE UNCHANGED vars
    BY <2>9, StutterKeeps
  <2> QED
    BY <2>1, <2>2, <2>3, <2>4, <2>5, <2>6, <2>7, <2>8, <2>9 DEF Next, Quiet
<1> QED
  BY <1>1, Initial, PTL DEF Spec

(* A dispatcher that has a reader in use is the one packets are sent to,   *)
(* and readerCount() is the number of readers in the maps in use, whoever  *)
(* erases a reader, the loop of write (88-91) or the deleter (237-247),    *)
(* and on whatever thread it was dropped.                                  *)
THEOREM MapsAreSound == Spec => []MapsSound
<1>1. IInv => MapsSound
  <2> SUFFICES ASSUME IInv PROVE MapsSound
    OBVIOUS
  <2>1. ReadersServed
    <3> SUFFICES ASSUME ring = "alive", NEW r \in held
                 PROVE  r \in members[of[r]] /\ dispatcher[home[of[r]]] = of[r]
      BY DEF ReadersServed
    <3>1. of[r] \in Dispatchers /\ r \in members[of[r]]
      BY MapTypeFacts DEF IInv, InUse, Homes
    <3> QED
      BY <3>1 DEF IInv, InUse
  <2>2. CountsMatch
    <3> SUFFICES ASSUME ring = "alive"
                 PROVE  total = Cardinality({r \in Readers : \E p \in Pollers :
                           dispatcher[p] # None /\ r \in members[dispatcher[p]]})
      BY DEF CountsMatch
    <3>1. ASSUME NEW r \in Readers
          PROVE  (\E p \in Pollers : dispatcher[p] # None /\ r \in members[dispatcher[p]])
                   <=> (of[r] # None /\ r \in members[of[r]])
      <4>1. ASSUME NEW p \in Pollers, dispatcher[p] # None, r \in members[dispatcher[p]]
            PROVE  of[r] # None /\ r \in members[of[r]]
        <5>1. dispatcher[p] \in Dispatchers
          BY <4>1, MapTypeFacts DEF IInv
        <5>2. of[r] = dispatcher[p]
          BY <4>1, <5>1 DEF IInv, Homes
        <5> QED
          BY <4>1, <5>2
      <4>2. ASSUME of[r] # None, r \in members[of[r]]
            PROVE  \E p \in Pollers : dispatcher[p] # None /\ r \in members[dispatcher[p]]
        <5>1. of[r] \in Dispatchers /\ home[of[r]] \in Pollers
          BY <4>2, MapTypeFacts DEF IInv, Homes
        <5>2. dispatcher[home[of[r]]] = of[r]
          BY <4>2, <5>1 DEF IInv, InUse
        <5> QED
          BY <4>2, <5>1, <5>2
      <4> QED
        BY <4>1, <4>2
    <3>2. {r \in Readers : \E p \in Pollers :
             dispatcher[p] # None /\ r \in members[dispatcher[p]]} = Linked
      BY <3>1 DEF Linked
    <3> QED
      BY <3>2 DEF IInv, InUse
  <2> QED
    BY <2>1, <2>2 DEF MapsSound
<1> QED
  BY <1>1, Invariance, PTL

(***************************************************************************)
(* The cache of packet groups.                                             *)
(***************************************************************************)
Numbers == 1 .. MaxLog
Groups == Seq(Seq(Numbers))

(* Groups of consecutive packets, the last of which is n.                  *)
Runs(g, n) ==
  /\ Len(g) > 0
  /\ \A k \in DOMAIN g :
       Len(g[k]) > 0 /\ \A i \in DOMAIN g[k] : g[k][i] = g[k][1] + i - 1
  /\ \A k \in DOMAIN g : k + 1 \in DOMAIN g => g[k + 1][1] = g[k][1] + Len(g[k])
  /\ g[Len(g)][1] + Len(g[Len(g)]) = n + 1

LEMMA GroupTypes ==
  ASSUME NEW g \in Groups
  PROVE  /\ Len(g) \in Nat /\ DOMAIN g = 1 .. Len(g)
         /\ \A k \in DOMAIN g : /\ g[k] \in Seq(Numbers) /\ Len(g[k]) \in Nat
                                /\ DOMAIN g[k] = 1 .. Len(g[k])
                                /\ \A i \in DOMAIN g[k] : g[k][i] \in Numbers
<1>1. Len(g) \in Nat /\ DOMAIN g = 1 .. Len(g)
  BY LenProperties DEF Groups
<1>2. \A k \in DOMAIN g : g[k] \in Seq(Numbers)
  BY <1>1, ElementOfSeq DEF Groups
<1>3. \A k \in DOMAIN g : Len(g[k]) \in Nat /\ DOMAIN g[k] = 1 .. Len(g[k])
  BY <1>2, LenProperties
<1>4. \A k \in DOMAIN g : \A i \in DOMAIN g[k] : g[k][i] \in Numbers
  BY <1>2, <1>3, ElementOfSeq
<1> QED
  BY <1>1, <1>2, <1>3, <1>4

(* What is true of some number is true of a smallest one.                  *)
LEMMA Smallest ==
  ASSUME NEW T, T \subseteq Nat, T # {}
  PROVE  \E m \in T : m \in Nat /\ \A k \in Nat : k < m => k \notin T
<1>1. \E m \in T : \A k \in T : <<k, m>> \notin OpToRel(<, Nat)
  BY WFMin, NatLessThanWellFounded, Zenon
<1>2. PICK m \in T : \A k \in T : <<k, m>> \notin OpToRel(<, Nat)
  BY <1>1
<1>3. m \in Nat
  BY <1>2
<1>4. \A k \in Nat : k < m => <<k, m>> \in OpToRel(<, Nat)
  BY <1>3, Zenon DEF OpToRel
<1>5. \A k \in Nat : k < m => k \notin T
  BY <1>2, <1>4
<1> QED
  BY <1>2, <1>3, <1>5

(* FlattenSeq is what its recursion says, if that has a solution at all:   *)
(* at a smallest number where the two differed they could not.             *)
LEMMA FlattenIs ==
  ASSUME NEW s, NEW F, Len(s) \in Nat, Len(s) # 0,
         F = [i \in 1 .. Len(s) |-> IF i = 1 THEN s[i] ELSE F[i - 1] \o s[i]]
  PROVE  FlattenSeq(s) = F[Len(s)]
<1> DEFINE n == Len(s)
           Eq(f) == f = [i \in 1 .. n |-> IF i = 1 THEN s[i] ELSE f[i - 1] \o s[i]]
           G == CHOOSE f : Eq(f)
           T == {i \in Nat : i \in 1 .. n /\ G[i] # F[i]}
<1>1. FlattenSeq(s) = G[n]
  BY DEF FlattenSeq
<1>2. Eq(G)
  BY DEF FlattenSeq
<1>3. \A i \in 1 .. n : G[i] = IF i = 1 THEN s[i] ELSE G[i - 1] \o s[i]
  BY <1>2
<1>4. \A i \in 1 .. n : F[i] = IF i = 1 THEN s[i] ELSE F[i - 1] \o s[i]
  OBVIOUS
<1> HIDE DEF G
<1>5. T = {}
  <2> SUFFICES ASSUME T # {} PROVE FALSE
    OBVIOUS
  <2>1. T \subseteq Nat
    OBVIOUS
  <2>2. \E m \in T : m \in Nat /\ \A k \in Nat : k < m => k \notin T
    <3> HIDE DEF T
    <3> QED
      BY <2>1, Smallest
  <2>3. PICK m \in T : m \in Nat /\ \A k \in Nat : k < m => k \notin T
    BY <2>2
  <2>4. m \in 1 .. n /\ G[m] # F[m] /\ n \in Nat
    BY <2>3
  <2>5. \A k \in Nat : k < m /\ k \in 1 .. n => G[k] = F[k]
    BY <2>3
  <2> HIDE DEF n, T
  <2>6. m # 1
    BY <1>3, <1>4, <2>4
  <2>7. m - 1 \in 1 .. n /\ m - 1 \in Nat /\ m - 1 < m
    BY <2>4, <2>6
  <2>8. G[m - 1] = F[m - 1]
    BY <2>5, <2>7
  <2> QED
    BY <1>3, <1>4, <2>4, <2>6, <2>8
<1>6. n \in 1 .. n
  OBVIOUS
<1>7. G[n] = F[n]
  BY <1>5, <1>6
<1> QED
  BY <1>1, <1>7

(* What flushGop passes on is the run itself.                              *)
LEMMA RunsFlatten ==
  ASSUME NEW g \in Groups, NEW n \in Nat, Runs(g, n)
  PROVE  /\ FlattenSeq(g) = [k \in 1 .. n + 1 - g[1][1] |-> g[1][1] + k - 1]
         /\ g[1][1] \in Numbers /\ g[1][1] <= n
<1> DEFINE a == g[1][1]
           last(i) == g[i][1] + Len(g[i]) - 1
           F == [i \in 1 .. Len(g) |-> [k \in 1 .. last(i) + 1 - a |-> a + k - 1]]
<1>1. /\ Len(g) \in Nat /\ Len(g) > 0 /\ DOMAIN g = 1 .. Len(g)
      /\ \A k \in DOMAIN g : Len(g[k]) \in Nat /\ Len(g[k]) > 0 /\ DOMAIN g[k] = 1 .. Len(g[k])
      /\ \A k \in DOMAIN g : g[k][1] \in Numbers /\ g[k] \in Seq(Numbers)
  BY GroupTypes DEF Runs
<1>2. a \in Numbers /\ a \in Nat /\ a > 0
  BY <1>1, ConstantsAssumption DEF Numbers
<1>3. \A i \in DOMAIN g : g[i][1] \in Nat /\ last(i) \in Nat
  BY <1>1, ConstantsAssumption DEF Numbers
<1>4. ASSUME NEW i \in 1 .. Len(g), i # 1
      PROVE  i - 1 \in 1 .. Len(g) /\ g[i][1] = last(i - 1) + 1
  <2>1. i - 1 \in DOMAIN g /\ (i - 1) + 1 = i
    BY <1>1, <1>4
  <2>2. g[i][1] = g[i - 1][1] + Len(g[i - 1])
    BY <1>1, <2>1 DEF Runs
  <2>3. g[i - 1][1] \in Nat /\ Len(g[i - 1]) \in Nat
    BY <1>1, <1>3, <2>1
  <2>4. last(i - 1) = g[i - 1][1] + Len(g[i - 1]) - 1
    OBVIOUS
  <2>5. last(i - 1) + 1 = g[i - 1][1] + Len(g[i - 1])
    <3> HIDE DEF last
    <3> QED
      BY <2>3, <2>4
  <2> QED
    BY <1>1, <2>1, <2>2, <2>5
<1> HIDE DEF a
<1>5. \A i \in 1 .. Len(g) : a <= last(i)
  <2> DEFINE T == {i \in Nat : i \in 1 .. Len(g) /\ ~(a <= last(i))}
  <2> SUFFICES ASSUME T # {} PROVE FALSE
    BY <1>1
  <2>1. T \subseteq Nat
    OBVIOUS
  <2>2. \E m \in T : m \in Nat /\ \A k \in Nat : k < m => k \notin T
    <3> HIDE DEF T
    <3> QED
      BY <2>1, Smallest
  <2>3. PICK m \in T : m \in Nat /\ \A k \in Nat : k < m => k \notin T
    BY <2>2
  <2>4. m \in 1 .. Len(g) /\ ~(a <= last(m))
    BY <2>3
  <2>5. \A k \in Nat : k < m /\ k \in 1 .. Len(g) => a <= last(k)
    BY <2>3
  <2>6. m # 1
    <3>1. g[1][1] <= last(1)
      <4> DEFINE x == g[1][1]
                 w == Len(g[1])
      <4>1. x \in Nat /\ w \in Nat /\ w > 0 /\ last(1) = x + w - 1
        BY <1>1, <1>3
      <4> HIDE DEF x, w, last
      <4>2. x <= last(1)
        BY <4>1
      <4> QED
        BY <4>2 DEF x
    <3> QED
      BY <2>4, <3>1 DEF a
  <2>7. m - 1 \in 1 .. Len(g) /\ g[m][1] = last(m - 1) + 1
    BY <1>4, <2>4, <2>6
  <2>8. a <= last(m - 1)
    BY <2>3, <2>5, <2>7
  <2>9. g[m][1] \in Nat /\ last(m) \in Nat /\ last(m - 1) \in Nat /\ g[m][1] <= last(m)
    <3>1. m \in DOMAIN g /\ m - 1 \in DOMAIN g
      BY <1>1, <2>4, <2>7
    <3>2. g[m][1] \in Nat /\ last(m) \in Nat /\ last(m - 1) \in Nat
      <4> HIDE DEF last
      <4> QED
        BY <1>3, <3>1
    <3>3. Len(g[m]) \in Nat /\ Len(g[m]) > 0
      BY <1>1, <3>1
    <3>4. last(m) = g[m][1] + Len(g[m]) - 1
      OBVIOUS
    <3> HIDE DEF last
    <3> QED
      BY <3>2, <3>3, <3>4
  <2> HIDE DEF last, T
  <2> QED
    BY <1>2, <2>4, <2>7, <2>8, <2>9
<1>6. F = [i \in 1 .. Len(g) |-> IF i = 1 THEN g[i] ELSE F[i - 1] \o g[i]]
  <2>1. ASSUME NEW i \in 1 .. Len(g), i = 1 PROVE F[i] = g[i]
    <3>1. last(1) + 1 - a = Len(g[1])
      BY <1>1, <1>2, <1>3 DEF a
    <3>2. F[1] = [k \in 1 .. Len(g[1]) |-> a + k - 1]
      <4>1. 1 \in 1 .. Len(g)
        BY <1>1
      <4>2. F[1] = [k \in 1 .. last(1) + 1 - a |-> a + k - 1]
        BY <4>1
      <4> HIDE DEF F, last
      <4> QED
        BY <3>1, <4>2
    <3>3. \A k \in 1 .. Len(g[1]) : g[1][k] = a + k - 1
      BY <1>1 DEF Runs, a
    <3>4. g[1] = [k \in 1 .. Len(g[1]) |-> g[1][k]]
      BY <1>1
    <3> QED
      BY <2>1, <3>2, <3>3, <3>4
  <2>2. ASSUME NEW i \in 1 .. Len(g), i # 1 PROVE F[i] = F[i - 1] \o g[i]
    <3> DEFINE p == F[i - 1]
               l == last(i - 1) + 1 - a
    <3>1. i - 1 \in 1 .. Len(g) /\ g[i][1] = last(i - 1) + 1 /\ l \in Nat
      <4>1. i - 1 \in 1 .. Len(g) /\ g[i][1] = last(i - 1) + 1
        BY <1>4, <2>2
      <4>2. a <= last(i - 1) /\ last(i - 1) \in Nat
        BY <1>1, <1>3, <1>5, <4>1
      <4> HIDE DEF last
      <4> QED
        BY <1>2, <4>1, <4>2
    <3>2. p = [k \in 1 .. l |-> a + k - 1]
      BY <3>1
    <3>3. last(i) + 1 - a = l + Len(g[i])
      <4>1. last(i) = g[i][1] + Len(g[i]) - 1 /\ l = last(i - 1) + 1 - a
        OBVIOUS
      <4>2. /\ Len(g[i]) \in Nat /\ g[i][1] \in Nat /\ last(i - 1) \in Nat
            /\ g[i][1] = last(i - 1) + 1
        <5>1. i \in DOMAIN g /\ i - 1 \in DOMAIN g
          BY <1>1, <3>1
        <5> HIDE DEF last
        <5> QED
          BY <1>1, <1>3, <3>1, <5>1
      <4> DEFINE x == last(i - 1)
                 w == Len(g[i])
      <4>3. /\ x \in Nat /\ w \in Nat /\ last(i) = (x + 1) + w - 1 /\ l = x + 1 - a
            /\ a \in Nat
        <5> HIDE DEF last, l
        <5> QED
          BY <1>2, <4>1, <4>2
      <4> HIDE DEF last, l, x, w
      <4>4. last(i) + 1 - a = l + w
        BY <4>3
      <4> QED
        BY <4>4 DEF w
    <3>4. F[i] = [k \in 1 .. l + Len(g[i]) |-> a + k - 1]
      BY <3>3
    <3>5. \A j \in 1 .. Len(g[i]) : g[i][j] = a + (l + j) - 1
      <4>1. \A j \in 1 .. Len(g[i]) : g[i][j] = g[i][1] + j - 1
        BY <1>1 DEF Runs
      <4>2. g[i][1] = a + l /\ a + l \in Nat
        <5>1. last(i - 1) \in Nat
          BY <1>1, <1>3, <3>1
        <5> HIDE DEF last
        <5> QED
          BY <1>2, <3>1, <5>1
      <4> HIDE DEF l
      <4> QED
        BY <1>2, <3>1, <4>1, <4>2
    <3> HIDE DEF p, l, F
    <3>6. p \in Seq(Nat) /\ Len(p) = l
      BY <1>2, <3>1, <3>2
    <3>7. g[i] \in Seq(Nat) /\ Len(g[i]) \in Nat
      <4>1. \A k \in 1 .. Len(g[i]) : g[i][k] \in Nat
        BY <1>1, ElementOfSeq, ConstantsAssumption DEF Numbers
      <4> QED
        BY <1>1, <4>1
    <3>8. /\ p \o g[i] \in Seq(Nat) /\ Len(p \o g[i]) = l + Len(g[i])
          /\ \A k \in 1 .. l + Len(g[i]) : (p \o g[i])[k] = IF k <= l THEN p[k] ELSE g[i][k - l]
      <4>1. /\ p \o g[i] \in Seq(Nat) /\ Len(p \o g[i]) = Len(p) + Len(g[i])
            /\ \A k \in 1 .. Len(p) + Len(g[i]) :
                 (p \o g[i])[k] = IF k <= Len(p) THEN p[k] ELSE g[i][k - Len(p)]
        BY <3>6, <3>7, ConcatProperties, ZenonT(30)
      <4> QED
        BY <3>6, <4>1
    <3>9. \A k \in 1 .. l + Len(g[i]) : (p \o g[i])[k] = a + k - 1
      <4> SUFFICES ASSUME NEW k \in 1 .. l + Len(g[i]) PROVE (p \o g[i])[k] = a + k - 1
        OBVIOUS
      <4>1. CASE k <= l
        BY <3>1, <3>2, <3>7, <3>8, <4>1
      <4>2. CASE ~(k <= l)
        <5>1. k - l \in 1 .. Len(g[i]) /\ l + (k - l) = k
          BY <3>1, <3>7, <4>2
        <5> QED
          BY <3>5, <3>8, <4>2, <5>1
      <4> QED
        BY <4>1, <4>2
    <3>10. p \o g[i] = [k \in 1 .. l + Len(g[i]) |-> (p \o g[i])[k]]
      BY <3>8
    <3> QED
      BY <3>4, <3>9, <3>10 DEF p
  <2> HIDE DEF F
  <2>3. F = [i \in 1 .. Len(g) |-> F[i]]
    BY DEF F
  <2> QED
    BY <2>1, <2>2, <2>3
<1>7. FlattenSeq(g) = F[Len(g)]
  <2> HIDE DEF F
  <2>1. Len(g) # 0
    BY <1>1
  <2> QED
    BY <1>1, <1>6, <2>1, FlattenIs
<1>8. last(Len(g)) = n
  <2>1. Len(g) \in DOMAIN g
    BY <1>1
  <2>2. g[Len(g)][1] + Len(g[Len(g)]) = n + 1
    BY DEF Runs
  <2>3. g[Len(g)][1] \in Nat /\ Len(g[Len(g)]) \in Nat
    BY <1>1, <1>3, <2>1
  <2> QED
    BY <2>2, <2>3
<1>9. a <= n /\ Len(g) \in 1 .. Len(g)
  BY <1>1, <1>5, <1>8
<1>10. F[Len(g)] = [k \in 1 .. n + 1 - a |-> a + k - 1]
  BY <1>8, <1>9
<1> QED
  BY <1>2, <1>7, <1>9, <1>10 DEF a

(* The shapes that a write gives the groups.                               *)
LEMMA OneOf ==
  ASSUME NEW S, NEW x \in S
  PROVE  <<x>> \in Seq(S) /\ Len(<<x>>) = 1 /\ DOMAIN <<x>> = {1} /\ <<x>>[1] = x
  OBVIOUS

LEMMA RunsSingle ==
  ASSUME NEW n \in Numbers
  PROVE  <<<<n>>>> \in Groups /\ Runs(<<<<n>>>>, n)
<1>1. <<n>> \in Seq(Numbers) /\ Len(<<n>>) = 1 /\ DOMAIN <<n>> = {1} /\ <<n>>[1] = n
  BY OneOf
<1> DEFINE x == <<n>>
<1> HIDE DEF x
<1>2. <<x>> \in Groups /\ Len(<<x>>) = 1 /\ DOMAIN <<x>> = {1} /\ <<x>>[1] = x
  BY <1>1, OneOf DEF Groups, x
<1>3. n \in Nat
  BY DEF Numbers
<1>4. x[1] = n /\ Len(x) = 1 /\ DOMAIN x = {1}
  BY <1>1 DEF x
<1> DEFINE h == <<x>>
<1>5. h \in Groups /\ Len(h) = 1 /\ DOMAIN h = {1} /\ h[1] = x
  BY <1>2
<1> HIDE DEF h
<1>6. \A k \in DOMAIN h :
        Len(h[k]) > 0 /\ \A i \in DOMAIN h[k] : h[k][i] = h[k][1] + i - 1
  BY <1>3, <1>4, <1>5
<1>7. \A k \in DOMAIN h : k + 1 \notin DOMAIN h
  BY <1>5
<1>8. h[Len(h)][1] + Len(h[Len(h)]) = n + 1
  BY <1>4, <1>5
<1>9. Runs(h, n)
  BY <1>5, <1>6, <1>7, <1>8 DEF Runs
<1> QED
  BY <1>2, <1>9 DEF x, h

LEMMA RunsAppend ==
  ASSUME NEW g \in Groups, NEW n \in Nat, Runs(g, n), n + 1 \in Numbers
  PROVE  LET h == Append(g, <<n + 1>>) IN
         /\ h \in Groups /\ Runs(h, n + 1)
         /\ Len(h) = Len(g) + 1 /\ h[Len(g) + 1][1] = n + 1
         /\ \A k \in 1 .. Len(g) : h[k] = g[k]
<1> DEFINE x == <<n + 1>>
           h == Append(g, x)
<1>1. x \in Seq(Numbers) /\ Len(x) = 1 /\ DOMAIN x = {1} /\ x[1] = n + 1
  BY OneOf
<1> HIDE DEF x
<1>2. /\ h \in Groups /\ Len(h) = Len(g) + 1 /\ h[Len(g) + 1] = x
      /\ \A k \in 1 .. Len(g) : h[k] = g[k]
  BY <1>1, AppendProperties DEF Groups
<1>3. /\ Len(g) \in Nat /\ DOMAIN g = 1 .. Len(g) /\ DOMAIN h = 1 .. Len(g) + 1 /\ Len(g) > 0
      /\ \A k \in DOMAIN g : Len(g[k]) > 0 /\ \A i \in DOMAIN g[k] : g[k][i] = g[k][1] + i - 1
  BY <1>2, GroupTypes DEF Runs
<1>4. \A k \in DOMAIN h :
        Len(h[k]) > 0 /\ \A i \in DOMAIN h[k] : h[k][i] = h[k][1] + i - 1
  <2>1. ASSUME NEW k \in DOMAIN h
        PROVE  Len(h[k]) > 0 /\ \A i \in DOMAIN h[k] : h[k][i] = h[k][1] + i - 1
    <3>1. CASE k \in DOMAIN g
      <4>1. h[k] = g[k]
        BY <1>2, <1>3, <3>1
      <4> QED
        BY <1>3, <3>1, <4>1
    <3>2. CASE k \notin DOMAIN g
      <4>1. k = Len(g) + 1
        BY <1>3, <3>2
      <4>2. h[k] = x
        BY <1>2, <4>1
      <4> QED
        BY <1>1, <4>2
    <3> QED
      BY <3>1, <3>2
  <2> QED
    BY <2>1
<1>5. \A k \in DOMAIN h : k + 1 \in DOMAIN h => h[k + 1][1] = h[k][1] + Len(h[k])
  <2>1. ASSUME NEW k \in DOMAIN h, k + 1 \in DOMAIN h
        PROVE  h[k + 1][1] = h[k][1] + Len(h[k])
    <3>1. k \in DOMAIN g /\ h[k] = g[k]
      BY <1>2, <1>3, <2>1
    <3>2. CASE k + 1 \in DOMAIN g
      <4>1. h[k + 1] = g[k + 1]
        BY <1>2, <1>3, <3>2
      <4> QED
        BY <3>1, <3>2, <4>1 DEF Runs
    <3>3. CASE k + 1 \notin DOMAIN g
      <4>1. k = Len(g) /\ k + 1 = Len(g) + 1
        BY <1>3, <2>1, <3>3
      <4>2. h[k + 1] = x
        BY <1>2, <4>1
      <4>3. g[k][1] + Len(g[k]) = n + 1
        BY <4>1 DEF Runs
      <4> QED
        BY <1>1, <3>1, <4>2, <4>3
    <3> QED
      BY <3>2, <3>3
  <2> QED
    BY <2>1
<1>6. Len(h) > 0 /\ h[Len(h)][1] + Len(h[Len(h)]) = (n + 1) + 1
  <2>1. h[Len(h)] = x /\ Len(h) > 0
    BY <1>2, <1>3
  <2> HIDE DEF h
  <2> QED
    BY <1>1, <2>1
<1>7. Runs(h, n + 1)
  <2> HIDE DEF h
  <2> QED
    BY <1>4, <1>5, <1>6 DEF Runs
<1> QED
  BY <1>1, <1>2, <1>7 DEF x

LEMMA RunsTail ==
  ASSUME NEW g \in Groups, NEW n \in Nat, Runs(g, n), Len(g) # 1
  PROVE  /\ Tail(g) \in Groups /\ Runs(Tail(g), n)
         /\ Len(Tail(g)) = Len(g) - 1 /\ Len(g) > 1
         /\ \A k \in 1 .. Len(g) - 1 : Tail(g)[k] = g[k + 1]
         /\ Tail(g)[1][1] = g[1][1] + Len(g[1])
<1> DEFINE h == Tail(g)
<1>1. Len(g) \in Nat /\ DOMAIN g = 1 .. Len(g) /\ Len(g) > 1
  <2>1. Len(g) \in Nat /\ DOMAIN g = 1 .. Len(g)
    BY GroupTypes
  <2>2. Len(g) > 0
    BY DEF Runs
  <2> QED
    BY <2>1, <2>2
<1>2. g # <<>>
  BY <1>1
<1>3. /\ h \in Groups /\ Len(h) = Len(g) - 1
      /\ \A k \in 1 .. Len(h) : h[k] = g[k + 1]
  BY <1>2, HeadTailProperties DEF Groups
<1>4. DOMAIN h = 1 .. Len(g) - 1
  BY <1>3, GroupTypes
<1> HIDE DEF h
<1>5. \A k \in DOMAIN h :
        /\ k + 1 \in DOMAIN g /\ h[k] = g[k + 1]
        /\ k + 1 \in DOMAIN h => (k + 1) + 1 \in DOMAIN g /\ h[k + 1] = g[(k + 1) + 1]
  BY <1>1, <1>3, <1>4
<1>6. \A k \in DOMAIN h :
        Len(h[k]) > 0 /\ \A i \in DOMAIN h[k] : h[k][i] = h[k][1] + i - 1
  BY <1>5 DEF Runs
<1>7. \A k \in DOMAIN h : k + 1 \in DOMAIN h => h[k + 1][1] = h[k][1] + Len(h[k])
  BY <1>5 DEF Runs
<1>8. Len(h) > 0 /\ h[Len(h)] = g[Len(g)]
  <2>1. Len(h) \in 1 .. Len(h) /\ Len(h) + 1 = Len(g) /\ Len(h) > 0
    BY <1>1, <1>3
  <2> QED
    BY <1>3, <2>1
<1>9. Runs(h, n)
  BY <1>6, <1>7, <1>8 DEF Runs
<1>10. h[1][1] = g[1][1] + Len(g[1])
  <2>1. 1 \in DOMAIN g /\ 1 + 1 \in DOMAIN g /\ h[1] = g[1 + 1]
    BY <1>1, <1>3
  <2> QED
    BY <2>1 DEF Runs
<1> QED
  BY <1>1, <1>3, <1>9, <1>10 DEF h

LEMMA RunsExtend ==
  ASSUME NEW g \in Groups, NEW n \in Nat, Runs(g, n), n + 1 \in Numbers,
         NEW h \in Groups, Len(h) = Len(g),
         \A k \in 1 .. Len(g) : k # Len(g) => h[k] = g[k],
         h[Len(g)] = Append(g[Len(g)], n + 1)
  PROVE  Runs(h, n + 1) /\ \A k \in 1 .. Len(g) : h[k][1] = g[k][1]
<1> DEFINE m == Len(g)
           x == g[m]
<1>1. /\ m \in Nat /\ m > 0 /\ DOMAIN g = 1 .. m /\ DOMAIN h = 1 .. m
      /\ \A k \in DOMAIN g : Len(g[k]) > 0 /\ \A i \in DOMAIN g[k] : g[k][i] = g[k][1] + i - 1
  BY GroupTypes DEF Runs
<1>2. /\ x \in Seq(Numbers) /\ Len(x) \in Nat /\ Len(x) > 0 /\ DOMAIN x = 1 .. Len(x)
      /\ x[1] \in Nat /\ x[1] + Len(x) = n + 1
      /\ \A i \in 1 .. Len(x) : x[i] = x[1] + i - 1
  <2>1. m \in DOMAIN g
    <3> HIDE DEF m
    <3> QED
      BY <1>1
  <2>2. x \in Seq(Numbers) /\ Len(x) \in Nat /\ DOMAIN x = 1 .. Len(x)
    BY <2>1, GroupTypes
  <2>3. Len(x) > 0 /\ \A i \in DOMAIN x : x[i] = x[1] + i - 1
    BY <1>1, <2>1
  <2>4. x[1] \in Nat
    <3>1. 1 \in DOMAIN g[m]
      BY <2>2, <2>3
    <3>2. g[m][1] \in Numbers
      BY <2>1, <3>1, GroupTypes
    <3> QED
      BY <3>2 DEF Numbers
  <2>5. x[1] + Len(x) = n + 1
    BY DEF Runs
  <2> HIDE DEF m, x
  <2> QED
    BY <2>2, <2>3, <2>4, <2>5
<1>3. /\ h[m] = Append(x, n + 1) /\ \A k \in 1 .. m : k # m => h[k] = g[k]
      /\ Len(h) = m
  OBVIOUS
<1>4. g[m] = x
  OBVIOUS
<1> HIDE DEF m, x
<1>5. /\ Len(h[m]) = Len(x) + 1 /\ DOMAIN h[m] = 1 .. Len(x) + 1
      /\ \A i \in 1 .. Len(x) : h[m][i] = x[i]
      /\ h[m][Len(x) + 1] = n + 1
  <2>1. /\ Append(x, n + 1) \in Seq(Numbers) /\ Len(Append(x, n + 1)) = Len(x) + 1
        /\ \A i \in 1 .. Len(x) : Append(x, n + 1)[i] = x[i]
        /\ Append(x, n + 1)[Len(x) + 1] = n + 1
    BY <1>2, AppendProperties
  <2>2. DOMAIN Append(x, n + 1) = 1 .. Len(x) + 1
    BY <2>1, LenProperties
  <2> QED
    BY <1>3, <2>1, <2>2
<1>6. h[m][1] = x[1] /\ \A i \in DOMAIN h[m] : h[m][i] = h[m][1] + i - 1
  <2>1. h[m][1] = x[1]
    BY <1>2, <1>5
  <2>2. ASSUME NEW i \in DOMAIN h[m] PROVE h[m][i] = h[m][1] + i - 1
    <3>1. CASE i \in 1 .. Len(x)
      BY <1>2, <1>5, <2>1, <3>1
    <3>2. CASE i \notin 1 .. Len(x)
      <4>1. i = Len(x) + 1
        BY <1>2, <1>5, <2>2, <3>2
      <4> QED
        BY <1>2, <1>5, <2>1, <4>1
    <3> QED
      BY <3>1, <3>2
  <2> QED
    BY <2>1, <2>2
<1>7. \A k \in 1 .. m : h[k][1] = g[k][1]
  BY <1>3, <1>4, <1>6
<1>8. \A k \in DOMAIN h :
        Len(h[k]) > 0 /\ \A i \in DOMAIN h[k] : h[k][i] = h[k][1] + i - 1
  <2>1. ASSUME NEW k \in DOMAIN h
        PROVE  Len(h[k]) > 0 /\ \A i \in DOMAIN h[k] : h[k][i] = h[k][1] + i - 1
    <3>1. CASE k # m
      <4>1. h[k] = g[k]
        BY <1>1, <1>3, <3>1
      <4> QED
        BY <1>1, <4>1
    <3>2. CASE k = m
      BY <1>2, <1>5, <1>6, <3>2
    <3> QED
      BY <3>1, <3>2
  <2> QED
    BY <2>1
<1>9. \A k \in DOMAIN h : k + 1 \in DOMAIN h => h[k + 1][1] = h[k][1] + Len(h[k])
  <2>1. ASSUME NEW k \in DOMAIN h, k + 1 \in DOMAIN h
        PROVE  h[k + 1][1] = h[k][1] + Len(h[k])
    <3>1. k # m /\ k \in DOMAIN g /\ k + 1 \in DOMAIN g
      BY <1>1, <2>1
    <3>2. h[k] = g[k] /\ h[k + 1][1] = g[k + 1][1]
      BY <1>1, <1>3, <1>7, <3>1
    <3> QED
      BY <3>1, <3>2 DEF Runs
  <2> QED
    BY <2>1
<1>10. h[Len(h)][1] + Len(h[Len(h)]) = (n + 1) + 1
  <2>1. h[m][1] = x[1] /\ Len(h[m]) = Len(x) + 1 /\ Len(h) = m
    BY <1>3, <1>5, <1>6
  <2>2. x[1] \in Nat /\ Len(x) \in Nat /\ x[1] + Len(x) = n + 1
    BY <1>2
  <2>3. x[1] + (Len(x) + 1) = (x[1] + Len(x)) + 1
    BY <2>2
  <2>4. x[1] + (Len(x) + 1) = (n + 1) + 1
    BY <2>2, <2>3
  <2> QED
    BY <2>1, <2>4
<1>11. Runs(h, n + 1)
  BY <1>1, <1>3, <1>8, <1>9, <1>10 DEF Runs
<1> QED
  BY <1>7, <1>11 DEF m

LEMMA RunsLast ==
  ASSUME NEW g \in Groups, NEW n \in Nat, Runs(g, n)
  PROVE  /\ Last(g) = g[Len(g)] /\ Last(g) \in Seq(Numbers) /\ Len(g) \in DOMAIN g
         /\ <<Last(g)>> \in Groups /\ Len(<<Last(g)>>) = 1 /\ <<Last(g)>>[1] = Last(g)
         /\ Len(Last(g)) \in Nat /\ Last(g)[1] \in Numbers
         /\ Len(Last(g)) = n + 1 - Last(g)[1] /\ Runs(<<Last(g)>>, n)
<1> DEFINE x == Last(g)
<1>1. Len(g) \in Nat /\ Len(g) \in DOMAIN g /\ Len(g) > 0
  BY GroupTypes DEF Runs
<1>2. x = g[Len(g)]
  BY DEF Last
<1>3. /\ x \in Seq(Numbers) /\ Len(x) \in Nat /\ DOMAIN x = 1 .. Len(x) /\ Len(x) > 0
      /\ x[1] + Len(x) = n + 1
      /\ \A i \in DOMAIN x : x[i] = x[1] + i - 1 /\ x[i] \in Numbers
  BY <1>1, <1>2, GroupTypes DEF Runs
<1> HIDE DEF x
<1>4. x[1] \in Numbers /\ x[1] \in Nat
  BY <1>3 DEF Numbers
<1>5. <<x>> \in Groups /\ Len(<<x>>) = 1 /\ DOMAIN <<x>> = {1} /\ <<x>>[1] = x
  BY <1>3, OneOf DEF Groups
<1>6. Runs(<<x>>, n)
  <2> DEFINE h == <<x>>
  <2>1. Len(h) = 1 /\ DOMAIN h = {1} /\ h[1] = x
    BY <1>5
  <2> HIDE DEF h
  <2>2. \A k \in DOMAIN h :
          Len(h[k]) > 0 /\ \A i \in DOMAIN h[k] : h[k][i] = h[k][1] + i - 1
    BY <1>3, <2>1
  <2>3. \A k \in DOMAIN h : k + 1 \notin DOMAIN h
    BY <2>1
  <2>4. Len(h) > 0 /\ h[Len(h)][1] + Len(h[Len(h)]) = n + 1
    BY <1>3, <2>1
  <2>5. Runs(h, n)
    BY <2>2, <2>3, <2>4 DEF Runs
  <2> QED
    BY <2>5 DEF h
<1>7. Len(x) = n + 1 - x[1]
  BY <1>3, <1>4
<1> QED
  BY <1>1, <1>2, <1>3, <1>4, <1>5, <1>6, <1>7 DEF x

(***************************************************************************)
(* Operations of the cache.                                                *)
(***************************************************************************)

(* A decoder can start with every group; lg tells the key packets.         *)
Keyed(g, lg) ==
  /\ lg[g[1][1]] \/ \A j \in 1 .. g[1][1] : ~lg[j]
  /\ \A k \in DOMAIN g : k # 1 => lg[g[k][1]]

(* A cache that holds packets, the last of which is n; perhaps too many.   *)
Filled(s, lg, n) ==
  /\ Runs(s.gops, n) /\ s.size = n + 1 - s.gops[1][1]
  /\ Len(s.gops) <= MaxGops /\ Keyed(s.gops, lg)
  /\ s.have_idr => lg[s.gops[Len(s.gops)][1]]
  /\ ~s.have_idr => ~s.started

(* Before the first key packet there is none among those written.          *)
Unstarted(s, lg, n) == ~s.started => ~s.have_idr /\ \A j \in 1 .. n : ~lg[j]

(* What a cache is once it was told of n packets.                          *)
Keeps(s, lg, n) ==
  /\ s \in Storage(Numbers) /\ Unstarted(s, lg, n)
  /\ \/ s.gops = <<<<>>>> /\ s.size = 0 /\ ~s.have_idr
     \/ Filled(s, lg, n) /\ s.size <= MaxSize

LEMMA Replaced ==
  ASSUME NEW S, NEW g \in Seq(S), Len(g) > 0, NEW y \in S
  PROVE  LET h == Front(g) \o <<y>> IN
         /\ h \in Seq(S) /\ Len(h) = Len(g) /\ h[Len(g)] = y
         /\ \A k \in 1 .. Len(g) : k # Len(g) => h[k] = g[k]
<1> DEFINE f == Front(g)
           z == <<y>>
<1>1. Len(g) \in Nat /\ Len(g) - 1 \in Nat
  BY LenProperties
<1>2. f \in Seq(S) /\ Len(f) = Len(g) - 1 /\ \A k \in 1 .. Len(g) - 1 : f[k] = g[k]
  <2>1. \A i \in 1 .. Len(g) - 1 : g[i] \in S
    BY <1>1, ElementOfSeq
  <2>2. 1 \in Int /\ Len(g) - 1 \in Int
    BY <1>1
  <2>3. /\ SubSeq(g, 1, Len(g) - 1) \in Seq(S)
        /\ Len(SubSeq(g, 1, Len(g) - 1)) = IF 1 <= Len(g) - 1 THEN (Len(g) - 1) - 1 + 1 ELSE 0
        /\ \A i \in 1 .. (Len(g) - 1) - 1 + 1 : SubSeq(g, 1, Len(g) - 1)[i] = g[1 + i - 1]
    BY <2>1, <2>2, SubSeqProperties
  <2>4. f = SubSeq(g, 1, Len(g) - 1)
    BY DEF Front
  <2> HIDE DEF f
  <2>5. Len(f) = Len(g) - 1
    <3>1. Len(f) = IF 1 <= Len(g) - 1 THEN (Len(g) - 1) - 1 + 1 ELSE 0
      BY <2>3, <2>4
    <3>2. CASE 1 <= Len(g) - 1
      BY <1>1, <3>1, <3>2
    <3>3. CASE ~(1 <= Len(g) - 1)
      <4>1. Len(g) - 1 = 0
        <5> DEFINE m == Len(g) - 1
        <5>1. m \in Nat /\ ~(1 <= m)
          BY <1>1, <3>3
        <5> HIDE DEF m
        <5>2. m = 0
          BY <5>1
        <5> QED
          BY <5>2 DEF m
      <4> QED
        BY <3>1, <3>3, <4>1
    <3> QED
      BY <3>2, <3>3
  <2>6. ASSUME NEW k \in 1 .. Len(g) - 1 PROVE f[k] = g[k]
    <3>1. k \in 1 .. (Len(g) - 1) - 1 + 1 /\ 1 + k - 1 = k
      BY <1>1
    <3> QED
      BY <2>3, <2>4, <3>1
  <2> QED
    BY <2>3, <2>4, <2>5, <2>6
<1>3. z \in Seq(S) /\ Len(z) = 1 /\ z[1] = y
  BY OneOf
<1> HIDE DEF f, z
<1>4. /\ f \o z \in Seq(S) /\ Len(f \o z) = Len(f) + Len(z)
      /\ \A i \in 1 .. Len(f) + Len(z) :
           (f \o z)[i] = IF i <= Len(f) THEN f[i] ELSE z[i - Len(f)]
  BY <1>2, <1>3, ConcatProperties, ZenonT(30)
<1>5. Len(f) + Len(z) = Len(g)
  BY <1>1, <1>2, <1>3
<1>6. (f \o z)[Len(g)] = y
  <2>1. Len(g) \in 1 .. Len(f) + Len(z) /\ ~(Len(g) <= Len(f)) /\ Len(g) - Len(f) = 1
    BY <1>1, <1>2, <1>5
  <2> QED
    BY <1>3, <1>4, <2>1
<1>7. ASSUME NEW k \in 1 .. Len(g), k # Len(g) PROVE (f \o z)[k] = g[k]
  <2>1. k \in 1 .. Len(f) + Len(z) /\ k <= Len(f) /\ k \in 1 .. Len(g) - 1
    BY <1>1, <1>2, <1>5, <1>7
  <2> QED
    BY <1>2, <1>4, <2>1
<1> QED
  BY <1>4, <1>5, <1>6, <1>7 DEF f, z

LEMMA Refilled ==
  ASSUME NEW S, NEW g \in Seq(S), NEW x \in S, NEW y \in S
  PROVE  /\ Append(g, x) \in Seq(S) /\ Len(Append(g, x)) = Len(g) + 1
         /\ Last(Append(g, x)) = x /\ Front(Append(g, x)) \o <<y>> = Append(g, y)
<1> DEFINE a == Append(g, x)
           b == Append(g, y)
           h == Front(a) \o <<y>>
<1>1. Len(g) \in Nat
  BY LenProperties
<1>2. /\ a \in Seq(S) /\ Len(a) = Len(g) + 1 /\ a[Len(g) + 1] = x
      /\ \A k \in 1 .. Len(g) : a[k] = g[k]
  BY AppendProperties
<1>3. /\ b \in Seq(S) /\ Len(b) = Len(g) + 1 /\ b[Len(g) + 1] = y
      /\ \A k \in 1 .. Len(g) : b[k] = g[k]
  BY AppendProperties
<1>4. Last(a) = x
  BY <1>2 DEF Last
<1> HIDE DEF a, b
<1>5. /\ h \in Seq(S) /\ Len(h) = Len(a) /\ h[Len(a)] = y
      /\ \A k \in 1 .. Len(a) : k # Len(a) => h[k] = a[k]
  <2>1. Len(a) > 0
    BY <1>1, <1>2
  <2> QED
    BY <1>2, <2>1, Replaced
<1> HIDE DEF h
<1>6. Len(h) = Len(b)
  BY <1>2, <1>3, <1>5
<1>7. \A k \in 1 .. Len(h) : h[k] = b[k]
  <2>1. ASSUME NEW k \in 1 .. Len(h) PROVE h[k] = b[k]
    <3>1. CASE k = Len(g) + 1
      BY <1>2, <1>3, <1>5, <3>1
    <3>2. CASE k # Len(g) + 1
      <4>1. k \in 1 .. Len(g) /\ k \in 1 .. Len(a) /\ k # Len(a)
        BY <1>1, <1>2, <1>5, <3>2
      <4> QED
        BY <1>2, <1>3, <1>5, <4>1
    <3> QED
      BY <3>1, <3>2
  <2> QED
    BY <2>1
<1>8. h = b
  BY <1>3, <1>5, <1>6, <1>7, SeqEqual
<1> QED
  BY <1>2, <1>4, <1>8 DEF a, b, h

(* The fields of a cache. *)
LEMMA StorageFields ==
  ASSUME NEW s \in Storage(Numbers)
  PROVE  /\ s.gops \in Groups /\ s.size \in Nat /\ s.have_idr \in BOOLEAN
         /\ s.started \in BOOLEAN
  BY DEF Storage, Groups

LEMMA EmptyGroups == <<<<>>>> \in Groups /\ Len(<<<<>>>>) = 1 /\ Last(<<<<>>>>) = <<>>
<1>1. <<>> \in Seq(Numbers)
  OBVIOUS
<1> DEFINE x == <<>>
<1>2. x \in Seq(Numbers)
  BY <1>1
<1> HIDE DEF x
<1>3. <<x>> \in Seq(Seq(Numbers)) /\ Len(<<x>>) = 1 /\ <<x>>[1] = x
  BY <1>2, OneOf
<1> QED
  BY <1>3 DEF x, Groups, Last

LEMMA ClearKeeps ==
  ASSUME NEW s \in Storage(Numbers), NEW lg, NEW n \in Nat, Unstarted(s, lg, n)
  PROVE  Keeps(ClearCache(s), lg, n)
<1> DEFINE e == <<<<>>>>
           c == [s EXCEPT !.gops = e, !.size = 0, !.have_idr = FALSE]
<1>1. e \in Groups
  BY EmptyGroups
<1>2. ClearCache(s) = c
  BY DEF ClearCache
<1>3. /\ c \in Storage(Numbers) /\ c.gops = e /\ c.size = 0 /\ c.have_idr = FALSE
      /\ c.started = s.started
  <2> HIDE DEF e
  <2> QED
    BY <1>1 DEF Storage, Groups
<1> HIDE DEF c
<1>4. Keeps(c, lg, n)
  BY <1>3 DEF Keeps, Unstarted
<1> QED
  BY <1>2, <1>4

LEMMA EmptyKeeps == ASSUME NEW lg PROVE Keeps(EmptyStorage, lg, 0)
<1>1. EmptyStorage.gops = <<<<>>>> /\ EmptyStorage.size = 0 /\ EmptyStorage.have_idr = FALSE
  BY DEF EmptyStorage
<1>2. EmptyStorage \in Storage(Numbers)
  BY EmptyGroups DEF EmptyStorage, Storage, Groups
<1> QED
  BY <1>1, <1>2 DEF Keeps, Unstarted

(* Whatever goes, what stays is sound.                                     *)
LEMMA ShrinkKeeps ==
  ASSUME NEW s \in Storage(Numbers), NEW lg \in Seq(BOOLEAN), NEW n \in Nat,
         Filled(s, lg, n), Unstarted(s, lg, n)
  PROVE  Keeps(Shrink(s), lg, n)
<1> DEFINE g == s.gops
           x == Last(g)
           y == <<x>>
           l == Len(x)
           u == [s EXCEPT !.gops = y, !.size = l]
<1>1. /\ g \in Groups /\ s.size \in Nat /\ s.have_idr \in BOOLEAN /\ s.started \in BOOLEAN
      /\ Runs(g, n)
  BY StorageFields DEF Filled
<1>2. /\ x = g[Len(g)] /\ Len(g) \in DOMAIN g
      /\ y \in Groups /\ Len(y) = 1 /\ y[1] = x
      /\ l \in Nat /\ x[1] \in Numbers /\ l = n + 1 - x[1] /\ Runs(y, n)
  <2> HIDE DEF g
  <2> QED
    BY <1>1, RunsLast
<1>3. u = [s EXCEPT !.gops = <<Last(@)>>, !.size = Len(Last(s.gops))]
  OBVIOUS
<1>4. /\ u \in Storage(Numbers) /\ u.gops = y /\ u.size = l
      /\ u.have_idr = s.have_idr /\ u.started = s.started
  <2>1. u = [s EXCEPT !.gops = y, !.size = l]
    OBVIOUS
  <2> HIDE DEF y, l, u
  <2>2. y \in Groups /\ l \in Nat
    BY <1>2
  <2> QED
    BY <2>1, <2>2 DEF Storage, Groups
<1>5. DOMAIN y = {1}
  <2> HIDE DEF y
  <2> QED
    BY <1>2, GroupTypes
<1>6. /\ s.size <= MaxSize => Shrink(s) = s
      /\ ~(s.size <= MaxSize) /\ u.size <= MaxSize => Shrink(s) = u
      /\ ~(s.size <= MaxSize) /\ ~(u.size <= MaxSize) => Shrink(s) = ClearCache(u)
  <2> HIDE DEF u
  <2>2. (s.size > MaxSize) = ~(s.size <= MaxSize)
    BY <1>1, SizesAssumption
  <2> QED
    BY <1>3, <2>2, Zenon DEF Shrink
<1>7. Unstarted(u, lg, n)
  <2> HIDE DEF u
  <2> QED
    BY <1>4 DEF Unstarted
<1>8. Filled(u, lg, n)
  <2>1. Keyed(g, lg) /\ (s.have_idr => lg[x[1]]) /\ (~s.have_idr => ~s.started)
    <3> HIDE DEF x
    <3> QED
      BY <1>2 DEF Filled
  <2> HIDE DEF g, x, y, l, u
  <2>2. lg[x[1]] \/ \A j \in 1 .. x[1] : ~lg[j]
    <3>1. CASE Len(g) = 1
      BY <1>2, <2>1, <3>1 DEF Keyed
    <3>2. CASE Len(g) # 1
      BY <1>2, <2>1, <3>2 DEF Keyed
    <3> QED
      BY <3>1, <3>2
  <2>3. Keyed(y, lg)
    BY <1>2, <1>5, <2>2 DEF Keyed
  <2>4. 1 <= MaxGops
    BY SizesAssumption
  <2> QED
    BY <1>2, <1>4, <1>5, <2>1, <2>3, <2>4 DEF Filled
<1> HIDE DEF u
<1>9. CASE s.size <= MaxSize
  BY <1>6, <1>9 DEF Keeps
<1>10. CASE ~(s.size <= MaxSize) /\ u.size <= MaxSize
  BY <1>4, <1>6, <1>7, <1>8, <1>10 DEF Keeps
<1>11. CASE ~(s.size <= MaxSize) /\ ~(u.size <= MaxSize)
  BY <1>4, <1>6, <1>7, <1>11, ClearKeeps
<1> QED
  BY <1>9, <1>10, <1>11

(* A group more, perhaps in place of the first.                            *)
LEMMA KeyedAppend ==
  ASSUME NEW g \in Groups, NEW lg, NEW n \in Nat, Runs(g, n), Keyed(g, lg),
         n + 1 \in Numbers, lg[n + 1]
  PROVE  Keyed(Append(g, <<n + 1>>), lg)
<1> DEFINE h == Append(g, <<n + 1>>)
<1>1. /\ h \in Groups /\ Len(h) = Len(g) + 1 /\ h[Len(g) + 1][1] = n + 1
      /\ \A k \in 1 .. Len(g) : h[k] = g[k]
  BY RunsAppend
<1>2. /\ Len(g) \in Nat /\ Len(g) > 0 /\ DOMAIN g = 1 .. Len(g)
      /\ DOMAIN h = 1 .. Len(g) + 1
  BY <1>1, GroupTypes DEF Runs
<1> HIDE DEF h
<1>3. h[1] = g[1]
  BY <1>1, <1>2
<1>4. ASSUME NEW k \in DOMAIN h, k # 1 PROVE lg[h[k][1]]
  <2>1. CASE k \in DOMAIN g
    <3>1. h[k] = g[k]
      BY <1>1, <1>2, <2>1
    <3> QED
      BY <1>4, <2>1, <3>1 DEF Keyed
  <2>2. CASE k \notin DOMAIN g
    <3>1. k = Len(g) + 1
      BY <1>2, <2>2
    <3> QED
      BY <1>1, <3>1
  <2> QED
    BY <2>1, <2>2
<1>5. Keyed(h, lg)
  BY <1>3, <1>4 DEF Keyed
<1> QED
  BY <1>5 DEF h

LEMMA KeyedTail ==
  ASSUME NEW g \in Groups, NEW lg, NEW n \in Nat, Runs(g, n), Keyed(g, lg), Len(g) # 1
  PROVE  Keyed(Tail(g), lg)
<1> DEFINE h == Tail(g)
<1>1. /\ h \in Groups /\ Len(h) = Len(g) - 1 /\ Len(g) > 1
      /\ \A k \in 1 .. Len(g) - 1 : h[k] = g[k + 1]
  BY RunsTail
<1>2. Len(g) \in Nat /\ DOMAIN g = 1 .. Len(g) /\ DOMAIN h = 1 .. Len(g) - 1
  BY <1>1, GroupTypes
<1> HIDE DEF h
<1>3. \A k \in DOMAIN h : h[k] = g[k + 1] /\ k + 1 \in DOMAIN g /\ k + 1 # 1
  BY <1>1, <1>2
<1>4. \A k \in DOMAIN h : lg[h[k][1]]
  BY <1>3 DEF Keyed
<1>5. 1 \in DOMAIN h
  BY <1>1, <1>2
<1>6. Keyed(h, lg)
  BY <1>4, <1>5 DEF Keyed
<1> QED
  BY <1>6 DEF h

(* What a key packet finds to be appended to.                              *)
LEMMA NewGopIs ==
  ASSUME NEW s, NEW lg, NEW n \in Nat, Keeps(s, lg, n)
  PROVE  /\ NewGop(s) \in Storage(Numbers)
         /\ NewGop(s).have_idr = TRUE /\ NewGop(s).started = TRUE
         /\ \E h \in Groups :
              /\ NewGop(s).gops = Append(h, <<>>)
              /\ \/ h = <<>> /\ NewGop(s).size = 0
                 \/ /\ Runs(h, n) /\ Keyed(h, lg) /\ Len(h) + 1 <= MaxGops
                    /\ NewGop(s).size = n + 1 - h[1][1]
<1> DEFINE g == s.gops
           a == Append(g, <<>>)
           b == IF Last(g) = <<>> THEN g ELSE a
           t == [s EXCEPT !.have_idr = TRUE, !.started = TRUE, !.gops = b]
<1>1. s \in Storage(Numbers) /\ g \in Groups /\ s.size \in Nat
  BY StorageFields DEF Keeps
<1>2. <<>> \in Seq(Numbers) /\ <<>> \in Groups /\ Append(<<>>, <<>>) = <<<<>>>>
  BY DEF Groups
<1>3. /\ a \in Groups /\ Len(a) = Len(g) + 1 /\ Len(g) \in Nat
  <2> HIDE DEF g
  <2> QED
    BY <1>1, <1>2, AppendProperties, LenProperties DEF Groups
<1>4. NewGop(s) = IF Len(t.gops) > MaxGops THEN PopFrontGop(t) ELSE t
  BY DEF NewGop
<1>5. b \in Groups
  BY <1>1, <1>3
<1> HIDE DEF g, a
<1>6. /\ t \in Storage(Numbers) /\ t.gops = b /\ t.size = s.size
      /\ t.have_idr = TRUE /\ t.started = TRUE
  <2> HIDE DEF b
  <2> QED
    BY <1>1, <1>5 DEF Storage, Groups
<1> HIDE DEF t
<1>7. CASE g = <<<<>>>> /\ s.size = 0
  <2>1. b = g /\ Len(g) = 1
    BY <1>7, EmptyGroups
  <2>2. NewGop(s) = t
    <3> HIDE DEF b
    <3>1. Len(t.gops) = 1 /\ ~(1 > MaxGops)
      BY <1>6, <2>1, SizesAssumption
    <3> QED
      BY <1>4, <3>1
  <2> QED
    BY <1>2, <1>6, <1>7, <2>1, <2>2
<1>8. CASE Filled(s, lg, n)
  <2>1. /\ Runs(g, n) /\ s.size = n + 1 - g[1][1] /\ Len(g) <= MaxGops /\ Keyed(g, lg)
    BY <1>8 DEF Filled, g
  <2>2. b = a
    <3>1. Len(Last(g)) > 0
      <4>1. Len(g) \in DOMAIN g /\ Last(g) = g[Len(g)]
        BY <1>1, <2>1, RunsLast
      <4> QED
        BY <2>1, <4>1 DEF Runs
    <3> QED
      BY <3>1
  <2>3. CASE ~(Len(a) > MaxGops)
    <3>1. NewGop(s) = t
      BY <1>4, <1>6, <2>2, <2>3
    <3>2. Len(g) + 1 <= MaxGops
      BY <1>3, <2>3, SizesAssumption
    <3> QED
      BY <1>1, <1>6, <2>1, <2>2, <3>1, <3>2 DEF a
  <2>4. CASE Len(a) > MaxGops
    <3> DEFINE h == Tail(g)
               l == Len(g[1])
               c == Append(h, <<>>)
               m == s.size - l
    <3>1. g # <<>> /\ Len(g) > 0 /\ 1 \in DOMAIN g
      BY <1>1, <2>1, GroupTypes DEF Runs
    <3>2. Head(a) = g[1] /\ Tail(a) = c
      BY <1>1, <1>2, <3>1, HeadTailAppend DEF a, Groups
    <3>3. h \in Groups /\ Len(h) = Len(g) - 1
      BY <1>1, <3>1, HeadTailProperties DEF Groups
    <3>4. c \in Groups
      BY <1>2, <3>3, AppendProperties DEF Groups
    <3>5. l \in Nat /\ g[1][1] \in Nat
      <4>1. Len(g[1]) \in Nat /\ DOMAIN g[1] = 1 .. Len(g[1]) /\ Len(g[1]) > 0
        BY <1>1, <2>1, <3>1, GroupTypes DEF Runs
      <4>2. g[1][1] \in Numbers
        BY <1>1, <3>1, <4>1, GroupTypes
      <4> QED
        BY <4>1, <4>2 DEF Numbers
    <3>6. NewGop(s) = PopFrontGop(t)
      BY <1>4, <1>6, <2>2, <2>4
    <3>7. PopFrontGop(t) = [t EXCEPT !.gops = c, !.size = m]
      <4>1. Len(a) # 1
        BY <1>3, <3>1
      <4>2. PopFrontGop(t) = [t EXCEPT !.gops = IF Len(a) = 1 THEN <<<<>>>> ELSE Tail(a),
                                       !.size = s.size - Len(Head(a))]
        BY <1>6, <2>2 DEF PopFrontGop
      <4> QED
        BY <3>2, <4>1, <4>2
    <3>8. m \in Nat
      <4>1. CASE Len(g) = 1
        <5>1. g[1][1] + l = n + 1
          BY <2>1, <4>1 DEF Runs
        <5> HIDE DEF l
        <5> QED
          BY <2>1, <3>5, <5>1
      <4>2. CASE Len(g) # 1
        <5>1. Tail(g)[1][1] = g[1][1] + l /\ Runs(Tail(g), n)
          BY <1>1, <2>1, <4>2, RunsTail
        <5>2. Tail(g)[1][1] <= n /\ Tail(g)[1][1] \in Numbers
          BY <3>3, <5>1, RunsFlatten
        <5>3. g[1][1] + l <= n
          BY <5>1, <5>2
        <5> HIDE DEF l
        <5> QED
          BY <2>1, <3>5, <5>3
      <4> QED
        BY <4>1, <4>2
    <3> HIDE DEF c, m
    <3>9. /\ NewGop(s) \in Storage(Numbers) /\ NewGop(s).gops = c /\ NewGop(s).size = m
          /\ NewGop(s).have_idr = TRUE /\ NewGop(s).started = TRUE
      BY <1>6, <3>4, <3>6, <3>7, <3>8 DEF Storage, Groups
    <3>10. CASE Len(g) = 1
      <4>1. h = <<>>
        <5>1. Len(h) = 0
          BY <3>3, <3>10
        <5> HIDE DEF h
        <5> QED
          BY <3>3, <5>1, EmptySeq DEF Groups
      <4>2. m = 0
        <5>1. g[1][1] + l = n + 1
          BY <2>1, <3>10 DEF Runs
        <5> HIDE DEF l
        <5> QED
          BY <2>1, <3>5, <5>1 DEF m
      <4> QED
        BY <3>3, <3>9, <4>1, <4>2 DEF c
    <3>11. CASE Len(g) # 1
      <4>1. Runs(h, n) /\ h[1][1] = g[1][1] + l /\ Keyed(h, lg)
        BY <1>1, <2>1, <3>11, RunsTail, KeyedTail
      <4>2. m = n + 1 - h[1][1]
        <5> HIDE DEF h, l
        <5> QED
          BY <2>1, <3>5, <4>1 DEF m
      <4>3. Len(h) + 1 <= MaxGops
        BY <1>3, <2>1, <3>3, SizesAssumption
      <4> HIDE DEF h
      <4> QED
        BY <3>3, <3>9, <4>1, <4>2, <4>3 DEF c
    <3> QED
      BY <3>10, <3>11
  <2> QED
    BY <2>3, <2>4
<1> QED
  BY <1>7, <1>8 DEF Keeps, g

LEMMA RefilledGop ==
  ASSUME NEW h \in Groups, NEW x \in Seq(Numbers)
  PROVE  Last(Append(h, <<>>)) = <<>> /\ Front(Append(h, <<>>)) \o <<x>> = Append(h, x)
<1> DEFINE e == <<>>
<1>1. e \in Seq(Numbers)
  OBVIOUS
<1> HIDE DEF e
<1>2. h \in Seq(Seq(Numbers))
  BY DEF Groups
<1>3. Last(Append(h, e)) = e /\ Front(Append(h, e)) \o <<x>> = Append(h, x)
  BY <1>1, <1>2, Refilled
<1> QED
  BY <1>3 DEF e

(* A write that is kept. *)
LEMMA FilledOne ==
  ASSUME NEW u \in Storage(Numbers), NEW lg, NEW n \in Numbers, u.gops = <<<<n>>>>, u.size = 1,
         lg[n] \/ \A j \in 1 .. n : ~lg[j], u.have_idr => lg[n], ~u.have_idr => ~u.started
  PROVE  Filled(u, lg, n)
<1> DEFINE x == <<n>>
           g == <<x>>
<1>1. g \in Groups /\ Runs(g, n)
  BY RunsSingle
<1>2. Len(g) = 1 /\ DOMAIN g = {1} /\ g[1] = x /\ x[1] = n
  OBVIOUS
<1>3. u.gops = g
  OBVIOUS
<1> HIDE DEF x, g
<1>4. Keyed(g, lg)
  BY <1>2 DEF Keyed
<1>5. n \in Nat /\ 1 = n + 1 - n /\ 1 <= MaxGops
  BY SizesAssumption DEF Numbers
<1> QED
  BY <1>1, <1>2, <1>3, <1>4, <1>5 DEF Filled

LEMMA StorageWriteKeeps ==
  ASSUME NEW s, NEW lg \in Seq(BOOLEAN), NEW n \in Nat, n + 1 \in Numbers, Keeps(s, lg, n)
  PROVE  Keeps(StorageWrite(s, n + 1, lg[n + 1]), lg, n + 1)
<1> DEFINE e == lg[n + 1]
           x == <<n + 1>>
           Put(t) == [t EXCEPT !.gops = Front(@) \o <<Append(Last(@), n + 1)>>, !.size = @ + 1]
<1>1. s \in Storage(Numbers) /\ Unstarted(s, lg, n) /\ n + 1 \in Nat
  BY DEF Keeps
<1>2. x \in Seq(Numbers) /\ <<>> \in Seq(Numbers) /\ <<>> \in Groups /\ x = Append(<<>>, n + 1)
  BY DEF Groups
<1>3. CASE e
  <2> DEFINE t == NewGop(s)
  <2>1. t \in Storage(Numbers) /\ t.have_idr = TRUE /\ t.started = TRUE
    BY NewGopIs
  <2>2. PICK h \in Groups :
          /\ t.gops = Append(h, <<>>)
          /\ \/ h = <<>> /\ t.size = 0
             \/ /\ Runs(h, n) /\ Keyed(h, lg) /\ Len(h) + 1 <= MaxGops
                /\ t.size = n + 1 - h[1][1]
    BY NewGopIs, ZenonT(30)
  <2>3. StorageWrite(s, n + 1, e) = Shrink(Put(t))
    <3>1. t.have_idr
      BY <2>1
    <3> HIDE DEF Put
    <3>2. StorageWrite(s, n + 1, e)
            = Shrink([t EXCEPT !.gops = Front(@) \o <<Append(Last(@), n + 1)>>, !.size = @ + 1])
      BY <1>3, <3>1, Zenon DEF StorageWrite
    <3> QED
      BY <3>2 DEF Put
  <2> HIDE DEF t
  <2> DEFINE y == Append(h, x)
             m == t.size + 1
             u == [t EXCEPT !.gops = y, !.size = m]
  <2>4. y \in Groups /\ Len(y) = Len(h) + 1 /\ m \in Nat
    <3>1. m \in Nat
      BY <2>1, StorageFields
    <3> QED
      BY <1>2, <3>1, AppendProperties DEF Groups
  <2>5. Put(t) = u
    <3>1. Last(t.gops) = <<>> /\ Front(t.gops) \o <<x>> = y
      BY <1>2, <2>2, RefilledGop
    <3>2. Put(t) = [t EXCEPT !.gops = Front(t.gops) \o <<Append(Last(t.gops), n + 1)>>,
                             !.size = t.size + 1]
      BY <2>1 DEF Storage
    <3>3. Append(Last(t.gops), n + 1) = x
      BY <1>2, <3>1
    <3> HIDE DEF y, x
    <3> QED
      BY <3>1, <3>2, <3>3
  <2>6. /\ u \in Storage(Numbers) /\ u.gops = y /\ u.size = m
        /\ u.have_idr = TRUE /\ u.started = TRUE
    <3> HIDE DEF y, m
    <3> QED
      BY <2>1, <2>4 DEF Storage, Groups
  <2>7. Unstarted(u, lg, n + 1)
    <3> HIDE DEF u
    <3> QED
      BY <2>6 DEF Unstarted
  <2>8. Filled(u, lg, n + 1)
    <3>1. CASE h = <<>> /\ t.size = 0
      <4>1. y = <<<<n + 1>>>> /\ m = 1
        BY <3>1
      <4> HIDE DEF u, y, m
      <4> QED
        BY <1>3, <2>6, <4>1, FilledOne
    <3>2. CASE Runs(h, n) /\ Keyed(h, lg) /\ Len(h) + 1 <= MaxGops /\ t.size = n + 1 - h[1][1]
      <4>1. /\ Runs(y, n + 1) /\ y[Len(h) + 1][1] = n + 1
            /\ \A k \in 1 .. Len(h) : y[k] = h[k]
        BY <3>2, RunsAppend
      <4>2. Keyed(y, lg)
        BY <1>3, <3>2, KeyedAppend
      <4>3. Len(h) \in Nat /\ Len(h) > 0 /\ h[1][1] \in Numbers
        BY <3>2, RunsFlatten, GroupTypes DEF Runs
      <4> HIDE DEF y
      <4>4. y[1] = h[1]
        BY <4>1, <4>3
      <4>5. m = (n + 1) + 1 - y[1][1]
        BY <3>2, <4>3, <4>4 DEF Numbers
      <4> HIDE DEF m, u
      <4> QED
        BY <1>3, <2>4, <2>6, <3>2, <4>1, <4>2, <4>5 DEF Filled
    <3> QED
      BY <2>2, <3>1, <3>2
  <2> HIDE DEF u
  <2>9. Keeps(Shrink(u), lg, n + 1)
    BY <1>1, <2>6, <2>7, <2>8, ShrinkKeeps
  <2> QED
    BY <2>3, <2>5, <2>9
<1>4. CASE ~e /\ ~s.have_idr /\ s.started
  <2>1. StorageWrite(s, n + 1, e) = s
    BY <1>4, Zenon DEF StorageWrite
  <2>2. s.gops = <<<<>>>> /\ s.size = 0
    BY <1>4 DEF Keeps, Filled
  <2> QED
    BY <1>1, <1>4, <2>1, <2>2 DEF Keeps, Unstarted
<1>5. CASE ~e /\ (s.have_idr \/ ~s.started)
  <2> DEFINE g == s.gops
             y == Front(g) \o <<Append(Last(g), n + 1)>>
             m == s.size + 1
             u == [s EXCEPT !.gops = y, !.size = m]
  <2>1. StorageWrite(s, n + 1, e) = Shrink(u)
    <3>1. StorageWrite(s, n + 1, e) = Shrink(Put(s))
      BY <1>5, Zenon DEF StorageWrite
    <3>2. Put(s) = u
      BY <1>1 DEF Storage
    <3> QED
      BY <3>1, <3>2
  <2>2. g \in Groups /\ m \in Nat /\ s.have_idr \in BOOLEAN /\ s.started \in BOOLEAN
    BY <1>1, StorageFields
  <2>3. ASSUME y \in Groups
        PROVE  /\ u \in Storage(Numbers) /\ u.gops = y /\ u.size = m
               /\ u.have_idr = s.have_idr /\ u.started = s.started
               /\ Unstarted(u, lg, n + 1)
    <3>1. /\ u \in Storage(Numbers) /\ u.gops = y /\ u.size = m
          /\ u.have_idr = s.have_idr /\ u.started = s.started
      <4> HIDE DEF y, m
      <4> QED
        BY <1>1, <2>2, <2>3 DEF Storage, Groups
    <3> HIDE DEF u, e
    <3>2. Unstarted(u, lg, n + 1)
      <4>1. ASSUME ~u.started PROVE ~u.have_idr /\ \A j \in 1 .. n + 1 : ~lg[j]
        <5>1. ~s.have_idr /\ \A j \in 1 .. n : ~lg[j]
          BY <1>1, <3>1, <4>1 DEF Unstarted
        <5>2. \A j \in 1 .. n + 1 : j \in 1 .. n \/ j = n + 1
          OBVIOUS
        <5> QED
          BY <1>5, <3>1, <5>1, <5>2 DEF e
      <4> QED
        BY <4>1 DEF Unstarted
    <3> QED
      BY <3>1, <3>2
  <2>4. CASE s.gops = <<<<>>>> /\ s.size = 0 /\ ~s.have_idr
    <3>1. g = Append(<<>>, <<>>)
      BY <2>4
    <3>2. Last(g) = <<>> /\ Front(g) \o <<x>> = Append(<<>>, x)
      <4>1. /\ Last(Append(<<>>, <<>>)) = <<>>
            /\ Front(Append(<<>>, <<>>)) \o <<x>> = Append(<<>>, x)
        <5> HIDE DEF x
        <5> QED
          BY <1>2, RefilledGop
      <4> QED
        BY <3>1, <4>1
    <3>3. y = <<<<n + 1>>>> /\ m = 1
      <4>1. Append(Last(g), n + 1) = x
        BY <1>2, <3>2
      <4>2. y = Append(<<>>, x)
        BY <3>2, <4>1
      <4> HIDE DEF y
      <4> QED
        BY <2>4, <4>2
    <3>4. y \in Groups
      BY <3>3, RunsSingle
    <3>5. \A j \in 1 .. n + 1 : ~lg[j]
      BY <1>5, <2>3, <2>4, <3>4 DEF Unstarted
    <3> HIDE DEF u, y, m
    <3>6. Filled(u, lg, n + 1)
      BY <1>5, <2>3, <2>4, <3>3, <3>4, <3>5, FilledOne
    <3>7. Keeps(Shrink(u), lg, n + 1)
      BY <1>1, <2>3, <3>4, <3>6, ShrinkKeeps
    <3> QED
      BY <2>1, <3>7
  <2>5. CASE Filled(s, lg, n)
    <3>1. /\ Runs(g, n) /\ s.size = n + 1 - g[1][1] /\ Len(g) <= MaxGops /\ Keyed(g, lg)
          /\ s.have_idr => lg[g[Len(g)][1]]
          /\ ~s.have_idr => ~s.started
      BY <2>5 DEF Filled
    <3> HIDE DEF g
    <3>2. Last(g) = g[Len(g)] /\ Last(g) \in Seq(Numbers) /\ Len(g) > 0 /\ Len(g) \in Nat
      BY <2>2, <3>1, RunsLast, GroupTypes DEF Runs
    <3> DEFINE z == Append(Last(g), n + 1)
    <3>3. z \in Seq(Numbers)
      BY <3>2, AppendProperties
    <3>4. /\ y \in Groups /\ Len(y) = Len(g) /\ y[Len(g)] = z
          /\ \A k \in 1 .. Len(g) : k # Len(g) => y[k] = g[k]
      <4> HIDE DEF z
      <4>1. /\ Front(g) \o <<z>> \in Groups /\ Len(Front(g) \o <<z>>) = Len(g)
            /\ (Front(g) \o <<z>>)[Len(g)] = z
            /\ \A k \in 1 .. Len(g) : k # Len(g) => (Front(g) \o <<z>>)[k] = g[k]
        BY <2>2, <3>2, <3>3, Replaced, SMTT(30) DEF Groups
      <4> QED
        BY <4>1 DEF z
    <3> HIDE DEF y
    <3>5. Runs(y, n + 1) /\ \A k \in 1 .. Len(g) : y[k][1] = g[k][1]
      BY <2>2, <3>1, <3>2, <3>4, RunsExtend, SMTT(30)
    <3>6. DOMAIN y = 1 .. Len(g) /\ DOMAIN g = 1 .. Len(g) /\ g[1][1] \in Numbers
      BY <2>2, <3>1, <3>4, GroupTypes, RunsFlatten
    <3>7. Keyed(y, lg)
      BY <3>1, <3>2, <3>5, <3>6 DEF Keyed
    <3>8. m = (n + 1) + 1 - y[1][1]
      <4>1. y[1][1] = g[1][1]
        BY <3>2, <3>5
      <4>2. g[1][1] \in Nat /\ s.size = n + 1 - g[1][1]
        BY <3>1, <3>6 DEF Numbers
      <4>3. (n + 1 - g[1][1]) + 1 = (n + 1) + 1 - g[1][1]
        BY <4>2
      <4> QED
        BY <4>1, <4>2, <4>3
    <3>9. y[Len(y)][1] = g[Len(g)][1]
      BY <3>2, <3>4, <3>5
    <3> HIDE DEF u, m
    <3>10. Filled(u, lg, n + 1)
      BY <2>3, <3>1, <3>4, <3>5, <3>7, <3>8, <3>9 DEF Filled
    <3>11. Keeps(Shrink(u), lg, n + 1)
      BY <1>1, <2>3, <3>4, <3>10, ShrinkKeeps
    <3> QED
      BY <2>1, <3>11
  <2> QED
    BY <2>4, <2>5 DEF Keeps
<1> QED
  BY <1>3, <1>4, <1>5

(* No group begins after the last packet. *)
LEMMA RunsBelow ==
  ASSUME NEW g \in Groups, NEW n \in Nat, Runs(g, n)
  PROVE  \A k \in DOMAIN g : g[k][1] \in 1 .. n
<1> DEFINE m == Len(g)
           T == {j \in Nat : j < m /\ ~(g[m - j][1] <= n)}
<1>1. /\ m \in Nat /\ m > 0 /\ DOMAIN g = 1 .. m
      /\ \A k \in DOMAIN g : Len(g[k]) \in Nat /\ Len(g[k]) > 0 /\ g[k][1] \in Nat
                            /\ g[k][1] > 0
  <2>1. /\ m \in Nat /\ m > 0 /\ DOMAIN g = 1 .. m
        /\ \A k \in DOMAIN g : /\ Len(g[k]) \in Nat /\ Len(g[k]) > 0
                              /\ DOMAIN g[k] = 1 .. Len(g[k])
    BY GroupTypes DEF Runs
  <2>2. \A k \in DOMAIN g : g[k][1] \in Numbers
    BY <2>1, GroupTypes
  <2> QED
    BY <2>1, <2>2 DEF Numbers
<1>2. \A k \in DOMAIN g : k + 1 \in DOMAIN g => g[k + 1][1] = g[k][1] + Len(g[k])
  BY DEF Runs
<1>3. g[m][1] + Len(g[m]) = n + 1
  BY DEF Runs
<1> HIDE DEF m
<1>4. T = {}
  <2> SUFFICES ASSUME T # {} PROVE FALSE
    OBVIOUS
  <2>1. \E j \in T : j \in Nat /\ \A k \in Nat : k < j => k \notin T
    <3>1. T \subseteq Nat
      OBVIOUS
    <3> HIDE DEF T
    <3> QED
      BY <3>1, Smallest
  <2>2. PICK j \in T : j \in Nat /\ \A k \in Nat : k < j => k \notin T
    BY <2>1
  <2>3. j \in Nat /\ j < m /\ ~(g[m - j][1] <= n)
    BY <2>2
  <2>4. j # 0
    <3>1. m \in DOMAIN g /\ m - 0 = m
      BY <1>1
    <3>2. g[m][1] <= n
      <4> DEFINE x == g[m][1]
                 w == Len(g[m])
      <4>1. x \in Nat /\ w \in Nat /\ w > 0 /\ x + w = n + 1
        BY <1>1, <1>3, <3>1
      <4> HIDE DEF x, w
      <4>2. x <= n
        BY <4>1
      <4> QED
        BY <4>2 DEF x
    <3> QED
      BY <2>3, <3>1, <3>2
  <2>5. j - 1 \in Nat /\ j - 1 < j /\ j - 1 < m
    BY <1>1, <2>3, <2>4
  <2>6. g[m - (j - 1)][1] <= n
    BY <2>2, <2>5
  <2>7. m - j \in DOMAIN g /\ (m - j) + 1 \in DOMAIN g /\ m - (j - 1) = (m - j) + 1
    BY <1>1, <2>3, <2>4
  <2>8. g[m - (j - 1)][1] = g[m - j][1] + Len(g[m - j])
    BY <1>2, <2>7
  <2>9. g[m - j][1] \in Nat /\ Len(g[m - j]) \in Nat
    BY <1>1, <2>7
  <2> QED
    BY <2>3, <2>6, <2>8, <2>9
<1>5. ASSUME NEW k \in DOMAIN g PROVE g[k][1] \in 1 .. n
  <2>1. k \in Nat /\ m - k \in Nat /\ m - k < m /\ m - (m - k) = k
    BY <1>1
  <2>2. m - k \notin T
    BY <1>4
  <2>3. g[k][1] <= n
    BY <2>1, <2>2
  <2> QED
    BY <1>1, <2>3
<1> QED
  BY <1>5

(* What is written later does not touch what was kept.                     *)
LEMMA KeepsLonger ==
  ASSUME NEW s, NEW lg \in Seq(BOOLEAN), NEW n \in Nat, n <= Len(lg), Keeps(s, lg, n),
         NEW b \in BOOLEAN
  PROVE  Keeps(s, Append(lg, b), n)
<1> DEFINE c == Append(lg, b)
<1>1. \A j \in 1 .. n : c[j] = lg[j]
  <2>1. \A j \in 1 .. Len(lg) : c[j] = lg[j]
    BY AppendProperties
  <2>2. Len(lg) \in Nat
    BY LenProperties
  <2> HIDE DEF c
  <2> QED
    BY <2>1, <2>2
<1> HIDE DEF c
<1>2. s \in Storage(Numbers) /\ Unstarted(s, c, n)
  BY <1>1 DEF Keeps, Unstarted
<1>3. ASSUME Filled(s, lg, n) PROVE Filled(s, c, n)
  <2> DEFINE g == s.gops
  <2>1. /\ g \in Groups /\ Runs(g, n) /\ s.size = n + 1 - g[1][1] /\ Len(g) <= MaxGops
        /\ Keyed(g, lg) /\ (s.have_idr => lg[g[Len(g)][1]]) /\ (~s.have_idr => ~s.started)
    BY <1>2, <1>3, StorageFields DEF Filled
  <2> HIDE DEF g
  <2>2. /\ \A k \in DOMAIN g : g[k][1] \in 1 .. n
        /\ 1 \in DOMAIN g /\ Len(g) \in DOMAIN g
    <3>1. \A k \in DOMAIN g : g[k][1] \in 1 .. n
      BY <2>1, RunsBelow
    <3>2. Len(g) \in Nat /\ DOMAIN g = 1 .. Len(g) /\ Len(g) > 0
      BY <2>1, GroupTypes DEF Runs
    <3>3. 1 \in DOMAIN g /\ Len(g) \in DOMAIN g
      BY <3>2
    <3> QED
      BY <3>1, <3>3
  <2>3. \A k \in DOMAIN g : c[g[k][1]] = lg[g[k][1]]
    BY <1>1, <2>2
  <2>4. \A j \in 1 .. g[1][1] : c[j] = lg[j]
    <3>1. g[1][1] \in Nat /\ g[1][1] <= n
      BY <2>2
    <3> QED
      BY <1>1, <3>1
  <2>5. Keyed(g, c)
    BY <2>1, <2>2, <2>3, <2>4 DEF Keyed
  <2>6. s.have_idr => c[g[Len(g)][1]]
    BY <2>1, <2>2, <2>3
  <2> QED
    BY <2>1, <2>5, <2>6 DEF Filled, g
<1>4. Keeps(s, c, n)
  BY <1>2, <1>3 DEF Keeps
<1> QED
  BY <1>4 DEF c

(* What a cache passes on. *)
LEMMA KeepsPackets ==
  ASSUME NEW s, NEW lg, NEW n \in Nat, Keeps(s, lg, n)
  PROVE  LET c == Packets(s) IN
         /\ c \in Seq(Numbers) /\ Len(c) \in Nat /\ s.size = Len(c) /\ Len(c) <= n
         /\ Len(c) <= MaxSize /\ Len(s.gops) <= MaxGops
         /\ c = [k \in 1 .. Len(c) |-> (n + 1 - Len(c)) + k - 1]
         /\ c # <<>> => lg[Head(c)] \/ \A j \in 1 .. Head(c) : ~lg[j]
<1> DEFINE c == Packets(s)
           g == s.gops
<1>1. g \in Groups /\ c = FlattenSeq(g)
  BY StorageFields DEF Keeps, Packets
<1>2. CASE s.gops = <<<<>>>> /\ s.size = 0
  <2> DEFINE F == [i \in 1 .. 1 |-> <<>>]
  <2>1. F = [i \in 1 .. 1 |-> IF i = 1 THEN g[i] ELSE F[i - 1] \o g[i]]
    <3>1. \A i \in 1 .. 1 : i = 1 /\ g[i] = <<>>
      BY <1>2
    <3>2. \A i \in 1 .. 1 : (IF i = 1 THEN g[i] ELSE F[i - 1] \o g[i]) = <<>>
      BY <3>1
    <3> QED
      BY <3>2
  <2>2. Len(g) = 1
    BY <1>2
  <2>3. FlattenSeq(g) = F[1]
    <3>1. F = [i \in 1 .. Len(g) |-> IF i = 1 THEN g[i] ELSE F[i - 1] \o g[i]]
      BY <2>1, <2>2
    <3> HIDE DEF F
    <3>2. FlattenSeq(g) = F[Len(g)]
      <4>1. Len(g) \in Nat /\ Len(g) # 0
        BY <2>2
      <4> HIDE DEF g
      <4> QED
        BY <3>1, <4>1, FlattenIs
    <3> QED
      BY <2>2, <3>2
  <2>4. c = <<>> /\ Len(c) = 0
    BY <1>1, <2>3
  <2>5. c \in Seq(Numbers)
    BY <2>4
  <2>6. [k \in 1 .. 0 |-> (n + 1 - 0) + k - 1] = <<>>
    OBVIOUS
  <2>7. 1 <= MaxGops /\ 0 <= MaxSize
    BY SizesAssumption
  <2> HIDE DEF c
  <2>8. c = [k \in 1 .. Len(c) |-> (n + 1 - Len(c)) + k - 1]
    BY <2>4, <2>6
  <2> QED
    BY <1>2, <2>2, <2>4, <2>5, <2>7, <2>8 DEF c
<1>3. CASE Filled(s, lg, n) /\ s.size <= MaxSize
  <2> DEFINE a == g[1][1]
             l == n + 1 - a
  <2>1. /\ Runs(g, n) /\ s.size = l /\ Len(g) <= MaxGops /\ Keyed(g, lg) /\ l <= MaxSize
    BY <1>3 DEF Filled
  <2>2. c = [k \in 1 .. l |-> a + k - 1] /\ a \in Numbers /\ a <= n
    <3> HIDE DEF g
    <3> QED
      BY <1>1, <2>1, RunsFlatten
  <2>3. a \in Nat /\ l \in Nat /\ a > 0 /\ l > 0 /\ l <= n /\ n + 1 - l = a
    <3>1. a \in Nat /\ a > 0 /\ a <= n
      BY <2>2 DEF Numbers
    <3>2. l = n + 1 - a
      OBVIOUS
    <3> HIDE DEF a, l
    <3> QED
      BY <3>1, <3>2
  <2>4. Keyed(g, lg) => lg[a] \/ \A j \in 1 .. a : ~lg[j]
    BY DEF Keyed
  <2>5. \A k \in 1 .. l : a + k - 1 \in Numbers
    <3>1. n \in Numbers
      <4> HIDE DEF g
      <4>1. /\ Last(g) \in Seq(Numbers) /\ Len(Last(g)) \in Nat /\ Last(g)[1] \in Numbers
            /\ Len(Last(g)) = n + 1 - Last(g)[1] /\ Last(g) = g[Len(g)] /\ Len(g) \in DOMAIN g
        BY <1>1, <2>1, RunsLast
      <4>2. Len(Last(g)) > 0
        BY <2>1, <4>1 DEF Runs
      <4>3. Last(g)[Len(Last(g))] = n
        <5>1. Len(Last(g)) \in DOMAIN g[Len(g)]
          BY <1>1, <4>1, <4>2, GroupTypes
        <5>2. Last(g)[Len(Last(g))] = Last(g)[1] + Len(Last(g)) - 1
          BY <2>1, <4>1, <5>1 DEF Runs
        <5>3. Last(g)[1] \in Nat
          BY <4>1 DEF Numbers
        <5> DEFINE f == Last(g)[1]
                   m == Len(Last(g))
        <5>4. m = n + 1 - f /\ f \in Nat /\ Last(g)[m] = f + m - 1
          BY <4>1, <5>2, <5>3
        <5> HIDE DEF f, m
        <5>5. Last(g)[m] = n
          BY <5>4
        <5> QED
          BY <5>5 DEF m
      <4>4. Last(g)[Len(Last(g))] \in Numbers
        BY <4>1, <4>2, ElementOfSeq
      <4> QED
        BY <4>3, <4>4
    <3>2. n \in Nat /\ n <= MaxLog /\ MaxLog \in Nat
      BY <3>1, ConstantsAssumption DEF Numbers
    <3> HIDE DEF a, l
    <3>3. l = n + 1 - a
      BY DEF l
    <3> QED
      BY <2>3, <3>2, <3>3 DEF Numbers
  <2> HIDE DEF a, l, c
  <2>6. c \in Seq(Numbers) /\ Len(c) = l
    BY <2>2, <2>3, <2>5
  <2>7. c # <<>> /\ Head(c) = a
    <3>1. Head(c) = c[1]
      BY <2>3, <2>6
    <3>2. 1 \in 1 .. l /\ a + 1 - 1 = a
      BY <2>3
    <3>3. c[1] = a
      BY <2>2, <3>2
    <3> QED
      BY <2>3, <2>6, <3>1, <3>3
  <2>8. c = [k \in 1 .. Len(c) |-> (n + 1 - Len(c)) + k - 1]
    BY <2>2, <2>3, <2>6
  <2> QED
    BY <2>1, <2>3, <2>4, <2>6, <2>7, <2>8 DEF c
<1> QED
  BY <1>2, <1>3 DEF Keeps

(***************************************************************************)
(* The packets on their way to a dispatcher.                               *)
(***************************************************************************)
WritesTo(q, d) == {i \in DOMAIN q : q[i].op = "write" /\ q[i].on = d}

(* With y packets stored, the next one may be in the loop's hands, and the *)
(* others up to the z-th are in the queue, in their order.                 *)
Line(q, t, d, y, z) ==
  LET h == IF t.on = d THEN 1 ELSE 0 IN
  /\ y + h <= z
  /\ t.on = d => t.n = y + 1
  /\ {q[i].n : i \in WritesTo(q, d)} = y + h + 1 .. z
  /\ \A i, j \in WritesTo(q, d) : i < j => q[i].n < q[j].n

LEMMA QueueFacts ==
  ASSUME NEW q \in Seq(Task)
  PROVE  /\ Len(q) \in Nat /\ DOMAIN q = 1 .. Len(q)
         /\ \A i \in DOMAIN q : q[i] \in Task /\ q[i].n \in Nat
<1>1. Len(q) \in Nat /\ DOMAIN q = 1 .. Len(q) /\ \A i \in DOMAIN q : q[i] \in Task
  BY LenProperties, ElementOfSeq
<1>2. \A t \in Task : t.n \in Nat
  BY DEF Task
<1> QED
  BY <1>1, <1>2

LEMMA LineAppend ==
  ASSUME NEW q \in Seq(Task), NEW t, NEW d, NEW y \in Nat, NEW z \in Nat, Line(q, t, d, y, z),
         NEW e \in Task, e.op = "write", e.on = d, e.n = z + 1
  PROVE  Line(Append(q, e), t, d, y, z + 1)
<1> DEFINE b == Append(q, e)
           m == Len(q) + 1
           h == IF t.on = d THEN 1 ELSE 0
<1>1. /\ b \in Seq(Task) /\ DOMAIN b = DOMAIN q \union {m} /\ b[m] = e
      /\ \A i \in DOMAIN q : b[i] = q[i]
  BY Appended
<1>2. Len(q) \in Nat /\ DOMAIN q = 1 .. Len(q) /\ \A i \in DOMAIN q : q[i].n \in Nat
  BY QueueFacts
<1>3. h \in 0 .. 1 /\ y + h <= z /\ (t.on = d => t.n = y + 1)
      /\ {q[i].n : i \in WritesTo(q, d)} = y + h + 1 .. z
      /\ \A i, j \in WritesTo(q, d) : i < j => q[i].n < q[j].n
  BY DEF Line
<1> HIDE DEF b
<1>4. WritesTo(b, d) = WritesTo(q, d) \union {m}
  BY <1>1, <1>2 DEF WritesTo
<1> HIDE DEF h
<1>5. {b[i].n : i \in WritesTo(b, d)} = y + h + 1 .. z + 1
  <2>1. \A i \in WritesTo(q, d) : b[i] = q[i]
    BY <1>1 DEF WritesTo
  <2>2. {b[i].n : i \in WritesTo(b, d)} = {q[i].n : i \in WritesTo(q, d)} \union {z + 1}
    BY <1>1, <1>4, <2>1
  <2>3. (y + h + 1 .. z) \union {z + 1} = y + h + 1 .. z + 1
    BY <1>3
  <2> QED
    BY <1>3, <2>2, <2>3
<1>6. \A i, j \in WritesTo(b, d) : i < j => b[i].n < b[j].n
  <2>1. ASSUME NEW i \in WritesTo(b, d), NEW j \in WritesTo(b, d), i < j
        PROVE  b[i].n < b[j].n
    <3>1. i \in WritesTo(q, d) /\ b[i] = q[i]
      BY <1>1, <1>2, <1>4, <2>1 DEF WritesTo
    <3>2. CASE j = m
      <4>1. q[i].n \in y + h + 1 .. z
        BY <1>3, <3>1
      <4> QED
        BY <1>1, <1>3, <3>1, <3>2, <4>1
    <3>3. CASE j # m
      <4>1. j \in WritesTo(q, d) /\ b[j] = q[j]
        BY <1>1, <1>4, <3>3 DEF WritesTo
      <4> QED
        BY <1>3, <2>1, <3>1, <4>1
    <3> QED
      BY <3>2, <3>3
  <2> QED
    BY <2>1
<1>7. y + h <= z + 1
  BY <1>3
<1> QED
  BY <1>3, <1>5, <1>6, <1>7 DEF Line, b, h

LEMMA LineSame ==
  ASSUME NEW q \in Seq(Task), NEW t, NEW d, NEW y \in Nat, NEW z \in Nat, Line(q, t, d, y, z),
         NEW e \in Task, ~(e.op = "write" /\ e.on = d)
  PROVE  Line(Append(q, e), t, d, y, z)
<1> DEFINE b == Append(q, e)
<1>1. /\ DOMAIN b = DOMAIN q \union {Len(q) + 1} /\ b[Len(q) + 1] = e
      /\ \A i \in DOMAIN q : b[i] = q[i]
  BY Appended
<1> HIDE DEF b
<1>2. WritesTo(b, d) = WritesTo(q, d)
  BY <1>1 DEF WritesTo
<1>3. \A i \in WritesTo(q, d) : b[i] = q[i]
  BY <1>1 DEF WritesTo
<1>4. {b[i].n : i \in WritesTo(b, d)} = {q[i].n : i \in WritesTo(q, d)}
  BY <1>2, <1>3
<1>5. Line(b, t, d, y, z)
  BY <1>2, <1>3, <1>4 DEF Line
<1> QED
  BY <1>5 DEF b

LEMMA LineTail ==
  ASSUME NEW q \in Seq(Task), NEW t, NEW d, NEW y \in Nat, NEW z \in Nat, Line(q, t, d, y, z),
         q # <<>>, ~(Head(q).op = "write" /\ Head(q).on = d)
  PROVE  Line(Tail(q), t, d, y, z)
<1> DEFINE b == Tail(q)
<1>1. /\ 1 \in DOMAIN q /\ q[1] = Head(q) /\ b \in Seq(Task)
      /\ \A i \in DOMAIN b : i + 1 \in DOMAIN q /\ b[i] = q[i + 1]
      /\ Len(b) = Len(q) - 1
  BY TailOf, HeadTailProperties
<1>2. /\ Len(q) \in Nat /\ DOMAIN q = 1 .. Len(q) /\ DOMAIN b = 1 .. Len(q) - 1
  BY <1>1, QueueFacts
<1> HIDE DEF b
<1>3. \A i \in WritesTo(b, d) : i + 1 \in WritesTo(q, d) /\ b[i] = q[i + 1] /\ i \in Nat
  BY <1>1, <1>2 DEF WritesTo
<1>4. \A i \in WritesTo(q, d) : i - 1 \in WritesTo(b, d) /\ b[i - 1] = q[i]
  <2>1. ASSUME NEW i \in WritesTo(q, d) PROVE i - 1 \in WritesTo(b, d) /\ b[i - 1] = q[i]
    <3>1. i \in DOMAIN q /\ i # 1 /\ q[i].op = "write" /\ q[i].on = d
      BY <1>1 DEF WritesTo
    <3>2. i - 1 \in DOMAIN b /\ (i - 1) + 1 = i
      BY <1>2, <3>1
    <3>3. b[i - 1] = q[i]
      BY <1>1, <3>2
    <3> QED
      BY <3>1, <3>2, <3>3 DEF WritesTo
  <2> QED
    BY <2>1
<1>5. {b[i].n : i \in WritesTo(b, d)} = {q[i].n : i \in WritesTo(q, d)}
  <2>1. {b[i].n : i \in WritesTo(b, d)} \subseteq {q[i].n : i \in WritesTo(q, d)}
    BY <1>3
  <2>2. {q[i].n : i \in WritesTo(q, d)} \subseteq {b[i].n : i \in WritesTo(b, d)}
    BY <1>4
  <2> QED
    BY <2>1, <2>2
<1>6. \A i, j \in WritesTo(b, d) : i < j => b[i].n < b[j].n
  <2>1. ASSUME NEW i \in WritesTo(b, d), NEW j \in WritesTo(b, d), i < j
        PROVE  b[i].n < b[j].n
    <3>1. i + 1 \in WritesTo(q, d) /\ j + 1 \in WritesTo(q, d) /\ i + 1 < j + 1
          /\ b[i] = q[i + 1] /\ b[j] = q[j + 1]
      BY <1>3, <2>1
    <3> QED
      BY <3>1 DEF Line
  <2> QED
    BY <2>1
<1>7. Line(b, t, d, y, z)
  BY <1>5, <1>6 DEF Line
<1> QED
  BY <1>7 DEF b

LEMMA LineTake ==
  ASSUME NEW q \in Seq(Task), NEW t, NEW d, NEW y \in Nat, NEW z \in Nat, Line(q, t, d, y, z),
         t.on # d, q # <<>>, Head(q).op = "write", Head(q).on = d
  PROVE  Line(Tail(q), Head(q), d, y, z)
<1> DEFINE b == Tail(q)
           u == Head(q)
           W == WritesTo(q, d)
<1>1. /\ 1 \in DOMAIN q /\ q[1] = u /\ b \in Seq(Task)
      /\ \A i \in DOMAIN b : i + 1 \in DOMAIN q /\ b[i] = q[i + 1]
      /\ Len(b) = Len(q) - 1
  BY TailOf, HeadTailProperties
<1>2. /\ Len(q) \in Nat /\ DOMAIN q = 1 .. Len(q) /\ DOMAIN b = 1 .. Len(q) - 1
      /\ \A i \in DOMAIN q : q[i].n \in Nat
  BY <1>1, QueueFacts
<1>3. /\ {q[i].n : i \in W} = y + 1 .. z
      /\ \A i, j \in W : i < j => q[i].n < q[j].n
  <2>1. y + 0 + 1 = y + 1
    OBVIOUS
  <2> QED
    BY <2>1 DEF Line
<1>4. 1 \in W /\ \A i \in W : i \in Nat /\ (i # 1 => 1 < i) /\ i \in DOMAIN q
  BY <1>1, <1>2 DEF WritesTo
<1>5. u.n = y + 1 /\ y + 1 <= z
  <2>1. u.n \in y + 1 .. z
    BY <1>1, <1>3, <1>4
  <2>2. y + 1 \in y + 1 .. z /\ y + 1 <= z
    BY <2>1
  <2>3. PICK j \in W : q[j].n = y + 1
    BY <1>3, <2>2
  <2>4. j = 1
    <3> SUFFICES ASSUME j # 1 PROVE FALSE
      OBVIOUS
    <3>1. q[1].n < q[j].n
      BY <1>3, <1>4
    <3> QED
      BY <1>1, <2>1, <2>3, <3>1
  <2> QED
    BY <1>1, <2>2, <2>3, <2>4
<1> HIDE DEF b, u
<1>6. \A i \in WritesTo(b, d) : i + 1 \in W /\ b[i] = q[i + 1] /\ i \in Nat /\ i + 1 # 1
  BY <1>1, <1>2 DEF WritesTo
<1>7. \A i \in W : i # 1 => i - 1 \in WritesTo(b, d) /\ b[i - 1] = q[i]
  <2>1. ASSUME NEW i \in W, i # 1 PROVE i - 1 \in WritesTo(b, d) /\ b[i - 1] = q[i]
    <3>1. i \in DOMAIN q /\ q[i].op = "write" /\ q[i].on = d
      BY DEF WritesTo
    <3>2. i - 1 \in DOMAIN b /\ (i - 1) + 1 = i
      BY <1>2, <2>1, <3>1
    <3>3. b[i - 1] = q[i]
      BY <1>1, <3>2
    <3> QED
      BY <3>1, <3>2, <3>3 DEF WritesTo
  <2> QED
    BY <2>1
<1> HIDE DEF W
<1>8. {b[i].n : i \in WritesTo(b, d)} = y + 1 + 1 .. z
  <2>1. ASSUME NEW i \in WritesTo(b, d) PROVE b[i].n \in y + 1 + 1 .. z
    <3>1. i + 1 \in W /\ b[i] = q[i + 1] /\ i + 1 # 1
      BY <1>6
    <3>2. q[i + 1].n \in y + 1 .. z /\ q[1].n < q[i + 1].n
      BY <1>3, <1>4, <3>1
    <3> QED
      BY <1>1, <1>5, <3>1, <3>2
  <2>2. ASSUME NEW k \in y + 1 + 1 .. z PROVE \E i \in WritesTo(b, d) : b[i].n = k
    <3>1. k \in y + 1 .. z /\ k # y + 1
      OBVIOUS
    <3>2. PICK i \in W : q[i].n = k
      BY <1>3, <3>1
    <3>3. i # 1
      BY <1>1, <1>5, <3>1, <3>2
    <3> QED
      BY <1>7, <3>2, <3>3
  <2> QED
    BY <2>1, <2>2
<1>9. \A i, j \in WritesTo(b, d) : i < j => b[i].n < b[j].n
  <2>1. ASSUME NEW i \in WritesTo(b, d), NEW j \in WritesTo(b, d), i < j
        PROVE  b[i].n < b[j].n
    <3>1. i + 1 \in W /\ j + 1 \in W /\ i + 1 < j + 1 /\ b[i] = q[i + 1] /\ b[j] = q[j + 1]
      BY <1>6, <2>1
    <3> QED
      BY <1>3, <3>1
  <2> QED
    BY <2>1
<1>10. u.on = d
  BY DEF u
<1>11. Line(b, u, d, y, z)
  BY <1>5, <1>8, <1>9, <1>10 DEF Line
<1> QED
  BY <1>11 DEF b, u

LEMMA LineStore ==
  ASSUME NEW q \in Seq(Task), NEW t, NEW d, NEW y \in Nat, NEW z \in Nat, Line(q, t, d, y, z),
         t.on = d, NEW u, u.on # d
  PROVE  t.n = y + 1 /\ y + 1 <= z /\ Line(q, u, d, y + 1, z)
<1>1. /\ y + 1 <= z /\ t.n = y + 1 /\ {q[i].n : i \in WritesTo(q, d)} = y + 1 + 1 .. z
      /\ \A i, j \in WritesTo(q, d) : i < j => q[i].n < q[j].n
  BY DEF Line
<1>2. (y + 1) + 0 <= z /\ (y + 1) + 0 + 1 = y + 1 + 1
  BY <1>1
<1> QED
  BY <1>1, <1>2 DEF Line

(* How many packets are in the queue. *)
LEMMA LineCount ==
  ASSUME NEW q \in Seq(Task), NEW t, NEW d, NEW y \in Nat, NEW z \in Nat, Line(q, t, d, y, z)
  PROVE  y = z - Cardinality(WritesTo(q, d)) - IF t.on = d THEN 1 ELSE 0
<1> DEFINE W == WritesTo(q, d)
           h == IF t.on = d THEN 1 ELSE 0
           N == y + h + 1 .. z
<1>1. /\ h \in Nat /\ y + h <= z /\ {q[i].n : i \in W} = N
      /\ \A i, j \in W : i < j => q[i].n < q[j].n
  BY DEF Line
<1>2. W \subseteq Nat /\ \A i \in W : q[i].n \in Nat
  BY QueueFacts DEF WritesTo
<1> HIDE DEF W, h
<1>3. ExistsBijection(N, W)
  <2> DEFINE f == [k \in N |-> CHOOSE i \in W : q[i].n = k]
  <2>1. \A k \in N : f[k] \in W /\ q[f[k]].n = k
    BY <1>1
  <2>2. DOMAIN f = N /\ f = [k \in N |-> f[k]]
    OBVIOUS
  <2> HIDE DEF f, N
  <2>3. f \in [N -> W]
    BY <2>1, <2>2
  <2>4. \A k, l \in N : f[k] = f[l] => k = l
    BY <2>1
  <2>5. \A i \in W : \E k \in N : f[k] = i
    <3>1. ASSUME NEW i \in W PROVE \E k \in N : f[k] = i
      <4>1. q[i].n \in N
        BY <1>1
      <4> DEFINE j == f[q[i].n]
      <4>2. j \in W /\ q[j].n = q[i].n
        BY <2>1, <4>1
      <4>3. ~(i < j) /\ ~(j < i) /\ i \in Nat /\ j \in Nat
        <5> HIDE DEF j
        <5>1. q[i].n \in Nat /\ q[j].n \in Nat /\ i \in Nat /\ j \in Nat
          BY <1>2, <4>2
        <5>2. (i < j => q[i].n < q[j].n) /\ (j < i => q[j].n < q[i].n)
          BY <1>1, <4>2
        <5>3. ~(q[i].n < q[j].n) /\ ~(q[j].n < q[i].n)
          BY <4>2, <5>1
        <5> QED
          BY <5>1, <5>2, <5>3
      <4>4. i = j
        BY <4>3
      <4> QED
        BY <4>1, <4>4
    <3> QED
      BY <3>1
  <2> QED
    BY <2>3, <2>4, <2>5 DEF ExistsBijection, Bijection, Injection, IsInjective, Surjection
<1>4. IsFiniteSet(N) /\ Cardinality(N) = z - (y + h)
  <2>1. y + h + 1 \in Int /\ z \in Int
    BY <1>1
  <2>2. Cardinality(N) = IF y + h + 1 > z THEN 0 ELSE z - (y + h + 1) + 1
    BY <2>1, FS_Interval
  <2>3. IsFiniteSet(N)
    BY <2>1, FS_Interval
  <2> HIDE DEF N
  <2> QED
    BY <1>1, <2>2, <2>3
<1>5. Cardinality(W) = Cardinality(N)
  <2> HIDE DEF N
  <2> QED
    BY <1>3, <1>4, FS_Bijection
<1> QED
  BY <1>1, <1>4, <1>5 DEF W, h

(***************************************************************************)
(* The caches of the ring buffer and of its dispatchers.                   *)
(***************************************************************************)

(* The rest of TypeOK, and what the ring's own cache holds.                *)
CacheTypes ==
  /\ cache \in [Dispatchers -> Storage(Numbers)]
  /\ left \in [Pollers -> SUBSET Readers] /\ hearing \subseteq Readers
  /\ got \in [Readers -> Seq(Numbers)] /\ detached \subseteq Readers
  /\ Keeps(storage, log, Len(log))

(* A task that names a dispatcher is on the dispatcher's poller.           *)
TasksHome ==
  /\ \A p \in Pollers : \A i \in DOMAIN queue[p] :
       queue[p][i].op # "dealloc" => home[queue[p][i].on] = p
  /\ \A p \in Pollers : pc[p] # "idle" => home[task[p].on] = p
  /\ \A p \in Pollers : pc[p] = "idle" => task[p] = NoTask

(* Dispatcher d has stored y packets, and was sent z.                      *)
Told(d, y, z) ==
  /\ z <= Len(log) /\ (dispatcher[home[d]] = d => z = Len(log))
  /\ Keeps(cache[d], log, y)
  /\ Line(queue[home[d]], task[home[d]], d, y, z)

Caught ==
  \A d \in Dispatchers : home[d] # None => \E y \in Nat : \E z \in Nat : Told(d, y, z)

CacheInv == CacheTypes /\ TasksHome /\ Caught

(* Nothing changes but that dispatchers may leave the map.                 *)
LEMMA ToldKept ==
  ASSUME NEW d, NEW y, NEW z, Told(d, y, z), log' = log, home'[d] = home[d],
         cache'[d] = cache[d], queue'[home[d]] = queue[home[d]],
         task'[home[d]] = task[home[d]],
         dispatcher'[home[d]] = d => dispatcher[home[d]] = d
  PROVE  Told(d, y, z)'
<1> DEFINE h == home[d]
           q == queue[h]
           t == task[h]
<1>1. z <= Len(log) /\ (dispatcher[h] = d => z = Len(log)) /\ Keeps(cache[d], log, y)
      /\ Line(q, t, d, y, z)
  BY DEF Told
<1>2. home'[d] = h /\ queue'[h] = q /\ task'[h] = t /\ dispatcher'[h] = d => dispatcher[h] = d
  OBVIOUS
<1>3. /\ z <= Len(log') /\ (dispatcher'[home'[d]] = d => z = Len(log'))
      /\ Keeps(cache'[d], log', y)
  BY <1>1
<1>4. Line(queue'[home'[d]], task'[home'[d]], d, y, z)
  BY <1>1
<1> QED
  BY <1>3, <1>4 DEF Told

LEMMA CaughtKept ==
  ASSUME Caught, UNCHANGED <<log, home, cache, queue, task>>, MapTypes,
         \A p \in Pollers : dispatcher'[p] \in {dispatcher[p], None}
  PROVE  Caught'
<1> SUFFICES ASSUME NEW d \in Dispatchers, home[d] # None
             PROVE  \E y \in Nat : \E z \in Nat : Told(d, y, z)'
  BY DEF Caught
<1>1. home[d] \in Pollers /\ d # None
  BY MapTypeFacts
<1>2. PICK y \in Nat, z \in Nat : Told(d, y, z)
  BY DEF Caught
<1>3. dispatcher'[home[d]] = d => dispatcher[home[d]] = d
  BY <1>1
<1>4. Told(d, y, z)'
  BY <1>2, <1>3, ToldKept
<1> QED
  BY <1>4

LEMMA TasksNamed ==
  ASSUME MapTypes, Dropped
  PROVE  /\ \A p \in Pollers : \A i \in DOMAIN queue[p] :
              queue[p][i].op # "dealloc" => queue[p][i].on \in Dispatchers
         /\ \A p \in Pollers : pc[p] # "idle" =>
              task[p] \in Task /\ task[p].op = "write" /\ task[p].on \in Dispatchers
<1>1. ASSUME NEW p \in Pollers, pc[p] # "idle"
      PROVE  task[p] \in Task /\ task[p].op = "write" /\ task[p].on \in Dispatchers
  <2>1. task[p].op = "write"
    BY <1>1 DEF Dropped
  <2>2. task[p] \in Task
    BY <2>1, MapTypeFacts DEF NoTask
  <2> QED
    BY <2>1, <2>2, TasksOf
<1>2. ASSUME NEW p \in Pollers, NEW i \in DOMAIN queue[p], queue[p][i].op # "dealloc"
      PROVE  queue[p][i].on \in Dispatchers
  <2>1. queue[p][i] \in Task
    BY TasksOf
  <2> QED
    BY <1>2, <2>1, TasksOf
<1> QED
  BY <1>1, <1>2

(* In the queue, or one of those before. *)
LEMMA TasksHomeKept ==
  ASSUME MapTypes, Dropped, TasksHome, UNCHANGED <<pc, task>>,
         \A d \in Dispatchers : home[d] # None => home'[d] = home[d],
         \A p \in Pollers : \A i \in DOMAIN queue'[p] :
           \/ \E j \in DOMAIN queue[p] : queue'[p][i] = queue[p][j]
           \/ queue'[p][i].op # "dealloc" =>
                queue'[p][i].on \in Dispatchers /\ home[queue'[p][i].on] = p
  PROVE  TasksHome'
<1>1. ASSUME NEW p \in Pollers, NEW i \in DOMAIN queue'[p], queue'[p][i].op # "dealloc"
      PROVE  home'[queue'[p][i].on] = p
  <2> DEFINE d == queue'[p][i].on
  <2>1. d \in Dispatchers /\ home[d] = p
    <3>1. CASE \E j \in DOMAIN queue[p] : queue'[p][i] = queue[p][j]
      <4>1. PICK j \in DOMAIN queue[p] : queue'[p][i] = queue[p][j]
        BY <3>1
      <4>2. queue[p][j].op # "dealloc"
        BY <1>1, <4>1
      <4>3. queue[p][j].on \in Dispatchers /\ home[queue[p][j].on] = p
        BY <4>2, TasksNamed DEF TasksHome
      <4> QED
        BY <4>1, <4>3
    <3>2. CASE ~\E j \in DOMAIN queue[p] : queue'[p][i] = queue[p][j]
      BY <1>1, <3>2
    <3> QED
      BY <3>1, <3>2
  <2> HIDE DEF d
  <2>2. home'[d] = p
    BY <2>1, MapTypeFacts
  <2> QED
    BY <2>2 DEF d
<1>2. ASSUME NEW p \in Pollers, pc[p] # "idle" PROVE home'[task[p].on] = p
  <2>1. task[p].on \in Dispatchers /\ home[task[p].on] = p
    BY <1>2, TasksNamed DEF TasksHome
  <2> QED
    BY <2>1, MapTypeFacts
<1> QED
  BY <1>1, <1>2 DEF TasksHome

LEMMA ToAllHome ==
  ASSUME MapTypes, Homes, Dropped, TasksHome, NEW op \in {"write", "clear"}, NEW n,
         \A d \in Dispatchers : [op |-> op, on |-> d, n |-> n] \in Task, ToAll(op, n),
         UNCHANGED <<home, pc, task>>
  PROVE  TasksHome'
<1>1. ASSUME NEW p \in Pollers, NEW i \in DOMAIN queue'[p]
      PROVE  \/ \E j \in DOMAIN queue[p] : queue'[p][i] = queue[p][j]
             \/ queue'[p][i].on \in Dispatchers /\ home[queue'[p][i].on] = p
  <2>1. CASE dispatcher[p] = None
    BY <1>1, <2>1 DEF ToAll
  <2>2. CASE dispatcher[p] # None
    <3> DEFINE t == [op |-> op, on |-> dispatcher[p], n |-> n]
    <3>1. queue'[p] = Append(queue[p], t) /\ t \in Task /\ t.on = dispatcher[p]
      BY <2>2, MapTypeFacts DEF ToAll
    <3>2. dispatcher[p] \in Dispatchers /\ home[dispatcher[p]] = p
      BY <2>2, MapTypeFacts DEF Homes
    <3> HIDE DEF t
    <3>3. /\ DOMAIN queue'[p] = DOMAIN queue[p] \union {Len(queue[p]) + 1}
          /\ \A j \in DOMAIN queue[p] : queue'[p][j] = queue[p][j]
          /\ queue'[p][Len(queue[p]) + 1] = t
      BY <3>1, Appended, TasksOf
    <3> QED
      BY <1>1, <3>1, <3>2, <3>3
  <2> QED
    BY <2>1, <2>2
<1> QED
  BY <1>1, TasksHomeKept

LEMMA LogFacts ==
  ASSUME MapTypes
  PROVE  log \in Seq(BOOLEAN) /\ Len(log) \in Nat /\ Len(log) <= MaxLog
  BY LenProperties DEF MapTypes

LEMMA WriteCaches ==
  ASSUME IInv, CacheInv, NEW is_key \in BOOLEAN, Write(is_key)
  PROVE  CacheInv'
<1> DEFINE n == Len(log)
<1>1. /\ ToAll("write", n + 1) /\ log' = Append(log, is_key) /\ n < MaxLog
      /\ storage' = StorageWrite(storage, n + 1, is_key)
      /\ UNCHANGED <<ring, total, dispatcher, dispatcherVars, pc, task, left, pin, readerVars>>
  BY DEF Write
<1>2. /\ log \in Seq(BOOLEAN) /\ n \in Nat /\ n + 1 \in Numbers
      /\ log' \in Seq(BOOLEAN) /\ Len(log') = n + 1 /\ log'[n + 1] = is_key
  BY <1>1, LogFacts, AppendProperties DEF Numbers, IInv
<1>3. \A d \in Dispatchers : [op |-> "write", on |-> d, n |-> n + 1] \in Task
  BY <1>2 DEF Task, Numbers
<1> HIDE DEF n
<1>4. Keeps(storage', log', Len(log'))
  <2>1. Keeps(storage, log, n) /\ n <= Len(log)
    BY <1>2 DEF CacheInv, CacheTypes, n
  <2>2. Keeps(storage, log', n)
    BY <1>1, <1>2, <2>1, KeepsLonger
  <2>3. Keeps(StorageWrite(storage, n + 1, log'[n + 1]), log', n + 1)
    BY <1>2, <2>2, StorageWriteKeeps
  <2> QED
    BY <1>1, <1>2, <2>3
<1>5. CacheTypes'
  BY <1>1, <1>4 DEF CacheInv, CacheTypes, dispatcherVars, readerVars
<1>6. TasksHome'
  BY <1>1, <1>3, ToAllHome DEF IInv, CacheInv, dispatcherVars
<1>7. ASSUME NEW d \in Dispatchers, home[d] # None
      PROVE  \E y \in Nat : \E z \in Nat : Told(d, y, z)'
  <2> DEFINE p == home[d]
             q == queue[p]
             t == task[p]
  <2>1. p \in Pollers /\ q \in Seq(Task)
    BY <1>7, MapTypeFacts DEF IInv
  <2>2. PICK y \in Nat, z \in Nat : Told(d, y, z)
    BY <1>7 DEF CacheInv, Caught
  <2>3. /\ z <= n /\ (dispatcher[p] = d => z = n) /\ Keeps(cache[d], log, y)
        /\ Line(q, t, d, y, z)
    BY <2>2 DEF Told, n
  <2>4. y <= z
    BY <2>3 DEF Line
  <2>5. Keeps(cache[d], log', y)
    <3>1. y <= Len(log)
      BY <1>2, <2>3, <2>4 DEF n
    <3> QED
      BY <1>1, <1>2, <2>3, <3>1, KeepsLonger
  <2>6. UNCHANGED <<home, cache, dispatcher, task>>
    BY <1>1 DEF dispatcherVars
  <2>7. CASE dispatcher[p] = None
    <3>1. queue'[p] = q
      BY <1>1, <2>1, <2>7 DEF ToAll
    <3>2. dispatcher[p] # d /\ z <= n + 1
      BY <1>2, <2>3, <2>7, MapTypeFacts DEF IInv
    <3>3. Told(d, y, z)'
      BY <1>2, <2>3, <2>5, <2>6, <3>1, <3>2 DEF Told
    <3> QED
      BY <3>3
  <2>8. CASE dispatcher[p] # None
    <3> DEFINE e == [op |-> "write", on |-> dispatcher[p], n |-> n + 1]
    <3>1. queue'[p] = Append(q, e) /\ e \in Task /\ e.op = "write" /\ e.on = dispatcher[p]
          /\ e.n = n + 1
      BY <1>1, <1>3, <2>1, <2>8, MapTypeFacts DEF ToAll, IInv
    <3> HIDE DEF e, p, q, t
    <3>2. CASE dispatcher[p] = d
      <4>1. z = n /\ z + 1 = Len(log') /\ z + 1 \in Nat
        BY <1>2, <2>3, <3>2
      <4>2. Line(Append(q, e), t, d, y, z + 1)
        BY <2>1, <2>3, <3>1, <3>2, <4>1, LineAppend
      <4>3. Line(queue'[p], t, d, y, z + 1)
        BY <3>1, <4>2
      <4>4. z + 1 <= Len(log')
        BY <4>1
      <4>5. Told(d, y, z + 1)'
        BY <2>5, <2>6, <4>1, <4>3, <4>4 DEF Told, p, t
      <4> QED
        BY <4>1, <4>5
    <3>3. CASE dispatcher[p] # d
      <4>1. Line(Append(q, e), t, d, y, z)
        BY <2>1, <2>3, <3>1, <3>3, LineSame
      <4>2. Line(queue'[p], t, d, y, z)
        BY <3>1, <4>1
      <4>3. z <= Len(log')
        BY <1>2, <2>3
      <4>4. Told(d, y, z)'
        BY <2>5, <2>6, <3>3, <4>2, <4>3 DEF Told, p, t
      <4> QED
        BY <4>4
    <3> QED
      BY <3>2, <3>3
  <2> QED
    BY <2>7, <2>8
<1>8. Caught'
  BY <1>1, <1>7 DEF Caught, dispatcherVars
<1> QED
  BY <1>5, <1>6, <1>8 DEF CacheInv

LEMMA ClearAllCaches ==
  ASSUME IInv, CacheInv, ClearAll
  PROVE  CacheInv'
<1>1. /\ ToAll("clear", 0) /\ storage' = ClearCache(storage)
      /\ UNCHANGED <<ring, log, total, dispatcher, dispatcherVars, pc, task, left, pin,
                     readerVars>>
  BY DEF ClearAll
<1>2. \A d \in Dispatchers : [op |-> "clear", on |-> d, n |-> 0] \in Task
  BY DEF Task
<1>3. Keeps(storage', log', Len(log'))
  <2>1. Keeps(storage, log, Len(log)) /\ Len(log) \in Nat
    BY LogFacts DEF CacheInv, CacheTypes, IInv
  <2>2. storage \in Storage(Numbers) /\ Unstarted(storage, log, Len(log))
    BY <2>1 DEF Keeps
  <2>3. Keeps(ClearCache(storage), log, Len(log))
    BY <2>1, <2>2, ClearKeeps
  <2> QED
    BY <1>1, <2>3
<1>4. CacheTypes'
  BY <1>1, <1>3 DEF CacheInv, CacheTypes, dispatcherVars, readerVars
<1>5. TasksHome'
  BY <1>1, <1>2, ToAllHome DEF IInv, CacheInv, dispatcherVars
<1>6. ASSUME NEW d \in Dispatchers, home[d] # None
      PROVE  \E y \in Nat : \E z \in Nat : Told(d, y, z)'
  <2> DEFINE p == home[d]
             q == queue[p]
             t == task[p]
  <2>1. p \in Pollers /\ q \in Seq(Task)
    BY <1>6, MapTypeFacts DEF IInv
  <2>2. PICK y \in Nat, z \in Nat : Told(d, y, z)
    BY <1>6 DEF CacheInv, Caught
  <2>3. Line(q, t, d, y, z)
    BY <2>2 DEF Told
  <2>4. Line(queue'[p], t, d, y, z)
    <3>1. CASE dispatcher[p] = None
      <4>1. queue'[p] = q
        BY <1>1, <2>1, <3>1 DEF ToAll
      <4> QED
        BY <2>3, <4>1
    <3>2. CASE dispatcher[p] # None
      <4> DEFINE e == [op |-> "clear", on |-> dispatcher[p], n |-> 0]
      <4>1. queue'[p] = Append(q, e) /\ e \in Task /\ e.op = "clear"
        BY <1>1, <1>2, <2>1, <3>2, MapTypeFacts DEF ToAll, IInv
      <4> HIDE DEF e, p, q, t
      <4>2. Line(Append(q, e), t, d, y, z)
        BY <2>1, <2>3, <4>1, LineSame
      <4> QED
        BY <4>1, <4>2
    <3> QED
      BY <3>1, <3>2
  <2>5. Told(d, y, z)'
    BY <1>1, <2>2, <2>4 DEF Told, dispatcherVars
  <2> QED
    BY <2>5
<1>7. Caught'
  BY <1>1, <1>6 DEF Caught, dispatcherVars
<1> QED
  BY <1>4, <1>5, <1>7 DEF CacheInv

LEMMA MakeCaches ==
  ASSUME IInv, CacheInv, NEW p \in Pollers, NEW M, dispatcher[p] = None, Unmade # {},
         MakeDispatcher(p, Fresh, M), UNCHANGED <<log, storage, pollerVars>>
  PROVE  TasksHome' /\ Caught' /\ cache' \in [Dispatchers -> Storage(Numbers)]
<1>0. PICK f \in Dispatchers : f = Fresh
  BY FreshFacts DEF IInv
<1>1. /\ home[f] = None /\ \A q \in Pollers : dispatcher[q] # f
      /\ home' = [home EXCEPT ![f] = p] /\ dispatcher' = [dispatcher EXCEPT ![p] = f]
      /\ cache' = [cache EXCEPT ![f] = storage]
  BY <1>0, FreshFacts DEF MakeDispatcher, IInv
<1>2. /\ home'[f] = p /\ cache'[f] = storage /\ dispatcher'[p] = f
      /\ \A d \in Dispatchers \ {f} : home'[d] = home[d] /\ cache'[d] = cache[d]
      /\ \A q \in Pollers \ {p} : dispatcher'[q] = dispatcher[q]
      /\ log' = log /\ queue' = queue /\ task' = task /\ pc' = pc
      /\ p # None /\ f # None
  BY <1>1, MapTypeFacts DEF IInv, CacheInv, CacheTypes, pollerVars
<1>3. Keeps(storage, log, Len(log)) /\ Len(log) \in Nat /\ storage \in Storage(Numbers)
  BY LogFacts DEF CacheInv, CacheTypes, IInv, Keeps
<1>4. cache' \in [Dispatchers -> Storage(Numbers)]
  BY <1>1, <1>3 DEF CacheInv, CacheTypes
<1>5. TasksHome'
  <2>1. \A d \in Dispatchers : home[d] # None => home'[d] = home[d]
    BY <1>1, <1>2
  <2> QED
    BY <1>2, <2>1, TasksHomeKept DEF IInv, CacheInv
<1>6. ASSUME NEW d \in Dispatchers, home'[d] # None
      PROVE  \E y \in Nat : \E z \in Nat : Told(d, y, z)'
  <2>1. CASE d = f
    <3>0. PICK n \in Nat : n = Len(log)
      BY <1>3
    <3>1. queue[p] \in Seq(Task)
      BY MapTypeFacts DEF IInv
    <3>2. WritesTo(queue[p], f) = {}
      <4>1. ASSUME NEW i \in DOMAIN queue[p], queue[p][i].op = "write" PROVE queue[p][i].on # f
        <5>1. home[queue[p][i].on] = p
          BY <4>1 DEF CacheInv, TasksHome
        <5> QED
          BY <1>1, <1>2, <5>1
      <4> QED
        BY <4>1 DEF WritesTo
    <3>3. task[p].on # f
      <4>1. CASE pc[p] = "idle"
        <5>1. task[p] = NoTask
          BY <4>1 DEF CacheInv, TasksHome
        <5> QED
          BY <1>2, <5>1 DEF NoTask
      <4>2. CASE pc[p] # "idle"
        <5>1. home[task[p].on] = p
          BY <4>2 DEF CacheInv, TasksHome
        <5> QED
          BY <1>1, <1>2, <5>1
      <4> QED
        BY <4>1, <4>2
    <3>4. n \in Nat /\ n + 0 <= n /\ n + 0 + 1 .. n = {}
      BY <3>0
    <3>5. Line(queue[p], task[p], f, n, n)
      <4>1. {queue[p][i].n : i \in WritesTo(queue[p], f)} = {}
        BY <3>2
      <4> QED
        BY <3>2, <3>3, <3>4, <4>1 DEF Line
    <3>6. n <= Len(log) /\ n = Len(log)
      BY <3>0
    <3>7. Told(f, n, n)'
      BY <1>2, <1>3, <3>5, <3>6 DEF Told
    <3> QED
      BY <2>1, <3>0, <3>7
  <2>2. CASE d # f
    <3>1. home'[d] = home[d] /\ cache'[d] = cache[d] /\ home[d] \in Pollers
      BY <1>2, <1>6, <2>2, MapTypeFacts DEF IInv
    <3>2. PICK y \in Nat, z \in Nat : Told(d, y, z)
      BY <1>6, <3>1 DEF CacheInv, Caught
    <3>3. dispatcher'[home[d]] = d => dispatcher[home[d]] = d
      BY <1>2, <2>2, <3>1
    <3>4. Told(d, y, z)'
      BY <1>2, <3>1, <3>2, <3>3, ToldKept
    <3> QED
      BY <3>4
  <2> QED
    BY <2>1, <2>2
<1>7. Caught'
  BY <1>6 DEF Caught
<1> QED
  BY <1>4, <1>5, <1>7

LEMMA HomeCaches ==
  ASSUME IInv, CacheInv, UNCHANGED <<log, home, cache, queue, task, pc>>,
         \A p \in Pollers : dispatcher'[p] \in {dispatcher[p], None}
  PROVE  TasksHome' /\ Caught'
<1>1. Caught'
  BY CaughtKept DEF IInv, CacheInv
<1>2. TasksHome'
  BY DEF CacheInv, TasksHome
<1> QED
  BY <1>1, <1>2

LEMMA AttachCaches ==
  ASSUME IInv, CacheInv, NEW p \in Pollers, NEW r \in Readers, Attach(p, r)
  PROVE  CacheInv'
<1>1. UNCHANGED <<ring, log, storage, deleted, pollerVars, hearing, got, detached>>
  BY DEF Attach
<1>2. TasksHome' /\ Caught' /\ cache' \in [Dispatchers -> Storage(Numbers)]
  <2>1. CASE dispatcher[p] = None
    <3>1. MakeDispatcher(p, Fresh, {r}) /\ Unmade # {}
      BY <2>1 DEF Attach
    <3> QED
      BY <1>1, <2>1, <3>1, MakeCaches
  <2>2. CASE dispatcher[p] # None
    <3>1. UNCHANGED <<dispatcher, home, cache>>
      BY <2>2 DEF Attach
    <3>2. \A q \in Pollers : dispatcher'[q] \in {dispatcher[q], None}
      BY <3>1
    <3>3. TasksHome' /\ Caught'
      BY <1>1, <3>1, <3>2, HomeCaches DEF pollerVars
    <3> QED
      BY <3>1, <3>3 DEF CacheInv, CacheTypes
  <2> QED
    BY <2>1, <2>2
<1>3. CacheTypes'
  BY <1>1, <1>2 DEF CacheInv, CacheTypes, pollerVars
<1> QED
  BY <1>2, <1>3 DEF CacheInv

LEMMA AttachElsewhereCaches ==
  ASSUME IInv, CacheInv, NEW p \in Pollers, AttachElsewhere(p)
  PROVE  CacheInv'
<1>1. /\ UNCHANGED <<ring, log, storage, total, deleted, pollerVars, readerVars>>
      /\ MakeDispatcher(p, Fresh, {}) /\ Unmade # {} /\ dispatcher[p] = None
  BY DEF AttachElsewhere
<1>2. TasksHome' /\ Caught' /\ cache' \in [Dispatchers -> Storage(Numbers)]
  BY <1>1, MakeCaches
<1>3. CacheTypes'
  BY <1>1, <1>2 DEF CacheInv, CacheTypes, pollerVars, readerVars
<1> QED
  BY <1>2, <1>3 DEF CacheInv

(* Steps that leave the caches and the queues of packets alone. *)
LEMMA QuietCaches ==
  ASSUME IInv, CacheInv, UNCHANGED <<log, storage, home, cache, queue, task, pc>>,
         \A p \in Pollers : dispatcher'[p] \in {dispatcher[p], None},
         left' \in [Pollers -> SUBSET Readers], hearing' \subseteq Readers,
         got' \in [Readers -> Seq(Numbers)], detached' \subseteq Readers
  PROVE  CacheInv'
<1>1. TasksHome' /\ Caught'
  BY HomeCaches
<1>2. CacheTypes'
  BY DEF CacheInv, CacheTypes
<1> QED
  BY <1>1, <1>2 DEF CacheInv

LEMMA DestroyCaches ==
  ASSUME IInv, CacheInv, Destroy
  PROVE  CacheInv'
<1>1. /\ dispatcher' = [p \in Pollers |-> None]
      /\ UNCHANGED <<log, storage, total, dispatcherVars, pollerVars, readerVars>>
  BY DEF Destroy
<1>2. \A p \in Pollers : dispatcher'[p] \in {dispatcher[p], None}
  BY <1>1
<1>3. /\ UNCHANGED <<log, storage, home, cache, queue, task, pc>>
      /\ left' \in [Pollers -> SUBSET Readers] /\ hearing' \subseteq Readers
      /\ got' \in [Readers -> Seq(Numbers)] /\ detached' \subseteq Readers
  BY <1>1 DEF dispatcherVars, pollerVars, readerVars, CacheInv, CacheTypes
<1> QED
  BY <1>2, <1>3, QuietCaches

LEMMA StutterCaches ==
  ASSUME IInv, CacheInv, UNCHANGED vars
  PROVE  CacheInv'
<1>1. \A p \in Pollers : dispatcher'[p] \in {dispatcher[p], None}
  BY DEF vars, ringVars
<1>2. /\ UNCHANGED <<log, storage, home, cache, queue, task, pc>>
      /\ left' \in [Pollers -> SUBSET Readers] /\ hearing' \subseteq Readers
      /\ got' \in [Readers -> Seq(Numbers)] /\ detached' \subseteq Readers
  BY DEF vars, ringVars, dispatcherVars, pollerVars, readerVars, CacheInv, CacheTypes
<1> QED
  BY <1>1, <1>2, QuietCaches

(* A reader's callback is given packets. *)
LEMMA CachedPackets ==
  ASSUME IInv, CacheInv, NEW r \in Readers, of[r] # None
  PROVE  Packets(cache[of[r]]) \in Seq(Numbers)
<1>1. of[r] \in Dispatchers /\ home[of[r]] # None
  BY MapTypeFacts DEF IInv, Homes
<1>2. PICK y \in Nat, z \in Nat : Told(of[r], y, z)
  BY <1>1 DEF CacheInv, Caught
<1>3. Keeps(cache[of[r]], log, y)
  BY <1>2 DEF Told
<1> QED
  BY <1>3, KeepsPackets

LEMMA SetReadCBCaches ==
  ASSUME IInv, CacheInv, NEW r \in Readers, SetReadCB(r)
  PROVE  CacheInv'
<1>1. /\ r \in held /\ hearing' = hearing \union {r}
      /\ got' = [got EXCEPT ![r] = IF r \in Cached THEN Packets(cache[of[r]]) ELSE <<>>]
      /\ UNCHANGED <<ringVars, dispatcherVars, pollerVars, of, held, detached>>
  BY DEF SetReadCB
<1>2. Packets(cache[of[r]]) \in Seq(Numbers)
  BY <1>1, CachedPackets DEF IInv, Homes
<1>3. got' \in [Readers -> Seq(Numbers)]
  <2> DEFINE c == IF r \in Cached THEN Packets(cache[of[r]]) ELSE <<>>
  <2>1. c \in Seq(Numbers)
    BY <1>2
  <2> HIDE DEF c
  <2>2. got' = [got EXCEPT ![r] = c]
    BY <1>1 DEF c
  <2> QED
    BY <2>1, <2>2 DEF CacheInv, CacheTypes
<1>4. \A p \in Pollers : dispatcher'[p] \in {dispatcher[p], None}
  BY <1>1 DEF ringVars
<1>5. /\ UNCHANGED <<log, storage, home, cache, queue, task, pc>>
      /\ left' \in [Pollers -> SUBSET Readers] /\ hearing' \subseteq Readers
      /\ detached' \subseteq Readers
  BY <1>1 DEF ringVars, dispatcherVars, pollerVars, CacheInv, CacheTypes
<1> QED
  BY <1>3, <1>4, <1>5, QuietCaches

(* Unlinking a reader may take its dispatcher out of the map.              *)
LEMMA UnlinkDispatcher ==
  ASSUME MapTypes, NEW d, NEW r, Unlink(d, r)
  PROVE  \A p \in Pollers : dispatcher'[p] \in {dispatcher[p], None}
<1>1. dispatcher' = dispatcher \/ dispatcher' = [dispatcher EXCEPT ![home[d]] = None]
  BY DEF Unlink
<1> QED
  BY <1>1, MapTypeFacts

LEMMA DeallocDispatcher ==
  ASSUME MapTypes, NEW r, Dealloc(r)
  PROVE  \A p \in Pollers : dispatcher'[p] \in {dispatcher[p], None}
<1>1. Unlink(of[r], r) \/ dispatcher' = dispatcher
  BY DEF Dealloc
<1> QED
  BY <1>1, UnlinkDispatcher

(* A step at poller p: what it does to the packets in line there.          *)
LEMMA CaughtAt ==
  ASSUME MapTypes, Caught, NEW p \in Pollers, UNCHANGED <<log, home>>,
         \A q \in Pollers : dispatcher'[q] \in {dispatcher[q], None},
         \A q \in Pollers \ {p} : queue'[q] = queue[q] /\ task'[q] = task[q],
         \A d \in Dispatchers : home[d] # p => cache'[d] = cache[d],
         \A d \in Dispatchers : \A y \in Nat : \A z \in Nat :
           home[d] = p /\ z <= Len(log) /\ Keeps(cache[d], log, y)
               /\ Line(queue[p], task[p], d, y, z)
             => \E w \in Nat : Keeps(cache'[d], log, w) /\ Line(queue'[p], task'[p], d, w, z)
  PROVE  Caught'
<1> SUFFICES ASSUME NEW d \in Dispatchers, home[d] # None
             PROVE  \E y \in Nat : \E z \in Nat : Told(d, y, z)'
  BY DEF Caught
<1>1. home[d] \in Pollers /\ d # None
  BY MapTypeFacts
<1>2. PICK y \in Nat, z \in Nat : Told(d, y, z)
  BY DEF Caught
<1>3. dispatcher'[home[d]] = d => dispatcher[home[d]] = d
  BY <1>1
<1>4. CASE home[d] # p
  <2>1. Told(d, y, z)'
    BY <1>1, <1>2, <1>3, <1>4, ToldKept
  <2> QED
    BY <2>1
<1>5. CASE home[d] = p
  <2>1. /\ z <= Len(log) /\ (dispatcher[p] = d => z = Len(log))
        /\ Keeps(cache[d], log, y) /\ Line(queue[p], task[p], d, y, z)
    BY <1>2, <1>5 DEF Told
  <2>2. PICK w \in Nat : Keeps(cache'[d], log, w) /\ Line(queue'[p], task'[p], d, w, z)
    BY <1>5, <2>1
  <2>3. Told(d, w, z)'
    BY <1>3, <1>5, <2>1, <2>2 DEF Told
  <2> QED
    BY <2>3
<1> QED
  BY <1>4, <1>5

(* A step at a poller that takes or ends a task there.                     *)
LEMMA TasksHomeStep ==
  ASSUME MapTypes, Dropped, TasksHome, home' = home,
         \A p \in Pollers : \A i \in DOMAIN queue'[p] :
           \E j \in DOMAIN queue[p] : queue'[p][i] = queue[p][j],
         \A p \in Pollers : pc'[p] # "idle" =>
           (pc[p] # "idle" /\ task'[p] = task[p]) \/ home[task'[p].on] = p,
         \A p \in Pollers : pc'[p] = "idle" =>
           task'[p] = NoTask \/ (pc[p] = "idle" /\ task'[p] = task[p])
  PROVE  TasksHome'
<1>1. \A p \in Pollers : \A i \in DOMAIN queue'[p] :
        queue'[p][i].op # "dealloc" => home[queue'[p][i].on] = p
  BY DEF TasksHome
<1>2. \A p \in Pollers : pc'[p] # "idle" => home[task'[p].on] = p
  BY DEF TasksHome
<1>3. \A p \in Pollers : pc'[p] = "idle" => task'[p] = NoTask
  BY DEF TasksHome
<1> QED
  BY <1>1, <1>2, <1>3 DEF TasksHome

(* The rest of CacheInv when only these change. *)
LEMMA ForgetTypes ==
  ASSUME CacheTypes, NEW r, Forget(r)
  PROVE  hearing' \subseteq Readers /\ got' \in [Readers -> Seq(Numbers)]
<1> DEFINE e == <<>>
<1>1. e \in Seq(Numbers)
  OBVIOUS
<1>2. got' = [got EXCEPT ![r] = e] /\ hearing' \subseteq hearing
  BY DEF Forget
<1> HIDE DEF e
<1> QED
  BY <1>1, <1>2 DEF CacheTypes

LEMMA ReleaseCaches ==
  ASSUME IInv, CacheInv, NEW x, NEW r \in Readers, Release(x, r)
  PROVE  CacheInv'
<1>1. /\ UNCHANGED <<log, storage, home, cache, pc, task, left, detached>>
      /\ hearing' \subseteq Readers /\ got' \in [Readers -> Seq(Numbers)]
  <2>1. UNCHANGED <<hearing, got>> \/ Forget(r)
    BY DEF Release
  <2> QED
    BY <2>1, ForgetTypes DEF Release, CacheInv, CacheTypes
<1>2. /\ left' \in [Pollers -> SUBSET Readers] /\ detached' \subseteq Readers
  BY <1>1 DEF CacheInv, CacheTypes
<1>3. of[r] \in Dispatchers /\ home[of[r]] \in Pollers
  BY MapTypeFacts DEF Release, IInv, Homes
<1>4. CASE UNCHANGED queue
  <2>1. \A p \in Pollers : dispatcher'[p] \in {dispatcher[p], None}
    <3>1. UNCHANGED dispatcher \/ Dealloc(r)
      BY DEF Release
    <3> QED
      BY <3>1, DeallocDispatcher DEF IInv
  <2> QED
    BY <1>1, <1>2, <1>4, <2>1, QuietCaches
<1>5. CASE /\ queue' = [queue EXCEPT ![home[of[r]]] =
                          Append(@, [op |-> "dealloc", on |-> r, n |-> 0])]
           /\ UNCHANGED <<members, total, dispatcher>>
  <2> DEFINE h == home[of[r]]
             t == [op |-> "dealloc", on |-> r, n |-> 0]
  <2>1. t \in Task /\ t.op = "dealloc"
    BY DEF Task
  <2>2. h \in Pollers /\ queue' = [queue EXCEPT ![h] = Append(@, t)]
    BY <1>3, <1>5
  <2> HIDE DEF t
  <2>3. PICK p \in Pollers : p = h
    BY <2>2
  <2>4. /\ queue'[p] = Append(queue[p], t) /\ \A q \in Pollers \ {p} : queue'[q] = queue[q]
        /\ queue[p] \in Seq(Task)
    BY <2>2, <2>3, MapTypeFacts DEF IInv
  <2> HIDE DEF h
  <2>5. TasksHome'
    <3>1. ASSUME NEW q \in Pollers, NEW i \in DOMAIN queue'[q]
          PROVE  \/ \E j \in DOMAIN queue[q] : queue'[q][i] = queue[q][j]
                 \/ queue'[q][i].op = "dealloc"
      <4>1. CASE q = p
        <5>1. /\ DOMAIN Append(queue[p], t) = DOMAIN queue[p] \union {Len(queue[p]) + 1}
              /\ \A j \in DOMAIN queue[p] : Append(queue[p], t)[j] = queue[p][j]
              /\ Append(queue[p], t)[Len(queue[p]) + 1] = t
          BY <2>1, <2>4, Appended
        <5>2. i \in DOMAIN queue[p] \/ i = Len(queue[p]) + 1
          BY <2>4, <3>1, <4>1, <5>1
        <5>3. CASE i \in DOMAIN queue[p]
          BY <2>4, <4>1, <5>1, <5>3
        <5>4. CASE i = Len(queue[p]) + 1
          BY <2>1, <2>4, <4>1, <5>1, <5>4
        <5> QED
          BY <5>2, <5>3, <5>4
      <4>2. CASE q # p
        BY <2>4, <3>1, <4>2
      <4> QED
        BY <4>1, <4>2
    <3> QED
      BY <1>1, <3>1, TasksHomeKept DEF IInv, CacheInv
  <2>6. Caught'
    <3>1. ASSUME NEW d \in Dispatchers, NEW y \in Nat, NEW z \in Nat,
                 Line(queue[p], task[p], d, y, z)
          PROVE  Line(queue'[p], task'[p], d, y, z)
      <4>1. Line(Append(queue[p], t), task[p], d, y, z)
        BY <2>1, <2>4, <3>1, LineSame
      <4> QED
        BY <1>1, <2>4, <4>1
    <3>2. \A q \in Pollers : dispatcher'[q] \in {dispatcher[q], None}
      BY <1>5
    <3> QED
      BY <1>1, <2>4, <3>1, <3>2, CaughtAt DEF IInv, CacheInv
  <2>7. CacheTypes'
    BY <1>1, <1>2 DEF CacheInv, CacheTypes
  <2> QED
    BY <2>5, <2>6, <2>7 DEF CacheInv
<1> QED
  BY <1>4, <1>5 DEF Release

(* The poller's next task is not a packet for d, or it is taken.           *)
LEMMA TakeLine ==
  ASSUME MapTypes, NEW p \in Pollers, NEW op, Take(p, op)
  PROVE  /\ queue[p] \in Seq(Task) /\ queue[p] # <<>> /\ Head(queue[p]).op = op
         /\ pc[p] = "idle"
         /\ queue'[p] = Tail(queue[p]) /\ \A q \in Pollers \ {p} : queue'[q] = queue[q]
  BY MapTypeFacts DEF Take

(* Tasks other than write leave the packets in line.                       *)
LEMMA TakeOther ==
  ASSUME IInv, CacheInv, NEW p \in Pollers, NEW op, op # "write", Take(p, op),
         UNCHANGED <<log, home, pc, task>>,
         \A q \in Pollers : dispatcher'[q] \in {dispatcher[q], None},
         \A d \in Dispatchers : home[d] # p => cache'[d] = cache[d],
         \A d \in Dispatchers : \A y \in Nat :
           Keeps(cache[d], log, y) => Keeps(cache'[d], log, y)
  PROVE  TasksHome' /\ Caught'
<1>1. /\ queue[p] \in Seq(Task) /\ queue[p] # <<>> /\ Head(queue[p]).op = op
      /\ queue'[p] = Tail(queue[p]) /\ \A q \in Pollers \ {p} : queue'[q] = queue[q]
  BY TakeLine DEF IInv
<1>2. TasksHome'
  <2>1. \A q \in Pollers : \A i \in DOMAIN queue'[q] :
          \E j \in DOMAIN queue[q] : queue'[q][i] = queue[q][j]
    BY TakeKeeps DEF IInv
  <2> QED
    BY <2>1, TasksHomeKept DEF IInv, CacheInv
<1>3. ASSUME NEW d \in Dispatchers, NEW y \in Nat, NEW z \in Nat,
             Line(queue[p], task[p], d, y, z)
      PROVE  Line(queue'[p], task'[p], d, y, z)
  <2>1. Line(Tail(queue[p]), task[p], d, y, z)
    BY <1>1, <1>3, LineTail
  <2> QED
    BY <1>1, <2>1
<1>4. Caught'
  BY <1>1, <1>3, CaughtAt DEF IInv, CacheInv
<1> QED
  BY <1>2, <1>4

LEMMA BeginWriteCaches ==
  ASSUME IInv, CacheInv, NEW p \in Pollers, BeginWrite(p)
  PROVE  CacheInv'
<1> DEFINE u == Head(queue[p])
<1>1. /\ Take(p, "write") /\ task' = [task EXCEPT ![p] = u]
      /\ pc' = [pc EXCEPT ![p] = "loop"] /\ left' = [left EXCEPT ![p] = members[u.on]]
      /\ UNCHANGED <<ringVars, dispatcherVars, pin, readerVars>>
  BY DEF BeginWrite
<1>2. /\ queue[p] \in Seq(Task) /\ queue[p] # <<>> /\ u.op = "write" /\ pc[p] = "idle"
      /\ queue'[p] = Tail(queue[p]) /\ \A q \in Pollers \ {p} : queue'[q] = queue[q]
  BY <1>1, TakeLine DEF IInv
<1>3. /\ u \in Task /\ 1 \in DOMAIN queue[p] /\ queue[p][1] = u
      /\ \A q \in Pollers : \A i \in DOMAIN queue'[q] :
           \E j \in DOMAIN queue[q] : queue'[q][i] = queue[q][j]
  BY <1>1, TakeKeeps DEF IInv
<1>4. u.on \in Dispatchers /\ home[u.on] = p
  BY <1>2, <1>3, TasksOf DEF IInv, CacheInv, TasksHome
<1> HIDE DEF u
<1>5. /\ task'[p] = u /\ pc'[p] = "loop"
      /\ \A q \in Pollers \ {p} : task'[q] = task[q] /\ pc'[q] = pc[q]
      /\ left' \in [Pollers -> SUBSET Readers]
  BY <1>1, <1>4, MapTypeFacts DEF IInv, CacheInv, CacheTypes
<1>6. UNCHANGED <<log, storage, dispatcher, home, cache, hearing, got, detached>>
  BY <1>1 DEF ringVars, dispatcherVars, readerVars
<1>7. TasksHome'
  <2>1. \A q \in Pollers : pc'[q] # "idle" =>
          (pc[q] # "idle" /\ task'[q] = task[q]) \/ home[task'[q].on] = q
    BY <1>4, <1>5
  <2>2. \A q \in Pollers : pc'[q] = "idle" =>
          task'[q] = NoTask \/ (pc[q] = "idle" /\ task'[q] = task[q])
    BY <1>5
  <2> QED
    BY <1>3, <1>6, <2>1, <2>2, TasksHomeStep DEF IInv, CacheInv
<1>8. Caught'
  <2>1. task[p].on \notin Dispatchers
    BY <1>2, MapTypeFacts DEF IInv, CacheInv, TasksHome, NoTask
  <2>2. ASSUME NEW d \in Dispatchers, NEW y \in Nat, NEW z \in Nat,
               Line(queue[p], task[p], d, y, z)
        PROVE  Line(queue'[p], task'[p], d, y, z)
    <3>1. CASE u.on = d
      <4>1. Line(Tail(queue[p]), u, d, y, z)
        BY <1>2, <2>1, <2>2, <3>1, LineTake DEF u
      <4> QED
        BY <1>2, <1>5, <4>1
    <3>2. CASE u.on # d
      <4>1. Line(Tail(queue[p]), task[p], d, y, z)
        BY <1>2, <2>2, <3>2, LineTail DEF u
      <4>2. Line(Tail(queue[p]), u, d, y, z)
        BY <2>1, <3>2, <4>1 DEF Line
      <4> QED
        BY <1>2, <1>5, <4>2
    <3> QED
      BY <3>1, <3>2
  <2>3. \A q \in Pollers : dispatcher'[q] \in {dispatcher[q], None}
    BY <1>6
  <2> QED
    BY <1>2, <1>5, <1>6, <2>2, <2>3, CaughtAt DEF IInv, CacheInv
<1>9. CacheTypes'
  BY <1>5, <1>6 DEF CacheInv, CacheTypes
<1> QED
  BY <1>7, <1>8, <1>9 DEF CacheInv

LEMMA RunClearCaches ==
  ASSUME IInv, CacheInv, NEW p \in Pollers, RunClear(p)
  PROVE  CacheInv'
<1> DEFINE u == Head(queue[p])
<1>1. /\ Take(p, "clear")
      /\ cache' = cache \/ cache' = [cache EXCEPT ![u.on] = ClearCache(@)]
      /\ UNCHANGED <<ringVars, home, members, deleted, pc, task, left, pin, readerVars>>
  BY DEF RunClear
<1>2. u.on \in Dispatchers /\ home[u.on] = p
  BY <1>1, TakeKeeps, TasksOf DEF IInv, CacheInv, TasksHome
<1> HIDE DEF u
<1>3. UNCHANGED <<log, storage, dispatcher, home, pc, task, left, hearing, got, detached>>
  BY <1>1 DEF ringVars, readerVars
<1>4. /\ \A d \in Dispatchers : cache'[d] \in {cache[d], ClearCache(cache[d])}
      /\ \A d \in Dispatchers : home[d] # p => cache'[d] = cache[d]
      /\ DOMAIN cache' = Dispatchers /\ cache' = [d \in Dispatchers |-> cache'[d]]
  BY <1>1, <1>2 DEF CacheInv, CacheTypes
<1>5. ASSUME NEW d \in Dispatchers, NEW y \in Nat, Keeps(cache[d], log, y)
      PROVE  Keeps(cache'[d], log, y)
  <2>1. cache[d] \in Storage(Numbers) /\ Unstarted(cache[d], log, y)
    BY <1>5 DEF Keeps
  <2>2. Keeps(ClearCache(cache[d]), log, y)
    BY <2>1, ClearKeeps
  <2> QED
    BY <1>4, <1>5, <2>2
<1>6. \A d \in Dispatchers : cache'[d] \in Storage(Numbers)
  <2>1. ASSUME NEW d \in Dispatchers PROVE ClearCache(cache[d]) \in Storage(Numbers)
    <3> DEFINE e == <<<<>>>>
               s == cache[d]
    <3>1. e \in Groups
      BY EmptyGroups
    <3>2. s \in Storage(Numbers)
      BY DEF CacheInv, CacheTypes
    <3> HIDE DEF s
    <3> DEFINE c == [s EXCEPT !.gops = e, !.size = 0, !.have_idr = FALSE]
    <3>3. ClearCache(s) = c
      BY DEF ClearCache
    <3>4. c \in Storage(Numbers)
      <4> HIDE DEF e
      <4> QED
        BY <3>1, <3>2 DEF Storage, Groups
    <3> QED
      BY <3>3, <3>4 DEF s
  <2> QED
    BY <1>4, <2>1 DEF CacheInv, CacheTypes
<1>7. CacheTypes'
  <2>1. cache' \in [Dispatchers -> Storage(Numbers)]
    BY <1>4, <1>6
  <2> QED
    BY <1>3, <2>1 DEF CacheInv, CacheTypes
<1>8. \A q \in Pollers : dispatcher'[q] \in {dispatcher[q], None}
  BY <1>3
<1>9. TasksHome' /\ Caught'
  BY <1>1, <1>3, <1>4, <1>5, <1>8, TakeOther
<1> QED
  BY <1>7, <1>9 DEF CacheInv

LEMMA RunDeallocCaches ==
  ASSUME IInv, CacheInv, NEW p \in Pollers, RunDealloc(p)
  PROVE  CacheInv'
<1>1. /\ Take(p, "dealloc") /\ Dealloc(Head(queue[p]).on)
      /\ UNCHANGED <<ring, log, storage, home, cache, deleted, pc, task, left, pin, readerVars>>
  BY DEF RunDealloc
<1>2. \A q \in Pollers : dispatcher'[q] \in {dispatcher[q], None}
  BY <1>1, DeallocDispatcher DEF IInv
<1>3. TasksHome' /\ Caught'
  BY <1>1, <1>2, TakeOther
<1>4. CacheTypes'
  BY <1>1 DEF CacheInv, CacheTypes, readerVars
<1> QED
  BY <1>3, <1>4 DEF CacheInv

(* A step within the loop over the readers.                                *)
LEMMA LoopCaches ==
  ASSUME IInv, CacheInv, NEW p \in Pollers, pc[p] # "idle", pc'[p] # "idle",
         \A q \in Pollers \ {p} : pc'[q] = pc[q],
         UNCHANGED <<log, storage, home, cache, queue, task>>,
         \A q \in Pollers : dispatcher'[q] \in {dispatcher[q], None},
         left' \in [Pollers -> SUBSET Readers], hearing' \subseteq Readers,
         got' \in [Readers -> Seq(Numbers)], detached' \subseteq Readers
  PROVE  CacheInv'
<1>1. Caught'
  BY CaughtKept DEF IInv, CacheInv
<1>2. TasksHome'
  <2>1. \A q \in Pollers : \A i \in DOMAIN queue'[q] :
          \E j \in DOMAIN queue[q] : queue'[q][i] = queue[q][j]
    OBVIOUS
  <2> QED
    BY <2>1, TasksHomeStep DEF IInv, CacheInv
<1>3. CacheTypes'
  BY DEF CacheInv, CacheTypes
<1> QED
  BY <1>1, <1>2, <1>3 DEF CacheInv

LEMMA VisitCaches ==
  ASSUME IInv, CacheInv, NEW p \in Pollers, NEW r \in Readers, Visit(p, r)
  PROVE  CacheInv'
<1>1. /\ pc[p] = "loop" /\ left' = [left EXCEPT ![p] = @ \ {r}]
      /\ UNCHANGED <<ring, log, storage, home, cache, deleted, queue, task, readerVars>>
      /\ pc' = pc \/ pc' = [pc EXCEPT ![p] = "locked"]
      /\ UNCHANGED dispatcher \/ Unlink(task[p].on, r)
  BY DEF Visit
<1>2. pc'[p] # "idle" /\ \A q \in Pollers \ {p} : pc'[q] = pc[q]
  BY <1>1, MapTypeFacts DEF IInv
<1>3. \A q \in Pollers : dispatcher'[q] \in {dispatcher[q], None}
  BY <1>1, UnlinkDispatcher DEF IInv
<1>4. /\ left' \in [Pollers -> SUBSET Readers] /\ hearing' \subseteq Readers
      /\ got' \in [Readers -> Seq(Numbers)] /\ detached' \subseteq Readers
  BY <1>1 DEF CacheInv, CacheTypes, readerVars
<1> QED
  BY <1>1, <1>2, <1>3, <1>4, LoopCaches

LEMMA OnReadCaches ==
  ASSUME IInv, CacheInv, NEW p \in Pollers, OnRead(p)
  PROVE  CacheInv'
<1>1. /\ pc[p] = "locked" /\ pc' = [pc EXCEPT ![p] = "callback"]
      /\ got' = got \/ got' = [got EXCEPT ![pin[p]] = Append(@, task[p].n)]
      /\ UNCHANGED <<ringVars, dispatcherVars, queue, task, left, pin, of, held, hearing,
                     detached>>
  BY DEF OnRead
<1>2. pc'[p] # "idle" /\ \A q \in Pollers \ {p} : pc'[q] = pc[q]
  BY <1>1, MapTypeFacts DEF IInv
<1>3. pin[p] \in Readers /\ task[p].n \in Numbers
  <2>1. task[p] \in Task /\ task[p].op = "write"
    BY <1>1, TasksNamed DEF IInv
  <2>2. task[p].n \in Numbers
    BY <2>1 DEF Task, Numbers
  <2> QED
    BY <1>1, <2>2, MapTypeFacts DEF IInv, Dropped
<1>4. got' \in [Readers -> Seq(Numbers)]
  <2> DEFINE e == Append(got[pin[p]], task[p].n)
  <2>1. e \in Seq(Numbers)
    BY <1>3, AppendProperties DEF CacheInv, CacheTypes
  <2> HIDE DEF e
  <2>2. got' = got \/ got' = [got EXCEPT ![pin[p]] = e]
    BY <1>1 DEF e
  <2> QED
    BY <1>3, <2>1, <2>2 DEF CacheInv, CacheTypes
<1>5. UNCHANGED <<log, storage, dispatcher, home, cache, queue, task, left, hearing, detached>>
  BY <1>1 DEF ringVars, dispatcherVars
<1>6. left' \in [Pollers -> SUBSET Readers] /\ hearing' \subseteq Readers
      /\ detached' \subseteq Readers
  BY <1>5 DEF CacheInv, CacheTypes
<1>7. \A q \in Pollers : dispatcher'[q] \in {dispatcher[q], None}
  BY <1>5
<1> QED
  BY <1>1, <1>2, <1>4, <1>5, <1>6, <1>7, LoopCaches

LEMMA OnReadReturnsCaches ==
  ASSUME IInv, CacheInv, NEW p \in Pollers, OnReadReturns(p)
  PROVE  CacheInv'
<1>1. /\ pc[p] = "callback" /\ pc' = [pc EXCEPT ![p] = "loop"]
      /\ UNCHANGED <<ring, log, storage, home, cache, deleted, queue, task, left, of, held,
                     detached>>
      /\ \/ UNCHANGED <<dispatcher, hearing, got>>
         \/ Dealloc(pin[p]) /\ Forget(pin[p])
  BY DEF OnReadReturns
<1>2. pc'[p] # "idle" /\ \A q \in Pollers \ {p} : pc'[q] = pc[q]
  BY <1>1, MapTypeFacts DEF IInv
<1>3. \A q \in Pollers : dispatcher'[q] \in {dispatcher[q], None}
  BY <1>1, DeallocDispatcher DEF IInv
<1>4. hearing' \subseteq Readers /\ got' \in [Readers -> Seq(Numbers)]
  BY <1>1, ForgetTypes DEF CacheInv, CacheTypes
<1>5. left' \in [Pollers -> SUBSET Readers] /\ detached' \subseteq Readers
  BY <1>1 DEF CacheInv, CacheTypes
<1> QED
  BY <1>1, <1>2, <1>3, <1>4, <1>5, LoopCaches

(* The dispatcher stores the packet it has in hand.                        *)
LEMMA EndWriteCaches ==
  ASSUME IInv, CacheInv, NEW p \in Pollers, EndWrite(p)
  PROVE  CacheInv'
<1> DEFINE t == task[p]
           c == StorageWrite(cache[t.on], t.n, log[t.n])
<1>1. /\ pc[p] = "loop" /\ pc' = [pc EXCEPT ![p] = "idle"]
      /\ cache' = [cache EXCEPT ![t.on] = c]
      /\ task' = [task EXCEPT ![p] = NoTask] /\ left' = [left EXCEPT ![p] = {}]
      /\ UNCHANGED <<ringVars, home, members, deleted, queue, pin, readerVars>>
  BY DEF EndWrite
<1>2. t \in Task /\ t.op = "write" /\ t.on \in Dispatchers /\ home[t.on] = p
  BY <1>1, TasksNamed DEF IInv, CacheInv, TasksHome
<1> HIDE DEF c
<1>3. /\ cache'[t.on] = c
      /\ \A d \in Dispatchers : d # t.on => cache'[d] = cache[d]
      /\ task'[p] = NoTask /\ pc'[p] = "idle"
      /\ \A q \in Pollers \ {p} : task'[q] = task[q] /\ pc'[q] = pc[q]
      /\ left' \in [Pollers -> SUBSET Readers]
  BY <1>1, <1>2, MapTypeFacts DEF IInv, CacheInv, CacheTypes
<1>4. UNCHANGED <<log, storage, dispatcher, home, queue, hearing, got, detached>>
  BY <1>1 DEF ringVars, readerVars
<1>5. queue[p] \in Seq(Task) /\ NoTask.on \notin Dispatchers
  BY MapTypeFacts DEF IInv, NoTask
<1>6. ASSUME NEW y \in Nat, NEW z \in Nat, z <= Len(log), Keeps(cache[t.on], log, y),
             Line(queue[p], t, t.on, y, z)
      PROVE  Keeps(c, log, y + 1) /\ Line(queue[p], NoTask, t.on, y + 1, z)
  <2>1. t.n = y + 1 /\ y + 1 <= z /\ Line(queue[p], NoTask, t.on, y + 1, z)
    <3>1. NoTask.on # t.on
      BY <1>2, <1>5
    <3> DEFINE d == t.on
               q == queue[p]
               u == NoTask
    <3>2. q \in Seq(Task) /\ Line(q, t, d, y, z) /\ t.on = d /\ u.on # d
      BY <1>5, <1>6, <3>1
    <3> HIDE DEF d, q, t, u
    <3>3. t.n = y + 1 /\ y + 1 <= z /\ Line(q, u, d, y + 1, z)
      BY <3>2, LineStore
    <3> QED
      BY <3>3 DEF d, q, u
  <2>2. log \in Seq(BOOLEAN) /\ Len(log) \in Nat /\ Len(log) <= MaxLog
    BY LogFacts DEF IInv
  <2>3. y + 1 \in Numbers
    BY <1>6, <2>1, <2>2 DEF Numbers
  <2>4. Keeps(StorageWrite(cache[t.on], y + 1, log[y + 1]), log, y + 1)
    BY <1>6, <2>2, <2>3, StorageWriteKeeps
  <2> QED
    BY <2>1, <2>4 DEF c
<1>7. Caught'
  <2>1. ASSUME NEW d \in Dispatchers, NEW y \in Nat, NEW z \in Nat, home[d] = p,
               z <= Len(log), Keeps(cache[d], log, y), Line(queue[p], t, d, y, z)
        PROVE  \E w \in Nat : Keeps(cache'[d], log, w) /\ Line(queue'[p], task'[p], d, w, z)
    <3>1. CASE d = t.on
      <4>1. Keeps(c, log, y + 1) /\ Line(queue[p], NoTask, d, y + 1, z)
        BY <1>6, <2>1, <3>1
      <4>2. y + 1 \in Nat
        OBVIOUS
      <4>3. Keeps(cache'[d], log, y + 1) /\ Line(queue'[p], task'[p], d, y + 1, z)
        BY <1>3, <1>4, <3>1, <4>1
      <4> QED
        BY <4>2, <4>3
    <3>2. CASE d # t.on
      <4>1. Line(queue[p], NoTask, d, y, z)
        BY <1>5, <2>1, <3>2 DEF Line
      <4>2. Keeps(cache'[d], log, y) /\ Line(queue'[p], task'[p], d, y, z)
        BY <1>3, <1>4, <2>1, <3>2, <4>1
      <4> QED
        BY <4>2
    <3> QED
      BY <3>1, <3>2
  <2>2. \A d \in Dispatchers : home[d] # p => cache'[d] = cache[d]
    BY <1>2, <1>3
  <2>3. \A q \in Pollers : dispatcher'[q] \in {dispatcher[q], None}
    BY <1>4
  <2>4. \A q \in Pollers \ {p} : queue'[q] = queue[q] /\ task'[q] = task[q]
    BY <1>3, <1>4
  <2> QED
    BY <1>4, <2>1, <2>2, <2>3, <2>4, CaughtAt DEF IInv, CacheInv
<1>8. TasksHome'
  <2>1. \A q \in Pollers : \A i \in DOMAIN queue'[q] :
          \E j \in DOMAIN queue[q] : queue'[q][i] = queue[q][j]
    BY <1>4
  <2>2. \A q \in Pollers : pc'[q] # "idle" => pc[q] # "idle" /\ task'[q] = task[q]
    BY <1>3
  <2>3. \A q \in Pollers : pc'[q] = "idle" =>
          task'[q] = NoTask \/ (pc[q] = "idle" /\ task'[q] = task[q])
    BY <1>3
  <2> QED
    BY <1>4, <2>1, <2>2, <2>3, TasksHomeStep DEF IInv, CacheInv
<1>9. c \in Storage(Numbers)
  <2>1. PICK y \in Nat, z \in Nat : Told(t.on, y, z)
    BY <1>2, MapTypeFacts DEF IInv, CacheInv, Caught
  <2>2. z <= Len(log) /\ Keeps(cache[t.on], log, y) /\ Line(queue[p], t, t.on, y, z)
    BY <1>2, <2>1 DEF Told
  <2>3. Keeps(c, log, y + 1)
    BY <1>6, <2>2
  <2> QED
    BY <2>3 DEF Keeps
<1>10. CacheTypes'
  BY <1>1, <1>3, <1>4, <1>9 DEF CacheInv, CacheTypes
<1> QED
  BY <1>7, <1>8, <1>10 DEF CacheInv

LEMMA DeleteDispatcherCaches ==
  ASSUME IInv, CacheInv, NEW d \in Dispatchers, DeleteDispatcher(d)
  PROVE  CacheInv'
<1>1. /\ UNCHANGED <<ringVars, home, cache, pollerVars, of, held, hearing, got>>
      /\ detached' = detached \union (members[d] \intersect held)
  BY DEF DeleteDispatcher
<1>2. /\ left' \in [Pollers -> SUBSET Readers] /\ hearing' \subseteq Readers
      /\ got' \in [Readers -> Seq(Numbers)] /\ detached' \subseteq Readers
  BY <1>1, MapTypeFacts DEF IInv, CacheInv, CacheTypes, pollerVars
<1>3. \A q \in Pollers : dispatcher'[q] \in {dispatcher[q], None}
  BY <1>1 DEF ringVars
<1>4. UNCHANGED <<log, storage, home, cache, queue, task, pc>>
  BY <1>1 DEF ringVars, pollerVars
<1> QED
  BY <1>2, <1>3, <1>4, QuietCaches

LEMMA InitialCaches == Init => CacheInv
<1> SUFFICES ASSUME Init PROVE CacheInv
  OBVIOUS
<1>1. log = <<>> /\ storage = EmptyStorage /\ cache = [d \in Dispatchers |-> EmptyStorage]
  BY DEF Init
<1>2. Keeps(EmptyStorage, log, 0)
  BY EmptyKeeps
<1>3. Keeps(storage, log, Len(log))
  BY <1>1, <1>2
<1>4. EmptyStorage \in Storage(Numbers)
  BY <1>2 DEF Keeps
<1> HIDE DEF EmptyStorage
<1>5. CacheTypes
  <2>1. cache \in [Dispatchers -> Storage(Numbers)]
    BY <1>1, <1>4
  <2>2. /\ left = [p \in Pollers |-> {}] /\ hearing = {} /\ detached = {}
        /\ got = [r \in Readers |-> <<>>]
    BY DEF Init
  <2>3. got \in [Readers -> Seq(Numbers)]
    BY <2>2
  <2> QED
    BY <1>3, <2>1, <2>2, <2>3 DEF CacheTypes
<1>6. TasksHome
  BY DEF Init, TasksHome
<1>7. Caught
  BY DEF Init, Caught
<1> QED
  BY <1>5, <1>6, <1>7 DEF CacheInv

(* However packets, clears and readers come and go, every dispatcher's     *)
(* cache is what a dispatcher that stored every packet so far would have,  *)
(* and the packets it has yet to store are in its poller's queue, in order *)
(* and without a gap (RingBuffer.h 63-92, 126-189, 326-362).               *)
THEOREM CacheInvariance == Spec => [](IInv /\ CacheInv)
<1>1. IInv /\ CacheInv /\ [Next]_vars => CacheInv'
  <2> SUFFICES ASSUME IInv, CacheInv, [Next]_vars PROVE CacheInv'
    OBVIOUS
  <2>1. ASSUME NEW k \in BOOLEAN, Write(k) PROVE CacheInv'
    BY <2>1, WriteCaches
  <2>2. CASE ClearAll
    BY <2>2, ClearAllCaches
  <2>3. CASE Destroy
    BY <2>3, DestroyCaches
  <2>4. ASSUME NEW p \in Pollers, NEW r \in Readers, Attach(p, r) PROVE CacheInv'
    BY <2>4, AttachCaches
  <2>5. ASSUME NEW p \in Pollers, AttachElsewhere(p) PROVE CacheInv'
    BY <2>5, AttachElsewhereCaches
  <2>6. ASSUME NEW r \in Readers, SetReadCB(r) PROVE CacheInv'
    BY <2>6, SetReadCBCaches
  <2>7. ASSUME NEW x \in Pollers \union {Elsewhere}, NEW r \in Readers, Release(x, r)
        PROVE  CacheInv'
    BY <2>7, ReleaseCaches
  <2>8. ASSUME NEW p \in Pollers, PollerStep(p) PROVE CacheInv'
    <3>1. ASSUME NEW r \in Readers, Visit(p, r) PROVE CacheInv'
      BY <3>1, VisitCaches
    <3>2. ASSUME NEW d \in Dispatchers, DeleteDispatcher(d) PROVE CacheInv'
      BY <3>2, DeleteDispatcherCaches
    <3> QED
      BY <2>8, <3>1, <3>2, BeginWriteCaches, RunClearCaches, RunDeallocCaches, OnReadCaches,
         OnReadReturnsCaches, EndWriteCaches DEF PollerStep
  <2>9. CASE UNCHANGED vars
    BY <2>9, StutterCaches
  <2> QED
    BY <2>1, <2>2, <2>3, <2>4, <2>5, <2>6, <2>7, <2>8, <2>9 DEF Next, Quiet
<1>2. Init => CacheInv
  BY InitialCaches
<1>3. Spec => []IInv
  BY Invariance
<1> QED
  BY <1>1, <1>2, <1>3, PTL DEF Spec

(* Every variable holds a value of its type, caches and packets heard      *)
(* included: a reader's callback is given packets, never a hole.           *)
THEOREM TypeCorrect == Spec => []TypeOK
<1>1. IInv /\ CacheInv => TypeOK
  <2> SUFFICES ASSUME IInv, CacheInv PROVE TypeOK
    OBVIOUS
  <2>1. storage \in Storage(Numbers)
    BY DEF CacheInv, CacheTypes, Keeps
  <2> QED
    BY <2>1 DEF IInv, CacheInv, CacheTypes, MapTypes, TypeOK, Numbers
<1> QED
  BY <1>1, CacheInvariance, PTL

LEMMA KeptIsSound ==
  ASSUME NEW s, NEW n \in Nat, Keeps(s, log, n)
  PROVE  Sound(s, n)
<1> DEFINE c == Packets(s)
<1>1. /\ Len(c) \in Nat /\ s.size = Len(c) /\ Len(c) <= n
      /\ Len(c) <= MaxSize /\ Len(s.gops) <= MaxGops
      /\ c = [k \in 1 .. Len(c) |-> (n + 1 - Len(c)) + k - 1]
      /\ c # <<>> => log[Head(c)] \/ \A j \in 1 .. Head(c) : ~log[j]
  BY KeepsPackets
<1> HIDE DEF c
<1>2. n + 1 - (n + 1 - Len(c)) = Len(c)
  BY <1>1
<1>3. c = Promise!Run(n + 1 - Len(c), n)
  BY <1>1, <1>2 DEF Promise!Run
<1>4. c # <<>> => Promise!Decodable(Head(c))
  BY <1>1 DEF Promise!Decodable
<1> QED
  BY <1>1, <1>3, <1>4 DEF Sound, c

(* What a new reader is given first is the latest packets without a hole,  *)
(* from one a decoder can start at: the ring's cache of all that was       *)
(* written, a dispatcher's of all its readers have heard; both however     *)
(* write (126-143), popFrontGOP (171-187), clearCache (152-158) and clone  *)
(* (160-167) took turns.                                                   *)
THEOREM CachesAreSound == Spec => []CachesSound
<1>1. IInv /\ CacheInv => CachesSound
  <2> SUFFICES ASSUME IInv, CacheInv PROVE CachesSound
    OBVIOUS
  <2>1. Len(log) \in Nat
    BY LogFacts DEF IInv
  <2>2. Sound(storage, Len(log))
    BY <2>1, KeptIsSound DEF CacheInv, CacheTypes
  <2>3. ASSUME NEW p \in Pollers, dispatcher[p] # None
        PROVE  Sound(cache[dispatcher[p]], Stored(dispatcher[p]))
    <3> DEFINE d == dispatcher[p]
    <3>1. d \in Dispatchers /\ home[d] = p /\ p # None
      BY <2>3, MapTypeFacts DEF IInv, Homes
    <3>2. PICK y \in Nat, z \in Nat : Told(d, y, z)
      BY <3>1 DEF CacheInv, Caught
    <3>3. z = Len(log) /\ Keeps(cache[d], log, y) /\ Line(queue[p], task[p], d, y, z)
      BY <3>1, <3>2 DEF Told
    <3>4. queue[p] \in Seq(Task)
      BY MapTypeFacts DEF IInv
    <3> HIDE DEF d
    <3>5. y = z - Cardinality(WritesTo(queue[p], d)) - IF task[p].on = d THEN 1 ELSE 0
      BY <3>3, <3>4, LineCount
    <3>6. Stored(d) = y
      BY <3>1, <3>3, <3>5 DEF Stored, WritesTo
    <3>7. Sound(cache[d], y)
      BY <3>3, KeptIsSound
    <3> QED
      BY <3>6, <3>7 DEF d
  <2> QED
    BY <2>2, <2>3 DEF CachesSound
<1> QED
  BY <1>1, CacheInvariance, PTL
=============================================================================
