--------------------------- MODULE SqlPoolProofs ---------------------------
(***************************************************************************)
(* Theorems about SqlPool and the ResourcePool it uses, for every set of   *)
(* threads, statements and addresses, all sizes of the pool and any number *)
(* of faults.                                                              *)
(***************************************************************************)
EXTENDS SqlPool, SequenceTheorems, TLAPS

USE PoolAssumption, SqlAssumption DEF poolVars, sqlVars

(***************************************************************************)
(* The inductive invariant.                                                *)
(***************************************************************************)

(* A thread has an object from getPtr to the end of recycle.               *)
HeldByPlace ==
  \A t \in Threads : held[t] # None <=> pc[t] \in {"use", "return", "put"}

(* The flag excludes: one thread at most is between its set and its clear; *)
(* nobody is after a constructor threw there.                              *)
FlagExcludes ==
  /\ \A t \in Threads : InSection(t) => busy /\ ~stuck
  /\ \A t, u \in Threads : InSection(t) /\ InSection(u) => t = u
  /\ stuck => busy
  /\ busy => stuck \/ \E t \in Threads : InSection(t)

(* An object has one owner: a thread or a place in the list.               *)
OneOwner ==
  /\ \A t, u \in Threads : held[t] # None /\ held[t] = held[u] => t = u
  /\ \A i, j \in DOMAIN objs : objs[i] = objs[j] => i = j
  /\ \A t \in Threads : \A i \in DOMAIN objs : held[t] # objs[i]

(* What is owned exists, and what exists is owned.                         *)
OwnedIsLive ==
  /\ \A t \in Threads : held[t] # None => held[t] \in live
  /\ \A i \in DOMAIN objs : objs[i] \in live
  /\ \A o \in live : (\E t \in Threads : held[t] = o) \/ (\E i \in DOMAIN objs : objs[i] = o)

(* A connection whose query failed is on its way to be deleted.            *)
BrokenQuits ==
  /\ \A t \in quit : pc[t] = "return"
  /\ \A o \in broken : \E t \in quit : held[t] = o

ListBounded == \E n \in Sizes : Len(objs) <= n

(* The worker has a task from the moment it takes it.                      *)
WorkerBusy ==
  /\ Len(running) = IF pc[Worker] = "idle" THEN 0 ELSE 1

IInv ==
  /\ TypeOK /\ HeldByPlace /\ FlagExcludes /\ OneOwner /\ OwnedIsLive
  /\ BrokenQuits /\ ListBounded /\ WorkerBusy

Reached == broken' = broken \intersect live' /\ UNCHANGED <<sqlVars, faults>>

(***************************************************************************)
(* The list: its last element is taken, a new one is put at its end.       *)
(***************************************************************************)
LEMMA Shortened ==
  ASSUME NEW S, NEW s \in Seq(S), s # <<>>
  PROVE  LET f == SubSeq(s, 1, Len(s) - 1)
         IN  /\ f \in Seq(S) /\ Len(f) = Len(s) - 1
             /\ \A i \in DOMAIN f : i \in DOMAIN s /\ i # Len(s) /\ f[i] = s[i]
             /\ \A i \in DOMAIN s : i = Len(s) \/ (i \in DOMAIN f /\ f[i] = s[i])
             /\ Len(s) \in DOMAIN s /\ s[Len(s)] \in S
<1>1. Len(s) \in Nat \ {0} /\ DOMAIN s = 1 .. Len(s)
  BY EmptySeq
<1>2. SubSeq(s, 1, Len(s) - 1) \in Seq(S) /\ Len(SubSeq(s, 1, Len(s) - 1)) = Len(s) - 1
  BY <1>1
<1>3. \A i \in 1 .. Len(s) - 1 : SubSeq(s, 1, Len(s) - 1)[i] = s[i]
  BY <1>1
<1> QED
  BY <1>1, <1>2, <1>3

LEMMA Lengthened ==
  ASSUME NEW S, NEW s \in Seq(S), NEW e \in S
  PROVE  LET f == Append(s, e)
         IN  /\ f \in Seq(S) /\ Len(f) = Len(s) + 1
             /\ DOMAIN f = DOMAIN s \union {Len(f)} /\ f[Len(f)] = e
             /\ \A i \in DOMAIN s : i # Len(f) /\ f[i] = s[i]
  OBVIOUS

(***************************************************************************)
(* The invariant holds initially and is kept by every step.                *)
(***************************************************************************)
LEMMA InitIInv == Init => IInv
<1> SUFFICES ASSUME Init PROVE IInv
  OBVIOUS
<1>1. TypeOK
  <2>1. {queue, running, error_query, query_copy} = {<<>>} /\ <<>> \in Seq(Queries)
    BY DEF Init
  <2>2. live \subseteq Objects /\ objs \in Seq(Objects) /\ busy \in BOOLEAN /\ stuck \in BOOLEAN
    <3>1. CASE live = {} /\ objs = <<>> /\ busy = TRUE /\ stuck = TRUE
      BY <3>1
    <3>2. ASSUME NEW o \in Objects, live = {o}, objs = <<o>>, busy = FALSE, stuck = FALSE
          PROVE  live \subseteq Objects /\ objs \in Seq(Objects) /\ busy \in BOOLEAN /\ stuck \in BOOLEAN
      <4>1. <<o>> \in Seq(Objects)
        OBVIOUS
      <4> QED
        BY <3>2, <4>1
    <3> QED
      BY <3>1, <3>2 DEF Init, PoolInit
  <2>3. /\ pool_size \in Sizes /\ held \in [Threads -> Objects \union {None}] /\ quit = {}
        /\ pc = [t \in Threads |-> "idle"]
    BY DEF Init, PoolInit
  <2>4. posted = {} /\ altered = {} /\ done \in [Statements -> Nat] /\ broken = {} /\ faults \in 0 .. MaxFaults
    BY DEF Init
  <2> QED
    BY <2>1, <2>2, <2>3, <2>4 DEF TypeOK
<1>2. HeldByPlace /\ BrokenQuits /\ WorkerBusy
  BY DEF Init, PoolInit, HeldByPlace, BrokenQuits, WorkerBusy
<1>3. FlagExcludes
  BY DEF Init, PoolInit, FlagExcludes, InSection
<1>4. OneOwner /\ OwnedIsLive
  BY DEF Init, PoolInit, OneOwner, OwnedIsLive
<1>5. ListBounded
  <2>1. pool_size \in Sizes /\ pool_size >= 1
    BY DEF Init, PoolInit
  <2>2. Len(objs) <= 1
    <3>1. objs = <<>> \/ \E o \in Objects : objs = <<o>>
      BY DEF Init, PoolInit
    <3>2. CASE objs = <<>>
      <4>1. Len(objs) = 0
        BY <3>2
      <4> QED
        BY <4>1
    <3>3. ASSUME NEW o \in Objects, objs = <<o>>
          PROVE  Len(objs) <= 1
      <4>1. Len(objs) = 1
        BY <3>3
      <4> QED
        BY <4>1
    <3> QED
      BY <3>1, <3>2, <3>3
  <2> QED
    BY <2>1, <2>2 DEF ListBounded
<1> QED
  BY <1>1, <1>2, <1>3, <1>4, <1>5 DEF IInv

LEMMA ObtainKeeps ==
  ASSUME IInv, NEW t \in Threads, Obtain(t), Reached
  PROVE  IInv'
<1> USE DEF IInv, Obtain, Goto, Reached
<1>1. TypeOK'
  BY DEF TypeOK
<1>2. HeldByPlace' /\ WorkerBusy' /\ BrokenQuits'
  BY DEF TypeOK, HeldByPlace, WorkerBusy, BrokenQuits
<1>3. FlagExcludes'
  BY DEF TypeOK, FlagExcludes, InSection
<1>4. OneOwner' /\ OwnedIsLive' /\ ListBounded'
  BY DEF OneOwner, OwnedIsLive, ListBounded
<1> QED
  BY <1>1, <1>2, <1>3, <1>4

LEMMA GetPtrKeeps ==
  ASSUME IInv, NEW t \in Threads, GetPtr(t), Reached
  PROVE  IInv'
<1> USE DEF IInv, Goto, Reached
<1> DEFINE last == objs[Len(objs)]
<1>0. /\ pc[t] = "get" /\ held' = [held EXCEPT ![t] = last] /\ busy' = FALSE
      /\ pc' = [pc EXCEPT ![t] = "use"] /\ UNCHANGED <<pool_size, live, quit, stuck>>
  BY DEF GetPtr
<1>s. /\ objs' \in Seq(Objects) /\ Len(objs') = Len(objs) - 1 /\ Len(objs) \in Nat
      /\ \A i \in DOMAIN objs' : i \in DOMAIN objs /\ i # Len(objs) /\ objs'[i] = objs[i]
      /\ \A i \in DOMAIN objs : i = Len(objs) \/ (i \in DOMAIN objs' /\ objs'[i] = objs[i])
      /\ Len(objs) \in DOMAIN objs /\ last \in Objects
  BY Shortened DEF GetPtr, TypeOK
<1> HIDE DEF last
<1>1. TypeOK'
  BY <1>0, <1>s DEF TypeOK
<1>2. HeldByPlace' /\ WorkerBusy' /\ BrokenQuits'
  BY <1>0, <1>s DEF TypeOK, HeldByPlace, WorkerBusy, BrokenQuits
<1>3. FlagExcludes'
  BY <1>0 DEF TypeOK, FlagExcludes, InSection
<1>4. OneOwner'
  BY <1>0, <1>s DEF TypeOK, OneOwner, last
<1>5. OwnedIsLive'
  <2>1. ASSUME NEW o \in live
        PROVE  (\E u \in Threads : held'[u] = o) \/ (\E i \in DOMAIN objs' : objs'[i] = o)
    <3>1. CASE o = last
      <4>1. held'[t] = o
        BY <1>0, <3>1 DEF TypeOK
      <4> QED
        BY <4>1
    <3>2. ASSUME NEW u \in Threads, held[u] = o, o # last
          PROVE  \E v \in Threads : held'[v] = o
      <4>1. o # None /\ held[t] = None
        BY <1>0 DEF TypeOK, HeldByPlace
      <4> QED
        BY <1>0, <3>2, <4>1 DEF TypeOK
    <3>3. ASSUME NEW i \in DOMAIN objs, objs[i] = o, o # last
          PROVE  \E j \in DOMAIN objs' : objs'[j] = o
      BY <1>s, <3>3 DEF last
    <3> QED
      BY <3>1, <3>2, <3>3 DEF OwnedIsLive
  <2> QED
    BY <1>0, <1>s, <2>1 DEF TypeOK, OwnedIsLive, last
<1>6. ListBounded'
  <2>1. PICK n \in Sizes : Len(objs) <= n
    BY DEF ListBounded
  <2> QED
    BY <1>s, <2>1 DEF ListBounded
<1> QED
  BY <1>1, <1>2, <1>3, <1>4, <1>5, <1>6

LEMMA AllocKeeps ==
  ASSUME IInv, NEW t \in Threads, Alloc(t), Reached
  PROVE  IInv'
<1> USE DEF IInv, Goto, Reached
<1> DEFINE new == CHOOSE x \in Objects \ live : TRUE
<1>0. /\ new \in Objects \ live
      /\ pc[t] = "alone" \/ pc[t] = "get"
      /\ live' = live \union {new} /\ held' = [held EXCEPT ![t] = new]
      /\ busy' = (IF pc[t] = "get" THEN FALSE ELSE busy)
      /\ pc' = [pc EXCEPT ![t] = "use"] /\ UNCHANGED <<objs, pool_size, quit, stuck>>
  BY DEF Alloc
<1> HIDE DEF new
<1>1. TypeOK'
  BY <1>0 DEF TypeOK
<1>2. HeldByPlace' /\ WorkerBusy' /\ BrokenQuits'
  BY <1>0 DEF TypeOK, HeldByPlace, WorkerBusy, BrokenQuits
<1>3. FlagExcludes'
  BY <1>0 DEF TypeOK, FlagExcludes, InSection
<1>4. OneOwner'
  BY <1>0 DEF TypeOK, OneOwner, OwnedIsLive
<1>5. OwnedIsLive' /\ ListBounded'
  BY <1>0 DEF TypeOK, OwnedIsLive, HeldByPlace, ListBounded
<1> QED
  BY <1>1, <1>2, <1>3, <1>4, <1>5

(* Where a thread gives up what it has: the deleter, or recycle when the   *)
(* list is full.                                                           *)
LEMMA Deleted ==
  ASSUME IInv, NEW t \in Threads, held[t] # None,
         live' = live \ {held[t]}, held' = [held EXCEPT ![t] = None], objs' = objs
  PROVE  OneOwner' /\ OwnedIsLive'
<1>1. OneOwner'
  BY DEF IInv, TypeOK, OneOwner
<1>2. \A u \in Threads : held'[u] # None => held'[u] \in live'
  BY DEF IInv, TypeOK, OneOwner, OwnedIsLive
<1>3. \A i \in DOMAIN objs' : objs'[i] \in live'
  BY DEF IInv, OneOwner, OwnedIsLive
<1>4. \A o \in live' : (\E u \in Threads : held'[u] = o) \/ (\E i \in DOMAIN objs' : objs'[i] = o)
  BY DEF IInv, TypeOK, OwnedIsLive
<1> QED
  BY <1>1, <1>2, <1>3, <1>4 DEF OwnedIsLive

LEMMA ReturnKeeps ==
  ASSUME IInv, NEW t \in Threads, Return(t), Reached
  PROVE  IInv'
<1> USE DEF IInv, Goto, Reached
<1>h. pc[t] = "return" /\ held[t] # None /\ quit' = quit \ {t}
      /\ UNCHANGED <<objs, pool_size, stuck>>
  BY DEF Return, HeldByPlace
<1>1. CASE t \in quit \/ busy
  <2>0. /\ live' = live \ {held[t]} /\ held' = [held EXCEPT ![t] = None]
        /\ pc' = [pc EXCEPT ![t] = "returned"] /\ busy' = busy
    BY <1>1 DEF Return
  <2>1. TypeOK'
    BY <1>h, <2>0 DEF TypeOK
  <2>2. HeldByPlace' /\ WorkerBusy' /\ ListBounded'
    BY <1>h, <2>0 DEF TypeOK, HeldByPlace, WorkerBusy, ListBounded
  <2>3. BrokenQuits'
    BY <1>h, <2>0 DEF TypeOK, BrokenQuits
  <2>4. FlagExcludes'
    BY <1>h, <2>0 DEF TypeOK, FlagExcludes, InSection
  <2> QED
    BY <1>h, <2>0, <2>1, <2>2, <2>3, <2>4, Deleted
<1>2. CASE ~(t \in quit \/ busy)
  <2>0. /\ busy' = TRUE /\ pc' = [pc EXCEPT ![t] = "put"] /\ UNCHANGED <<live, held>>
    BY <1>2 DEF Return
  <2>1. TypeOK'
    BY <1>h, <2>0 DEF TypeOK
  <2>2. HeldByPlace' /\ WorkerBusy' /\ ListBounded'
    BY <1>h, <2>0 DEF TypeOK, HeldByPlace, WorkerBusy, ListBounded
  <2>3. BrokenQuits'
    BY <1>2, <1>h, <2>0 DEF TypeOK, BrokenQuits
  <2>4. FlagExcludes'
    BY <1>2, <1>h, <2>0 DEF TypeOK, FlagExcludes, InSection
  <2>5. OneOwner' /\ OwnedIsLive'
    BY <1>h, <2>0 DEF OneOwner, OwnedIsLive
  <2> QED
    BY <2>1, <2>2, <2>3, <2>4, <2>5
<1> QED
  BY <1>1, <1>2

LEMMA RecycleKeeps ==
  ASSUME IInv, NEW t \in Threads, Recycle(t), Reached
  PROVE  IInv'
<1> USE DEF IInv, Goto, Reached
<1>h. /\ pc[t] = "put" /\ held[t] # None /\ held[t] \in Objects
      /\ held' = [held EXCEPT ![t] = None] /\ busy' = FALSE
      /\ pc' = [pc EXCEPT ![t] = "returned"] /\ UNCHANGED <<pool_size, quit, stuck>>
  BY DEF Recycle, HeldByPlace, TypeOK
<1>b. held[t] \notin broken
  BY <1>h DEF BrokenQuits, OneOwner, TypeOK
<1>2. HeldByPlace' /\ WorkerBusy'
  BY <1>h DEF TypeOK, HeldByPlace, WorkerBusy
<1>3. BrokenQuits'
  BY <1>h, <1>b DEF TypeOK, BrokenQuits
<1>4. FlagExcludes'
  BY <1>h DEF TypeOK, FlagExcludes, InSection
<1>5. CASE Len(objs) >= pool_size
  <2>0. live' = live \ {held[t]} /\ objs' = objs
    BY <1>5 DEF Recycle
  <2>1. TypeOK' /\ ListBounded'
    BY <1>h, <2>0 DEF TypeOK, ListBounded
  <2> QED
    BY <1>h, <1>2, <1>3, <1>4, <2>0, <2>1, Deleted
<1>6. CASE ~(Len(objs) >= pool_size)
  <2>0. objs' = Append(objs, held[t]) /\ live' = live
    BY <1>6 DEF Recycle
  <2>1. /\ objs' \in Seq(Objects) /\ Len(objs') = Len(objs) + 1 /\ Len(objs) \in Nat
        /\ DOMAIN objs' = DOMAIN objs \union {Len(objs')} /\ objs'[Len(objs')] = held[t]
        /\ \A i \in DOMAIN objs : i # Len(objs') /\ objs'[i] = objs[i]
    BY <1>h, <2>0, Lengthened DEF TypeOK
  <2>2. TypeOK'
    BY <1>h, <2>0, <2>1 DEF TypeOK
  <2>3. ListBounded'
    <3>1. pool_size \in Sizes /\ pool_size \in Nat
      BY DEF TypeOK
    <3>2. Len(objs') <= pool_size
      BY <1>6, <2>1, <3>1
    <3> QED
      BY <3>1, <3>2 DEF ListBounded
  <2>4. OneOwner'
    <3>1. \A i, j \in DOMAIN objs' : objs'[i] = objs'[j] => i = j
      BY <2>1 DEF OneOwner
    <3>2. \A u \in Threads : held'[u] # None => held'[u] = held[u] /\ u # t
      BY <1>h DEF TypeOK
    <3>3. \A u \in Threads : \A i \in DOMAIN objs' : held'[u] # objs'[i]
      BY <1>h, <2>1, <3>2 DEF OneOwner, TypeOK
    <3> QED
      BY <3>1, <3>2, <3>3 DEF OneOwner
  <2>5. OwnedIsLive'
    <3>1. ASSUME NEW u \in Threads, held'[u] # None
          PROVE  held'[u] \in live'
      BY <1>h, <2>0, <3>1 DEF OwnedIsLive, TypeOK
    <3>2. ASSUME NEW i \in DOMAIN objs'
          PROVE  objs'[i] \in live'
      BY <1>h, <2>0, <2>1 DEF OwnedIsLive
    <3>3. ASSUME NEW o \in live'
          PROVE  (\E u \in Threads : held'[u] = o) \/ (\E i \in DOMAIN objs' : objs'[i] = o)
      <4>1. CASE o = held[t]
        BY <2>1, <4>1
      <4>2. ASSUME NEW u \in Threads, held[u] = o, o # held[t]
            PROVE  held'[u] = o
        BY <1>h, <4>2 DEF TypeOK
      <4>3. ASSUME NEW i \in DOMAIN objs, objs[i] = o
            PROVE  i \in DOMAIN objs' /\ objs'[i] = o
        BY <2>1, <4>3
      <4> QED
        BY <2>0, <4>1, <4>2, <4>3 DEF OwnedIsLive
    <3> QED
      BY <3>1, <3>2, <3>3 DEF OwnedIsLive
  <2> QED
    BY <1>2, <1>3, <1>4, <2>2, <2>3, <2>4, <2>5
<1> QED
  BY <1>5, <1>6

LEMMA ConnectFailsKeeps ==
  ASSUME IInv, NEW t \in Threads, ConnectFails(t)
  PROVE  IInv'
<1> USE DEF IInv
<1>0. /\ pc[t] = "alone" \/ pc[t] = "get"
      /\ stuck' = (stuck \/ pc[t] = "get") /\ pc' = [pc EXCEPT ![t] = "thrown"]
      /\ UNCHANGED <<busy, objs, pool_size, live, held, quit, sqlVars, broken>>
      /\ faults' \in 0 .. MaxFaults
  BY DEF ConnectFails, AllocThrows, Goto, Fault, TypeOK
<1>1. TypeOK'
  BY <1>0 DEF TypeOK
<1>2. HeldByPlace' /\ WorkerBusy' /\ BrokenQuits' /\ ListBounded'
  BY <1>0 DEF TypeOK, HeldByPlace, WorkerBusy, BrokenQuits, ListBounded
<1>3. FlagExcludes'
  BY <1>0 DEF TypeOK, FlagExcludes, InSection
<1>4. OneOwner' /\ OwnedIsLive'
  BY <1>0 DEF OneOwner, OwnedIsLive
<1> QED
  BY <1>1, <1>2, <1>3, <1>4

LEMMA WorkersTask ==
  ASSUME TypeOK, WorkerBusy, pc[Worker] # "idle"
  PROVE  running[1] \in Queries
<1>1. running \in Seq(Queries)
  BY DEF TypeOK
<1>2. Len(running) = 1 /\ 1 \in 1 .. Len(running)
  BY DEF WorkerBusy
<1> QED
  BY <1>1, <1>2, ElementOfSeq

LEMMA SucceedKeeps ==
  ASSUME IInv, NEW t \in Threads, Succeed(t)
  PROVE  IInv'
<1> USE DEF IInv
<1>0. /\ pc[t] = "use" /\ pc' = [pc EXCEPT ![t] = "return"]
      /\ broken' = broken \ {held[t]}
      /\ UNCHANGED <<busy, objs, pool_size, live, held, quit, stuck>>
      /\ UNCHANGED <<queue, running, error_query, query_copy, posted, altered, faults>>
  BY DEF Succeed, Goto
<1>d. done' \in [Statements -> Nat]
  <2>1. t = Worker => running[1].sql \in Statements
    BY <1>0, WorkersTask DEF Queries
  <2> QED
    BY <2>1 DEF Succeed, TypeOK
<1>1. TypeOK'
  BY <1>0, <1>d DEF TypeOK
<1>2. HeldByPlace' /\ BrokenQuits'
  BY <1>0 DEF TypeOK, HeldByPlace, BrokenQuits
<1>5. ListBounded'
  BY <1>0 DEF ListBounded
<1>6. WorkerBusy'
  <2>1. pc'[Worker] = "idle" <=> pc[Worker] = "idle"
    BY <1>0 DEF TypeOK
  <2> QED
    BY <1>0, <2>1 DEF WorkerBusy
<1>3. FlagExcludes'
  BY <1>0 DEF TypeOK, FlagExcludes, InSection
<1>4. OneOwner' /\ OwnedIsLive'
  BY <1>0 DEF OneOwner, OwnedIsLive
<1> QED
  BY <1>1, <1>2, <1>3, <1>4, <1>5, <1>6

LEMMA FailKeeps ==
  ASSUME IInv, NEW t \in Threads, Fail(t)
  PROVE  IInv'
<1> USE DEF IInv
<1>0. /\ pc[t] = "use" /\ pc' = [pc EXCEPT ![t] = "return"]
      /\ quit' = quit \union {t} /\ broken' = broken \union {held[t]}
      /\ UNCHANGED <<busy, objs, pool_size, live, held, stuck, sqlVars>>
      /\ faults' \in 0 .. MaxFaults
  BY DEF Fail, Goto, Fault, Refused, TypeOK
<1>1. TypeOK'
  <2>1. held[t] \in live
    BY <1>0 DEF HeldByPlace, OwnedIsLive
  <2> QED
    BY <1>0, <2>1 DEF TypeOK
<1>2. HeldByPlace' /\ ListBounded'
  BY <1>0 DEF TypeOK, HeldByPlace, ListBounded
<1>6. BrokenQuits'
  <2>1. \A u \in quit' : pc'[u] = "return"
    BY <1>0 DEF TypeOK, BrokenQuits
  <2>2. \A o \in broken' : \E u \in quit' : held'[u] = o
    BY <1>0 DEF BrokenQuits
  <2> QED
    BY <2>1, <2>2 DEF BrokenQuits
<1>5. WorkerBusy'
  <2>1. pc'[Worker] = "idle" <=> pc[Worker] = "idle"
    BY <1>0 DEF TypeOK
  <2> QED
    BY <1>0, <2>1 DEF WorkerBusy
<1>3. FlagExcludes'
  BY <1>0 DEF TypeOK, FlagExcludes, InSection
<1>4. OneOwner' /\ OwnedIsLive'
  BY <1>0 DEF OneOwner, OwnedIsLive
<1> QED
  BY <1>1, <1>2, <1>3, <1>4, <1>5, <1>6

LEMMA LeaveKeeps ==
  ASSUME IInv, NEW t \in Threads, Leave(t)
  PROVE  IInv'
<1> USE DEF IInv
<1>0. /\ pc[t] \in {"returned", "thrown"} /\ pc' = [pc EXCEPT ![t] = "idle"]
      /\ UNCHANGED <<busy, objs, pool_size, live, held, quit, stuck>>
      /\ UNCHANGED <<queue, query_copy, posted, done, altered, broken, faults>>
  BY DEF Leave, Goto
<1>r. /\ running' \in Seq(Queries) /\ error_query' \in Seq(Queries)
      /\ running' = (IF t = Worker THEN <<>> ELSE running)
  <2>0. running \in Seq(Queries) /\ error_query \in Seq(Queries) /\ <<>> \in Seq(Queries)
    BY DEF TypeOK
  <2>1. CASE t # Worker
    BY <2>0, <2>1 DEF Leave
  <2>2. CASE t = Worker /\ Failed(t)
    <3> DEFINE left == [sql |-> running[1].sql, tryCnt |-> running[1].tryCnt - 1]
    <3>1. running[1] \in Queries
      BY <1>0, <2>2, WorkersTask
    <3>2. left.tryCnt > 0 => left \in Queries
      BY <3>1 DEF Queries
    <3> HIDE DEF left
    <3>3. error_query' = error_query \/ (left.tryCnt > 0 /\ error_query' = Append(error_query, left))
      BY <2>2 DEF Failed, left
    <3> QED
      BY <2>0, <2>2, <3>2, <3>3 DEF Failed
  <2>3. CASE t = Worker /\ ~Failed(t)
    BY <2>0, <2>3 DEF Leave
  <2> QED
    BY <2>1, <2>2, <2>3
<1>1. TypeOK'
  BY <1>0, <1>r DEF TypeOK
<1>2. HeldByPlace' /\ BrokenQuits' /\ ListBounded'
  BY <1>0 DEF TypeOK, HeldByPlace, BrokenQuits, ListBounded
<1>w. WorkerBusy'
  <2>1. CASE t = Worker
    <3>1. running' = <<>> /\ pc'[Worker] = "idle"
      BY <1>0, <1>r, <2>1 DEF TypeOK
    <3> QED
      BY <3>1 DEF WorkerBusy
  <2>2. CASE t # Worker
    <3>1. running' = running /\ pc'[Worker] = pc[Worker]
      BY <1>0, <1>r, <2>2 DEF TypeOK
    <3> QED
      BY <3>1 DEF WorkerBusy
  <2> QED
    BY <2>1, <2>2
<1>3. FlagExcludes'
  BY <1>0 DEF TypeOK, FlagExcludes, InSection
<1>4. OneOwner' /\ OwnedIsLive'
  BY <1>0 DEF OneOwner, OwnedIsLive
<1> QED
  BY <1>1, <1>2, <1>w, <1>3, <1>4

(* The steps that move statements and leave the pool alone.                *)
LEMMA PoolKept ==
  ASSUME IInv, UNCHANGED <<busy, objs, live, held, quit, pc, stuck, broken>>
  PROVE  /\ HeldByPlace' /\ FlagExcludes' /\ OneOwner' /\ OwnedIsLive'
         /\ BrokenQuits' /\ ListBounded'
<1>1. HeldByPlace' /\ FlagExcludes'
  BY DEF IInv, HeldByPlace, FlagExcludes, InSection
<1>2. OneOwner' /\ OwnedIsLive'
  BY DEF IInv, OneOwner, OwnedIsLive
<1>3. BrokenQuits' /\ ListBounded'
  BY DEF IInv, BrokenQuits, ListBounded
<1> QED
  BY <1>1, <1>2, <1>3

LEMMA TakeTaskKeeps ==
  ASSUME IInv, TakeTask
  PROVE  IInv'
<1> USE DEF IInv
<1>0. /\ pc[Worker] = "idle" /\ pc' = [pc EXCEPT ![Worker] = "obtain"]
      /\ UNCHANGED <<busy, objs, pool_size, live, held, quit, stuck>>
      /\ UNCHANGED <<error_query, query_copy, posted, done, altered, broken, faults>>
  BY DEF TakeTask, Goto
<1>q. /\ running' \in Seq(Queries) /\ Len(running') = 1 /\ queue' \in Seq(Queries)
  BY HeadTailProperties DEF TakeTask, TypeOK
<1>1. TypeOK'
  BY <1>0, <1>q DEF TypeOK
<1>2. HeldByPlace' /\ WorkerBusy' /\ BrokenQuits' /\ ListBounded'
  BY <1>0, <1>q DEF TypeOK, HeldByPlace, WorkerBusy, BrokenQuits, ListBounded
<1>3. FlagExcludes'
  BY <1>0 DEF TypeOK, FlagExcludes, InSection
<1>4. OneOwner' /\ OwnedIsLive'
  BY <1>0 DEF OneOwner, OwnedIsLive
<1> QED
  BY <1>1, <1>2, <1>3, <1>4

LEMMA SyncQueryKeeps ==
  ASSUME IInv, NEW t \in Threads, SyncQuery(t)
  PROVE  IInv'
<1> USE DEF IInv
<1>0. /\ t # Worker /\ pc[t] = "idle" /\ pc' = [pc EXCEPT ![t] = "obtain"]
      /\ UNCHANGED <<busy, objs, pool_size, live, held, quit, stuck>>
      /\ UNCHANGED <<sqlVars, broken, faults>>
  BY DEF SyncQuery, Goto
<1>1. TypeOK'
  BY <1>0 DEF TypeOK
<1>2. HeldByPlace' /\ WorkerBusy' /\ BrokenQuits' /\ ListBounded'
  BY <1>0 DEF TypeOK, HeldByPlace, WorkerBusy, BrokenQuits, ListBounded
<1>3. FlagExcludes'
  BY <1>0 DEF TypeOK, FlagExcludes, InSection
<1>4. OneOwner' /\ OwnedIsLive'
  BY <1>0 DEF OneOwner, OwnedIsLive
<1> QED
  BY <1>1, <1>2, <1>3, <1>4

LEMMA StepKeeps == IInv /\ [Next]_vars => IInv'
<1> SUFFICES ASSUME IInv, [Next]_vars PROVE IInv'
  OBVIOUS
<1>q. {queue, running, error_query, query_copy} \subseteq Seq(Queries)
  BY DEF IInv, TypeOK
<1>1. ASSUME NEW t \in Threads, UsePool(t)
      PROVE  IInv'
  BY <1>1, ObtainKeeps, GetPtrKeeps, AllocKeeps, ReturnKeeps, RecycleKeeps
     DEF UsePool, PoolStep, Reached
<1>2. ASSUME NEW t \in Threads, Succeed(t) \/ Leave(t) \/ SyncQuery(t) \/ Fail(t) \/ ConnectFails(t)
      PROVE  IInv'
  BY <1>2, SucceedKeeps, LeaveKeeps, SyncQueryKeeps, FailKeeps, ConnectFailsKeeps
<1>3. CASE TakeTask
  BY <1>3, TakeTaskKeeps
<1>4. ASSUME NEW q \in Statements, AsyncQuery(q)
      PROVE  IInv'
  <2>1. queue' \in Seq(Queries)
    <3>1. Query(q) \in Queries
      BY DEF Query, Queries
    <3> QED
      BY <1>q, <1>4, <3>1 DEF AsyncQuery
  <2>2. TypeOK'
    BY <1>4, <2>1 DEF AsyncQuery, IInv, TypeOK
  <2>3. WorkerBusy'
    BY <1>4 DEF AsyncQuery, IInv, WorkerBusy
  <2> QED
    BY <1>4, <2>2, <2>3, PoolKept DEF AsyncQuery, IInv
<1>5. CASE FlushError
  <2>1. query_copy' \in Seq(Queries) /\ error_query' \in Seq(Queries)
    BY <1>q, <1>5 DEF FlushError
  <2>2. TypeOK'
    BY <1>5, <2>1 DEF FlushError, IInv, TypeOK
  <2>3. WorkerBusy'
    BY <1>5 DEF FlushError, IInv, WorkerBusy
  <2> QED
    BY <1>5, <2>2, <2>3, PoolKept DEF FlushError, IInv
<1>6. CASE FlushOne
  <2>1. query_copy' \in Seq(Queries) /\ queue' \in Seq(Queries)
    <3>1. query_copy \in Seq(Queries) /\ query_copy # <<>> /\ queue \in Seq(Queries)
      BY <1>q, <1>6 DEF FlushOne
    <3>2. Head(query_copy) \in Queries /\ Tail(query_copy) \in Seq(Queries)
      BY <3>1, HeadTailProperties
    <3>3. Query(Head(query_copy).sql) \in Queries
      BY <3>2 DEF Query, Queries
    <3> QED
      BY <1>6, <3>1, <3>2, <3>3 DEF FlushOne
  <2>a. altered' \subseteq Formats
    BY <1>6 DEF FlushOne, IInv, TypeOK
  <2>2. TypeOK'
    BY <1>6, <2>1, <2>a DEF FlushOne, IInv, TypeOK
  <2>3. WorkerBusy'
    BY <1>6 DEF FlushOne, IInv, WorkerBusy
  <2> QED
    BY <1>6, <2>2, <2>3, PoolKept DEF FlushOne, IInv
<1>7. CASE SetSize /\ UNCHANGED <<sqlVars, broken, faults>>
  <2>1. TypeOK' /\ WorkerBusy'
    BY <1>7 DEF SetSize, IInv, TypeOK, WorkerBusy
  <2> QED
    BY <1>7, <2>1, PoolKept DEF SetSize, IInv
<1>8. CASE UNCHANGED vars
  <2>1. TypeOK' /\ WorkerBusy'
    BY <1>8 DEF vars, IInv, TypeOK, WorkerBusy
  <2> QED
    BY <1>8, <2>1, PoolKept DEF vars, IInv
<1> QED
  BY <1>1, <1>2, <1>3, <1>4, <1>5, <1>6, <1>7, <1>8 DEF Next, ThreadStep, Quiet

LEMMA IInvSound == IInv => ConnectionsSound
<1> SUFFICES ASSUME IInv PROVE ConnectionsSound
  OBVIOUS
<1>1. \A t \in Threads : held[t] # None =>
        held[t] \in live /\ \A u \in Threads \ {t} : held[u] # held[t]
  BY DEF IInv, OneOwner, OwnedIsLive
<1>2. ASSUME NEW i \in DOMAIN objs
      PROVE  /\ objs[i] \in live \ broken
             /\ \A j \in DOMAIN objs \ {i} : objs[j] # objs[i]
             /\ \A t \in Threads : held[t] # objs[i]
  <2>1. objs[i] \notin broken
    BY DEF IInv, OneOwner, BrokenQuits, TypeOK
  <2> QED
    BY <2>1 DEF IInv, OneOwner, OwnedIsLive
<1>3. live \subseteq {held[t] : t \in Threads} \union {objs[i] : i \in DOMAIN objs}
  BY DEF IInv, OwnedIsLive
<1>4. (busy /\ \A t \in Threads : ~InSection(t)) <=> stuck
  BY DEF IInv, FlagExcludes, TypeOK
<1> QED
  BY <1>1, <1>2, <1>3, <1>4 DEF ConnectionsSound, IInv, ListBounded

(***************************************************************************)
(* The theorems.                                                           *)
(***************************************************************************)

(* The invariant holds of every reachable state.                           *)
THEOREM Invariance == Spec => []IInv
<1>1. Init => IInv
  BY InitIInv
<1>2. IInv /\ [Next]_vars => IInv'
  BY StepKeeps
<1> QED
  BY <1>1, <1>2, PTL DEF Spec

(* Every variable stays of its type, the counts of tries within 1 and      *)
(* TryCnt among them: the 0th try of SqlPool.h:131 is never queued.        *)
THEOREM TypeCorrect == Spec => []TypeOK
<1>1. IInv => TypeOK
  BY DEF IInv
<1> QED
  BY <1>1, Invariance, PTL

(* Whoever finds the flag set and however queries fail, for any number of  *)
(* threads: a connection has one owner, none is forgotten, none whose      *)
(* query failed is given out again, and the flag is left set only by a     *)
(* connect that failed under it (ResourcePool.h:110-143, SqlPool.h:86-93). *)
THEOREM ConnectionsAreSound == Spec => []ConnectionsSound
<1>1. IInv => ConnectionsSound
  BY IInvSound
<1> QED
  BY <1>1, Invariance, PTL
=============================================================================
