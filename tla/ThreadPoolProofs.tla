------------------------- MODULE ThreadPoolProofs --------------------------
(***************************************************************************)
(* Theorems about ThreadPool, for every number of callers, workers and     *)
(* tasks.                                                                  *)
(***************************************************************************)
EXTENDS ThreadPool, FiniteSetTheorems, TLAPS

USE DEF ledger

Labels == {"none", "idle", "blocked", "take", "taken", "exec", "exited"}

(***************************************************************************)
(* How the sets At(label) and their sizes change when one worker moves.    *)
(***************************************************************************)
LEMMA AtFinite ==
  ASSUME NEW k
  PROVE  /\ IsFiniteSet(At(k)) /\ Cardinality(At(k)) \in Nat
         /\ IsFiniteSet(Workers) /\ Cardinality(Workers) \in Nat
<1>1. IsFiniteSet(Workers) /\ At(k) \subseteq Workers
  BY ConstantsAssumption DEF At
<1> QED
  BY <1>1, FS_Subset, FS_CardinalityType

LEMMA ThreadsFinite ==
  ASSUME unposted \subseteq Threads
  PROVE  IsFiniteSet(unposted) /\ Cardinality(unposted) \in Nat
<1>1. IsFiniteSet(Threads)
  BY ConstantsAssumption, FS_Union DEF Threads
<1> QED
  BY <1>1, FS_Subset, FS_CardinalityType

(* A worker moves from k to l. *)
LEMMA Move ==
  ASSUME TypeOK, NEW w \in Workers, NEW k, NEW l, k # l,
         pc[w] = k, pc' = [pc EXCEPT ![w] = l]
  PROVE  /\ At(k)' = At(k) \ {w} /\ Cardinality(At(k)') = Cardinality(At(k)) - 1
         /\ At(l)' = At(l) \union {w} /\ Cardinality(At(l)') = Cardinality(At(l)) + 1
         /\ \A m : m # k /\ m # l => At(m)' = At(m)
         /\ w \in At(k) /\ w \notin At(l)
<1>1. /\ At(k)' = At(k) \ {w}
      /\ At(l)' = At(l) \union {w}
      /\ w \in At(k) /\ w \notin At(l)
      /\ \A m : m # k /\ m # l => At(m)' = At(m)
  BY DEF At, TypeOK
<1>2. Cardinality(At(k) \ {w}) = Cardinality(At(k)) - 1
  BY <1>1, AtFinite, FS_RemoveElement
<1>3. Cardinality(At(l) \union {w}) = Cardinality(At(l)) + 1
  BY <1>1, AtFinite, FS_AddElement
<1> QED
  BY <1>1, <1>2, <1>3

(* A blocked worker is woken, or nobody is: only "idle" and "blocked" are  *)
(* concerned.                                                              *)
LEMMA Woken ==
  ASSUME TypeOK, PostOne
  PROVE  /\ count' = count + 1
         /\ pc' \in [Workers -> Labels]
         /\ \A m : m # "idle" /\ m # "blocked" => At(m)' = At(m)
         /\ \A v \in Workers : pc'[v] # pc[v] => pc[v] = "blocked" /\ pc'[v] = "idle"
<1>1. CASE At("blocked") = {}
  BY <1>1 DEF PostOne, TypeOK, At, Labels
<1>2. CASE At("blocked") # {}
  <2>1. PICK w \in At("blocked") : pc' = [pc EXCEPT ![w] = "idle"]
    BY <1>2 DEF PostOne
  <2>2. w \in Workers /\ pc[w] = "blocked"
    BY <2>1 DEF At
  <2> QED
    BY <1>2, <2>1, <2>2 DEF PostOne, TypeOK, At, Labels
<1> QED
  BY <1>1, <1>2

LEMMA AllWoken ==
  ASSUME TypeOK, NEW n \in Nat, PostAll(n)
  PROVE  /\ count' = count + n
         /\ pc' \in [Workers -> Labels]
         /\ \A m : m # "idle" /\ m # "blocked" => At(m)' = At(m)
         /\ \A v \in Workers : pc'[v] # pc[v] => pc[v] = "blocked" /\ pc'[v] = "idle"
  BY DEF PostAll, TypeOK, At, Labels

(***************************************************************************)
(* The queue.                                                              *)
(***************************************************************************)
QueueEntry == [id : Tasks, first : BOOLEAN]

LEMMA Pushed ==
  ASSUME TypeOK, NEW x \in Threads, NEW t \in Tasks, NEW first \in BOOLEAN,
         Push(x, t, first)
  PROVE  /\ queue' \in Seq(QueueEntry) /\ Len(queue') = Len(queue) + 1
         /\ \A i \in DOMAIN queue' :
              queue'[i].id = t \/ \E j \in DOMAIN queue : queue'[i].id = queue[j].id
         /\ \A j \in DOMAIN queue : \E i \in DOMAIN queue' : queue'[i].id = queue[j].id
         /\ \E i \in DOMAIN queue' : queue'[i].id = t
         /\ t \notin posted /\ posted' = posted \union {t}
         /\ unposted' = unposted \union {x}
<1> DEFINE e == [id |-> t, first |-> first]
<1>1. e \in QueueEntry /\ queue \in Seq(QueueEntry) /\ e.id = t
  BY DEF QueueEntry, TypeOK
<1>2. CASE first
  <2>1. queue' = <<e>> \o queue
    BY <1>2 DEF Push
  <2>2. /\ queue' \in Seq(QueueEntry) /\ Len(queue') = Len(queue) + 1
        /\ queue'[1] = e
        /\ \A i \in 2..Len(queue') : queue'[i] = queue[i - 1]
    BY <1>1, <2>1
  <2>3. \A j \in DOMAIN queue : j + 1 \in DOMAIN queue' /\ queue'[j + 1] = queue[j]
    BY <1>1, <2>2
  <2>4. \A i \in DOMAIN queue' : i = 1 \/ (i - 1 \in DOMAIN queue /\ queue'[i] = queue[i - 1])
    BY <1>1, <2>2
  <2>5. 1 \in DOMAIN queue'
    BY <1>1, <2>2
  <2> QED
    BY <1>1, <2>2, <2>3, <2>4, <2>5 DEF Push
<1>3. CASE ~first
  <2>1. queue' = Append(queue, e)
    BY <1>3 DEF Push
  <2>2. /\ queue' \in Seq(QueueEntry) /\ Len(queue') = Len(queue) + 1
        /\ queue'[Len(queue) + 1] = e
        /\ \A i \in 1..Len(queue) : queue'[i] = queue[i]
    BY <1>1, <2>1
  <2>3. /\ \A j \in DOMAIN queue : j \in DOMAIN queue'
        /\ \A i \in DOMAIN queue' : i = Len(queue) + 1 \/ i \in DOMAIN queue
        /\ Len(queue) + 1 \in DOMAIN queue'
    BY <1>1, <2>2
  <2>4. \A j \in DOMAIN queue : queue'[j] = queue[j]
    BY <1>1, <2>2
  <2>5. \A i \in DOMAIN queue' :
          queue'[i].id = t \/ \E j \in DOMAIN queue : queue'[i].id = queue[j].id
    BY <1>1, <2>2, <2>3, <2>4
  <2>6. \A j \in DOMAIN queue : \E i \in DOMAIN queue' : queue'[i].id = queue[j].id
    BY <2>3, <2>4
  <2>7. \E i \in DOMAIN queue' : queue'[i].id = t
    BY <1>1, <2>2, <2>3
  <2> QED
    BY <2>2, <2>5, <2>6, <2>7 DEF Push
<1> QED
  BY <1>2, <1>3

LEMMA Popped ==
  ASSUME TypeOK, queue # <<>>
  PROVE  /\ Head(queue).id \in Tasks
         /\ Tail(queue) \in Seq(QueueEntry) /\ Len(Tail(queue)) = Len(queue) - 1
         /\ \A i \in DOMAIN Tail(queue) : i + 1 \in DOMAIN queue /\ Tail(queue)[i] = queue[i + 1]
         /\ \A j \in DOMAIN queue : queue[j].id = Head(queue).id
              \/ \E i \in DOMAIN Tail(queue) : Tail(queue)[i].id = queue[j].id
         /\ \E j \in DOMAIN queue : queue[j].id = Head(queue).id
<1>1. /\ queue \in Seq(QueueEntry) /\ Len(queue) > 0
      /\ Head(queue) = queue[1] /\ 1 \in DOMAIN queue
  BY DEF TypeOK, QueueEntry
<1>2. /\ Tail(queue) \in Seq(QueueEntry) /\ Len(Tail(queue)) = Len(queue) - 1
      /\ \A i \in 1..Len(queue) - 1 : Tail(queue)[i] = queue[i + 1]
  BY <1>1
<1>3. \A j \in DOMAIN queue : j = 1
        \/ (j - 1 \in DOMAIN Tail(queue) /\ Tail(queue)[j - 1] = queue[j])
  BY <1>1, <1>2
<1>4. \A i \in DOMAIN Tail(queue) : i + 1 \in DOMAIN queue /\ Tail(queue)[i] = queue[i + 1]
  BY <1>1, <1>2
<1>5. Head(queue).id \in Tasks
  <2>1. queue[1] \in QueueEntry
    BY <1>1
  <2> QED
    BY <1>1, <2>1 DEF QueueEntry
<1>6. ASSUME NEW j \in DOMAIN queue, queue[j].id # Head(queue).id
      PROVE  \E i \in DOMAIN Tail(queue) : Tail(queue)[i].id = queue[j].id
  BY <1>1, <1>3, <1>6
<1> QED
  BY <1>1, <1>2, <1>4, <1>5, <1>6

(***************************************************************************)
(* The inductive invariant.                                                *)
(***************************************************************************)
LEMMA InitIInv == Init => IInv
<1> SUFFICES ASSUME Init PROVE IInv
  OBVIOUS
<1>1. TypeOK
  BY DEF Init, TypeOK
<1>2. At("take") = {} /\ At("exited") = {} /\ At("exec") = {}
  BY DEF Init, At
<1>3. TokensMatch
  <2>1. Cardinality(At("take")) = 0 /\ Cardinality(unposted) = 0 /\ count = 0
    BY <1>2, FS_EmptySet DEF Init
  <2>2. Len(queue) = 0 /\ ExitOrders = 0
    BY DEF Init, ExitOrders
  <2> QED
    BY <2>1, <2>2 DEF TokensMatch
<1>4. NoEarlyExit /\ CallersGone /\ Accounted /\ Handed
  BY <1>2 DEF Init, NoEarlyExit, CallersGone, Accounted, Handed
<1>5. LastOut
  BY <1>2, ConstantsAssumption DEF Init, LastOut
<1> QED
  BY <1>1, <1>3, <1>4, <1>5 DEF IInv

LEMMA TypeOKInductive ==
  ASSUME TypeOK, Handed, [Next]_vars
  PROVE  TypeOK'
<1> USE ConstantsAssumption
<1>1. ASSUME NEW w \in Workers, SemWait(w)
      PROVE  TypeOK'
  BY <1>1 DEF SemWait, TypeOK
<1>2. ASSUME NEW w \in Workers, SpuriousWake(w)
      PROVE  TypeOK'
  BY <1>2 DEF SpuriousWake, TypeOK
<1>3. ASSUME NEW w \in Workers, Take(w)
      PROVE  TypeOK'
  <2>1. CASE queue = <<>>
    BY <1>3, <2>1 DEF Take, TypeOK
  <2>2. CASE queue # <<>>
    <3>1. Head(queue).id \in Tasks /\ Tail(queue) \in Seq([id : Tasks, first : BOOLEAN])
      BY <2>2, Popped DEF QueueEntry
    <3>2. turn' \subseteq Tasks
      BY <1>3, <2>2, <3>1 DEF Take, TypeOK
    <3>3. /\ queue' = Tail(queue) /\ pc' = [pc EXCEPT ![w] = "taken"]
          /\ cur' = [cur EXCEPT ![w] = Head(queue).id]
          /\ UNCHANGED <<unposted, count, registered, owner, holding, syncing, posted,
                         ran, cancelled, ended>>
      BY <1>3, <2>2 DEF Take
    <3> QED
      BY <3>1, <3>2, <3>3 DEF TypeOK
  <2> QED
    BY <2>1, <2>2
<1>4. ASSUME NEW w \in Workers, Begin(w)
      PROVE  TypeOK'
  <2>1. cur[w] \in Tasks
    BY <1>4 DEF Begin, TypeOK, Handed
  <2> QED
    BY <1>4, <2>1 DEF Begin, TypeOK
<1>5. ASSUME NEW w \in Workers, TaskReturns(w)
      PROVE  TypeOK'
  <2>1. cur[w] \in Tasks
    BY <1>5 DEF TaskReturns, TypeOK, Handed
  <2> QED
    BY <1>5, <2>1 DEF TaskReturns, TypeOK
<1>6. ASSUME NEW x \in Threads, PostTask(x)
      PROVE  TypeOK'
  BY <1>6, Woken DEF PostTask, TypeOK, Labels
<1>7. ASSUME NEW x \in Threads, SyncReturns(x)
      PROVE  TypeOK'
  BY <1>7 DEF SyncReturns, TypeOK
<1>8. ASSUME NEW x \in Threads, Release(x)
      PROVE  TypeOK'
  BY <1>8 DEF Release, TypeOK
<1>9. ASSUME NEW x \in Threads, NEW t \in Tasks, NEW first \in BOOLEAN,
             Async(x, t, first)
      PROVE  TypeOK'
  <2>0. Push(x, t, first)
    BY <1>9 DEF Async
  <2>1. /\ queue' \in Seq(QueueEntry)
        /\ posted' = posted \union {t} /\ unposted' = unposted \union {x}
    BY <2>0, Pushed
  <2> QED
    BY <1>9, <2>1 DEF Async, TypeOK, QueueEntry
<1>10. ASSUME NEW x \in Threads, NEW t \in Tasks, NEW first \in BOOLEAN,
             Sync(x, t, first)
      PROVE  TypeOK'
  <2>0. Push(x, t, first)
    BY <1>10 DEF Sync
  <2>1. /\ queue' \in Seq(QueueEntry)
        /\ posted' = posted \union {t} /\ unposted' = unposted \union {x}
    BY <2>0, Pushed
  <2> QED
    BY <1>10, <2>1 DEF Sync, TypeOK, QueueEntry
<1>11. ASSUME NEW w \in Workers, NEW t \in Tasks, CallInline(w, t)
      PROVE  TypeOK'
  BY <1>11 DEF CallInline, TypeOK
<1>12. ASSUME NEW t \in Cancelable, Cancel(t)
      PROVE  TypeOK'
  BY <1>12 DEF Cancel, TypeOK
<1>13. ASSUME NEW w \in Workers, CreateThread(w)
      PROVE  TypeOK'
  BY <1>13 DEF CreateThread, TypeOK
<1>14. ASSUME NEW w \in Workers, RegisterThread(w)
      PROVE  TypeOK'
  BY <1>14 DEF RegisterThread, TypeOK
<1>15. CASE Started
  BY <1>15 DEF Started, TypeOK
<1>16. CASE Shutdown
  BY <1>16, Woken, AllWoken, AtFinite DEF Shutdown, TypeOK, Labels
<1>17. CASE Joined
  BY <1>17 DEF Joined, TypeOK
<1>18. CASE UNCHANGED vars
  BY <1>18 DEF vars, TypeOK
<1> QED
  BY <1>1, <1>2, <1>3, <1>4, <1>5, <1>6, <1>7, <1>8, <1>9, <1>10, <1>11, <1>12, <1>13, <1>14, <1>15, <1>16, <1>17, <1>18 DEF Next, WorkerStep, Done

(* A step of the kind that touches neither the tokens nor what they stand  *)
(* for.                                                                    *)
LEMMA TokensKept ==
  ASSUME TokensMatch, UNCHANGED <<queue, unposted, count, owner>>,
         At("take")' = At("take"), At("exited")' = At("exited")
  PROVE  TokensMatch'
BY DEF TokensMatch, ExitOrders

LEMMA Others ==
  ASSUME TypeOK, NEW w \in Workers, NEW l, NEW m, m # pc[w], m # l,
         pc' = [pc EXCEPT ![w] = l]
  PROVE  At(m)' = At(m)
BY DEF At, TypeOK

LEMMA TokensInductive ==
  ASSUME IInv, [Next]_vars
  PROVE  TokensMatch'
<1>t. TypeOK /\ TokensMatch /\ NoEarlyExit /\ CallersGone
  BY DEF IInv
<1>n. /\ count \in Nat /\ Len(queue) \in Nat /\ Cardinality(unposted) \in Nat
      /\ IsFiniteSet(unposted)
      /\ Cardinality(At("take")) \in Nat /\ Cardinality(At("exited")) \in Nat
      /\ Cardinality(Workers) \in Nat
  BY <1>t, AtFinite, ThreadsFinite DEF TypeOK
<1>o. ExitOrders \in Int
  BY <1>n DEF ExitOrders
<1>1. ASSUME NEW w \in Workers, SemWait(w)
      PROVE  TokensMatch'
  <2>0. pc[w] = "idle" /\ UNCHANGED <<queue, unposted, owner>>
    BY <1>1 DEF SemWait
  <2>1. CASE count > 0
    <3>1. count' = count - 1 /\ pc' = [pc EXCEPT ![w] = "take"]
      BY <1>1, <2>1 DEF SemWait
    <3>2. Cardinality(At("take")') = Cardinality(At("take")) + 1
      BY <1>t, <2>0, <3>1, Move
    <3>3. At("exited")' = At("exited")
      BY <1>t, <2>0, <3>1, Others
    <3>4. ExitOrders' = ExitOrders
      BY <2>0, <3>3 DEF ExitOrders
    <3> QED
      BY <1>t, <1>n, <1>o, <2>0, <3>1, <3>2, <3>4 DEF TokensMatch
  <2>2. CASE ~(count > 0)
    <3>1. count' = count /\ pc' = [pc EXCEPT ![w] = "blocked"]
      BY <1>1, <2>2 DEF SemWait
    <3>2. At("take")' = At("take") /\ At("exited")' = At("exited")
      BY <1>t, <2>0, <3>1, Others
    <3> QED
      BY <1>t, <2>0, <3>1, <3>2, TokensKept
  <2> QED
    BY <2>1, <2>2
<1>2. ASSUME NEW w \in Workers, SpuriousWake(w)
      PROVE  TokensMatch'
  <2>1. /\ pc[w] = "blocked" /\ pc' = [pc EXCEPT ![w] = "idle"]
        /\ UNCHANGED <<queue, unposted, count, owner>>
    BY <1>2 DEF SpuriousWake
  <2>2. At("take")' = At("take") /\ At("exited")' = At("exited")
    BY <1>t, <2>1, Others
  <2> QED
    BY <1>t, <2>1, <2>2, TokensKept
<1>3. ASSUME NEW w \in Workers, Take(w)
      PROVE  TokensMatch'
  <2>0. pc[w] = "take" /\ w \in At("take") /\ UNCHANGED <<unposted, count, owner>>
    BY <1>3 DEF Take, At
  <2>p. Cardinality(At("take")) > 0
    BY <1>n, <2>0, AtFinite, FS_EmptySet
  <2>1. CASE queue = <<>>
    <3>1. pc' = [pc EXCEPT ![w] = "exited"] /\ queue' = queue
      BY <1>3, <2>1 DEF Take
    <3>2. Len(queue) = 0
      BY <2>1
    <3>3. owner \in {"shutdown", "joined"}
      BY <1>t, <1>n, <2>p, <3>2 DEF TokensMatch, ExitOrders
    <3>4. /\ Cardinality(At("take")') = Cardinality(At("take")) - 1
          /\ Cardinality(At("exited")') = Cardinality(At("exited")) + 1
      BY <1>t, <2>0, <3>1, Move
    <3>5. ExitOrders' = ExitOrders - 1
      BY <1>n, <2>0, <3>3, <3>4 DEF ExitOrders
    <3>6. Len(queue') = 0
      BY <3>1, <3>2
    <3> QED
      BY <1>t, <1>n, <1>o, <2>0, <3>2, <3>4, <3>5, <3>6 DEF TokensMatch
  <2>2. CASE queue # <<>>
    <3>1. pc' = [pc EXCEPT ![w] = "taken"] /\ queue' = Tail(queue)
      BY <1>3, <2>2 DEF Take
    <3>2. Cardinality(At("take")') = Cardinality(At("take")) - 1
      BY <1>t, <2>0, <3>1, Move
    <3>3. At("exited")' = At("exited")
      BY <1>t, <2>0, <3>1, Others
    <3>4. Len(queue') = Len(queue) - 1
      BY <1>t, <2>2, <3>1, Popped
    <3>5. ExitOrders' = ExitOrders
      BY <2>0, <3>3 DEF ExitOrders
    <3> QED
      BY <1>t, <1>n, <1>o, <2>0, <3>2, <3>4, <3>5 DEF TokensMatch
  <2> QED
    BY <2>1, <2>2
<1>4. ASSUME NEW w \in Workers, Begin(w)
      PROVE  TokensMatch'
  <2>1. /\ pc[w] = "taken" /\ UNCHANGED <<queue, unposted, count, owner>>
        /\ pc' = [pc EXCEPT ![w] = "idle"] \/ pc' = [pc EXCEPT ![w] = "exec"]
    BY <1>4 DEF Begin
  <2>2. At("take")' = At("take") /\ At("exited")' = At("exited")
    BY <1>t, <2>1, Others
  <2> QED
    BY <1>t, <2>1, <2>2, TokensKept
<1>5. ASSUME NEW w \in Workers, TaskReturns(w)
      PROVE  TokensMatch'
  <2>1. /\ pc[w] = "exec" /\ pc' = [pc EXCEPT ![w] = "idle"]
        /\ UNCHANGED <<queue, unposted, count, owner>>
    BY <1>5 DEF TaskReturns
  <2>2. At("take")' = At("take") /\ At("exited")' = At("exited")
    BY <1>t, <2>1, Others
  <2> QED
    BY <1>t, <2>1, <2>2, TokensKept
<1>6. ASSUME NEW x \in Threads, PostTask(x)
      PROVE  TokensMatch'
  <2>1. x \in unposted /\ unposted' = unposted \ {x} /\ UNCHANGED <<queue, owner>>
    BY <1>6 DEF PostTask
  <2>2. Cardinality(unposted') = Cardinality(unposted) - 1
    BY <1>n, <2>1, FS_RemoveElement
  <2>3. /\ count' = count + 1
        /\ At("take")' = At("take") /\ At("exited")' = At("exited")
    BY <1>6, <1>t, Woken DEF PostTask
  <2>4. ExitOrders' = ExitOrders
    BY <2>1, <2>3 DEF ExitOrders
  <2> QED
    BY <1>t, <1>n, <1>o, <2>1, <2>2, <2>3, <2>4 DEF TokensMatch
<1>7. ASSUME NEW x \in Threads, SyncReturns(x)
      PROVE  TokensMatch'
  <2>1. UNCHANGED <<queue, unposted, count, pc, owner>>
    BY <1>7 DEF SyncReturns
  <2>2. At("take")' = At("take") /\ At("exited")' = At("exited")
    BY <2>1 DEF At
  <2> QED
    BY <1>t, <2>1, <2>2, TokensKept
<1>8. ASSUME NEW x \in Threads, Release(x)
      PROVE  TokensMatch'
  <2>1. UNCHANGED <<queue, unposted, count, pc, owner>>
    BY <1>8 DEF Release
  <2>2. At("take")' = At("take") /\ At("exited")' = At("exited")
    BY <2>1 DEF At
  <2> QED
    BY <1>t, <2>1, <2>2, TokensKept
<1>9. ASSUME NEW x \in Threads, NEW t \in Tasks, NEW first \in BOOLEAN,
             Async(x, t, first)
      PROVE  TokensMatch'
  <2>1. x \notin unposted /\ UNCHANGED <<count, pc, owner>>
    BY <1>9 DEF Async, CanCall
  <2>2. unposted' = unposted \union {x} /\ Len(queue') = Len(queue) + 1
    BY <1>9, <1>t, Pushed DEF Async
  <2>3. Cardinality(unposted') = Cardinality(unposted) + 1
    BY <1>n, <2>1, <2>2, FS_AddElement
  <2>4. At("take")' = At("take") /\ At("exited")' = At("exited")
    BY <2>1 DEF At
  <2>5. ExitOrders' = ExitOrders
    BY <2>1, <2>4 DEF ExitOrders
  <2> QED
    BY <1>t, <1>n, <1>o, <2>1, <2>2, <2>3, <2>4, <2>5 DEF TokensMatch
<1>10. ASSUME NEW x \in Threads, NEW t \in Tasks, NEW first \in BOOLEAN,
             Sync(x, t, first)
      PROVE  TokensMatch'
  <2>1. x \notin unposted /\ UNCHANGED <<count, pc, owner>>
    BY <1>10 DEF Sync, CanCall
  <2>2. unposted' = unposted \union {x} /\ Len(queue') = Len(queue) + 1
    BY <1>10, <1>t, Pushed DEF Sync
  <2>3. Cardinality(unposted') = Cardinality(unposted) + 1
    BY <1>n, <2>1, <2>2, FS_AddElement
  <2>4. At("take")' = At("take") /\ At("exited")' = At("exited")
    BY <2>1 DEF At
  <2>5. ExitOrders' = ExitOrders
    BY <2>1, <2>4 DEF ExitOrders
  <2> QED
    BY <1>t, <1>n, <1>o, <2>1, <2>2, <2>3, <2>4, <2>5 DEF TokensMatch
<1>11. ASSUME NEW w \in Workers, NEW t \in Tasks, CallInline(w, t)
      PROVE  TokensMatch'
  <2>1. UNCHANGED <<queue, unposted, count, pc, owner>>
    BY <1>11 DEF CallInline
  <2>2. At("take")' = At("take") /\ At("exited")' = At("exited")
    BY <2>1 DEF At
  <2> QED
    BY <1>t, <2>1, <2>2, TokensKept
<1>12. ASSUME NEW t \in Cancelable, Cancel(t)
      PROVE  TokensMatch'
  <2>1. UNCHANGED <<queue, unposted, count, pc, owner>>
    BY <1>12 DEF Cancel
  <2>2. At("take")' = At("take") /\ At("exited")' = At("exited")
    BY <2>1 DEF At
  <2> QED
    BY <1>t, <2>1, <2>2, TokensKept
<1>13. ASSUME NEW w \in Workers, CreateThread(w)
      PROVE  TokensMatch'
  <2>1. /\ pc[w] = "none" /\ pc' = [pc EXCEPT ![w] = "idle"]
        /\ UNCHANGED <<queue, unposted, count, owner>>
    BY <1>13 DEF CreateThread
  <2>2. At("take")' = At("take") /\ At("exited")' = At("exited")
    BY <1>t, <2>1, Others
  <2> QED
    BY <1>t, <2>1, <2>2, TokensKept
<1>14. ASSUME NEW w \in Workers, RegisterThread(w)
      PROVE  TokensMatch'
  <2>1. UNCHANGED <<queue, unposted, count, pc, owner>>
    BY <1>14 DEF RegisterThread
  <2>2. At("take")' = At("take") /\ At("exited")' = At("exited")
    BY <2>1 DEF At
  <2> QED
    BY <1>t, <2>1, <2>2, TokensKept
<1>15. CASE Started
  <2>1. /\ owner = "start" /\ owner' = "running"
        /\ UNCHANGED <<queue, unposted, count, pc>>
    BY <1>15 DEF Started
  <2>2. At("take")' = At("take")
    BY <2>1 DEF At
  <2>3. ExitOrders = 0 /\ ExitOrders' = 0
    BY <2>1 DEF ExitOrders
  <2> QED
    BY <1>t, <2>1, <2>2, <2>3 DEF TokensMatch
<1>16. CASE Shutdown
  <2>1. /\ owner = "running" /\ owner' = "shutdown" /\ UNCHANGED <<queue, unposted>>
        /\ count' = count + Cardinality(Workers)
        /\ At("take")' = At("take") /\ At("exited")' = At("exited")
    BY <1>16, <1>t, <1>n, Woken, AllWoken DEF Shutdown
  <2>2. Cardinality(At("exited")) = 0
    BY <1>t, <2>1, FS_EmptySet DEF NoEarlyExit
  <2>3. ExitOrders = 0 /\ ExitOrders' = Cardinality(Workers)
    BY <1>n, <2>1, <2>2 DEF ExitOrders
  <2> QED
    BY <1>t, <1>n, <2>1, <2>3 DEF TokensMatch
<1>17. CASE Joined
  <2>1. /\ owner = "shutdown" /\ owner' = "joined"
        /\ UNCHANGED <<queue, unposted, count, pc>>
    BY <1>17 DEF Joined
  <2>2. At("take")' = At("take") /\ At("exited")' = At("exited")
    BY <2>1 DEF At
  <2>3. ExitOrders' = ExitOrders
    BY <2>1, <2>2 DEF ExitOrders
  <2> QED
    BY <1>t, <2>1, <2>2, <2>3 DEF TokensMatch
<1>18. CASE UNCHANGED vars
  <2>1. UNCHANGED <<queue, unposted, count, pc, owner>>
    BY <1>18 DEF vars
  <2>2. At("take")' = At("take") /\ At("exited")' = At("exited")
    BY <2>1 DEF At
  <2> QED
    BY <1>t, <2>1, <2>2, TokensKept
<1> QED
  BY <1>1, <1>2, <1>3, <1>4, <1>5, <1>6, <1>7, <1>8, <1>9, <1>10, <1>11, <1>12, <1>13, <1>14, <1>15, <1>16, <1>17, <1>18 DEF Next, WorkerStep, Done

LEMMA ExitInductive ==
  ASSUME IInv, [Next]_vars
  PROVE  NoEarlyExit' /\ CallersGone'
<1> USE DEF NoEarlyExit, CallersGone
<1>t. TypeOK /\ TokensMatch /\ NoEarlyExit /\ CallersGone
  BY DEF IInv
<1>1. ASSUME NEW w \in Workers, SemWait(w)
      PROVE  NoEarlyExit' /\ CallersGone'
  BY <1>1, <1>t DEF SemWait, At, TypeOK
<1>2. ASSUME NEW w \in Workers, SpuriousWake(w)
      PROVE  NoEarlyExit' /\ CallersGone'
  BY <1>2, <1>t DEF SpuriousWake, At, TypeOK
<1>3. ASSUME NEW w \in Workers, Take(w)
      PROVE  NoEarlyExit' /\ CallersGone'
  <2>1. CASE queue = <<>>
    <3>1. w \in At("take")
      BY <1>3 DEF Take, At
    <3>2. Cardinality(At("take")) > 0
      BY <3>1, AtFinite, FS_EmptySet
    <3>3. /\ count \in Nat /\ Cardinality(At("take")) \in Nat
          /\ Cardinality(unposted) \in Nat /\ Len(queue) = 0
      BY <1>t, <2>1, AtFinite, ThreadsFinite DEF TypeOK
    <3>4. owner \in {"shutdown", "joined"}
      BY <1>t, <3>2, <3>3 DEF TokensMatch, ExitOrders
    <3> QED
      BY <1>3, <1>t, <3>4 DEF Take
  <2>2. CASE queue # <<>>
    BY <1>3, <1>t, <2>2 DEF Take, At, TypeOK
  <2> QED
    BY <2>1, <2>2
<1>4. ASSUME NEW w \in Workers, Begin(w)
      PROVE  NoEarlyExit' /\ CallersGone'
  BY <1>4, <1>t DEF Begin, At, TypeOK
<1>5. ASSUME NEW w \in Workers, TaskReturns(w)
      PROVE  NoEarlyExit' /\ CallersGone'
  BY <1>5, <1>t DEF TaskReturns, At, TypeOK
<1>6. ASSUME NEW x \in Threads, PostTask(x)
      PROVE  NoEarlyExit' /\ CallersGone'
  BY <1>6, <1>t, Woken DEF PostTask
<1>7. ASSUME NEW x \in Threads, SyncReturns(x)
      PROVE  NoEarlyExit' /\ CallersGone'
  BY <1>7, <1>t DEF SyncReturns, At
<1>8. ASSUME NEW x \in Threads, Release(x)
      PROVE  NoEarlyExit' /\ CallersGone'
  BY <1>8, <1>t DEF Release, At
<1>9. ASSUME NEW x \in Threads, NEW t \in Tasks, NEW first \in BOOLEAN,
             Async(x, t, first)
      PROVE  NoEarlyExit' /\ CallersGone'
  BY <1>9, <1>t DEF Async, At
<1>10. ASSUME NEW x \in Threads, NEW t \in Tasks, NEW first \in BOOLEAN,
             Sync(x, t, first)
      PROVE  NoEarlyExit' /\ CallersGone'
  BY <1>10, <1>t DEF Sync, At
<1>11. ASSUME NEW w \in Workers, NEW t \in Tasks, CallInline(w, t)
      PROVE  NoEarlyExit' /\ CallersGone'
  BY <1>11, <1>t DEF CallInline, At
<1>12. ASSUME NEW t \in Cancelable, Cancel(t)
      PROVE  NoEarlyExit' /\ CallersGone'
  BY <1>12, <1>t DEF Cancel, At
<1>13. ASSUME NEW w \in Workers, CreateThread(w)
      PROVE  NoEarlyExit' /\ CallersGone'
  BY <1>13, <1>t DEF CreateThread, At, TypeOK
<1>14. ASSUME NEW w \in Workers, RegisterThread(w)
      PROVE  NoEarlyExit' /\ CallersGone'
  BY <1>14, <1>t DEF RegisterThread, At
<1>15. CASE Started
  BY <1>15, <1>t DEF Started, At
<1>16. CASE Shutdown
  BY <1>16, <1>t DEF Shutdown
<1>17. CASE Joined
  BY <1>17, <1>t DEF Joined, At
<1>18. CASE UNCHANGED vars
  BY <1>18, <1>t DEF vars, At
<1> QED
  BY <1>1, <1>2, <1>3, <1>4, <1>5, <1>6, <1>7, <1>8, <1>9, <1>10, <1>11, <1>12, <1>13, <1>14, <1>15, <1>16, <1>17, <1>18 DEF Next, WorkerStep, Done

LEMMA AccountInductive ==
  ASSUME IInv, [Next]_vars
  PROVE  Accounted' /\ Handed'
<1> USE DEF Accounted, Handed
<1>t. TypeOK /\ Accounted /\ Handed
  BY DEF IInv
<1>1. ASSUME NEW w \in Workers, SemWait(w)
      PROVE  Accounted' /\ Handed'
  BY <1>1, <1>t DEF SemWait, TypeOK
<1>2. ASSUME NEW w \in Workers, SpuriousWake(w)
      PROVE  Accounted' /\ Handed'
  BY <1>2, <1>t DEF SpuriousWake, TypeOK
<1>3. ASSUME NEW w \in Workers, Take(w)
      PROVE  Accounted' /\ Handed'
  <2>1. CASE queue = <<>>
    BY <1>3, <1>t, <2>1 DEF Take, TypeOK
  <2>2. CASE queue # <<>>
    <3>1. /\ pc' = [pc EXCEPT ![w] = "taken"] /\ cur' = [cur EXCEPT ![w] = Head(queue).id]
          /\ queue' = Tail(queue) /\ UNCHANGED <<posted, ended>> /\ pc[w] = "take"
      BY <1>3, <2>2 DEF Take
    <3>2. Handed'
      BY <1>t, <2>2, <3>1, Popped DEF TypeOK
    <3>3. ASSUME NEW t \in posted', t \notin ended'
          PROVE  \/ \E j \in DOMAIN queue' : queue'[j].id = t
                 \/ \E v \in Workers : cur'[v] = t /\ pc'[v] \in {"taken", "exec"}
      <4>1. CASE \E j \in DOMAIN queue : queue[j].id = t
        <5>1. PICK j \in DOMAIN queue : queue[j].id = t
          BY <4>1
        <5>2. CASE t = Head(queue).id
          BY <1>t, <3>1, <5>2 DEF TypeOK
        <5>3. CASE t # Head(queue).id
          BY <1>t, <2>2, <3>1, <5>1, <5>3, Popped
        <5> QED
          BY <5>2, <5>3
      <4>2. CASE \E v \in Workers : cur[v] = t /\ pc[v] \in {"taken", "exec"}
        <5>1. PICK v \in Workers : cur[v] = t /\ pc[v] \in {"taken", "exec"}
          BY <4>2
        <5>2. v # w
          BY <3>1, <5>1
        <5> QED
          BY <1>t, <3>1, <5>1, <5>2 DEF TypeOK
      <4> QED
        BY <1>t, <3>1, <3>3, <4>1, <4>2
    <3> QED
      BY <3>2, <3>3
  <2> QED
    BY <2>1, <2>2
<1>4. ASSUME NEW w \in Workers, Begin(w)
      PROVE  Accounted' /\ Handed'
  BY <1>4, <1>t DEF Begin, TypeOK
<1>5. ASSUME NEW w \in Workers, TaskReturns(w)
      PROVE  Accounted' /\ Handed'
  BY <1>5, <1>t DEF TaskReturns, TypeOK
<1>6. ASSUME NEW x \in Threads, PostTask(x)
      PROVE  Accounted' /\ Handed'
  <2>1. /\ UNCHANGED <<queue, cur, posted, ended>>
        /\ \A v \in Workers : pc'[v] # pc[v] => pc[v] = "blocked" /\ pc'[v] = "idle"
    BY <1>6, <1>t, Woken DEF PostTask
  <2> QED
    BY <1>t, <2>1
<1>7. ASSUME NEW x \in Threads, SyncReturns(x)
      PROVE  Accounted' /\ Handed'
  BY <1>7, <1>t DEF SyncReturns
<1>8. ASSUME NEW x \in Threads, Release(x)
      PROVE  Accounted' /\ Handed'
  BY <1>8, <1>t DEF Release
<1>9. ASSUME NEW x \in Threads, NEW t \in Tasks, NEW first \in BOOLEAN,
             Async(x, t, first)
      PROVE  Accounted' /\ Handed'
  <2>1. UNCHANGED <<pc, cur, ended>>
    BY <1>9 DEF Async
  <2>2. /\ \A j \in DOMAIN queue' :
             queue'[j].id = t \/ \E k \in DOMAIN queue : queue'[j].id = queue[k].id
        /\ \A k \in DOMAIN queue : \E j \in DOMAIN queue' : queue'[j].id = queue[k].id
        /\ \E j \in DOMAIN queue' : queue'[j].id = t
        /\ posted' = posted \union {t}
    BY <1>9, <1>t, Pushed DEF Async
  <2>3. Handed'
    BY <1>t, <2>1, <2>2
  <2>4. Accounted'
    BY <1>t, <2>1, <2>2
  <2> QED
    BY <2>3, <2>4
<1>10. ASSUME NEW x \in Threads, NEW t \in Tasks, NEW first \in BOOLEAN,
             Sync(x, t, first)
      PROVE  Accounted' /\ Handed'
  <2>1. UNCHANGED <<pc, cur, ended>>
    BY <1>10 DEF Sync
  <2>2. /\ \A j \in DOMAIN queue' :
             queue'[j].id = t \/ \E k \in DOMAIN queue : queue'[j].id = queue[k].id
        /\ \A k \in DOMAIN queue : \E j \in DOMAIN queue' : queue'[j].id = queue[k].id
        /\ \E j \in DOMAIN queue' : queue'[j].id = t
        /\ posted' = posted \union {t}
    BY <1>10, <1>t, Pushed DEF Sync
  <2>3. Handed'
    BY <1>t, <2>1, <2>2
  <2>4. Accounted'
    BY <1>t, <2>1, <2>2
  <2> QED
    BY <2>3, <2>4
<1>11. ASSUME NEW w \in Workers, NEW t \in Tasks, CallInline(w, t)
      PROVE  Accounted' /\ Handed'
  BY <1>11, <1>t DEF CallInline
<1>12. ASSUME NEW t \in Cancelable, Cancel(t)
      PROVE  Accounted' /\ Handed'
  BY <1>12, <1>t DEF Cancel
<1>13. ASSUME NEW w \in Workers, CreateThread(w)
      PROVE  Accounted' /\ Handed'
  BY <1>13, <1>t DEF CreateThread, TypeOK
<1>14. ASSUME NEW w \in Workers, RegisterThread(w)
      PROVE  Accounted' /\ Handed'
  BY <1>14, <1>t DEF RegisterThread
<1>15. CASE Started
  BY <1>15, <1>t DEF Started
<1>16. CASE Shutdown
  <2>1. /\ UNCHANGED <<queue, cur, posted, ended>>
        /\ \A v \in Workers : pc'[v] # pc[v] => pc[v] = "blocked" /\ pc'[v] = "idle"
    BY <1>16, <1>t, Woken, AllWoken, AtFinite DEF Shutdown
  <2> QED
    BY <1>t, <2>1
<1>17. CASE Joined
  BY <1>17, <1>t DEF Joined
<1>18. CASE UNCHANGED vars
  BY <1>18, <1>t DEF vars
<1> QED
  BY <1>1, <1>2, <1>3, <1>4, <1>5, <1>6, <1>7, <1>8, <1>9, <1>10, <1>11, <1>12, <1>13, <1>14, <1>15, <1>16, <1>17, <1>18 DEF Next, WorkerStep, Done

LEMMA LastOutInductive ==
  ASSUME IInv, [Next]_vars
  PROVE  LastOut'
<1> USE DEF LastOut, At
<1>t. TypeOK /\ NoEarlyExit /\ CallersGone /\ LastOut
  BY DEF IInv
<1>w. Workers # {} /\ Callers \intersect Workers = {}
  BY ConstantsAssumption
<1>1. ASSUME NEW w \in Workers, SemWait(w)
      PROVE  LastOut'
  BY <1>1, <1>t, <1>w DEF SemWait, TypeOK
<1>2. ASSUME NEW w \in Workers, SpuriousWake(w)
      PROVE  LastOut'
  BY <1>2, <1>t, <1>w DEF SpuriousWake, TypeOK
<1>3. ASSUME NEW w \in Workers, Take(w)
      PROVE  LastOut'
  <2>1. CASE queue = <<>>
    BY <1>3, <1>t, <2>1 DEF Take, TypeOK
  <2>2. CASE queue # <<>>
    BY <1>3, <1>t, <2>2 DEF Take, TypeOK
  <2> QED
    BY <2>1, <2>2
<1>4. ASSUME NEW w \in Workers, Begin(w)
      PROVE  LastOut'
  BY <1>4, <1>t, <1>w DEF Begin, TypeOK
<1>5. ASSUME NEW w \in Workers, TaskReturns(w)
      PROVE  LastOut'
  BY <1>5, <1>t, <1>w DEF TaskReturns, TypeOK
<1>6. ASSUME NEW x \in Threads, PostTask(x)
      PROVE  LastOut'
  <2>1. /\ UNCHANGED <<queue, owner, holding>> /\ unposted' \subseteq unposted
        /\ pc' \in [Workers -> Labels]
        /\ \A v \in Workers : pc'[v] # pc[v] => pc[v] = "blocked" /\ pc'[v] = "idle"
    BY <1>6, <1>t, Woken DEF PostTask
  <2> QED
    BY <1>t, <2>1
<1>7. ASSUME NEW x \in Threads, SyncReturns(x)
      PROVE  LastOut'
  BY <1>7, <1>t, <1>w DEF SyncReturns, TypeOK
<1>8. ASSUME NEW x \in Threads, Release(x)
      PROVE  LastOut'
  BY <1>8, <1>t DEF Release, CanCall
<1>9. ASSUME NEW x \in Threads, NEW t \in Tasks, NEW first \in BOOLEAN,
             Async(x, t, first)
      PROVE  LastOut'
  <2>1. (x \in holding \/ x \in At("exec")) /\ unposted' = unposted \union {x}
    BY <1>9 DEF Async, CanCall, Push
  <2>2. UNCHANGED <<pc, owner, holding>>
    BY <1>9 DEF Async
  <2>3. At("exited") # Workers
    BY <1>t, <1>w, <2>1 DEF NoEarlyExit, CallersGone
  <2> QED
    BY <1>t, <2>1, <2>2, <2>3
<1>10. ASSUME NEW x \in Threads, NEW t \in Tasks, NEW first \in BOOLEAN,
             Sync(x, t, first)
      PROVE  LastOut'
  <2>1. (x \in holding \/ x \in At("exec")) /\ unposted' = unposted \union {x}
    BY <1>10 DEF Sync, CanCall, Push
  <2>2. UNCHANGED <<pc, owner, holding>>
    BY <1>10 DEF Sync
  <2>3. At("exited") # Workers
    BY <1>t, <1>w, <2>1 DEF NoEarlyExit, CallersGone
  <2> QED
    BY <1>t, <2>1, <2>2, <2>3
<1>11. ASSUME NEW w \in Workers, NEW t \in Tasks, CallInline(w, t)
      PROVE  LastOut'
  BY <1>11, <1>t, <1>w DEF CallInline, TypeOK
<1>12. ASSUME NEW t \in Cancelable, Cancel(t)
      PROVE  LastOut'
  BY <1>12, <1>t, <1>w DEF Cancel, TypeOK
<1>13. ASSUME NEW w \in Workers, CreateThread(w)
      PROVE  LastOut'
  BY <1>13, <1>t, <1>w DEF CreateThread, TypeOK
<1>14. ASSUME NEW w \in Workers, RegisterThread(w)
      PROVE  LastOut'
  BY <1>14, <1>t, <1>w DEF RegisterThread, TypeOK
<1>15. CASE Started
  BY <1>15, <1>t, <1>w DEF Started, TypeOK
<1>16. CASE Shutdown
  <2>1. /\ UNCHANGED <<queue, unposted, holding>> /\ owner' = "shutdown"
        /\ \A v \in Workers : pc'[v] # pc[v] => pc[v] = "blocked" /\ pc'[v] = "idle"
    BY <1>16, <1>t, Woken, AllWoken, AtFinite DEF Shutdown
  <2> QED
    BY <1>t, <2>1
<1>17. CASE Joined
  BY <1>17, <1>t, <1>w DEF Joined, TypeOK
<1>18. CASE UNCHANGED vars
  BY <1>18, <1>t, <1>w DEF vars, TypeOK
<1> QED
  BY <1>1, <1>2, <1>3, <1>4, <1>5, <1>6, <1>7, <1>8, <1>9, <1>10, <1>11, <1>12, <1>13, <1>14, <1>15, <1>16, <1>17, <1>18 DEF Next, WorkerStep, Done

LEMMA IInvHolds == Spec => []IInv
<1>1. Init => IInv
  BY InitIInv
<1>2. IInv /\ [Next]_vars => IInv'
  <2> SUFFICES ASSUME IInv, [Next]_vars PROVE IInv'
    OBVIOUS
  <2>1. TypeOK'
    BY TypeOKInductive DEF IInv
  <2> QED
    BY <2>1, TokensInductive, ExitInductive, AccountInductive, LastOutInductive DEF IInv
<1> QED
  BY <1>1, <1>2, PTL DEF Spec

(* Every variable keeps the type the code gives it; the counter of the     *)
(* semaphore never goes below zero.                                        *)
THEOREM TypeCorrect == Spec => []TypeOK
<1>1. IInv => TypeOK
  BY DEF IInv
<1> QED
  BY <1>1, IInvHolds, PTL

(* Tokens of the semaphore and elements of the queue stay in balance,      *)
(* whoever consumes the tokens.                                            *)
THEOREM TokensBalance == Spec => []TokensMatch
<1>1. IInv => TokensMatch
  BY DEF IInv
<1> QED
  BY <1>1, IInvHolds, PTL

(* No worker exits before the destructor ordered it.                       *)
THEOREM WorkersStay == Spec => []NoEarlyExit
<1>1. IInv => NoEarlyExit
  BY DEF IInv
<1> QED
  BY <1>1, IInvHolds, PTL

(* When the destructor has joined the workers, every task that was handed  *)
(* over is done with and the queue is empty.                               *)
THEOREM DestructorRunsAll == Spec => []NothingLost
<1>1. IInv => NothingLost
  <2> SUFFICES ASSUME IInv, owner = "joined"
               PROVE  queue = <<>> /\ posted = ended
    BY DEF NothingLost
  <2>1. At("exited") = Workers /\ queue = <<>>
    BY DEF IInv, LastOut
  <2>2. posted \subseteq ended
    BY <2>1 DEF IInv, Accounted, At
  <2> QED
    BY <2>1, <2>2 DEF IInv, Handed
<1> QED
  BY <1>1, IInvHolds, PTL

(***************************************************************************)
(* The safety half of the refinement of AsyncExecutor.                     *)
(***************************************************************************)

(* No task stands in the queue twice. *)
Once == \A i, j \in DOMAIN queue : queue[i].id = queue[j].id => i = j

(* async puts the task behind the waiting ones, async_first changes        *)
(* nothing for them.                                                       *)
LEMMA PushRefines ==
  ASSUME TypeOK, Handed, Once, NEW x, NEW t \in Tasks, NEW first \in BOOLEAN,
         Push(x, t, first)
  PROVE  /\ Once' /\ t \notin Waiting
         /\ Waiting' = IF first THEN Waiting ELSE Waiting \union {t}
         /\ Urgent' = IF first THEN Urgent \union {t} ELSE Urgent
         /\ Before' = IF first THEN Before ELSE Before \union (Waiting \X {t})
<1> DEFINE e == [id |-> t, first |-> first]
<1>1. queue \in Seq(QueueEntry) /\ e \in QueueEntry /\ Len(queue) \in Nat
  BY DEF TypeOK, QueueEntry
<1>2. \A i \in DOMAIN queue : queue[i] \in QueueEntry /\ queue[i].id # t
  <2>1. t \notin posted /\ \A i \in DOMAIN queue : queue[i].id \in posted
    BY DEF Handed, Push
  <2> QED
    BY <1>1, <2>1
<1>3. CASE first
  <2>1. queue' = <<e>> \o queue
    BY <1>3 DEF Push
  <2> HIDE DEF e
  <2>2. /\ DOMAIN queue' = 1 .. Len(queue) + 1 /\ DOMAIN queue = 1 .. Len(queue)
        /\ queue'[1] = e
        /\ \A i \in 1 .. Len(queue) : queue'[i + 1] = queue[i]
    BY <1>1, <2>1
  <2>3. /\ \A i \in DOMAIN queue' : i = 1 \/ (i - 1 \in DOMAIN queue /\ queue'[i] = queue[i - 1])
        /\ \A i \in DOMAIN queue : i + 1 \in DOMAIN queue' /\ queue'[i + 1] = queue[i]
        /\ 1 \in DOMAIN queue' /\ queue'[1] = e
        /\ DOMAIN queue' \subseteq Int /\ DOMAIN queue \subseteq 1 .. Len(queue)
    BY <1>1, <2>2
  <2>4. e = [id |-> t, first |-> TRUE]
    BY <1>3 DEF e
  <2>5. Once'
    <3> SUFFICES ASSUME NEW i \in DOMAIN queue', NEW j \in DOMAIN queue',
                        queue'[i].id = queue'[j].id
                 PROVE  i = j
      BY DEF Once
    <3>1. CASE i = 1 \/ j = 1
      BY <3>1, <1>2, <2>3, <2>4
    <3>2. CASE i # 1 /\ j # 1
      <4>1. i - 1 = j - 1
        BY <3>2, <2>3 DEF Once
      <4> QED
        BY <4>1, <2>3
    <3> QED
      BY <3>1, <3>2
  <2>6. Waiting' = Waiting
    BY <1>1, <2>3, <2>4 DEF Waiting
  <2>7. Urgent' = Urgent \union {t}
    BY <1>1, <2>3, <2>4 DEF Urgent
  <2>8. t \notin Waiting
    BY <1>2 DEF Waiting
  <2>9. Before' = Before
    <3>1. ASSUME NEW p \in Waiting \X Waiting
          PROVE  p \in Before' <=> p \in Before
      <4>1. p[1] # t /\ p[2] # t
        BY <2>8
      <4>2. p \in Before => p \in Before'
        <5> SUFFICES ASSUME NEW i \in DOMAIN queue, NEW j \in DOMAIN queue, i < j,
                            queue[i].id = p[1], queue[j].id = p[2]
                     PROVE  p \in Before'
          BY DEF Before
        <5>1. i + 1 \in DOMAIN queue' /\ j + 1 \in DOMAIN queue' /\ i + 1 < j + 1
          BY <1>1, <2>3
        <5> QED
          BY <5>1, <2>3, <2>6 DEF Before
      <4>3. p \in Before' => p \in Before
        <5> SUFFICES ASSUME NEW i \in DOMAIN queue', NEW j \in DOMAIN queue', i < j,
                            queue'[i].id = p[1], queue'[j].id = p[2]
                     PROVE  p \in Before
          BY DEF Before
        <5>1. i # 1 /\ j # 1
          BY <4>1, <2>3, <2>4
        <5>2. i - 1 \in DOMAIN queue /\ j - 1 \in DOMAIN queue /\ i - 1 < j - 1
          BY <5>1, <1>1, <2>3
        <5> QED
          BY <5>1, <5>2, <2>3 DEF Before
      <4> QED
        BY <4>2, <4>3
    <3> QED
      BY <3>1, <2>6 DEF Before
  <2> QED
    BY <1>3, <2>5, <2>6, <2>7, <2>8, <2>9
<1>4. CASE ~first
  <2>1. queue' = Append(queue, e)
    BY <1>4 DEF Push
  <2> HIDE DEF e
  <2>2. /\ DOMAIN queue' = 1 .. Len(queue) + 1 /\ DOMAIN queue = 1 .. Len(queue)
        /\ queue'[Len(queue) + 1] = e
        /\ \A i \in 1 .. Len(queue) : queue'[i] = queue[i]
    BY <1>1, <2>1
  <2> DEFINE last == Len(queue) + 1
  <2>3. /\ \A i \in DOMAIN queue' : i = last \/ (i \in DOMAIN queue /\ queue'[i] = queue[i])
        /\ \A i \in DOMAIN queue : i \in DOMAIN queue' /\ queue'[i] = queue[i] /\ i < last
        /\ last \in DOMAIN queue' /\ queue'[last] = e
        /\ DOMAIN queue' \subseteq Int /\ \A i \in DOMAIN queue' : ~(last < i)
    BY <1>1, <2>2
  <2> HIDE DEF last
  <2>4. e = [id |-> t, first |-> FALSE]
    BY <1>4 DEF e
  <2>5. Once'
    BY <1>1, <1>2, <2>3, <2>4 DEF Once
  <2>6. Waiting' = Waiting \union {t}
    BY <1>1, <2>3, <2>4 DEF Waiting
  <2>7. Urgent' = Urgent
    BY <1>1, <2>3, <2>4 DEF Urgent
  <2>8. t \notin Waiting
    BY <1>2 DEF Waiting
  <2>9. Before' = Before \union (Waiting \X {t})
    <3>1. ASSUME NEW p \in Before PROVE p \in Before'
      <4>1. PICK i \in DOMAIN queue, j \in DOMAIN queue :
                i < j /\ queue[i].id = p[1] /\ queue[j].id = p[2]
        BY DEF Before
      <4>2. p \in Waiting' \X Waiting'
        BY <2>6 DEF Before
      <4> QED
        BY <4>1, <4>2, <2>3 DEF Before
    <3>2. ASSUME NEW s \in Waiting PROVE <<s, t>> \in Before'
      <4>1. PICK i \in DOMAIN queue : queue[i].id = s
        BY DEF Waiting
      <4>2. queue'[i].id = s /\ queue'[last].id = t /\ i < last /\ i \in DOMAIN queue'
        BY <4>1, <2>3, <2>4
      <4>3. <<s, t>> \in Waiting' \X Waiting'
        BY <2>6
      <4> QED
        BY <4>2, <4>3, <2>3 DEF Before
    <3>3. ASSUME NEW p \in Before' PROVE p \in Before \union (Waiting \X {t})
      <4>1. PICK i \in DOMAIN queue', j \in DOMAIN queue' :
                i < j /\ queue'[i].id = p[1] /\ queue'[j].id = p[2]
        BY DEF Before
      <4>2. p \in Waiting' \X Waiting'
        BY DEF Before
      <4>3. i # last /\ i \in DOMAIN queue /\ queue[i].id = p[1]
        BY <4>1, <2>3
      <4>4. p[1] \in Waiting
        BY <4>2, <4>3, <1>2, <2>6
      <4>5. CASE j = last
        BY <4>1, <4>2, <4>4, <4>5, <2>3, <2>4
      <4>6. CASE j # last
        <5>1. j \in DOMAIN queue /\ queue[j].id = p[2]
          BY <4>1, <4>6, <2>3
        <5>2. p[2] \in Waiting
          BY <4>2, <5>1, <1>2, <2>6
        <5>3. p \in Waiting \X Waiting
          BY <4>2, <4>4, <5>2
        <5> QED
          BY <4>1, <4>3, <5>1, <5>3 DEF Before
      <4> QED
        BY <4>5, <4>6
    <3> QED
      BY <3>1, <3>2, <3>3
  <2> QED
    BY <1>4, <2>5, <2>6, <2>7, <2>8, <2>9
<1> QED
  BY <1>3, <1>4

(* The head of the queue is first among those that waited. *)
LEMMA PopRefines ==
  ASSUME TypeOK, Once, queue # <<>>, queue' = Tail(queue)
  PROVE  LET t == Head(queue).id IN
         /\ Once' /\ t \in Tasks
         /\ ~Head(queue).first => t \in Waiting /\ (\A s \in Waiting : <<s, t>> \notin Before)
         /\ Waiting' = IF Head(queue).first THEN Waiting ELSE Waiting \ {t}
         /\ Before' = IF Head(queue).first THEN Before ELSE {p \in Before : p[1] # t}
         /\ Head(queue).first => t \in Urgent
         /\ Urgent' = IF Head(queue).first THEN Urgent \ {t} ELSE Urgent
<1> DEFINE t == Head(queue).id
           first == Head(queue).first
<1>1. queue \in Seq(QueueEntry) /\ Len(queue) \in Nat /\ Len(queue) > 0
  BY DEF TypeOK, QueueEntry
<1>2. /\ DOMAIN queue = 1 .. Len(queue) /\ DOMAIN queue' = 1 .. Len(queue) - 1
      /\ Head(queue) = queue[1]
      /\ \A i \in 1 .. Len(queue) - 1 : queue'[i] = queue[i + 1]
  BY <1>1
<1>3. /\ \A i \in DOMAIN queue : i = 1 \/ (i - 1 \in DOMAIN queue' /\ queue'[i - 1] = queue[i])
      /\ \A i \in DOMAIN queue' : i + 1 \in DOMAIN queue /\ queue'[i] = queue[i + 1] /\ i > 0
      /\ 1 \in DOMAIN queue /\ queue[1] = Head(queue)
      /\ DOMAIN queue \subseteq Int /\ \A i \in DOMAIN queue : ~(i < 1)
  BY <1>1, <1>2
<1>4. \A i \in DOMAIN queue : queue[i] \in QueueEntry
  BY <1>1
<1>5. t \in Tasks /\ first \in BOOLEAN /\ queue[1] = [id |-> t, first |-> first]
  BY <1>3, <1>4 DEF QueueEntry
<1>6. queue[1].id = t
  BY <1>3
<1> HIDE DEF t, first
<1>7. \A i \in DOMAIN queue : i # 1 => queue[i].id # t
  BY <1>3, <1>6 DEF Once
<1>8. Once'
  BY <1>3 DEF Once
<1>9. \A i \in DOMAIN queue' : queue'[i].id # t
  <2> SUFFICES ASSUME NEW i \in DOMAIN queue' PROVE queue'[i].id # t
    OBVIOUS
  <2>1. i + 1 \in DOMAIN queue /\ i + 1 # 1 /\ queue'[i] = queue[i + 1]
    BY <1>1, <1>2, <1>3
  <2> QED
    BY <2>1, <1>7
<1>10. \A s \in Waiting : <<s, t>> \notin Before
  <2> SUFFICES ASSUME NEW s, <<s, t>> \in Before PROVE FALSE
    OBVIOUS
  <2>1. PICK i \in DOMAIN queue, j \in DOMAIN queue : i < j /\ queue[j].id = t
    BY DEF Before
  <2>2. j # 1
    BY <2>1, <1>3
  <2> QED
    BY <2>1, <2>2, <1>7
<1>11. ~first => t \in Waiting
  BY <1>3, <1>5 DEF Waiting
<1>12. first => t \in Urgent /\ t \notin Waiting
  BY <1>3, <1>5, <1>7 DEF Urgent, Waiting
<1>13. \A f \in BOOLEAN, s \in Tasks :
         (\E i \in DOMAIN queue' : queue'[i] = [id |-> s, first |-> f])
           <=> (s # t /\ \E i \in DOMAIN queue : queue[i] = [id |-> s, first |-> f])
  <2> SUFFICES ASSUME NEW f \in BOOLEAN, NEW s \in Tasks
               PROVE  (\E i \in DOMAIN queue' : queue'[i] = [id |-> s, first |-> f])
                 <=> (s # t /\ \E i \in DOMAIN queue : queue[i] = [id |-> s, first |-> f])
    OBVIOUS
  <2>1. ASSUME NEW i \in DOMAIN queue', queue'[i] = [id |-> s, first |-> f]
        PROVE  s # t /\ \E k \in DOMAIN queue : queue[k] = [id |-> s, first |-> f]
    BY <2>1, <1>3, <1>9
  <2>2. ASSUME s # t, NEW i \in DOMAIN queue, queue[i] = [id |-> s, first |-> f]
        PROVE  \E k \in DOMAIN queue' : queue'[k] = [id |-> s, first |-> f]
    <3>1. i # 1
      BY <2>2, <1>6
    <3>2. i - 1 \in DOMAIN queue' /\ queue'[i - 1] = queue[i]
      BY <3>1, <1>3
    <3> QED
      BY <2>2, <3>2
  <2> QED
    BY <2>1, <2>2
<1>14. Waiting' = Waiting \ {t} /\ Urgent' = Urgent \ {t}
  BY <1>13 DEF Waiting, Urgent
<1>15. ~first => t \notin Urgent
  BY <1>3, <1>5, <1>7 DEF Urgent
<1>16. Before' = {p \in Before : p[1] # t}
  <2>1. ASSUME NEW p \in Before' PROVE p \in Before /\ p[1] # t
    <3>1. PICK i \in DOMAIN queue', j \in DOMAIN queue' :
              i < j /\ queue'[i].id = p[1] /\ queue'[j].id = p[2]
      BY DEF Before
    <3>2. p \in Waiting' \X Waiting'
      BY DEF Before
    <3>3. i + 1 \in DOMAIN queue /\ j + 1 \in DOMAIN queue /\ i + 1 < j + 1
      BY <3>1, <1>1, <1>2
    <3>4. queue[i + 1].id = p[1] /\ queue[j + 1].id = p[2] /\ p[1] # t
      BY <3>1, <1>3, <1>9
    <3>5. p \in Waiting \X Waiting
      BY <3>2, <1>14
    <3> QED
      BY <3>3, <3>4, <3>5 DEF Before
  <2>2. ASSUME NEW p \in Before, p[1] # t PROVE p \in Before'
    <3>1. PICK i \in DOMAIN queue, j \in DOMAIN queue :
              i < j /\ queue[i].id = p[1] /\ queue[j].id = p[2]
      BY DEF Before
    <3>2. p \in Waiting \X Waiting
      BY DEF Before
    <3>3. i # 1 /\ j # 1
      BY <2>2, <3>1, <1>3, <1>6
    <3>4. i - 1 \in DOMAIN queue' /\ j - 1 \in DOMAIN queue' /\ i - 1 < j - 1
      BY <3>1, <3>3, <1>1, <1>2, <1>3
    <3>5. queue'[i - 1].id = p[1] /\ queue'[j - 1].id = p[2]
      BY <3>1, <3>3, <1>3
    <3>6. p[2] # t
      BY <3>1, <3>3, <1>7
    <3>7. p \in Waiting' \X Waiting'
      BY <2>2, <3>2, <3>6, <1>14
    <3> QED
      BY <3>4, <3>5, <3>7 DEF Before
  <2> QED
    BY <2>1, <2>2
<1>17. first => {p \in Before : p[1] # t} = Before
  BY <1>12 DEF Before
<1> QED
  BY <1>5, <1>8, <1>10, <1>11, <1>12, <1>14, <1>15, <1>16, <1>17 DEF t, first

Refined == IInv /\ Once

LEMMA OnceInductive ==
  ASSUME Refined, [Next]_vars
  PROVE  Once'
<1>t. TypeOK /\ Handed /\ Once
  BY DEF Refined, IInv
<1>1. ASSUME NEW x \in Threads, NEW t \in Tasks, NEW first \in BOOLEAN,
             Async(x, t, first) \/ Sync(x, t, first)
      PROVE  Once'
  BY <1>1, <1>t, PushRefines DEF Async, Sync
<1>2. ASSUME NEW w \in Workers, Take(w)
      PROVE  Once'
  <2>1. CASE queue = <<>>
    BY <2>1, <1>2, <1>t DEF Take, Once
  <2>2. CASE queue # <<>>
    <3>1. queue' = Tail(queue)
      BY <2>2, <1>2 DEF Take
    <3> QED
      BY <2>2, <3>1, <1>t, PopRefines
  <2> QED
    BY <2>1, <2>2
<1>3. UNCHANGED queue => Once'
  BY <1>t DEF Once
<1> QED
  BY <1>1, <1>2, <1>3 DEF Next, WorkerStep, SemWait, Begin, TaskReturns, SpuriousWake,
     PostTask, SyncReturns, Release, CallInline, Cancel, CreateThread, RegisterThread,
     Started, Shutdown, Joined, Done, vars

LEMMA RefinedHolds == Spec => []Refined
<1>1. Init => Once
  BY DEF Init, Once
<1>2. Refined /\ IInv' /\ [Next]_vars => Refined'
  BY OnceInductive DEF Refined
<1> QED
  BY <1>1, <1>2, IInvHolds, PTL DEF Spec, Refined

(* What AsyncExecutor sees of a step.                                      *)
LEMMA Unseen ==
  ASSUME UNCHANGED <<queue, posted, turn, cancelled>>
  PROVE  UNCHANGED Executor!vars
BY DEF Executor!vars, Waiting, Before, Urgent

LEMMA StepRefines ==
  ASSUME Refined, [Next]_vars
  PROVE  [Executor!Next]_(Executor!vars)
<1>t. TypeOK /\ Handed /\ Once
  BY DEF Refined, IInv
<1>1. ASSUME NEW x \in Threads, NEW t \in Tasks, NEW first \in BOOLEAN,
             Push(x, t, first), UNCHANGED <<turn, cancelled>>
      PROVE  Executor!Next
  <2>1. /\ Waiting' = IF first THEN Waiting ELSE Waiting \union {t}
        /\ Urgent' = IF first THEN Urgent \union {t} ELSE Urgent
        /\ Before' = IF first THEN Before ELSE Before \union (Waiting \X {t})
    BY <1>1, <1>t, PushRefines
  <2>2. t \in Tasks \ posted /\ posted' = posted \union {t}
    BY <1>1 DEF Push
  <2>3. CASE first
    BY <2>1, <2>2, <2>3, <1>1 DEF Executor!AsyncFirst, Executor!Next
  <2>4. CASE ~first
    BY <2>1, <2>2, <2>4, <1>1 DEF Executor!Async, Executor!Next
  <2> QED
    BY <2>3, <2>4
<1>2. ASSUME NEW w \in Workers, Take(w)
      PROVE  [Executor!Next]_(Executor!vars)
  <2>1. CASE queue = <<>>
    BY <2>1, <1>2, Unseen DEF Take
  <2>2. CASE queue # <<>>
    <3> DEFINE t == Head(queue).id
    <3>1. /\ queue' = Tail(queue) /\ UNCHANGED <<posted, cancelled>>
          /\ turn' = IF t \in cancelled THEN turn ELSE turn \union {t}
      BY <2>2, <1>2 DEF Take
    <3>2. /\ t \in Tasks
          /\ ~Head(queue).first => t \in Waiting /\ (\A s \in Waiting : <<s, t>> \notin Before)
          /\ Waiting' = IF Head(queue).first THEN Waiting ELSE Waiting \ {t}
          /\ Before' = IF Head(queue).first THEN Before ELSE {p \in Before : p[1] # t}
          /\ Head(queue).first => t \in Urgent
          /\ Urgent' = IF Head(queue).first THEN Urgent \ {t} ELSE Urgent
      BY <2>2, <3>1, <1>t, PopRefines
    <3> HIDE DEF t
    <3>3. CASE Head(queue).first
      <4>1. Executor!TurnOfUrgent(t)
        BY <3>1, <3>2, <3>3 DEF Executor!TurnOfUrgent, Executor!Turn
      <4> QED
        BY <4>1, <3>2 DEF Executor!Next
    <3>4. CASE ~Head(queue).first
      <4>1. Executor!TurnOfWaiting(t)
        BY <3>1, <3>2, <3>4 DEF Executor!TurnOfWaiting, Executor!Turn
      <4> QED
        BY <4>1, <3>2 DEF Executor!Next
    <3> QED
      BY <3>3, <3>4
  <2> QED
    BY <2>1, <2>2
<1>3. ASSUME NEW w \in Workers, NEW t \in Tasks, CallInline(w, t)
      PROVE  Executor!Next
  <2>1. UNCHANGED <<Waiting, Before, Urgent>>
    BY <1>3 DEF CallInline, Waiting, Before, Urgent
  <2>2. Executor!CallInline(t)
    BY <1>3, <2>1 DEF CallInline, Executor!CallInline
  <2> QED
    BY <2>2 DEF Executor!Next
<1>4. ASSUME NEW t \in Cancelable, Cancel(t)
      PROVE  Executor!Next
  <2>1. UNCHANGED <<Waiting, Before, Urgent>> /\ t \in Tasks
    BY <1>4, ConstantsAssumption DEF Cancel, Waiting, Before, Urgent
  <2>2. Executor!Cancel(t)
    BY <1>4, <2>1 DEF Cancel, Executor!Cancel
  <2> QED
    BY <2>1, <2>2 DEF Executor!Next
<1>5. CASE \E x \in Threads, t \in Tasks, first \in BOOLEAN :
             Async(x, t, first) \/ Sync(x, t, first)
  BY <1>1, <1>5 DEF Async, Sync
<1> DEFINE Same == UNCHANGED <<queue, posted, turn, cancelled>>
<1>6. CASE Same
  BY <1>6, Unseen
<1>7. \A w \in Workers : SemWait(w) \/ Begin(w) \/ TaskReturns(w) \/ SpuriousWake(w)
                           \/ CreateThread(w) \/ RegisterThread(w) => Same
  BY DEF SemWait, Begin, TaskReturns, SpuriousWake, CreateThread, RegisterThread
<1>8. \A x \in Threads : PostTask(x) \/ SyncReturns(x) \/ Release(x) => Same
  BY DEF PostTask, SyncReturns, Release
<1>9. Started \/ Shutdown \/ Joined \/ Done \/ UNCHANGED vars => Same
  BY DEF Started, Shutdown, Joined, Done, vars
<1> HIDE DEF Same
<1> QED
  BY <1>2, <1>3, <1>4, <1>5, <1>6, <1>7, <1>8, <1>9 DEF Next, WorkerStep

(* ThreadPool::async, async_first and sync (47-66) do nothing that         *)
(* AsyncExecutor does not allow: no task starts twice, before one that was *)
(* handed over earlier with async, or after its cancel.                    *)
THEOREM ExecutorRefined == Spec => Executor!Safety
<1>1. Init => Executor!Init
  BY DEF Init, Executor!Init, Waiting, Before, Urgent
<1>2. Refined /\ [Next]_vars => [Executor!Next]_(Executor!vars)
  BY StepRefines
<1> QED
  BY <1>1, <1>2, RefinedHolds, PTL DEF Spec, Executor!Safety
=============================================================================
