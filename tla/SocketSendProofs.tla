-------------------------- MODULE SocketSendProofs --------------------------
(***************************************************************************)
(* Theorems about SocketSend, for any number of threads, packets and any   *)
(* size of the kernel's buffer.                                            *)
(***************************************************************************)
EXTENDS SocketSend, SequenceTheorems, FiniteSetTheorems, TLAPS

USE ConstantsAssumption

(***************************************************************************)
(* Counting in sequences.                                                  *)
(***************************************************************************)
LEMMA Counted ==
  ASSUME NEW S, NEW s \in Seq(S), NEW p
  PROVE  /\ IsFiniteSet({i \in DOMAIN s : s[i] = p}) /\ Occurrences(s, p) \in Nat
         /\ Occurrences(s, p) # 0 <=> p \in ToSet(s)
<1> DEFINE I == {i \in DOMAIN s : s[i] = p}
<1>1. Len(s) \in Nat /\ DOMAIN s = 1 .. Len(s)
  BY LenProperties
<1>2. IsFiniteSet(DOMAIN s) /\ I \in SUBSET DOMAIN s
  BY <1>1, FS_Interval
<1>3. IsFiniteSet(I)
  BY <1>2, FS_Subset
<1>4. Cardinality(I) \in Nat /\ (Cardinality(I) = 0 <=> I = {})
  BY <1>3, FS_CardinalityType, FS_EmptySet
<1>5. I # {} <=> p \in ToSet(s)
  BY DEF ToSet
<1> QED
  BY <1>3, <1>4, <1>5 DEF Occurrences

LEMMA CountedEmpty == \A p : Occurrences(<<>>, p) = 0
<1> SUFFICES ASSUME NEW p PROVE Occurrences(<<>>, p) = 0
  OBVIOUS
<1>1. {i \in DOMAIN <<>> : <<>>[i] = p} = {}
  OBVIOUS
<1> QED
  BY <1>1, FS_EmptySet DEF Occurrences

LEMMA CountedOne ==
  ASSUME NEW e, NEW p
  PROVE  Occurrences(<<e>>, p) = IF e = p THEN 1 ELSE 0
<1>1. DOMAIN <<e>> = {1} /\ <<e>>[1] = e
  OBVIOUS
<1>2. CASE e = p
  <2>1. {i \in DOMAIN <<e>> : <<e>>[i] = p} = {1}
    BY <1>1, <1>2
  <2> QED
    BY <1>2, <2>1, FS_Singleton DEF Occurrences
<1>3. CASE e # p
  <2>1. {i \in DOMAIN <<e>> : <<e>>[i] = p} = {}
    BY <1>1, <1>3
  <2> QED
    BY <1>3, <2>1, FS_EmptySet DEF Occurrences
<1> QED
  BY <1>2, <1>3

LEMMA CountedConcat ==
  ASSUME NEW S, NEW s \in Seq(S), NEW t \in Seq(S), NEW p
  PROVE  Occurrences(s \o t, p) = Occurrences(s, p) + Occurrences(t, p)
<1> DEFINE A == {i \in DOMAIN s : s[i] = p}
           B == {i \in DOMAIN t : t[i] = p}
           D == {i \in DOMAIN (s \o t) : (s \o t)[i] = p}
           C == {Len(s) + i : i \in B}
           f == [i \in B |-> Len(s) + i]
<1>1. /\ Len(s) \in Nat /\ DOMAIN s = 1 .. Len(s) /\ Len(t) \in Nat /\ DOMAIN t = 1 .. Len(t)
      /\ DOMAIN (s \o t) = 1 .. Len(s) + Len(t)
      /\ \A i \in 1 .. Len(s) + Len(t) :
           (s \o t)[i] = IF i <= Len(s) THEN s[i] ELSE t[i - Len(s)]
  BY LenProperties, ConcatProperties
<1>2. D = A \union C
  <2>1. ASSUME NEW i \in D PROVE i \in A \/ i \in C
    <3>1. CASE i <= Len(s)
      BY <1>1, <2>1, <3>1
    <3>2. CASE ~(i <= Len(s))
      <4>1. i - Len(s) \in B /\ Len(s) + (i - Len(s)) = i
        BY <1>1, <2>1, <3>2
      <4> QED
        BY <4>1
    <3> QED
      BY <3>1, <3>2
  <2>2. ASSUME NEW i \in A PROVE i \in D
    BY <1>1, <2>2
  <2>3. ASSUME NEW i \in C PROVE i \in D
    <3>1. PICK j \in B : i = Len(s) + j
      OBVIOUS
    <3>2. j \in 1 .. Len(t) /\ t[j] = p
      BY <1>1
    <3>3. i \in 1 .. Len(s) + Len(t) /\ ~(i <= Len(s)) /\ i - Len(s) = j
      BY <1>1, <3>1, <3>2
    <3> QED
      BY <1>1, <3>2, <3>3
  <2> QED
    BY <2>1, <2>2, <2>3
<1>3. A \cap C = {}
  <2>1. ASSUME NEW i \in A, NEW j \in B, i = Len(s) + j PROVE FALSE
    BY <1>1, <2>1
  <2> QED
    BY <2>1
<1>4. IsFiniteSet(A) /\ IsFiniteSet(B)
  BY Counted
<1>5. IsFiniteSet(C) /\ Cardinality(C) = Cardinality(B)
  <2>1. f \in Bijection(B, C)
    <3>1. f \in [B -> C]
      OBVIOUS
    <3>2. \A i, j \in B : f[i] = f[j] => i = j
      BY <1>1
    <3>3. \A j \in C : \E i \in B : f[i] = j
      OBVIOUS
    <3> QED
      BY <3>1, <3>2, <3>3 DEF Bijection, Injection, Surjection, IsInjective
  <2>2. ExistsBijection(B, C)
    BY <2>1 DEF ExistsBijection
  <2> QED
    BY <1>4, <2>2, FS_Bijection
<1>6. Cardinality(D) = Cardinality(A) + Cardinality(C)
  <2>1. Cardinality(A) \in Nat /\ Cardinality(C) \in Nat
    BY <1>4, <1>5, FS_CardinalityType
  <2>2. Cardinality(A \union C) = Cardinality(A) + Cardinality(C) - Cardinality(A \cap C)
    BY <1>4, <1>5, FS_Union
  <2>3. Cardinality(A \cap C) = 0
    BY <1>3, FS_EmptySet
  <2> HIDE DEF A, C, D
  <2> QED
    BY <1>2, <2>1, <2>2, <2>3
<1> QED
  BY <1>5, <1>6 DEF Occurrences

LEMMA CountedAppend ==
  ASSUME NEW S, NEW s \in Seq(S), NEW e \in S, NEW p
  PROVE  /\ Occurrences(Append(s, e), p) = Occurrences(s, p) + (IF e = p THEN 1 ELSE 0)
         /\ ToSet(Append(s, e)) = ToSet(s) \union {e}
<1>1. Append(s, e) = s \o <<e>> /\ <<e>> \in Seq(S)
  BY AppendIsConcat
<1>2. Occurrences(Append(s, e), p) = Occurrences(s, p) + Occurrences(<<e>>, p)
  <2>1. Occurrences(s \o <<e>>, p) = Occurrences(s, p) + Occurrences(<<e>>, p)
    BY <1>1, CountedConcat
  <2> QED
    BY <1>1, <2>1
<1>3. ToSet(Append(s, e)) = ToSet(s) \union {e}
  <2>1. /\ Append(s, e) \in Seq(S) /\ DOMAIN Append(s, e) = 1 .. Len(s) + 1
        /\ \A i \in 1 .. Len(s) : Append(s, e)[i] = s[i]
        /\ Append(s, e)[Len(s) + 1] = e
        /\ Len(s) \in Nat /\ DOMAIN s = 1 .. Len(s)
    BY AppendProperties, LenProperties
  <2>2. 1 .. Len(s) + 1 = (1 .. Len(s)) \union {Len(s) + 1}
    BY <2>1
  <2> QED
    BY <2>1, <2>2 DEF ToSet
<1> QED
  BY <1>2, <1>3, CountedOne

(* A sequence cut in two. *)
LEMMA Cut ==
  ASSUME NEW S, NEW s \in Seq(S), NEW n \in 0 .. Len(s)
  PROVE  /\ SubSeq(s, 1, n) \in Seq(S) /\ SubSeq(s, n + 1, Len(s)) \in Seq(S)
         /\ SubSeq(s, 1, n) \o SubSeq(s, n + 1, Len(s)) = s
<1>1. Len(s) \in Nat /\ n \in Nat /\ \A i \in 1 .. Len(s) : s[i] \in S
  BY LenProperties, ElementOfSeq
<1>2. SubSeq(s, 1, n) \in Seq(S) /\ SubSeq(s, n + 1, Len(s)) \in Seq(S)
  BY <1>1, SubSeqProperties
<1>3. SubSeq(s, 1, n) \o SubSeq(s, n + 1, Len(s)) = SubSeq(s, 1, Len(s))
  <2>1. 1 \in 1 .. Len(s) + 1 /\ n \in 1 - 1 .. Len(s) /\ Len(s) \in n .. Len(s)
    BY <1>1
  <2> QED
    BY <2>1, ConcatAdjacentSubSeq
<1> QED
  BY <1>2, <1>3, SubSeqFull

LEMMA CountedCut ==
  ASSUME NEW S, NEW s \in Seq(S), NEW n \in 0 .. Len(s), NEW p
  PROVE  Occurrences(SubSeq(s, 1, n), p) + Occurrences(SubSeq(s, n + 1, Len(s)), p)
           = Occurrences(s, p)
<1> DEFINE t == SubSeq(s, 1, n)
           u == SubSeq(s, n + 1, Len(s))
<1>0. t \in Seq(S) /\ u \in Seq(S) /\ t \o u = s
  BY Cut
<1> HIDE DEF t, u
<1>1. Occurrences(t \o u, p) = Occurrences(t, p) + Occurrences(u, p)
  BY <1>0, CountedConcat
<1> QED
  BY <1>0, <1>1 DEF t, u

(***************************************************************************)
(* The invariant of every instance.                                        *)
(***************************************************************************)

(* A thread has packets of its own only where flushData writes.            *)
LocalsUsed == \A x \in Threads : tmp[x] # <<>> => pc[x] \in {"write", "start", "rollback"}

(* The packet of a call of send is nobody else's, and entered no buffer.   *)
ArgsFresh ==
  \A x \in Threads :
    /\ pc[x] = "enqueue" <=> arg[x] # None
    /\ arg[x] \notin ToSet(order)
    /\ \A y \in Threads : arg[x] = arg[y] /\ arg[x] # None => x = y

(* A packet that entered is in one place.                                  *)
Weight(p) ==
  Occurrences(waiting, p) + Occurrences(sending, p) + Occurrences(out, p)
    + (IF p \in dropped THEN 1 ELSE 0)

Nobodys(p) == \A x \in Threads : Occurrences(tmp[x], p) = 0
Somebodys(p) ==
  \E x \in Threads : /\ Occurrences(tmp[x], p) = 1
                     /\ \A y \in Threads \ {x} : Occurrences(tmp[y], p) = 0

Placed(p) ==
  \/ p \in ToSet(order) /\ Weight(p) = 1 /\ Nobodys(p)
  \/ p \in ToSet(order) /\ Weight(p) = 0 /\ Somebodys(p)
  \/ p \notin ToSet(order) /\ Weight(p) = 0 /\ Nobodys(p)

IInv ==
  /\ TypeOK /\ LocalsUsed /\ ArgsFresh
  /\ \A p \in Packets : Placed(p)

LEMMA Placement ==
  ASSUME TypeOK, \A p \in Packets : Placed(p)
  PROVE  InOnePlace
<1>1. order \in Seq(Packets) /\ \A x \in Threads : tmp[x] \in Seq(Packets)
  BY DEF TypeOK
<1>2. ToSet(order) \subseteq Packets
  <2>1. \A i \in DOMAIN order : order[i] \in Packets
    BY <1>1, ElementOfSeq, LenProperties
  <2> QED
    BY <2>1 DEF ToSet
<1> DEFINE users(p) == {x \in Threads : p \in ToSet(tmp[x])}
<1>3. ASSUME NEW p \in ToSet(order)
      PROVE  /\ Occurrences(waiting, p) + Occurrences(sending, p) + Occurrences(out, p)
                  + Cardinality(users(p)) + (IF p \in dropped THEN 1 ELSE 0) = 1
             /\ \A x \in users(p) : Occurrences(tmp[x], p) = 1
  <2>0. /\ Occurrences(waiting, p) \in Nat /\ Occurrences(sending, p) \in Nat
        /\ Occurrences(out, p) \in Nat
    BY Counted DEF TypeOK
  <2>1. \A x \in Threads : x \in users(p) <=> Occurrences(tmp[x], p) # 0
    BY <1>1, Counted
  <2>2. CASE Weight(p) = 1 /\ Nobodys(p)
    <3>1. users(p) = {}
      BY <2>1, <2>2 DEF Nobodys
    <3>2. Cardinality(users(p)) = 0
      BY <3>1, FS_EmptySet
    <3> HIDE DEF users
    <3> QED
      BY <2>0, <2>2, <3>1, <3>2 DEF Weight
  <2>3. CASE Weight(p) = 0 /\ Somebodys(p)
    <3>1. PICK x \in Threads : /\ Occurrences(tmp[x], p) = 1
                               /\ \A y \in Threads \ {x} : Occurrences(tmp[y], p) = 0
      BY <2>3 DEF Somebodys
    <3>2. users(p) = {x}
      BY <2>1, <3>1
    <3>3. Cardinality(users(p)) = 1
      BY <3>2, FS_Singleton
    <3> HIDE DEF users
    <3> QED
      BY <2>0, <2>3, <3>1, <3>2, <3>3 DEF Weight
  <2>4. Placed(p)
    BY <1>2, <1>3
  <2> QED
    BY <2>2, <2>3, <2>4, <1>3 DEF Placed
<1> HIDE DEF users
<1>4. \A p : users(p) = {x \in Threads : p \in ToSet(tmp[x])}
  BY DEF users
<1> QED
  BY <1>3, <1>4 DEF InOnePlace

(* Packets change places without being lost or doubled.                    *)
LEMMA Moved ==
  ASSUME NEW p, Placed(p), NEW x \in Threads, ToSet(order') = ToSet(order),
         Weight(p) \in Nat, Weight(p)' \in Nat,
         \A y \in Threads : Occurrences(tmp[y], p) \in Nat /\ Occurrences(tmp[y], p)' \in Nat,
         \A y \in Threads \ {x} : Occurrences(tmp[y], p)' = Occurrences(tmp[y], p),
         Weight(p)' + Occurrences(tmp[x], p)' = Weight(p) + Occurrences(tmp[x], p)
  PROVE  Placed(p)'
<1>1. CASE Weight(p) = 1 /\ Nobodys(p) /\ p \in ToSet(order)
  <2>1. /\ \A y \in Threads \ {x} : Occurrences(tmp[y], p)' = 0
        /\ Weight(p)' + Occurrences(tmp[x], p)' = 1
    BY <1>1 DEF Nobodys
  <2>2. CASE Occurrences(tmp[x], p)' = 0
    BY <1>1, <2>1, <2>2 DEF Placed, Nobodys
  <2>3. CASE Occurrences(tmp[x], p)' = 1 /\ Weight(p)' = 0
    BY <1>1, <2>1, <2>3 DEF Placed, Somebodys
  <2> QED
    BY <2>1, <2>2, <2>3
<1>2. CASE Weight(p) = 0 /\ Somebodys(p) /\ p \in ToSet(order)
  <2>1. PICK z \in Threads : /\ Occurrences(tmp[z], p) = 1
                             /\ \A y \in Threads \ {z} : Occurrences(tmp[y], p) = 0
    BY <1>2 DEF Somebodys
  <2>2. CASE z = x
    <3>1. /\ \A y \in Threads \ {x} : Occurrences(tmp[y], p)' = 0
          /\ Weight(p)' + Occurrences(tmp[x], p)' = 1
      BY <1>2, <2>1, <2>2
    <3>2. CASE Occurrences(tmp[x], p)' = 0
      BY <1>2, <3>1, <3>2 DEF Placed, Nobodys
    <3>3. CASE Occurrences(tmp[x], p)' = 1 /\ Weight(p)' = 0
      BY <1>2, <3>1, <3>3 DEF Placed, Somebodys
    <3> QED
      BY <3>1, <3>2, <3>3
  <2>3. CASE z # x
    <3>1. /\ Occurrences(tmp[z], p)' = 1 /\ Weight(p)' = 0
          /\ \A y \in Threads \ {z} : Occurrences(tmp[y], p)' = 0
      <4>1. Occurrences(tmp[x], p) = 0 /\ Occurrences(tmp[z], p)' = 1
        BY <2>1, <2>3
      <4>2. Weight(p)' = 0 /\ Occurrences(tmp[x], p)' = 0
        BY <1>2, <4>1
      <4>3. ASSUME NEW y \in Threads \ {z} PROVE Occurrences(tmp[y], p)' = 0
        BY <2>1, <4>2
      <4> QED
        BY <4>1, <4>2, <4>3
    <3> QED
      BY <1>2, <3>1 DEF Placed, Somebodys
  <2> QED
    BY <2>2, <2>3
<1>3. CASE Weight(p) = 0 /\ Nobodys(p) /\ p \notin ToSet(order)
  <2>1. Occurrences(tmp[x], p) = 0
    BY <1>3 DEF Nobodys
  <2>2. Weight(p)' = 0 /\ Occurrences(tmp[x], p)' = 0
    BY <1>3, <2>1
  <2>3. \A y \in Threads : Occurrences(tmp[y], p)' = 0
    BY <1>3, <2>2 DEF Nobodys
  <2> QED
    BY <1>3, <2>2, <2>3 DEF Placed, Nobodys
<1> QED
  BY <1>1, <1>2, <1>3 DEF Placed

LEMMA TypeFacts ==
  ASSUME TypeOK
  PROVE  /\ waiting \in Seq(Packets) /\ sending \in Seq(Packets) /\ out \in Seq(Packets)
         /\ order \in Seq(Packets) /\ tmp \in [Threads -> Seq(Packets)]
         /\ \A p : /\ Occurrences(waiting, p) \in Nat /\ Occurrences(sending, p) \in Nat
                   /\ Occurrences(out, p) \in Nat /\ Weight(p) \in Nat
                   /\ \A x \in Threads : Occurrences(tmp[x], p) \in Nat
<1>1. /\ waiting \in Seq(Packets) /\ sending \in Seq(Packets) /\ out \in Seq(Packets)
      /\ order \in Seq(Packets) /\ tmp \in [Threads -> Seq(Packets)]
  BY DEF TypeOK
<1>2. ASSUME NEW p
      PROVE  /\ Occurrences(waiting, p) \in Nat /\ Occurrences(sending, p) \in Nat
             /\ Occurrences(out, p) \in Nat
             /\ \A x \in Threads : Occurrences(tmp[x], p) \in Nat
  BY <1>1, Counted
<1>3. \A p : Weight(p) \in Nat
  BY <1>2 DEF Weight
<1> QED
  BY <1>1, <1>2, <1>3

LEMMA CountsAreNatural ==
  TypeOK => \A q : Weight(q) \in Nat /\ \A y \in Threads : Occurrences(tmp[y], q) \in Nat
  BY TypeFacts

(* What is the same before and after a step that moves no packet.          *)
LEMMA BuffersKept ==
  ASSUME \A p \in Packets : Placed(p), UNCHANGED <<buffers, history>>
  PROVE  \A p \in Packets : Placed(p)'
  BY DEF Placed, Weight, Nobodys, Somebodys, buffers, history

(***************************************************************************)
(* Types.                                                                  *)
(***************************************************************************)
LEMMA TypeStep ==
  ASSUME TypeOK, ArgsFresh, [Next]_vars
  PROVE  TypeOK'
<1> USE DEF buffers, threads, state, history, kernel, Goto, InFlush, Labels
<1>0. /\ pc \in [Threads -> Labels]
      /\ arg \in [Threads -> Packets \union {None}] /\ Poller \in Threads
  BY DEF TypeOK, Threads
<1>1. ASSUME NEW x \in Threads, NEW p \in Packets, Send(x, p) PROVE TypeOK'
  BY <1>1 DEF TypeOK, Send
<1>2. ASSUME NEW x \in Threads, Enqueue(x) PROVE TypeOK'
  <2>1. arg[x] \in Packets
    BY <1>0, <1>2 DEF Enqueue, ArgsFresh
  <2>2. waiting' \in Seq(Packets) /\ order' \in Seq(Packets)
    BY <1>2, <2>1, AppendProperties DEF Enqueue, TypeOK
  <2> QED
    BY <1>2, <2>2 DEF TypeOK, Enqueue
<1>3. ASSUME NEW x \in Threads, FlushAll(x) \/ Refill(x) \/ Start(x) \/ Emit(x) \/ Close(x)
      PROVE  TypeOK'
  <2>1. CASE FlushAll(x)
    BY <2>1 DEF TypeOK, FlushAll
  <2>2. CASE Refill(x)
    BY <2>2 DEF TypeOK, Refill
  <2>3. CASE Start(x)
    BY <2>3 DEF TypeOK, Start
  <2>4. CASE Emit(x)
    BY <2>4 DEF TypeOK, Emit
  <2>5. CASE Close(x)
    <3>1. onErr' \in Nat /\ errTasks' \in Nat /\ outer' \in {"none", "read", "flushed", "err"}
      BY <2>5 DEF TypeOK, Close
    <3>2. /\ open' = FALSE /\ pc' = [pc EXCEPT ![x] = "idle"]
          /\ UNCHANGED <<buffers, arg, events, sendable, history, kernel>>
      BY <2>5 DEF Close
    <3> QED
      BY <3>1, <3>2 DEF TypeOK
  <2> QED
    BY <1>3, <2>1, <2>2, <2>3, <2>4, <2>5
<1>4. ASSUME NEW x \in Threads, Swap(x) PROVE TypeOK'
  BY <1>4 DEF TypeOK, Swap
<1>5. ASSUME NEW x \in Threads, Move(x) PROVE TypeOK'
  BY <1>5 DEF TypeOK, Move
<1>6. ASSUME NEW x \in Threads, Write(x) PROVE TypeOK'
  <2> DEFINE room == SndCap - unacked
             n    == IF Len(tmp[x]) <= room THEN Len(tmp[x]) ELSE room
             rest == SubSeq(tmp[x], n + 1, Len(tmp[x]))
  <2>1. tmp[x] \in Seq(Packets) /\ Len(tmp[x]) \in Nat /\ out \in Seq(Packets)
        /\ unacked \in 0 .. SndCap
    BY LenProperties DEF TypeOK
  <2>2. n \in 0 .. Len(tmp[x]) /\ n <= room
    BY <2>1
  <2>3. SubSeq(tmp[x], 1, n) \in Seq(Packets) /\ rest \in Seq(Packets)
    BY <2>1, <2>2, Cut
  <2>4. out' = out \o SubSeq(tmp[x], 1, n) /\ unacked' = unacked + n
        /\ tmp' = [tmp EXCEPT ![x] = rest] /\ noSpace' = (noSpace \/ rest # <<>>)
        /\ pc' = [pc EXCEPT ![x] = IF rest = <<>> THEN (IF OnPoller(x) THEN "swap" ELSE "idle")
                                   ELSE IF OnPoller(x) THEN "rollback" ELSE "start"]
        /\ UNCHANGED <<waiting, sending, arg, outer, events, state, order, dropped, input,
                 reads, reset, edge>>
    BY <1>6 DEF Write
  <2>5. out' \in Seq(Packets) /\ unacked' \in 0 .. SndCap
    BY <2>1, <2>2, <2>3, <2>4, ConcatProperties
  <2>6. noSpace' \in BOOLEAN /\ tmp' \in [Threads -> Seq(Packets)]
    BY <2>3, <2>4 DEF TypeOK
  <2> HIDE DEF rest, n, room
  <2>7. pc' \in [Threads -> Labels]
    BY <1>0, <2>4
  <2> QED
    BY <2>4, <2>5, <2>6, <2>7 DEF TypeOK
<1>7. ASSUME NEW x \in Threads, WriteFails(x) PROVE TypeOK'
  <2>1. ToSet(tmp[x]) \subseteq Packets
    <3>1. tmp[x] \in Seq(Packets)
      BY DEF TypeOK
    <3>2. \A i \in DOMAIN tmp[x] : tmp[x][i] \in Packets
      BY <3>1, ElementOfSeq, LenProperties
    <3> QED
      BY <3>2 DEF ToSet
  <2> QED
    BY <1>7, <2>1 DEF TypeOK, WriteFails
<1>8. ASSUME NEW x \in Threads, Rollback(x) PROVE TypeOK'
  <2>1. tmp[x] \in Seq(Packets) /\ sending \in Seq(Packets)
    BY DEF TypeOK
  <2>2. sending' \in Seq(Packets)
    BY <1>8, <2>1, ConcatProperties DEF Rollback
  <2> QED
    BY <1>8, <2>2 DEF TypeOK, Rollback
<1>9. CASE PollerStep
  <2>1. CASE WaitReturns
    BY <2>1 DEF TypeOK, WaitReturns
  <2>2. CASE OnRead
    BY <1>0, <2>2 DEF TypeOK, OnRead
  <2>3. CASE OnWriteAble
    BY <1>0, <2>3 DEF TypeOK, OnWriteAble
  <2>4. CASE OnError
    BY <1>0, <2>4 DEF TypeOK, OnError
  <2>5. CASE LookAtWaiting \/ LookAtSending
    <3>1. UNCHANGED <<buffers, arg, outer, events, state, history, kernel>>
      BY <2>5 DEF LookAtWaiting, LookAtSending
    <3>2. pc' \in [Threads -> Labels]
      BY <1>0, <2>5 DEF TypeOK, LookAtWaiting, LookAtSending
    <3> HIDE DEF Labels
    <3> QED
      BY <3>1, <3>2 DEF TypeOK
  <2>6. CASE Stop
    BY <1>0, <2>6 DEF TypeOK, Stop
  <2>7. CASE CallbackReturns \/ Answer
    BY <1>0, <2>7 DEF TypeOK, CallbackReturns, Answer
  <2>8. CASE RunErr
    <3>1. errTasks' \in Nat
      BY <2>8 DEF TypeOK, RunErr
    <3> QED
      BY <2>8, <3>1 DEF TypeOK, RunErr
  <2> QED
    BY <1>9, <2>1, <2>2, <2>3, <2>4, <2>5, <2>6, <2>7, <2>8 DEF PollerStep
<1>10. CASE Drain
  <2>1. unacked' \in 0 .. SndCap
    BY <1>10 DEF TypeOK, Drain
  <2>2. edge' \in BOOLEAN /\ noSpace' = FALSE
    BY <1>10 DEF TypeOK, Drain
  <2> QED
    BY <1>10, <2>1, <2>2 DEF TypeOK, Drain
<1>11. CASE DataArrives
  BY <1>11 DEF TypeOK, DataArrives
<1>12. CASE Reset
  BY <1>12 DEF TypeOK, Reset
<1>13. CASE Quiet \/ Deadlocked \/ UNCHANGED vars
  <2>1. UNCHANGED vars
    BY <1>13 DEF Quiet, Deadlocked
  <2> HIDE DEF Labels
  <2> QED
    BY <2>1 DEF TypeOK, vars
<1>14. CASE Ask \/ \E x \in Threads : Shutdown(x)
  <2>1. UNCHANGED <<buffers, arg, outer, events, state, history, kernel>>
    BY <1>14 DEF Ask, Shutdown
  <2>2. pc' \in [Threads -> Labels]
    BY <1>0, <1>14 DEF TypeOK, Ask, Shutdown
  <2> HIDE DEF Labels
  <2> QED
    BY <2>1, <2>2 DEF TypeOK
<1> QED
  BY <1>1, <1>2, <1>3, <1>4, <1>5, <1>6, <1>7, <1>8, <1>9, <1>10, <1>11, <1>12, <1>13, <1>14
     DEF Next, ThreadStep

(***************************************************************************)
(* Who has packets of its own, and calls of send.                          *)
(***************************************************************************)
LEMMA LocalsStep ==
  ASSUME TypeOK, LocalsUsed, [Next]_vars
  PROVE  LocalsUsed'
<1> USE DEF buffers, threads, state, history, kernel, Goto, InFlush, Labels
<1>0. /\ pc \in [Threads -> Labels]
      /\ tmp \in [Threads -> Seq(Packets)] /\ Poller \in Threads
  BY DEF TypeOK, Threads
<1>1. ASSUME NEW x \in Threads, NEW p \in Packets, Send(x, p) PROVE LocalsUsed'
  BY <1>0, <1>1 DEF LocalsUsed, Send, MayCall
<1>2. ASSUME NEW x \in Threads, ThreadStep(x) PROVE LocalsUsed'
  <2>1. CASE Enqueue(x) \/ FlushAll(x) \/ Refill(x) \/ Emit(x) \/ Close(x)
    BY <1>0, <2>1 DEF LocalsUsed, Enqueue, FlushAll, Refill, Emit, Close
  <2>2. CASE Swap(x) \/ Move(x) \/ WriteFails(x) \/ Start(x) \/ Rollback(x)
    BY <1>0, <2>2 DEF LocalsUsed, Swap, Move, WriteFails, Start, Rollback
  <2>3. CASE Write(x)
    <3> DEFINE room == SndCap - unacked
               n    == IF Len(tmp[x]) <= room THEN Len(tmp[x]) ELSE room
               rest == SubSeq(tmp[x], n + 1, Len(tmp[x]))
    <3>1. /\ tmp' = [tmp EXCEPT ![x] = rest]
          /\ pc' = [pc EXCEPT ![x] = IF rest = <<>> THEN (IF OnPoller(x) THEN "swap" ELSE "idle")
                                     ELSE IF OnPoller(x) THEN "rollback" ELSE "start"]
      BY <2>3 DEF Write
    <3> HIDE DEF rest
    <3> QED
      BY <1>0, <3>1 DEF LocalsUsed
  <2> QED
    BY <1>2, <2>1, <2>2, <2>3 DEF ThreadStep
<1>3. CASE PollerStep
  BY <1>0, <1>3 DEF LocalsUsed, PollerStep, WaitReturns, OnRead, OnWriteAble, OnError,
                    LookAtWaiting, LookAtSending, Stop, RunErr, Answer, CallbackReturns, PollerIdle
<1>4. CASE Drain \/ DataArrives \/ Reset \/ Ask \/ Quiet \/ Deadlocked \/ UNCHANGED vars
  BY <1>0, <1>4 DEF LocalsUsed, Drain, DataArrives, Reset, Ask, MayCall, Quiet, Deadlocked, vars
<1>5. ASSUME NEW x \in Threads, Shutdown(x) PROVE LocalsUsed'
  BY <1>0, <1>5 DEF LocalsUsed, Shutdown, MayCall
<1> QED
  BY <1>1, <1>2, <1>3, <1>4, <1>5 DEF Next

LEMMA ArgsStep ==
  ASSUME TypeOK, ArgsFresh, [Next]_vars
  PROVE  ArgsFresh'
<1> USE DEF buffers, threads, state, history, kernel, Goto, InFlush, Labels
<1>0. /\ pc \in [Threads -> Labels]
      /\ arg \in [Threads -> Packets \union {None}] /\ Poller \in Threads
      /\ None \notin ToSet(order)
  <2>1. order \in Seq(Packets)
    BY DEF TypeOK
  <2>2. \A i \in DOMAIN order : order[i] \in Packets
    BY <2>1, ElementOfSeq, LenProperties
  <2> QED
    BY <2>2 DEF TypeOK, Threads, ToSet
<1>1. ASSUME NEW x \in Threads, NEW p \in Packets, Send(x, p) PROVE ArgsFresh'
  BY <1>0, <1>1 DEF ArgsFresh, Send, MayCall
<1>2. ASSUME NEW x \in Threads, Enqueue(x) PROVE ArgsFresh'
  <2>1. order \in Seq(Packets) /\ arg[x] \in Packets
    BY <1>0, <1>2 DEF TypeOK, Enqueue, ArgsFresh
  <2>2. ToSet(order') = ToSet(order) \union {arg[x]}
    <3>1. ToSet(Append(order, arg[x])) = ToSet(order) \union {arg[x]}
      BY <2>1, CountedAppend
    <3> QED
      BY <1>2, <3>1 DEF Enqueue
  <2>3. arg' = [arg EXCEPT ![x] = None] /\ pc' = [pc EXCEPT ![x] = "flushAll"] /\ pc[x] = "enqueue"
    BY <1>2 DEF Enqueue
  <2> QED
    BY <1>0, <2>1, <2>2, <2>3 DEF ArgsFresh
<1>3. ASSUME order' = order, arg' = arg,
             \A x \in Threads : pc'[x] = "enqueue" <=> pc[x] = "enqueue"
      PROVE  ArgsFresh'
  BY <1>3 DEF ArgsFresh
<1>4. ASSUME NEW x \in Threads, ThreadStep(x), ~Enqueue(x) PROVE ArgsFresh'
  <2>1. order' = order /\ arg' = arg
    BY <1>4 DEF ThreadStep, FlushAll, Swap, Refill, Move, Write, WriteFails, Start, Rollback,
                Emit, Close
  <2> DEFINE Same == \A y \in Threads : pc'[y] = "enqueue" <=> pc[y] = "enqueue"
  <2>2. ASSUME FlushAll(x) \/ Swap(x) PROVE Same
    BY <1>0, <2>2 DEF FlushAll, Swap
  <2>3. ASSUME Refill(x) \/ Move(x) PROVE Same
    BY <1>0, <2>3 DEF Refill, Move
  <2>4. ASSUME Write(x) PROVE Same
    <3>1. pc[x] # "enqueue" /\ pc' = [pc EXCEPT ![x] = pc'[x]] /\ pc'[x] # "enqueue"
      BY <1>0, <2>4 DEF Write
    <3> QED
      BY <1>0, <3>1
  <2>5. ASSUME WriteFails(x) \/ Start(x) PROVE Same
    BY <1>0, <2>5 DEF WriteFails, Start
  <2>6. ASSUME Rollback(x) PROVE Same
    BY <1>0, <2>6 DEF Rollback
  <2>7. ASSUME Emit(x) PROVE Same
    BY <1>0, <2>7 DEF Emit
  <2>8. ASSUME Close(x) PROVE Same
    BY <1>0, <2>8 DEF Close
  <2>9. Same
    BY <1>4, <2>2, <2>3, <2>4, <2>5, <2>6, <2>7, <2>8 DEF ThreadStep
  <2> QED
    BY <1>3, <2>1, <2>9
<1>5. CASE PollerStep
  <2>1. order' = order /\ arg' = arg
    BY <1>5 DEF PollerStep, WaitReturns, OnRead, OnWriteAble, OnError,
                LookAtWaiting, LookAtSending, Stop, RunErr, Answer, CallbackReturns
  <2>2. \/ pc' = pc
        \/ pc[Poller] # "enqueue" /\ \E l : pc' = [pc EXCEPT ![Poller] = l] /\ l # "enqueue"
    BY <1>5 DEF PollerStep, WaitReturns, OnRead, OnWriteAble, OnError,
                LookAtWaiting, LookAtSending, Stop, RunErr, Answer, CallbackReturns, PollerIdle
  <2>3. \A y \in Threads : pc'[y] = "enqueue" <=> pc[y] = "enqueue"
    BY <1>0, <2>2
  <2> QED
    BY <1>3, <2>1, <2>3
<1>6. CASE Drain \/ DataArrives \/ Reset \/ Quiet \/ Deadlocked \/ UNCHANGED vars
  BY <1>3, <1>6 DEF Drain, DataArrives, Reset, Quiet, Deadlocked, vars
<1>7. ASSUME NEW x \in Threads, Shutdown(x) \/ (x = Poller /\ Ask) PROVE ArgsFresh'
  <2>1. order' = order /\ arg' = arg
    BY <1>7 DEF Shutdown, Ask
  <2>2. pc[x] = "idle" /\ \E l : pc' = [pc EXCEPT ![x] = l] /\ l # "enqueue"
    BY <1>7 DEF Shutdown, Ask, MayCall
  <2>3. \A y \in Threads : pc'[y] = "enqueue" <=> pc[y] = "enqueue"
    BY <1>0, <2>2
  <2> QED
    BY <1>3, <2>1, <2>3
<1> QED
  BY <1>0, <1>1, <1>2, <1>4, <1>5, <1>6, <1>7 DEF Next

(***************************************************************************)
(* Where the packets are.                                                  *)
(***************************************************************************)
LEMMA EnqueuePlaces ==
  ASSUME IInv, TypeOK', NEW x \in Threads, Enqueue(x), NEW p \in Packets
  PROVE  Placed(p)'
<1>1. /\ waiting' = Append(waiting, arg[x]) /\ order' = Append(order, arg[x])
      /\ arg[x] \in Packets /\ arg[x] \notin ToSet(order) /\ Placed(p)
      /\ UNCHANGED <<sending, tmp, out, dropped>>
  BY DEF IInv, TypeOK, Enqueue, ArgsFresh
<1>2. /\ Occurrences(waiting', p) = Occurrences(waiting, p) + (IF arg[x] = p THEN 1 ELSE 0)
      /\ ToSet(order') = ToSet(order) \union {arg[x]}
  <2>1. waiting \in Seq(Packets) /\ order \in Seq(Packets)
    BY TypeFacts DEF IInv
  <2>2. Occurrences(Append(waiting, arg[x]), p)
          = Occurrences(waiting, p) + (IF arg[x] = p THEN 1 ELSE 0)
    BY <1>1, <2>1, CountedAppend
  <2>3. ToSet(Append(order, arg[x])) = ToSet(order) \union {arg[x]}
    BY <1>1, <2>1, CountedAppend
  <2> QED
    BY <1>1, <2>2, <2>3
<1>3. Weight(p)' = Weight(p) + (IF arg[x] = p THEN 1 ELSE 0)
  <2>1. /\ Occurrences(waiting, p) \in Nat /\ Occurrences(sending, p) \in Nat
        /\ Occurrences(out, p) \in Nat
    BY TypeFacts DEF IInv
  <2>2. /\ Occurrences(sending', p) = Occurrences(sending, p)
        /\ Occurrences(out', p) = Occurrences(out, p)
    BY <1>1
  <2> QED
    BY <1>1, <1>2, <2>1, <2>2 DEF Weight
<1>4. Nobodys(p)' <=> Nobodys(p)
  BY <1>1 DEF Nobodys
<1>5. Somebodys(p)' <=> Somebodys(p)
  BY <1>1 DEF Somebodys
<1>6. CASE p = arg[x]
  BY <1>1, <1>2, <1>3, <1>4, <1>6 DEF Placed
<1>7. CASE p # arg[x]
  <2>1. Weight(p)' = Weight(p)
    BY <1>3, <1>7, TypeFacts DEF IInv
  <2> QED
    BY <1>1, <1>2, <1>4, <1>5, <1>7, <2>1 DEF Placed
<1> QED
  BY <1>6, <1>7

LEMMA Regroup ==
  ASSUME NEW w \in Nat, NEW s \in Nat, NEW o \in Nat, NEW d \in Nat, NEW h \in Nat, NEW t \in Nat
  PROVE  w + s + (o + h) + d + t = w + s + o + d + (h + t)
  OBVIOUS

(* A step of x inside flushData.                                           *)
LEMMA FlushPlaces ==
  ASSUME IInv, TypeOK', NEW x \in Threads, NEW p \in Packets,
         Swap(x) \/ Move(x) \/ Write(x) \/ WriteFails(x) \/ Rollback(x)
  PROVE  Placed(p)'
<1> DEFINE W == Occurrences(waiting, p)
           S == Occurrences(sending, p)
           O == Occurrences(out, p)
           T == Occurrences(tmp[x], p)
           D == IF p \in dropped THEN 1 ELSE 0
<1>1. /\ W \in Nat /\ S \in Nat /\ O \in Nat /\ T \in Nat
      /\ \A y \in Threads : Occurrences(tmp[y], p) \in Nat
      /\ waiting \in Seq(Packets) /\ sending \in Seq(Packets) /\ out \in Seq(Packets)
      /\ tmp \in [Threads -> Seq(Packets)] /\ Weight(p) \in Nat
  BY TypeFacts DEF IInv
<1>2. Weight(p)' \in Nat /\ \A y \in Threads : Occurrences(tmp[y], p)' \in Nat
  <2>1. (TypeOK => \A q : Weight(q) \in Nat /\ \A y \in Threads : Occurrences(tmp[y], q) \in Nat)'
    BY CountsAreNatural, PTL
  <2> QED
    BY <2>1
<1>3. Placed(p) /\ order' = order
  BY DEF IInv, Swap, Move, Write, WriteFails, Rollback, history
<1>4. /\ \E s : tmp' = [tmp EXCEPT ![x] = s]
      /\ \A y \in Threads \ {x} : Occurrences(tmp[y], p)' = Occurrences(tmp[y], p)
  <2>1. \E s : tmp' = [tmp EXCEPT ![x] = s]
    BY DEF Swap, Move, Write, WriteFails, Rollback
  <2>2. \A y \in Threads \ {x} : tmp'[y] = tmp[y]
    BY <1>1, <2>1
  <2> QED
    BY <2>1, <2>2
<1>5. Weight(p) = W + S + O + D
  BY DEF Weight
<1>6. ASSUME W' + S' + O' + D' + T' = W + S + O + D + T
      PROVE  Placed(p)'
  <2>1. Weight(p)' = W' + S' + O' + D'
    BY DEF Weight
  <2>2. Weight(p)' + Occurrences(tmp[x], p)' = Weight(p) + Occurrences(tmp[x], p)
    BY <1>5, <1>6, <2>1
  <2> QED
    BY <1>1, <1>2, <1>3, <1>4, <2>2, Moved
<1>7. tmp[x] = <<>> => T = 0
  BY CountedEmpty
<1>8. pc[x] \in {"swap", "move"} => tmp[x] = <<>>
  BY DEF IInv, LocalsUsed
<1>9. CASE Swap(x)
  <2>1. tmp'[x] = sending /\ sending' = <<>> /\ UNCHANGED <<waiting, out, dropped>>
    BY <1>1, <1>9 DEF Swap, history
  <2>2. T' = S /\ S' = 0 /\ W' = W /\ O' = O /\ D' = D /\ T = 0
    BY <1>7, <1>8, <1>9, <2>1, CountedEmpty DEF Swap
  <2> HIDE DEF W, S, O, T, D
  <2> QED
    BY <1>1, <1>6, <2>2 DEF D
<1>10. CASE Move(x)
  <2>1. tmp'[x] = waiting /\ waiting' = <<>> /\ UNCHANGED <<sending, out, dropped>>
    BY <1>1, <1>10 DEF Move, history
  <2>2. T' = W /\ W' = 0 /\ S' = S /\ O' = O /\ D' = D /\ T = 0
    BY <1>7, <1>8, <1>10, <2>1, CountedEmpty DEF Move
  <2> HIDE DEF W, S, O, T, D
  <2> QED
    BY <1>1, <1>6, <2>2 DEF D
<1>11. CASE Write(x)
  <2> DEFINE room == SndCap - unacked
             n    == IF Len(tmp[x]) <= room THEN Len(tmp[x]) ELSE room
  <2>1. /\ tmp'[x] = SubSeq(tmp[x], n + 1, Len(tmp[x]))
        /\ out' = out \o SubSeq(tmp[x], 1, n)
        /\ UNCHANGED <<waiting, sending, dropped>>
    BY <1>1, <1>11 DEF Write
  <2>2. n \in 0 .. Len(tmp[x])
    <3>1. Len(tmp[x]) \in Nat /\ unacked \in 0 .. SndCap
      BY <1>1, LenProperties DEF IInv, TypeOK
    <3> QED
      BY <3>1
  <2> HIDE DEF n
  <2> DEFINE head == SubSeq(tmp[x], 1, n)
  <2>3. Occurrences(head, p) + T' = T
    <3>1. Occurrences(head, p)
            + Occurrences(SubSeq(tmp[x], n + 1, Len(tmp[x])), p) = Occurrences(tmp[x], p)
      BY <1>1, <2>2, CountedCut
    <3> QED
      BY <2>1, <3>1
  <2>4. head \in Seq(Packets)
    BY <1>1, <2>2, Cut
  <2>5. W' = W /\ S' = S /\ D' = D
    BY <2>1
  <2>0. out' = out \o head
    BY <2>1
  <2> HIDE DEF head
  <2>6. O' = O + Occurrences(head, p) /\ Occurrences(head, p) \in Nat
    <3>1. Occurrences(out \o head, p) = Occurrences(out, p) + Occurrences(head, p)
      BY <1>1, <2>4, CountedConcat
    <3> QED
      BY <2>0, <2>4, <3>1, Counted
  <2>7. W + S + (O + Occurrences(head, p)) + D + T'
          = W + S + O + D + (Occurrences(head, p) + T')
    BY <1>1, <1>2, <2>6, Regroup, SMTT(20)
  <2> QED
    BY <1>6, <2>3, <2>5, <2>6, <2>7
<1>12. CASE WriteFails(x)
  <2>1. /\ tmp'[x] = <<>> /\ dropped' = dropped \union ToSet(tmp[x])
        /\ UNCHANGED <<waiting, sending, out>>
    BY <1>1, <1>12 DEF WriteFails
  <2>2. T # 0 <=> p \in ToSet(tmp[x])
    BY <1>1, Counted
  <2>3. T = 0 \/ (T = 1 /\ Weight(p) = 0)
    BY <1>3 DEF Placed, Nobodys, Somebodys
  <2>4. T' = 0 /\ W' = W /\ S' = S /\ O' = O
    BY <2>1, CountedEmpty
  <2>5. D' = D + T
    <3>1. CASE T = 0
      BY <2>1, <2>2, <3>1
    <3>2. CASE T = 1 /\ Weight(p) = 0
      <4>1. D = 0
        BY <1>1, <1>5, <3>2
      <4>2. p \in dropped'
        BY <2>1, <2>2, <3>2
      <4> QED
        BY <3>2, <4>1, <4>2
    <3> QED
      BY <2>3, <3>1, <3>2
  <2> HIDE DEF W, S, O, T, D
  <2>6. D \in Nat
    BY DEF D
  <2> QED
    BY <1>1, <1>6, <2>4, <2>5, <2>6
<1>13. CASE Rollback(x)
  <2>1. /\ tmp'[x] = <<>> /\ sending' = tmp[x] \o sending
        /\ UNCHANGED <<waiting, out, dropped>>
    BY <1>1, <1>13 DEF Rollback, history
  <2>2. S' = T + S
    <3>1. Occurrences(tmp[x] \o sending, p) = Occurrences(tmp[x], p) + Occurrences(sending, p)
      BY <1>1, CountedConcat
    <3> QED
      BY <2>1, <3>1
  <2>3. T' = 0 /\ W' = W /\ O' = O /\ D' = D
    BY <2>1, CountedEmpty
  <2> HIDE DEF W, S, O, T, D
  <2>4. D \in Nat
    BY DEF D
  <2> QED
    BY <1>1, <1>6, <2>2, <2>3, <2>4
<1> QED
  BY <1>9, <1>10, <1>11, <1>12, <1>13

LEMMA StepKeeps ==
  ASSUME IInv, [Next]_vars
  PROVE  IInv'
<1>1. TypeOK' /\ LocalsUsed' /\ ArgsFresh'
  BY TypeStep, LocalsStep, ArgsStep DEF IInv
<1> SUFFICES \A p \in Packets : Placed(p)'
  BY <1>1 DEF IInv
<1>2. ASSUME UNCHANGED <<buffers, history>> PROVE \A p \in Packets : Placed(p)'
  BY <1>2, BuffersKept DEF IInv
<1>3. ASSUME NEW x \in Threads, NEW p \in Packets, Send(x, p)
      PROVE  \A q \in Packets : Placed(q)'
  BY <1>2, <1>3 DEF Send
<1>4. ASSUME NEW x \in Threads, ThreadStep(x) PROVE \A q \in Packets : Placed(q)'
  <2>1. CASE Enqueue(x)
    BY <1>1, <2>1, EnqueuePlaces
  <2>2. CASE Swap(x) \/ Move(x) \/ Write(x) \/ WriteFails(x) \/ Rollback(x)
    BY <1>1, <2>2, FlushPlaces
  <2>3. CASE FlushAll(x) \/ Refill(x) \/ Start(x) \/ Emit(x) \/ Close(x)
    BY <1>2, <2>3 DEF FlushAll, Refill, Start, Emit, Close
  <2> QED
    BY <1>4, <2>1, <2>2, <2>3 DEF ThreadStep
<1>5. CASE PollerStep
  <2>1. UNCHANGED <<buffers, history>>
    BY <1>5 DEF PollerStep, WaitReturns, OnRead, OnWriteAble, OnError, LookAtWaiting,
       LookAtSending, Stop, RunErr, Answer, CallbackReturns
  <2> QED
    BY <1>2, <2>1
<1>6. CASE Drain \/ DataArrives \/ Reset \/ Ask \/ Quiet \/ Deadlocked \/ UNCHANGED vars
  <2>1. UNCHANGED <<buffers, history>>
    BY <1>6 DEF Drain, DataArrives, Reset, Ask, Quiet, Deadlocked, vars
  <2> QED
    BY <1>2, <2>1
<1>7. ASSUME NEW x \in Threads, Shutdown(x) PROVE \A q \in Packets : Placed(q)'
  BY <1>2, <1>7 DEF Shutdown
<1> QED
  BY <1>3, <1>4, <1>5, <1>6, <1>7 DEF Next

LEMMA Initial == Init => IInv
<1> SUFFICES ASSUME Init PROVE IInv
  OBVIOUS
<1>1. TypeOK
  <2>1. <<>> \in Seq(Packets)
    BY EmptySeq
  <2>2. /\ tmp \in [Threads -> Seq(Packets)] /\ arg \in [Threads -> Packets \union {None}]
        /\ pc \in [Threads -> Labels]
    BY <2>1 DEF Init, Labels
  <2>3. unacked \in 0 .. SndCap /\ reads \in 0 .. MaxReads /\ onErr \in Nat /\ errTasks \in Nat
    BY DEF Init
  <2> QED
    BY <2>1, <2>2, <2>3 DEF Init, TypeOK
<1>2. LocalsUsed
  BY DEF Init, LocalsUsed
<1>3. ToSet(<<>>) = {}
  BY DEF ToSet
<1>4. ArgsFresh
  BY <1>3 DEF Init, ArgsFresh
<1>5. ASSUME NEW p \in Packets PROVE Placed(p)
  <2>1. /\ waiting = <<>> /\ sending = <<>> /\ out = <<>> /\ order = <<>> /\ dropped = {}
        /\ \A x \in Threads : tmp[x] = <<>>
    BY DEF Init
  <2>2. Weight(p) = 0
    BY <2>1, CountedEmpty DEF Weight
  <2>3. Nobodys(p)
    BY <2>1, CountedEmpty DEF Nobodys
  <2> QED
    BY <1>3, <2>1, <2>2, <2>3 DEF Placed
<1> QED
  BY <1>1, <1>2, <1>4, <1>5 DEF IInv

(* The invariant holds in every reachable state, whatever the threads and  *)
(* however flushData (Socket.cpp 645-744) interleaves with send.           *)
THEOREM Invariance == Spec => []IInv
<1>1. IInv /\ [Next]_vars => IInv'
  BY StepKeeps
<1> QED
  BY Initial, <1>1, PTL DEF Spec

(* Every variable of the sending half of Socket keeps its type.            *)
THEOREM TypeCorrect == Spec => []TypeOK
<1>1. IInv => TypeOK
  BY DEF IInv
<1> QED
  BY Invariance, <1>1, PTL

(* Threads that flush at once, with a poller thread that flushes without   *)
(* the lock of the socket, neither lose nor double a packet (flushData).   *)
THEOREM PacketsInOnePlace == Spec => []InOnePlace
<1>1. IInv => InOnePlace
  BY Placement DEF IInv
<1> QED
  BY Invariance, <1>1, PTL

(***************************************************************************)
(* Locks.                                                                  *)
(***************************************************************************)

(* Who waits for _mtx_event waits for a callback; who waits for            *)
(* _mtx_send_buf_waiting waits for a thread that waits for _mtx_event; and *)
(* who holds _mtx_sock_fd waits for one of these.                          *)
LEMMA Circles ==
  ASSUME TypeOK
  PROVE  OneLockCycle
<1> SUFFICES ASSUME NEW set \in (SUBSET Threads) \ {{}},
                    \A x \in set : \E y \in set : WaitsFor(x, y)
             PROVE  Poller \in set /\ outer # "none" /\ \E x \in set \ {Poller} : pc[x] = "move"
  BY DEF OneLockCycle
<1>1. CASE \E x \in set : pc[x] = "move"
  <2>1. PICK x \in set : pc[x] = "move"
    BY <1>1
  <2>2. PICK y \in set : x # y /\ HoldsEvent(y)
    BY <2>1 DEF WaitsFor
  <2> QED
    BY <2>1, <2>2 DEF HoldsEvent
<1>2. CASE \A x \in set : pc[x] # "move"
  <2>1. \A y \in set : ~HoldsWaiting(y)
    BY <1>2 DEF HoldsWaiting
  <2>2. \A x, y \in set : WaitsFor(x, y) => ~HoldsFd(x) /\ HoldsFd(y)
    BY <1>2, <2>1 DEF WaitsFor
  <2>3. PICK x \in set : TRUE
    OBVIOUS
  <2>4. PICK y \in set : WaitsFor(x, y)
    OBVIOUS
  <2>5. PICK z \in set : WaitsFor(y, z)
    OBVIOUS
  <2> QED
    BY <2>2, <2>4, <2>5
<1> QED
  BY <1>1, <1>2

(* However many threads call the socket and whatever callbacks call, the   *)
(* only threads that wait for each other's locks (_mtx_sock_fd,            *)
(* _mtx_send_buf_waiting, _mtx_event of Socket) are a callback and a       *)
(* thread at Socket.cpp:663.                                               *)
THEOREM OneCircle == Spec => []OneLockCycle
<1>1. IInv => OneLockCycle
  BY Circles DEF IInv
<1> QED
  BY Invariance, <1>1, PTL

(***************************************************************************)
(* The order of the packets, when only the poller thread sends.            *)
(***************************************************************************)

(* Unless a write failed, what entered is in the kernel, in the local list *)
(* and in the two buffers, in this order; where a thread is says which     *)
(* buffers are empty.                                                      *)
Pending == tmp[Poller] \o (sending \o waiting)
Lined ==
  /\ IsPrefix(out, order)
  /\ dropped = {} => order = out \o Pending
  /\ dropped # {} => reset
  /\ pc[Poller] \in {"refill", "move"} => sending = <<>>
  /\ pc[Poller] = "flushAll" => waiting # <<>>
  /\ pc[Poller] = "swap" /\ dropped # {} => sending # <<>> \/ waiting # <<>>
  /\ pc[Poller] = "refill" /\ dropped # {} => waiting # <<>>
  /\ pc[Poller] = "stopFlushed" => dropped = {} /\ sending = <<>> /\ waiting = <<>>

LEMMA PrefixOfConcat ==
  ASSUME NEW S, NEW s \in Seq(S), NEW t \in Seq(S)
  PROVE  IsPrefix(s, s \o t)
<1>1. /\ s \o t \in Seq(S) /\ Len(s \o t) = Len(s) + Len(t)
      /\ Len(s) \in Nat /\ Len(t) \in Nat
  BY ConcatProperties, LenProperties
<1>2. Len(s) <= Len(s \o t)
  BY <1>1
<1>3. SubSeq(s, 1, Len(s)) = SubSeq(s \o t, 1, Len(s))
  <2>1. CASE Len(s) = 0
    <3>1. SubSeq(s, 1, 0) = <<>> /\ SubSeq(s \o t, 1, 0) = <<>>
      BY SubSeqEmpty
    <3> QED
      BY <2>1, <3>1
  <2>2. CASE Len(s) # 0
    <3>1. 1 \in 1 .. Len(s) /\ Len(s) \in 1 .. Len(s)
      BY <1>1, <2>2
    <3> QED
      BY <3>1, SubSeqOfConcat1
  <2> QED
    BY <2>1, <2>2
<1> QED
  BY <1>2, <1>3 DEF IsPrefix

LEMMA ConcatOfPrefix ==
  ASSUME NEW S, NEW s \in Seq(S), NEW t \in Seq(S), IsPrefix(s, t)
  PROVE  \E r \in Seq(S) : t = s \o r
<1>1. Len(s) \in Nat /\ Len(t) \in Nat /\ Len(s) <= Len(t)
  BY LenProperties DEF IsPrefix
<1>2. Len(s) \in 0 .. Len(t)
  BY <1>1
<1>3. SubSeq(t, 1, Len(s)) = s
  BY SubSeqFull DEF IsPrefix
<1>4. /\ SubSeq(t, Len(s) + 1, Len(t)) \in Seq(S)
      /\ SubSeq(t, 1, Len(s)) \o SubSeq(t, Len(s) + 1, Len(t)) = t
  BY <1>2, Cut
<1> QED
  BY <1>3, <1>4

LEMMA PrefixAppend ==
  ASSUME NEW S, NEW s \in Seq(S), NEW t \in Seq(S), NEW e \in S, IsPrefix(s, t)
  PROVE  IsPrefix(s, Append(t, e))
<1>1. PICK r \in Seq(S) : t = s \o r
  BY ConcatOfPrefix
<1>2. <<e>> \in Seq(S) /\ Append(t, e) = t \o <<e>>
  BY AppendIsConcat
<1>3. (s \o r) \o <<e>> = s \o (r \o <<e>>) /\ r \o <<e>> \in Seq(S)
  BY <1>2, ConcatAssociative, ConcatProperties
<1>4. IsPrefix(s, s \o (r \o <<e>>))
  BY <1>3, PrefixOfConcat
<1>5. Append(t, e) = s \o (r \o <<e>>)
  BY <1>1, <1>2, <1>3
<1> QED
  BY <1>4, <1>5

Regroups(s, t, u) == (s \o t) \o u = s \o (t \o u)
LEMMA Assoc == \A s, t, u \in Seq(Packets) : Regroups(s, t, u)
  BY ConcatAssociative DEF Regroups

LEMMA Joined == \A s, t \in Seq(Packets) : s \o t \in Seq(Packets)
  BY ConcatProperties

(* What enters at the end of the line.                                     *)
Lengthens(o, t, s, w, e) == (o \o (t \o (s \o w))) \o e = o \o (t \o (s \o (w \o e)))
LEMMA LineEnd == \A o, t, s, w, e \in Seq(Packets) : Lengthens(o, t, s, w, e)
<1> SUFFICES ASSUME NEW o \in Seq(Packets), NEW t \in Seq(Packets), NEW s \in Seq(Packets),
                    NEW w \in Seq(Packets), NEW e \in Seq(Packets)
             PROVE  (o \o (t \o (s \o w))) \o e = o \o (t \o (s \o (w \o e)))
  BY DEF Lengthens
<1> DEFINE sw  == s \o w
           tsw == t \o sw
<1>1. sw \in Seq(Packets) /\ sw \o e = s \o (w \o e)
  <2>1. Regroups(s, w, e)
    BY Assoc
  <2> QED
    BY <2>1, Joined DEF Regroups
<1> HIDE DEF sw
<1>2. tsw \in Seq(Packets) /\ tsw \o e = t \o (sw \o e)
  <2>1. Regroups(t, sw, e)
    BY <1>1, Assoc
  <2>2. t \o sw \in Seq(Packets)
    BY <1>1, Joined
  <2> QED
    BY <2>1, <2>2 DEF Regroups
<1> HIDE DEF tsw
<1>3. (o \o tsw) \o e = o \o (tsw \o e)
  <2>1. Regroups(o, tsw, e)
    BY <1>2, Assoc
  <2> QED
    BY <2>1 DEF Regroups
<1> QED
  BY <1>1, <1>2, <1>3 DEF sw, tsw

LEMMA LinedFlush ==
  ASSUME Senders = {}, IInv, Lined,
         Enqueue(Poller) \/ Swap(Poller) \/ Move(Poller) \/ Write(Poller)
           \/ WriteFails(Poller) \/ Rollback(Poller)
  PROVE  /\ IsPrefix(out, order)'
         /\ dropped' = {} => order' = out' \o Pending'
<1> DEFINE T == tmp[Poller]
<1>0. /\ waiting \in Seq(Packets) /\ sending \in Seq(Packets) /\ out \in Seq(Packets)
      /\ order \in Seq(Packets) /\ T \in Seq(Packets) /\ <<>> \in Seq(Packets)
      /\ Poller \in Threads /\ tmp \in [Threads -> Seq(Packets)]
  BY TypeFacts, EmptySeq DEF IInv, Threads
<1>1. \A s \in Seq(Packets) : s \o <<>> = s /\ <<>> \o s = s
  BY ConcatEmptySeq
<1>3. pc[Poller] \in {"swap", "move"} => T = <<>>
  BY <1>0 DEF IInv, LocalsUsed
<1>4. ASSUME order' = order, out' = out, dropped' = dropped,
             tmp'[Poller] \o (sending' \o waiting') = T \o (sending \o waiting)
      PROVE  /\ IsPrefix(out, order)'
             /\ dropped' = {} => order' = out' \o Pending'
  BY <1>4 DEF Lined, Pending
<1>5. CASE Enqueue(Poller)
  <2>1. /\ waiting' = Append(waiting, arg[Poller]) /\ order' = Append(order, arg[Poller])
        /\ out' = out /\ sending' = sending /\ tmp' = tmp /\ dropped' = dropped
        /\ arg[Poller] \in Packets
    BY <1>0, <1>5 DEF Enqueue, IInv, TypeOK, ArgsFresh
  <2> DEFINE e == <<arg[Poller]>>
  <2>2. /\ waiting' = waiting \o e /\ order' = order \o e /\ e \in Seq(Packets)
        /\ out' = out /\ dropped' = dropped /\ Pending' = T \o (sending \o (waiting \o e))
    <3>1. \A u \in Seq(Packets) : Append(u, arg[Poller]) = u \o e /\ e \in Seq(Packets)
      BY <2>1, AppendIsConcat
    <3>2. /\ waiting' = waiting \o e /\ order' = order \o e /\ e \in Seq(Packets)
      BY <1>0, <2>1, <3>1
    <3> HIDE DEF e
    <3> QED
      BY <2>1, <3>2 DEF Pending
  <2>3. IsPrefix(out, order')
    BY <1>0, <2>1, PrefixAppend DEF Lined
  <2> HIDE DEF e, T
  <2>4. (out \o (T \o (sending \o waiting))) \o e = out \o (T \o (sending \o (waiting \o e)))
    <3>1. Lengthens(out, T, sending, waiting, e)
      BY <1>0, <2>2, LineEnd
    <3> QED
      BY <3>1 DEF Lengthens
  <2>5. dropped = {} => order = out \o (T \o (sending \o waiting))
    BY DEF Lined, Pending, T
  <2>6. dropped = {} => order' = out \o (T \o (sending \o (waiting \o e)))
    BY <2>2, <2>4, <2>5
  <2> QED
    BY <2>2, <2>3, <2>6
<1>6. CASE Swap(Poller)
  <2>1. /\ tmp'[Poller] = sending /\ sending' = <<>> /\ T = <<>> /\ waiting' = waiting
        /\ order' = order /\ out' = out /\ dropped' = dropped
    BY <1>0, <1>3, <1>6 DEF Swap, history
  <2>2. sending \o (<<>> \o waiting) = <<>> \o (sending \o waiting)
    BY <1>0, <1>1, Joined
  <2> QED
    BY <1>4, <2>1, <2>2
<1>7. CASE Move(Poller)
  <2>1. /\ tmp'[Poller] = waiting /\ waiting' = <<>> /\ T = <<>> /\ sending = <<>>
        /\ order' = order /\ out' = out /\ dropped' = dropped /\ sending' = sending
    BY <1>0, <1>3, <1>7 DEF Move, history, Lined
  <2>2. waiting \o (<<>> \o <<>>) = <<>> \o (<<>> \o waiting)
    BY <1>0, <1>1, Joined
  <2> QED
    BY <1>4, <2>1, <2>2
<1>8. CASE Write(Poller)
  <2> DEFINE room == SndCap - unacked
             n    == IF Len(T) <= room THEN Len(T) ELSE room
             head == SubSeq(T, 1, n)
             rest == SubSeq(T, n + 1, Len(T))
  <2>1. /\ tmp'[Poller] = rest /\ out' = out \o head /\ dropped = {}
        /\ UNCHANGED <<waiting, sending, dropped, order>>
    BY <1>0, <1>8 DEF Write, Lined
  <2>2. n \in 0 .. Len(T)
    <3>1. Len(T) \in Nat /\ unacked \in 0 .. SndCap
      BY <1>0, LenProperties DEF IInv, TypeOK
    <3> QED
      BY <3>1
  <2>3. head \in Seq(Packets) /\ rest \in Seq(Packets) /\ head \o rest = T
    <3> HIDE DEF n, T
    <3> QED
      BY <1>0, <2>2, Cut
  <2> DEFINE left == sending \o waiting
  <2>4. left \in Seq(Packets) /\ order = out \o (T \o left)
    BY <1>0, Joined, <2>1 DEF Lined, Pending
  <2> HIDE DEF head, rest, T, left
  <2>5. T \o left = head \o (rest \o left)
    <3>1. Regroups(head, rest, left)
      BY <2>3, <2>4, Assoc
    <3> QED
      BY <2>3, <3>1 DEF Regroups
  <2>6. rest \o left \in Seq(Packets) /\ out \o head \in Seq(Packets)
    BY <1>0, Joined, <2>3, <2>4
  <2>7. out \o (head \o (rest \o left)) = (out \o head) \o (rest \o left)
    <3>1. Regroups(out, head, rest \o left)
      BY <1>0, <2>3, <2>6, Assoc
    <3> QED
      BY <3>1 DEF Regroups
  <2>8. order' = out' \o (rest \o left)
    BY <2>1, <2>4, <2>5, <2>7
  <2>9. IsPrefix(out \o head, (out \o head) \o (rest \o left))
    BY <2>6, PrefixOfConcat
  <2>10. IsPrefix(out, order)'
    BY <2>1, <2>8, <2>9
  <2>11. tmp'[Poller] \o (sending' \o waiting') = rest \o left
    BY <2>1 DEF left
  <2> QED
    BY <2>8, <2>10, <2>11 DEF Pending
<1>9. CASE WriteFails(Poller)
  <2>1. /\ dropped' = dropped \union ToSet(T) /\ tmp'[Poller] = <<>>
        /\ UNCHANGED <<waiting, sending, order, out>>
    BY <1>0, <1>9 DEF WriteFails
  <2>2. dropped' = {} => dropped = {} /\ T = <<>>
    <3>1. ToSet(T) = {} => T = <<>>
      <4> HIDE DEF T
      <4>1. T # <<>> => 1 \in DOMAIN T
        BY <1>0, EmptySeq, LenProperties
      <4> QED
        BY <4>1 DEF ToSet
    <3> QED
      BY <2>1, <3>1
  <2> HIDE DEF T
  <2>3. dropped = {} => order = out \o (T \o (sending \o waiting))
    BY DEF Lined, Pending, T
  <2> QED
    BY <2>1, <2>2, <2>3 DEF Pending, Lined
<1>10. CASE Rollback(Poller)
  <2>1. /\ tmp'[Poller] = <<>> /\ sending' = T \o sending /\ waiting' = waiting
        /\ order' = order /\ out' = out /\ dropped' = dropped
    BY <1>0, <1>10 DEF Rollback, history
  <2> HIDE DEF T
  <2>2. (T \o sending) \o waiting = T \o (sending \o waiting)
    <3>1. Regroups(T, sending, waiting)
      BY <1>0, Assoc
    <3> QED
      BY <3>1 DEF Regroups
  <2>3. T \o (sending \o waiting) \in Seq(Packets)
    BY <1>0, Joined
  <2>4. <<>> \o ((T \o sending) \o waiting) = T \o (sending \o waiting)
    BY <1>1, <2>2, <2>3
  <2> QED
    BY <1>4, <2>1, <2>4 DEF T
<1> QED
  BY <1>5, <1>6, <1>7, <1>8, <1>9, <1>10

LEMMA LinedStep ==
  ASSUME Senders = {}, IInv, Lined, [Next]_vars
  PROVE  Lined'
<1> USE DEF buffers, threads, state, history, kernel, Goto, InFlush, Labels
<1> DEFINE at     == pc[Poller]
           First  == IsPrefix(out, order)
           Second == dropped = {} => order = out \o Pending
           Rest   == /\ dropped # {} => reset
                     /\ at \in {"refill", "move"} => sending = <<>>
                     /\ at = "flushAll" => waiting # <<>>
                     /\ at = "swap" /\ dropped # {} => sending # <<>> \/ waiting # <<>>
                     /\ at = "refill" /\ dropped # {} => waiting # <<>>
                     /\ at = "stopFlushed" => dropped = {} /\ sending = <<>> /\ waiting = <<>>
<1>0. /\ waiting \in Seq(Packets) /\ sending \in Seq(Packets) /\ Threads = {Poller}
      /\ pc \in [Threads -> Labels]
      /\ tmp \in [Threads -> Seq(Packets)] /\ First /\ Second /\ Rest
  BY DEF IInv, TypeOK, Threads, Lined
<1>1. ASSUME First', Second', Rest' PROVE Lined'
  BY <1>1 DEF Lined
<1>2. ASSUME UNCHANGED <<buffers, history>> PROVE First' /\ Second'
  BY <1>0, <1>2 DEF Pending
<1> HIDE DEF First, Second
<1>3. ASSUME NEW p \in Packets, Send(Poller, p) PROVE Lined'
  <2>1. Rest'
    BY <1>0, <1>3 DEF Send
  <2> QED
    BY <1>1, <1>2, <1>3, <2>1 DEF Send
<1>4. ASSUME Enqueue(Poller) \/ Swap(Poller) \/ Move(Poller) \/ Write(Poller)
               \/ WriteFails(Poller) \/ Rollback(Poller)
      PROVE  Lined'
  <2>1. First' /\ Second'
    BY <1>4, LinedFlush DEF First, Second
  <2>2. CASE Enqueue(Poller)
    <3>1. Append(waiting, arg[Poller]) # <<>>
      BY <1>0, <2>2, AppendProperties DEF IInv, TypeOK, Enqueue, ArgsFresh
    <3>2. Rest'
      BY <1>0, <2>2, <3>1 DEF Enqueue
    <3> QED
      BY <1>1, <2>1, <3>2
  <2>3. CASE Swap(Poller) \/ Move(Poller) \/ WriteFails(Poller) \/ Rollback(Poller)
    <3>1. Rest'
      BY <1>0, <2>3 DEF Swap, Move, WriteFails, Rollback
    <3> QED
      BY <1>1, <2>1, <3>1
  <2>4. CASE Write(Poller)
    <3>1. /\ reset' = reset /\ dropped' = dropped /\ ~reset
          /\ \E l \in {"swap", "idle", "rollback", "start"} : pc' = [pc EXCEPT ![Poller] = l]
      BY <2>4 DEF Write
    <3>2. Rest'
      BY <1>0, <3>1
    <3> QED
      BY <1>1, <2>1, <3>2
  <2> QED
    BY <1>4, <2>2, <2>3, <2>4
<1>5. ASSUME FlushAll(Poller) \/ Refill(Poller) \/ Start(Poller) \/ Emit(Poller) \/ Close(Poller)
      PROVE  Lined'
  <2>1. First' /\ Second'
    BY <1>2, <1>5 DEF FlushAll, Refill, Start, Emit, Close
  <2>2. CASE FlushAll(Poller) \/ Start(Poller) \/ Emit(Poller) \/ Close(Poller)
    <3>1. Rest'
      BY <1>0, <2>2 DEF FlushAll, Start, Emit, Close
    <3> QED
      BY <1>1, <2>1, <3>1
  <2>3. CASE Refill(Poller)
    <3>1. Rest'
      BY <1>0, <2>3 DEF Refill
    <3> QED
      BY <1>1, <2>1, <3>1
  <2> QED
    BY <1>5, <2>2, <2>3
<1>6. CASE PollerStep
  <2>1. UNCHANGED <<buffers, history>>
    BY <1>6 DEF PollerStep, WaitReturns, OnRead, OnWriteAble, OnError, LookAtWaiting,
       LookAtSending, Stop, RunErr, Answer, CallbackReturns
  <2>2. First' /\ Second'
    BY <1>2, <2>1
  <2>3. Rest'
    BY <1>0, <1>6 DEF PollerStep, WaitReturns, OnRead, OnWriteAble, OnError, LookAtWaiting,
       LookAtSending, Stop, RunErr, Answer, CallbackReturns, PollerIdle
  <2> QED
    BY <1>1, <2>2, <2>3
<1>7. CASE Drain \/ DataArrives \/ Reset \/ Ask \/ Quiet \/ Deadlocked \/ UNCHANGED vars
  <2>1. UNCHANGED <<buffers, history>>
    BY <1>7 DEF Drain, DataArrives, Reset, Ask, Quiet, Deadlocked, vars
  <2>2. First' /\ Second'
    BY <1>2, <2>1
  <2>3. Rest'
    BY <1>0, <1>7 DEF Drain, DataArrives, Reset, Ask, MayCall, Quiet, Deadlocked, vars
  <2> QED
    BY <1>1, <2>2, <2>3
<1>8. CASE Shutdown(Poller)
  <2>1. Rest'
    BY <1>0, <1>8 DEF Shutdown
  <2> QED
    BY <1>1, <1>2, <1>8, <2>1 DEF Shutdown
<1> QED
  BY <1>0, <1>3, <1>4, <1>5, <1>6, <1>7, <1>8 DEF Next, ThreadStep

LEMMA LinedInit == Init => Lined
<1> SUFFICES ASSUME Init PROVE Lined
  OBVIOUS
<1>1. /\ waiting = <<>> /\ sending = <<>> /\ out = <<>> /\ order = <<>> /\ dropped = {}
      /\ pc[Poller] = "idle" /\ tmp[Poller] = <<>> /\ <<>> \in Seq(Packets)
  BY EmptySeq DEF Init, Threads
<1>2. <<>> \o <<>> = <<>>
  BY <1>1, ConcatEmptySeq
<1>3. IsPrefix(<<>>, <<>>)
  BY <1>1, <1>2, PrefixOfConcat
<1> QED
  BY <1>1, <1>2, <1>3 DEF Lined, Pending

LEMMA LinedAlways == ASSUME Senders = {} PROVE Spec => []Lined
<1>1. IInv /\ Lined /\ [Next]_vars => Lined'
  BY LinedStep
<1> QED
  BY LinedInit, Invariance, <1>1, PTL DEF Spec

(* When only the poller thread sends, the kernel gets the packets in the   *)
(* order of the calls of send (flushData empties the second-level buffer   *)
(* first; Socket.cpp 645-664).                                             *)
THEOREM SoleSenderInOrder ==
  ASSUME Senders = {}
  PROVE  Spec => []InOrder
<1>1. Lined => InOrder
  BY DEF Lined, InOrder
<1> QED
  BY LinedAlways, <1>1, PTL

(* When only the poller thread sends, on_flush is called with everything   *)
(* written (flushData calls onFlushed when both buffers are empty).        *)
THEOREM SoleSenderFlushed ==
  ASSUME Senders = {}
  PROVE  Spec => FlushedMeansEmpty
<1>1. IInv /\ Lined /\ [Next]_vars => [outer = "none" /\ outer' = "flushed" => out = order]_vars
  <2> SUFFICES ASSUME IInv, Lined, Next, outer = "none", outer' = "flushed"
               PROVE  out = order
    BY DEF vars, threads
  <2>1. Stop
    BY DEF Next, ThreadStep, PollerStep, Send, Enqueue, FlushAll, Swap, Refill, Move, Write,
       WriteFails, Start, Rollback, Emit, Close, WaitReturns, OnRead, OnWriteAble, OnError,
       LookAtWaiting, LookAtSending, RunErr, Answer, CallbackReturns, Drain, DataArrives, Reset,
       Shutdown, Ask, Quiet, Deadlocked,
       vars, threads
  <2>2. pc[Poller] = "stopFlushed"
    BY <2>1 DEF Stop
  <2>3. tmp[Poller] = <<>> /\ out \in Seq(Packets) /\ <<>> \in Seq(Packets)
    BY <2>2, TypeFacts, EmptySeq DEF IInv, LocalsUsed, Threads
  <2>4. order = out \o (<<>> \o (<<>> \o <<>>))
    BY <2>2, <2>3 DEF Lined, Pending
  <2> QED
    BY <2>3, <2>4, ConcatEmptySeq
<1>2. Spec => [][Next]_vars
  BY DEF Spec
<1> QED
  BY LinedAlways, Invariance, <1>1, <1>2, PTL DEF FlushedMeansEmpty
=============================================================================
