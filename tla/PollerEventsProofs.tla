------------------------- MODULE PollerEventsProofs -------------------------
(***************************************************************************)
(* Theorems about PollerEvents, for any number of descriptors and sockets. *)
(***************************************************************************)
EXTENDS PollerEvents, SequenceTheorems, FiniteSetTheorems, TLAPS

USE ConstantsAssumption

(***************************************************************************)
(* The inductive invariant.                                                *)
(***************************************************************************)

(* A number is that of one open socket.  Only an open socket is held or in *)
(* its callback, and one is overtaken only if it is closed.                *)
LivesSound ==
  /\ \A s \in Sockets : number[s] # None <=> life[s] \in {"open", "leaving"}
  /\ \A s, t \in Sockets : number[s] # None /\ number[s] = number[t] => s = t
  /\ \A s \in held : life[s] = "open"
  /\ \A s \in overtaken : life[s] = "closed"
  /\ current # None => life[current] = "open"
  /\ at = "callback" => current # None /\ events # <<>>

(* The task of addEvent has the number of its socket, unless the socket    *)
(* was closed before; the task of delEvent is the only one of its socket,  *)
(* which waits for it.                                                     *)
TaskSound(t) ==
  IF t.op = "add" THEN number[t.s] = t.n \/ t.s \in overtaken
                  ELSE life[t.s] = "leaving"

SameDel(t, u) == t.op = "del" /\ u.op = "del" /\ t.s = u.s

TasksSound ==
  /\ todo # <<>> => at = "tasks"
  /\ \A i \in DOMAIN queue : TaskSound(queue[i])
  /\ \A i \in DOMAIN todo : TaskSound(todo[i])
  /\ \A i, j \in DOMAIN queue : SameDel(queue[i], queue[j]) => i = j
  /\ \A i, j \in DOMAIN todo : SameDel(todo[i], todo[j]) => i = j
  /\ \A i \in DOMAIN queue, j \in DOMAIN todo : ~SameDel(queue[i], todo[j])

(* RegistrationsSound; and a number with a callback is in use.             *)
EntrySound(n) ==
  eventMap[n] # None =>
    \/ FileAt(n) \intersect polled = {eventMap[n]}
    \/ eventMap[n] \in overtaken /\ FileAt(n) # {} /\ FileAt(n) \subseteq polled

EntriesSound ==
  /\ ready \subseteq polled
  /\ \A s \in polled : number[s] # None /\ eventMap[number[s]] # None
  /\ \A n \in Numbers : EntrySound(n)

(* The callback under the number of an event is that of the event's file,  *)
(* of a file registered since, or of a socket that is gone.                *)
BatchSound ==
  /\ \A i \in DOMAIN events : events[i].n # Pipe =>
       eventMap[events[i].n] \in {None, events[i].s} \union overtaken \union fresh
  /\ EventsOwn

IInv == TypeOK /\ LivesSound /\ TasksSound /\ EntriesSound /\ BatchSound

(***************************************************************************)
(* Sequences.                                                              *)
(***************************************************************************)
LEMMA Indices ==
  ASSUME NEW S, NEW q \in Seq(S)
  PROVE  /\ <<>> \in Seq(S) /\ DOMAIN <<>> = {}
         /\ \A i \in DOMAIN q : q[i] \in S
         /\ q # <<>> => /\ 1 \in DOMAIN q /\ q[1] = Head(q) /\ Head(q) \in S
                        /\ Tail(q) \in Seq(S)
                        /\ \A i \in DOMAIN Tail(q) : /\ i + 1 \in DOMAIN q /\ i + 1 # 1
                                                     /\ i \in Nat
                                                     /\ Tail(q)[i] = q[i + 1]
<1>1. <<>> \in Seq(S) /\ DOMAIN <<>> = {}
  BY EmptySeq
<1>2. Len(q) \in Nat /\ DOMAIN q = 1 .. Len(q) /\ \A i \in DOMAIN q : q[i] \in S
  BY LenProperties, ElementOfSeq
<1>3. ASSUME q # <<>>
      PROVE  /\ 1 \in DOMAIN q /\ q[1] = Head(q) /\ Head(q) \in S
             /\ Tail(q) \in Seq(S)
             /\ \A i \in DOMAIN Tail(q) : /\ i + 1 \in DOMAIN q /\ i + 1 # 1
                                          /\ i \in Nat
                                          /\ Tail(q)[i] = q[i + 1]
  <2>1. Len(q) \in Nat \ {0}
    BY <1>3, EmptySeq
  <2>2. /\ Head(q) \in S /\ Tail(q) \in Seq(S) /\ Len(Tail(q)) = Len(q) - 1
        /\ \A i \in 1 .. Len(Tail(q)) : Tail(q)[i] = q[i + 1]
    BY <1>3, HeadTailProperties
  <2>3. DOMAIN Tail(q) = 1 .. Len(q) - 1
    BY <2>2, LenProperties
  <2>4. q[1] = Head(q)
    OBVIOUS
  <2> QED
    BY <1>2, <2>1, <2>2, <2>3, <2>4
<1> QED
  BY <1>1, <1>2, <1>3

LEMMA Appended ==
  ASSUME NEW S, NEW q \in Seq(S), NEW e \in S
  PROVE  /\ Append(q, e) \in Seq(S)
         /\ DOMAIN Append(q, e) = DOMAIN q \union {Len(q) + 1}
         /\ \A i \in DOMAIN q : Append(q, e)[i] = q[i]
         /\ Append(q, e)[Len(q) + 1] = e
<1>1. Len(q) \in Nat /\ DOMAIN q = 1 .. Len(q)
  BY LenProperties
<1>2. /\ Append(q, e) \in Seq(S) /\ Len(Append(q, e)) = Len(q) + 1
      /\ \A i \in 1 .. Len(q) : Append(q, e)[i] = q[i]
      /\ Append(q, e)[Len(q) + 1] = e
  BY AppendProperties
<1>3. DOMAIN Append(q, e) = 1 .. Len(q) + 1
  BY <1>2, LenProperties
<1> QED
  BY <1>1, <1>2, <1>3

(***************************************************************************)
(* Types.                                                                  *)
(***************************************************************************)
Events == [n : Numbers, s : Sockets] \union [n : {Pipe}, s : {None}]

LEMMA Types ==
  ASSUME TypeOK
  PROVE  /\ number \in [Sockets -> Numbers \union {None}]
         /\ life \in [Sockets -> {"new", "open", "leaving", "closed"}]
         /\ held \subseteq Sockets /\ asked \subseteq Sockets /\ overtaken \subseteq Sockets
         /\ data \subseteq Sockets /\ polled \subseteq Sockets /\ ready \subseteq Sockets
         /\ fresh \subseteq Sockets
         /\ eventMap \in [Numbers -> Sockets \union {None}]
         /\ queue \in Seq(Tasks) /\ todo \in Seq(Tasks) /\ events \in Seq(Events)
         /\ at \in {"wait", "dispatch", "tasks", "callback"}
         /\ current \in Sockets \union {None}
         /\ None \notin Numbers /\ None \notin Sockets /\ Pipe \notin Numbers
  BY DEF TypeOK, Numbers, Sockets, Events

(* What AddHere and CloseHere do to the types.                             *)
LEMMA AddTypes ==
  ASSUME TypeOK, NEW s \in Sockets, NEW n \in Numbers, AddHere(s, n)
  PROVE  /\ polled' \subseteq Sockets /\ ready' \subseteq Sockets /\ fresh' \subseteq Sockets
         /\ eventMap' \in [Numbers -> Sockets \union {None}]
  BY Types DEF AddHere, FileAt

LEMMA CloseTypes ==
  ASSUME TypeOK, NEW s \in Sockets, number[s] # None, CloseHere(s)
  PROVE  /\ polled' \subseteq Sockets /\ ready' \subseteq Sockets /\ data' \subseteq Sockets
         /\ overtaken' \subseteq Sockets
         /\ number' \in [Sockets -> Numbers \union {None}]
         /\ life' \in [Sockets -> {"new", "open", "leaving", "closed"}]
         /\ eventMap' \in [Numbers -> Sockets \union {None}]
<1>1. polled' \subseteq Sockets /\ ready' \subseteq Sockets /\ data' \subseteq Sockets
  BY Types DEF CloseHere
<1>2. overtaken' \subseteq Sockets
  BY Types DEF CloseHere
<1>3. /\ number' \in [Sockets -> Numbers \union {None}]
      /\ life' \in [Sockets -> {"new", "open", "leaving", "closed"}]
  BY Types DEF CloseHere
<1>4. eventMap' \in [Numbers -> Sockets \union {None}]
  BY Types DEF CloseHere, DelHere
<1> QED
  BY <1>1, <1>2, <1>3, <1>4

(***************************************************************************)
(* Registering and closing a descriptor.                                   *)
(***************************************************************************)
LEMMA AddKeeps ==
  ASSUME TypeOK, LivesSound, EntriesSound,
         NEW s \in Sockets, NEW n \in Numbers, number[s] = n \/ s \in overtaken,
         AddHere(s, n), number' = number, overtaken' = overtaken
  PROVE  /\ EntriesSound' /\ fresh \subseteq fresh'
         /\ \A m \in Numbers : eventMap'[m] \in {eventMap[m]} \union overtaken' \union fresh'
<1> DEFINE new == FileAt(n) \ polled
<1>0. /\ polled' = polled \union new /\ ready' = ready \union (new \intersect data)
      /\ eventMap' = IF new # {} /\ eventMap[n] = None THEN [eventMap EXCEPT ![n] = s]
                     ELSE eventMap
      /\ fresh' = fresh \union new
      /\ \A m : FileAt(m)' = FileAt(m)
  BY DEF AddHere, FileAt
<1>1. CASE new = {}
  <2>1. polled' = polled /\ ready' = ready /\ eventMap' = eventMap /\ fresh' = fresh
    BY <1>0, <1>1
  <2> QED
    BY <1>0, <2>1 DEF EntriesSound, EntrySound
<1>2. CASE new # {}
  <2>1. PICK t \in Sockets : number[t] = n /\ t \notin polled
    BY <1>2 DEF FileAt
  <2>2. FileAt(n) = {t} /\ new = {t}
    BY <2>1, Types DEF LivesSound, FileAt
  <2>3. eventMap[n] = None
    BY <2>1, <2>2 DEF EntriesSound, EntrySound
  <2>4. eventMap' = [eventMap EXCEPT ![n] = s] /\ polled' = polled \union {t}
        /\ ready' = ready \union ({t} \intersect data) /\ fresh' = fresh \union {t}
    BY <1>0, <2>2, <2>3
  <2>5. s = t \/ s \in overtaken
    BY <2>2 DEF FileAt
  <2> HIDE DEF new
  <2>6. /\ eventMap'[n] = s /\ \A m \in Numbers \ {n} : eventMap'[m] = eventMap[m]
        /\ None \notin Sockets
    BY <2>4, Types
  <2>7. \A r \in polled' : number'[r] # None /\ eventMap'[number'[r]] # None
    <3>1. ASSUME NEW r \in polled PROVE number[r] \in Numbers /\ eventMap[number[r]] # None
      BY Types DEF EntriesSound
    <3> QED
      BY <2>1, <2>4, <2>6, <3>1, Types
  <2>8. ASSUME NEW m \in Numbers PROVE EntrySound(m)'
    <3>1. CASE m = n
      <4>1. FileAt(m)' = {t} /\ FileAt(m)' \intersect polled' = {t} /\ eventMap'[m] = s
        BY <1>0, <2>2, <2>4, <2>6, <3>1
      <4> QED
        BY <2>4, <2>5, <4>1 DEF EntrySound
    <3>2. CASE m # n
      <4>1. t \notin FileAt(m)
        BY <2>1, <3>2 DEF FileAt
      <4>2. EntrySound(m) /\ eventMap'[m] = eventMap[m] /\ FileAt(m)' = FileAt(m)
        BY <1>0, <2>6, <3>2 DEF EntriesSound
      <4>3. FileAt(m)' \intersect polled' = FileAt(m) \intersect polled
        BY <2>4, <4>1, <4>2
      <4> QED
        BY <2>4, <4>2, <4>3 DEF EntrySound
    <3> QED
      BY <3>1, <3>2
  <2>9. ready' \subseteq polled'
    BY <2>4 DEF EntriesSound
  <2> QED
    BY <2>4, <2>5, <2>6, <2>7, <2>8, <2>9 DEF EntriesSound
<1> QED
  BY <1>1, <1>2

LEMMA CloseKeeps ==
  ASSUME TypeOK, LivesSound, EntriesSound, NEW s \in Sockets, number[s] # None, CloseHere(s)
  PROVE  /\ EntriesSound' /\ overtaken \subseteq overtaken'
         /\ \A m \in Numbers : eventMap'[m] \in {eventMap[m], None}
<1> DEFINE n == number[s]
<1>0. /\ n \in Numbers /\ FileAt(n) = {s}
      /\ polled' = polled \ {s} /\ ready' = ready \ {s} /\ number' = [number EXCEPT ![s] = None]
      /\ overtaken \subseteq overtaken'
  BY Types DEF CloseHere, FileAt, LivesSound
<1>1. eventMap' = [eventMap EXCEPT ![n] = None]
  <2>1. CASE s \in polled
    BY <2>1 DEF CloseHere, DelHere
  <2>2. CASE s \notin polled
    <3>1. eventMap[n] = None
      BY <1>0, <2>2 DEF EntriesSound, EntrySound
    <3>2. eventMap' = eventMap
      BY <2>2 DEF CloseHere, DelHere
    <3> QED
      BY <1>0, <3>1, <3>2, Types
  <2> QED
    BY <2>1, <2>2
<1>2. eventMap'[n] = None /\ \A m \in Numbers \ {n} : eventMap'[m] = eventMap[m]
  BY <1>0, <1>1, Types
<1>3. \A m \in Numbers \ {n} : FileAt(m)' = FileAt(m) /\ s \notin FileAt(m)
  BY <1>0, Types DEF FileAt
<1>4. ASSUME NEW r \in polled' PROVE number'[r] # None /\ eventMap'[number'[r]] # None
  <2>1. r \in polled /\ r # s /\ number'[r] = number[r] /\ number[r] # None
    BY <1>0, Types DEF EntriesSound
  <2>2. number[r] # n /\ number[r] \in Numbers /\ eventMap[number[r]] # None
    BY <1>0, <2>1, Types DEF LivesSound, EntriesSound
  <2> QED
    BY <1>2, <2>1, <2>2
<1>5. ASSUME NEW m \in Numbers PROVE EntrySound(m)'
  <2>1. CASE m = n
    BY <1>2, <2>1 DEF EntrySound
  <2>2. CASE m # n
    <3>1. /\ EntrySound(m) /\ eventMap'[m] = eventMap[m] /\ FileAt(m)' = FileAt(m)
          /\ s \notin FileAt(m)
      BY <1>2, <1>3, <2>2 DEF EntriesSound
    <3>2. FileAt(m)' \intersect polled' = FileAt(m) \intersect polled
      BY <1>0, <3>1
    <3> QED
      BY <1>0, <3>1, <3>2 DEF EntrySound
  <2> QED
    BY <2>1, <2>2
<1>6. ready' \subseteq polled'
  BY <1>0 DEF EntriesSound
<1> QED
  BY <1>0, <1>2, <1>4, <1>5, <1>6 DEF EntriesSound

LEMMA CloseLives ==
  ASSUME TypeOK, LivesSound, NEW s \in Sockets, number[s] # None, CloseHere(s),
         held' \subseteq held \ {s}, current' # None => current' = current /\ current # s,
         at' = "callback" => current' # None /\ events' # <<>>
  PROVE  LivesSound'
<1>1. /\ number' = [number EXCEPT ![s] = None] /\ life' = [life EXCEPT ![s] = "closed"]
      /\ overtaken' \subseteq overtaken \union {s}
  BY DEF CloseHere
<1>2. \A t \in Sockets : t # s => number'[t] = number[t] /\ life'[t] = life[t]
  BY <1>1, Types
<1>3. number'[s] = None /\ life'[s] = "closed"
  BY <1>1, Types
<1>4. \A t \in Sockets : number'[t] # None <=> life'[t] \in {"open", "leaving"}
  BY <1>2, <1>3 DEF LivesSound
<1>5. \A t, u \in Sockets : number'[t] # None /\ number'[t] = number'[u] => t = u
  BY <1>2, <1>3 DEF LivesSound
<1>6. \A t \in held' : life'[t] = "open"
  BY <1>2, Types DEF LivesSound
<1>7. \A t \in overtaken' : life'[t] = "closed"
  BY <1>1, <1>2, <1>3, Types DEF LivesSound
<1>8. current' # None => life'[current'] = "open"
  BY <1>2, Types DEF LivesSound
<1> QED
  BY <1>4, <1>5, <1>6, <1>7, <1>8 DEF LivesSound

(* The tasks that are left after a descriptor was closed.                  *)
LEMMA CloseTasks ==
  ASSUME TypeOK, NEW s \in Sockets, number[s] # None, CloseHere(s), NEW t \in Tasks,
         \/ \E i \in DOMAIN queue : queue[i] = t
         \/ \E i \in DOMAIN todo : todo[i] = t,
         TaskSound(t), ~(t.op = "del" /\ t.s = s)
  PROVE  TaskSound(t)'
<1>1. /\ number' = [number EXCEPT ![s] = None] /\ life' = [life EXCEPT ![s] = "closed"]
      /\ overtaken' = IF AddQueued(s) THEN overtaken \union {s} ELSE overtaken
      /\ t.s \in Sockets /\ t.op \in {"add", "del"}
  BY DEF CloseHere, Tasks
<1>2. CASE t.s # s
  <2>1. number'[t.s] = number[t.s] /\ life'[t.s] = life[t.s] /\ overtaken \subseteq overtaken'
    BY <1>1, <1>2, Types
  <2> QED
    BY <2>1 DEF TaskSound
<1>3. CASE t.s = s
  <2>1. t.op = "add"
    BY <1>1, <1>3
  <2>2. CASE t.n = number[s]
    <3>1. t = [op |-> "add", s |-> s, n |-> number[s]]
      BY <1>3, <2>1, <2>2 DEF Tasks
    <3>2. AddQueued(s)
      BY <3>1 DEF AddQueued
    <3> QED
      BY <1>1, <1>3, <2>1, <3>2 DEF TaskSound
  <2>3. CASE t.n # number[s]
    BY <1>1, <1>3, <2>1, <2>3 DEF TaskSound
  <2> QED
    BY <2>2, <2>3
<1> QED
  BY <1>2, <1>3

(***************************************************************************)
(* What a step that leaves most things alone preserves.                    *)
(***************************************************************************)
LEMMA LivesKept ==
  ASSUME LivesSound, UNCHANGED <<number, life, overtaken>>, held' \subseteq held,
         current' \in {current, None},
         at' = "callback" => at = "callback" /\ current' = current /\ events' = events
  PROVE  LivesSound'
  BY DEF LivesSound

(* The tasks stay where they are.                                          *)
LEMMA TasksKept ==
  ASSUME TypeOK, TasksSound, UNCHANGED <<queue, todo>>, todo # <<>> => at' = "tasks",
         \A t \in Tasks :
           /\ \/ \E i \in DOMAIN queue : queue[i] = t
              \/ \E i \in DOMAIN todo : todo[i] = t
           /\ TaskSound(t)
           => TaskSound(t)'
  PROVE  TasksSound'
<1>1. \A i \in DOMAIN queue : queue[i] \in Tasks
  BY Types, Indices
<1>2. \A i \in DOMAIN todo : todo[i] \in Tasks
  BY Types, Indices
<1>3. \A i \in DOMAIN queue' : TaskSound(queue[i])'
  <2>1. ASSUME NEW i \in DOMAIN queue, NEW t, t = queue[i] PROVE TaskSound(t)'
    BY <1>1, <2>1 DEF TasksSound
  <2> QED
    BY <2>1 DEF TaskSound
<1>4. \A i \in DOMAIN todo' : TaskSound(todo[i])'
  <2>1. ASSUME NEW i \in DOMAIN todo, NEW t, t = todo[i] PROVE TaskSound(t)'
    BY <1>2, <2>1 DEF TasksSound
  <2> QED
    BY <2>1 DEF TaskSound
<1> QED
  BY <1>3, <1>4 DEF TasksSound, SameDel

LEMMA TasksUntouched ==
  ASSUME TypeOK, TasksSound, UNCHANGED <<queue, todo, number, life, overtaken>>,
         todo # <<>> => at' = "tasks"
  PROVE  TasksSound'
<1>1. \A t \in Tasks : TaskSound(t) => TaskSound(t)'
  BY DEF TaskSound
<1> QED
  BY <1>1, TasksKept

LEMMA EntriesKept ==
  ASSUME EntriesSound, UNCHANGED <<number, overtaken, polled, eventMap>>, ready' \subseteq polled
  PROVE  EntriesSound'
  BY DEF EntriesSound, EntrySound, FileAt

(* Events are dealt with one by one.                                       *)
LEMMA BatchKept ==
  ASSUME TypeOK, BatchSound,
         \A i \in DOMAIN events' : \E j \in DOMAIN events : events'[i] = events[j],
         overtaken \subseteq overtaken', fresh \subseteq fresh',
         \A m \in Numbers : eventMap'[m] \in {eventMap[m], None} \union overtaken' \union fresh',
         at' = "callback" => at = "callback" /\ current' = current /\ events' = events
  PROVE  BatchSound'
<1>1. ASSUME NEW i \in DOMAIN events', events'[i].n # Pipe
      PROVE  eventMap'[events'[i].n]
               \in {None, events'[i].s} \union overtaken' \union fresh'
  <2>1. PICK j \in DOMAIN events : events'[i] = events[j]
    OBVIOUS
  <2>2. events[j] \in Events
    BY Types, Indices
  <2>3. events[j].n \in Numbers
    BY <1>1, <2>1, <2>2 DEF Events
  <2>4. eventMap[events[j].n] \in {None, events[j].s} \union overtaken \union fresh
    BY <1>1, <2>1 DEF BatchSound
  <2> QED
    BY <2>1, <2>3, <2>4
<1>2. EventsOwn'
  BY DEF BatchSound, EventsOwn
<1> QED
  BY <1>1, <1>2 DEF BatchSound

(***************************************************************************)
(* What the program does.                                                  *)
(***************************************************************************)
LEMMA OpenKeeps ==
  ASSUME IInv, NEW s \in Sockets, NEW n \in Numbers, Open(s, n)
  PROVE  IInv'
<1> USE DEF userVars, loopVars
<1>1. /\ number' = [number EXCEPT ![s] = n] /\ life' = [life EXCEPT ![s] = "open"]
      /\ held' = held \union {s} /\ life[s] = "new" /\ FileAt(n) = {}
      /\ UNCHANGED <<asked, muted, recv, overtaken, data, polled, ready, eventMap, queue, fresh,
                     todo, events, at, current>>
  BY DEF Open
<1>2. TypeOK'
  BY <1>1 DEF IInv, TypeOK
<1>3. /\ number[s] = None /\ s \notin overtaken /\ s \notin held /\ current # s
      /\ \A t \in Sockets \ {s} : number'[t] = number[t] /\ life'[t] = life[t]
      /\ number'[s] = n /\ life'[s] = "open" /\ None \notin Numbers
      /\ \A t \in Sockets : number[t] # n
  BY <1>1, Types DEF IInv, LivesSound, FileAt
<1>4. LivesSound'
  <2>1. \A t \in Sockets : number'[t] # None <=> life'[t] \in {"open", "leaving"}
    BY <1>3 DEF IInv, LivesSound
  <2>2. \A t, u \in Sockets : number'[t] # None /\ number'[t] = number'[u] => t = u
    BY <1>3 DEF IInv, LivesSound
  <2>3. /\ \A t \in held' : life'[t] = "open"
        /\ \A t \in overtaken' : life'[t] = "closed"
        /\ current' # None => life'[current'] = "open"
    BY <1>1, <1>3, Types DEF IInv, LivesSound
  <2> QED
    BY <1>1, <2>1, <2>2, <2>3 DEF IInv, LivesSound
<1>5. TasksSound'
  <2>1. ASSUME NEW t \in Tasks, TaskSound(t) PROVE TaskSound(t)'
    <3>1. t.s \in Sockets /\ t.n \in Numbers
      BY DEF Tasks
    <3> QED
      BY <1>1, <1>3, <2>1, <3>1 DEF TaskSound
  <2> QED
    BY <1>1, <2>1, TasksKept DEF IInv, TasksSound
<1>6. EntriesSound'
  <2>1. s \notin polled
    BY <1>3 DEF IInv, EntriesSound
  <2>2. \A t \in polled' : number'[t] # None /\ eventMap'[number'[t]] # None
    BY <1>1, <1>3, <2>1, Types DEF IInv, EntriesSound
  <2>3. ASSUME NEW m \in Numbers PROVE EntrySound(m)'
    <3>1. CASE m = n
      BY <1>1, <2>1, <3>1 DEF IInv, EntriesSound, EntrySound
    <3>2. CASE m # n
      <4>1. FileAt(m)' = FileAt(m)
        BY <1>3, <3>2, Types DEF FileAt, IInv
      <4> QED
        BY <1>1, <4>1 DEF IInv, EntriesSound, EntrySound
    <3> QED
      BY <3>1, <3>2
  <2> QED
    BY <1>1, <2>2, <2>3 DEF IInv, EntriesSound
<1>7. BatchSound'
  BY <1>1, BatchKept DEF IInv
<1> QED
  BY <1>2, <1>4, <1>5, <1>6, <1>7 DEF IInv

LEMMA AddEventKeeps ==
  ASSUME IInv, NEW x \in {Loop, Other}, NEW s \in Sockets, AddEvent(x, s)
  PROVE  IInv'
<1> USE DEF userVars, loopVars
<1>1. /\ s \in held /\ asked' = asked \union {s} /\ number[s] \in Numbers /\ life[s] = "open"
      /\ UNCHANGED <<number, life, held, muted, recv, overtaken, data, todo, events, at, current>>
  BY Types DEF IInv, LivesSound, AddEvent
<1>2. LivesSound'
  BY <1>1, LivesKept DEF IInv
<1>3. CASE x = Loop
  <2>1. AddHere(s, number[s]) /\ queue' = queue
    BY <1>3 DEF AddEvent
  <2>2. /\ polled' \subseteq Sockets /\ ready' \subseteq Sockets /\ fresh' \subseteq Sockets
        /\ eventMap' \in [Numbers -> Sockets \union {None}]
    BY <1>1, <2>1, AddTypes DEF IInv
  <2>3. TypeOK'
    BY <1>1, <2>1, <2>2 DEF IInv, TypeOK
  <2>4. /\ EntriesSound' /\ fresh \subseteq fresh'
        /\ \A m \in Numbers : eventMap'[m] \in {eventMap[m]} \union overtaken' \union fresh'
    BY <1>1, <2>1, AddKeeps DEF IInv
  <2>5. TasksSound'
    BY <1>1, <2>1, TasksUntouched DEF IInv, TasksSound
  <2>6. BatchSound'
    BY <1>1, <2>4, BatchKept DEF IInv
  <2> QED
    BY <1>2, <2>3, <2>4, <2>5, <2>6 DEF IInv
<1>4. CASE x # Loop
  <2> DEFINE task == [op |-> "add", s |-> s, n |-> number[s]]
  <2>1. /\ queue' = Append(queue, task) /\ task \in Tasks
        /\ UNCHANGED <<polled, ready, eventMap, fresh>>
    BY <1>1, <1>4 DEF AddEvent, Tasks
  <2>2. /\ queue' \in Seq(Tasks) /\ DOMAIN queue' = DOMAIN queue \union {Len(queue) + 1}
        /\ \A i \in DOMAIN queue : queue'[i] = queue[i]
        /\ queue'[Len(queue) + 1] = task
    <3> HIDE DEF task
    <3> QED
      BY <2>1, Appended, Types DEF IInv
  <2>3. TypeOK'
    BY <1>1, <2>1, <2>2 DEF IInv, TypeOK
  <2>4. TasksSound'
    <3>1. \A i \in DOMAIN queue' : TaskSound(queue[i])'
      BY <1>1, <2>2 DEF IInv, TasksSound, TaskSound
    <3>2. \A i \in DOMAIN todo' : TaskSound(todo[i])'
      BY <1>1 DEF IInv, TasksSound, TaskSound
    <3>3. \A i, j \in DOMAIN queue' : SameDel(queue'[i], queue'[j]) => i = j
      BY <2>2 DEF IInv, TasksSound, SameDel
    <3>4. \A i \in DOMAIN queue', j \in DOMAIN todo' : ~SameDel(queue'[i], todo'[j])
      BY <1>1, <2>2 DEF IInv, TasksSound, SameDel
    <3> QED
      BY <1>1, <3>1, <3>2, <3>3, <3>4 DEF IInv, TasksSound, SameDel
  <2>5. EntriesSound'
    BY <1>1, <2>1, EntriesKept DEF IInv, EntriesSound
  <2>6. BatchSound'
    BY <1>1, <2>1, BatchKept DEF IInv
  <2> QED
    BY <1>2, <2>3, <2>4, <2>5, <2>6 DEF IInv
<1> QED
  BY <1>3, <1>4

LEMMA ReleaseKeeps ==
  ASSUME IInv, NEW x \in {Loop, Other}, NEW s \in Sockets, Release(x, s)
  PROVE  IInv'
<1> USE DEF userVars, loopVars
<1>1. /\ s \in held /\ held' = held \ {s} /\ number[s] \in Numbers /\ life[s] = "open"
      /\ UNCHANGED <<asked, muted, recv, fresh, todo, events, at, current>>
  BY Types DEF IInv, LivesSound, Release
<1>2. CASE current = s
  <2>1. UNCHANGED <<number, life, overtaken, data, polled, ready, eventMap, queue>>
    BY <1>2 DEF Release
  <2>2. TypeOK'
    BY <1>1, <2>1 DEF IInv, TypeOK
  <2>3. LivesSound' /\ TasksSound' /\ EntriesSound' /\ BatchSound'
    BY <1>1, <2>1, LivesKept, TasksUntouched, EntriesKept, BatchKept
       DEF IInv, TasksSound, EntriesSound
  <2> QED
    BY <2>2, <2>3 DEF IInv
<1>3. CASE current # s /\ x = Loop
  <2>1. CloseHere(s) /\ queue' = queue
    BY <1>3 DEF Release
  <2>2. TypeOK'
    <3>1. /\ polled' \subseteq Sockets /\ ready' \subseteq Sockets /\ data' \subseteq Sockets
          /\ overtaken' \subseteq Sockets
          /\ number' \in [Sockets -> Numbers \union {None}]
          /\ life' \in [Sockets -> {"new", "open", "leaving", "closed"}]
          /\ eventMap' \in [Numbers -> Sockets \union {None}]
      BY <1>1, <2>1, Types, CloseTypes DEF IInv
    <3> QED
      BY <1>1, <2>1, <3>1 DEF IInv, TypeOK
  <2>3. LivesSound'
    BY <1>1, <1>3, <2>1, Types, CloseLives DEF IInv, LivesSound
  <2>4. EntriesSound' /\ BatchSound'
    BY <1>1, <2>1, Types, CloseKeeps, BatchKept DEF IInv
  <2>5. TasksSound'
    <3>1. ASSUME NEW t \in Tasks,
                 \/ \E i \in DOMAIN queue : queue[i] = t
                 \/ \E i \in DOMAIN todo : todo[i] = t,
                 TaskSound(t)
          PROVE  TaskSound(t)'
      <4>1. ~(t.op = "del" /\ t.s = s)
        BY <1>1, <3>1 DEF TaskSound
      <4> QED
        BY <1>1, <2>1, <3>1, <4>1, Types, CloseTasks DEF IInv
    <3> QED
      BY <1>1, <2>1, <3>1, TasksKept DEF IInv, TasksSound
  <2> QED
    BY <2>2, <2>3, <2>4, <2>5 DEF IInv
<1>4. CASE current # s /\ x # Loop
  <2> DEFINE task == [op |-> "del", s |-> s, n |-> number[s]]
  <2>1. /\ queue' = Append(queue, task) /\ task \in Tasks
        /\ life' = [life EXCEPT ![s] = "leaving"]
        /\ UNCHANGED <<number, polled, ready, data, eventMap, overtaken>>
    BY <1>1, <1>4 DEF Release, Leave, Tasks
  <2>2. /\ queue' \in Seq(Tasks) /\ DOMAIN queue' = DOMAIN queue \union {Len(queue) + 1}
        /\ \A i \in DOMAIN queue : queue'[i] = queue[i]
        /\ queue'[Len(queue) + 1] = task
    <3> HIDE DEF task
    <3> QED
      BY <2>1, Appended, Types DEF IInv
  <2>3. TypeOK'
    BY <1>1, <2>1, <2>2 DEF IInv, TypeOK
  <2>4. LivesSound'
    BY <1>1, <1>4, <2>1, Types DEF IInv, LivesSound
  <2>5. TasksSound'
    <3>0. ASSUME NEW t \in Tasks, TaskSound(t)
          PROVE  TaskSound(t)' /\ ~SameDel(t, task)
      <4>1. t.s \in Sockets
        BY DEF Tasks
      <4> QED
        BY <1>1, <2>1, <3>0, <4>1, Types DEF IInv, TaskSound, SameDel
    <3>1. ASSUME NEW i \in DOMAIN queue', NEW t, t = queue'[i] PROVE TaskSound(t)'
      <4>1. CASE i \in DOMAIN queue
        BY <2>2, <3>0, <3>1, <4>1, Indices, Types DEF IInv, TasksSound
      <4>2. CASE i \notin DOMAIN queue
        BY <1>1, <2>1, <2>2, <3>1, <4>2, Types DEF IInv, TaskSound
      <4> QED
        BY <4>1, <4>2
    <3>2. ASSUME NEW i \in DOMAIN todo', NEW t, t = todo'[i] PROVE TaskSound(t)'
      BY <1>1, <3>0, <3>2, Indices, Types DEF IInv, TasksSound
    <3>3. \A i \in DOMAIN queue : ~SameDel(queue[i], task)
      BY <3>0, Indices, Types DEF IInv, TasksSound
    <3>4. \A i \in DOMAIN todo : ~SameDel(todo[i], task)
      BY <3>0, Indices, Types DEF IInv, TasksSound
    <3>5. \A i, j \in DOMAIN queue' : SameDel(queue'[i], queue'[j]) => i = j
      BY <2>2, <3>3 DEF IInv, TasksSound, SameDel
    <3>6. \A i \in DOMAIN queue', j \in DOMAIN todo' : ~SameDel(queue'[i], todo'[j])
      BY <1>1, <2>2, <3>4 DEF IInv, TasksSound, SameDel
    <3>7. \A i \in DOMAIN queue' : TaskSound(queue[i])'
      BY <3>1 DEF TaskSound
    <3>8. \A i \in DOMAIN todo' : TaskSound(todo[i])'
      BY <3>2 DEF TaskSound
    <3> QED
      BY <1>1, <3>5, <3>6, <3>7, <3>8 DEF IInv, TasksSound, SameDel
  <2>6. EntriesSound' /\ BatchSound'
    BY <1>1, <2>1, EntriesKept, BatchKept DEF IInv, EntriesSound
  <2> QED
    BY <2>3, <2>4, <2>5, <2>6 DEF IInv
<1> QED
  BY <1>2, <1>3, <1>4

LEMMA UserKeeps ==
  ASSUME IInv, NEW s \in Sockets, (\E enabled \in BOOLEAN : EnableRecv(s, enabled)) \/ Arrives(s)
  PROVE  IInv'
<1> USE DEF userVars, loopVars, socketVars
<1>1. /\ UNCHANGED <<number, life, held, asked, overtaken, polled, eventMap, queue, fresh, todo,
                     events, at, current>>
      /\ data' \subseteq data \union {s} /\ recv' \subseteq recv \union {s}
      /\ muted' \subseteq muted \union {s} /\ ready' \subseteq ready \union ({s} \intersect polled)
  BY DEF EnableRecv, Arrives
<1>2. TypeOK'
  BY <1>1 DEF IInv, TypeOK
<1>3. LivesSound' /\ TasksSound' /\ BatchSound'
  BY <1>1, LivesKept, TasksUntouched, BatchKept DEF IInv, TasksSound
<1>4. EntriesSound'
  <2>1. ready' \subseteq polled
    BY <1>1 DEF IInv, EntriesSound
  <2> QED
    BY <1>1, <2>1, EntriesKept DEF IInv
<1> QED
  BY <1>2, <1>3, <1>4 DEF IInv

(***************************************************************************)
(* The loop.                                                               *)
(***************************************************************************)
LEMMA ReadyFinite == ASSUME TypeOK PROVE IsFiniteSet(Pending)
<1> DEFINE E(s) == [n |-> number[s], s |-> s]
           image == {E(s) : s \in ready}
           f == [s \in ready |-> E(s)]
<1>1. IsFiniteSet(ready)
  <2>1. IsFiniteSet(Sockets) /\ ready \in SUBSET Sockets
    <3>1. MaxSockets \in Int /\ 1 \in Int
      OBVIOUS
    <3> QED
      BY <3>1, FS_Interval, Types DEF Sockets
  <2> QED
    BY <2>1, FS_Subset
<1>2. IsFiniteSet(image)
  <2>1. f \in Surjection(ready, image)
    <3>1. f \in [ready -> image]
      OBVIOUS
    <3>2. \A t \in image : \E s \in ready : f[s] = t
      OBVIOUS
    <3> QED
      BY <3>1, <3>2 DEF Surjection
  <2> QED
    BY <1>1, <2>1, FS_Surjection
<1> HIDE DEF f
<1>3. IsFiniteSet(image \union {[n |-> Pipe, s |-> None]})
  BY <1>2, FS_AddElement
<1>4. Pending = image \/ Pending = image \union {[n |-> Pipe, s |-> None]}
  BY DEF Pending
<1> QED
  BY <1>2, <1>3, <1>4

LEMMA Permuted ==
  ASSUME NEW S, IsFiniteSet(S), NEW f \in SetToSeqs(S)
  PROVE  f \in Seq(S)
<1>1. Cardinality(S) \in Nat
  BY FS_CardinalityType
<1>2. f \in [1 .. Cardinality(S) -> S]
  BY DEF SetToSeqs
<1> QED
  BY <1>1, <1>2, SeqDef

LEMMA WaitReturnsKeeps ==
  ASSUME IInv, WaitReturns
  PROVE  IInv'
<1> USE DEF userVars, loopVars, socketVars
<1>1. /\ events' \in SetToSeqs(Pending) /\ ready' = {} /\ fresh' = {} /\ at = "wait"
      /\ at' = "dispatch"
      /\ UNCHANGED <<number, life, held, asked, muted, recv, overtaken, data, polled, eventMap,
                     queue, todo, current>>
  BY DEF WaitReturns
<1>2. ASSUME NEW e \in Pending, e.n # Pipe
      PROVE  /\ e \in Events /\ e.s \in polled /\ e.n = number[e.s]
  BY <1>2, Types DEF Pending, Events, IInv, EntriesSound
<1>3. Pending \subseteq Events
  <2>1. \A s \in ready : [n |-> number[s], s |-> s] \in Events
    BY Types DEF IInv, EntriesSound, Events
  <2>2. [n |-> Pipe, s |-> None] \in Events
    BY DEF Events
  <2> QED
    BY <2>1, <2>2 DEF Pending
<1>4. events' \in Seq(Pending) /\ \A i \in DOMAIN events' : events'[i] \in Pending
  <2>1. events' \in Seq(Pending)
    BY <1>1, ReadyFinite, Permuted DEF IInv
  <2> QED
    BY <2>1, Indices
<1>5. events' \in Seq(Events)
  BY <1>3, <1>4, SeqMonotonic
<1>6. TypeOK'
  BY <1>1, <1>5 DEF IInv, TypeOK, Events
<1>7. LivesSound' /\ TasksSound'
  BY <1>1, LivesKept, TasksUntouched DEF IInv, TasksSound
<1>8. EntriesSound'
  BY <1>1, EntriesKept DEF IInv
<1>9. BatchSound'
  <2>1. ASSUME NEW i \in DOMAIN events', events'[i].n # Pipe
        PROVE  eventMap[events'[i].n] \in {None, events'[i].s} \union overtaken
    <3> DEFINE e == events'[i]
    <3>1. e \in Events /\ e.s \in polled /\ e.n = number[e.s] /\ e.s \in Sockets /\ e.n \in Numbers
      BY <1>2, <1>4, <2>1, Types DEF IInv, EntriesSound
    <3> HIDE DEF e
    <3>2. e.s \in FileAt(e.n) \intersect polled
      BY <3>1 DEF FileAt
    <3>3. eventMap[e.n] \in {None, e.s} \union overtaken
      BY <3>1, <3>2 DEF IInv, EntriesSound, EntrySound
    <3> QED
      BY <3>3 DEF e
  <2> QED
    BY <1>1, <2>1 DEF BatchSound, EventsOwn
<1> QED
  BY <1>6, <1>7, <1>8, <1>9 DEF IInv

(* The steps between callbacks and tasks.                                  *)
LEMMA LoopKeeps ==
  ASSUME IInv, EndBatch \/ EndTasks \/ DispatchMissing \/ DispatchPipe \/ Dispatch
  PROVE  IInv'
<1> USE DEF userVars, loopVars, socketVars
<1>0. /\ UNCHANGED <<number, life, held, asked, muted, recv, overtaken, eventMap, fresh>>
      /\ at # "callback"
  BY DEF EndBatch, EndTasks, DispatchMissing, DispatchPipe, Dispatch
<1>1. \A i \in DOMAIN events : events[i] \in Events
  BY Types, Indices DEF IInv
<1>2. events # <<>> =>
        /\ 1 \in DOMAIN events /\ events[1] = Head(events) /\ Tail(events) \in Seq(Events)
        /\ \A i \in DOMAIN Tail(events) : \E j \in DOMAIN events : Tail(events)[i] = events[j]
  BY Types, Indices DEF IInv
<1>3. CASE EndBatch \/ EndTasks
  <2>1. /\ at' # "callback" /\ (EndBatch => at = "dispatch") /\ (EndTasks => todo = <<>>)
        /\ at' \in {"wait", "dispatch"}
        /\ UNCHANGED <<data, polled, ready, queue, todo, events, current>>
    BY <1>3 DEF EndBatch, EndTasks
  <2>2. TypeOK'
    BY <1>0, <2>1 DEF IInv, TypeOK
  <2>3. todo = <<>>
    BY <1>3, <2>1 DEF IInv, TasksSound
  <2> QED
    BY <1>0, <2>1, <2>2, <2>3, LivesKept, TasksUntouched, EntriesKept, BatchKept
       DEF IInv, EntriesSound
<1>4. CASE DispatchMissing
  <2> DEFINE n == Head(events).n
  <2>1. /\ events # <<>> /\ n # Pipe /\ eventMap[n] = None /\ events' = Tail(events)
        /\ polled' = polled \ FileAt(n) /\ ready' = ready \ FileAt(n)
        /\ UNCHANGED <<data, queue, todo, at, current>> /\ at = "dispatch"
    BY <1>4 DEF DispatchMissing
  <2>2. n \in Numbers
    BY <1>1, <1>2, <2>1 DEF Events
  <2>3. FileAt(n) \intersect polled = {}
    BY <2>1 DEF IInv, EntriesSound, FileAt
  <2>4. polled' = polled /\ ready' \subseteq polled
    BY <2>1, <2>3 DEF IInv, EntriesSound
  <2>5. TypeOK'
    BY <1>0, <1>2, <2>1, <2>4 DEF IInv, TypeOK, Events
  <2> QED
    BY <1>0, <1>2, <2>1, <2>4, <2>5, LivesKept, TasksUntouched, EntriesKept, BatchKept
       DEF IInv, TasksSound
<1>5. CASE DispatchPipe
  <2>1. /\ events # <<>> /\ events' = Tail(events) /\ todo' = queue /\ queue' = <<>>
        /\ at = "dispatch" /\ at' = "tasks" /\ UNCHANGED <<data, polled, ready, current>>
    BY <1>5 DEF DispatchPipe
  <2>2. <<>> \in Seq(Tasks) /\ DOMAIN <<>> = {}
    BY Indices, Types DEF IInv
  <2>3. TypeOK'
    BY <1>0, <1>2, <2>1, <2>2 DEF IInv, TypeOK, Events
  <2>4. TasksSound'
    BY <1>0, <2>1, <2>2 DEF IInv, TasksSound, TaskSound, SameDel
  <2> QED
    BY <1>0, <1>2, <2>1, <2>3, <2>4, LivesKept, EntriesKept, BatchKept DEF IInv, EntriesSound
<1>6. CASE Dispatch
  <2> DEFINE n == Head(events).n
             s == eventMap[n]
  <2>1. /\ events # <<>> /\ n # Pipe /\ s # None /\ at = "dispatch"
        /\ UNCHANGED <<polled, ready, queue, todo>>
        /\ IF life[s] = "open"
           THEN /\ data' = data \ ({s} \intersect recv)
                /\ at' = "callback" /\ current' = s /\ UNCHANGED events
           ELSE events' = Tail(events) /\ UNCHANGED <<data, at, current>>
    BY <1>6 DEF Dispatch
  <2>2. n \in Numbers /\ s \in Sockets
    <3>1. n \in Numbers
      BY <1>1, <1>2, <2>1 DEF Events
    <3> QED
      BY <2>1, <3>1, Types DEF IInv
  <2>3. s \in {None, Head(events).s} \union overtaken \union fresh
    BY <1>2, <2>1 DEF IInv, BatchSound
  <2> HIDE DEF s, n
  <2>4. todo = <<>>
    BY <2>1 DEF IInv, TasksSound
  <2>5. TasksSound' /\ EntriesSound'
    BY <1>0, <2>1, <2>4, TasksUntouched, EntriesKept DEF IInv, EntriesSound
  <2>6. CASE life[s] = "open"
    <3>1. TypeOK'
      BY <1>0, <2>1, <2>2, <2>6 DEF IInv, TypeOK
    <3>2. LivesSound'
      BY <1>0, <2>1, <2>6 DEF IInv, LivesSound
    <3>3. s \notin overtaken
      BY <2>6 DEF IInv, LivesSound
    <3>4. BatchSound'
      BY <1>0, <2>1, <2>3, <2>6, <3>3 DEF IInv, BatchSound, EventsOwn
    <3> QED
      BY <2>5, <3>1, <3>2, <3>4 DEF IInv
  <2>7. CASE life[s] # "open"
    <3>0. events' = Tail(events) /\ UNCHANGED <<data, at, current>>
      BY <2>1, <2>7
    <3>1. TypeOK'
      BY <1>0, <1>2, <2>1, <3>0 DEF IInv, TypeOK, Events
    <3> QED
      BY <1>0, <1>2, <2>1, <2>5, <2>7, <3>1, LivesKept, BatchKept DEF IInv
  <2> QED
    BY <2>6, <2>7
<1> QED
  BY <1>3, <1>4, <1>5, <1>6

LEMMA CallbackReturnsKeeps ==
  ASSUME IInv, CallbackReturns
  PROVE  IInv'
<1> USE DEF userVars, loopVars, socketVars
<1>1. /\ at = "callback" /\ at' = "dispatch" /\ events' = Tail(events) /\ current' = None
      /\ UNCHANGED <<held, asked, muted, recv, queue, fresh, todo>>
      /\ current \in Sockets /\ number[current] # None /\ events # <<>> /\ todo = <<>>
      /\ life[current] = "open"
  BY Types DEF CallbackReturns, IInv, LivesSound, TasksSound
<1>2. /\ Tail(events) \in Seq(Events)
      /\ \A i \in DOMAIN Tail(events) : \E j \in DOMAIN events : Tail(events)[i] = events[j]
  BY <1>1, Types, Indices DEF IInv
<1>3. CASE current \in held
  <2>1. UNCHANGED <<number, life, overtaken, data, polled, ready, eventMap>>
    BY <1>3 DEF CallbackReturns
  <2>2. TypeOK'
    BY <1>1, <1>2, <2>1 DEF IInv, TypeOK, Events
  <2> QED
    BY <1>1, <1>2, <2>1, <2>2, LivesKept, TasksUntouched, EntriesKept, BatchKept
       DEF IInv, EntriesSound
<1>4. CASE current \notin held
  <2>1. CloseHere(current)
    BY <1>4 DEF CallbackReturns
  <2>2. TypeOK'
    <3>1. /\ polled' \subseteq Sockets /\ ready' \subseteq Sockets /\ data' \subseteq Sockets
          /\ overtaken' \subseteq Sockets
          /\ number' \in [Sockets -> Numbers \union {None}]
          /\ life' \in [Sockets -> {"new", "open", "leaving", "closed"}]
          /\ eventMap' \in [Numbers -> Sockets \union {None}]
      BY <1>1, <2>1, CloseTypes DEF IInv
    <3> QED
      BY <1>1, <1>2, <3>1 DEF IInv, TypeOK, Events
  <2>3. LivesSound'
    BY <1>1, <1>4, <2>1, CloseLives DEF IInv
  <2>4. EntriesSound' /\ BatchSound'
    BY <1>1, <1>2, <2>1, CloseKeeps, BatchKept DEF IInv
  <2>5. TasksSound'
    <3>1. ASSUME NEW t \in Tasks,
                 \/ \E i \in DOMAIN queue : queue[i] = t
                 \/ \E i \in DOMAIN todo : todo[i] = t,
                 TaskSound(t)
          PROVE  TaskSound(t)'
      <4>1. ~(t.op = "del" /\ t.s = current)
        BY <1>1, <3>1 DEF TaskSound
      <4> QED
        BY <1>1, <2>1, <3>1, <4>1, CloseTasks DEF IInv
    <3> QED
      BY <1>1, <3>1, TasksKept DEF IInv
  <2> QED
    BY <2>2, <2>3, <2>4, <2>5 DEF IInv
<1> QED
  BY <1>3, <1>4

LEMMA RunTaskKeeps ==
  ASSUME IInv, RunTask
  PROVE  IInv'
<1> USE DEF userVars, loopVars, socketVars
<1> DEFINE t == Head(todo)
<1>1. /\ at = "tasks" /\ todo # <<>> /\ todo' = Tail(todo)
      /\ UNCHANGED <<held, asked, muted, recv, queue, events, at, current>>
      /\ IF t.op = "add"
         THEN AddHere(t.s, t.n) /\ UNCHANGED <<number, life, overtaken, data>>
         ELSE CloseHere(t.s) /\ UNCHANGED fresh
  BY DEF RunTask
<1>2. /\ t \in Tasks /\ 1 \in DOMAIN todo /\ todo[1] = t /\ Tail(todo) \in Seq(Tasks)
      /\ \A i \in DOMAIN Tail(todo) :
           i + 1 \in DOMAIN todo /\ i + 1 # 1 /\ i \in Nat /\ Tail(todo)[i] = todo[i + 1]
      /\ \A i \in DOMAIN todo : todo[i] \in Tasks
      /\ \A i \in DOMAIN queue : queue[i] \in Tasks
  BY <1>1, Types, Indices DEF IInv
<1>3. t.s \in Sockets /\ t.n \in Numbers /\ t.op \in {"add", "del"} /\ TaskSound(t)
  BY <1>2 DEF Tasks, IInv, TasksSound
<1> HIDE DEF t
<1>4. ASSUME \A u \in Tasks :
               /\ \/ \E i \in DOMAIN queue : queue[i] = u
                  \/ \E i \in DOMAIN todo : i # 1 /\ todo[i] = u
               /\ TaskSound(u)
               => TaskSound(u)'
      PROVE  TasksSound'
  <2>1. ASSUME NEW i \in DOMAIN queue, NEW u, u = queue[i] PROVE TaskSound(u)'
    BY <1>2, <1>4, <2>1 DEF IInv, TasksSound
  <2>2. ASSUME NEW i \in DOMAIN todo, i # 1, NEW u, u = todo[i] PROVE TaskSound(u)'
    BY <1>2, <1>4, <2>2 DEF IInv, TasksSound
  <2>3. \A i \in DOMAIN queue' : TaskSound(queue[i])'
    BY <1>1, <2>1 DEF TaskSound
  <2>4. \A i \in DOMAIN todo' : TaskSound(todo[i])'
    <3>1. ASSUME NEW i \in DOMAIN Tail(todo), NEW u, u = Tail(todo)[i] PROVE TaskSound(u)'
      BY <1>2, <2>2, <3>1
    <3> QED
      BY <1>1, <3>1 DEF TaskSound
  <2>5. \A i, j \in DOMAIN todo' : SameDel(todo'[i], todo'[j]) => i = j
    <3>1. ASSUME NEW i \in DOMAIN Tail(todo), NEW j \in DOMAIN Tail(todo),
                 SameDel(Tail(todo)[i], Tail(todo)[j])
          PROVE  i = j
      <4>1. SameDel(todo[i + 1], todo[j + 1])
        BY <1>2, <3>1
      <4>2. i + 1 = j + 1
        BY <1>2, <4>1 DEF IInv, TasksSound
      <4> QED
        BY <1>2, <4>2
    <3> QED
      BY <1>1, <3>1
  <2>6. \A i \in DOMAIN queue', j \in DOMAIN todo' : ~SameDel(queue'[i], todo'[j])
    <3>1. ASSUME NEW i \in DOMAIN queue, NEW j \in DOMAIN Tail(todo)
          PROVE  ~SameDel(queue[i], Tail(todo)[j])
      BY <1>2 DEF IInv, TasksSound
    <3> QED
      BY <1>1, <3>1
  <2> QED
    BY <1>1, <2>3, <2>4, <2>5, <2>6 DEF IInv, TasksSound, SameDel
<1>5. CASE t.op = "add"
  <2>1. AddHere(t.s, t.n) /\ UNCHANGED <<number, life, overtaken, data>>
    BY <1>1, <1>5
  <2>2. number[t.s] = t.n \/ t.s \in overtaken
    BY <1>3, <1>5 DEF TaskSound
  <2>3. TypeOK'
    <3>1. /\ polled' \subseteq Sockets /\ ready' \subseteq Sockets /\ fresh' \subseteq Sockets
          /\ eventMap' \in [Numbers -> Sockets \union {None}]
      BY <1>3, <2>1, AddTypes DEF IInv
    <3> QED
      BY <1>1, <1>2, <2>1, <3>1 DEF IInv, TypeOK
  <2>4. /\ EntriesSound' /\ fresh \subseteq fresh'
        /\ \A m \in Numbers : eventMap'[m] \in {eventMap[m]} \union overtaken' \union fresh'
    BY <1>3, <2>1, <2>2, AddKeeps DEF IInv
  <2>5. LivesSound' /\ BatchSound'
    BY <1>1, <2>1, <2>4, LivesKept, BatchKept DEF IInv
  <2>6. TasksSound'
    <3>1. \A u \in Tasks : TaskSound(u) => TaskSound(u)'
      BY <2>1 DEF TaskSound
    <3> QED
      BY <1>4, <3>1
  <2> QED
    BY <2>3, <2>4, <2>5, <2>6 DEF IInv
<1>6. CASE t.op = "del"
  <2>1. CloseHere(t.s) /\ UNCHANGED fresh
    BY <1>1, <1>6
  <2>2. life[t.s] = "leaving" /\ number[t.s] # None /\ t.s \notin held /\ current # t.s
    BY <1>3, <1>6, Types DEF TaskSound, IInv, LivesSound
  <2>3. TypeOK'
    <3>1. /\ polled' \subseteq Sockets /\ ready' \subseteq Sockets /\ data' \subseteq Sockets
          /\ overtaken' \subseteq Sockets
          /\ number' \in [Sockets -> Numbers \union {None}]
          /\ life' \in [Sockets -> {"new", "open", "leaving", "closed"}]
          /\ eventMap' \in [Numbers -> Sockets \union {None}]
      BY <1>3, <2>1, <2>2, CloseTypes DEF IInv
    <3> QED
      BY <1>1, <1>2, <2>1, <3>1 DEF IInv, TypeOK
  <2>4. LivesSound'
    BY <1>1, <1>3, <2>1, <2>2, CloseLives DEF IInv
  <2>5. EntriesSound' /\ BatchSound'
    BY <1>1, <1>3, <2>1, <2>2, CloseKeeps, BatchKept DEF IInv
  <2>6. TasksSound'
    <3>1. ASSUME NEW u \in Tasks,
                 \/ \E i \in DOMAIN queue : queue[i] = u
                 \/ \E i \in DOMAIN todo : i # 1 /\ todo[i] = u,
                 TaskSound(u)
          PROVE  TaskSound(u)'
      <4>1. ~(u.op = "del" /\ u.s = t.s)
        BY <1>2, <1>6, <3>1 DEF IInv, TasksSound, SameDel
      <4> QED
        BY <1>3, <2>1, <2>2, <3>1, <4>1, CloseTasks DEF IInv
    <3> QED
      BY <1>4, <3>1
  <2> QED
    BY <2>3, <2>4, <2>5, <2>6 DEF IInv
<1> QED
  BY <1>3, <1>5, <1>6

(***************************************************************************)
(* The theorems.                                                           *)
(***************************************************************************)
LEMMA Initial == Init => IInv
<1> SUFFICES ASSUME Init PROVE IInv
  OBVIOUS
<1>1. TypeOK
  <2>1. <<>> \in Seq(Tasks) /\ <<>> \in Seq(Events)
    BY EmptySeq
  <2> QED
    BY <2>1 DEF Init, TypeOK, Events
<1>2. None \notin Sockets
  BY DEF Sockets
<1>3. DOMAIN <<>> = {}
  OBVIOUS
<1>4. LivesSound
  BY <1>2 DEF Init, LivesSound
<1>5. TasksSound
  BY <1>3 DEF Init, TasksSound
<1>6. EntriesSound
  BY DEF Init, EntriesSound, EntrySound
<1>7. BatchSound
  BY <1>3 DEF Init, BatchSound, EventsOwn
<1> QED
  BY <1>1, <1>4, <1>5, <1>6, <1>7 DEF IInv

(* The invariant holds in every reachable state, however addEvent and      *)
(* delEvent of other threads, the batch of epoll_wait and the callbacks    *)
(* interleave (EventPoller.cpp 112-202, 277-310).                          *)
THEOREM Invariance == Spec => []IInv
<1>1. IInv /\ [Next]_vars => IInv'
  <2> SUFFICES ASSUME IInv, [Next]_vars PROVE IInv'
    OBVIOUS
  <2>1. CASE LoopStep
    BY <2>1, WaitReturnsKeeps, LoopKeeps, CallbackReturnsKeeps, RunTaskKeeps DEF LoopStep
  <2>2. ASSUME NEW s \in Sockets,
               \/ \E n \in Numbers : Open(s, n)
               \/ \E x \in {Loop, Other} : AddEvent(x, s) \/ Release(x, s)
               \/ \E enabled \in BOOLEAN : EnableRecv(s, enabled)
               \/ Arrives(s)
        PROVE  IInv'
    BY <2>2, OpenKeeps, AddEventKeeps, ReleaseKeeps, UserKeeps
  <2>3. CASE UNCHANGED vars
    <3>1. TypeOK'
      BY <2>3 DEF IInv, TypeOK, vars, socketVars, userVars, loopVars
    <3> QED
      BY <2>3, <3>1, LivesKept, TasksUntouched, EntriesKept, BatchKept
         DEF IInv, TasksSound, EntriesSound, vars, socketVars, userVars, loopVars
  <2> QED
    BY <2>1, <2>2, <2>3 DEF Next, Quiet
<1> QED
  BY Initial, <1>1, PTL DEF Spec

(* Every variable of the poller's descriptor events keeps its type.        *)
THEOREM TypeCorrect == Spec => []TypeOK
<1>1. IInv => TypeOK
  BY DEF IInv
<1> QED
  BY Invariance, <1>1, PTL

(* epoll and _event_map name the same descriptors, and the callback under  *)
(* a number is that of the file that has it, however numbers are used      *)
(* again, except where a socket was dropped before its task of addEvent    *)
(* ran (addEvent, delEvent and ~SockFD).                                   *)
THEOREM RegistrationsAreSound == Spec => []RegistrationsSound
<1>1. IInv => RegistrationsSound
  BY DEF IInv, EntriesSound, EntrySound, RegistrationsSound
<1> QED
  BY Invariance, <1>1, PTL

(* A callback is called for an event of its own file, or for a file that   *)
(* was registered since epoll_wait returned (runLoop 294-308).             *)
THEOREM CallbacksOwnTheirEvents == Spec => []EventsOwn
<1>1. IInv => EventsOwn
  BY DEF IInv, BatchSound
<1> QED
  BY Invariance, <1>1, PTL
=============================================================================
