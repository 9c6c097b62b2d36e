-------------------------- MODULE UdpServerProofs --------------------------
(***************************************************************************)
(* Theorems about UdpServer, for every number of pollers, peers, datagrams *)
(* and runs of the timer.                                                  *)
(***************************************************************************)
EXTENDS UdpServer, SequenceTheorems, TLAPS

USE ConstantsAssumption

(***************************************************************************)
(* The inductive invariant.                                                *)
(***************************************************************************)

(* The map leads a peer to a session of its own.                           *)
MapToOwn == \A i \in Peers : map[i] # 0 => session[map[i]].peer = i

(* onError is called when the socket is closed, which it is once; until    *)
(* then the session is in the map, and afterwards until its thread, which  *)
(* called onError, erases it.                                              *)
OpenOrEnded ==
  \A s \in Sessions :
    \/ session[s].errors = 0 /\ Mapped(s)
    \/ /\ session[s].errors = 1 /\ ~session[s].open
       /\ Mapped(s) => ending[session[s].poller] = s

(* Between onError and the token's erase a thread does nothing else, and   *)
(* the entry to be erased is still that of the session that ends.          *)
EndsOnce ==
  \A p \in Pollers : ending[p] # 0 =>
    /\ at[p].op \in {"idle", "manage"}
    /\ session[ending[p]].poller = p /\ session[ending[p]].errors = 1
    /\ ~session[ending[p]].open /\ Mapped(ending[p])

(* Without sockets of other pollers a server makes its sessions itself.    *)
ServersOwn == ~elsewhere => \A s \in Sessions : session[s].server = session[s].poller

(* What is true of the place x of p's thread: only that thread erases p's  *)
(* sessions, so what it has found of them is there until it lets go; data  *)
(* are handled at home; and without sockets of other pollers nothing is    *)
(* done for another one.                                                   *)
PlaceSound(p, x) ==
  /\ x.op = "found" /\ session[x.s].poller = p => Mapped(x.s)
  /\ x.op = "dangling" => session[x.s].poller # p
  /\ x.op = "recv" => session[x.s].poller = p
  /\ ~elsewhere => /\ x.op \in {"look", "create"} => x.srv = p
                   /\ x.op \in {"found", "hand"} => ~x.here
                   /\ x.op # "astray"

(* What is true of a task of p's queue.                                    *)
TaskSound(p, t) ==
  /\ t.op = "recv" => session[t.s].poller = p
  /\ ~elsewhere => t.op # "create"

PlacesSound == \A p \in Pollers : PlaceSound(p, at[p])
TasksSound == \A p \in Pollers : \A i \in DOMAIN queue[p] : TaskSound(p, queue[p][i])

IInv ==
  /\ TypeOK /\ MapToOwn /\ OpenOrEnded /\ EndsOnce
  /\ ServersOwn /\ PlacesSound /\ TasksSound

Counted == rounds \in 0 .. MaxInputs /\ reading \in [Pollers -> 0 .. Len(session)]

SessionType == [peer : Peers, poller : Pollers, server : Pollers,
                open : BOOLEAN, errors : 0 .. 1]
PacketType == [peer : Peers, id : Peers, s : 0 .. Len(session), state : States]

(***************************************************************************)
(* What is sound of a place or a task stays so while sessions are added,   *)
(* none moves, and none of p's is erased.                                  *)
(***************************************************************************)
NoneMoves ==
  /\ elsewhere' = elsewhere
  /\ session' \in Seq(SessionType) /\ Len(session') >= Len(session)
  /\ Len(packet') \in Nat /\ Len(packet') >= Len(packet)
  /\ \A s \in Sessions : /\ session'[s].peer = session[s].peer
                         /\ session'[s].poller = session[s].poller
                         /\ session'[s].server = session[s].server

LEMMA Lengths ==
  ASSUME TypeOK
  PROVE  /\ session \in Seq(SessionType) /\ Len(session) \in Nat /\ Sessions = 1 .. Len(session)
         /\ packet \in Seq(PacketType) /\ Len(packet) \in Nat /\ DOMAIN packet = 1 .. Len(packet)
<1>1. session \in Seq(SessionType)
  BY DEF TypeOK, SessionType
<1>2. packet \in Seq(PacketType)
  BY DEF TypeOK, PacketType
<1> QED
  BY <1>1, <1>2, LenProperties DEF Sessions

LEMMA TypesGrow ==
  ASSUME TypeOK, NoneMoves, packet' \in Seq(PacketType')
  PROVE  /\ Sessions \subseteq Sessions' /\ Tasks \subseteq Tasks' /\ Places \subseteq Places'
         /\ 0 .. Len(session) \subseteq 0 .. Len(session')
         /\ DOMAIN packet \subseteq DOMAIN packet'
<1>1. Sessions \subseteq Sessions' /\ DOMAIN packet \subseteq DOMAIN packet'
  BY Lengths DEF NoneMoves, Sessions
<1>2. Jobs \subseteq Jobs'
  BY <1>1 DEF Jobs
<1>3. Recvs \subseteq Recvs'
  BY <1>1 DEF Recvs
<1>4. Tasks \subseteq Tasks'
  BY <1>1, <1>2, <1>3 DEF Tasks
<1>5. Places \subseteq Places'
  BY <1>1, <1>2, <1>3 DEF Places
<1> QED
  BY <1>1, <1>4, <1>5, Lengths DEF NoneMoves

(* The kinds of places and tasks.                                          *)
LEMMA PlaceKinds ==
  ASSUME NEW x \in Places
  PROVE  /\ x.op \in {"look", "create"} =>
              x \in [op : {"look", "create"}, k : DOMAIN packet, srv : Pollers]
         /\ x.op \in {"found", "hand"} =>
              x \in [op : {"found", "hand"}, k : DOMAIN packet, s : Sessions, here : BOOLEAN]
         /\ x.op \in {"dangling", "astray"} => x \in [op : {"dangling", "astray"}, s : Sessions]
         /\ x.op = "recv" => x \in Recvs
         /\ x.op = "manage" => x \in Jobs
  BY DEF Places, Idle, Jobs, Recvs

LEMMA TaskKinds ==
  ASSUME NEW t \in Tasks
  PROVE  /\ t.op = "create" => t \in [op : {"create"}, k : DOMAIN packet, srv : Pollers]
         /\ t.op = "recv" => t \in Recvs
         /\ t.op = "manage" => t \in Jobs
  BY DEF Tasks, Jobs, Recvs

LEMMA PlaceStays ==
  ASSUME NoneMoves, NEW p, NEW x \in Places, PlaceSound(p, x),
         \A s \in Sessions : session[s].poller = p /\ Mapped(s) /\ x.op = "found" => Mapped(s)'
  PROVE  PlaceSound(p, x)'
<1>1. x.op \in {"found", "dangling", "recv"} => x.s \in Sessions
  BY PlaceKinds DEF Recvs
<1> QED
  BY <1>1 DEF PlaceSound, NoneMoves

LEMMA TaskStays ==
  ASSUME NoneMoves, NEW p, NEW t \in Tasks, TaskSound(p, t)
  PROVE  TaskSound(p, t)'
<1>1. t.op = "recv" => t.s \in Sessions
  BY TaskKinds DEF Recvs
<1> QED
  BY <1>1 DEF TaskSound, NoneMoves

(***************************************************************************)
(* The queues: one task is taken from the front of one, or one is added.   *)
(***************************************************************************)
QueuesSound == queue \in [Pollers -> Seq(Tasks)] /\ TasksSound

LEMMA SeqGrows ==
  ASSUME NEW S, NEW T, S \subseteq T, NEW s \in Seq(S)
  PROVE  s \in Seq(T)
<1>1. Len(s) \in Nat /\ s \in [1 .. Len(s) -> S]
  BY LenProperties
<1>2. s \in [1 .. Len(s) -> T]
  BY <1>1
<1> QED
  BY <1>1, <1>2, SeqDef

LEMMA QueueElements ==
  ASSUME TypeOK, NEW p \in Pollers
  PROVE  /\ queue[p] \in Seq(Tasks)
         /\ \A i \in DOMAIN queue[p] : queue[p][i] \in Tasks
<1>1. queue[p] \in Seq(Tasks)
  BY DEF TypeOK
<1> QED
  BY <1>1, ElementOfSeq, LenProperties

LEMMA QueuesGrow ==
  ASSUME TypeOK, NoneMoves, packet' \in Seq(PacketType'), NEW q \in [Pollers -> Seq(Tasks)]
  PROVE  q \in [Pollers -> Seq(Tasks')]
<1>1. Tasks \subseteq Tasks'
  BY TypesGrow
<1>2. \A p \in Pollers : q[p] \in Seq(Tasks')
  BY <1>1, SeqGrows
<1> QED
  BY <1>2

LEMMA QueueKept ==
  ASSUME TypeOK, TasksSound, NoneMoves, packet' \in Seq(PacketType'), queue' = queue
  PROVE  QueuesSound'
<1>1. queue' \in [Pollers -> Seq(Tasks')]
  BY QueuesGrow DEF TypeOK
<1>2. ASSUME NEW p \in Pollers, NEW i \in DOMAIN queue[p]
      PROVE  TaskSound(p, queue[p][i])'
  <2>1. queue[p][i] \in Tasks
    BY QueueElements
  <2>2. TaskSound(p, queue[p][i])
    BY DEF TasksSound
  <2> QED
    BY <2>1, <2>2, TaskStays DEF TaskSound
<1> QED
  BY <1>1, <1>2 DEF QueuesSound, TasksSound

LEMMA Popped ==
  ASSUME TypeOK, TasksSound, NEW p \in Pollers, queue[p] # <<>>,
         NoneMoves, packet' \in Seq(PacketType'), queue' = [queue EXCEPT ![p] = Tail(@)]
  PROVE  /\ QueuesSound'
         /\ Head(queue[p]) \in Tasks /\ TaskSound(p, Head(queue[p]))
<1> DEFINE s == queue[p]
<1>1. s \in Seq(Tasks) /\ s # <<>>
  BY DEF TypeOK
<1>2. /\ Len(s) > 0 /\ Head(s) = s[1] /\ 1 \in DOMAIN s /\ s[1] \in Tasks
      /\ Tail(s) \in Seq(Tasks)
      /\ \A i \in DOMAIN Tail(s) : i + 1 \in DOMAIN s /\ Tail(s)[i] = s[i + 1]
  BY <1>1, HeadTailProperties
<1>3. queue' \in [Pollers -> Seq(Tasks)]
  BY <1>2 DEF TypeOK
<1>4. queue' \in [Pollers -> Seq(Tasks')]
  BY <1>3, QueuesGrow
<1>5. ASSUME NEW q \in Pollers, NEW i \in DOMAIN queue'[q]
      PROVE  TaskSound(q, queue[q][i])'
  <2>1. PICK j \in DOMAIN queue[q] : queue'[q][i] = queue[q][j]
    BY <1>2 DEF TypeOK
  <2>2. queue[q][j] \in Tasks
    BY QueueElements
  <2>3. TaskSound(q, queue[q][j])
    BY DEF TasksSound
  <2> QED
    BY <2>1, <2>2, <2>3, TaskStays DEF TaskSound
<1>6. TaskSound(p, Head(queue[p]))
  BY <1>2 DEF TasksSound
<1> QED
  BY <1>2, <1>4, <1>5, <1>6 DEF QueuesSound, TasksSound

LEMMA Posted ==
  ASSUME TypeOK, TasksSound, NEW p \in Pollers, NEW t \in Tasks',
         t.op = "recv" => session'[t.s].poller = p, ~elsewhere => t.op # "create",
         NoneMoves, packet' \in Seq(PacketType'), Post(p, t)
  PROVE  QueuesSound'
<1>1. queue \in [Pollers -> Seq(Tasks')]
  BY QueuesGrow DEF TypeOK
<1>2. Append(queue[p], t) \in Seq(Tasks')
  BY <1>1
<1>3. queue' \in [Pollers -> Seq(Tasks')]
  BY <1>1, <1>2 DEF Post
<1>4. ASSUME NEW q \in Pollers, NEW i \in DOMAIN queue'[q]
      PROVE  TaskSound(q, queue[q][i])'
  <2>1. CASE i \in DOMAIN queue[q] /\ queue'[q][i] = queue[q][i]
    <3>1. queue[q][i] \in Tasks
      BY <2>1, QueueElements
    <3>2. TaskSound(q, queue[q][i])
      BY <2>1 DEF TasksSound
    <3> QED
      BY <2>1, <3>1, <3>2, TaskStays DEF TaskSound
  <2>2. CASE q = p /\ queue'[q][i] = t
    BY <2>2 DEF TaskSound, NoneMoves
  <2>3. \/ i \in DOMAIN queue[q] /\ queue'[q][i] = queue[q][i]
        \/ q = p /\ queue'[q][i] = t
    <3>1. CASE q # p
      BY <3>1 DEF Post, TypeOK
    <3>2. CASE q = p
      <4>1. queue[p] \in Seq(Tasks') /\ queue'[p] = Append(queue[p], t)
        BY <1>1 DEF Post
      <4> QED
        BY <3>2, <4>1, AppendProperties
    <3> QED
      BY <3>1, <3>2
  <2> QED
    BY <2>1, <2>2, <2>3
<1> QED
  BY <1>3, <1>4 DEF QueuesSound, TasksSound

(***************************************************************************)
(* A thread that does not end a session goes from one place to another,    *)
(* and no session is touched.                                              *)
(***************************************************************************)
Moves(p) ==
  /\ at' \in [Pollers -> Places'] /\ PlaceSound(p, at[p])'
  /\ \A q \in Pollers \ {p} : at'[q] = at[q]

LEMMA ThreadMoved ==
  ASSUME IInv, NEW p \in Pollers, ending[p] = 0, Moves(p),
         UNCHANGED <<elsewhere, map, session, ending>>,
         packet' \in Seq(PacketType), Len(packet') >= Len(packet),
         QueuesSound', Counted'
  PROVE  IInv'
<1>0. NoneMoves
  BY Lengths, LenProperties DEF IInv, NoneMoves
<1>1. TypeOK'
  BY DEF IInv, TypeOK, QueuesSound, PacketType, Moves, Counted
<1>2. MapToOwn' /\ OpenOrEnded' /\ ServersOwn'
  BY DEF IInv, MapToOwn, OpenOrEnded, ServersOwn, Mapped, Sessions
<1>3. EndsOnce'
  BY DEF IInv, EndsOnce, Mapped, Moves
<1>4. ASSUME NEW q \in Pollers
      PROVE  PlaceSound(q, at[q])'
  <2>1. CASE q = p
    BY <2>1 DEF Moves
  <2>2. CASE q # p
    <3>1. at[q] \in Places /\ PlaceSound(q, at[q]) /\ at'[q] = at[q]
      BY <2>2 DEF IInv, TypeOK, PlacesSound, Moves
    <3>2. \A s \in Sessions : Mapped(s) => Mapped(s)'
      BY DEF Mapped
    <3> QED
      BY <1>0, <3>1, <3>2, PlaceStays DEF PlaceSound
  <2> QED
    BY <2>1, <2>2
<1> QED
  BY <1>1, <1>2, <1>3, <1>4 DEF IInv, PlacesSound, QueuesSound

LEMMA Unmoved ==
  ASSUME TypeOK, UNCHANGED <<elsewhere, session>>,
         packet' \in Seq(PacketType), Len(packet') >= Len(packet)
  PROVE  NoneMoves /\ packet' \in Seq(PacketType') /\ Sessions' = Sessions
<1>1. PacketType' = PacketType /\ Sessions' = Sessions
  BY DEF PacketType, Sessions
<1>2. Len(packet') \in Nat
  BY LenProperties
<1>3. NoneMoves
  BY <1>2, Lengths DEF NoneMoves
<1> QED
  BY <1>1, <1>3

LEMMA WentTo ==
  ASSUME TypeOK, NoneMoves, packet' \in Seq(PacketType'), NEW p \in Pollers,
         NEW x, x \in Places', at' = [at EXCEPT ![p] = x]
  PROVE  /\ at' \in [Pollers -> Places'] /\ at'[p] = x
         /\ \A q \in Pollers \ {p} : at'[q] = at[q]
<1>1. at \in [Pollers -> Places']
  BY TypesGrow DEF TypeOK
<1> QED
  BY <1>1

(* A datagram is received: by a server's socket or by a session's.         *)
LEMMA Received1 ==
  ASSUME TypeOK, NEW peer \in Peers, NEW s \in 0 .. Len(session), NEW id \in Peers,
         NEW w \in States, Receive(peer, id, s, w)
  PROVE  /\ packet' \in Seq(PacketType) /\ Len(packet') >= Len(packet)
         /\ Len(packet') \in DOMAIN packet'
<1> DEFINE new == [peer |-> peer, id |-> id, s |-> s, state |-> w]
<1>1. new \in PacketType
  BY DEF PacketType
<1>2. packet' = Append(packet, new) /\ packet \in Seq(PacketType) /\ Len(packet) \in Nat
  BY Lengths DEF Receive
<1> HIDE DEF new
<1> QED
  BY <1>1, <1>2, AppendProperties

LEMMA ServerReadsKeeps ==
  ASSUME IInv, NEW p \in Pollers, NEW peer \in Peers, ServerReads(p, peer)
  PROVE  IInv'
<1> DEFINE x == [op |-> "look", k |-> Len(packet'), srv |-> p]
<1>0. /\ TypeOK /\ TasksSound /\ Receive(peer, peer, 0, "under way") /\ ending[p] = 0
      /\ at' = [at EXCEPT ![p] = x]
      /\ UNCHANGED <<elsewhere, map, session, queue, ending, reading, rounds>>
      /\ Counted'
  BY DEF Counted, IInv, ServerReads, MayRun, MayStart, Goto, TypeOK, States
<1>1. /\ packet' \in Seq(PacketType) /\ Len(packet') >= Len(packet)
      /\ Len(packet') \in DOMAIN packet'
  <2>1. 0 \in 0 .. Len(session) /\ "under way" \in States
    <3>1. Len(session) \in Nat
      BY <1>0, Lengths
    <3> QED
      BY <3>1 DEF States
  <2> QED
    BY <1>0, <2>1, Received1
<1>2. NoneMoves /\ packet' \in Seq(PacketType')
  BY <1>0, <1>1, Unmoved
<1>3. x \in Places'
  BY <1>1 DEF Places
<1>4. Moves(p)
  BY <1>0, <1>2, <1>3, WentTo DEF Moves, PlaceSound
<1>5. QueuesSound'
  BY <1>0, <1>2, QueueKept
<1> QED
  BY <1>0, <1>1, <1>4, <1>5, ThreadMoved

LEMMA SessionReadsKeeps ==
  ASSUME IInv, NEW p \in Pollers, NEW s \in Sessions, NEW peer \in Peers,
         SessionReads(p, s, peer)
  PROVE  IInv'
<1> DEFINE id == session[s].peer
           x == [op |-> "recv", k |-> Len(packet'), s |-> s]
           y == [op |-> "look", k |-> Len(packet'), srv |-> session[s].server]
<1>0. /\ TypeOK /\ TasksSound /\ ending[p] = 0 /\ session[s].poller = p
      /\ reading' = [reading EXCEPT ![p] = s]
      /\ UNCHANGED <<elsewhere, map, session, queue, ending, rounds>>
  BY DEF IInv, SessionReads, MayRun
<1>s. s \in 0 .. Len(session) /\ 0 \in 0 .. Len(session) /\ session[s] \in SessionType
  BY <1>0, Lengths, ElementOfSeq
<1>i. id \in Peers /\ session[s].server \in Pollers
  BY <1>s DEF SessionType
<1>c. Counted'
  BY <1>0, <1>s DEF Counted, TypeOK
<1>w. "under way" \in States /\ "lost" \in States
  BY DEF States
<1>1. /\ packet' \in Seq(PacketType) /\ Len(packet') >= Len(packet)
      /\ Len(packet') \in DOMAIN packet'
  <2>1. \/ Receive(peer, id, s, "under way") \/ Receive(peer, id, s, "lost")
        \/ Receive(peer, id, 0, "under way")
    BY DEF SessionReads
  <2> HIDE DEF id
  <2> QED
    BY <1>0, <1>s, <1>i, <1>w, <2>1, Received1
<1>2. NoneMoves /\ packet' \in Seq(PacketType') /\ Sessions' = Sessions
  BY <1>0, <1>1, Unmoved
<1>3. QueuesSound'
  BY <1>0, <1>2, QueueKept
<1>4. CASE peer = id /\ at' = [at EXCEPT ![p] = x]
  <2>1. x \in Recvs'
    BY <1>1, <1>2 DEF Recvs
  <2>2. x \in Places'
    BY <2>1 DEF Places
  <2>3. at'[p] = x /\ at' \in [Pollers -> Places'] /\ \A q \in Pollers \ {p} : at'[q] = at[q]
    BY <1>0, <1>2, <1>4, <2>2, WentTo
  <2>4. Moves(p)
    BY <1>0, <2>3 DEF Moves, PlaceSound
  <2> QED
    BY <1>0, <1>1, <1>3, <1>c, <2>4, ThreadMoved
<1>5. CASE at' = at
  <2>1. at' \in [Pollers -> Places']
    BY <1>0, <1>2, <1>5, TypesGrow DEF TypeOK
  <2>2. at[p].op = "idle"
    BY DEF SessionReads, MayRun
  <2>3. Moves(p)
    BY <1>5, <2>1, <2>2 DEF Moves, PlaceSound
  <2> QED
    BY <1>0, <1>1, <1>3, <1>c, <2>3, ThreadMoved
<1>6. CASE at' = [at EXCEPT ![p] = y]
  <2>1. y \in Places'
    BY <1>1, <1>i DEF Places
  <2>2. at'[p] = y /\ at' \in [Pollers -> Places'] /\ \A q \in Pollers \ {p} : at'[q] = at[q]
    BY <1>0, <1>2, <1>6, <2>1, WentTo
  <2>3. ~elsewhere => session[s].server = p
    BY <1>0 DEF IInv, ServersOwn
  <2>4. Moves(p)
    BY <1>0, <2>2, <2>3 DEF Moves, PlaceSound
  <2> QED
    BY <1>0, <1>1, <1>3, <1>c, <2>4, ThreadMoved
<1> QED
  BY <1>4, <1>5, <1>6 DEF SessionReads, Goto

(* A thread that stays idle.                                               *)
LEMMA ReadReturnsKeeps ==
  ASSUME IInv, NEW p \in Pollers, ReadReturns(p)
  PROVE  IInv'
<1>0. /\ TypeOK /\ TasksSound /\ ending[p] = 0 /\ at[p].op = "idle"
      /\ reading' = [reading EXCEPT ![p] = 0]
      /\ UNCHANGED <<elsewhere, map, session, packet, queue, at, ending, rounds>>
  BY DEF IInv, ReadReturns, MayRun
<1>1. packet' \in Seq(PacketType) /\ Len(packet') >= Len(packet) /\ 0 \in 0 .. Len(session)
  BY <1>0, Lengths
<1>2. Counted'
  BY <1>0, <1>1 DEF Counted, TypeOK
<1>3. NoneMoves /\ packet' \in Seq(PacketType')
  BY <1>0, <1>1, Unmoved
<1>4. at' \in [Pollers -> Places']
  BY <1>0, <1>3, TypesGrow DEF TypeOK
<1>5. Moves(p)
  BY <1>0, <1>4 DEF Moves, PlaceSound
<1>6. QueuesSound'
  BY <1>0, <1>3, QueueKept
<1> QED
  BY <1>0, <1>1, <1>2, <1>5, <1>6, ThreadMoved

LEMMA LookUpKeeps ==
  ASSUME IInv, NEW p \in Pollers, LookUp(p)
  PROVE  IInv'
<1> DEFINE s == map[packet[at[p].k].id]
           x == IF s # 0 THEN [op |-> "found", k |-> at[p].k, s |-> s, here |-> FALSE]
                ELSE [at[p] EXCEPT !.op = "create"]
<1>0. /\ TypeOK /\ TasksSound /\ ending[p] = 0 /\ at[p].op = "look"
      /\ at' = [at EXCEPT ![p] = x]
      /\ UNCHANGED <<elsewhere, map, session, packet, queue, ending, reading, rounds>>
      /\ Counted'
  BY DEF Counted, IInv, LookUp, MayRun, MayStart, Goto, TypeOK, States
<1>1. NoneMoves /\ packet' \in Seq(PacketType') /\ Sessions' = Sessions
  BY <1>0, Lengths, Unmoved
<1>2. at[p] \in [op : {"look", "create"}, k : DOMAIN packet, srv : Pollers]
  BY <1>0, PlaceKinds DEF TypeOK
<1>p. packet[at[p].k].id \in Peers
  <2>1. packet[at[p].k] \in PacketType
    BY <1>0, <1>2, Lengths, ElementOfSeq
  <2> QED
    BY <2>1 DEF PacketType
<1>3. s # 0 => s \in Sessions /\ Mapped(s)
  <2>1. s \in 0 .. Len(session)
    BY <1>0, <1>p DEF TypeOK
  <2>2. s # 0 => session[s].peer = packet[at[p].k].id
    BY <1>p DEF IInv, MapToOwn
  <2>3. map[packet[at[p].k].id] = s
    OBVIOUS
  <2> HIDE DEF s
  <2>4. s # 0 => s \in 1 .. Len(session)
    BY <1>0, <2>1, Lengths
  <2> QED
    BY <1>0, <2>2, <2>3, <2>4, Lengths DEF Mapped
<1>4. x \in Places'
  <2>1. CASE s # 0
    BY <1>0, <1>1, <1>2, <1>3, <2>1 DEF Places
  <2>2. CASE s = 0
    BY <1>0, <1>2, <2>2 DEF Places
  <2> QED
    BY <2>1, <2>2
<1>5. at'[p] = x /\ at' \in [Pollers -> Places'] /\ \A q \in Pollers \ {p} : at'[q] = at[q]
  BY <1>0, <1>1, <1>4, WentTo
<1>6. PlaceSound(p, at[p])'
  <2>1. CASE s # 0
    <3>1. s \in Sessions /\ map'[session'[s].peer] = s
      BY <1>0, <1>3, <2>1 DEF Mapped
    <3>2. at'[p].op = "found" /\ at'[p].s = s /\ at'[p].here = FALSE
      BY <1>5, <2>1
    <3> HIDE DEF s
    <3> QED
      BY <3>1, <3>2 DEF PlaceSound, Mapped
  <2>2. CASE s = 0
    <3>1. at'[p].op = "create" /\ at'[p].srv = at[p].srv
      BY <1>2, <1>5, <2>2
    <3>2. ~elsewhere => at[p].srv = p
      BY <1>0 DEF IInv, PlacesSound, PlaceSound
    <3> QED
      BY <1>0, <3>1, <3>2 DEF PlaceSound
  <2> QED
    BY <2>1, <2>2
<1>7. QueuesSound'
  BY <1>0, <1>1, QueueKept
<1>8. packet' \in Seq(PacketType) /\ Len(packet') >= Len(packet)
  BY <1>0, Lengths
<1> HIDE DEF x, s
<1> QED
  BY <1>0, <1>5, <1>6, <1>7, <1>8, ThreadMoved DEF Moves

(***************************************************************************)
(* createSession: a session is added for a peer without one, or the one    *)
(* that is there is taken.                                                 *)
(***************************************************************************)
LEMMA Added ==
  ASSUME IInv, NEW p \in Pollers, NEW k \in DOMAIN packet, NEW srv \in Pollers,
         NEW here, CreateSession(p, k, srv, here),
         UNCHANGED <<elsewhere, packet>>
  PROVE  /\ NoneMoves /\ packet' \in Seq(PacketType')
         /\ \/ map[packet[k].id] # 0 /\ UNCHANGED <<map, session>>
            \/ /\ map[packet[k].id] = 0
               /\ \E bound \in BOOLEAN :
                    session' = Append(session, [peer |-> packet[k].id, poller |-> p,
                                 server |-> srv, open |-> bound, errors |-> 0])
               /\ map' = [map EXCEPT ![packet[k].id] = Len(session) + 1]
         /\ packet[k].id \in Peers
<1> DEFINE peer == packet[k].id
           new(bound) == [peer |-> peer, poller |-> p, server |-> srv, open |-> bound,
                          errors |-> 0]
<1>0. TypeOK
  BY DEF IInv
<1>1. packet[k] \in PacketType
  BY <1>0, Lengths, ElementOfSeq
<1>2. peer \in Peers
  BY <1>1 DEF PacketType
<1>3. \A bound \in BOOLEAN : new(bound) \in SessionType
  BY <1>2 DEF SessionType
<1>4. CASE map[peer] # 0
  <2>1. UNCHANGED <<map, session>>
    BY <1>4 DEF CreateSession
  <2>2. packet' \in Seq(PacketType) /\ Len(packet') >= Len(packet)
    BY <1>0, Lengths
  <2> QED
    BY <1>0, <1>2, <1>4, <2>1, <2>2, Unmoved
<1>5. CASE map[peer] = 0
  <2>1. PICK bound \in BOOLEAN :
          session' = Append(session, new(bound)) /\ map' = [map EXCEPT ![peer] = Len(session) + 1]
    BY <1>5 DEF CreateSession
  <2>2. session \in Seq(SessionType) /\ Len(session) \in Nat
    BY <1>0, Lengths
  <2> HIDE DEF new
  <2>3. /\ session' \in Seq(SessionType) /\ Len(session') = Len(session) + 1
        /\ \A s \in 1 .. Len(session) : session'[s] = session[s]
    BY <1>3, <2>1, <2>2, AppendProperties
  <2>4. NoneMoves
    BY <1>0, <2>2, <2>3, Lengths DEF NoneMoves
  <2>5. packet' \in Seq(PacketType')
    <3>1. 0 .. Len(session) \subseteq 0 .. Len(session')
      BY <2>2, <2>3
    <3>2. PacketType \subseteq PacketType'
      BY <3>1 DEF PacketType
    <3> QED
      BY <1>0, <3>2, Lengths, SeqGrows
  <2> QED
    BY <1>2, <1>5, <2>1, <2>4, <2>5 DEF new
<1> QED
  BY <1>4, <1>5

LEMMA CreateSessionKeeps ==
  ASSUME IInv, NEW p \in Pollers, NEW k \in DOMAIN packet, NEW srv \in Pollers,
         NEW here, here \in BOOLEAN, ~elsewhere => srv = p /\ here = FALSE, ending[p] = 0,
         CreateSession(p, k, srv, here),
         UNCHANGED <<elsewhere, packet, ending, reading, rounds>>, QueuesSound'
  PROVE  IInv'
<1> DEFINE peer == packet[k].id
           n == Len(session) + 1
           t == IF map[peer] # 0 THEN map[peer] ELSE n
           x == [op |-> "found", k |-> k, s |-> t, here |-> here]
<1>0. /\ TypeOK /\ Counted
      /\ at' = [at EXCEPT ![p] = x]
  BY DEF IInv, TypeOK, CreateSession, Goto, Counted
<1>1. NoneMoves /\ packet' \in Seq(PacketType') /\ peer \in Peers
  BY Added
<1>l. /\ Len(session) \in Nat /\ Sessions = 1 .. Len(session) /\ session \in Seq(SessionType)
      /\ packet \in Seq(PacketType) /\ map \in [Peers -> 0 .. Len(session)]
      /\ ending \in [Pollers -> 0 .. Len(session)]
  BY <1>0, Lengths DEF TypeOK
<1>2. CASE map[peer] # 0
  <2>1. UNCHANGED <<map, session>> /\ t = map[peer]
    BY <1>2, Added
  <2> HIDE DEF t
  <2>2. t \in Sessions' /\ map'[session'[t].peer] = t
    <3>1. t # 0 /\ t \in Sessions /\ map[peer] = t
      BY <1>1, <1>2, <1>l, <2>1
    <3>2. session[t].peer = peer
      BY <1>1, <1>2, <2>1 DEF IInv, MapToOwn
    <3> QED
      BY <2>1, <3>1, <3>2 DEF Sessions
  <2>3. x \in Places'
    BY <2>1, <2>2 DEF Places
  <2>4. at'[p] = x /\ at' \in [Pollers -> Places'] /\ \A q \in Pollers \ {p} : at'[q] = at[q]
    BY <1>0, <1>1, <2>3, WentTo
  <2>5. Moves(p)
    BY <2>2, <2>4 DEF Moves, PlaceSound, Mapped
  <2>6. Counted'
    BY <1>0, <2>1 DEF Counted
  <2> HIDE DEF x, peer
  <2> QED
    BY <2>6, <1>0, <1>l, <2>1, <2>5, ThreadMoved
<1>3. CASE map[peer] = 0
  <2>0. PICK bound \in BOOLEAN :
          session' = Append(session, [peer |-> peer, poller |-> p, server |-> srv,
                                      open |-> bound, errors |-> 0])
    BY <1>3, Added
  <2> DEFINE new == [peer |-> peer, poller |-> p, server |-> srv, open |-> bound, errors |-> 0]
  <2>1. session' = Append(session, new) /\ map' = [map EXCEPT ![peer] = n] /\ t = n
    BY <1>3, <2>0, Added
  <2>2. new \in SessionType
    BY <1>1 DEF SessionType
  <2> HIDE DEF t
  <2>3. /\ session' \in Seq(SessionType) /\ Len(session') = n
        /\ session'[n] = new /\ \A s \in Sessions : session'[s] = session[s]
        /\ Sessions' = Sessions \union {n} /\ n \notin Sessions
    <3> HIDE DEF new
    <3>1. /\ session' \in Seq(SessionType) /\ Len(session') = n
          /\ session'[n] = new /\ \A s \in 1 .. Len(session) : session'[s] = session[s]
      BY <1>l, <2>1, <2>2, AppendProperties
    <3>2. Sessions' = 1 .. n
      BY <3>1, LenProperties DEF Sessions
    <3>3. Sessions' = Sessions \union {n} /\ n \notin Sessions /\ Sessions = 1 .. Len(session)
      BY <1>l, <3>2
    <3> HIDE DEF n
    <3> QED
      BY <3>1, <3>3
  <2>4. \A s \in Sessions : Mapped(s) <=> (Mapped(s)' /\ s # n)
    <3> SUFFICES ASSUME NEW s \in Sessions PROVE Mapped(s) <=> Mapped(s)'
      BY <2>3
    <3>1. s # 0 /\ s # n /\ session'[s] = session[s]
      BY <1>l, <2>3
    <3>2. session[s].peer \in Peers
      <4>1. session[s] \in SessionType
        BY <1>l, ElementOfSeq
      <4> QED
        BY <4>1 DEF SessionType
    <3> QED
      BY <1>1, <1>3, <1>l, <2>1, <3>1, <3>2 DEF Mapped
  <2>5. map'[session'[n].peer] = n
    <3>1. session'[n].peer = peer
      BY <2>3
    <3>2. map'[peer] = n
      BY <1>1, <1>l, <2>1
    <3> HIDE DEF n, peer
    <3> QED
      BY <3>1, <3>2
  <2>6. MapToOwn'
    <3> SUFFICES ASSUME NEW i \in Peers, map'[i] # 0
                 PROVE  session'[map'[i]].peer = i
      BY DEF MapToOwn
    <3>1. CASE i = peer
      BY <1>l, <2>1, <2>3, <3>1
    <3>2. CASE i # peer
      <4>1. map'[i] = map[i] /\ map[i] \in Sessions
        BY <1>l, <2>1, <3>2
      <4> QED
        BY <2>3, <4>1 DEF IInv, MapToOwn
    <3> QED
      BY <3>1, <3>2
  <2>7. OpenOrEnded'
    <3> SUFFICES ASSUME NEW s \in Sessions'
                 PROVE  \/ session'[s].errors = 0 /\ Mapped(s)'
                        \/ /\ session'[s].errors = 1 /\ ~session'[s].open
                           /\ Mapped(s)' => ending'[session'[s].poller] = s
      BY DEF OpenOrEnded, Mapped
    <3>1. CASE s = n
      <4>1. session'[s].errors = 0
        BY <2>3, <3>1
      <4> QED
        BY <2>5, <3>1, <4>1 DEF Mapped
    <3>2. CASE s \in Sessions
      BY <2>3, <2>4, <3>2 DEF IInv, OpenOrEnded
    <3> QED
      BY <2>3, <3>1, <3>2
  <2>8. ServersOwn'
    BY <2>3 DEF IInv, ServersOwn
  <2>9. x \in Places'
    BY <1>l, <2>1, <2>3 DEF Places
  <2>10. at'[p] = x /\ at' \in [Pollers -> Places'] /\ \A q \in Pollers \ {p} : at'[q] = at[q]
    BY <1>0, <1>1, <2>9, WentTo
  <2>11. EndsOnce'
    <3> SUFFICES ASSUME NEW q \in Pollers, ending[q] # 0
                 PROVE  /\ at'[q].op \in {"idle", "manage"}
                        /\ session'[ending[q]].poller = q
                        /\ session'[ending[q]].errors = 1
                        /\ ~session'[ending[q]].open /\ Mapped(ending[q])'
      BY DEF EndsOnce, Mapped
    <3>1. q # p /\ ending[q] \in Sessions
      BY <1>l
    <3> QED
      BY <2>3, <2>4, <2>10, <3>1 DEF IInv, EndsOnce, Mapped
  <2>12. PlacesSound'
    <3> SUFFICES ASSUME NEW q \in Pollers PROVE PlaceSound(q, at[q])'
      BY DEF PlacesSound
    <3>1. CASE q = p
      <4>1. at'[p].op = "found" /\ at'[p].s = t /\ at'[p].here = here
        BY <2>10
      <4>2. map'[session'[t].peer] = t
        BY <2>1, <2>5
      <4> HIDE DEF x
      <4> QED
        BY <3>1, <4>1, <4>2 DEF PlaceSound, Mapped
    <3>2. CASE q # p
      <4>1. at[q] \in Places /\ PlaceSound(q, at[q]) /\ at'[q] = at[q]
        BY <1>0, <2>10, <3>2 DEF IInv, TypeOK, PlacesSound
      <4> QED
        BY <1>1, <2>4, <4>1, PlaceStays DEF PlaceSound
    <3> QED
      BY <3>1, <3>2
  <2>13. TypeOK'
    <3>1. session' \in Seq([peer : Peers, poller : Pollers, server : Pollers,
                            open : BOOLEAN, errors : 0 .. 1])
      BY <2>3 DEF SessionType
    <3>2. map' \in [Peers -> 0 .. Len(session')]
      <4>1. n \in 0 .. n /\ 0 .. Len(session) \subseteq 0 .. n /\ Len(session') = n
        BY <1>l, <2>3
      <4> HIDE DEF n
      <4> QED
        BY <1>l, <2>1, <4>1
    <3>3. packet' \in Seq([peer : Peers, id : Peers, s : 0 .. Len(session'), state : States])
      BY <1>1 DEF PacketType
    <3>4. ending' \in [Pollers -> 0 .. Len(session')]
      BY <1>l, <2>3
    <3>5. Counted'
      <4>1. 0 .. Len(session) \subseteq 0 .. Len(session')
        BY <1>l, <2>3
      <4> QED
        BY <1>0, <4>1 DEF Counted
    <3> QED
      BY <1>0, <2>10, <3>1, <3>2, <3>3, <3>4, <3>5 DEF TypeOK, QueuesSound, Counted
  <2> QED
    BY <2>6, <2>7, <2>8, <2>11, <2>12, <2>13 DEF IInv, QueuesSound
<1> QED
  BY <1>2, <1>3

LEMMA CreateKeeps ==
  ASSUME IInv, NEW p \in Pollers, Create(p)
  PROVE  IInv'
<1>0. /\ TypeOK /\ TasksSound /\ ending[p] = 0 /\ at[p].op = "create"
      /\ UNCHANGED <<elsewhere, packet, ending, reading, rounds>> /\ Counted
  BY DEF Counted, IInv, Create, MayRun, MayStart, TypeOK
<1>1. at[p].k \in DOMAIN packet /\ at[p].srv \in Pollers
  <2>1. at[p] \in Places
    BY <1>0 DEF TypeOK
  <2>2. at[p] \in [op : {"look", "create"}, k : DOMAIN packet, srv : Pollers]
    BY <1>0, <2>1, PlaceKinds
  <2> QED
    BY <2>2
<1>2. ~elsewhere => at[p].srv = p
  BY <1>0 DEF IInv, PlacesSound, PlaceSound
<1>3. CASE CreateSession(p, at[p].k, at[p].srv, FALSE) /\ queue' = queue
  <2>1. NoneMoves /\ packet' \in Seq(PacketType')
    BY <1>0, <1>1, <1>3, Added
  <2>2. QueuesSound'
    BY <1>0, <1>3, <2>1, QueueKept
  <2> QED
    BY <1>0, <1>1, <1>2, <1>3, <2>2, CreateSessionKeeps
<1>4. ASSUME NEW q \in IF elsewhere THEN Pollers ELSE {at[p].srv}, q # p,
             Post(q, [op |-> "create", k |-> at[p].k, srv |-> at[p].srv]),
             Goto(p, Idle), UNCHANGED <<map, session>>
      PROVE  IInv'
  <2> DEFINE t == [op |-> "create", k |-> at[p].k, srv |-> at[p].srv]
  <2>1. elsewhere /\ q \in Pollers
    BY <1>1, <1>2, <1>4
  <2>2. packet' \in Seq(PacketType) /\ Len(packet') >= Len(packet)
    BY <1>0, Lengths
  <2>3. NoneMoves /\ packet' \in Seq(PacketType')
    BY <1>0, <1>4, <2>2, Unmoved
  <2>4. t \in Tasks' /\ Post(q, t)
    BY <1>0, <1>1, <1>4 DEF Tasks
  <2>5. t.op # "recv" /\ elsewhere
    BY <2>1
  <2> HIDE DEF t
  <2>6. QueuesSound'
    BY <1>0, <2>1, <2>3, <2>4, <2>5, Posted
  <2>7. at'[p] = Idle /\ at' \in [Pollers -> Places'] /\ \A r \in Pollers \ {p} : at'[r] = at[r]
    BY <1>0, <1>4, <2>3, WentTo DEF Goto, Places
  <2>8. Moves(p)
    BY <2>7 DEF Moves, PlaceSound, Idle
  <2>9. Counted'
    BY <1>0, <1>4 DEF Counted
  <2> QED
    BY <1>0, <1>4, <2>2, <2>6, <2>8, <2>9, ThreadMoved
<1> QED
  BY <1>3, <1>4 DEF Create

LEMMA RunCreateKeeps ==
  ASSUME IInv, NEW p \in Pollers, RunCreate(p)
  PROVE  IInv'
<1> DEFINE t == Head(queue[p])
<1>0. /\ TypeOK /\ TasksSound /\ ending[p] = 0 /\ queue[p] # <<>> /\ t.op = "create"
      /\ queue' = [queue EXCEPT ![p] = Tail(@)] /\ CreateSession(p, t.k, t.srv, TRUE)
      /\ UNCHANGED <<elsewhere, packet, ending, reading, rounds>>
  BY DEF IInv, RunCreate, MayRun, MayStart
<1>1. packet \in Seq(PacketType) /\ Len(packet) \in Nat
  BY <1>0, Lengths
<1>2. t \in Tasks /\ TaskSound(p, t)
  <2>1. queue[p] \in Seq(Tasks)
    BY <1>0, QueueElements
  <2>2. t = queue[p][1] /\ 1 \in DOMAIN queue[p]
    BY <1>0, <2>1, HeadTailProperties, EmptySeq, LenProperties
  <2> QED
    BY <1>0, <2>2, QueueElements DEF TasksSound
<1>3. t.k \in DOMAIN packet /\ t.srv \in Pollers /\ elsewhere
  BY <1>0, <1>2, TaskKinds DEF TaskSound, TypeOK
<1> HIDE DEF t
<1>4. NoneMoves /\ packet' \in Seq(PacketType')
  BY <1>0, <1>3, Added
<1>5. QueuesSound'
  BY <1>0, <1>4, Popped
<1> QED
  BY <1>0, <1>3, <1>5, CreateSessionKeeps

(***************************************************************************)
(* The datagram is handed over.                                            *)
(***************************************************************************)
LEMMA CopyPointerKeeps ==
  ASSUME IInv, NEW p \in Pollers, CopyPointer(p)
  PROVE  IInv'
<1>0. /\ TypeOK /\ TasksSound /\ ending[p] = 0 /\ at[p].op = "found" /\ at[p] \in Places
      /\ UNCHANGED <<elsewhere, map, session, packet, queue, ending, reading, rounds>>
      /\ Counted'
  BY DEF Counted, IInv, CopyPointer, MayRun, MayStart, TypeOK
<1>1. packet' \in Seq(PacketType) /\ Len(packet') >= Len(packet)
  BY <1>0, Lengths
<1>2. NoneMoves /\ packet' \in Seq(PacketType') /\ Sessions' = Sessions
  BY <1>0, <1>1, Unmoved
<1>3. at[p] \in [op : {"found", "hand"}, k : DOMAIN packet, s : Sessions, here : BOOLEAN]
  BY <1>0, PlaceKinds
<1>4. QueuesSound'
  BY <1>0, <1>2, QueueKept
<1>5. CASE HelperLives(at[p].s)
  <2> DEFINE x == [at[p] EXCEPT !.op = "hand"]
  <2>1. at' = [at EXCEPT ![p] = x]
    BY <1>5 DEF CopyPointer, Goto
  <2>2. x \in Places' /\ x.op = "hand" /\ x.here = at[p].here
    BY <1>0, <1>2, <1>3 DEF Places
  <2>3. at'[p] = x /\ at' \in [Pollers -> Places'] /\ \A q \in Pollers \ {p} : at'[q] = at[q]
    BY <1>0, <1>2, <2>1, <2>2, WentTo
  <2>4. ~elsewhere => ~at[p].here
    BY <1>0 DEF IInv, PlacesSound, PlaceSound
  <2> HIDE DEF x
  <2>5. Moves(p)
    BY <1>0, <2>2, <2>3, <2>4 DEF Moves, PlaceSound
  <2> QED
    BY <1>0, <1>1, <1>4, <2>5, ThreadMoved
<1>6. CASE ~HelperLives(at[p].s)
  <2> DEFINE x == [op |-> "dangling", s |-> at[p].s]
  <2>1. at' = [at EXCEPT ![p] = x]
    BY <1>6 DEF CopyPointer, Goto
  <2>2. x \in Places' /\ x.op = "dangling" /\ x.s = at[p].s
    BY <1>0, <1>2, <1>3 DEF Places
  <2>3. at'[p] = x /\ at' \in [Pollers -> Places'] /\ \A q \in Pollers \ {p} : at'[q] = at[q]
    BY <1>0, <1>2, <2>1, <2>2, WentTo
  <2>4. session[at[p].s].poller # p
    BY <1>0, <1>6 DEF IInv, PlacesSound, PlaceSound, HelperLives
  <2> HIDE DEF x
  <2>5. Moves(p)
    BY <1>0, <2>2, <2>3, <2>4 DEF Moves, PlaceSound
  <2> QED
    BY <1>0, <1>1, <1>4, <2>5, ThreadMoved
<1> QED
  BY <1>5, <1>6

LEMMA HandKeeps ==
  ASSUME IInv, NEW p \in Pollers, Hand(p)
  PROVE  IInv'
<1> DEFINE s == at[p].s
           k == at[p].k
<1>0. /\ TypeOK /\ TasksSound /\ ending[p] = 0 /\ at[p].op = "hand" /\ at[p] \in Places
      /\ packet' = [packet EXCEPT ![k].s = s]
      /\ UNCHANGED <<elsewhere, map, session, ending, reading, rounds>>
      /\ Counted'
  BY DEF Counted, IInv, Hand, MayRun, MayStart, TypeOK
<1>1. /\ at[p] \in [op : {"found", "hand"}, k : DOMAIN packet, s : Sessions, here : BOOLEAN]
      /\ s \in Sessions /\ k \in DOMAIN packet
  BY <1>0, PlaceKinds
<1>2. packet' \in Seq(PacketType) /\ Len(packet') = Len(packet) /\ DOMAIN packet' = DOMAIN packet
  <2>1. packet[k] \in PacketType /\ s \in 0 .. Len(session)
    BY <1>0, <1>1, Lengths, ElementOfSeq
  <2>2. [packet[k] EXCEPT !.s = s] \in PacketType
    BY <2>1 DEF PacketType
  <2>3. packet' = [packet EXCEPT ![k] = [packet[k] EXCEPT !.s = s]]
    BY <1>0
  <2> QED
    BY <1>0, <1>1, <2>2, <2>3, Lengths, ExceptSeq
<1>3. NoneMoves /\ packet' \in Seq(PacketType') /\ Sessions' = Sessions
  BY <1>0, <1>2, Lengths, Unmoved
<1>4. [op |-> "recv", k |-> k, s |-> s] \in Recvs'
  BY <1>1, <1>2, <1>3 DEF Recvs
<1>l. Len(packet') >= Len(packet)
  BY <1>0, <1>2, Lengths
<1>5. CASE session[s].poller = p
  <2> DEFINE x == [op |-> "recv", k |-> k, s |-> s]
  <2>1. at' = [at EXCEPT ![p] = x] /\ queue' = queue
    BY <1>5 DEF Hand, Goto
  <2>2. x \in Places' /\ x.op = "recv" /\ x.s = s
    BY <1>4 DEF Places
  <2>3. at'[p] = x /\ at' \in [Pollers -> Places'] /\ \A q \in Pollers \ {p} : at'[q] = at[q]
    BY <1>0, <1>3, <2>1, <2>2, WentTo
  <2>4. QueuesSound'
    BY <1>0, <1>3, <2>1, QueueKept
  <2> HIDE DEF x, s, k
  <2>5. Moves(p)
    BY <1>0, <1>5, <2>2, <2>3 DEF Moves, PlaceSound
  <2> QED
    BY <1>0, <1>2, <1>l, <2>4, <2>5, ThreadMoved
<1>6. CASE session[s].poller # p /\ at[p].here
  <2> DEFINE x == [op |-> "astray", s |-> s]
  <2>1. at' = [at EXCEPT ![p] = x] /\ queue' = queue
    BY <1>6 DEF Hand, Goto
  <2>2. x \in Places' /\ x.op = "astray" /\ x.s = s
    BY <1>1, <1>3 DEF Places
  <2>3. at'[p] = x /\ at' \in [Pollers -> Places'] /\ \A q \in Pollers \ {p} : at'[q] = at[q]
    BY <1>0, <1>3, <2>1, <2>2, WentTo
  <2>4. QueuesSound'
    BY <1>0, <1>3, <2>1, QueueKept
  <2>5. elsewhere
    BY <1>0, <1>6 DEF IInv, PlacesSound, PlaceSound
  <2> HIDE DEF x, s, k
  <2>6. Moves(p)
    BY <1>0, <2>2, <2>3, <2>5 DEF Moves, PlaceSound
  <2> QED
    BY <1>0, <1>2, <1>l, <2>4, <2>6, ThreadMoved
<1>7. CASE session[s].poller # p /\ ~at[p].here
  <2> DEFINE t == [op |-> "recv", k |-> k, s |-> s]
             q == session[s].poller
  <2>1. Post(q, t) /\ at' = [at EXCEPT ![p] = Idle]
    BY <1>7 DEF Hand, Goto
  <2>2. q \in Pollers
    <3>1. session[s] \in SessionType
      BY <1>0, <1>1, Lengths, ElementOfSeq
    <3> QED
      BY <3>1 DEF SessionType
  <2>3. t \in Tasks' /\ t.op = "recv" /\ session'[t.s].poller = q
    BY <1>0, <1>4 DEF Tasks
  <2> HIDE DEF t, q, s, k
  <2>4. QueuesSound'
    BY <1>0, <1>3, <2>1, <2>2, <2>3, Posted
  <2>5. at'[p] = Idle /\ at' \in [Pollers -> Places'] /\ \A r \in Pollers \ {p} : at'[r] = at[r]
    BY <1>0, <1>3, <2>1, WentTo DEF Places
  <2>6. Moves(p)
    BY <2>5 DEF Moves, PlaceSound, Idle
  <2> QED
    BY <1>0, <1>2, <1>l, <2>4, <2>6, ThreadMoved
<1> QED
  BY <1>5, <1>6, <1>7

(* The first task of a queue. *)
LEMMA FirstTask ==
  ASSUME TypeOK, TasksSound, NEW p \in Pollers, queue[p] # <<>>
  PROVE  Head(queue[p]) \in Tasks /\ TaskSound(p, Head(queue[p]))
<1>1. queue[p] \in Seq(Tasks)
  BY QueueElements
<1>2. Head(queue[p]) = queue[p][1] /\ 1 \in DOMAIN queue[p]
  BY <1>1, HeadTailProperties, EmptySeq, LenProperties
<1> QED
  BY <1>2, QueueElements DEF TasksSound

(* A datagram has another state. *)
LEMMA PacketState ==
  ASSUME TypeOK, NEW k \in DOMAIN packet, NEW w \in States
  PROVE  LET new == [packet EXCEPT ![k].state = w]
         IN  new \in Seq(PacketType) /\ Len(new) = Len(packet)
<1> DEFINE e == [packet[k] EXCEPT !.state = w]
<1>1. packet[k] \in PacketType
  BY Lengths, ElementOfSeq
<1>2. e \in PacketType
  BY <1>1 DEF PacketType
<1>3. k \in 1 .. Len(packet) /\ packet \in Seq(PacketType) /\ Len(packet) \in Nat
  BY Lengths
<1> HIDE DEF e
<1>4. [packet EXCEPT ![k] = e] \in Seq(PacketType) /\ Len([packet EXCEPT ![k] = e]) = Len(packet)
  BY <1>2, <1>3, ExceptSeq
<1> QED
  BY <1>4 DEF e

LEMMA RunRecvKeeps ==
  ASSUME IInv, NEW p \in Pollers, RunRecv(p)
  PROVE  IInv'
<1> DEFINE t == Head(queue[p])
<1>0. /\ TypeOK /\ TasksSound /\ ending[p] = 0 /\ queue[p] # <<>> /\ t.op = "recv"
      /\ queue' = [queue EXCEPT ![p] = Tail(@)]
      /\ UNCHANGED <<elsewhere, map, session, ending, reading, rounds>>
      /\ Counted'
  BY DEF Counted, IInv, RunRecv, MayRun, MayStart, TypeOK
<1>1. t \in Recvs /\ session[t.s].poller = p
  BY <1>0, FirstTask, TaskKinds DEF TaskSound
<1>2. CASE SessionLives(t.s)
  <2>1. at' = [at EXCEPT ![p] = t] /\ packet' = packet
    BY <1>2 DEF RunRecv, Goto
  <2>2. packet' \in Seq(PacketType) /\ Len(packet') >= Len(packet)
    BY <1>0, <2>1, Lengths
  <2>3. NoneMoves /\ packet' \in Seq(PacketType') /\ Sessions' = Sessions
    BY <1>0, <2>2, Unmoved
  <2>4. t \in Places'
    BY <1>1, <2>1, <2>3 DEF Places, Recvs
  <2>5. at'[p] = t /\ at' \in [Pollers -> Places'] /\ \A q \in Pollers \ {p} : at'[q] = at[q]
    BY <1>0, <2>1, <2>3, <2>4, WentTo
  <2>6. QueuesSound'
    BY <1>0, <2>3, Popped
  <2> HIDE DEF t
  <2>7. Moves(p)
    BY <1>0, <1>1, <2>5 DEF Moves, PlaceSound
  <2> QED
    BY <1>0, <2>2, <2>6, <2>7, ThreadMoved
<1>3. CASE ~SessionLives(t.s)
  <2>1. at' = at /\ packet' = [packet EXCEPT ![t.k].state = "lost"]
    BY <1>3 DEF RunRecv
  <2>2. packet' \in Seq(PacketType) /\ Len(packet') = Len(packet) /\ Len(packet) \in Nat
    BY <1>0, <1>1, <2>1, PacketState, Lengths DEF Recvs, States
  <2>3. NoneMoves /\ packet' \in Seq(PacketType') /\ Sessions' = Sessions
    BY <1>0, <2>2, Unmoved
  <2>4. at' \in [Pollers -> Places']
    BY <1>0, <2>1, <2>3, TypesGrow DEF TypeOK
  <2>5. QueuesSound'
    BY <1>0, <2>3, Popped
  <2>6. PlaceSound(p, at[p])'
    <3>1. PlaceSound(p, at[p]) /\ at[p] \in Places
      BY <1>0 DEF IInv, PlacesSound, TypeOK
    <3>2. \A u \in Sessions : Mapped(u) => Mapped(u)'
      BY <1>0 DEF Mapped
    <3> QED
      BY <2>1, <2>3, <3>1, <3>2, PlaceStays DEF PlaceSound
  <2>7. Moves(p)
    BY <2>1, <2>4, <2>6 DEF Moves
  <2> QED
    BY <1>0, <2>2, <2>5, <2>7, ThreadMoved
<1> QED
  BY <1>2, <1>3

(***************************************************************************)
(* The end of a session.                                                   *)
(***************************************************************************)
LEMMA ClosedRecord ==
  ASSUME NEW r \in SessionType, r.errors = 0
  PROVE  LET c == [r EXCEPT !.open = FALSE, !.errors = @ + 1]
         IN  /\ c \in SessionType /\ c.peer = r.peer /\ c.poller = r.poller
             /\ c.server = r.server /\ c.open = FALSE /\ c.errors = 1
<1>1. PICK e \in 0 .. 1 : e = r.errors + 1 /\ e = 1
  OBVIOUS
<1> DEFINE c == [r EXCEPT !.open = FALSE, !.errors = e]
<1>2. c \in SessionType
  BY DEF SessionType
<1>3. /\ c.peer = r.peer /\ c.poller = r.poller
      /\ c.server = r.server /\ c.open = FALSE /\ c.errors = e
  BY DEF SessionType
<1> QED
  BY <1>1, <1>2, <1>3

LEMMA Ended ==
  ASSUME IInv, NEW p \in Pollers, NEW s \in Sessions, session[s].poller = p, ending[p] = 0,
         UNCHANGED <<session, ending>> \/ Shutdown(p, s),
         UNCHANGED <<elsewhere, map, queue, reading, rounds>>,
         packet' \in Seq(PacketType), Len(packet') >= Len(packet),
         at' \in [Pollers -> Places], at'[p].op \in {"idle", "manage"},
         \A q \in Pollers \ {p} : at'[q] = at[q]
  PROVE  IInv'
<1>0. /\ TypeOK /\ TasksSound /\ Sessions = 1 .. Len(session) /\ session \in Seq(SessionType)
      /\ Len(session) \in Nat
  BY Lengths DEF IInv
<1>s. PlaceSound(p, at[p])'
  BY DEF PlaceSound
<1>1. CASE UNCHANGED <<session, ending>>
  <2>1. NoneMoves /\ packet' \in Seq(PacketType') /\ Sessions' = Sessions
    BY <1>0, <1>1, Unmoved
  <2>2. QueuesSound'
    BY <1>0, <2>1, QueueKept
  <2>3. Places \subseteq Places'
    BY <1>0, <2>1, TypesGrow
  <2>4. Moves(p)
    BY <1>s, <2>3 DEF Moves
  <2> QED
    BY <1>0, <1>1, <2>2, <2>4, ThreadMoved DEF TypeOK, Counted
<1>2. CASE session[s].open /\ Shutdown(p, s)
  <2> DEFINE closed == [session[s] EXCEPT !.open = FALSE, !.errors = @ + 1]
  <2>1. session' = [session EXCEPT ![s] = closed] /\ ending' = [ending EXCEPT ![p] = s]
    BY <1>2 DEF Shutdown
  <2>2. session[s].errors = 0 /\ Mapped(s) /\ session[s] \in SessionType
    BY <1>0, <1>2, ElementOfSeq DEF IInv, OpenOrEnded
  <2>3. /\ closed \in SessionType /\ closed.peer = session[s].peer
        /\ closed.poller = p /\ closed.server = session[s].server
        /\ closed.open = FALSE /\ closed.errors = 1
    BY <2>2, ClosedRecord
  <2> HIDE DEF closed
  <2>4. /\ session' \in Seq(SessionType) /\ Len(session') = Len(session)
        /\ \A u \in Sessions : session'[u] = IF u = s THEN closed ELSE session[u]
    BY <1>0, <2>1, <2>3, ExceptSeq
  <2>5. Sessions' = Sessions /\ PacketType' = PacketType
    BY <1>0, <2>4, LenProperties DEF Sessions, PacketType
  <2>6. NoneMoves /\ packet' \in Seq(PacketType')
    <3>1. \A u \in Sessions : /\ session'[u].peer = session[u].peer
                             /\ session'[u].poller = session[u].poller
                             /\ session'[u].server = session[u].server
      BY <2>3, <2>4
    <3>2. Len(packet') \in Nat
      BY LenProperties
    <3> QED
      BY <1>0, <2>4, <2>5, <3>1, <3>2 DEF NoneMoves
  <2>7. QueuesSound'
    BY <1>0, <2>6, QueueKept
  <2>8. Places \subseteq Places'
    BY <1>0, <2>6, TypesGrow
  <2>9. \A u \in Sessions : Mapped(u)' <=> Mapped(u)
    BY <2>6 DEF NoneMoves, Mapped
  <2>10. TypeOK'
    <3>1. session' \in Seq([peer : Peers, poller : Pollers, server : Pollers,
                            open : BOOLEAN, errors : 0 .. 1])
      BY <2>4 DEF SessionType
    <3>2. ending' \in [Pollers -> 0 .. Len(session')]
      <4>1. s \in 0 .. Len(session)
        BY <1>0
      <4> QED
        BY <1>0, <2>1, <2>4, <4>1 DEF TypeOK
    <3>3. packet' \in Seq([peer : Peers, id : Peers, s : 0 .. Len(session'), state : States])
      BY <2>6 DEF PacketType
    <3>4. at' \in [Pollers -> Places']
      BY <2>8
    <3> QED
      BY <1>0, <2>4, <2>7, <3>1, <3>2, <3>3, <3>4 DEF TypeOK, QueuesSound, Counted
  <2>11. MapToOwn'
    <3> SUFFICES ASSUME NEW i \in Peers, map[i] # 0
                 PROVE  session'[map[i]].peer = i
      BY DEF MapToOwn
    <3>1. map[i] \in Sessions
      <4>1. map[i] \in 0 .. Len(session)
        BY <1>0 DEF TypeOK
      <4> QED
        BY <1>0, <4>1
    <3> QED
      BY <2>6, <3>1 DEF NoneMoves, IInv, MapToOwn
  <2>12. OpenOrEnded'
    <3> SUFFICES ASSUME NEW u \in Sessions
                 PROVE  \/ session'[u].errors = 0 /\ Mapped(u)'
                        \/ /\ session'[u].errors = 1 /\ ~session'[u].open
                           /\ Mapped(u)' => ending'[session'[u].poller] = u
      BY <2>5 DEF OpenOrEnded, Mapped
    <3>0. ending \in [Pollers -> 0 .. Len(session)] /\ session[u].poller \in Pollers
      <4>1. session[u] \in SessionType
        BY <1>0, ElementOfSeq
      <4> QED
        BY <1>0, <4>1 DEF SessionType, TypeOK
    <3>1. CASE u = s
      BY <2>1, <2>3, <2>4, <3>0, <3>1
    <3>2. CASE u # s
      <4>1. session'[u] = session[u] /\ u # 0
        BY <1>0, <2>4, <3>2
      <4>2. CASE session[u].errors = 0 /\ Mapped(u)
        BY <2>9, <4>1, <4>2
      <4>3. CASE /\ session[u].errors = 1 /\ ~session[u].open
                 /\ Mapped(u) => ending[session[u].poller] = u
        <5>1. Mapped(u) => session[u].poller # p
          BY <4>1, <4>3
        <5> QED
          BY <2>1, <2>9, <3>0, <4>1, <4>3, <5>1
      <4> QED
        BY <4>2, <4>3 DEF IInv, OpenOrEnded
    <3> QED
      BY <3>1, <3>2
  <2>13. EndsOnce'
    <3> SUFFICES ASSUME NEW q \in Pollers, ending'[q] # 0
                 PROVE  /\ at'[q].op \in {"idle", "manage"}
                        /\ session'[ending'[q]].poller = q
                        /\ session'[ending'[q]].errors = 1
                        /\ ~session'[ending'[q]].open
                        /\ map'[session'[ending'[q]].peer] = ending'[q]
      BY DEF EndsOnce, Mapped
    <3>1. CASE q = p
      <4>1. ending'[q] = s
        BY <1>0, <2>1, <3>1 DEF TypeOK
      <4> QED
        BY <2>2, <2>3, <2>4, <3>1, <4>1 DEF Mapped
    <3>2. CASE q # p
      <4>0. ending[q] \in 0 .. Len(session) /\ ending'[q] = ending[q]
        BY <1>0, <2>1, <3>2 DEF TypeOK
      <4>1. ending'[q] = ending[q] /\ ending[q] \in Sessions
        BY <1>0, <4>0
      <4>2. ending[q] # s
        BY <3>2, <4>1 DEF IInv, EndsOnce
      <4> QED
        BY <2>4, <3>2, <4>1, <4>2 DEF IInv, EndsOnce, Mapped
    <3> QED
      BY <3>1, <3>2
  <2>14. ServersOwn'
    BY <2>5, <2>6 DEF NoneMoves, IInv, ServersOwn
  <2>15. PlacesSound'
    <3> SUFFICES ASSUME NEW q \in Pollers PROVE PlaceSound(q, at[q])'
      BY DEF PlacesSound
    <3>1. CASE q # p
      <4>1. at[q] \in Places /\ PlaceSound(q, at[q]) /\ at'[q] = at[q]
        BY <1>0, <3>1 DEF IInv, TypeOK, PlacesSound
      <4>2. \A u \in Sessions : Mapped(u) => Mapped(u)'
        BY <2>9
      <4>3. PlaceSound(q, at[q])'
        BY <2>6, <4>1, <4>2, PlaceStays, SMTT(30) DEF PlaceSound
      <4> QED
        BY <4>3
    <3> QED
      BY <1>s, <3>1
  <2> QED
    BY <2>7, <2>10, <2>11, <2>12, <2>13, <2>14, <2>15 DEF IInv, QueuesSound
<1> QED
  BY <1>1, <1>2 DEF Shutdown

LEMMA CreateNothingKeeps ==
  ASSUME IInv, NEW p \in Pollers, CreateNothing(p)
  PROVE  IInv'
<1> DEFINE k == at[p].k
<1>0. /\ TypeOK /\ TasksSound /\ ending[p] = 0 /\ at[p].op = "create" /\ at[p] \in Places
      /\ packet' = [packet EXCEPT ![k].state = "dropped"]
      /\ at' = [at EXCEPT ![p] = Idle]
      /\ UNCHANGED <<elsewhere, map, session, queue, ending, reading, rounds>>
      /\ Counted'
  BY DEF Counted, IInv, CreateNothing, MayRun, TypeOK, Goto
<1>1. k \in DOMAIN packet /\ "dropped" \in States
  <2>1. at[p] \in [op : {"look", "create"}, k : DOMAIN packet, srv : Pollers]
    BY <1>0, PlaceKinds
  <2> QED
    BY <2>1 DEF States
<1> HIDE DEF k
<1>2. packet' \in Seq(PacketType) /\ Len(packet') = Len(packet) /\ Len(packet) \in Nat
  BY <1>0, <1>1, PacketState, Lengths
<1>3. NoneMoves /\ packet' \in Seq(PacketType')
  BY <1>0, <1>2, Unmoved
<1>4. Idle \in Places' /\ Idle.op = "idle"
  BY DEF Places, Idle
<1>5. at'[p] = Idle /\ at' \in [Pollers -> Places'] /\ \A q \in Pollers \ {p} : at'[q] = at[q]
  BY <1>0, <1>3, <1>4, WentTo
<1>6. Moves(p)
  BY <1>4, <1>5 DEF Moves, PlaceSound
<1>7. QueuesSound'
  BY <1>0, <1>3, QueueKept
<1> QED
  BY <1>0, <1>2, <1>6, <1>7, ThreadMoved

LEMMA RecvReturnsKeeps ==
  ASSUME IInv, NEW p \in Pollers, RecvReturns(p)
  PROVE  IInv'
<1> DEFINE s == at[p].s
           k == at[p].k
<1>0. /\ TypeOK /\ ending[p] = 0 /\ at[p].op = "recv" /\ at[p] \in Places
      /\ packet' = [packet EXCEPT ![k].state = "received"]
      /\ at' = [at EXCEPT ![p] = Idle] /\ at \in [Pollers -> Places]
      /\ UNCHANGED <<session, ending>> \/ Shutdown(p, s)
      /\ UNCHANGED <<elsewhere, map, queue, reading, rounds>>
  BY DEF IInv, RecvReturns, MayRun, MayStart, TypeOK, Goto
<1>1. at[p] \in Recvs /\ session[s].poller = p
  BY <1>0, PlaceKinds DEF IInv, PlacesSound, PlaceSound
<1>2. s \in Sessions /\ k \in DOMAIN packet
  BY <1>1 DEF Recvs
<1> HIDE DEF s, k
<1>3. packet' \in Seq(PacketType) /\ Len(packet') = Len(packet) /\ Len(packet) \in Nat
  BY <1>0, <1>2, PacketState, Lengths DEF States
<1>4. Idle \in Places /\ Idle.op = "idle"
  BY DEF Places, Idle
<1>5. /\ at' \in [Pollers -> Places] /\ at'[p].op \in {"idle", "manage"}
      /\ \A q \in Pollers \ {p} : at'[q] = at[q]
  BY <1>0, <1>4
<1> QED
  BY <1>0, <1>1, <1>2, <1>3, <1>5, Ended DEF s

LEMMA CloseKeeps ==
  ASSUME IInv, NEW p \in Pollers, NEW s \in Sessions, Close(p, s)
  PROVE  IInv'
<1>0. /\ TypeOK /\ ending[p] = 0 /\ at[p].op = "idle" /\ session[s].poller = p
      /\ Shutdown(p, s) /\ UNCHANGED <<elsewhere, map, packet, queue, at, reading, rounds>>
  BY DEF IInv, Close, MayRun, MayStart
<1>1. at' \in [Pollers -> Places] /\ \A q \in Pollers \ {p} : at'[q] = at[q]
  BY <1>0 DEF TypeOK
<1>2. packet' \in Seq(PacketType) /\ Len(packet') >= Len(packet)
  BY <1>0, Lengths
<1> QED
  BY <1>0, <1>1, <1>2, Ended

(* Two sessions that are both in the map are of different peers.           *)
LEMMA EraseKeeps ==
  ASSUME IInv, NEW p \in Pollers, Erase(p)
  PROVE  IInv'
<1> DEFINE e == ending[p]
           peer == session[e].peer
<1>0. /\ TypeOK /\ TasksSound /\ e # 0
      /\ map' = [map EXCEPT ![peer] = 0] /\ ending' = [ending EXCEPT ![p] = 0]
      /\ UNCHANGED <<elsewhere, session, packet, queue, at, reading, rounds>>
  BY DEF IInv, Erase
<1>1. /\ Sessions = 1 .. Len(session) /\ session \in Seq(SessionType) /\ Len(session) \in Nat
      /\ packet \in Seq(PacketType) /\ Len(packet) \in Nat
      /\ map \in [Peers -> 0 .. Len(session)] /\ ending \in [Pollers -> 0 .. Len(session)]
  BY <1>0, Lengths DEF TypeOK
<1>2. NoneMoves /\ packet' \in Seq(PacketType') /\ Sessions' = Sessions /\ PacketType' = PacketType
  <2>1. packet' \in Seq(PacketType) /\ Len(packet') >= Len(packet)
    BY <1>0, <1>1
  <2>2. PacketType' = PacketType
    BY <1>0 DEF PacketType
  <2> QED
    BY <1>0, <2>1, <2>2, Unmoved
<1>3. QueuesSound'
  BY <1>0, <1>2, QueueKept
<1>4. /\ e \in Sessions /\ at[p].op \in {"idle", "manage"} /\ session[e].poller = p
      /\ ~session[e].open /\ session[e].errors = 1 /\ map[peer] = e
  BY <1>0, <1>1 DEF IInv, EndsOnce, Mapped
<1>p. \A s \in Sessions : session[s].peer \in Peers
  <2> SUFFICES ASSUME NEW s \in Sessions PROVE session[s].peer \in Peers
    OBVIOUS
  <2>1. session[s] \in SessionType
    BY <1>1, ElementOfSeq
  <2> QED
    BY <2>1 DEF SessionType
<1> HIDE DEF e
<1>5. \A s \in Sessions : Mapped(s) /\ s # e => map'[session'[s].peer] = s
  BY <1>0, <1>1, <1>4, <1>p DEF Mapped
<1>6. TypeOK'
  <2>0. 0 \in 0 .. Len(session) /\ session' = session
    BY <1>0, <1>1
  <2>1. map' \in [Peers -> 0 .. Len(session')]
    BY <1>0, <1>1, <2>0
  <2>2. ending' \in [Pollers -> 0 .. Len(session')]
    BY <1>0, <1>1, <2>0
  <2>3. Places \subseteq Places'
    BY <1>0, <1>2, TypesGrow
  <2>4. at' \in [Pollers -> Places']
    BY <1>0, <2>3 DEF TypeOK
  <2>5. packet' \in Seq([peer : Peers, id : Peers, s : 0 .. Len(session'), state : States])
    BY <1>2 DEF PacketType
  <2> QED
    BY <1>0, <1>3, <2>1, <2>2, <2>4, <2>5 DEF TypeOK, QueuesSound
<1>7. MapToOwn'
  BY <1>0, <1>1 DEF IInv, MapToOwn
<1>8. OpenOrEnded'
  <2> SUFFICES ASSUME NEW s \in Sessions
               PROVE  \/ session[s].errors = 0 /\ Mapped(s)'
                      \/ /\ session[s].errors = 1 /\ ~session[s].open
                         /\ Mapped(s)' => ending'[session[s].poller] = s
    BY <1>0, <1>2 DEF OpenOrEnded, Mapped
  <2>1. session[s].poller \in Pollers
    <3>1. session[s] \in SessionType
      BY <1>1, ElementOfSeq
    <3> QED
      BY <3>1 DEF SessionType
  <2>2. CASE s = e
    <3>1. ~Mapped(s)'
      BY <1>0, <1>1, <1>4, <1>p, <2>2 DEF Mapped
    <3> QED
      BY <1>4, <2>2, <3>1
  <2>3. CASE s # e
    <3>1. Mapped(s)' => Mapped(s)
      BY <1>0, <1>1, <1>p, <2>3 DEF Mapped
    <3>2. Mapped(s) => Mapped(s)'
      BY <1>5, <2>3 DEF Mapped
    <3>3. ending[p] = e
      BY DEF e
    <3>4. CASE session[s].errors = 0 /\ Mapped(s)
      BY <3>2, <3>4
    <3>5. CASE /\ session[s].errors = 1 /\ ~session[s].open
               /\ Mapped(s) => ending[session[s].poller] = s
      <4>1. Mapped(s) => session[s].poller # p
        BY <2>3, <3>3, <3>5
      <4> QED
        BY <1>0, <1>1, <2>1, <3>1, <3>5, <4>1
    <3> QED
      BY <3>4, <3>5 DEF IInv, OpenOrEnded
  <2> QED
    BY <2>2, <2>3
<1>9. EndsOnce'
  <2> SUFFICES ASSUME NEW q \in Pollers, ending'[q] # 0
               PROVE  /\ at[q].op \in {"idle", "manage"}
                      /\ session[ending'[q]].poller = q
                      /\ session[ending'[q]].errors = 1
                      /\ ~session[ending'[q]].open
                      /\ map'[session[ending'[q]].peer] = ending'[q]
    BY <1>0 DEF EndsOnce, Mapped
  <2>1. q # p /\ ending'[q] = ending[q] /\ ending[q] \in Sessions
    BY <1>0, <1>1
  <2>2. ending[q] # e
    BY <1>4, <2>1 DEF IInv, EndsOnce
  <2> QED
    BY <1>0, <1>5, <2>1, <2>2 DEF IInv, EndsOnce
<1>10. ServersOwn'
  BY <1>0, <1>2 DEF IInv, ServersOwn
<1>11. PlacesSound'
  <2> SUFFICES ASSUME NEW q \in Pollers PROVE PlaceSound(q, at[q])'
    BY DEF PlacesSound
  <2>1. at[q] \in Places /\ PlaceSound(q, at[q])
    BY <1>0 DEF IInv, TypeOK, PlacesSound
  <2>2. at[q].op = "found" => q # p
    BY <1>4
  <2>3. \A s \in Sessions : session[s].poller = q /\ Mapped(s) /\ at[q].op = "found" => Mapped(s)'
    BY <1>4, <1>5, <2>2 DEF Mapped
  <2> QED
    BY <1>0, <1>2, <2>1, <2>3, PlaceStays DEF PlaceSound
<1> QED
  BY <1>3, <1>6, <1>7, <1>8, <1>9, <1>10, <1>11 DEF IInv, QueuesSound

(***************************************************************************)
(* The timer.                                                              *)
(***************************************************************************)
LEMMA ManageKeeps ==
  ASSUME IInv, NEW p \in Pollers, Manage(p)
  PROVE  IInv'
<1> DEFINE all == {map[i] : i \in Peers} \ {0}
           job == [op |-> "manage", copy |-> all, left |-> all]
<1>0. /\ TypeOK /\ TasksSound /\ ending[p] = 0 /\ Len(packet) + rounds < MaxInputs /\ rounds' = rounds + 1
      /\ queue' = [q \in Pollers |-> IF q = p THEN queue[q] ELSE Append(queue[q], job)]
      /\ at' = [at EXCEPT ![p] = job]
      /\ UNCHANGED <<elsewhere, map, session, packet, ending, reading>>
  BY DEF IInv, Manage, MayRun, MayStart, Goto
<1>1. packet' \in Seq(PacketType) /\ Len(packet') >= Len(packet)
  BY <1>0, Lengths
<1>2. NoneMoves /\ packet' \in Seq(PacketType') /\ Sessions' = Sessions
  BY <1>0, <1>1, Unmoved
<1>3. all \subseteq Sessions
  <2>1. \A i \in Peers : map[i] \in 0 .. Len(session)
    BY <1>0 DEF TypeOK
  <2>2. Sessions = 1 .. Len(session) /\ Len(session) \in Nat
    BY <1>0, Lengths
  <2> QED
    BY <2>1, <2>2
<1>4. job \in Jobs
  BY <1>3 DEF Jobs
<1>5. job \in Tasks /\ job \in Places /\ job.op = "manage"
  BY <1>4 DEF Tasks, Places
<1>6. Tasks \subseteq Tasks' /\ Places \subseteq Places'
  BY <1>0, <1>2, TypesGrow
<1> HIDE DEF job
<1>7. at'[p] = job /\ at' \in [Pollers -> Places'] /\ \A q \in Pollers \ {p} : at'[q] = at[q]
  BY <1>0, <1>2, <1>5, <1>6, WentTo
<1>8. Moves(p)
  BY <1>5, <1>7 DEF Moves, PlaceSound
<1>9. QueuesSound'
  <2>1. \A q \in Pollers : queue[q] \in Seq(Tasks) /\ Append(queue[q], job) \in Seq(Tasks)
    BY <1>0, <1>5, QueueElements, AppendProperties
  <2>2. queue' \in [Pollers -> Seq(Tasks)]
    BY <1>0, <2>1
  <2>3. queue' \in [Pollers -> Seq(Tasks')]
    BY <1>0, <1>2, <2>2, QueuesGrow
  <2>4. ASSUME NEW q \in Pollers, NEW i \in DOMAIN queue'[q]
        PROVE  TaskSound(q, queue[q][i])'
    <3>1. queue'[q][i] = job \/ (i \in DOMAIN queue[q] /\ queue'[q][i] = queue[q][i])
      <4>1. CASE q = p
        BY <1>0, <4>1
      <4>2. CASE q # p
        <5>1. queue'[q] = Append(queue[q], job) /\ queue[q] \in Seq(Tasks)
          BY <1>0, <2>1, <4>2
        <5> QED
          BY <1>5, <5>1, AppendProperties
      <4> QED
        BY <4>1, <4>2
    <3>2. CASE queue'[q][i] = job
      BY <1>5, <3>2 DEF TaskSound
    <3>3. CASE i \in DOMAIN queue[q] /\ queue'[q][i] = queue[q][i]
      <4>1. queue[q][i] \in Tasks /\ TaskSound(q, queue[q][i])
        BY <1>0, <3>3, QueueElements DEF TasksSound
      <4> QED
        BY <1>2, <3>3, <4>1, TaskStays DEF TaskSound
    <3> QED
      BY <3>1, <3>2, <3>3
  <2> QED
    BY <2>3, <2>4 DEF QueuesSound, TasksSound
<1>10. Counted'
  <2>1. rounds \in 0 .. MaxInputs /\ reading \in [Pollers -> 0 .. Len(session)]
    BY <1>0 DEF TypeOK
  <2>2. rounds + 1 \in 0 .. MaxInputs
    BY <1>0, <2>1, Lengths
  <2> QED
    BY <1>0, <2>1, <2>2 DEF Counted
<1> QED
  BY <1>0, <1>1, <1>8, <1>9, <1>10, ThreadMoved

LEMMA RunManageKeeps ==
  ASSUME IInv, NEW p \in Pollers, RunManage(p)
  PROVE  IInv'
<1> DEFINE t == Head(queue[p])
<1>0. /\ TypeOK /\ TasksSound /\ ending[p] = 0 /\ queue[p] # <<>> /\ t.op = "manage"
      /\ queue' = [queue EXCEPT ![p] = Tail(@)] /\ at' = [at EXCEPT ![p] = t]
      /\ UNCHANGED <<elsewhere, map, session, packet, ending, reading, rounds>>
      /\ Counted'
  BY DEF Counted, IInv, RunManage, MayRun, MayStart, TypeOK, Goto
<1>1. t \in Jobs
  BY <1>0, FirstTask, TaskKinds
<1>2. packet' \in Seq(PacketType) /\ Len(packet') >= Len(packet)
  BY <1>0, Lengths
<1>3. NoneMoves /\ packet' \in Seq(PacketType') /\ Sessions' = Sessions
  BY <1>0, <1>2, Unmoved
<1>4. t \in Places'
  BY <1>1, <1>3 DEF Places, Jobs
<1>5. at'[p] = t /\ at' \in [Pollers -> Places'] /\ \A q \in Pollers \ {p} : at'[q] = at[q]
  BY <1>0, <1>3, <1>4, WentTo
<1>6. QueuesSound'
  BY <1>0, <1>3, Popped
<1> HIDE DEF t
<1>7. Moves(p)
  BY <1>0, <1>5 DEF Moves, PlaceSound
<1> QED
  BY <1>0, <1>2, <1>6, <1>7, ThreadMoved

LEMMA ManageOneKeeps ==
  ASSUME IInv, NEW p \in Pollers, ManageOne(p)
  PROVE  IInv'
<1>0. /\ TypeOK /\ TasksSound /\ ending[p] = 0 /\ at[p].op = "manage"
      /\ at[p] \in Places /\ at \in [Pollers -> Places]
      /\ UNCHANGED <<elsewhere, map, packet, queue, reading, rounds>>
      /\ Counted
  BY DEF Counted, IInv, ManageOne, MayRun, MayStart, TypeOK
<1>1. PICK s \in at[p].left :
        /\ at' = [at EXCEPT ![p] = [at[p] EXCEPT !.left = @ \ {s}]]
        /\ \/ UNCHANGED <<session, ending>>
           \/ session[s].poller = p /\ Shutdown(p, s)
  BY DEF ManageOne, Goto
<1>2. at[p] \in Jobs
  BY <1>0, PlaceKinds
<1> DEFINE x == [at[p] EXCEPT !.left = @ \ {s}]
<1>3. x \in Jobs /\ x.op = "manage" /\ s \in Sessions
  BY <1>2 DEF Jobs
<1>4. x \in Places
  BY <1>3 DEF Places
<1>5. packet' \in Seq(PacketType) /\ Len(packet') >= Len(packet)
  BY <1>0, Lengths
<1>6. at' = [at EXCEPT ![p] = x]
  BY <1>1
<1> HIDE DEF x
<1>7. /\ at' \in [Pollers -> Places] /\ at'[p] = x
      /\ \A q \in Pollers \ {p} : at'[q] = at[q]
  BY <1>0, <1>4, <1>6
<1>8. CASE session[s].poller = p /\ Shutdown(p, s)
  BY <1>0, <1>3, <1>5, <1>7, <1>8, Ended
<1>9. CASE UNCHANGED <<session, ending>>
  <2>1. NoneMoves /\ packet' \in Seq(PacketType') /\ Sessions' = Sessions
    BY <1>0, <1>5, <1>9, Unmoved
  <2>2. QueuesSound'
    BY <1>0, <2>1, QueueKept
  <2>3. Places \subseteq Places'
    BY <1>0, <2>1, TypesGrow
  <2>4. Moves(p)
    BY <1>3, <1>7, <2>3 DEF Moves, PlaceSound
  <2>5. Counted'
    BY <1>0, <1>9 DEF Counted
  <2> QED
    BY <1>0, <1>5, <1>9, <2>2, <2>4, <2>5, ThreadMoved
<1> QED
  BY <1>1, <1>8, <1>9

LEMMA ManageReturnsKeeps ==
  ASSUME IInv, NEW p \in Pollers, ManageReturns(p)
  PROVE  IInv'
<1>0. /\ TypeOK /\ TasksSound /\ ending[p] = 0 /\ at' = [at EXCEPT ![p] = Idle]
      /\ UNCHANGED <<elsewhere, map, session, packet, queue, ending, reading, rounds>>
      /\ Counted'
  BY DEF Counted, IInv, ManageReturns, MayRun, MayStart, TypeOK, Goto
<1>1. packet' \in Seq(PacketType) /\ Len(packet') >= Len(packet)
  BY <1>0, Lengths
<1>2. NoneMoves /\ packet' \in Seq(PacketType') /\ Sessions' = Sessions
  BY <1>0, <1>1, Unmoved
<1>3. Idle \in Places'
  BY DEF Places
<1>4. at'[p] = Idle /\ at' \in [Pollers -> Places'] /\ \A q \in Pollers \ {p} : at'[q] = at[q]
  BY <1>0, <1>2, <1>3, WentTo
<1>5. QueuesSound'
  BY <1>0, <1>2, QueueKept
<1>6. Moves(p)
  BY <1>4 DEF Moves, PlaceSound, Idle
<1> QED
  BY <1>0, <1>1, <1>5, <1>6, ThreadMoved

LEMMA StutterKeeps == IInv /\ UNCHANGED vars => IInv'
<1> SUFFICES ASSUME IInv, UNCHANGED vars PROVE IInv'
  OBVIOUS
<1>0. TypeOK /\ TasksSound /\ UNCHANGED <<elsewhere, map, session, packet, queue, at, ending, reading, rounds>>
  BY DEF IInv, vars
<1>1. packet' \in Seq(PacketType) /\ Len(packet') >= Len(packet)
  BY <1>0, Lengths
<1>2. NoneMoves /\ packet' \in Seq(PacketType') /\ Sessions' = Sessions
  BY <1>0, <1>1, Unmoved
<1>3. QueuesSound'
  BY <1>0, <1>2, QueueKept
<1>4. Places' = Places
  BY <1>0, <1>2 DEF Places, Jobs, Recvs
<1>5. TypeOK'
  BY <1>0, <1>2, <1>3, <1>4 DEF TypeOK, QueuesSound, PacketType
<1>6. MapToOwn' /\ OpenOrEnded' /\ EndsOnce' /\ ServersOwn'
  BY <1>0, <1>2 DEF IInv, MapToOwn, OpenOrEnded, EndsOnce, ServersOwn, Mapped
<1>7. PlacesSound'
  BY <1>0 DEF IInv, PlacesSound, PlaceSound, Mapped
<1> QED
  BY <1>3, <1>5, <1>6, <1>7 DEF IInv, QueuesSound

(***************************************************************************)
(* The invariant holds initially and is kept by every step.                *)
(***************************************************************************)
LEMMA InitIInv == Init => IInv
<1> SUFFICES ASSUME Init PROVE IInv
  OBVIOUS
<1>1. Len(session) = 0 /\ Sessions = {} /\ session \in Seq(SessionType) /\ packet \in Seq(PacketType)
  BY DEF Init, Sessions
<1>2. at = [p \in Pollers |-> Idle] /\ Idle \in Places /\ Idle.op = "idle"
  BY DEF Init, Places, Idle
<1>3. queue = [p \in Pollers |-> <<>>] /\ <<>> \in Seq(Tasks) /\ DOMAIN <<>> = {}
  BY DEF Init
<1>4. map = [i \in Peers |-> 0] /\ ending = [p \in Pollers |-> 0] /\ 0 \in 0 .. Len(session)
  BY <1>1 DEF Init
<1>5. TypeOK
  <2>1. queue \in [Pollers -> Seq(Tasks)] /\ at \in [Pollers -> Places]
    BY <1>2, <1>3
  <2>2. map \in [Peers -> 0 .. Len(session)] /\ ending \in [Pollers -> 0 .. Len(session)]
    BY <1>4
  <2>3. elsewhere \in BOOLEAN /\ Counted
    BY <1>4 DEF Init, Counted
  <2> QED
    BY <1>1, <2>1, <2>2, <2>3 DEF TypeOK, SessionType, PacketType, Counted
<1>6. MapToOwn /\ EndsOnce
  BY <1>4 DEF MapToOwn, EndsOnce
<1>7. OpenOrEnded /\ ServersOwn
  BY <1>1 DEF OpenOrEnded, ServersOwn
<1>8. PlacesSound
  BY <1>2 DEF PlacesSound, PlaceSound
<1>9. TasksSound
  BY <1>3 DEF TasksSound
<1> QED
  BY <1>5, <1>6, <1>7, <1>8, <1>9 DEF IInv

LEMMA StepKeeps == IInv /\ [Next]_vars => IInv'
<1> SUFFICES ASSUME IInv, [Next]_vars PROVE IInv'
  OBVIOUS
<1>1. ASSUME NEW p \in Pollers, PollerStep(p)
      PROVE  IInv'
  BY <1>1, LookUpKeeps, CreateKeeps, CreateNothingKeeps, RunCreateKeeps, CopyPointerKeeps, HandKeeps,
     RunRecvKeeps, RecvReturnsKeeps, EraseKeeps, RunManageKeeps, ManageOneKeeps,
     ManageReturnsKeeps, ReadReturnsKeeps DEF PollerStep
<1>2. ASSUME NEW p \in Pollers, Manage(p)
      PROVE  IInv'
  BY <1>2, ManageKeeps
<1>3. ASSUME NEW p \in Pollers, NEW i \in Peers, ServerReads(p, i)
      PROVE  IInv'
  BY <1>3, ServerReadsKeeps
<1>4. ASSUME NEW p \in Pollers, NEW s \in Sessions, Close(p, s)
      PROVE  IInv'
  BY <1>4, CloseKeeps
<1>5. ASSUME NEW p \in Pollers, NEW s \in Sessions, NEW i \in Peers, SessionReads(p, s, i)
      PROVE  IInv'
  BY <1>5, SessionReadsKeeps
<1>6. CASE UNCHANGED vars
  BY <1>6, StutterKeeps
<1> QED
  BY <1>1, <1>2, <1>3, <1>4, <1>5, <1>6 DEF Next, Quiet

(***************************************************************************)
(* The theorems.                                                           *)
(***************************************************************************)

(* The invariant holds of every reachable state.                           *)
THEOREM Invariance == Spec => []IInv
<1>1. Init => IInv
  BY InitIInv
<1>2. IInv /\ [Next]_vars => IInv'
  BY StepKeeps
<1> QED
  BY <1>1, <1>2, PTL DEF Spec

(* What the map, the queues and the threads name exists: no task and no    *)
(* reference leads to a session or a datagram that was never made.         *)
THEOREM TypeCorrect == Spec => []TypeOK
<1>1. IInv => TypeOK
  BY DEF IInv
<1> QED
  BY <1>1, Invariance, PTL

(* However many servers race to make sessions, and however the ends of     *)
(* sessions race with them: the map leads to a peer's own session; an open *)
(* session is in the map; one that is not in the map had onError called,   *)
(* once; and one that had, and is still in the map, is about to be erased  *)
(* by its own thread (UdpServer.cpp:231-235, 265-285).                     *)
THEOREM SessionsAreSound == Spec => []SessionsSound
<1>1. IInv => SessionsSound
  BY DEF IInv, MapToOwn, OpenOrEnded, SessionsSound
<1> QED
  BY <1>1, Invariance, PTL

(* A session's callbacks run on the thread of its own poller, unless the   *)
(* user makes sockets of other pollers, and a session found can vanish     *)
(* under the thread that found it only on another thread than its own      *)
(* (UdpServer.cpp:144-151, 185-188).                                       *)
THEOREM CallbacksAtHome == Spec => []CallbacksOnOwnThread
<1>1. IInv => CallbacksOnOwnThread
  <2> SUFFICES ASSUME IInv, NEW p \in Pollers
               PROVE  /\ at[p].op = "recv" => session[at[p].s].poller = p
                      /\ ending[p] # 0 => session[ending[p]].poller = p
                      /\ at[p].op = "astray" => elsewhere
                      /\ at[p].op = "dangling" => session[at[p].s].poller # p
    BY DEF CallbacksOnOwnThread
  <2>1. at[p].op = "astray" => elsewhere
    BY DEF IInv, PlacesSound, PlaceSound, TypeOK
  <2>2. /\ at[p].op = "recv" => session[at[p].s].poller = p
        /\ at[p].op = "dangling" => session[at[p].s].poller # p
    BY DEF IInv, PlacesSound, PlaceSound
  <2>3. ending[p] # 0 => session[ending[p]].poller = p
    BY DEF IInv, EndsOnce
  <2> QED
    BY <2>1, <2>2, <2>3
<1> QED
  BY <1>1, Invariance, PTL
=============================================================================
