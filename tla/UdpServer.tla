----------------------------- MODULE UdpServer -----------------------------
(***************************************************************************)
(* toolkit::UdpServer: one server per poller, each with a socket bound to  *)
(* the same port, and one map of sessions that all of them share under a   *)
(* mutex.  A datagram may reach any of these sockets, or the socket of     *)
(* another peer's session.  The server looks a session up by an id, makes  *)
(* one if there is none, and hands the datagram over on the session's own  *)
(* poller thread.  The id is the sender, if the server's own socket        *)
(* received the datagram, and otherwise the peer of the session whose      *)
(* socket did.  A session ends with its socket's error.                    *)
(***************************************************************************)
EXTENDS Naturals, Sequences, FiniteSets

CONSTANTS
  Pollers,
  Main,           (* the poller of the server that was started             *)
  Peers,
  MaxInputs       (* bound: datagrams received and runs of the timer       *)

ASSUME ConstantsAssumption ==
  /\ Main \in Pollers
  /\ MaxInputs \in Nat

VARIABLES
  elsewhere,      (* setOnCreateSocket gave a callback that makes sockets  *)
                  (* of other pollers too, or none                         *)
  map,            (* _session_map: each peer's session, 0 without one      *)
  session,        (* the sessions made so far: the peer they stand for in  *)
                  (* the map, poller, server, is the socket open, calls of *)
                  (* onError                                               *)
  packet,         (* the datagrams received so far: sender, the id to look *)
                  (* up, session, state                                    *)
  queue,          (* the tasks each poller has yet to run                  *)
  at,             (* where each poller thread is                           *)
  ending,         (* the session whose onError this thread just called     *)
  reading,        (* the session whose socket this thread reads, or 0      *)
  rounds

vars == <<elsewhere, map, session, packet, queue, at, ending, reading, rounds>>

Idle == [op |-> "idle"]

Init ==
  /\ elsewhere \in BOOLEAN
  /\ map = [i \in Peers |-> 0] /\ session = <<>> /\ packet = <<>>
  /\ queue = [p \in Pollers |-> <<>>]
  /\ at = [p \in Pollers |-> Idle] /\ ending = [p \in Pollers |-> 0]
  /\ reading = [p \in Pollers |-> 0] /\ rounds = 0

(***************************************************************************)
(* A SessionHelper, and with it the session, lives while the map holds it, *)
(* or a copy of the map that a round of onManagerSession made; a thread    *)
(* that copied the pointer keeps the session alive without its helper.     *)
(***************************************************************************)
Sessions == DOMAIN session
Mapped(s) == map[session[s].peer] = s
Copied(s) ==
  \/ \E p \in Pollers : at[p].op = "manage" /\ s \in at[p].copy
  \/ \E p \in Pollers : \E i \in DOMAIN queue[p] :
       queue[p][i].op = "manage" /\ s \in queue[p][i].copy
HelperLives(s) == Mapped(s) \/ Copied(s)
SessionLives(s) ==
  \/ HelperLives(s)
  \/ \E p \in Pollers : at[p].op \in {"hand", "recv"} /\ at[p].s = s

(* nothing is known of what follows a read of a destroyed helper           *)
(* ("dangling") or a callback on another thread than the session's ("astray") *)
Undefined == \E p \in Pollers : at[p].op \in {"dangling", "astray"}
MayRun(p, op) == ~Undefined /\ at[p].op = op /\ ending[p] = 0
MayStart(p) == MayRun(p, "idle") /\ reading[p] = 0
Goto(p, place) == at' = [at EXCEPT ![p] = place]
Post(p, task) == queue' = [queue EXCEPT ![p] = Append(@, task)]

(***************************************************************************)
(* Datagrams.  The server's socket hands every one to onRead_l.            *)
(***************************************************************************)
Receive(peer, id, s, state) ==
  /\ Len(packet) + rounds < MaxInputs
  /\ packet' = Append(packet, [peer |-> peer, id |-> id, s |-> s, state |-> state])

ServerReads(p, peer) ==
  /\ MayStart(p) /\ Receive(peer, peer, 0, "under way")
  /\ Goto(p, [op |-> "look", k |-> Len(packet'), srv |-> p])
  /\ UNCHANGED <<elsewhere, map, session, queue, ending, reading, rounds>>

(* A session's socket is read until nothing is left, even if it is closed  *)
(* by what is done with the first datagrams.  Those of its peer go to the  *)
(* session, if it lives.  Those of other senders, received before the      *)
(* socket was connected, go to onRead_l with this session's id.            *)
SessionReads(p, s, peer) ==
  /\ MayRun(p, "idle") /\ session[s].poller = p
  /\ reading[p] = s \/ (reading[p] = 0 /\ session[s].open)
  /\ reading' = [reading EXCEPT ![p] = s]
  /\ LET id == session[s].peer
     IN  \/ /\ peer = id /\ SessionLives(s) /\ Receive(peer, id, s, "under way")
            /\ Goto(p, [op |-> "recv", k |-> Len(packet'), s |-> s])
         \/ /\ peer = id /\ ~SessionLives(s) /\ Receive(peer, id, s, "lost")
            /\ UNCHANGED at
         \/ /\ peer # id /\ Receive(peer, id, 0, "under way")
            /\ Goto(p, [op |-> "look", k |-> Len(packet'), srv |-> session[s].server])
  /\ UNCHANGED <<elsewhere, map, session, queue, ending, rounds>>

ReadReturns(p) ==
  /\ MayRun(p, "idle") /\ reading[p] # 0
  /\ reading' = [reading EXCEPT ![p] = 0]
  /\ UNCHANGED <<elsewhere, map, session, packet, queue, at, ending, rounds>>

(* getOrCreateSession, under the lock: what it returns is a reference into *)
(* the helper, read after the unlock.                                      *)
LookUp(p) ==
  /\ MayRun(p, "look")
  /\ LET s == map[packet[at[p].k].id]
     IN  IF s # 0
         THEN Goto(p, [op |-> "found", k |-> at[p].k, s |-> s, here |-> FALSE])
         ELSE Goto(p, [at[p] EXCEPT !.op = "create"])
  /\ UNCHANGED <<elsewhere, map, session, packet, queue, ending, reading, rounds>>

(* Mutant: the map is not looked up again; emplace keeps the older entry   *)
CreateUnchecked(p, k, srv, here) ==
  LET id == packet[k].id
      s == Len(session) + 1
  IN  /\ \E bound \in BOOLEAN :
           session' = Append(session, [peer |-> id, poller |-> p, server |-> srv,
                                       open |-> bound, errors |-> 0])
      /\ map' = [map EXCEPT ![id] = IF @ = 0 THEN s ELSE @]
      /\ Goto(p, [op |-> "found", k |-> k, s |-> s, here |-> here])

(* session_creator: the map is looked up again under the lock, and a new   *)
(* session entered in the same section.  Whether its socket was bound is   *)
(* not asked: without that it is never open.                               *)
CreateSession(p, k, srv, here) ==
  LET id == packet[k].id
      s == IF map[id] # 0 THEN map[id] ELSE Len(session) + 1
  IN  /\ IF map[id] # 0
         THEN UNCHANGED <<map, session>>
         ELSE /\ \E bound \in BOOLEAN :
                   session' = Append(session, [peer |-> id, poller |-> p, server |-> srv,
                                               open |-> bound, errors |-> 0])
              /\ map' = [map EXCEPT ![id] = s]
      /\ Goto(p, [op |-> "found", k |-> k, s |-> s, here |-> here])

(* createSession: the callback makes a socket; on its own poller it goes   *)
(* on at once, on another one by a task.                                   *)
Create(p) ==
  /\ MayRun(p, "create")
  /\ \E q \in IF elsewhere THEN Pollers ELSE {at[p].srv} :
       IF q = p
       THEN CreateSession(p, at[p].k, at[p].srv, FALSE) /\ UNCHANGED queue
       ELSE /\ Post(q, [op |-> "create", k |-> at[p].k, srv |-> at[p].srv])
            /\ Goto(p, Idle) /\ UNCHANGED <<map, session>>
  /\ UNCHANGED <<elsewhere, packet, ending, reading, rounds>>

(* The user's callback makes none: the datagram is dropped.                *)
CreateNothing(p) ==
  /\ MayRun(p, "create") /\ elsewhere
  /\ packet' = [packet EXCEPT ![at[p].k].state = "dropped"]
  /\ Goto(p, Idle)
  /\ UNCHANGED <<elsewhere, map, session, queue, ending, reading, rounds>>

RunCreate(p) ==
  /\ MayStart(p) /\ queue[p] # <<>> /\ Head(queue[p]).op = "create"
  /\ CreateSession(p, Head(queue[p]).k, Head(queue[p]).srv, TRUE)
  /\ queue' = [queue EXCEPT ![p] = Tail(@)]
  /\ UNCHANGED <<elsewhere, packet, ending, reading, rounds>>

(* "auto session = ": the reference is read, and the helper it leads into  *)
(* may have been destroyed meanwhile.                                      *)
CopyPointer(p) ==
  /\ MayRun(p, "found")
  /\ IF HelperLives(at[p].s)
     THEN Goto(p, [at[p] EXCEPT !.op = "hand"])
     ELSE Goto(p, [op |-> "dangling", s |-> at[p].s])
  /\ UNCHANGED <<elsewhere, map, session, packet, queue, ending, reading, rounds>>

(* Mutant: the thread is not asked for                                     *)
HandHere(p) ==
  /\ MayRun(p, "hand")
  /\ packet' = [packet EXCEPT ![at[p].k].s = at[p].s]
  /\ Goto(p, [op |-> "recv", k |-> at[p].k, s |-> at[p].s])
  /\ UNCHANGED <<elsewhere, map, session, queue, ending, reading, rounds>>

(* onRead_l: the session's own thread calls onRecv, another one queues a   *)
(* copy of the data; the task of createSession (here) does not ask.        *)
Hand(p) ==
  /\ MayRun(p, "hand")
  /\ LET s == at[p].s  k == at[p].k
     IN  /\ packet' = [packet EXCEPT ![k].s = s]
         /\ IF session[s].poller = p
            THEN Goto(p, [op |-> "recv", k |-> k, s |-> s]) /\ UNCHANGED queue
            ELSE IF at[p].here
            THEN Goto(p, [op |-> "astray", s |-> s]) /\ UNCHANGED queue
            ELSE /\ Post(session[s].poller, [op |-> "recv", k |-> k, s |-> s])
                 /\ Goto(p, Idle)
  /\ UNCHANGED <<elsewhere, map, session, ending, reading, rounds>>

(* the task holds a weak pointer                                           *)
RunRecv(p) ==
  /\ MayStart(p) /\ queue[p] # <<>> /\ Head(queue[p]).op = "recv"
  /\ LET t == Head(queue[p])
     IN  IF SessionLives(t.s)
         THEN Goto(p, t) /\ UNCHANGED packet
         ELSE /\ packet' = [packet EXCEPT ![t.k].state = "lost"]
              /\ UNCHANGED at
  /\ queue' = [queue EXCEPT ![p] = Tail(@)]
  /\ UNCHANGED <<elsewhere, map, session, ending, reading, rounds>>

(* Mutant: the error callback is called for every call of shutdown         *)
ShutdownAgain(p, s) ==
  /\ session' = [session EXCEPT ![s].open = FALSE, ![s].errors = @ + 1]
  /\ ending' = [ending EXCEPT ![p] = s]

(***************************************************************************)
(* The end of a session, on its own thread.  shutdown is emitErr: it       *)
(* closes the socket once, and the error callback is called inside it.     *)
(***************************************************************************)
Shutdown(p, s) ==
  IF session[s].open
  THEN /\ session' = [session EXCEPT ![s].open = FALSE, ![s].errors = @ + 1]
       /\ ending' = [ending EXCEPT ![p] = s]
  ELSE UNCHANGED <<session, ending>>

(* the session's onRecv comes back, or throws                              *)
RecvReturns(p) ==
  /\ MayRun(p, "recv")
  /\ packet' = [packet EXCEPT ![at[p].k].state = "received"]
  /\ Goto(p, Idle)
  /\ UNCHANGED <<session, ending>> \/ Shutdown(p, at[p].s)
  /\ UNCHANGED <<elsewhere, map, queue, reading, rounds>>

(* an error of the socket, the session's own timer or a task of safeShutdown *)
Close(p, s) ==
  /\ MayStart(p) /\ session[s].poller = p /\ session[s].open
  /\ Shutdown(p, s)
  /\ UNCHANGED <<elsewhere, map, packet, queue, at, reading, rounds>>

(* Mutant: the strong reference the token needs is gone                    *)
EraseNothing(p) ==
  /\ ~Undefined /\ ending[p] # 0
  /\ ending' = [ending EXCEPT ![p] = 0]
  /\ UNCHANGED <<elsewhere, map, session, packet, queue, at, reading, rounds>>

(* the token of the error callback, after onError                          *)
Erase(p) ==
  /\ ~Undefined /\ ending[p] # 0
  /\ map' = [map EXCEPT ![session[ending[p]].peer] = 0]
  /\ ending' = [ending EXCEPT ![p] = 0]
  /\ UNCHANGED <<elsewhere, session, packet, queue, at, reading, rounds>>

(***************************************************************************)
(* onManagerSession: the timer of the started server copies the map and    *)
(* gives the copy to every poller; on its own it is run at once.           *)
(***************************************************************************)
Manage(p) ==
  /\ p = Main /\ MayStart(p) /\ Len(packet) + rounds < MaxInputs
  /\ rounds' = rounds + 1
  /\ LET job == [op |-> "manage", copy |-> {map[i] : i \in Peers} \ {0},
                 left |-> {map[i] : i \in Peers} \ {0}]
     IN  /\ queue' = [q \in Pollers |-> IF q = p THEN queue[q] ELSE Append(queue[q], job)]
         /\ Goto(p, job)
  /\ UNCHANGED <<elsewhere, map, session, packet, ending, reading>>

RunManage(p) ==
  /\ MayStart(p) /\ queue[p] # <<>> /\ Head(queue[p]).op = "manage"
  /\ Goto(p, Head(queue[p]))
  /\ queue' = [queue EXCEPT ![p] = Tail(@)]
  /\ UNCHANGED <<elsewhere, map, session, packet, ending, reading, rounds>>

(* onManager of one of this poller's sessions, which may shut it down      *)
ManageOne(p) ==
  /\ MayRun(p, "manage")
  /\ \E s \in at[p].left :
       /\ Goto(p, [at[p] EXCEPT !.left = @ \ {s}])
       /\ \/ UNCHANGED <<session, ending>>
          \/ session[s].poller = p /\ Shutdown(p, s)
  /\ UNCHANGED <<elsewhere, map, packet, queue, reading, rounds>>

ManageReturns(p) ==
  /\ MayRun(p, "manage") /\ at[p].left = {}
  /\ Goto(p, Idle)
  /\ UNCHANGED <<elsewhere, map, session, packet, queue, ending, reading, rounds>>

(* nobody sends, or what happens is undefined                              *)
Quiet ==
  /\ \/ Undefined
     \/ \A p \in Pollers : at[p] = Idle /\ queue[p] = <<>> /\ ending[p] = 0
                         /\ reading[p] = 0
  /\ UNCHANGED vars

PollerStep(p) ==
  \/ ReadReturns(p)
  \/ LookUp(p) \/ Create(p) \/ CreateNothing(p) \/ RunCreate(p) \/ CopyPointer(p) \/ Hand(p)
  \/ RunRecv(p) \/ RecvReturns(p) \/ Erase(p)
  \/ RunManage(p) \/ ManageOne(p) \/ ManageReturns(p)

Next ==
  \/ \E p \in Pollers :
       \/ PollerStep(p) \/ Manage(p)
       \/ \E i \in Peers : ServerReads(p, i)
       \/ \E s \in Sessions : Close(p, s) \/ \E i \in Peers : SessionReads(p, s, i)
  \/ Quiet

Spec == Init /\ [][Next]_vars

(* a thread that has something to do does it; nothing makes datagrams come, *)
(* the timer fire or a session close                                       *)
FairSpec == Spec /\ \A p \in Pollers : WF_vars(PollerStep(p))

(***************************************************************************)
(* Properties.                                                             *)
(***************************************************************************)
States == {"under way", "received", "lost", "dropped"}
Jobs == [op : {"manage"}, copy : SUBSET Sessions, left : SUBSET Sessions]
Recvs == [op : {"recv"}, k : DOMAIN packet, s : Sessions]
Tasks == Jobs \union Recvs \union [op : {"create"}, k : DOMAIN packet, srv : Pollers]
Places ==
  {Idle} \union Jobs \union Recvs
    \union [op : {"look", "create"}, k : DOMAIN packet, srv : Pollers]
    \union [op : {"found", "hand"}, k : DOMAIN packet, s : Sessions, here : BOOLEAN]
    \union [op : {"dangling", "astray"}, s : Sessions]

(* The type invariant; a session's map entry and the records of queues and *)
(* threads name sessions and datagrams that exist.                         *)
TypeOK ==
  /\ elsewhere \in BOOLEAN
  /\ map \in [Peers -> 0 .. Len(session)]
  /\ session \in Seq([peer : Peers, poller : Pollers, server : Pollers,
                      open : BOOLEAN, errors : 0 .. 1])
  /\ packet \in Seq([peer : Peers, id : Peers, s : 0 .. Len(session), state : States])
  /\ queue \in [Pollers -> Seq(Tasks)]
  /\ at \in [Pollers -> Places]
  /\ ending \in [Pollers -> 0 .. Len(session)]
  /\ reading \in [Pollers -> 0 .. Len(session)]
  /\ rounds \in 0 .. MaxInputs

(* However two servers race to make the session of one peer, and however   *)
(* the end of a session races with them: the map leads each peer to its    *)
(* own session; an open session is in the map (so a peer has one open      *)
(* session at most); a session is out of the map only after onError was    *)
(* called, once, and one whose onError was called is in the map only until *)
(* its own thread, which called it, erases it (UdpServer.cpp:231-235,      *)
(* 265-285).                                                               *)
SessionsSound ==
  /\ \A i \in Peers : map[i] # 0 => session[map[i]].peer = i
  /\ \A s \in Sessions : session[s].open => Mapped(s)
  /\ \A s \in Sessions : ~Mapped(s) => session[s].errors = 1
  /\ \A s \in Sessions :
       session[s].errors = 1 /\ Mapped(s) => ending[session[s].poller] = s

(* A session's onRecv, onManager and onError run on the thread of its own  *)
(* poller, so never two at a time, if its socket is one of the server's    *)
(* own poller (UdpServer.cpp:144-151, 185-188); and the reference that     *)
(* getOrCreateSession returns after the unlock can only dangle on another  *)
(* thread than the session's.                                              *)
CallbacksOnOwnThread ==
  \A p \in Pollers :
    /\ at[p].op = "recv" => session[at[p].s].poller = p
    /\ ending[p] # 0 => session[ending[p]].poller = p
    /\ at[p].op = "astray" => elsewhere
    /\ at[p].op = "dangling" => session[at[p].s].poller # p

Handled(k) ==
  \/ packet[k].state = "received" /\ session[packet[k].s].peer = packet[k].id
  \/ packet[k].state = "lost" /\ session[packet[k].s].errors = 1
  \/ packet[k].state = "dropped" /\ elsewhere
Gone(s) == session[s].errors = 1 => ~Mapped(s)
Served == (\A k \in DOMAIN packet : Handled(k)) /\ (\A s \in Sessions : Gone(s))

(* Every datagram reaches onRecv of a session of the peer it was looked up *)
(* for, or is lost because that session had ended, or dropped because the  *)
(* user's callback made no socket; and a session that ends leaves the map  *)
(* (UdpServer.cpp:152-159, 216-219, 256-263, 269-278, 303): since inputs   *)
(* are bounded, again and again this is true of all of them at once.  A    *)
(* datagram is looked up for its sender only if a server's socket received *)
(* it (see SenderServed), and a session whose socket could not be bound    *)
(* does not end.                                                           *)
SessionsServed == []<>(Undefined \/ Served)

(* What the comment at UdpServer.cpp:262 says of datagrams that a session's *)
(* socket receives from other senders; onRead_l gets the session's own id. *)
SenderServed ==
  \A k \in DOMAIN packet :
    packet[k].state = "received" => session[packet[k].s].peer = packet[k].peer
=============================================================================
