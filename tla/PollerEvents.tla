---------------------------- MODULE PollerEvents ----------------------------
(***************************************************************************)
(* toolkit::EventPoller: the descriptor events of one poller, as sockets   *)
(* use them.  epoll knows a file, the program knows its number, and a      *)
(* number that was closed is soon another file's.  The loop thread calls   *)
(* addEvent and delEvent at once, other threads by a task; a socket's      *)
(* descriptor is removed and closed with its last reference (SockFD); and  *)
(* epoll_wait returns a batch of events, which the loop looks up by number *)
(* one after the other, while the callbacks open and close descriptors.    *)
(***************************************************************************)
EXTENDS Naturals, SequencesExt

CONSTANTS
  MaxNumber,      (* bound: descriptor numbers                             *)
  MaxSockets,     (* bound: descriptors ever opened                        *)
  Switched,       (* bound: the sockets for which enableRecv is called     *)
  Loop, Other,    (* the loop thread, and any other one                    *)
  None, Pipe

Numbers == 1 .. MaxNumber
Sockets == 1 .. MaxSockets

ASSUME ConstantsAssumption ==
  /\ MaxNumber \in Nat /\ MaxSockets \in Nat /\ Switched \subseteq Sockets
  /\ Loop # Other /\ None \notin Nat /\ Pipe \notin Nat

VARIABLES
  number,         (* the descriptor number of each open socket             *)
  life,           (* of its SockFD: new, open, leaving, closed             *)
  held,           (* the sockets somebody holds a reference to             *)
  asked,          (* the sockets for which addEvent was called             *)
  overtaken,      (* those whose addEvent was still queued when delEvent   *)
                  (* was executed                                          *)
  muted,          (* those for which enableRecv(false) was ever called     *)
  recv,           (* those with _enable_recv                               *)
  data,           (* those with data in the kernel                         *)
  polled,         (* those that are registered with epoll                  *)
  ready,          (* epoll's ready list                                    *)
  eventMap,       (* _event_map: the socket whose callback each number has *)
  queue,          (* tasks of other threads                                *)
  todo,           (* those that onPipeEvent has taken                      *)
  events,         (* events[], without those dealt with                    *)
  fresh,          (* the sockets registered since epoll_wait returned      *)
  at, current     (* the place in the loop, the socket of the callback     *)

socketVars == <<number, life, held, asked>>
userVars == <<muted, recv>>
loopVars == <<todo, events, at, current>>
vars == <<socketVars, userVars, overtaken, data, polled, ready, eventMap, queue, fresh,
          loopVars>>

Init ==
  /\ number = [s \in Sockets |-> None] /\ life = [s \in Sockets |-> "new"]
  /\ held = {} /\ asked = {} /\ overtaken = {}
  /\ muted = {} /\ recv = Sockets /\ data = {} /\ polled = {} /\ ready = {}
  /\ eventMap = [n \in Numbers |-> None]
  /\ queue = <<>> /\ todo = <<>> /\ events = <<>> /\ fresh = {}
  /\ at = "wait" /\ current = None

-----------------------------------------------------------------------------
(* addEvent and delEvent on the loop thread. *)

(* The file that epoll_ctl finds under a number. *)
FileAt(n) == {s \in Sockets : number[s] = n}

(* EPOLL_CTL_ADD fails with EBADF or EEXIST.  A new registration is ready  *)
(* at once if the file is.  emplace keeps an entry that is there.          *)
AddHere(s, n) ==
  LET new == FileAt(n) \ polled
  IN  /\ polled' = polled \union new
      /\ ready' = ready \union (new \intersect data)
      /\ eventMap' = IF new # {} /\ eventMap[n] = None THEN [eventMap EXCEPT ![n] = s]
                     ELSE eventMap
      /\ fresh' = fresh \union new

(* Mutant: the entry stays. *)
DelHereKeeping(s) == UNCHANGED eventMap

(* EPOLL_CTL_DEL, and the entry only if that succeeded. *)
DelHere(s) ==
  eventMap' = IF s \in polled THEN [eventMap EXCEPT ![number[s]] = None] ELSE eventMap

(* Is a call of addEvent for the socket still a task? *)
AddQueued(s) ==
  \E q \in {queue, todo} : \E i \in DOMAIN q : q[i] = [op |-> "add", s |-> s, n |-> number[s]]

(* ~SockFD on the loop thread, or its task: the callback of delEvent is    *)
(* the last to hold the number, which is closed with it.                   *)
CloseHere(s) ==
  /\ DelHere(s)
  /\ polled' = polled \ {s} /\ ready' = ready \ {s} /\ data' = data \ {s}
  /\ number' = [number EXCEPT ![s] = None] /\ life' = [life EXCEPT ![s] = "closed"]
  /\ overtaken' = IF AddQueued(s) THEN overtaken \union {s} ELSE overtaken

-----------------------------------------------------------------------------
(* What the program does: on the loop thread in a timer's task, before     *)
(* epoll_wait, in another task, or in a callback; on another thread at any *)
(* time.                                                                   *)

MayRun(x) == x = Other \/ at \in {"wait", "tasks", "callback"}

(* socket() or accept() gives the lowest number that is free. *)
Open(s, n) ==
  /\ life[s] = "new" /\ \A t \in Sockets : t < s => life[t] # "new"
  /\ FileAt(n) = {} /\ \A m \in Numbers : m < n => FileAt(m) # {}
  /\ number' = [number EXCEPT ![s] = n] /\ life' = [life EXCEPT ![s] = "open"]
  /\ held' = held \union {s}
  /\ UNCHANGED <<asked, userVars, overtaken, data, polled, ready, eventMap, queue, fresh,
                 loopVars>>

(* The task has the number and the callback, with weak pointers only. *)
AddEvent(x, s) ==
  /\ MayRun(x) /\ s \in held \ asked
  /\ asked' = asked \union {s}
  /\ IF x = Loop
     THEN AddHere(s, number[s]) /\ UNCHANGED queue
     ELSE /\ queue' = Append(queue, [op |-> "add", s |-> s, n |-> number[s]])
          /\ UNCHANGED <<polled, ready, eventMap, fresh>>
  /\ UNCHANGED <<number, life, held, userVars, overtaken, data, loopVars>>

(* Mutant: the number is closed first, and read for the task afterwards. *)
LeaveClosing(s) ==
  /\ number' = [number EXCEPT ![s] = None] /\ life' = [life EXCEPT ![s] = "closed"]
  /\ queue' = Append(queue, [op |-> "del", s |-> s, n |-> number'[s]])
  /\ polled' = polled \ {s} /\ ready' = ready \ {s} /\ data' = data \ {s}
  /\ UNCHANGED <<eventMap, overtaken>>

(* ~SockFD on another thread. *)
Leave(s) ==
  /\ queue' = Append(queue, [op |-> "del", s |-> s, n |-> number[s]])
  /\ life' = [life EXCEPT ![s] = "leaving"]
  /\ UNCHANGED <<number, polled, ready, data, eventMap, overtaken>>

(* The last reference is dropped.  The callback of the socket's own event  *)
(* holds another one.                                                      *)
Release(x, s) ==
  /\ MayRun(x) /\ s \in held
  /\ held' = held \ {s}
  /\ CASE current = s -> UNCHANGED <<number, life, overtaken, data, polled, ready,
                                     eventMap, queue>>
       [] current # s /\ x = Loop -> CloseHere(s) /\ UNCHANGED queue
       [] current # s /\ x = Other -> Leave(s)
  /\ UNCHANGED <<asked, userVars, fresh, loopVars>>

(* enableRecv.  Its modifyEvent has no effect: Linux refuses EPOLL_CTL_MOD *)
(* for a registration with EPOLLEXCLUSIVE.                                 *)
EnableRecv(s, enabled) ==
  /\ s \in held \intersect Switched /\ (s \in recv) # enabled
  /\ recv' = IF enabled THEN recv \union {s} ELSE recv \ {s}
  /\ muted' = IF enabled THEN muted ELSE muted \union {s}
  /\ UNCHANGED <<socketVars, overtaken, data, polled, ready, eventMap, queue, fresh, loopVars>>

(* Something arrives: an edge. *)
Arrives(s) ==
  /\ number[s] # None
  /\ data' = data \union {s}
  /\ ready' = ready \union ({s} \intersect polled)
  /\ UNCHANGED <<socketVars, userVars, overtaken, polled, eventMap, queue, fresh, loopVars>>

-----------------------------------------------------------------------------
(* The loop. *)

(* The pipe's event stands for any number of tasks. *)
Pending ==
  {[n |-> number[s], s |-> s] : s \in ready}
    \union (IF queue = <<>> THEN {} ELSE {[n |-> Pipe, s |-> None]})

WaitReturns ==
  /\ at = "wait" /\ Pending # {}
  /\ events' \in SetToSeqs(Pending)
  /\ ready' = {} /\ fresh' = {}
  /\ at' = "dispatch"
  /\ UNCHANGED <<socketVars, userVars, overtaken, data, polled, eventMap, queue, todo, current>>

EndBatch ==
  /\ at = "dispatch" /\ events = <<>>
  /\ at' = "wait"
  /\ UNCHANGED <<socketVars, userVars, overtaken, data, polled, ready, eventMap, queue, fresh,
                 todo, events, current>>

DispatchPipe ==
  /\ at = "dispatch" /\ events # <<>> /\ Head(events).n = Pipe
  /\ events' = Tail(events)
  /\ todo' = queue /\ queue' = <<>>
  /\ at' = "tasks"
  /\ UNCHANGED <<socketVars, userVars, overtaken, data, polled, ready, eventMap, fresh, current>>

(* Mutant: break instead of continue. *)
DispatchMissingBreak ==
  /\ at = "dispatch" /\ events # <<>> /\ Head(events).n # Pipe
  /\ eventMap[Head(events).n] = None
  /\ events' = <<>>
  /\ polled' = polled \ FileAt(Head(events).n) /\ ready' = ready \ FileAt(Head(events).n)
  /\ UNCHANGED <<socketVars, userVars, overtaken, data, eventMap, queue, fresh, todo, at,
                 current>>

(* No callback under the number: whatever has it is removed from epoll. *)
DispatchMissing ==
  /\ at = "dispatch" /\ events # <<>> /\ Head(events).n # Pipe
  /\ eventMap[Head(events).n] = None
  /\ events' = Tail(events)
  /\ polled' = polled \ FileAt(Head(events).n) /\ ready' = ready \ FileAt(Head(events).n)
  /\ UNCHANGED <<socketVars, userVars, overtaken, data, eventMap, queue, fresh, todo, at,
                 current>>

(* Mutant: the socket is used without a look at the weak pointers. *)
DispatchUnchecked ==
  /\ at = "dispatch" /\ events # <<>> /\ Head(events).n # Pipe
  /\ LET s == eventMap[Head(events).n]
     IN  s # None /\ data' = data \ ({s} \intersect recv) /\ current' = s
  /\ at' = "callback"
  /\ UNCHANGED <<socketVars, userVars, overtaken, polled, ready, eventMap, queue, fresh, todo,
                 events>>

(* The callback: its weak pointers tell if the socket is still there.  All *)
(* data is read, unless receiving is switched off.                         *)
Dispatch ==
  /\ at = "dispatch" /\ events # <<>> /\ Head(events).n # Pipe
  /\ LET s == eventMap[Head(events).n]
     IN  /\ s # None
         /\ IF life[s] = "open"
            THEN /\ data' = data \ ({s} \intersect recv)
                 /\ at' = "callback" /\ current' = s /\ UNCHANGED events
            ELSE /\ events' = Tail(events) /\ UNCHANGED <<data, at, current>>
  /\ UNCHANGED <<socketVars, userVars, overtaken, polled, ready, eventMap, queue, fresh, todo>>

(* The callback lets go of the socket. *)
CallbackReturns ==
  /\ at = "callback"
  /\ at' = "dispatch" /\ events' = Tail(events) /\ current' = None
  /\ IF current \in held
     THEN UNCHANGED <<number, life, overtaken, data, polled, ready, eventMap>>
     ELSE CloseHere(current)
  /\ UNCHANGED <<held, asked, userVars, queue, fresh, todo>>

RunTask ==
  /\ at = "tasks" /\ todo # <<>>
  /\ todo' = Tail(todo)
  /\ LET t == Head(todo)
     IN  IF t.op = "add"
         THEN AddHere(t.s, t.n) /\ UNCHANGED <<number, life, overtaken, data>>
         ELSE CloseHere(t.s) /\ UNCHANGED fresh
  /\ UNCHANGED <<held, asked, userVars, queue, events, at, current>>

EndTasks ==
  /\ at = "tasks" /\ todo = <<>>
  /\ at' = "dispatch"
  /\ UNCHANGED <<socketVars, userVars, overtaken, data, polled, ready, eventMap, queue, fresh,
                 todo, events, current>>

LoopStep ==
  \/ WaitReturns \/ EndBatch \/ DispatchPipe \/ DispatchMissing \/ Dispatch
  \/ CallbackReturns \/ RunTask \/ EndTasks

(* All sockets are gone. *)
Quiet ==
  /\ at = "wait" /\ Pending = {} /\ \A s \in Sockets : life[s] = "closed"
  /\ UNCHANGED vars

Next ==
  \/ LoopStep \/ Quiet
  \/ \E s \in Sockets :
       \/ \E n \in Numbers : Open(s, n)
       \/ \E x \in {Loop, Other} : AddEvent(x, s) \/ Release(x, s)
       \/ \E enabled \in BOOLEAN : EnableRecv(s, enabled)
       \/ Arrives(s)

Spec == Init /\ [][Next]_vars

(* The loop runs and callbacks return; nothing makes the program or the    *)
(* network do anything.                                                    *)
FairSpec == Spec /\ WF_vars(LoopStep)

-----------------------------------------------------------------------------
(* Properties. *)

Tasks == [op : {"add", "del"}, s : Sockets, n : Numbers]

(* Every variable holds a value of its type. *)
TypeOK ==
  /\ number \in [Sockets -> Numbers \union {None}]
  /\ life \in [Sockets -> {"new", "open", "leaving", "closed"}]
  /\ {held, asked, overtaken, muted, recv, data, polled, ready, fresh}
       \subseteq SUBSET Sockets
  /\ eventMap \in [Numbers -> Sockets \union {None}]
  /\ queue \in Seq(Tasks) /\ todo \in Seq(Tasks)
  /\ events \in Seq([n : Numbers, s : Sockets] \union [n : {Pipe}, s : {None}])
  /\ at \in {"wait", "dispatch", "tasks", "callback"}
  /\ current \in Sockets \union {None}

(* epoll and _event_map name the same descriptors, and the callback under  *)
(* a number is that of the file which now has the number: a descriptor is  *)
(* closed only after it was removed (SockFD, EventPoller.cpp:112-162).     *)
(* The exception is a socket that another thread registered and the loop   *)
(* thread dropped before: its task registers whatever has the number.      *)
RegistrationsSound ==
  /\ \A s \in polled : eventMap[number[s]] # None
  /\ \A n \in Numbers : eventMap[n] # None =>
       \/ FileAt(n) \intersect polled = {eventMap[n]}
       \/ eventMap[n] \in overtaken /\ FileAt(n) \subseteq polled

(* A callback is called for an event of its own file, however numbers are  *)
(* used again; only one that was registered since epoll_wait returned may  *)
(* be given what an earlier owner of the number left in events[] (294-302). *)
EventsOwn ==
  at = "callback" => current = Head(events).s \/ current \in fresh

(* Its callback is in place. *)
Registered(s) == s \in polled /\ eventMap[number[s]] = s

(* Edges are not lost: what arrives for a registered socket is read,       *)
(* unless the socket is dropped or receiving was ever switched off         *)
(* (288-308, Socket.cpp 253-333, 782-791).                                 *)
DataRead ==
  \A s \in Sockets :
    (s \in data /\ Registered(s)) ~> (s \notin data \/ s \notin held \/ s \in muted)
=============================================================================
