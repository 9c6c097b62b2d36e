----------------------------- MODULE SocketSend -----------------------------
(***************************************************************************)
(* The sending half of toolkit::Socket for a connected TCP socket with     *)
(* enable_mutex: send moves a packet into the first-level buffer           *)
(* (_send_buf_waiting), flushData moves what is there into a local list    *)
(* and writes it, and what the kernel does not take goes back into the     *)
(* second-level buffer (_send_buf_sending).  flushData runs on any thread  *)
(* that calls send, under _mtx_sock_fd, and on the poller thread in        *)
(* onWriteAble, without it.                                                *)
(*                                                                         *)
(* The descriptor is registered for reading and writing, edge-triggered    *)
(* and EPOLLEXCLUSIVE, for its whole life: Linux refuses to modify a       *)
(* registration with EPOLLEXCLUSIVE (EINVAL), so startWriteAbleEvent and   *)
(* stopWriteAbleEvent change _sendable and nothing else.                   *)
(*                                                                         *)
(* Data is counted in packets: the kernel takes a packet whole or not.     *)
(*                                                                         *)
(* The callbacks on_read, on_flush and on_err run on the poller thread     *)
(* under _mtx_event, and may call the socket: send, shutdown (emitErr), or *)
(* a function such as rawFD and get_peer_ip that looks at _sock_fd.        *)
(***************************************************************************)
EXTENDS Naturals, Sequences, FiniteSets, SequencesExt

CONSTANTS
  Senders,        (* threads other than the poller's that call send        *)
  Poller,         (* the poller thread                                     *)
  Packets,        (* one element per call of send                          *)
  None,
  CallbackCalls,  (* callbacks may call functions of their socket          *)
  MayReset,       (* the peer may reset the connection                     *)
  SndCap,         (* packets the kernel's send buffer holds                *)
  MaxReads        (* bound: how often data arrives from the peer           *)

Threads == Senders \union {Poller}

ASSUME ConstantsAssumption ==
  /\ Poller \notin Senders
  /\ None \notin Packets
  /\ CallbackCalls \in BOOLEAN /\ MayReset \in BOOLEAN
  /\ SndCap \in Nat \ {0} /\ MaxReads \in Nat

VARIABLES
  waiting,        (* _send_buf_waiting                                     *)
  sending,        (* _send_buf_sending                                     *)
  tmp,            (* per thread: send_buf_sending_tmp of its flushData     *)
  pc, arg,        (* per thread: where it is, the packet it sends          *)
  outer,          (* the callback that runs on the poller thread           *)
  events,         (* what the poller thread has yet to dispatch            *)
  sendable,       (* _sendable                                             *)
  open,           (* _sock_fd is set                                       *)
  onErr,          (* how often emitErr closed the socket and asked for on_err *)
  errTasks,       (* the calls of on_err that wait at the poller           *)
  order,          (* the packets in the order they entered _send_buf_waiting *)
  out,            (* the packets in the order the kernel took them         *)
  dropped,        (* the packets given up after a write error              *)
  unacked,        (* packets in the kernel's send buffer                   *)
  noSpace,        (* a write met a full send buffer (SOCK_NOSPACE)         *)
  input, reads,   (* received data is pending; how often data arrived      *)
  reset,          (* the connection was reset                              *)
  edge            (* the descriptor is on epoll's ready list               *)

buffers == <<waiting, sending, tmp>>
threads == <<pc, arg, outer, events>>
state == <<sendable, open, onErr, errTasks>>
history == <<order, out, dropped>>
kernel == <<unacked, noSpace, input, reads, reset, edge>>
vars == <<buffers, threads, state, history, kernel>>

(* attachEvent: a fresh descriptor is writable, and epoll says so once. *)
Init ==
  /\ waiting = <<>> /\ sending = <<>> /\ tmp = [x \in Threads |-> <<>>]
  /\ pc = [x \in Threads |-> "idle"] /\ arg = [x \in Threads |-> None]
  /\ outer = "none" /\ events = {}
  /\ sendable = TRUE /\ open = TRUE /\ onErr = 0 /\ errTasks = 0
  /\ order = <<>> /\ out = <<>> /\ dropped = {}
  /\ unacked = 0 /\ noSpace = FALSE /\ input = FALSE /\ reads = 0
  /\ reset = FALSE /\ edge = TRUE

Goto(x, label) == pc' = [pc EXCEPT ![x] = label]

-----------------------------------------------------------------------------
(* Locks.  Who holds one follows from where the thread is; all are         *)
(* recursive, so only other threads are kept out.                          *)

(* The poller thread inside flushData(sock, true), or on its way there. *)
OnPoller(x) == x = Poller /\ outer = "none"

InFlush == {"swap", "refill", "move", "write", "start", "rollback", "emit", "close"}

(* _mtx_sock_fd: flushAll keeps it while flushData runs. *)
HoldsFd(x) == pc[x] \in InFlush /\ ~OnPoller(x)

(* Mutant: the scope of the guard reaches to the end of flushData. *)
HoldsWaitingLong(x) == pc[x] \in {"move", "write", "emit", "close"}

(* _mtx_send_buf_waiting is kept while flushData asks for _mtx_event. *)
HoldsWaiting(x) == pc[x] = "move"

(* _mtx_event is kept while a callback runs. *)
HoldsEvent(x) == x = Poller /\ outer # "none"

MayTakeFd(x) == \A y \in Threads \ {x} : ~HoldsFd(y)
MayTakeWaiting(x) == \A y \in Threads \ {x} : ~HoldsWaiting(y)
MayTakeEvent(x) == \A y \in Threads \ {x} : ~HoldsEvent(y)

-----------------------------------------------------------------------------
(* send and flushAll. *)

(* Callers are threads of the user, and callbacks on the poller thread. *)
MayCall(x) == pc[x] = "idle" /\ (x = Poller => outer # "none" /\ CallbackCalls)

Send(x, p) ==
  /\ MayCall(x)
  /\ p \notin ToSet(order) /\ \A y \in Threads : arg[y] # p
  /\ arg' = [arg EXCEPT ![x] = p]
  /\ Goto(x, "enqueue")
  /\ UNCHANGED <<buffers, outer, events, state, history, kernel>>

(* Mutant: the buffer is moved from before it is stored. *)
EnqueueMoved(x) ==
  /\ pc[x] = "enqueue" /\ MayTakeWaiting(x)
  /\ waiting' = Append(waiting, None) /\ order' = Append(order, arg[x])
  /\ arg' = [arg EXCEPT ![x] = None]
  /\ Goto(x, "flushAll")
  /\ UNCHANGED <<sending, tmp, outer, events, state, out, dropped, kernel>>

Enqueue(x) ==
  /\ pc[x] = "enqueue" /\ MayTakeWaiting(x)
  /\ waiting' = Append(waiting, arg[x]) /\ order' = Append(order, arg[x])
  /\ arg' = [arg EXCEPT ![x] = None]
  /\ Goto(x, "flushAll")
  /\ UNCHANGED <<sending, tmp, outer, events, state, out, dropped, kernel>>

(* flushAll: a socket that is not sendable for too long is given up. *)
FlushAll(x) ==
  /\ pc[x] = "flushAll" /\ MayTakeFd(x)
  /\ \/ ~open /\ Goto(x, "idle")
     \/ open /\ sendable /\ Goto(x, "swap")
     \/ open /\ ~sendable /\ (Goto(x, "idle") \/ Goto(x, "emit"))
  /\ UNCHANGED <<buffers, arg, outer, events, state, history, kernel>>

-----------------------------------------------------------------------------
(* flushData. *)

(* Mutant: the second-level buffer is not looked at first. *)
SwapSkipped(x) ==
  /\ pc[x] = "swap"
  /\ Goto(x, "refill")
  /\ UNCHANGED <<buffers, arg, outer, events, state, history, kernel>>

(* What was left over last time comes first. *)
Swap(x) ==
  /\ pc[x] = "swap"
  /\ tmp' = [tmp EXCEPT ![x] = sending]
  /\ sending' = <<>>
  /\ Goto(x, IF sending = <<>> THEN "refill" ELSE "write")
  /\ UNCHANGED <<waiting, arg, outer, events, state, history, kernel>>

(* Nothing is left over: look at the first-level buffer. *)
Refill(x) ==
  /\ pc[x] = "refill" /\ MayTakeWaiting(x)
  /\ Goto(x, IF waiting # <<>> THEN "move"
             ELSE IF OnPoller(x) THEN "stopFlushed" ELSE "idle")
  /\ UNCHANGED <<buffers, arg, outer, events, state, history, kernel>>

(* The callback is copied under _mtx_event, _mtx_send_buf_waiting held. *)
Move(x) ==
  /\ pc[x] = "move" /\ MayTakeEvent(x)
  /\ tmp' = [tmp EXCEPT ![x] = waiting] /\ waiting' = <<>>
  /\ Goto(x, "write")
  /\ UNCHANGED <<sending, arg, outer, events, state, history, kernel>>

(* The kernel takes what fits; what does not fit is met with EAGAIN. *)
Write(x) ==
  LET room == SndCap - unacked
      n    == IF Len(tmp[x]) <= room THEN Len(tmp[x]) ELSE room
      rest == SubSeq(tmp[x], n + 1, Len(tmp[x]))
  IN
  /\ pc[x] = "write" /\ ~reset
  /\ out' = out \o SubSeq(tmp[x], 1, n) /\ unacked' = unacked + n
  /\ tmp' = [tmp EXCEPT ![x] = rest]
  /\ noSpace' = (noSpace \/ rest # <<>>)
  /\ Goto(x, IF rest = <<>> THEN (IF OnPoller(x) THEN "swap" ELSE "idle")
             ELSE IF OnPoller(x) THEN "rollback" ELSE "start")
  /\ UNCHANGED <<waiting, sending, arg, outer, events, state, order, dropped, input,
                 reads, reset, edge>>

(* Any other error: the packets are dropped and the socket is closed. *)
WriteFails(x) ==
  /\ pc[x] = "write" /\ reset
  /\ dropped' = dropped \union ToSet(tmp[x])
  /\ tmp' = [tmp EXCEPT ![x] = <<>>]
  /\ Goto(x, "emit")
  /\ UNCHANGED <<waiting, sending, arg, outer, events, state, order, out, kernel>>

(* startWriteAbleEvent. *)
Start(x) ==
  /\ pc[x] = "start"
  /\ sendable' = FALSE
  /\ Goto(x, "rollback")
  /\ UNCHANGED <<buffers, arg, outer, events, open, onErr, errTasks, history, kernel>>

(* Mutant: swap without append. *)
RollbackOverwriting(x) ==
  /\ pc[x] = "rollback"
  /\ sending' = tmp[x] /\ tmp' = [tmp EXCEPT ![x] = <<>>]
  /\ Goto(x, "idle")
  /\ UNCHANGED <<waiting, arg, outer, events, state, history, kernel>>

(* What was not written goes in front of the second-level buffer. *)
Rollback(x) ==
  /\ pc[x] = "rollback"
  /\ sending' = tmp[x] \o sending /\ tmp' = [tmp EXCEPT ![x] = <<>>]
  /\ Goto(x, "idle")
  /\ UNCHANGED <<waiting, arg, outer, events, state, history, kernel>>

-----------------------------------------------------------------------------
(* emitErr: the check and closeSock each take _mtx_sock_fd, and on_err is  *)
(* handed to the poller afterwards, which calls it at once if it is the    *)
(* poller thread that hands it over.  Within another callback that is a    *)
(* part of this callback: what it may call is the same.                    *)
Shutdown(x) ==
  /\ MayCall(x)
  /\ Goto(x, "shutdown")
  /\ UNCHANGED <<buffers, arg, outer, events, state, history, kernel>>

Emit(x) ==
  /\ pc[x] \in {"emit", "shutdown"} /\ MayTakeFd(x)
  /\ Goto(x, IF ~open THEN "idle" ELSE IF pc[x] = "emit" THEN "close" ELSE "closeSock")
  /\ UNCHANGED <<buffers, arg, outer, events, state, history, kernel>>

Close(x) ==
  /\ pc[x] \in {"close", "closeSock"} /\ MayTakeFd(x)
  /\ open' = FALSE /\ onErr' = onErr + 1
  /\ Goto(x, "idle")
  /\ IF x = Poller
     THEN outer' = (IF outer = "none" THEN "err" ELSE outer) /\ UNCHANGED errTasks
     ELSE errTasks' = errTasks + 1 /\ UNCHANGED outer
  /\ UNCHANGED <<buffers, arg, events, sendable, history, kernel>>

(* A callback calls rawFD, get_peer_ip or the like, which take and release *)
(* _mtx_sock_fd and change nothing.                                        *)
Ask ==
  /\ MayCall(Poller)
  /\ Goto(Poller, "ask")
  /\ UNCHANGED <<buffers, arg, outer, events, state, history, kernel>>

Answer ==
  /\ pc[Poller] = "ask" /\ MayTakeFd(Poller)
  /\ Goto(Poller, "idle")
  /\ UNCHANGED <<buffers, arg, outer, events, state, history, kernel>>

-----------------------------------------------------------------------------
(* The poller thread: the callback of attachEvent, which does nothing once *)
(* the socket is closed.                                                   *)

PollerIdle == pc[Poller] = "idle" /\ outer = "none"

WaitReturns ==
  /\ PollerIdle /\ events = {} /\ edge
  /\ edge' = FALSE
  /\ events' = IF ~open THEN {}
               ELSE (IF input \/ reset THEN {"read"} ELSE {})
                 \union (IF unacked < SndCap \/ reset THEN {"write"} ELSE {})
                 \union (IF reset THEN {"error"} ELSE {})
  /\ UNCHANGED <<buffers, pc, arg, outer, state, history, unacked, noSpace, input,
                 reads, reset>>

(* onRead: the data goes to on_read under _mtx_event; an error closes. *)
OnRead ==
  /\ PollerIdle /\ "read" \in events
  /\ events' = events \ {"read"}
  /\ input' = FALSE
  /\ IF input THEN outer' = "read" /\ UNCHANGED pc
     ELSE IF reset THEN Goto(Poller, "emit") /\ UNCHANGED outer
     ELSE UNCHANGED <<pc, outer>>
  /\ UNCHANGED <<buffers, arg, state, history, unacked, noSpace, reads, reset, edge>>

OnWriteAble ==
  /\ PollerIdle /\ "read" \notin events /\ "write" \in events
  /\ events' = events \ {"write"}
  /\ Goto(Poller, "look")
  /\ UNCHANGED <<buffers, arg, outer, state, history, kernel>>

OnError ==
  /\ PollerIdle /\ events = {"error"}
  /\ events' = {}
  /\ Goto(Poller, "emit")
  /\ UNCHANGED <<buffers, arg, outer, state, history, kernel>>

(* onWriteAble looks at one buffer after the other. *)
LookAtWaiting ==
  /\ pc[Poller] = "look" /\ MayTakeWaiting(Poller)
  /\ Goto(Poller, IF waiting = <<>> THEN "lookFurther" ELSE "swap")
  /\ UNCHANGED <<buffers, arg, outer, events, state, history, kernel>>

(* Mutant: "or" for "and". *)
LookNoFurther ==
  /\ pc[Poller] = "lookFurther"
  /\ Goto(Poller, "stop")
  /\ UNCHANGED <<buffers, arg, outer, events, state, history, kernel>>

LookAtSending ==
  /\ pc[Poller] = "lookFurther"
  /\ Goto(Poller, IF sending = <<>> THEN "stop" ELSE "swap")
  /\ UNCHANGED <<buffers, arg, outer, events, state, history, kernel>>

(* stopWriteAbleEvent, and onFlushed when flushData calls it. *)
Stop ==
  /\ pc[Poller] \in {"stop", "stopFlushed"}
  /\ sendable' = TRUE
  /\ outer' = IF pc[Poller] = "stopFlushed" THEN "flushed" ELSE "none"
  /\ Goto(Poller, "idle")
  /\ UNCHANGED <<buffers, arg, events, open, onErr, errTasks, history, kernel>>

(* The task in which another thread handed on_err over. *)
RunErr ==
  /\ PollerIdle /\ events = {} /\ errTasks > 0
  /\ errTasks' = errTasks - 1
  /\ outer' = "err"
  /\ UNCHANGED <<buffers, pc, arg, events, sendable, open, onErr, history, kernel>>

(* on_read, on_flush or on_err returns. *)
CallbackReturns ==
  /\ pc[Poller] = "idle" /\ outer # "none"
  /\ outer' = "none"
  /\ UNCHANGED <<buffers, pc, arg, events, state, history, kernel>>

-----------------------------------------------------------------------------
(* The kernel and the peer. *)

(* The peer takes a packet; a writer that met a full buffer is told. *)
Drain ==
  /\ unacked > 0
  /\ unacked' = unacked - 1
  /\ edge' = (edge \/ noSpace) /\ noSpace' = FALSE
  /\ UNCHANGED <<buffers, threads, state, history, input, reads, reset>>

DataArrives ==
  /\ reads < MaxReads /\ ~reset
  /\ reads' = reads + 1
  /\ input' = TRUE /\ edge' = TRUE
  /\ UNCHANGED <<buffers, threads, state, history, unacked, noSpace, reset>>

Reset ==
  /\ MayReset /\ ~reset
  /\ reset' = TRUE /\ edge' = TRUE
  /\ UNCHANGED <<buffers, threads, state, history, unacked, noSpace, input, reads>>

(* Nobody calls and nothing is going on. *)
Quiet ==
  /\ \A x \in Threads : pc[x] = "idle"
  /\ PollerIdle /\ events = {} /\ errTasks = 0 /\ ~edge
  /\ UNCHANGED vars

(* x waits for a lock that y holds. *)
WaitsFor(x, y) ==
  /\ x # y
  /\ \/ pc[x] \in {"enqueue", "refill", "look"} /\ HoldsWaiting(y)
     \/ /\ pc[x] \in {"flushAll", "emit", "close", "shutdown", "closeSock", "ask"}
        /\ ~HoldsFd(x) /\ HoldsFd(y)
     \/ pc[x] = "move" /\ HoldsEvent(y)

(* A callback, under _mtx_event, wants a lock of a thread in flushData that *)
(* wants _mtx_event: both stop for good.                                   *)
Circle ==
  /\ outer # "none"
  /\ \E x \in Senders : pc[x] = "move" /\ WaitsFor(Poller, x)

Deadlocked == Circle /\ UNCHANGED vars

-----------------------------------------------------------------------------
ThreadStep(x) ==
  \/ Enqueue(x) \/ FlushAll(x)
  \/ Swap(x) \/ Refill(x) \/ Move(x) \/ Write(x) \/ WriteFails(x)
  \/ Start(x) \/ Rollback(x)
  \/ Emit(x) \/ Close(x)

PollerStep ==
  \/ WaitReturns \/ OnRead \/ OnWriteAble \/ OnError
  \/ LookAtWaiting \/ LookAtSending \/ Stop \/ RunErr \/ Answer \/ CallbackReturns

Next ==
  \/ \E x \in Threads, p \in Packets : Send(x, p)
  \/ \E x \in Threads : ThreadStep(x) \/ Shutdown(x)
  \/ Ask \/ PollerStep
  \/ Drain \/ DataArrives \/ Reset
  \/ Quiet \/ Deadlocked

Spec == Init /\ [][Next]_vars

(* Threads that can run do, a callback returns in the end, and the peer    *)
(* goes on reading.                                                        *)
FairSpec ==
  /\ Spec
  /\ \A x \in Threads : WF_vars(ThreadStep(x))
  /\ WF_vars(PollerStep) /\ SF_vars(CallbackReturns)
  /\ WF_vars(Drain)

-----------------------------------------------------------------------------
(* Properties. *)

Labels == InFlush \union {"idle", "enqueue", "flushAll", "look", "lookFurther", "stop",
                          "stopFlushed", "shutdown", "closeSock", "ask"}

(* Every variable holds a value of the type the code gives it.             *)
TypeOK ==
  /\ waiting \in Seq(Packets) /\ sending \in Seq(Packets)
  /\ tmp \in [Threads -> Seq(Packets)]
  /\ pc \in [Threads -> Labels]
  /\ arg \in [Threads -> Packets \union {None}]
  /\ outer \in {"none", "read", "flushed", "err"}
  /\ events \subseteq {"read", "write", "error"}
  /\ sendable \in BOOLEAN /\ open \in BOOLEAN
  /\ onErr \in Nat /\ errTasks \in Nat
  /\ order \in Seq(Packets) /\ out \in Seq(Packets) /\ dropped \subseteq Packets
  /\ unacked \in 0..SndCap
  /\ noSpace \in BOOLEAN /\ input \in BOOLEAN /\ reads \in 0..MaxReads
  /\ reset \in BOOLEAN /\ edge \in BOOLEAN

(* How often p stands in s. *)
Occurrences(s, p) == Cardinality({i \in DOMAIN s : s[i] = p})

(* Several threads that flush at once neither lose nor double a packet     *)
(* (flushData 645-744): a packet that entered is in one of the buffers, in *)
(* the local list of one thread, in the kernel, or dropped.                *)
InOnePlace ==
  \A p \in ToSet(order) :
    LET users == {x \in Threads : p \in ToSet(tmp[x])} IN
    /\ Occurrences(waiting, p) + Occurrences(sending, p) + Occurrences(out, p)
         + Cardinality(users) + (IF p \in dropped THEN 1 ELSE 0) = 1
    /\ \A x \in users : Occurrences(tmp[x], p) = 1

(* Whoever calls the socket, and whatever callbacks call: threads that     *)
(* wait for each other's locks are a callback and a thread that asks for   *)
(* _mtx_event in flushData (Socket.cpp:663).  No other two functions take  *)
(* the locks in different orders.                                          *)
OneLockCycle ==
  \A set \in (SUBSET Threads) \ {{}} :
    (\A x \in set : \E y \in set : WaitsFor(x, y)) =>
      Poller \in set /\ outer # "none" /\ \E x \in set \ {Poller} : pc[x] = "move"

(* What Socket.h:279 promises of a socket with mutexes.                    *)
NoLockCycle == ~Circle

(* The kernel gets the packets in the order of the calls of send           *)
(* (flushData 655-664: the first-level buffer is consumed only when the    *)
(* second-level one is empty).                                             *)
InOrder == IsPrefix(out, order)

(* The callback on_err is handed over at most once (emitErr 337-340).      *)
ErrOnce == onErr <= 1

(* on_flush reports that nothing is left to write (onFlushed, setOnFlush). *)
FlushedMeansEmpty ==
  [][outer = "none" /\ outer' = "flushed" => out = order]_vars

(* What was handed to send is written as long as the connection stands and *)
(* the peer reads (Socket.h:534-538: when the socket is writable the       *)
(* buffers are written to it).                                             *)
AllSent ==
  \A p \in Packets : p \in ToSet(order) ~> (p \in ToSet(out) \/ ~open \/ reset)
=============================================================================
