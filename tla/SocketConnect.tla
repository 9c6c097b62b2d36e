--------------------------- MODULE SocketConnect ---------------------------
(***************************************************************************)
(* The connecting half of toolkit::Socket: a call of connect becomes a     *)
(* task of the poller; a name is resolved on a worker, an address at once; *)
(* the descriptor is watched until it is writable; a timer runs beside     *)
(* it; and other threads may report an error, which closes the socket, or  *)
(* drop it.  On the poller, functions that call the user's callback are    *)
(* frames of a stack: the callback may call connect again.                 *)
(***************************************************************************)
EXTENDS Naturals, Sequences

CONSTANTS
  MaxAttempts,    (* bound: calls of connect                               *)
  Closers,        (* threads other than the poller's that call emitErr     *)
  None

Attempts == 1 .. MaxAttempts

ASSUME ConstantsAssumption == MaxAttempts \in Nat /\ None \notin Attempts

VARIABLES
  calls,          (* the attempts asked for so far are 1 .. calls          *)
  current,        (* the attempt connect_l began last                      *)
  queue,          (* the poller's tasks                                    *)
  stack,          (* the poller's functions in progress, innermost first   *)
  resolving,      (* the attempts a worker resolves                        *)
  asyncConCb,     (* _async_con_cb                                         *)
  conTimer,       (* _con_timer                                            *)
  sockFd,         (* _sock_fd: the attempt it belongs to                   *)
  fd,             (* what became of each attempt's descriptor              *)
  closing,        (* the closers between emitErr's check and closeSock     *)
  held,           (* somebody outside holds the socket                     *)
  answers,        (* how often each attempt's callback was called          *)
  atOnce,         (* the attempts that failed inside connect_l             *)
  closed          (* the attempts emitErr closed                           *)

socketVars == <<asyncConCb, conTimer, sockFd, fd>>
ledger == <<answers, atOnce, closed>>
vars == <<calls, current, queue, stack, resolving, socketVars, closing, held, ledger>>

Init ==
  /\ calls = 0 /\ current = None /\ queue = <<>> /\ stack = <<>> /\ resolving = {}
  /\ asyncConCb = None /\ conTimer = None /\ sockFd = None
  /\ fd = [a \in Attempts |-> "none"]
  /\ closing = {} /\ held = TRUE
  /\ answers = [a \in Attempts |-> 0] /\ atOnce = {} /\ closed = {}

Frame(at, a) == [at |-> at, a |-> a]
Task(op, a, ok) == [op |-> op, a |-> a, ok |-> ok]

Top(at) == stack # <<>> /\ Head(stack).at = at
Self == Head(stack).a

(* The event's callback holds the descriptor until it returns.             *)
Pinned(S, a) == \E i \in DOMAIN S : S[i].at \in {"event", "answered"} /\ S[i].a = a

(* ~SockFD on the poller's thread: delEvent, then close; elsewhere the     *)
(* descriptor is closed by a task (Gone).                                  *)
Drop(S, a) ==
  IF a = None \/ Pinned(S, a) THEN fd ELSE [fd EXCEPT ![a] = "closed"]

-----------------------------------------------------------------------------
(* connect and connect_l. *)

(* Bound: MaxAttempts calls. *)
Connect(kind) ==
  /\ held /\ calls < MaxAttempts
  /\ calls' = calls + 1
  /\ queue' = Append(queue, Task(kind, calls + 1, TRUE))
  /\ UNCHANGED <<current, stack, resolving, socketVars, closing, held, ledger>>

(* Mutant: connect_l does not close what is there. *)
ConnectNameOver(a, S) ==
  /\ resolving' = resolving \union {a}
  /\ asyncConCb' = a
  /\ stack' = <<Frame("arm", a)>> \o S
  /\ UNCHANGED <<conTimer, sockFd, fd, answers, atOnce>>

(* connect_l up to the assignment of the timer, on top of the frames S:    *)
(* closeSock first.  A name is handed to a worker.                         *)
ConnectName(a, S) ==
  /\ resolving' = resolving \union {a}
  /\ asyncConCb' = a /\ conTimer' = None /\ sockFd' = None
  /\ fd' = Drop(S, sockFd)
  /\ stack' = <<Frame("arm", a)>> \o S
  /\ UNCHANGED <<answers, atOnce>>

(* An address: the descriptor is there and watched, or the callback is     *)
(* called from inside connect_l, with or without a descriptor to close.    *)
ConnectIp(a, S) ==
  /\ asyncConCb' = None /\ conTimer' = None
  /\ \/ /\ sockFd' = a
        /\ fd' = [Drop(S, sockFd) EXCEPT ![a] = "watched"]
        /\ stack' = <<Frame("arm", a)>> \o S
        /\ UNCHANGED <<answers, atOnce>>
     \/ /\ sockFd' = None
        /\ \E f \in {"none", "closed"} : fd' = [Drop(S, sockFd) EXCEPT ![a] = f]
        /\ stack' = <<Frame("callback", a), Frame("arm", a)>> \o S
        /\ answers' = [answers EXCEPT ![a] = @ + 1]
        /\ atOnce' = atOnce \union {a}
  /\ UNCHANGED resolving

ConnectL(kind, a, S) ==
  /\ current' = a
  /\ IF kind = "name" THEN ConnectName(a, S) ELSE ConnectIp(a, S)
  /\ UNCHANGED <<closing, held, closed>>

RunConnect ==
  /\ stack = <<>> /\ queue # <<>> /\ Head(queue).op \in {"name", "ip"}
  /\ queue' = Tail(queue)
  /\ IF held
     THEN ConnectL(Head(queue).op, Head(queue).a, stack) /\ UNCHANGED calls
     ELSE UNCHANGED <<calls, current, stack, resolving, socketVars, closing, held, ledger>>

(* connect called by the user's callback: async runs it at once.           *)
ConnectInCallback(kind) ==
  /\ Top("callback") /\ held /\ calls < MaxAttempts
  /\ calls' = calls + 1
  /\ ConnectL(kind, calls + 1, stack)
  /\ UNCHANGED queue

(* Innermost frame ends.  All frames but a timer's hold a reference to the *)
(* socket: ~Socket may run on the poller, after the last one.              *)
Unwind(S) ==
  /\ stack' = S
  /\ IF held \/ S # <<>>
     THEN UNCHANGED socketVars
     ELSE /\ asyncConCb' = None /\ conTimer' = None /\ sockFd' = None
          /\ fd' = Drop(S, sockFd)

(* Mutant: connect_l ends without the timer. *)
ArmNothing ==
  /\ Top("arm")
  /\ Unwind(Tail(stack))
  /\ UNCHANGED <<calls, current, queue, resolving, closing, held, ledger>>

(* The last statement of connect_l. *)
Arm ==
  /\ Top("arm")
  /\ IF held \/ Tail(stack) # <<>>
     THEN /\ stack' = Tail(stack) /\ conTimer' = Self
          /\ UNCHANGED <<asyncConCb, sockFd, fd>>
     ELSE Unwind(Tail(stack))
  /\ UNCHANGED <<calls, current, queue, resolving, closing, held, ledger>>

-----------------------------------------------------------------------------
(* Mutant: con_cb leaves the timer alone. *)
ConCbTimed(a, err, S) ==
  /\ asyncConCb' = None /\ UNCHANGED conTimer
  /\ IF err
     THEN sockFd' = None /\ fd' = Drop(S, sockFd)
     ELSE UNCHANGED sockFd /\ fd' = [fd EXCEPT ![a] = "connected"]
  /\ answers' = [answers EXCEPT ![a] = @ + 1]
  /\ stack' = <<Frame("callback", a)>> \o S

(* con_cb(err), on top of the frames S: the user's callback begins. *)
ConCb(a, err, S) ==
  /\ asyncConCb' = None /\ conTimer' = None
  /\ IF err
     THEN sockFd' = None /\ fd' = Drop(S, sockFd)
     ELSE UNCHANGED sockFd /\ fd' = [fd EXCEPT ![a] = "connected"]
  /\ answers' = [answers EXCEPT ![a] = @ + 1]
  /\ stack' = <<Frame("callback", a)>> \o S

CallbackReturns ==
  /\ Top("callback")
  /\ Unwind(Tail(stack))
  /\ UNCHANGED <<calls, current, queue, resolving, closing, held, ledger>>

(* The worker's blocking call ends; what it opened travels with the task.  *)
Resolve(a, ok) ==
  /\ a \in resolving
  /\ resolving' = resolving \ {a}
  /\ queue' = Append(queue, Task("resolved", a, ok))
  /\ fd' = IF ok THEN [fd EXCEPT ![a] = "open"] ELSE fd
  /\ UNCHANGED <<calls, current, stack, asyncConCb, conTimer, sockFd, closing, held, ledger>>

(* Mutant: an answer nobody waits for keeps its descriptor. *)
RunResolvedLeaking ==
  /\ stack = <<>> /\ queue # <<>> /\ Head(queue).op = "resolved"
  /\ queue' = Tail(queue)
  /\ LET a == Head(queue).a IN
     IF asyncConCb # a
     THEN UNCHANGED <<stack, socketVars, answers>>
     ELSE IF Head(queue).ok
     THEN stack' = <<Frame("resolved", a)>> /\ UNCHANGED <<socketVars, answers>>
     ELSE ConCb(a, TRUE, <<>>)
  /\ UNCHANGED <<calls, current, resolving, closing, held, atOnce, closed>>

(* The answer comes back: weak_task tells if the socket still waits for it. *)
RunResolved ==
  /\ stack = <<>> /\ queue # <<>> /\ Head(queue).op = "resolved"
  /\ queue' = Tail(queue)
  /\ LET a == Head(queue).a IN
     IF asyncConCb # a
     THEN /\ fd' = IF Head(queue).ok THEN [fd EXCEPT ![a] = "closed"] ELSE fd
          /\ UNCHANGED <<stack, asyncConCb, conTimer, sockFd, answers>>
     ELSE IF Head(queue).ok
     THEN stack' = <<Frame("resolved", a)>> /\ UNCHANGED <<socketVars, answers>>
     ELSE ConCb(a, TRUE, <<>>)
  /\ UNCHANGED <<calls, current, resolving, closing, held, atOnce, closed>>

(* addEvent and the assignment of _sock_fd, after which ~Socket closes it  *)
(* if nobody else refers to the socket; or con_cb if addEvent fails.       *)
Watch ==
  /\ Top("resolved")
  /\ \/ /\ held /\ sockFd' = Self
        /\ fd' = [Drop(<<>>, sockFd) EXCEPT ![Self] = "watched"]
        /\ stack' = Tail(stack)
        /\ UNCHANGED <<asyncConCb, conTimer, answers>>
     \/ /\ ~held /\ asyncConCb' = None /\ conTimer' = None /\ sockFd' = None
        /\ fd' = [Drop(<<>>, sockFd) EXCEPT ![Self] = "closed"]
        /\ stack' = Tail(stack)
        /\ UNCHANGED answers
     \/ /\ asyncConCb' = None /\ conTimer' = None /\ sockFd' = None
        /\ fd' = [Drop(<<>>, sockFd) EXCEPT ![Self] = "closed"]
        /\ answers' = [answers EXCEPT ![Self] = @ + 1]
        /\ stack' = <<Frame("callback", Self)>>
  /\ UNCHANGED <<calls, current, queue, resolving, closing, held, atOnce, closed>>

(* The writable event of a watched descriptor whose SockFD is alive.       *)
Writable(a) ==
  /\ stack = <<>> /\ fd[a] = "watched"
  /\ stack' = <<Frame("event", a)>>
  /\ UNCHANGED <<calls, current, queue, resolving, socketVars, closing, held, ledger>>

(* onConnected: the connection failed or not, or cannot be watched.        *)
OnConnected ==
  /\ Top("event")
  /\ \E err \in BOOLEAN : ConCb(Self, err, <<Frame("answered", Self)>>)
  /\ UNCHANGED <<calls, current, queue, resolving, closing, held, atOnce, closed>>

(* The event's callback returns and lets go of the descriptor. *)
EventReturns ==
  /\ Top("answered")
  /\ stack' = <<>>
  /\ IF held
     THEN /\ fd' = IF sockFd = Self THEN fd ELSE [fd EXCEPT ![Self] = "closed"]
          /\ UNCHANGED <<asyncConCb, conTimer, sockFd>>
     ELSE /\ asyncConCb' = None /\ conTimer' = None /\ sockFd' = None
          /\ fd' = [Drop(<<>>, sockFd) EXCEPT ![Self] = "closed"]
  /\ UNCHANGED <<calls, current, queue, resolving, closing, held, ledger>>

TimerFires ==
  /\ stack = <<>> /\ conTimer # None
  /\ stack' = <<Frame("timeout", conTimer)>>
  /\ UNCHANGED <<calls, current, queue, resolving, socketVars, closing, held, ledger>>

(* The timer's task; the socket may be gone by now.  The timer is not      *)
(* repeated.                                                               *)
TimedOut ==
  /\ Top("timeout")
  /\ IF held
     THEN ConCb(Self, TRUE, <<>>)
     ELSE stack' = <<>> /\ UNCHANGED <<socketVars, answers>>
  /\ UNCHANGED <<calls, current, queue, resolving, closing, held, atOnce, closed>>

(* The descriptor's delEvent, queued by another thread. *)
RunGone ==
  /\ stack = <<>> /\ queue # <<>> /\ Head(queue).op = "gone"
  /\ queue' = Tail(queue)
  /\ fd' = [fd EXCEPT ![Head(queue).a] = "closed"]
  /\ UNCHANGED <<calls, current, stack, resolving, asyncConCb, conTimer, sockFd, closing,
                 held, ledger>>

-----------------------------------------------------------------------------
(* emitErr, up to the report, and the end of the socket. *)

(* emitErr on the poller: an event, a task, or the user's callback.        *)
CloseOnPoller ==
  /\ held /\ sockFd # None /\ (stack = <<>> \/ Top("callback"))
  /\ asyncConCb' = None /\ conTimer' = None /\ sockFd' = None
  /\ fd' = Drop(stack, sockFd)
  /\ closed' = closed \union {current}
  /\ UNCHANGED <<calls, current, queue, stack, resolving, closing, held, answers, atOnce>>

EmitErr(x) ==
  /\ held /\ x \notin closing /\ sockFd # None
  /\ closing' = closing \union {x}
  /\ UNCHANGED <<calls, current, queue, stack, resolving, socketVars, held, ledger>>

(* What another thread's closeSock does to the descriptor.                 *)
Gone ==
  IF sockFd = None \/ Pinned(stack, sockFd)
  THEN UNCHANGED <<fd, queue>>
  ELSE /\ fd' = [fd EXCEPT ![sockFd] = "leaving"]
       /\ queue' = Append(queue, Task("gone", sockFd, TRUE))

CloseSock(x) ==
  /\ x \in closing
  /\ closing' = closing \ {x}
  /\ asyncConCb' = None /\ conTimer' = None /\ sockFd' = None
  /\ Gone
  /\ closed' = closed \union {current}
  /\ UNCHANGED <<calls, current, stack, resolving, held, answers, atOnce>>

(* The last reference outside is dropped: ~Socket, or later on the poller. *)
Release ==
  /\ held /\ closing = {}
  /\ held' = FALSE
  /\ IF \E i \in DOMAIN stack : stack[i].at # "timeout"
     THEN UNCHANGED <<queue, socketVars>>
     ELSE /\ asyncConCb' = None /\ conTimer' = None /\ sockFd' = None
          /\ Gone
  /\ UNCHANGED <<calls, current, stack, resolving, closing, ledger>>

(* The socket is gone and nothing is left to do. *)
Quiet ==
  /\ ~held /\ stack = <<>> /\ queue = <<>> /\ resolving = {}
  /\ UNCHANGED vars

-----------------------------------------------------------------------------
(* What the poller does without being asked by the network. *)
PollerStep ==
  \/ RunConnect \/ Arm \/ CallbackReturns \/ RunResolved \/ Watch
  \/ OnConnected \/ EventReturns \/ TimedOut \/ RunGone

Next ==
  \/ PollerStep \/ TimerFires
  \/ \E kind \in {"name", "ip"} : Connect(kind) \/ ConnectInCallback(kind)
  \/ \E a \in Attempts : Writable(a) \/ \E ok \in BOOLEAN : Resolve(a, ok)
  \/ CloseOnPoller \/ Release
  \/ \E x \in Closers : EmitErr(x) \/ CloseSock(x)
  \/ Quiet

Spec == Init /\ [][Next]_vars

(* The poller runs its tasks and its timers; callbacks return.  Nothing is *)
(* assumed of the resolver, the network or the callers.                    *)
FairSpec == Spec /\ WF_vars(PollerStep) /\ WF_vars(TimerFires)

-----------------------------------------------------------------------------
(* Properties. *)

(* Every variable holds a value of the type the code gives it, and no      *)
(* attempt is answered more than twice.                                    *)
TypeOK ==
  /\ calls \in 0 .. MaxAttempts /\ current \in Attempts \union {None}
  /\ queue \in Seq([op : {"name", "ip", "resolved", "gone"}, a : Attempts, ok : BOOLEAN])
  /\ stack \in Seq([at : {"arm", "callback", "resolved", "event", "answered", "timeout"},
                    a : Attempts])
  /\ resolving \subseteq Attempts
  /\ asyncConCb \in Attempts \union {None} /\ conTimer \in Attempts \union {None}
  /\ sockFd \in Attempts \union {None}
  /\ fd \in [Attempts -> {"none", "open", "watched", "connected", "leaving", "closed"}]
  /\ closing \subseteq Closers /\ held \in BOOLEAN
  /\ answers \in [Attempts -> 0 .. 2]
  /\ atOnce \subseteq Attempts /\ closed \subseteq Attempts

(* No descriptor leaks and none is closed under the socket (Socket.cpp     *)
(* 169-204, SockFD): an open one is with the worker's answer, is the       *)
(* socket's, is held by the event being handled, or waits for its          *)
(* delEvent; the socket's is open.                                         *)
DescriptorsOwned ==
  \A a \in Attempts :
    /\ fd[a] = "open" =>
         \/ \E i \in DOMAIN queue : queue[i] = Task("resolved", a, TRUE)
         \/ \E i \in DOMAIN stack : stack[i] = Frame("resolved", a)
    /\ fd[a] \in {"watched", "connected"} => sockFd = a \/ Pinned(stack, a)
    /\ fd[a] = "leaving" => \E i \in DOMAIN queue : queue[i] = Task("gone", a, TRUE)
    /\ sockFd = a => fd[a] \in {"watched", "connected"}

(* Timer, resolver and descriptor race (152-230), and still none of them   *)
(* speaks for an attempt that a later connect_l replaced: what the socket  *)
(* waits for belongs to the attempt begun last.  The exception is an       *)
(* attempt that failed inside connect_l: the timer is set after that.      *)
OnlyTheLatest ==
  /\ asyncConCb \in {None, current} /\ sockFd \in {None, current}
  /\ conTimer \in {None, current} \union atOnce

(* Both: each of the socket's members names what it owns, and whom it       *)
(* waits for.                                                              *)
MembersSound == DescriptorsOwned /\ OnlyTheLatest

(* The user's callback is called once for an attempt, by the attempt begun *)
(* last, with the same exception.                                          *)
AnswersFresh ==
  [][\A a \in Attempts : answers'[a] # answers[a] =>
       (answers[a] = 0 /\ a = current') \/ a \in atOnce]_vars

(* connect's result callback (Socket.h 285-296) is called once. *)
AnsweredOnce == \A a \in Attempts : answers[a] <= 1

(* Even if the resolver or the network never answers, every attempt that   *)
(* connect_l has begun is answered, unless the user closes or drops the    *)
(* socket or connects again, or the timer of another attempt, which failed *)
(* inside connect_l, is set over its own.                                  *)
Answered ==
  \A a \in Attempts :
    (\E i \in DOMAIN stack : stack[i] = Frame("arm", a)) ~>
      (answers[a] > 0 \/ current # a \/ a \in closed \/ ~held
         \/ conTimer \in atOnce \ {a})
=============================================================================
