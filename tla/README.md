# A verification project for zxMediaKit

TLA+ modules of the concurrent core of zxMediaKit, TLC runs that check them on
small instances, and TLAPS proofs of their most important invariants. File
names below are relative to the repository's `src/` directory, and `toolkit/`
stands for `src/toolkit/`.

1. [The system](#the-system) - inventory of components, state, interactions
2. [The modules](#the-modules) - what models what
3. [The runs](#the-runs) - what is checked, with which bounds and fairness
4. [The proofs](#the-proofs) - what is proved and how
5. [Where code and comments disagree](#where-code-and-comments-disagree)
6. [What is not modelled](#what-is-not-modelled)
7. [Plan](#plan)

## The system

The repository is a toolbox for media programs: a network and threading library
(`toolkit/`, derived from ZLToolKit), a wrapper around FFmpeg (`ffmcpp/`), and a
small base library (`base/`, `util/`). `main/` prints a greeting; everything of
substance is in the libraries, and almost everything that is hard is in
`toolkit/`.

| Component | State | Operations | Talks to |
|---|---|---|---|
| Task executor interface (`Thread/TaskExecutor.*`) | - | `async`, `async_first`, `sync`, `sync_first`, `cancel`, `getExecutor` | implemented by EventPoller and ThreadPool |
| EventPoller (`Poller/EventPoller.*`, `PipeWrap`, `Timer`) | task list, wake-up pipe, descriptor callbacks, timer map, exit flag, loop thread id | `async`, `doDelayTask`, `addEvent`/`modifyEvent`/`delEvent`, `runLoop`, destructor | called by any thread; calls tasks, timers and descriptor callbacks on its loop thread |
| ThreadPool (`Thread/ThreadPool.h`, `TaskQueue.h`, `semaphore.h`, `threadgroup.h`) | task queue, token counter, workers, thread group | `async`, `start`, destructor | used for blocking work (name resolution), by WorkThreadPool |
| Socket (`Network/Socket.*`, `BufferSock.*`) | descriptor, two send buffers, `_sendable`, callbacks, connect timer; four recursive mutexes | `send`, `flushAll`, `connect`, `listen`, `onRead`, `onWriteAble`, `emitErr`, `closeSock` | registered with one EventPoller; used by sessions, clients, servers |
| TcpClient, TcpServer, UdpServer, Session | session maps per poller, timers | start, accept, receive, manage, close | Socket, EventPollerPool |
| RingBuffer (`Util/RingBuffer.h`) | storage of packet groups, one dispatcher per poller, readers | `write`, `attach`, reader's end | tasks on each reader's poller |
| ResourcePool, NoticeCenter, Logger, SqlPool (`Util/`) | free list; listeners; log queue; query and retry lists | obtain/recycle; add/delete/emit; write/flush; query/retry | weak pointers, locks, worker threads |
| Channels and threads, containers (`base/`, `util/`) | free channels; run flags; spin-flag containers | get/return a channel; start/stop a thread | threads of the application |
| Process control (`base/zx_process.cpp`, `zx_system.cpp`) | pid | run, wait, kill, daemon | fork, waitpid, signals, a delayed task |
| ffmcpp | decoder, encoder, muxer state | demux, decode, filter, encode, mux | FFmpeg |

How they interact. Everything asynchronous ends up as a task of an
`EventPoller` or a `ThreadPool`: timers are tasks the loop keeps in a map sorted
by deadline, `Socket` hands its error callback to its poller with `async`,
a server moves an accepted socket to another poller with `async`, a name is
resolved on a `ThreadPool` and the answer comes back with `async`, and
`RingBuffer` sends every packet to each reader's poller with `async`. The
promise of `async` - at most once, in order, not after a cancel, in the end -
is therefore the base of all other components, and the first thing specified.

What is hard, and makes each component correct:

- **EventPoller.** A task is put on a list under a mutex, and the byte that wakes
  the loop is written after the unlock, to a pipe that may be full, and that is
  watched edge-triggered. Correct means: the loop never sleeps while a task waits
  and no byte is under way; a task is in one place at a time while three
  containers are swapped; timers keep the sleep bounded; the destructor
  terminates and runs what was handed over.
- **ThreadPool.** Tasks and tokens travel separately, the destructor's order to
  exit is a token without a task, and a waiting worker may wake for no reason.
  Correct means: tokens match tasks, nobody exits early, nothing is left behind.
- **Socket.** Any thread may flush, the poller thread flushes without the lock
  that the others hold, and callbacks run under a lock. Correct means: bytes in
  order, none lost or doubled, everything written eventually, one error, no
  circular wait.
- **Connecting.** A resolver's answer, a timer, a writable event, a close and the
  next call of `connect` race, and the user's callback may itself connect again.
  Correct means: an answer for every attempt, none for an attempt that was
  replaced, and every descriptor closed once.
- **UDP server.** Several servers share one session map; a look-up returns a
  reference that is used after the unlock; a session is made on one thread and
  fed from others. Correct means: one session per peer, callbacks on the
  session's own thread, every datagram handed over, ended sessions leave the map.
- **RingBuffer.** A packet travels as one task per poller, readers come and go on
  any thread, and a poller's dispatcher is made and dropped with its readers.
  Correct means: each reader hears an unbroken run that begins where a decoder
  can start, and nobody listens to a dispatcher that is no longer served.
- **ResourcePool and SqlPool.** A flag that nobody waits for, objects given up
  after an error, statements that move between task, list and copy. Correct means:
  no connection shared, leaked or reused after an error; no statement lost or
  executed twice.
- **TcpServer, NoticeCenter, Logger.** Look-ups under a lock whose result is used
  after it.

The hazards, each at its line, are in `PROJECT.json`.

## The modules

| Module | What it is |
|---|---|
| `AsyncExecutor` | the abstract specification of `async`, `async_first` and `cancel` |
| `EventPoller` | task list, pipe, loop, timers and destructor of `toolkit/Poller/EventPoller.cpp`; implements `AsyncExecutor` |
| `EventPollerProofs` | its theorems |
| `PollerEvents` | addEvent, delEvent, modifyEvent and the dispatch of descriptor events in `toolkit/Poller/EventPoller.cpp`, with the descriptors that sockets own |
| `PollerEventsProofs` | its theorems |
| `ThreadPool` | semaphore, queue, group and pool of `toolkit/Thread/`; implements `AsyncExecutor` |
| `ThreadPoolProofs` | its theorems |
| `SocketSend` | the sending half of `toolkit/Network/Socket.cpp` on an edge-triggered descriptor |
| `SocketSendProofs` | its theorems |
| `SocketConnect` | the connecting half of `toolkit/Network/Socket.cpp` |
| `SocketConnectProofs` | its theorems |
| `UdpServer` | a running `toolkit/Network/UdpServer.cpp` with its clones and sessions |
| `UdpServerProofs` | its theorems |
| `Broadcast` | the abstract specification of what a reader of a ring buffer hears |
| `RingStorage` | `_RingStorage`: the cache of packet groups, as operators |
| `RingBuffer` | ring, dispatchers and readers of `toolkit/Util/RingBuffer.h`, on `RingStorage`; implements `Broadcast` |
| `RingBufferProofs` | its theorems, and lemmas on `RingStorage` |
| `ResourcePool` | `toolkit/Util/ResourcePool.h`: the steps between asking for an object and having given it back |
| `SqlPool` | `toolkit/Util/SqlPool.h`, whose threads use `ResourcePool` |
| `SqlPoolProofs` | its theorems |
| `MCEventPoller`, `MCThreadPool`, `MCSocketSend` | the modules with symmetry sets for TLC |

Definitions whose comment begins with "Mutant:" are wrong variants of the
definition that follows, each a slip one could make in the code. Nothing uses
them; they document what each property catches (`PROJECT.json`, "mutants").

**AsyncExecutor.** The tasks that wait (`waiting`) and who of them came before whom
(`before`), those that may overtake the others (`urgent`), and what was started. The
order is a relation and no sequence, so that an implementation with several containers
maps to it by what is in them. `Safety` is the specification without its fairness, which
says that every task gets its turn until the executor is closed.

**EventPoller.** One action per critical section or system call. `Emplace` is the
section under `_mtx_task`, `WritePipe` the write after it; between them the
thread is in `unwritten`. `pc` walks the loop: `check` (look at the exit flag and
the timers), `flush` (flushDelayTask), `wait` (epoll_wait), `dispatch` (the loop
over `events[]`), `drain`, `swap`, `run` (onPipeEvent), `exec` (inside a callback,
which may itself call `async`, inline or queued, and `doDelayTask`). The
destructor's thread is `owner`: `Shutdown` queues the exit lambda, `Join` waits
for the loop, sets `_loop_thread_id` to itself and goes through onPipeEvent once
more with the same actions. `edge` is epoll's ready list for the pipe: a byte in
an empty pipe always sets it, a byte behind others may. Time is a bounded clock,
and every deadline is an absolute time. `ledger` variables (`posted`, `ran`,
`cancelled`, `ended`) record what happened to each task.

**PollerEvents.** epoll knows files, the program numbers. A descriptor (`Sockets`) has a
`number` while it is open, the lowest that is free, as `socket` and `accept` give it; `polled`
are the files that epoll watches, `eventMap` is `_event_map`, by number. `life` is the life
of a `SockFD`: its destructor calls `delEvent` (`Socket.h:188`), whose callback holds the number
until it was removed; on another thread that is a task, and the descriptor is `leaving`. `asked`
and `held` are the user's: who was registered, and who is still referred to. The callback of an event
refers to its socket too (`current`). User code runs on another thread at any time, and on the
loop thread wherever the loop calls it: in a timer's task, in another task, in a callback.
Reading stands for all events; its end by EAGAIN takes all `data`. `fresh` and `overtaken` are
history variables that name the two exceptions of the properties.

**ThreadPool.** The build without `HAVE_SEM`, the only one `semaphore.h` allows:
the macro is commented out. A worker is `idle` (about to look at the counter),
`blocked` in the condition variable, at the queue (`take`), holding a task
(`taken`), in its body (`exec`), or `exited`. `CreateThread` and
`RegisterThread` are the two halves of `create_thread`, so a thread may run
before `is_this_thread_in` knows it. `turn` is where a worker takes a task from the
queue: that is what `AsyncExecutor` calls the task's turn, since with several
workers the bodies may begin in another order.

**SocketSend.** One `pc` per thread walks `send_l`, `flushAll`, `flushData` and
`emitErr`; the poller thread also walks the callback of `attachEvent` and
`onWriteAble`. Which locks a thread holds follows from its place and is given by
`HoldsFd`, `HoldsWaiting` and `HoldsEvent`; `_mtx_send_buf_sending` is a leaf and its
sections are single actions. `OnPoller` distinguishes `flushData(sock, true)`,
which runs without `_mtx_sock_fd`, from a `send` inside a callback, which runs
under it. Data is counted in packets that the kernel takes whole or not at all:
a partly sent packet stays at the front of the same list as one not sent, so the
control is the same. Callbacks (`outer`) run on the poller thread under `_mtx_event`. While one runs it may
call the socket (`MayCall`): `Send`; `Shutdown`, which is emitErr with its two sections under `_mtx_sock_fd`; and `Ask`, which
stands for rawFD, get_peer_ip and whatever else takes that lock and gives it back. Other threads
may `Send` and `Shutdown`. `errTasks` are the calls of on_err that they handed to the
poller. Two threads that wait for each other for good are the `Circle`, and the model has a state for them
(`Deadlocked`). The kernel's side is a send buffer of `SndCap` packets, the
edge-triggered ready list, and `noSpace`, the kernel's memory of a writer that met a
full buffer. A connection is registered with `EPOLLEXCLUSIVE` (`EventPoller.cpp:110`), and
Linux answers `EPOLL_CTL_MOD` on such a registration with `EINVAL`; so
`modifyEvent` has no effect and start/stopWriteAbleEvent only set `_sendable`.

**SocketConnect.** An attempt is one call of `connect`, numbered. The poller's
functions are frames of a `stack`, because `connect_l` may call the user's
callback, which may call `connect` again, which `async` runs inline: the outer
`connect_l` still has to set its timer (`Arm`) when the inner one is done.
`asyncConCb`, `conTimer` and `sockFd` are the socket's members and name the attempt
they belong to; `fd` says what became of each attempt's descriptor (`open` with
the worker's answer, `watched`, `connected`, `leaving` while its `delEvent` waits
as a task, `closed`). `Pinned` is the reference that an event's callback holds.
Closers are threads that call `emitErr`, in its two critical sections. Events of a
connected descriptor are left to `SocketSend`, error reports too. Members
are read and written without data races here: a `closeSock` of another thread that
falls between two statements of `connect_l` on the poller takes effect before or
after the action they belong to.

**UdpServer.** `at` is where each poller thread is: `look` (getOrCreateSession),
`create` (createSession), `found` (the reference is returned, the lock released),
`hand` (the session pointer copied), `recv` (onRecv), `manage` (a round of
onManagerSession). `session` keeps every session ever made, `map` is the shared
map, and whether a helper or a session object still exists is derived from who
refers to it (`HelperLives`, `SessionLives`). `packet` has for each datagram its sender and the `id` that is looked up:
the sender if a server's socket received it, the session's own if a session's socket did. A thread
that reads a session's socket (`reading`) goes on after the first datagrams closed it, as `onRead` does. `CreateSession` asks nothing of the
bind, as the code: its socket is open or not. `CreateNothing` is the user's callback that makes no socket. Two outcomes are undefined for the
rest of the program and end the behaviour: a read through a helper that is gone
(`dangling`) and a session's callback on a thread that is not its own (`astray`).
`elsewhere` says that the user's `setOnCreateSocket` makes sockets of other
pollers, which the code provides for (lines 292-307).

**Broadcast, RingStorage, RingBuffer.** In `Broadcast` a reader is a position in the
log: it subscribes a little behind, hears a recent past that starts at a key
packet, then every packet, and is told when the ring is gone. `RingBuffer` has one
action per section of `_mtx_map` and one per piece of a poller's task between
which other threads may act: `BeginWrite`, `Visit` (lock the weak pointer, or erase
the entry), `OnRead` (the callback), `OnReadReturns` (the loop drops what may be
the last reference), `EndWrite`. A released reader is erased by its deleter's task
or by the loop, whichever comes first. The refinement maps a reader's position to
the length of the log less the write tasks between it and its dispatcher.

**ResourcePool, SqlPool.** `Obtain` and `Return` are the two places that test the flag;
what a thread does while it has it is an action of its own, so another thread
finds it set (`alone`, and the deletion in `Return`). `Objects` are addresses, given
out again after a deletion. `SqlPool` adds the worker's task, a caller of
`syncQuery`, the retry list and its timer; any query and any connect may fail, up to
`MaxFaults` times, before or after the database executed it. Of a statement's text the model knows whether it holds
a conversion of printf (`Formats`): handed to `asyncQuery` again it may be another text from then on
(`altered`), which the database may refuse without a fault. A conversion without its argument is undefined in C; the model
has a text as its outcome, not a crash. `setSize` reads and reallocates the vector without the flag;
it is modelled only while nobody is inside, since at any other moment it is a data race.

## The runs

Every passing run explores its whole state space, and a deadlock is an error in it:
the modules have an explicit last state (`Destroyed`, `Done`, `Quiet`).

| Run | Instance | Shows |
|---|---|---|
| `poller_tasks` | 2 producers, 2 tasks of which 1 cancelable, pipe of 2 bytes read 1 at a time | `NoLostWakeup`, `TasksAccounted` (`InOnePlace` and `NothingLostAtExit`), `ImplementsExecutor` (safety and liveness), `DestructorReturns` |
| `poller_timers` | 1 producer, 2 delayed tasks of which 1 cancelable, delays 0 and 1, clock up to 3 | `TypeOK` with `NoWrap`, `TimerArmed`, `SleepEndsAtDeadline`, `DelayedTaskFires` |
| `poller_zerodelay` | clock up to 2, a delayed task may schedule another with delay 0 | a violation of `DelayedTaskFires` |
| `events` | 3 descriptors with 2 numbers, receiving switched for 1 of them | `RegistrationsSound`, `EventsOwn`, `DataRead` |
| `pool_tasks` | 2 callers, 2 workers, 3 tasks of which 1 cancelable | `TokensMatch`, `NoEarlyExit`, `NothingLost`, `ImplementsExecutor`, `DestructorReturns`, `SyncEnds` |
| `send_threads` | 2 senders and the poller, callbacks that call the socket, 3 packets, buffer of 1, resets | `InOnePlace`, `OneLockCycle` |
| `send_poller` | sends from callbacks only, 3 packets, buffer of 1, resets | `InOrder`, `FlushedMeansEmpty`, `AllSent` |
| `send_order` | 1 sender and the poller, 2 packets | a violation of `InOrder` |
| `connect` | 3 attempts by address or name, 1 closing thread | `MembersSound` (`DescriptorsOwned` and `OnlyTheLatest`), `AnswersFresh`, `Answered` |
| `udp` | 2 pollers, 2 peers, 3 inputs, each a datagram or a round of the timer | `SessionsSound`, `CallbacksOnOwnThread`, `SessionsServed` |
| `ring` | 1 poller and one other thread, 2 readers of which 1 with a cache, 2 dispatchers, 3 packets, 2 groups of together 2 packets | `CachesSound`, `MapsSound` (`ReadersServed` and `CountsMatch`), `ImplementsBroadcast` (safety and liveness) |
| `sql` | the worker and 1 caller, 4 addresses, sizes 1 and 2, 2 statements of which 1 with a conversion, 3 tries, 3 faults | `ConnectionsSound`, `StatementsServed` |

Why the bounds are enough. The pipe's capacity and the size of a read matter as
"full", "empty" and "needs a second read"; capacity 2 with reads of 1 has all
three. Two producers and the loop's own callbacks are all kinds of callers, and
two tasks and the destructor's lambda are enough for one to be listed while
another is in the batch and a third entry runs. Two timers can be equal, ordered either way,
rescheduled and nested. Two workers and one token separate `notify_one` from
`notify_all`. For the socket, two senders and the poller are three threads in
flushData at once, and three packets fill the kernel's buffer, the second-level
buffer and the first-level buffer at the same time. `MaxTime` bounds the clock and the deadlines:
calls that would exceed it are not made, and at the last tick a sleep ends.

Three descriptors with two numbers are one that is closed, one that gets its
number while an event or a task still names it, and one whose events wait in the same batch.
Three attempts are one that is
replaced, the one that replaces it from inside its callback, and one more from
outside. Three inputs of the UDP servers (`MaxInputs`) are two datagrams that make the two servers race for one peer's session,
or that make two sessions, and a third that reaches one of them while it ends, at its
own socket or at another's, or makes a second session under its key; with two datagrams and a round of the
timer, one session is visited while the other goes. In the ring buffer nothing passes between pollers except through
the sections of `_mtx_map`, so the other thread stands for another poller; two dispatchers are
a first one still named by queued tasks and its successor; three packets against a cache of two
overflow it by whole groups and within one group. `MaxFaults` equal to
the number of tries lets one statement fail as often as it may.

Fairness. Weak fairness on a thread's steps says that the operating system runs a
thread that can run, and that callbacks return. `Tick` is fair: time
passes. `Drain` is fair in the socket's liveness run: the peer reads; `AllSent`
excuses a closed or reset connection. A callback's return has strong fairness: a callback that
calls the socket is away from its return in between, and makes finitely many calls. For a socket that connects, the
timer fires; for statements, the retry timer fires and a query that does not fail returns.
Nothing is assumed of callers, signals, resolvers, networks,
other descriptors, spurious wake-ups, cancels or resets; none of them may be needed for progress.

What deserves a word:

- `ImplementsExecutor` is a refinement with liveness: the mapped line of
  EventPoller is `_list_swap` followed by `_list_task` (`Listed`), split into the entries of
  `async`, with their order, and those of `async_first`. For the poller the promise ends with the
  destructor's last batch, for the pool it holds even then.
- `SleepEndsAtDeadline` allows the oversleep the code has: flushDelayTask
  computes the delay from the time at which it began, so the run time of the due
  tasks is added to the next deadline. It is an exact bound, not a tolerance.
- `Answered` holds although resolver and network may be silent for ever: the timer
  alone guarantees it. Its excuses are the ways a user gives an attempt up, and
  one of the code's own: an attempt that failed inside `connect_l` set its timer over this one's (disagreement 7).
- `AnswersFresh` and `OnlyTheLatest` except attempts that failed inside `connect_l`,
  for the same reason; for all others a late answer is kept away by the
  weak pointer to the resolver's task, the weak pointer to the descriptor and the
  timer's replacement.
- `ImplementsBroadcast` speaks of order, of gaps and of the beginning of what a reader
  hears, whichever dispatcher the attach met and whoever drops the last reference.
- `CallbacksOnOwnThread` says exactly when the unlocked reference of
  `getOrCreateSession` can dangle: on another thread than the session's. On the session's own
  thread only that thread could end the session in between.
- `StatementsServed` says what the code does and not what it documents: a statement is kept until a query of it
  succeeded, however often it failed, because the count of tries starts anew and the branch that gives it up
  is never reached (disagreement 8). That one query succeeds, and only one, is all that can be said: a
  failed one may have been executed. That it does succeed is promised only if its text holds no conversion.
- `SessionsServed` has the form `[]<>`: inputs are bounded, so at the end all datagrams and sessions must be dealt with at
  once. It speaks of the peer that was looked up, which is not always the sender (disagreement 12), and of
  sessions that end, which one whose socket was not bound does not (13).
- `OneLockCycle` says which circle of waiting threads there is, and that there is no other (disagreement 6).
- `RegistrationsSound` says that numbers are not confused although they are used again while
  events and tasks name them: `delEvent` keeps the number until it is removed, and
  `emplace` keeps a callback that is there. Its exception is an `addEvent` of another
  thread that the loop overtakes by dropping the socket: the task then registers
  whatever has the number, with a callback whose weak pointers are dead. Without them
  (`DispatchUnchecked`) the callback would use a closed socket.
- `EventsOwn` has the exception that every epoll loop which looks descriptors up by number has: a
  descriptor registered during the batch may be given an event of the number's last owner.
  For the callback of `attachEvent` this costs a read that meets EAGAIN.
- `DataRead` is needed because the registration is edge-triggered: an event that is
  dropped, or spent on the wrong callback, is not announced again. It excuses a socket for which receiving
  was ever switched off (disagreement 11).
- `AllSent` and `InOrder` hold when every send comes from the poller thread, which is how
  the library's sessions use a socket, and fail with one other thread (below).

## The proofs

Eight modules hold theorems. Each is about all values of the constants that satisfy
the named assumptions of the module it is about (`ConstantsAssumption`, for the ring buffer
also `SizesAssumption`, for the pool of connections `PoolAssumption` and `SqlAssumption`). They say that
kinds of threads and tasks are distinct, that sizes are positive, and that the pool's
threads are finite in number; numbers of threads, tasks, readers, descriptors and the sizes of
buffers are arbitrary. A theorem that needs more says so in its hypothesis, and a run shows why.

Each proof has the same plan. `IInv` is an inductive invariant, a conjunction of named
parts; a lemma per action shows that the action preserves it; `Invariance` joins them
(in the first modules this is inside `TypeCorrect`); the properties follow. `TypeCorrect`,
`Spec => []TypeOK`, is a theorem of each of the eight.

**EventPoller.** `NoLostWakeup` is not inductive: it says nothing while the loop
is awake. `IInv` adds what must be true at every step of the loop:
`ByteUnderWay` (a listed task has a caller about to write, a byte in the pipe, or
a loop that will swap), `ByteAnnounced` (a byte in the pipe is on epoll's ready
list, among the events being dispatched, or being read), `EventsDispatched` (when
the loop looks at timers or sleeps, no event is pending) and `FlushOrder` (what
was scheduled during flushDelayTask is not due before its `now_time`, which is
what keeps the unsigned subtraction from wrapping). From these:

- `TypeCorrect`: `Spec => []TypeOK`. `TypeOK` has the types and `NoWrap`: where flushDelayTask subtracts `now_time`
  from the earliest deadline, every deadline is at or after it. Of the deadlines it took itself its own loop says so, of those
  that running tasks added meanwhile `FlushOrder` does.
- `WakeupsAreNotLost`: `Spec => []NoLostWakeup`, for any number of threads and
  any pipe, full or not.
- `TimersStayArmed`: `0 \notin NestedDelays => (Spec => []TimerArmed)`, with
  `FlushStrict` as the further invariant. The hypothesis is the one the run
  `poller_zerodelay` shows to be needed. `SleepsEndInTime`, with the same hypothesis and
  invariant, is the action property `SleepEndsAtDeadline`.
- `TasksStayAccounted`: `Spec => []TasksAccounted`. A task is counted in the task list, the batch, the
  timer map, its copy and the loop's hands; `Placed` says that the sum is one where it should be
  one and zero otherwise, which containers may be in use at which place, and that the destructor's
  last batch leaves the rest to nobody.
- `ExecutorRefined`: `Spec => Executor!Safety`, the safety half of `ImplementsExecutor`. `Lined` says
  that a task stands in the two lists once and was handed over; every action then maps to one
  action of `AsyncExecutor` or to a stutter (one lemma each), the swap to none, because it moves the
  line as a whole.

**ThreadPool.** `TokensMatch` counts, so the proof carries cardinalities of the
sets of workers at each place (`Move`, `Woken` and `AllWoken` say how a step changes
them). `IInv` adds `CallersGone` (nobody outside uses the pool once it is being
destroyed), `Accounted` and `Handed` (each task handed over is queued, with a
worker, or done) and `LastOut` (only a running task can push, and the last worker
to exit leaves an empty queue). From these `TypeCorrect`, `TokensBalance`
(`[]TokensMatch`), `WorkersStay` (`[]NoEarlyExit`) and `DestructorRunsAll`
(`[]NothingLost`). With `Once` (no task is twice in the queue) also `ExecutorRefined`, the safety
half of `ImplementsExecutor`.

**PollerEvents.** `RegistrationsSound` says nothing of tasks and events that still name a number,
and these are what could break it. `LivesSound` (a number is that of one open descriptor, and what
is held or in its callback is open), `TasksSound` (a task of `addEvent` has its socket's number unless
that was closed before; a descriptor waits for one task of `delEvent`), `EntriesSound` (epoll and
`_event_map` agree number by number, with the exception of `overtaken`) and `BatchSound` (the callback under an
event's number is that of the event's file, of one registered since, or of a socket that is gone) are
inductive together. From these `RegistrationsAreSound` and `CallbacksOwnTheirEvents`.

**SocketSend.** Packets are counted as the poller's tasks are. `IInv` has `LocalsUsed` and `ArgsFresh`
(a thread has packets of its own only inside flushData or a call of send), and `Placed(p)` for every
packet. From it `PacketsInOnePlace`, for any number of sending threads and any place at which a reset
strikes. `OneCircle` (`Spec => []OneLockCycle`, whatever callbacks call) follows from which locks are held at which place:
`_mtx_sock_fd` comes before `_mtx_send_buf_waiting` everywhere, so a set of threads each of which waits for another one of them
has one that waits for `_mtx_event`, at `move`, and the callback that holds it.
`SoleSenderInOrder` and `SoleSenderFlushed` have the hypothesis `Senders = {}`; `Lined` says that
unless a write failed what entered is in the kernel, in the thread's list and in the two buffers, in this order. The
hypothesis is the one that disagreements 2 and 5 below show to be needed.

**SocketConnect.** That a member names the current attempt depends on every task and frame that may
set or use it. `TasksOnce`, `OnePhase` (a descriptor is on its way to the socket at one place at most, then the
socket's, then on its way out; an attempt that `connect_l` has not begun has left no trace),
`StackShape` (events, timers and the resolver's answers begin on an empty stack), `FramesFresh` and `MembersFresh`
(whoever will answer an attempt is that of the one begun last, which has no answer, or of one that failed
inside `connect_l`; an `arm` frame under another one is of the second kind) and `DescriptorsOwned`. From these
`MembersAreSound`, and the action property `AnswersAreFresh`.

**UdpServer.** `MapToOwn`, `OpenOrEnded` (a session is in the map until its onError was called, which happens
once, and from then on until its own thread erases it), `EndsOnce` (between onError and the token's erase the entry to be erased is still that of the
session that ends), `ServersOwn`, and for each place and each task what it knows of its session
(`PlacesSound`, `TasksSound`): only a session's own thread erases it, so what that thread has found stays. From
these `SessionsAreSound` and `CallbacksAtHome`.

**RingBuffer.** For the maps `IInv` has `Homes` (a dispatcher has one poller for good, a reader one
dispatcher), `Dropped` (a reader whose deleter runs, now or in a task, is held by nobody) and `InUse` (a dispatcher with
readers is in the map, whoever holds them, and the count is that of the readers in maps). From these
`MapsAreSound`. For the caches, `Keeps(s, log, n)` says what a storage is that was told of n packets: empty, or
groups of consecutive packets up to the n-th (`Runs`), of which all but perhaps the first begin with a
key packet. `StorageWriteKeeps`, `ShrinkKeeps`, `ClearKeeps` and `NewGopIs` show that `_RingStorage` keeps this, for any sizes.
`Line` says of a dispatcher that has stored y packets of the z it was sent that number y + 1 is in
the loop's hands or first in the queue and the others follow in their order; `Told` joins the two, and `CacheInv`
says it of every dispatcher that was made. From it `TypeCorrect` and `CachesAreSound`. `FlattenSeq` of the community modules
is recursive: `FlattenIs` shows, by a smallest counterexample, that any solution of its recursion is its value, and
`RunsFlatten` gives the solution for groups of consecutive packets.

**SqlPool.** With `FlagExcludes` (one thread at most is between the flag's set and its clear, and nobody after a
constructor threw there), `HeldByPlace`, `OneOwner` (an object is a thread's or in one place of the list),
`OwnedIsLive` (what is owned exists, what exists is owned), `BrokenQuits` (a connection whose query failed is on its way to be
deleted), `ListBounded` and `WorkerBusy`: `ConnectionsAreSound`, for any number of threads, sizes and faults.

Only model-checked: everything that must happen in the end (`DestructorReturns`, `DelayedTaskFires`, `SyncEnds`, `DataRead`, `AllSent`,
`Answered`, `SessionsServed`, `StatementsServed`, and the liveness half of the refinements), which is out of the
prover's reach, and `ImplementsBroadcast`.

## Where code and comments disagree

The first two are runs that end with a counterexample; `PROJECT.json` quotes the
lines. The others were found with the same modules, with the instance named.

1. `poller_zerodelay` - a delayed task that schedules another one with delay 0
   makes `flushDelayTask` return 0, which `runLoop` takes for "no timer": the new
   task waits until something else wakes the loop.
2. `send_order` - the poller thread flushes without `_mtx_sock_fd`; packets of
   another thread pass the ones the poller has in hand.
3. `SocketConnect` with 1 attempt and no closers: `AnsweredOnce` fails. An address that fails at
   once is reported inside `connect_l`, and again by the timer that is set afterwards (`Socket.cpp:206`, `226`),
   although `Socket.h:286` documents one callback for the result.
4. `ThreadPool` with `AutoRun = FALSE`, 1 worker: `SyncEnds` fails. A worker runs before
   it is in the thread group (`threadgroup.h:50`), so `sync` called by its first task
   queues behind itself, although `TaskExecutor.h:162` documents it as synchronous.
5. `SocketSend` with one sender and `CallbackCalls = FALSE`: `AllSent` fails. A
   sender meets EAGAIN, and before it puts the rest back the poller thread consumes
   the writable event and sees two empty buffers; nothing triggers the next flush until
   somebody sends or data arrives (`Socket.cpp:735`). With resets, `ErrOnce` fails: two threads
   pass the check of `emitErr` before either closes, although the comment in `Socket.cpp:339`
   says that the check prevents a second onErr.
6. `SocketSend` with one sender, 1 packet and callbacks that call the socket: `NoLockCycle` fails, although `Socket.h:279` promises of a
   socket with mutexes that its interface is thread-safe ("接口是否线程安全"). A sender in flushData holds `_mtx_sock_fd`
   (`Socket.cpp:407`) and `_mtx_send_buf_waiting` and asks for `_mtx_event` (663). A callback on the poller thread holds that one
   (324, 352, 430) and asks for one of the others: for `_mtx_sock_fd` if it shuts the socket down, closes it or asks for its
   descriptor or peer (337, 442, 625, 798), for `_mtx_send_buf_waiting` if it sends. Both wait for ever. With
   `CallbackCalls = FALSE` the invariant holds.
7. `SocketConnect`: `OnlyTheLatest` and `Answered` fail without their exception for
   attempts that failed inside `connect_l`. If the callback of such an attempt calls `connect`
   again, the outer call then sets its own timer over the new one; when it
   fires it closes the new attempt's socket, and the new callback is never called.
   Also, `emitErr` before a name is resolved does nothing, since there is no descriptor yet.
8. `SqlPool`: the remaining number of tries is passed to `asyncQuery` as an argument of the
   statement (`SqlPool.h:151`), so each retry has all tries again and the branch in lines 133-135 is never reached, against the
   comments in lines 67 and 119 (`@param tryCnt 重试次数`, number of tries). And since the statement is then the format of
   `asprintf` (`SqlConnection.h:178-186`), a `%` in it is taken for a conversion: with the run's instance `DoneAsGiven` fails, another
   statement than the given one is executed.
9. `ResourcePool`: a constructor that throws while the flag is set leaves it set
   (`ResourcePool.h:132`); from then on every object is made and deleted anew. In
   `ConnectionsSound` this is the state `stuck`.
10. `UdpServer`: with sockets of other pollers, the task of `createSession`
   (line 304) calls `onRecv` without the check that `onRead_l` makes in line 146, and may
   call it on a thread that is not the session's. `CallbacksOnOwnThread` fails
   without its exception for `elsewhere`.
11. `PollerEvents`: `DataRead` fails without its excuse for sockets that were switched off. Registrations carry
   `EPOLLEXCLUSIVE` (`EventPoller.cpp:110`), for which Linux refuses `EPOLL_CTL_MOD`, and the result of
   `modifyEvent` is ignored (`Socket.cpp:790`). What arrives while `enableRecv(false)` is in force
   uses up its edge without being read, and `enableRecv(true)` only sets the flag: it is read when more
   arrives, although `Socket.h:391` documents "关闭或开启数据接收" (switches receiving off or on).
12. `UdpServer` with the run's instance: `SenderServed` fails. `UdpServer.cpp:262` says of a datagram that another sender's
   packet is given to the server to be dispatched to the fitting session ("让server去派发此数据到合适的session对象"), but line 263
   passes on the `id` that the lambda captured, that of the session whose socket received it: the look-up finds this session
   again, or makes a new one under its id if it left the map.
13. `UdpServer`: the result of `bindUdpSock` is not looked at (line 237). A session whose socket was not bound
   is entered in the map and handed the datagrams that servers receive, but no error of its socket will ever take it out: in
   `SessionsServed` it is a session whose onError is not called.

Numbers 2, 5 and 6 need a thread other than the poller's that sends
or calls on a socket with `enable_mutex`, the default.

## What is not modelled

- In `PollerEvents`: listening sockets, and the write events, which are `SocketSend`'s.
- Listening, accepting, TcpClient, TcpServer, cloned descriptors, result
  callbacks of packets, partial packets: planned as far as they change control.
- `UdpServer`: `start_l` while datagrams arrive already, and the destructor, which clears the
  map from whatever thread it runs on. The global `SessionMap`.
- `RingBuffer`: the delegate, `getInfoList`, and `attach` or `setReadCB` inside a read
  callback. `getInfoList` runs user code inline under a mutex that is not recursive, and the
  other two insert into the map that the loop iterates over: what follows is
  undefined, not a matter of order. `_on_reader_changed` is called outside the lock, so that two
  pollers may report their counts in the wrong order.
- `ResourcePool` destroyed before its objects, `obtain2`; `SqlPool`'s destructor, which queues tasks
  that use `this` after it is gone.
- A destructor that runs on the object's own loop or worker thread: undefined
  behaviour from there on (`EventPoller.cpp:79`, `threadgroup.h:64`).
- The select loop, Windows, iOS; formatting, logging, load statistics, priorities.
- OpenSSL's, FFmpeg's and the database's own state.
- Digests, encodings, files, command lines: sequential, without shared state.

## Plan

Done: `AsyncExecutor`, `EventPoller`, `PollerEvents`, `ThreadPool`, `SocketSend`, `SocketConnect`,
`UdpServer`, `Broadcast`, `RingStorage`, `RingBuffer`, `ResourcePool`, `SqlPool`.

Theorems to add: the safety half of `ImplementsBroadcast`, from `CacheInv` and an invariant on the loop's
reader (who is pinned or yet to be visited belongs to the dispatcher of the task in hand); the safety half
of `StatementsServed`, that a statement is in one place until its query succeeded.

Still to model:

1. `TcpServer`: accept, the hop to another poller, the session maps, `SessionMap`.
2. `NoticeCenter`, `AsyncLogWriter`: one small module each.
3. `Channels`, `ThreadBase`, `BoundedQueue`: the base library.
4. `Process`: run, wait, kill with its delayed second signal.
5. ffmcpp's muxer queue.
