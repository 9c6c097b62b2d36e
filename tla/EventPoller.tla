---------------------------- MODULE EventPoller ----------------------------
(***************************************************************************)
(* toolkit::EventPoller: the task list other threads fill with async, the  *)
(* pipe that wakes the loop, the delayed tasks, and the destructor.        *)
(*                                                                         *)
(* The loop thread sleeps in epoll_wait.  The read end of the pipe is      *)
(* registered edge-triggered (Event_Read without Event_LT), so the loop    *)
(* is woken by a write to an empty pipe and must then read until EAGAIN.   *)
(* Both ends are non-blocking: a write to a full pipe fails and async      *)
(* ignores the failure.                                                    *)
(***************************************************************************)
EXTENDS Naturals, Sequences, FiniteSets

CONSTANTS
  Producers,      (* threads that hold an EventPoller::Ptr                 *)
  Loop,           (* the loop thread                                       *)
  Owner,          (* the thread that runs the destructor                   *)
  Tasks,          (* one element per call of async / async_first           *)
  DelayTasks,     (* one element per call of doDelayTask                   *)
  Io, None,       (* a file descriptor's event callback; no callback       *)
  Cancelable,     (* the tasks whose tag somebody may cancel               *)
  Delays,         (* delay_ms of calls from outside a delayed task         *)
  NestedDelays,   (* delay_ms of calls made by a running delayed task      *)
  PipeCap,        (* capacity of the pipe, in bytes                        *)
  ReadSize,       (* sizeof(buf) of onPipeEvent                            *)
  MaxTime         (* bound on the clock, in milliseconds                   *)

Threads == Producers \union {Loop, Owner}

Never == MaxTime + MaxTime + 1    (* the timeout -1 of epoll_wait *)

ASSUME ConstantsAssumption ==
  /\ Loop \notin Producers /\ Owner \notin Producers /\ Loop # Owner
  /\ Tasks \intersect DelayTasks = {}
  /\ Io \notin Tasks \union DelayTasks
  /\ None \notin Tasks \union DelayTasks \union {Io}
  /\ Cancelable \subseteq Tasks \union DelayTasks
  /\ Delays \subseteq Nat /\ NestedDelays \subseteq Nat
  /\ PipeCap \in Nat \ {0} /\ ReadSize \in Nat \ {0}
  /\ MaxTime \in Nat

(* An element of _list_task: a caller's task, the lambda by which          *)
(* doDelayTask enters a delayed task into the map, or the lambda of        *)
(* shutdown that throws ExitException.                                     *)
Entry ==
  [op : {"run"}, id : Tasks, line : {0}, first : BOOLEAN, by : Threads]
    \union [op : {"addDelay"}, id : DelayTasks, line : 0..MaxTime, first : {TRUE},
            by : Threads]
    \union [op : {"exit"}, id : {None}, line : {0}, first : {TRUE}, by : {Owner}]

(* An element of _delay_task_map. *)
Delayed == [line : 0..MaxTime, id : DelayTasks]

VARIABLES
  listTask,       (* _list_task                                            *)
  unwritten,      (* threads in async_l between the unlock and the write   *)
  pipe,           (* bytes in the pipe                                     *)
  edge,           (* the pipe is on epoll's ready list                     *)
  pc,             (* where the poller thread is                            *)
  events,         (* events of the last epoll_wait not yet dispatched      *)
  batch,          (* _list_swap                                            *)
  cur,            (* the callback that runs                                *)
  exitFlag,       (* _exit_flag                                            *)
  owner,          (* where the destructor is                               *)
  holding,        (* producers that still hold their EventPoller::Ptr      *)
  io,             (* some other file descriptor is ready                   *)
  clock,          (* getCurrentMillisecond()                               *)
  delayMap,       (* _delay_task_map                                       *)
  taskCopy,       (* task_copy of flushDelayTask                           *)
  nowTime,        (* now_time of flushDelayTask                            *)
  wake,           (* when the timeout of epoll_wait elapses                *)
  posted, ran, cancelled, ended
                  (* per task: handed over, started, cancelled, done with  *)

shared == <<listTask, unwritten, pipe, edge>>
thread == <<pc, events, batch, cur, exitFlag>>
timers == <<delayMap, taskCopy, nowTime, wake>>
ledger == <<posted, ran, cancelled, ended>>
vars == <<shared, thread, timers, ledger, owner, holding, io, clock>>

Init ==
  /\ listTask = <<>> /\ unwritten = {} /\ pipe = 0 /\ edge = FALSE
  /\ pc = "check" /\ events = {} /\ batch = <<>> /\ cur = None
  /\ exitFlag = FALSE /\ owner = "alive" /\ holding = Producers
  /\ io = FALSE /\ clock = 0
  /\ delayMap = {} /\ taskCopy = {} /\ nowTime = 0 /\ wake = Never
  /\ posted = {} /\ ran = {} /\ cancelled = {} /\ ended = {}

(* The thread isCurrentThread() is true for: the destructor takes over     *)
(* _loop_thread_id for its last onPipeEvent.                               *)
PollerThread == IF owner = "final" THEN Owner ELSE Loop

-----------------------------------------------------------------------------
(* async_l, off the fast path: emplace under _mtx_task, then one byte into *)
(* the pipe.                                                               *)

(* Mutant: emplace_back and emplace_front exchanged. *)
EmplaceReversed(x, e) ==
  /\ x \notin unwritten
  /\ listTask' = IF e.first THEN Append(listTask, e) ELSE <<e>> \o listTask
  /\ unwritten' = unwritten \union {x}
  /\ UNCHANGED <<pipe, edge>>

Emplace(x, e) ==
  /\ x \notin unwritten
  /\ listTask' = IF e.first THEN <<e>> \o listTask ELSE Append(listTask, e)
  /\ unwritten' = unwritten \union {x}
  /\ UNCHANGED <<pipe, edge>>

(* Mutant: the byte count is not bounded by the pipe. *)
WritePipeUnbounded(x) ==
  /\ x \in unwritten
  /\ unwritten' = unwritten \ {x}
  /\ pipe' = pipe + 1 /\ edge' = TRUE
  /\ UNCHANGED <<listTask, thread, timers, ledger, owner, holding, io, clock>>

(* A byte in an empty pipe puts the pipe on the ready list; a byte behind  *)
(* others may or may not, depending on the kernel.                         *)
WritePipe(x) ==
  /\ x \in unwritten
  /\ unwritten' = unwritten \ {x}
  /\ IF pipe < PipeCap
     THEN /\ pipe' = pipe + 1
          /\ edge' \in IF pipe = 0 THEN {TRUE} ELSE {edge, TRUE}
     ELSE UNCHANGED <<pipe, edge>>
  /\ UNCHANGED <<listTask, thread, timers, ledger, owner, holding, io, clock>>

TaskEntry(x, t, first) ==
  [op |-> "run", id |-> t, line |-> 0, first |-> first, by |-> x]

DelayEntry(x, d, delay) ==
  [op |-> "addDelay", id |-> d, line |-> clock + delay, first |-> TRUE, by |-> x]

ExitEntry ==
  [op |-> "exit", id |-> None, line |-> 0, first |-> TRUE, by |-> Owner]

(* async / async_first called by another thread. *)
Async(p, t, first) ==
  /\ p \in holding
  /\ t \in Tasks \ posted
  /\ Emplace(p, TaskEntry(p, t, first))
  /\ posted' = posted \union {t}
  /\ UNCHANGED <<thread, timers, ran, cancelled, ended, owner, holding, io, clock>>

(* Mutant: doDelayTask enters the task into the map itself and wakes nobody. *)
DoDelayTaskUnwoken(p, d, delay) ==
  /\ p \in holding
  /\ d \in DelayTasks \ posted
  /\ clock + delay <= MaxTime
  /\ delayMap' = delayMap \union {[line |-> clock + delay, id |-> d]}
  /\ posted' = posted \union {d}
  /\ UNCHANGED <<shared, thread, taskCopy, nowTime, wake, ran, cancelled, ended,
                 owner, holding, io, clock>>

(* doDelayTask called by another thread. *)
DoDelayTask(p, d, delay) ==
  /\ p \in holding
  /\ d \in DelayTasks \ posted
  /\ clock + delay <= MaxTime
  /\ Emplace(p, DelayEntry(p, d, delay))
  /\ posted' = posted \union {d}
  /\ UNCHANGED <<thread, timers, ran, cancelled, ended, owner, holding, io, clock>>

(* TaskCancelableImp::cancel (also ~Timer), by whoever has the tag; the tag *)
(* of a task that is done with changes nothing.                            *)
Cancel(t) ==
  /\ t \in Cancelable \intersect (posted \ (ended \union cancelled))
  /\ cancelled' = cancelled \union {t}
  /\ UNCHANGED <<shared, thread, timers, posted, ran, ended, owner, holding, io, clock>>

-----------------------------------------------------------------------------
(* Calls made by the callback that runs on the poller thread. *)

InBody ==
  /\ pc = "exec"
  /\ PollerThread \notin unwritten

(* may_sync = false: the task is queued although the caller is the poller  *)
(* thread.                                                                 *)
BodyAsync(t, first) ==
  /\ InBody
  /\ t \in Tasks \ posted
  /\ Emplace(PollerThread, TaskEntry(PollerThread, t, first))
  /\ posted' = posted \union {t}
  /\ UNCHANGED <<thread, timers, ran, cancelled, ended, owner, holding, io, clock>>

(* may_sync = true: an ordinary call.  What the called task does is what   *)
(* the callback around it may do.                                          *)
BodyInline(t) ==
  /\ InBody
  /\ t \in Tasks \ posted
  /\ posted' = posted \union {t}
  /\ ran' = ran \union {t}
  /\ ended' = ended \union {t}
  /\ UNCHANGED <<shared, thread, timers, cancelled, owner, holding, io, clock>>

(* Mutant: the delay is stored in place of the time it ends. *)
BodyDelayRelative(d, delay) ==
  /\ InBody
  /\ d \in DelayTasks \ posted
  /\ delay \in IF cur \in DelayTasks THEN NestedDelays ELSE Delays
  /\ clock + delay <= MaxTime
  /\ delayMap' = delayMap \union {[line |-> delay, id |-> d]}
  /\ posted' = posted \union {d}
  /\ UNCHANGED <<shared, thread, taskCopy, nowTime, wake, ran, cancelled, ended,
                 owner, holding, io, clock>>

(* doDelayTask on the poller thread: async_first runs the lambda at once. *)
BodyDelay(d, delay) ==
  /\ InBody
  /\ d \in DelayTasks \ posted
  /\ delay \in IF cur \in DelayTasks THEN NestedDelays ELSE Delays
  /\ clock + delay <= MaxTime
  /\ delayMap' = delayMap \union {[line |-> clock + delay, id |-> d]}
  /\ posted' = posted \union {d}
  /\ UNCHANGED <<shared, thread, taskCopy, nowTime, wake, ran, cancelled, ended,
                 owner, holding, io, clock>>

(* The callback of a task or of a file descriptor returns or throws. *)
BodyReturns ==
  /\ InBody
  /\ cur \notin DelayTasks
  /\ pc' = IF cur = Io THEN "dispatch" ELSE "run"
  /\ ended' = IF cur = Io THEN ended ELSE ended \union {cur}
  /\ cur' = None
  /\ UNCHANGED <<shared, events, batch, exitFlag, timers, posted, ran, cancelled,
                 owner, holding, io, clock>>

(* A delayed task returns its next delay, or 0 or an exception to end. *)
DelayTaskReturns(next_delay) ==
  /\ InBody
  /\ cur \in DelayTasks
  /\ nowTime + next_delay <= MaxTime
  /\ IF next_delay = 0
     THEN ended' = ended \union {cur} /\ UNCHANGED delayMap
     ELSE /\ delayMap' = delayMap \union {[line |-> nowTime + next_delay, id |-> cur]}
          /\ UNCHANGED ended
  /\ pc' = "flush"
  /\ cur' = None
  /\ UNCHANGED <<shared, events, batch, exitFlag, taskCopy, nowTime, wake, posted,
                 ran, cancelled, owner, holding, io, clock>>

-----------------------------------------------------------------------------
(* runLoop, getMinDelay and flushDelayTask. *)

(* Mutant: the delay is that of the last timer (rbegin for begin). *)
Latest(map) == CHOOSE r \in map : \A s \in map : r.line >= s.line

Earliest(map) == CHOOSE r \in map : \A s \in map : r.line <= s.line

ExitLoop ==
  /\ pc = "check" /\ exitFlag
  /\ pc' = "exited"
  /\ UNCHANGED <<shared, events, batch, cur, exitFlag, timers, ledger, owner,
                 holding, io, clock>>

(* getMinDelay without a due task, and the call of epoll_wait. *)
Sleep ==
  /\ pc = "check" /\ ~exitFlag
  /\ \A r \in delayMap : r.line > clock
  /\ wake' = IF delayMap = {} THEN Never ELSE Earliest(delayMap).line
  /\ pc' = "wait"
  /\ UNCHANGED <<shared, events, batch, cur, exitFlag, delayMap, taskCopy, nowTime,
                 ledger, owner, holding, io, clock>>

(* getMinDelay with a due task: flushDelayTask takes the whole map. *)
BeginFlush ==
  /\ pc = "check" /\ ~exitFlag
  /\ \E r \in delayMap : r.line <= clock
  /\ taskCopy' = delayMap /\ delayMap' = {} /\ nowTime' = clock
  /\ pc' = "flush"
  /\ UNCHANGED <<shared, events, batch, cur, exitFlag, wake, ledger, owner,
                 holding, io, clock>>

(* A due task gets its turn, the earliest deadline first. *)
FlushOne(r) ==
  /\ pc = "flush"
  /\ r \in taskCopy /\ r.line <= nowTime
  /\ \A s \in taskCopy : r.line <= s.line
  /\ taskCopy' = taskCopy \ {r}
  /\ IF r.id \in cancelled
     THEN ended' = ended \union {r.id} /\ UNCHANGED <<pc, cur, ran>>
     ELSE /\ pc' = "exec" /\ cur' = r.id /\ ran' = ran \union {r.id}
          /\ UNCHANGED ended
  /\ UNCHANGED <<shared, events, batch, exitFlag, delayMap, nowTime, wake, posted,
                 cancelled, owner, holding, io, clock>>

(* The timeout handed to epoll_wait: 0 means "no timer" to runLoop. *)
Deadline(minDelay) == IF minDelay = 0 THEN Never ELSE clock + minDelay

(* Mutant: the delay is computed before the two maps are merged. *)
EndFlushUnmerged ==
  /\ pc = "flush"
  /\ \A r \in taskCopy : r.line > nowTime
  /\ delayMap' = delayMap \union taskCopy
  /\ taskCopy' = {}
  /\ wake' = IF taskCopy = {} THEN Never
             ELSE Deadline(Earliest(taskCopy).line - nowTime)
  /\ pc' = "wait"
  /\ UNCHANGED <<shared, events, batch, cur, exitFlag, nowTime, ledger, owner,
                 holding, io, clock>>

(* No due task is left: merge the two maps, return the delay to the        *)
(* earliest deadline as of now_time, and sleep.                            *)
EndFlush ==
  /\ pc = "flush"
  /\ \A r \in taskCopy : r.line > nowTime
  /\ delayMap' = delayMap \union taskCopy
  /\ taskCopy' = {}
  /\ wake' = IF delayMap' = {} THEN Never
             ELSE Deadline(Earliest(delayMap').line - nowTime)
  /\ pc' = "wait"
  /\ UNCHANGED <<shared, events, batch, cur, exitFlag, nowTime, ledger, owner,
                 holding, io, clock>>

(* What epoll_wait reports: the pipe when it is on the ready list and a    *)
(* byte is in it.                                                          *)
Ready ==
  (IF edge /\ pipe > 0 THEN {"pipe"} ELSE {}) \union (IF io THEN {"io"} ELSE {})

WaitReturns ==
  /\ pc = "wait" /\ Ready # {}
  /\ events' = Ready
  /\ edge' = (edge /\ "pipe" \notin Ready)
  /\ io' = FALSE
  /\ pc' = "dispatch"
  /\ UNCHANGED <<listTask, unwritten, pipe, batch, cur, exitFlag, timers, ledger,
                 owner, holding, clock>>

WaitTimesOut ==
  /\ pc = "wait" /\ Ready = {}
  /\ wake # Never
  /\ clock >= wake \/ clock = MaxTime
  /\ pc' = "check"
  /\ UNCHANGED <<shared, events, batch, cur, exitFlag, timers, ledger, owner,
                 holding, io, clock>>

(* A signal: epoll_wait returns -1 and the loop continues. *)
WaitInterrupted ==
  /\ pc = "wait" /\ Ready = {}
  /\ pc' = "check"
  /\ UNCHANGED <<shared, events, batch, cur, exitFlag, timers, ledger, owner,
                 holding, io, clock>>

(* The loop over events[]: one callback after the other. *)
Dispatch ==
  /\ pc = "dispatch"
  /\ \/ events = {} /\ pc' = "check" /\ UNCHANGED <<events, cur>>
     \/ "pipe" \in events /\ events' = events \ {"pipe"} /\ pc' = "drain"
        /\ UNCHANGED cur
     \/ "io" \in events /\ events' = events \ {"io"} /\ pc' = "exec" /\ cur' = Io
  /\ UNCHANGED <<shared, batch, exitFlag, timers, ledger, owner, holding, io, clock>>

-----------------------------------------------------------------------------
(* onPipeEvent: empty the pipe, take the list, run it. *)

(* Mutant: one read instead of a loop until EAGAIN. *)
ReadPipeOnce ==
  /\ pc = "drain"
  /\ pipe' = (IF pipe > ReadSize THEN pipe - ReadSize ELSE 0)
  /\ pc' = "swap"
  /\ UNCHANGED <<listTask, unwritten, edge, events, batch, cur, exitFlag, timers,
                 ledger, owner, holding, io, clock>>

ReadPipe ==
  /\ pc = "drain"
  /\ IF pipe = 0
     THEN pc' = "swap" /\ UNCHANGED pipe
     ELSE pipe' = (IF pipe > ReadSize THEN pipe - ReadSize ELSE 0) /\ UNCHANGED pc
  /\ UNCHANGED <<listTask, unwritten, edge, events, batch, cur, exitFlag, timers,
                 ledger, owner, holding, io, clock>>

(* Mutant: the list is copied, not swapped. *)
CopyList ==
  /\ pc = "swap"
  /\ batch' = listTask
  /\ pc' = "run"
  /\ UNCHANGED <<shared, events, cur, exitFlag, timers, ledger, owner, holding, io,
                 clock>>

SwapList ==
  /\ pc = "swap"
  /\ batch' = listTask
  /\ listTask' = <<>>
  /\ pc' = "run"
  /\ UNCHANGED <<unwritten, pipe, edge, events, cur, exitFlag, timers, ledger,
                 owner, holding, io, clock>>

(* The turn of the next element of _list_swap. *)
RunNext ==
  /\ pc = "run" /\ batch # <<>>
  /\ batch' = Tail(batch)
  /\ LET e == Head(batch) IN
       \/ /\ e.op = "exit"
          /\ exitFlag' = TRUE
          /\ UNCHANGED <<pc, cur, delayMap, ran, ended>>
       \/ /\ e.op = "addDelay"
          /\ delayMap' = delayMap \union {[line |-> e.line, id |-> e.id]}
          /\ UNCHANGED <<pc, cur, exitFlag, ran, ended>>
       \/ /\ e.op = "run" /\ e.id \in cancelled
          /\ ended' = ended \union {e.id}
          /\ UNCHANGED <<pc, cur, exitFlag, delayMap, ran>>
       \/ /\ e.op = "run" /\ e.id \notin cancelled
          /\ pc' = "exec" /\ cur' = e.id /\ ran' = ran \union {e.id}
          /\ UNCHANGED <<exitFlag, delayMap, ended>>
  /\ UNCHANGED <<shared, events, taskCopy, nowTime, wake, posted, cancelled, owner,
                 holding, io, clock>>

(* _list_swap is used up: back to the loop over events[], or, in the       *)
(* destructor, the poller is gone.                                         *)
EndBatch ==
  /\ pc = "run" /\ batch = <<>>
  /\ pc' = IF owner = "final" THEN "destroyed" ELSE "dispatch"
  /\ UNCHANGED <<shared, events, batch, cur, exitFlag, timers, ledger, owner,
                 holding, io, clock>>

-----------------------------------------------------------------------------
(* ~EventPoller.  It runs when the last EventPoller::Ptr is gone. *)

Release(p) ==
  /\ p \in holding /\ p \notin unwritten
  /\ holding' = holding \ {p}
  /\ UNCHANGED <<shared, thread, timers, ledger, owner, io, clock>>

(* Mutant: the exit lambda is queued without waking the loop. *)
ShutdownUnwoken ==
  /\ owner = "alive" /\ holding = {}
  /\ listTask' = <<ExitEntry>> \o listTask
  /\ owner' = "join"
  /\ UNCHANGED <<unwritten, pipe, edge, thread, timers, ledger, holding, io, clock>>

(* shutdown: the lambda that throws ExitException goes first. *)
Shutdown ==
  /\ owner = "alive" /\ holding = {}
  /\ Emplace(Owner, ExitEntry)
  /\ owner' = "join"
  /\ UNCHANGED <<thread, timers, ledger, holding, io, clock>>

(* Mutant: the destructor does not run the list once more. *)
JoinOnly ==
  /\ owner = "join" /\ Owner \notin unwritten
  /\ pc = "exited"
  /\ owner' = "final"
  /\ pc' = "destroyed"
  /\ UNCHANGED <<shared, events, batch, cur, exitFlag, timers, ledger, holding, io,
                 clock>>

(* join returns; the destructor calls onPipeEvent as the poller thread. *)
Join ==
  /\ owner = "join" /\ Owner \notin unwritten
  /\ pc = "exited"
  /\ owner' = "final"
  /\ pc' = "drain"
  /\ UNCHANGED <<shared, events, batch, cur, exitFlag, timers, ledger, holding, io,
                 clock>>

-----------------------------------------------------------------------------
Tick ==
  /\ clock < MaxTime
  /\ clock' = clock + 1
  /\ UNCHANGED <<shared, thread, timers, ledger, owner, holding, io>>

IoArrives ==
  /\ ~io
  /\ io' = TRUE
  /\ UNCHANGED <<shared, thread, timers, ledger, owner, holding, clock>>

(* The poller is destroyed: nothing is left to happen. *)
Destroyed ==
  /\ pc = "destroyed"
  /\ UNCHANGED vars

PollerStep ==
  \/ \E t \in Tasks, first \in BOOLEAN : BodyAsync(t, first)
  \/ \E t \in Tasks : BodyInline(t)
  \/ \E d \in DelayTasks, delay \in Delays \union NestedDelays : BodyDelay(d, delay)
  \/ BodyReturns
  \/ \E next_delay \in {0} \union Delays \union NestedDelays :
       DelayTaskReturns(next_delay)
  \/ ExitLoop \/ Sleep \/ BeginFlush \/ EndFlush
  \/ \E r \in taskCopy : FlushOne(r)
  \/ WaitReturns \/ WaitTimesOut \/ Dispatch
  \/ ReadPipe \/ SwapList \/ RunNext \/ EndBatch

Next ==
  \/ PollerStep
  \/ \E x \in Threads : WritePipe(x)
  \/ \E p \in Producers, t \in Tasks, first \in BOOLEAN : Async(p, t, first)
  \/ \E p \in Producers, d \in DelayTasks, delay \in Delays : DoDelayTask(p, d, delay)
  \/ \E t \in Cancelable : Cancel(t)
  \/ \E p \in Producers : Release(p)
  \/ Shutdown \/ Join
  \/ WaitInterrupted \/ Tick \/ IoArrives
  \/ Destroyed

Spec == Init /\ [][Next]_vars

(* The scheduler runs a thread that can run, and time passes.  Nothing is  *)
(* assumed of the producers' calls, of signals or of other descriptors.    *)
Fairness ==
  /\ WF_vars(PollerStep)
  /\ \A x \in Threads : WF_vars(WritePipe(x))
  /\ WF_vars(Join)
  /\ WF_vars(Tick)

FairSpec == Spec /\ Fairness

-----------------------------------------------------------------------------
(* Properties. *)

Types ==
  /\ listTask \in Seq(Entry) /\ batch \in Seq(Entry)
  /\ unwritten \subseteq Threads /\ holding \subseteq Producers
  /\ pipe \in 0..PipeCap /\ edge \in BOOLEAN /\ io \in BOOLEAN
  /\ pc \in {"check", "flush", "wait", "dispatch", "drain", "swap", "run", "exec",
             "exited", "destroyed"}
  /\ events \subseteq {"pipe", "io"}
  /\ cur \in Tasks \union DelayTasks \union {Io, None}
  /\ pc = "exec" => cur # None
  /\ exitFlag \in BOOLEAN
  /\ owner \in {"alive", "join", "final"}
  /\ clock \in 0..MaxTime /\ nowTime \in 0..MaxTime
  /\ delayMap \subseteq Delayed /\ taskCopy \subseteq Delayed
  /\ wake \in 0..Never
  /\ posted \subseteq Tasks \union DelayTasks /\ ran \subseteq Tasks \union DelayTasks
  /\ ended \subseteq Tasks \union DelayTasks /\ cancelled \subseteq Cancelable

(* flushDelayTask runs: between its swaps, or in a delayed task. *)
InFlush == pc = "flush" \/ (pc = "exec" /\ cur \in DelayTasks)

(* What was scheduled while flushDelayTask ran is not due before its       *)
(* now_time.                                                               *)
FlushOrder ==
  /\ nowTime <= clock
  /\ InFlush => \A r \in delayMap : nowTime <= r.line

(* The result of flushDelayTask, its earliest deadline minus now_time.  It *)
(* subtracts when no task that it took is due.                             *)
NoWrap ==
  pc = "flush" /\ (\A r \in taskCopy : r.line > nowTime) =>
    \A r \in delayMap \union taskCopy : nowTime <= r.line

(* Every variable holds a value of the type the code gives it, and the     *)
(* uint64_t that flushDelayTask returns (line 408) is not a difference     *)
(* below zero: the tasks that ran scheduled nothing before now_time.       *)
TypeOK == Types /\ NoWrap

(* No wake-up is lost (async_l 198-213 against onPipeEvent 219-234 on an   *)
(* edge-triggered pipe whose writes may fail): while the loop sleeps and   *)
(* something is on _list_task, a caller is about to write its byte or      *)
(* epoll_wait is about to report the pipe.                                 *)
NoLostWakeup ==
  pc = "wait" /\ listTask # <<>> => unwritten # {} \/ "pipe" \in Ready

(* How often x stands in a sequence of entries. *)
Occurrences(seq, x) == Cardinality({i \in DOMAIN seq : seq[i].id = x})

(* How often x stands in a timer map. *)
Scheduled(map, x) == Cardinality({r \in map : r.id = x})

(* Tasks are neither lost nor doubled on their way through _list_task,     *)
(* _list_swap, _delay_task_map and task_copy (onPipeEvent 229-243,         *)
(* flushDelayTask 382-400): what was handed over and is not done with is   *)
(* in exactly one of them, or runs; what is done with is in none.          *)
InOnePlace ==
  \A x \in posted :
    Occurrences(listTask, x) + Occurrences(batch, x) + Scheduled(delayMap, x)
      + Scheduled(taskCopy, x) + (IF cur = x THEN 1 ELSE 0)
    = IF x \in ended THEN 0 ELSE 1

(* The destructor runs what was handed over before it (shutdown 72-83 and  *)
(* the onPipeEvent at the end of ~EventPoller 95-97): once the poller is   *)
(* destroyed only tasks that the destructor's own last batch queued are    *)
(* left on _list_task.                                                     *)
NothingLostAtExit ==
  pc = "destroyed" =>
    \A x \in Tasks \intersect (posted \ ended) :
      \E i \in DOMAIN listTask : listTask[i].id = x /\ listTask[i].by = Owner

(* Both: every task that was handed over is accounted for, from async to   *)
(* the end of the destructor.                                              *)
TasksAccounted == InOnePlace /\ NothingLostAtExit

(* A pending delayed task keeps epoll_wait from sleeping without a timeout *)
(* (getMinDelay 411-424, flushDelayTask 399-408, doDelayTask 426-434): at  *)
(* most a caller's byte is still on its way.  EventPoller.h:106-109        *)
(* promises the execution after delay_ms.                                  *)
TimerArmed == pc = "wait" /\ delayMap # {} => wake # Never

(* epoll_wait's timeout is not beyond the earliest deadline by more than   *)
(* the time the due tasks took that flushDelayTask ran before it: with     *)
(* nobody running, the sleep ends at the deadline.                         *)
SleepEndsAtDeadline ==
  [][pc # "wait" /\ pc' = "wait" =>
       \A r \in delayMap' : wake' <= r.line + (IF pc = "flush" THEN clock - nowTime ELSE 0)]_vars

(* A delayed task gets its turn (doDelayTask 426-434 wakes the loop or is  *)
(* on it) unless it is cancelled or the loop is told to exit.              *)
DelayedTaskFires ==
  \A d \in DelayTasks :
    d \in posted ~> (d \in ran \/ d \in cancelled \/ exitFlag)

(* The destructor returns (72-98): the exit lambda reaches the loop, which *)
(* leaves runLoop although its callbacks go on queueing tasks.             *)
DestructorReturns == owner = "join" ~> pc = "destroyed"

(* What async promises, refined by the two lists, of which _list_swap      *)
(* comes first.                                                            *)
Listed == batch \o listTask

IsTask(e, t, first) == e.op = "run" /\ e.id = t /\ e.first = first

Waiting == {t \in Tasks : \E i \in DOMAIN Listed : IsTask(Listed[i], t, FALSE)}

Urgent == {t \in Tasks : \E i \in DOMAIN Listed : IsTask(Listed[i], t, TRUE)}

Before ==
  {p \in Waiting \X Waiting :
     \E i, j \in DOMAIN Listed : i < j /\ Listed[i].id = p[1] /\ Listed[j].id = p[2]}

Executor == INSTANCE AsyncExecutor WITH
  posted <- posted \intersect Tasks, waiting <- Waiting, before <- Before,
  urgent <- Urgent, ran <- ran \intersect Tasks,
  cancelled <- cancelled \intersect Tasks, closed <- owner = "final"

(* EventPoller::async and async_first (186-213) keep the promises of       *)
(* AsyncExecutor: at most once, in order, never after a cancel, and every  *)
(* task gets its turn while the poller lives.                              *)
ImplementsExecutor == Executor!Spec

-----------------------------------------------------------------------------
(* The inductive invariant behind NoLostWakeup and TimerArmed. *)

(* A queued task has its byte under way, or the loop is about to swap.     *)
ByteUnderWay ==
  listTask # <<>> => unwritten # {} \/ pipe > 0 \/ pc \in {"drain", "swap"}

(* A byte in the pipe is announced, or the loop is reading it.             *)
ByteAnnounced == pipe > 0 => edge \/ "pipe" \in events \/ pc = "drain"

(* Every reported event was dispatched before the loop looks at timers.    *)
EventsDispatched ==
  pc \in {"check", "wait", "exited"} \/ InFlush => events = {}

IInv ==
  Types /\ FlushOrder /\ ByteUnderWay /\ ByteAnnounced /\ EventsDispatched

(* With delays of at least a millisecond, what was scheduled while         *)
(* flushDelayTask ran is due after its now_time.                           *)
FlushStrict == InFlush => \A r \in delayMap : nowTime < r.line
=============================================================================
