----------------------------- MODULE ThreadPool -----------------------------
(***************************************************************************)
(* toolkit::ThreadPool: worker threads that share one TaskQueue, whose     *)
(* elements are counted by a semaphore (mutex, counter and condition       *)
(* variable).  The destructor posts one token per worker without pushing   *)
(* anything; a worker that finds the queue empty exits.                    *)
(***************************************************************************)
EXTENDS Naturals, Sequences, FiniteSets

CONSTANTS
  Callers,        (* threads outside the pool that call it                 *)
  Workers,        (* the threads of _thread_group; _thread_num of them     *)
  Owner,          (* the thread that constructs and destroys the pool      *)
  Tasks,          (* one element per call of async, async_first or sync    *)
  None,           (* no task                                               *)
  Cancelable,     (* the tasks whose tag somebody may cancel               *)
  AutoRun         (* auto_run: the constructor starts the workers          *)

Threads == Callers \union Workers

ASSUME ConstantsAssumption ==
  /\ Callers \intersect Workers = {}
  /\ IsFiniteSet(Callers) /\ IsFiniteSet(Workers) /\ Workers # {}
  /\ Owner \notin Threads
  /\ None \notin Tasks
  /\ Cancelable \subseteq Tasks
  /\ AutoRun \in BOOLEAN

VARIABLES
  queue,          (* TaskQueue::_queue                                     *)
  unposted,       (* threads between emplace_back and _sem.post            *)
  count,          (* semaphore::_count                                     *)
  pc,             (* where each worker is                                  *)
  cur,            (* the task each worker took                             *)
  registered,     (* workers is_this_thread_in knows                       *)
  owner,          (* where construction and destruction are                *)
  holding,        (* callers that may still use the pool                   *)
  syncing,        (* the task a thread waits for in sync                   *)
  posted, turn, ran, cancelled, ended
                  (* per task: handed over, taken from the queue while not *)
                  (* cancelled, started, cancelled, done with              *)

ledger == <<posted, turn, ran, cancelled, ended>>
vars == <<queue, unposted, count, pc, cur, registered, owner, holding, syncing, ledger>>

Init ==
  /\ queue = <<>> /\ unposted = {} /\ count = 0
  /\ pc = [w \in Workers |-> "none"] /\ cur = [w \in Workers |-> None]
  /\ registered = {} /\ owner = "start" /\ holding = Callers
  /\ syncing = [x \in Threads |-> None]
  /\ posted = {} /\ turn = {} /\ ran = {} /\ cancelled = {} /\ ended = {}

At(label) == {w \in Workers : pc[w] = label}

-----------------------------------------------------------------------------
(* semaphore.h.  "idle" is a worker about to look at the counter, with the *)
(* mutex free; "blocked" one that waits in the condition variable.         *)

(* Mutant: post() counts and notifies nobody. *)
PostSilently == count' = count + 1 /\ UNCHANGED pc

(* post(): notify_one wakes one waiting thread, if there is one. *)
PostOne ==
  /\ count' = count + 1
  /\ IF At("blocked") = {}
     THEN UNCHANGED pc
     ELSE \E w \in At("blocked") : pc' = [pc EXCEPT ![w] = "idle"]

(* Mutant: post(n) notifies one thread, whatever n is. *)
PostNotifyOne(n) ==
  /\ count' = count + n
  /\ IF At("blocked") = {}
     THEN UNCHANGED pc
     ELSE \E w \in At("blocked") : pc' = [pc EXCEPT ![w] = "idle"]

(* post(n): notify_all unless n is 1. *)
PostAll(n) ==
  /\ count' = count + n
  /\ pc' = [w \in Workers |-> IF pc[w] = "blocked" THEN "idle" ELSE pc[w]]

(* Mutant: wait() does not look at the counter. *)
SemWaitUnguarded(w) ==
  /\ pc[w] = "idle"
  /\ count' = count - 1 /\ pc' = [pc EXCEPT ![w] = "take"]
  /\ UNCHANGED <<queue, unposted, cur, registered, owner, holding, syncing, ledger>>

(* wait(): with a token the worker goes on to the queue, else it blocks. *)
SemWait(w) ==
  /\ pc[w] = "idle"
  /\ IF count > 0
     THEN count' = count - 1 /\ pc' = [pc EXCEPT ![w] = "take"]
     ELSE pc' = [pc EXCEPT ![w] = "blocked"] /\ UNCHANGED count
  /\ UNCHANGED <<queue, unposted, cur, registered, owner, holding, syncing, ledger>>

(* Mutant: "if" for "while": whoever wakes believes in a token. *)
SpuriousPass(w) ==
  /\ pc[w] = "blocked"
  /\ pc' = [pc EXCEPT ![w] = "take"]
  /\ UNCHANGED <<queue, unposted, count, cur, registered, owner, holding, syncing,
                 ledger>>

(* The condition variable wakes a thread without a notify. *)
SpuriousWake(w) ==
  /\ pc[w] = "blocked"
  /\ pc' = [pc EXCEPT ![w] = "idle"]
  /\ UNCHANGED <<queue, unposted, count, cur, registered, owner, holding, syncing,
                 ledger>>

-----------------------------------------------------------------------------
(* TaskQueue::push_task and push_task_first. *)

(* Mutant: emplace_back and emplace_front exchanged. *)
PushReversed(x, t, first) ==
  /\ t \in Tasks \ posted
  /\ posted' = posted \union {t}
  /\ queue' = LET e == [id |-> t, first |-> first]
              IN  IF first THEN Append(queue, e) ELSE <<e>> \o queue
  /\ unposted' = unposted \union {x}

Push(x, t, first) ==
  /\ t \in Tasks \ posted
  /\ posted' = posted \union {t}
  /\ queue' = LET e == [id |-> t, first |-> first]
              IN  IF first THEN <<e>> \o queue ELSE Append(queue, e)
  /\ unposted' = unposted \union {x}

PostTask(x) ==
  /\ x \in unposted
  /\ unposted' = unposted \ {x}
  /\ PostOne
  /\ UNCHANGED <<queue, cur, registered, owner, holding, syncing, ledger>>

(* A thread that is free to make a call: a caller, or the body of a task.  *)
(* Callers know the pool once its constructor has returned.                *)
CanCall(x) ==
  /\ x \notin unposted /\ syncing[x] = None
  /\ \/ x \in holding /\ (AutoRun => owner # "start")
     \/ x \in At("exec")

(* async and async_first on the queue: from outside, with may_sync =       *)
(* false, or from a worker is_this_thread_in does not know yet.            *)
Async(x, t, first) ==
  /\ CanCall(x)
  /\ Push(x, t, first)
  /\ UNCHANGED <<count, pc, cur, registered, owner, holding, syncing, turn, ran,
                 cancelled, ended>>

(* async, async_first and sync on a worker of the pool: an ordinary call.  *)
CallInline(w, t) ==
  /\ w \in Workers /\ CanCall(w) /\ w \in registered
  /\ t \in Tasks \ posted
  /\ posted' = posted \union {t}
  /\ turn' = turn \union {t} /\ ran' = ran \union {t} /\ ended' = ended \union {t}
  /\ UNCHANGED <<queue, unposted, count, pc, cur, registered, owner, holding, syncing,
                 cancelled>>

(* sync and sync_first elsewhere: hand the task over and wait for it. *)
Sync(x, t, first) ==
  /\ CanCall(x) /\ x \notin registered
  /\ t \notin Cancelable
  /\ Push(x, t, first)
  /\ syncing' = [syncing EXCEPT ![x] = t]
  /\ UNCHANGED <<count, pc, cur, registered, owner, holding, turn, ran, cancelled,
                 ended>>

(* The token in the task posts the semaphore of sync when the task ends. *)
SyncReturns(x) ==
  /\ x \notin unposted
  /\ syncing[x] # None /\ syncing[x] \in ended
  /\ syncing' = [syncing EXCEPT ![x] = None]
  /\ UNCHANGED <<queue, unposted, count, pc, cur, registered, owner, holding, ledger>>

Cancel(t) ==
  /\ t \in Cancelable \intersect (posted \ (ended \union cancelled))
  /\ cancelled' = cancelled \union {t}
  /\ UNCHANGED <<queue, unposted, count, pc, cur, registered, owner, holding, syncing,
                 posted, turn, ran, ended>>

-----------------------------------------------------------------------------
(* ThreadPool::run. *)

(* Mutant: the destructor's flag is looked at before the queue. *)
TakeUnlessStopped(w) ==
  /\ pc[w] = "take"
  /\ IF queue = <<>> \/ owner = "shutdown"
     THEN /\ pc' = [pc EXCEPT ![w] = "exited"]
          /\ UNCHANGED <<queue, cur, turn>>
     ELSE LET t == Head(queue).id IN
          /\ pc' = [pc EXCEPT ![w] = "taken"]
          /\ cur' = [cur EXCEPT ![w] = t]
          /\ queue' = Tail(queue)
          /\ turn' = IF t \in cancelled THEN turn ELSE turn \union {t}
  /\ UNCHANGED <<unposted, count, registered, owner, holding, syncing, posted, ran,
                 cancelled, ended>>

(* get_task behind the semaphore: an empty queue is the order to exit. *)
Take(w) ==
  /\ pc[w] = "take"
  /\ IF queue = <<>>
     THEN /\ pc' = [pc EXCEPT ![w] = "exited"]
          /\ UNCHANGED <<queue, cur, turn>>
     ELSE LET t == Head(queue).id IN
          /\ pc' = [pc EXCEPT ![w] = "taken"]
          /\ cur' = [cur EXCEPT ![w] = t]
          /\ queue' = Tail(queue)
          /\ turn' = IF t \in cancelled THEN turn ELSE turn \union {t}
  /\ UNCHANGED <<unposted, count, registered, owner, holding, syncing, posted, ran,
                 cancelled, ended>>

Begin(w) ==
  /\ pc[w] = "taken"
  /\ IF cur[w] \in cancelled
     THEN /\ pc' = [pc EXCEPT ![w] = "idle"]
          /\ cur' = [cur EXCEPT ![w] = None]
          /\ ended' = ended \union {cur[w]}
          /\ UNCHANGED ran
     ELSE /\ pc' = [pc EXCEPT ![w] = "exec"]
          /\ ran' = ran \union {cur[w]}
          /\ UNCHANGED <<cur, ended>>
  /\ UNCHANGED <<queue, unposted, count, registered, owner, holding, syncing, posted,
                 turn, cancelled>>

(* The task returns or throws a std::exception. *)
TaskReturns(w) ==
  /\ pc[w] = "exec" /\ w \notin unposted /\ syncing[w] = None
  /\ pc' = [pc EXCEPT ![w] = "idle"]
  /\ ended' = ended \union {cur[w]}
  /\ cur' = [cur EXCEPT ![w] = None]
  /\ UNCHANGED <<queue, unposted, count, registered, owner, holding, syncing, posted,
                 turn, ran, cancelled>>

-----------------------------------------------------------------------------
(* start, and thread_group::create_thread: the thread runs before it is    *)
(* entered into the group.                                                 *)

CreateThread(w) ==
  /\ owner = "start"
  /\ pc[w] = "none"
  /\ \A v \in Workers : pc[v] # "none" => v \in registered
  /\ pc' = [pc EXCEPT ![w] = "idle"]
  /\ UNCHANGED <<queue, unposted, count, cur, registered, owner, holding, syncing,
                 ledger>>

RegisterThread(w) ==
  /\ pc[w] # "none" /\ w \notin registered
  /\ registered' = registered \union {w}
  /\ UNCHANGED <<queue, unposted, count, pc, cur, owner, holding, syncing, ledger>>

Started ==
  /\ owner = "start"
  /\ registered = Workers
  /\ owner' = "running"
  /\ UNCHANGED <<queue, unposted, count, pc, cur, registered, holding, syncing, ledger>>

Release(x) ==
  /\ x \in holding /\ CanCall(x)
  /\ holding' = holding \ {x}
  /\ UNCHANGED <<queue, unposted, count, pc, cur, registered, owner, syncing, ledger>>

(* Mutant: the destructor posts one token for all workers. *)
ShutdownOneToken ==
  /\ owner = "running" /\ holding = {}
  /\ owner' = "shutdown"
  /\ PostOne
  /\ UNCHANGED <<queue, unposted, cur, registered, holding, syncing, ledger>>

(* ~ThreadPool: shutdown posts _thread_num tokens. *)
Shutdown ==
  /\ owner = "running" /\ holding = {}
  /\ owner' = "shutdown"
  /\ IF Cardinality(Workers) = 1 THEN PostOne ELSE PostAll(Cardinality(Workers))
  /\ UNCHANGED <<queue, unposted, cur, registered, holding, syncing, ledger>>

(* join_all returns when every worker has returned from run. *)
Joined ==
  /\ owner = "shutdown"
  /\ \A w \in Workers : pc[w] = "exited"
  /\ owner' = "joined"
  /\ UNCHANGED <<queue, unposted, count, pc, cur, registered, holding, syncing, ledger>>

Done ==
  /\ owner = "joined"
  /\ UNCHANGED vars

-----------------------------------------------------------------------------
WorkerStep(w) == SemWait(w) \/ Take(w) \/ Begin(w) \/ TaskReturns(w)

Next ==
  \/ \E w \in Workers : WorkerStep(w) \/ SpuriousWake(w)
  \/ \E x \in Threads : PostTask(x) \/ SyncReturns(x) \/ Release(x)
  \/ \E x \in Threads, t \in Tasks, first \in BOOLEAN :
       Async(x, t, first) \/ Sync(x, t, first)
  \/ \E w \in Workers, t \in Tasks : CallInline(w, t)
  \/ \E t \in Cancelable : Cancel(t)
  \/ \E w \in Workers : CreateThread(w) \/ RegisterThread(w)
  \/ Started \/ Shutdown \/ Joined \/ Done

Spec == Init /\ [][Next]_vars

(* Threads that can run are scheduled; a task's body ends.  Nothing is     *)
(* assumed of the callers except that a call they began goes on.           *)
Fairness ==
  /\ \A w \in Workers : WF_vars(WorkerStep(w))
  /\ \A x \in Threads : WF_vars(PostTask(x)) /\ WF_vars(SyncReturns(x))
  /\ WF_vars(\E w \in Workers : CreateThread(w) \/ RegisterThread(w))
  /\ WF_vars(Started) /\ WF_vars(Joined)

FairSpec == Spec /\ Fairness

-----------------------------------------------------------------------------
(* Properties. *)

(* Every variable holds a value of the type the code gives it.             *)
TypeOK ==
  /\ queue \in Seq([id : Tasks, first : BOOLEAN])
  /\ unposted \subseteq Threads
  /\ count \in Nat
  /\ pc \in [Workers -> {"none", "idle", "blocked", "take", "taken", "exec", "exited"}]
  /\ cur \in [Workers -> Tasks \union {None}]
  /\ registered \subseteq Workers
  /\ owner \in {"start", "running", "shutdown", "joined"}
  /\ holding \subseteq Callers
  /\ syncing \in [Threads -> Tasks \union {None}]
  /\ posted \subseteq Tasks /\ turn \subseteq Tasks /\ ran \subseteq Tasks
  /\ cancelled \subseteq Tasks /\ ended \subseteq Tasks

(* The orders to exit that push_exit gave and no worker has followed. *)
ExitOrders ==
  IF owner \in {"shutdown", "joined"}
  THEN Cardinality(Workers) - Cardinality(At("exited"))
  ELSE 0

(* The tokens of the semaphore, those already consumed on the way to the   *)
(* queue and those about to be posted together equal the queued tasks and  *)
(* the open orders to exit (push_task 26-32, push_exit 44-46, get_task     *)
(* 49-58): a token meant for a task may be used for another one, or by a   *)
(* worker that exits, but none is lost or invented.                        *)
TokensMatch ==
  count + Cardinality(At("take")) + Cardinality(unposted) = Len(queue) + ExitOrders

(* No worker takes an empty queue for the order to exit before the         *)
(* destructor gave it (get_task returns false, run breaks).                *)
NoEarlyExit == At("exited") # {} => owner \in {"shutdown", "joined"}

(* ~ThreadPool returns with every task run or cancelled, those included    *)
(* that running tasks pushed behind the orders to exit.                    *)
NothingLost ==
  owner = "joined" => queue = <<>> /\ posted = ended

(* sync returns (TaskExecutor.h 161-166, TaskExecutor.cpp 92-118). *)
SyncEnds == \A x \in Threads : (syncing[x] # None) ~> (syncing[x] = None)

(* The destructor's join_all returns. *)
DestructorReturns == owner = "shutdown" ~> owner = "joined"

(* What async promises, refined by the queue; a task's turn is when a      *)
(* worker takes it.                                                        *)
Waiting == {t \in Tasks : \E i \in DOMAIN queue : queue[i] = [id |-> t, first |-> FALSE]}

Urgent == {t \in Tasks : \E i \in DOMAIN queue : queue[i] = [id |-> t, first |-> TRUE]}

Before ==
  {p \in Waiting \X Waiting :
     \E i, j \in DOMAIN queue : i < j /\ queue[i].id = p[1] /\ queue[j].id = p[2]}

Executor == INSTANCE AsyncExecutor WITH
  waiting <- Waiting, before <- Before, urgent <- Urgent, ran <- turn, closed <- FALSE

(* ThreadPool::async and async_first (47-66) keep the promises of          *)
(* AsyncExecutor even while the destructor waits: nothing is doubled or    *)
(* overtaken in the queue, and every task gets its turn.                   *)
ImplementsExecutor == Executor!Spec

-----------------------------------------------------------------------------
(* The inductive invariant behind TokensMatch, NoEarlyExit and NothingLost. *)

(* Nobody outside the pool uses it once its destructor runs.               *)
CallersGone == owner \in {"shutdown", "joined"} => holding = {}

(* A task handed over waits in the queue, is with a worker, or is done.    *)
Accounted ==
  \A t \in posted :
    \/ t \in ended
    \/ \E i \in DOMAIN queue : queue[i].id = t
    \/ \E w \in Workers : cur[w] = t /\ pc[w] \in {"taken", "exec"}

(* Only handed-over tasks are done with, and a worker takes such a task.   *)
Handed ==
  /\ ended \subseteq posted
  /\ \A i \in DOMAIN queue : queue[i].id \in posted
  /\ \A w \in Workers : pc[w] \in {"taken", "exec"} => cur[w] \in posted

(* A worker makes calls only while it runs a task, and finds the queue     *)
(* empty before it exits.                                                  *)
LastOut ==
  /\ \A x \in unposted : x \in holding \/ x \in At("exec")
  /\ At("exited") = Workers => queue = <<>>
  /\ owner = "joined" => At("exited") = Workers

IInv ==
  TypeOK /\ TokensMatch /\ NoEarlyExit /\ CallersGone /\ Accounted /\ Handed /\ LastOut
=============================================================================
