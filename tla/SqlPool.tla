------------------------------ MODULE SqlPool ------------------------------
(***************************************************************************)
(* toolkit::SqlPool: statements are executed by a thread of the work pool  *)
(* (asyncQuery) or by the caller (syncQuery), each with a connection from  *)
(* a ResourcePool.  A statement of asyncQuery that fails is kept in a list *)
(* that a timer hands to asyncQuery again.                                 *)
(***************************************************************************)
EXTENDS ResourcePool

CONSTANTS
  Worker,         (* the thread of _threadPool                             *)
  Statements,
  Formats,        (* those with a conversion of printf in their text       *)
  TryCnt,         (* asyncQuery_l's default, 3 in the code                 *)
  MaxFaults       (* bound: failures of the database                       *)

ASSUME SqlAssumption ==
  /\ Worker \in Threads /\ Formats \subseteq Statements
  /\ TryCnt \in Nat \ {0} /\ MaxFaults \in Nat

VARIABLES
  queue,          (* _threadPool's tasks: a statement and its tryCnt       *)
  running,        (* the task the worker has taken, if any                 *)
  error_query,    (* _error_query                                          *)
  query_copy,     (* flushError's copy                                     *)
  posted,         (* the statements given to asyncQuery                    *)
  done,           (* how often a query of each succeeded                   *)
  altered,        (* the statements whose text is not the given one any more *)
  broken,         (* the connections whose last query failed               *)
  faults

sqlVars == <<queue, running, error_query, query_copy, posted, done, altered>>
vars == <<poolVars, sqlVars, broken, faults>>

Init ==
  /\ PoolInit
  /\ queue = <<>> /\ running = <<>> /\ error_query = <<>> /\ query_copy = <<>>
  /\ posted = {} /\ done = [q \in Statements |-> 0] /\ altered = {}
  /\ broken = {} /\ faults = 0

Fault == faults < MaxFaults /\ faults' = faults + 1

(***************************************************************************)
(* asyncQuery, and the task it queues.                                     *)
(***************************************************************************)
(* Mutant: one try too many                                                *)
QueryOneMore(q) == [sql |-> q, tryCnt |-> TryCnt + 1]

Query(q) == [sql |-> q, tryCnt |-> TryCnt]

AsyncQuery(q) ==
  /\ q \notin posted /\ posted' = posted \union {q}
  /\ queue' = Append(queue, Query(q))
  /\ UNCHANGED <<poolVars, running, error_query, query_copy, done, altered, broken, faults>>

TakeTask ==
  /\ pc[Worker] = "idle" /\ queue # <<>>
  /\ running' = <<Head(queue)>> /\ queue' = Tail(queue)
  /\ Goto(Worker, "obtain")
  /\ UNCHANGED <<busy, objs, pool_size, live, held, quit, stuck>>
  /\ UNCHANGED <<error_query, query_copy, posted, done, altered, broken, faults>>

(* syncQuery by any other thread                                           *)
SyncQuery(t) ==
  /\ t # Worker /\ pc[t] = "idle" /\ Goto(t, "obtain")
  /\ UNCHANGED <<busy, objs, pool_size, live, held, quit, stuck>>
  /\ UNCHANGED <<sqlVars, broken, faults>>

(* mysql->query, and the pointer goes out of scope                         *)
Succeed(t) ==
  /\ pc[t] = "use" /\ Goto(t, "return")
  /\ broken' = broken \ {held[t]}
  /\ done' = IF t = Worker THEN [done EXCEPT ![running[1].sql] = @ + 1] ELSE done
  /\ UNCHANGED <<busy, objs, pool_size, live, held, quit, stuck>>
  /\ UNCHANGED <<queue, running, error_query, query_copy, posted, altered, faults>>

(* the query throws, and the handler gives the connection up: the database *)
(* fails, before or after it executed the statement, or refuses one whose  *)
(* text was altered                                                        *)
Refused(t) == t = Worker /\ running[1].sql \in altered /\ UNCHANGED faults

Fail(t) ==
  /\ pc[t] = "use" /\ (Fault \/ Refused(t)) /\ Goto(t, "return")
  /\ quit' = quit \union {t}
  /\ broken' = broken \union {held[t]}
  /\ UNCHANGED <<busy, objs, pool_size, live, held, stuck, sqlVars>>

(* there is no connection to be had                                        *)
ConnectFails(t) == Fault /\ AllocThrows(t) /\ UNCHANGED <<sqlVars, broken>>

UsePool(t) ==
  /\ PoolStep(t)
  /\ broken' = broken \intersect live'
  /\ UNCHANGED <<sqlVars, faults>>

(* Mutant: the last try is counted as one too many                         *)
FailedEarly(t) == running' = <<>> /\
  LET cnt == running[1].tryCnt - 1
  IN  error_query' = IF cnt > TryCnt - 1
                     THEN Append(error_query, [sql |-> running[1].sql, tryCnt |-> cnt])
                     ELSE error_query

(* the task's handler: one try less, and the statement is kept             *)
Failed(t) == running' = <<>> /\
  LET cnt == running[1].tryCnt - 1
  IN  error_query' = IF cnt > 0
                     THEN Append(error_query, [sql |-> running[1].sql, tryCnt |-> cnt])
                     ELSE error_query

(* the thread has given its connection back, or never had one; the caller  *)
(* of syncQuery gets the result or the exception                           *)
Leave(t) ==
  /\ pc[t] \in {"returned", "thrown"} /\ Goto(t, "idle")
  /\ IF t # Worker
     THEN UNCHANGED <<running, error_query>>
     ELSE IF pc[t] = "thrown" \/ done[running[1].sql] = 0
     THEN Failed(t)
     ELSE running' = <<>> /\ UNCHANGED error_query
  /\ UNCHANGED <<busy, objs, pool_size, live, held, quit, stuck>>
  /\ UNCHANGED <<queue, query_copy, posted, done, altered, broken, faults>>

(***************************************************************************)
(* flushError, every 30 seconds: the list is swapped out under the mutex   *)
(* and each statement given to asyncQuery.  The remaining count goes along *)
(* as an argument of the statement: the count starts anew, and the text is *)
(* taken as a format of printf, so that one with a conversion may change.  *)
(***************************************************************************)
FlushError ==
  /\ query_copy = <<>> /\ error_query # <<>>
  /\ query_copy' = error_query /\ error_query' = <<>>
  /\ UNCHANGED <<poolVars, queue, running, posted, done, altered, broken, faults>>

FlushOne ==
  /\ query_copy # <<>>
  /\ LET q == Head(query_copy).sql
     IN  /\ queue' = Append(queue, Query(q))
         /\ altered' \in IF q \in Formats THEN {altered, altered \union {q}} ELSE {altered}
  /\ query_copy' = Tail(query_copy)
  /\ UNCHANGED <<poolVars, running, error_query, posted, done, broken, faults>>

ThreadStep(t) == UsePool(t) \/ Succeed(t) \/ Leave(t)

Quiet ==
  /\ \A t \in Threads : pc[t] = "idle"
  /\ queue = <<>> /\ error_query = <<>> /\ query_copy = <<>>
  /\ UNCHANGED vars

Next ==
  \/ \E t \in Threads : ThreadStep(t) \/ SyncQuery(t) \/ Fail(t) \/ ConnectFails(t)
  \/ \E q \in Statements : AsyncQuery(q)
  \/ TakeTask \/ FlushError \/ FlushOne
  \/ SetSize /\ UNCHANGED <<sqlVars, broken, faults>>
  \/ Quiet

Spec == Init /\ [][Next]_vars

(* Threads go on, the timer fires.  A query that does not fail returns;    *)
(* the database fails MaxFaults times at most.                             *)
FairSpec ==
  /\ Spec /\ WF_vars(TakeTask) /\ WF_vars(FlushError) /\ WF_vars(FlushOne)
  /\ \A t \in Threads : WF_vars(ThreadStep(t))

(***************************************************************************)
(* Properties.                                                             *)
(***************************************************************************)
Queries == [sql : Statements, tryCnt : 1 .. TryCnt]

(* The type invariant.                                                     *)
TypeOK ==
  /\ busy \in BOOLEAN /\ stuck \in BOOLEAN
  /\ objs \in Seq(Objects) /\ pool_size \in Sizes
  /\ live \subseteq Objects /\ held \in [Threads -> Objects \union {None}]
  /\ quit \subseteq Threads
  /\ pc \in [Threads -> {"idle", "obtain", "alone", "get", "use", "thrown",
                         "return", "put", "returned"}]
  /\ {queue, running, error_query, query_copy} \subseteq Seq(Queries)
  /\ posted \subseteq Statements /\ altered \subseteq Formats /\ done \in [Statements -> Nat]
  /\ broken \subseteq live /\ faults \in 0 .. MaxFaults

(* Whoever finds the flag set and however queries fail: a connection is in *)
(* the list once or with one thread, and none is forgotten; no connection  *)
(* whose query failed is given out again; the list stays within the        *)
(* largest size set; and the flag is left set with nobody inside only      *)
(* after a connect that failed under it, from when on nothing is pooled    *)
(* any more (ResourcePool.h:110-143, SqlPool.h:86-93).                     *)
ConnectionsSound ==
  /\ \A t \in Threads : held[t] # None =>
       held[t] \in live /\ \A u \in Threads \ {t} : held[u] # held[t]
  /\ \A i \in DOMAIN objs :
       /\ objs[i] \in live \ broken
       /\ \A j \in DOMAIN objs \ {i} : objs[j] # objs[i]
       /\ \A t \in Threads : held[t] # objs[i]
  /\ live \subseteq {held[t] : t \in Threads} \union {objs[i] : i \in DOMAIN objs}
  /\ \E n \in Sizes : Len(objs) <= n
  /\ (busy /\ \A t \in Threads : ~InSection(t)) <=> stuck

Places(q) ==
  LET In(s) == Cardinality({i \in DOMAIN s : s[i].sql = q})
  IN  In(queue) + In(running) + In(error_query) + In(query_copy)

(* A statement of asyncQuery is in one place until a query of it succeeds, *)
(* which happens once at most, and it is never given up: the branch for    *)
(* the last of its tries (SqlPool.h:133-135) is not reached, because the   *)
(* count starts anew (121-153), unlike what 67 and 119 say.  Without a     *)
(* conversion of printf in its text it succeeds in the end; with one it    *)
(* may become another statement (see DoneAsGiven).                         *)
StatementsServed ==
  /\ \A q \in Statements :
       /\ [](q \in posted => Places(q) + done[q] >= 1)
       /\ [](done[q] <= 1 /\ Places(q) <= 1)
  /\ \A q \in Statements \ Formats : (q \in posted) ~> (done[q] = 1)

(* What the retry is for (SqlPool.h:144-153): the statement that failed is *)
(* executed, not another one.                                              *)
DoneAsGiven == \A q \in Statements : done[q] > 0 => q \notin altered
=============================================================================
