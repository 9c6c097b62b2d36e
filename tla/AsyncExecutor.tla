--------------------------- MODULE AsyncExecutor ---------------------------
(***************************************************************************)
(* What a TaskExecutor promises to the callers of async and async_first    *)
(* (Thread/TaskExecutor.h): a task handed over is started at most once,    *)
(* tasks handed over with async start in the order of the calls, a task    *)
(* cancelled before its turn never starts, and as long as the executor is  *)
(* not being destroyed every task handed over gets its turn.               *)
(*                                                                         *)
(* EventPoller and ThreadPool are the two implementations; their modules   *)
(* instantiate this one with a refinement mapping.  The line of waiting    *)
(* tasks is a set with an order, since one implementation keeps it in two  *)
(* lists and both keep other entries between.                              *)
(***************************************************************************)
CONSTANT Tasks      (* one element per call of async / async_first         *)

VARIABLES
  posted,           (* the calls made so far                               *)
  waiting,          (* tasks of async that wait for their turn             *)
  before,           (* their order: the pairs of an earlier and a later one *)
  urgent,           (* tasks of async_first that wait for their turn       *)
  ran,              (* the tasks that were started                         *)
  cancelled,        (* the tasks whose tag was cancelled                   *)
  closed            (* the destructor has taken over the executor          *)

vars == <<posted, waiting, before, urgent, ran, cancelled, closed>>

Init ==
  /\ posted = {}
  /\ waiting = {}
  /\ before = {}
  /\ urgent = {}
  /\ ran = {}
  /\ cancelled = {}
  /\ closed = FALSE

(* async: the task goes to the end of the line. *)
Async(t) ==
  /\ t \in Tasks \ posted
  /\ posted' = posted \union {t}
  /\ waiting' = waiting \union {t}
  /\ before' = before \union (waiting \X {t})
  /\ UNCHANGED <<urgent, ran, cancelled, closed>>

(* async_first: the task may pass every task that waits. *)
AsyncFirst(t) ==
  /\ t \in Tasks \ posted
  /\ posted' = posted \union {t}
  /\ urgent' = urgent \union {t}
  /\ UNCHANGED <<waiting, before, ran, cancelled, closed>>

(* async or async_first with may_sync on an executor thread: an ordinary   *)
(* call.                                                                   *)
CallInline(t) ==
  /\ t \in Tasks \ posted
  /\ posted' = posted \union {t}
  /\ ran' = ran \union {t}
  /\ UNCHANGED <<waiting, before, urgent, cancelled, closed>>

Cancel(t) ==
  /\ t \in posted
  /\ cancelled' = cancelled \union {t}
  /\ UNCHANGED <<posted, waiting, before, urgent, ran, closed>>

(* The turn of t: it starts unless it was cancelled. *)
Turn(t) == ran' = IF t \in cancelled THEN ran ELSE ran \union {t}

(* The first in the line. *)
TurnOfWaiting(t) ==
  /\ t \in waiting /\ \A s \in waiting : <<s, t>> \notin before
  /\ Turn(t)
  /\ waiting' = waiting \ {t}
  /\ before' = {p \in before : p[1] # t}
  /\ UNCHANGED <<posted, urgent, cancelled, closed>>

TurnOfUrgent(t) ==
  /\ t \in urgent
  /\ Turn(t)
  /\ urgent' = urgent \ {t}
  /\ UNCHANGED <<posted, waiting, before, cancelled, closed>>

Close ==
  /\ closed' = TRUE
  /\ UNCHANGED <<posted, waiting, before, urgent, ran, cancelled>>

Next ==
  \/ \E t \in Tasks : Async(t) \/ AsyncFirst(t) \/ CallInline(t) \/ Cancel(t)
  \/ \E t \in Tasks : TurnOfWaiting(t) \/ TurnOfUrgent(t)
  \/ Close

(* What may happen, without what must. *)
Safety == Init /\ [][Next]_vars

Fairness ==
  /\ WF_vars(~closed /\ \E t \in Tasks : TurnOfWaiting(t))
  /\ \A t \in Tasks : WF_vars(~closed /\ TurnOfUrgent(t))

Spec == Safety /\ Fairness
=============================================================================
