------------------------- MODULE EventPollerProofs -------------------------
(***************************************************************************)
(* Theorems about EventPoller, for every set of threads and tasks, every   *)
(* pipe capacity and every bound on the clock.                             *)
(***************************************************************************)
EXTENDS EventPoller, SequenceTheorems, FiniteSetTheorems, WellFoundedInduction, TLAPS

USE DEF shared, thread, timers, ledger

(***************************************************************************)
(* The pieces actions are built from.                                      *)
(***************************************************************************)

LEMMA EntryTypeRun ==
  ASSUME NEW x \in Threads, NEW t \in Tasks, NEW first \in BOOLEAN
  PROVE  [op |-> "run", id |-> t, line |-> 0, first |-> first, by |-> x] \in Entry
  BY DEF Entry

LEMMA EntryTypeDelay ==
  ASSUME NEW x \in Threads, NEW d \in DelayTasks, NEW line \in 0..MaxTime
  PROVE  [op |-> "addDelay", id |-> d, line |-> line, first |-> TRUE, by |-> x] \in Entry
  BY DEF Entry

LEMMA EntryTypeExit == ExitEntry \in Entry
  BY DEF Entry, ExitEntry

LEMMA EmplaceType ==
  ASSUME Types, NEW x \in Threads, NEW e \in Entry, Emplace(x, e)
  PROVE  /\ listTask' \in Seq(Entry)
         /\ unwritten' \subseteq Threads
         /\ pipe' \in 0..PipeCap /\ edge' \in BOOLEAN
  BY DEF Types, Emplace

LEMMA EarliestIn ==
  ASSUME NEW map \in SUBSET Delayed, NEW r \in map, \A s \in map : r.line <= s.line
  PROVE  /\ Earliest(map) \in map
         /\ \A s \in map : Earliest(map).line <= s.line
  BY DEF Earliest

LEMMA EarliestExists ==
  ASSUME NEW map \in SUBSET Delayed, map # {}
  PROVE  /\ Earliest(map) \in map
         /\ \A s \in map : Earliest(map).line <= s.line
<1> DEFINE Lines == {r.line : r \in map}
<1>1. Lines \in SUBSET Nat /\ Lines # {}
  BY ConstantsAssumption DEF Delayed
<1>2. \E m \in Lines : \A k \in Lines : <<k, m>> \notin OpToRel(<, Nat)
  BY <1>1, WFMin, NatLessThanWellFounded, Zenon
<1>m. PICK m \in Lines : \A k \in Lines : m <= k
  <2>1. PICK m \in Lines : \A k \in Lines : <<k, m>> \notin OpToRel(<, Nat)
    BY <1>2
  <2>2. \A k \in Lines : ~(k < m)
    <3>1. \A k \in Nat : k < m => <<k, m>> \in OpToRel(<, Nat)
      BY <1>1, Zenon DEF OpToRel
    <3> QED
      BY <1>1, <2>1, <3>1
  <2> QED
    <3> HIDE DEF Lines
    <3> QED
      BY <1>1, <2>2
<1>3. PICK r \in map : r.line = m
  OBVIOUS
<1>4. \A s \in map : r.line <= s.line
  BY <1>m, <1>3
<1> QED
  BY <1>4, EarliestIn

LEMMA NextCases ==
  ASSUME Next
  PROVE  \/ \E t \in Tasks, first \in BOOLEAN : BodyAsync(t, first)
         \/ \E t \in Tasks : BodyInline(t)
         \/ \E d \in DelayTasks, delay \in Nat : BodyDelay(d, delay)
         \/ BodyReturns
         \/ \E next_delay \in Nat : DelayTaskReturns(next_delay)
         \/ ExitLoop \/ Sleep \/ BeginFlush \/ EndFlush
         \/ \E r \in taskCopy : FlushOne(r)
         \/ WaitReturns \/ WaitTimesOut \/ Dispatch
         \/ ReadPipe \/ SwapList \/ RunNext \/ EndBatch
         \/ \E x \in Threads : WritePipe(x)
         \/ \E p \in Producers, t \in Tasks, first \in BOOLEAN : Async(p, t, first)
         \/ \E p \in Producers, d \in DelayTasks, delay \in Nat : DoDelayTask(p, d, delay)
         \/ \E t \in Cancelable : Cancel(t)
         \/ \E p \in Producers : Release(p)
         \/ Shutdown \/ Join
         \/ WaitInterrupted \/ Tick \/ IoArrives
         \/ UNCHANGED vars
  BY ConstantsAssumption DEF Next, PollerStep, Destroyed

LEMMA TypesInductive ==
  ASSUME Types, FlushOrder, [Next]_vars
  PROVE  Types'
<1> USE ConstantsAssumption
<1>p. PollerThread \in Threads
  BY DEF PollerThread, Threads
<1>1. ASSUME NEW t \in Tasks, NEW first \in BOOLEAN, BodyAsync(t, first)
      PROVE Types'
  <2>1. Emplace(PollerThread, TaskEntry(PollerThread, t, first))
    BY <1>1 DEF BodyAsync
  <2>2. TaskEntry(PollerThread, t, first) \in Entry
    BY <1>p, EntryTypeRun DEF TaskEntry
  <2> QED
    BY <1>1, <1>p, <2>2, EmplaceType DEF BodyAsync, Types
<1>2. ASSUME NEW t \in Tasks, BodyInline(t)
      PROVE Types'
  BY <1>2 DEF BodyInline, Types
<1>3. ASSUME NEW d \in DelayTasks, NEW delay \in Nat, BodyDelay(d, delay)
      PROVE Types'
  BY <1>3 DEF BodyDelay, Types, Delayed
<1>4. CASE BodyReturns
  BY <1>4 DEF BodyReturns, InBody, Types
<1>5. ASSUME NEW next_delay \in Nat, DelayTaskReturns(next_delay)
      PROVE Types'
  BY <1>5 DEF DelayTaskReturns, Types, Delayed
<1>6. CASE ExitLoop
  BY <1>6 DEF ExitLoop, Types
<1>7. CASE Sleep
  BY <1>7, EarliestExists DEF Sleep, Types, Never, Delayed
<1>8. CASE BeginFlush
  BY <1>8 DEF BeginFlush, Types
<1>9. CASE EndFlush
  <2>1. delayMap' \in SUBSET Delayed /\ taskCopy' \in SUBSET Delayed
    BY <1>9 DEF EndFlush, Types
  <2>2. wake' \in 0..Never
    <3>1. CASE delayMap' = {}
      BY <1>9, <3>1 DEF EndFlush, Never
    <3>2. CASE delayMap' # {}
      <4>1. Earliest(delayMap').line \in 0..MaxTime
        BY <2>1, <3>2, EarliestExists DEF Delayed
      <4>2. wake' = Deadline(Earliest(delayMap').line - nowTime)
        BY <1>9, <3>2 DEF EndFlush
      <4> HIDE DEF Earliest
      <4> QED
        <5> DEFINE l == Earliest(delayMap').line
        <5>1. l \in 0..MaxTime /\ clock \in 0..MaxTime /\ nowTime \in 0..MaxTime
          BY <4>1 DEF Types
        <5>2. l - nowTime >= 0
          BY <1>9, <2>1, <3>2, <5>1, EarliestExists, SMTT(30) DEF EndFlush, FlushOrder, InFlush, Delayed, Types
        <5> QED
          BY <4>2, <5>1, <5>2 DEF Deadline, Never
    <3> QED
      BY <3>1, <3>2
  <2> QED
    BY <1>9, <2>1, <2>2 DEF EndFlush, Types
<1>10. ASSUME NEW r \in taskCopy, FlushOne(r)
      PROVE Types'
  BY <1>10 DEF FlushOne, Types, Delayed
<1>11. CASE WaitReturns
  BY <1>11 DEF WaitReturns, Ready, Types
<1>12. CASE WaitTimesOut
  BY <1>12 DEF WaitTimesOut, Types
<1>13. CASE Dispatch
  BY <1>13 DEF Dispatch, Types
<1>14. CASE ReadPipe
  BY <1>14 DEF ReadPipe, Types
<1>15. CASE SwapList
  BY <1>15 DEF SwapList, Types
<1>16. CASE RunNext
  <2> DEFINE e == Head(batch)
  <2>1. e \in Entry /\ batch' \in Seq(Entry)
    BY <1>16 DEF RunNext, Types
  <2> HIDE DEF e
  <2>2. CASE e.op = "exit"
    BY <1>16, <2>1, <2>2 DEF RunNext, Types, e
  <2>3. CASE e.op = "addDelay"
    <3>1. e.line \in 0..MaxTime /\ e.id \in DelayTasks
      BY <2>1, <2>3 DEF Entry
    <3> QED
      BY <1>16, <2>1, <2>3, <3>1 DEF RunNext, Types, Delayed, e
  <2>4. CASE e.op = "run"
    <3>1. e.id \in Tasks /\ e.id # None
      BY <2>1, <2>4 DEF Entry
    <3> QED
      BY <1>16, <2>1, <2>4, <3>1 DEF RunNext, Types, e
  <2> QED
    BY <2>1, <2>2, <2>3, <2>4 DEF Entry
<1>17. CASE EndBatch
  BY <1>17 DEF EndBatch, Types
<1>18. ASSUME NEW x \in Threads, WritePipe(x)
      PROVE Types'
  <2>1. pipe' \in 0..PipeCap
    <3>1. pipe' = pipe \/ (pipe < PipeCap /\ pipe' = pipe + 1)
      BY <1>18, Zenon DEF WritePipe
    <3> QED
      BY <3>1 DEF Types
  <2>2. edge' \in BOOLEAN
    BY <1>18, Zenon DEF WritePipe, Types
  <2> QED
    BY <1>18, <2>1, <2>2 DEF WritePipe, Types
<1>19. ASSUME NEW p \in Producers, NEW t \in Tasks, NEW first \in BOOLEAN, Async(p, t, first)
      PROVE Types'
  <2>1. p \in Threads
    BY DEF Threads
  <2>2. TaskEntry(p, t, first) \in Entry
    BY <2>1, EntryTypeRun DEF TaskEntry
  <2> QED
    BY <1>19, <2>1, <2>2, EmplaceType DEF Async, Types
<1>20. ASSUME NEW p \in Producers, NEW d \in DelayTasks, NEW delay \in Nat,
            DoDelayTask(p, d, delay)
      PROVE Types'
  <2>1. p \in Threads
    BY DEF Threads
  <2>2. DelayEntry(p, d, delay) \in Entry
    BY <1>20, <2>1, EntryTypeDelay DEF DelayEntry, DoDelayTask, Types
  <2> QED
    BY <1>20, <2>1, <2>2, EmplaceType DEF DoDelayTask, Types
<1>21. ASSUME NEW t \in Cancelable, Cancel(t)
      PROVE Types'
  BY <1>21 DEF Cancel, Types
<1>22. ASSUME NEW p \in Producers, Release(p)
      PROVE Types'
  BY <1>22 DEF Release, Types
<1>23. CASE Shutdown
  <2>1. Owner \in Threads
    BY DEF Threads
  <2> QED
    BY <1>23, <2>1, EntryTypeExit, EmplaceType DEF Shutdown, Types
<1>24. CASE Join
  BY <1>24 DEF Join, Types
<1>25. CASE WaitInterrupted
  BY <1>25 DEF WaitInterrupted, Types
<1>26. CASE Tick
  BY <1>26 DEF Tick, Types
<1>27. CASE IoArrives
  BY <1>27 DEF IoArrives, Types
<1>28. CASE UNCHANGED vars
  BY <1>28 DEF vars, Types
<1> QED
  BY <1>1, <1>2, <1>3, <1>4, <1>5, <1>6, <1>7, <1>8, <1>9, <1>10, <1>11, <1>12, <1>13, <1>14, <1>15, <1>16, <1>17, <1>18, <1>19, <1>20, <1>21, <1>22, <1>23, <1>24, <1>25, <1>26, <1>27, <1>28, NextCases

(***************************************************************************)
(* The rest of the inductive invariant.                                    *)
(***************************************************************************)
Rest == FlushOrder /\ ByteUnderWay /\ ByteAnnounced /\ EventsDispatched

LEMMA InitIInv == Init => IInv
<1> SUFFICES ASSUME Init PROVE IInv
  OBVIOUS
<1>1. Types
  <2>1. MaxTime \in Nat /\ PipeCap \in Nat /\ 0 \in 0..MaxTime /\ 0 \in 0..PipeCap
    BY ConstantsAssumption
  <2>2. Never \in 0..Never
    BY <2>1 DEF Never
  <2>3. <<>> \in Seq(Entry)
    OBVIOUS
  <2> QED
    BY <2>1, <2>2, <2>3 DEF Init, Types
<1>2. Rest
  BY DEF Init, Rest, FlushOrder, ByteUnderWay, ByteAnnounced, EventsDispatched, InFlush
<1> QED
  BY <1>1, <1>2 DEF IInv, Rest

LEMMA RestInductive ==
  ASSUME IInv, [Next]_vars
  PROVE  Rest'
<1> USE ConstantsAssumption DEF IInv, Rest, FlushOrder, ByteUnderWay, ByteAnnounced,
                                EventsDispatched, InFlush
<1>t. /\ pipe \in Nat /\ PipeCap \in Nat \ {0} /\ clock \in Nat /\ nowTime \in Nat
      /\ delayMap \subseteq Delayed
      /\ cur \in Tasks \union DelayTasks \union {Io, None}
      /\ listTask \in Seq(Entry)
  BY DEF Types
<1>1. ASSUME NEW t \in Tasks, NEW first \in BOOLEAN, BodyAsync(t, first)
      PROVE Rest'
  BY <1>1, <1>t DEF BodyAsync, InBody, Emplace
<1>2. ASSUME NEW t \in Tasks, BodyInline(t)
      PROVE Rest'
  BY <1>2, <1>t DEF BodyInline, InBody
<1>3. ASSUME NEW d \in DelayTasks, NEW delay \in Nat, BodyDelay(d, delay)
      PROVE Rest'
  BY <1>3, <1>t DEF BodyDelay, InBody
<1>4. CASE BodyReturns
  BY <1>4, <1>t DEF BodyReturns, InBody
<1>5. ASSUME NEW next_delay \in Nat, DelayTaskReturns(next_delay)
      PROVE Rest'
  BY <1>5, <1>t DEF DelayTaskReturns, InBody
<1>6. CASE ExitLoop
  BY <1>6, <1>t DEF ExitLoop
<1>7. CASE Sleep
  BY <1>7, <1>t DEF Sleep
<1>8. CASE BeginFlush
  BY <1>8, <1>t DEF BeginFlush
<1>9. CASE EndFlush
  BY <1>9, <1>t DEF EndFlush
<1>10. ASSUME NEW r \in taskCopy, FlushOne(r)
      PROVE Rest'
  BY <1>10, <1>t DEF FlushOne
<1>11. CASE WaitReturns
  BY <1>11, <1>t DEF WaitReturns, Ready
<1>12. CASE WaitTimesOut
  BY <1>12, <1>t DEF WaitTimesOut
<1>13. CASE Dispatch
  BY <1>13, <1>t DEF Dispatch
<1>14. CASE ReadPipe
  BY <1>14, <1>t DEF ReadPipe
<1>15. CASE SwapList
  BY <1>15, <1>t DEF SwapList
<1>16. CASE RunNext
  <2>1. \A e \in Entry : e.op = "run" => e.id \notin DelayTasks
    BY DEF Entry
  <2>2. Head(batch) \in Entry
    BY <1>16 DEF RunNext, Types
  <2>3. pc' = "run" \/ (pc' = "exec" /\ cur' \notin DelayTasks)
    BY <1>16, <2>1, <2>2 DEF RunNext
  <2> QED
    BY <1>16, <1>t, <2>3 DEF RunNext
<1>17. CASE EndBatch
  BY <1>17, <1>t DEF EndBatch
<1>18. ASSUME NEW x \in Threads, WritePipe(x)
      PROVE Rest'
  <2>1. /\ pipe' > 0
        /\ pipe = 0 => edge'
        /\ edge => edge'
    <3>1. CASE pipe < PipeCap
      <4>1. pipe' = pipe + 1
        BY <1>18, <3>1 DEF WritePipe
      <4>2. edge' \in IF pipe = 0 THEN {TRUE} ELSE {edge, TRUE}
        BY <1>18, <3>1 DEF WritePipe
      <4>3. pipe = 0 => edge'
        BY <4>2, Zenon
      <4>4. edge => edge'
        BY <4>2, Zenon
      <4> QED
        BY <1>t, <4>1, <4>3, <4>4
    <3>2. CASE ~(pipe < PipeCap)
      BY <1>18, <1>t, <3>2 DEF WritePipe
    <3> QED
      BY <3>1, <3>2
  <2> QED
    BY <1>18, <1>t, <2>1 DEF WritePipe
<1>19. ASSUME NEW p \in Producers, NEW t \in Tasks, NEW first \in BOOLEAN, Async(p, t, first)
      PROVE Rest'
  BY <1>19, <1>t DEF Async, Emplace
<1>20. ASSUME NEW p \in Producers, NEW d \in DelayTasks, NEW delay \in Nat,
            DoDelayTask(p, d, delay)
      PROVE Rest'
  BY <1>20, <1>t DEF DoDelayTask, Emplace
<1>21. ASSUME NEW t \in Cancelable, Cancel(t)
      PROVE Rest'
  BY <1>21, <1>t DEF Cancel
<1>22. ASSUME NEW p \in Producers, Release(p)
      PROVE Rest'
  BY <1>22, <1>t DEF Release
<1>23. CASE Shutdown
  BY <1>23, <1>t DEF Shutdown, Emplace
<1>24. CASE Join
  BY <1>24, <1>t DEF Join
<1>25. CASE WaitInterrupted
  BY <1>25, <1>t DEF WaitInterrupted
<1>26. CASE Tick
  BY <1>26, <1>t DEF Tick
<1>27. CASE IoArrives
  BY <1>27, <1>t DEF IoArrives
<1>28. CASE UNCHANGED vars
  BY <1>28, <1>t DEF vars
<1> QED
  BY <1>1, <1>2, <1>3, <1>4, <1>5, <1>6, <1>7, <1>8, <1>9, <1>10, <1>11, <1>12, <1>13, <1>14, <1>15, <1>16, <1>17, <1>18, <1>19, <1>20, <1>21, <1>22, <1>23, <1>24, <1>25, <1>26, <1>27, <1>28, NextCases

LEMMA IInvInductive == IInv /\ [Next]_vars => IInv'
<1> SUFFICES ASSUME IInv, [Next]_vars PROVE IInv'
  OBVIOUS
<1>1. Types'
  BY TypesInductive DEF IInv
<1>2. Rest'
  BY RestInductive
<1> QED
  BY <1>1, <1>2 DEF IInv, Rest

LEMMA IInvHolds == Spec => []IInv
<1>1. Init => IInv
  BY InitIInv
<1>2. IInv /\ [Next]_vars => IInv'
  BY IInvInductive
<1> QED
  BY <1>1, <1>2, PTL DEF Spec

(* Every variable keeps the type the code gives it, and the difference of  *)
(* two uint64_t that flushDelayTask returns (line 408) does not wrap: when *)
(* it is taken, every deadline is at or after now_time, those a running    *)
(* delayed task added to _delay_task_map behind task_copy included.        *)
THEOREM TypeCorrect == Spec => []TypeOK
<1>1. IInv => TypeOK
  <2> SUFFICES ASSUME IInv PROVE NoWrap
    BY DEF IInv, TypeOK
  <2>1. SUFFICES ASSUME pc = "flush", \A r \in taskCopy : r.line > nowTime,
                        NEW r \in delayMap \union taskCopy
                 PROVE  nowTime <= r.line
    BY DEF NoWrap
  <2>2. CASE r \in delayMap
    BY <2>1, <2>2 DEF IInv, FlushOrder, InFlush
  <2>3. CASE r \in taskCopy
    <3>1. nowTime \in Nat /\ r.line \in Nat
      BY <2>3, ConstantsAssumption DEF IInv, Types, Delayed
    <3> QED
      BY <2>1, <2>3, <3>1
  <2> QED
    BY <2>2, <2>3
<1> QED
  BY <1>1, IInvHolds, PTL

(* The wake-up protocol of async_l and onPipeEvent loses nothing, for any  *)
(* number of callers and any capacity of the pipe: while the loop sleeps   *)
(* with a task queued, a byte is about to be written or reported.          *)
THEOREM WakeupsAreNotLost == Spec => []NoLostWakeup
<1>1. IInv => NoLostWakeup
  <2> SUFFICES ASSUME IInv, pc = "wait", listTask # <<>>, unwritten = {}
               PROVE  "pipe" \in Ready
    BY DEF NoLostWakeup
  <2>1. pipe > 0
    BY DEF IInv, ByteUnderWay
  <2>2. edge
    BY <2>1 DEF IInv, ByteAnnounced, EventsDispatched
  <2> QED
    BY <2>1, <2>2 DEF Ready
<1> QED
  BY <1>1, IInvHolds, PTL

(***************************************************************************)
(* Timers.  A delay of 0 asked for by a running delayed task makes         *)
(* flushDelayTask return 0, which runLoop takes for "no timer"; without    *)
(* such a call the loop never sleeps without a timeout on a pending timer. *)
(***************************************************************************)
Armed == FlushStrict /\ TimerArmed

LEMMA ArmedInductive ==
  ASSUME 0 \notin NestedDelays, IInv, Armed, [Next]_vars
  PROVE  Armed'
<1> USE ConstantsAssumption DEF Armed, FlushStrict, TimerArmed, InFlush
<1>t. /\ clock \in 0..MaxTime /\ nowTime \in 0..MaxTime /\ nowTime <= clock
      /\ delayMap \in SUBSET Delayed /\ taskCopy \in SUBSET Delayed
      /\ cur \in Tasks \union DelayTasks \union {Io, None}
      /\ Never \in Nat /\ \A n \in 0..MaxTime : n # Never
      /\ \A r \in Delayed : r.line \in 0..MaxTime
  BY DEF IInv, Types, FlushOrder, Delayed, Never
<1>1. ASSUME NEW t \in Tasks, NEW first \in BOOLEAN, BodyAsync(t, first)
      PROVE Armed'
  BY <1>1, <1>t DEF BodyAsync, InBody
<1>2. ASSUME NEW t \in Tasks, BodyInline(t)
      PROVE Armed'
  BY <1>2, <1>t DEF BodyInline, InBody
<1>3. ASSUME NEW d \in DelayTasks, NEW delay \in Nat, BodyDelay(d, delay)
      PROVE Armed'
  <2>1. cur \in DelayTasks => delay > 0
    BY <1>3 DEF BodyDelay
  <2>2. pc' = "exec" /\ cur' = cur /\ nowTime' = nowTime
    BY <1>3 DEF BodyDelay, InBody
  <2>3. delayMap' = delayMap \union {[line |-> clock + delay, id |-> d]}
    BY <1>3 DEF BodyDelay
  <2> QED
    BY <1>3, <1>t, <2>1, <2>2, <2>3 DEF BodyDelay, InBody
<1>4. CASE BodyReturns
  BY <1>4, <1>t DEF BodyReturns, InBody
<1>5. ASSUME NEW next_delay \in Nat, DelayTaskReturns(next_delay)
      PROVE Armed'
  BY <1>5, <1>t DEF DelayTaskReturns, InBody
<1>6. CASE ExitLoop
  BY <1>6, <1>t DEF ExitLoop
<1>7. CASE Sleep
  <2>1. delayMap # {} => wake' # Never
    BY <1>7, <1>t, EarliestExists DEF Sleep
  <2> QED
    BY <1>7, <2>1 DEF Sleep
<1>8. CASE BeginFlush
  BY <1>8, <1>t DEF BeginFlush
<1>9. CASE EndFlush
  <2>1. delayMap' \in SUBSET Delayed /\ \A r \in delayMap' : nowTime < r.line
    BY <1>9, <1>t DEF EndFlush
  <2>2. ASSUME delayMap' # {} PROVE wake' # Never
    <3> DEFINE minDelay == Earliest(delayMap').line - nowTime
    <3>1. minDelay \in 1..MaxTime
      BY <1>t, <2>1, <2>2, EarliestExists
    <3>2. wake' = Deadline(minDelay)
      BY <1>9, <2>2 DEF EndFlush
    <3> HIDE DEF minDelay
    <3> QED
      BY <1>t, <3>1, <3>2 DEF Deadline, Never
  <2> QED
    BY <1>9, <2>2 DEF EndFlush
<1>10. ASSUME NEW r \in taskCopy, FlushOne(r)
      PROVE Armed'
  BY <1>10, <1>t DEF FlushOne
<1>11. CASE WaitReturns
  BY <1>11, <1>t DEF WaitReturns
<1>12. CASE WaitTimesOut
  BY <1>12, <1>t DEF WaitTimesOut
<1>13. CASE Dispatch
  <2>1. pc' \in {"check", "drain"} \/ (pc' = "exec" /\ cur' = Io)
    BY <1>13 DEF Dispatch
  <2> QED
    BY <2>1
<1>14. CASE ReadPipe
  BY <1>14, <1>t DEF ReadPipe
<1>15. CASE SwapList
  BY <1>15, <1>t DEF SwapList
<1>16. CASE RunNext
  <2>1. \A e \in Entry : e.op = "run" => e.id \notin DelayTasks
    BY DEF Entry
  <2>2. Head(batch) \in Entry
    BY <1>16 DEF RunNext, IInv, Types
  <2>3. pc' = "run" \/ (pc' = "exec" /\ cur' \notin DelayTasks)
    BY <1>16, <2>1, <2>2 DEF RunNext
  <2> QED
    BY <2>3
<1>17. CASE EndBatch
  BY <1>17, <1>t DEF EndBatch
<1>18. ASSUME NEW x \in Threads, WritePipe(x)
      PROVE Armed'
  BY <1>18, <1>t DEF WritePipe
<1>19. ASSUME NEW p \in Producers, NEW t \in Tasks, NEW first \in BOOLEAN, Async(p, t, first)
      PROVE Armed'
  BY <1>19, <1>t DEF Async
<1>20. ASSUME NEW p \in Producers, NEW d \in DelayTasks, NEW delay \in Nat,
            DoDelayTask(p, d, delay)
      PROVE Armed'
  BY <1>20, <1>t DEF DoDelayTask
<1>21. ASSUME NEW t \in Cancelable, Cancel(t)
      PROVE Armed'
  BY <1>21, <1>t DEF Cancel
<1>22. ASSUME NEW p \in Producers, Release(p)
      PROVE Armed'
  BY <1>22, <1>t DEF Release
<1>23. CASE Shutdown
  BY <1>23, <1>t DEF Shutdown
<1>24. CASE Join
  BY <1>24, <1>t DEF Join
<1>25. CASE WaitInterrupted
  BY <1>25, <1>t DEF WaitInterrupted
<1>26. CASE Tick
  BY <1>26, <1>t DEF Tick
<1>27. CASE IoArrives
  BY <1>27, <1>t DEF IoArrives
<1>28. CASE UNCHANGED vars
  BY <1>28, <1>t DEF vars
<1> QED
  BY <1>1, <1>2, <1>3, <1>4, <1>5, <1>6, <1>7, <1>8, <1>9, <1>10, <1>11, <1>12, <1>13, <1>14, <1>15, <1>16, <1>17, <1>18, <1>19, <1>20, <1>21, <1>22, <1>23, <1>24, <1>25, <1>26, <1>27, <1>28, NextCases

(* Unless a running delayed task asks for a delay of 0 ms, epoll_wait is   *)
(* never entered without a timeout while a delayed task is pending         *)
(* (getMinDelay, flushDelayTask, runLoop 285-288).                         *)
THEOREM TimersStayArmed == 0 \notin NestedDelays => (Spec => []TimerArmed)
<1> SUFFICES ASSUME 0 \notin NestedDelays PROVE Spec => []TimerArmed
  OBVIOUS
<1>1. Init => Armed
  BY DEF Init, Armed, FlushStrict, TimerArmed, InFlush
<1>2. IInv /\ Armed /\ [Next]_vars => Armed'
  BY ArmedInductive
<1>3. Armed => TimerArmed
  BY DEF Armed
<1> QED
  BY <1>1, <1>2, <1>3, IInvHolds, PTL DEF Spec

(***************************************************************************)
(* Counting entries and timers.                                            *)
(***************************************************************************)
LEMMA Counted ==
  ASSUME NEW s \in Seq(Entry), NEW x
  PROVE  /\ IsFiniteSet({i \in DOMAIN s : s[i].id = x}) /\ Occurrences(s, x) \in Nat
         /\ Occurrences(s, x) # 0 <=> \E i \in DOMAIN s : s[i].id = x
<1> DEFINE I == {i \in DOMAIN s : s[i].id = x}
<1>1. Len(s) \in Nat /\ DOMAIN s = 1 .. Len(s)
  BY LenProperties
<1>2. IsFiniteSet(DOMAIN s) /\ I \in SUBSET DOMAIN s
  BY <1>1, FS_Interval
<1>3. IsFiniteSet(I)
  BY <1>2, FS_Subset
<1>4. Cardinality(I) \in Nat /\ (Cardinality(I) = 0 <=> I = {})
  BY <1>3, FS_CardinalityType, FS_EmptySet
<1>5. I # {} <=> \E i \in DOMAIN s : s[i].id = x
  OBVIOUS
<1> QED
  BY <1>3, <1>4, <1>5 DEF Occurrences

LEMMA CountedEmpty == \A x : Occurrences(<<>>, x) = 0
<1> SUFFICES ASSUME NEW x PROVE Occurrences(<<>>, x) = 0
  OBVIOUS
<1>1. {i \in DOMAIN <<>> : <<>>[i].id = x} = {}
  OBVIOUS
<1> QED
  BY <1>1, FS_EmptySet DEF Occurrences

(* An entry at the end counts once. *)
LEMMA CountedAppend ==
  ASSUME NEW s \in Seq(Entry), NEW e \in Entry, NEW x
  PROVE  Occurrences(Append(s, e), x) = Occurrences(s, x) + (IF e.id = x THEN 1 ELSE 0)
<1> DEFINE A == {i \in DOMAIN s : s[i].id = x}
           B == {i \in DOMAIN Append(s, e) : Append(s, e)[i].id = x}
           n == Len(s) + 1
<1>1. /\ Len(s) \in Nat /\ DOMAIN s = 1 .. Len(s) /\ DOMAIN Append(s, e) = 1 .. n
      /\ \A i \in 1 .. Len(s) : Append(s, e)[i] = s[i]
      /\ Append(s, e)[n] = e
  BY LenProperties, AppendProperties
<1>2. 1 .. n = (1 .. Len(s)) \union {n} /\ n \notin 1 .. Len(s)
  BY <1>1
<1>3. IsFiniteSet(A) /\ n \notin A
  BY <1>1, <1>2, Counted
<1>4. CASE e.id = x
  <2>1. B = A \union {n}
    BY <1>1, <1>2, <1>4
  <2>2. Cardinality(A \union {n}) = Cardinality(A) + 1
    BY <1>3, FS_AddElement
  <2> QED
    BY <1>4, <2>1, <2>2 DEF Occurrences
<1>5. CASE e.id # x
  <2>1. B = A
    BY <1>1, <1>2, <1>5
  <2>2. Cardinality(A) \in Nat
    BY <1>3, FS_CardinalityType
  <2>3. Occurrences(s, x) = Cardinality(A) /\ Occurrences(Append(s, e), x) = Cardinality(B)
    BY DEF Occurrences
  <2> HIDE DEF A, B
  <2> QED
    BY <1>5, <2>1, <2>2, <2>3
<1> QED
  BY <1>4, <1>5

(* An entry in front counts once. *)
LEMMA CountedPrepend ==
  ASSUME NEW s \in Seq(Entry), NEW e \in Entry, NEW x
  PROVE  Occurrences(<<e>> \o s, x) = Occurrences(s, x) + (IF e.id = x THEN 1 ELSE 0)
<1> DEFINE t == <<e>> \o s
           A == {i \in DOMAIN s : s[i].id = x}
           B == {i \in DOMAIN t : t[i].id = x}
           C == {i + 1 : i \in A}
           f == [i \in A |-> i + 1]
<1>1. /\ Len(s) \in Nat /\ DOMAIN s = 1 .. Len(s) /\ DOMAIN t = 1 .. Len(s) + 1
      /\ t[1] = e /\ \A i \in 1 .. Len(s) : t[i + 1] = s[i]
  BY LenProperties
<1>2. IsFiniteSet(A) /\ A \in SUBSET (1 .. Len(s))
  BY <1>1, Counted
<1> HIDE DEF t
<1>3. IsFiniteSet(C) /\ Cardinality(C) = Cardinality(A) /\ 1 \notin C
  <2>1. f \in Bijection(A, C)
    <3>1. f \in [A -> C]
      OBVIOUS
    <3>2. \A i, j \in A : f[i] = f[j] => i = j
      BY <1>1
    <3>3. \A j \in C : \E i \in A : f[i] = j
      OBVIOUS
    <3> QED
      BY <3>1, <3>2, <3>3 DEF Bijection, Injection, Surjection, IsInjective
  <2>2. ExistsBijection(A, C)
    BY <2>1 DEF ExistsBijection
  <2>3. \A i \in 1 .. Len(s) : i + 1 # 1
    BY <1>1
  <2> QED
    BY <1>2, <2>2, <2>3, FS_Bijection
<1>4. \A i : i \in 1 .. Len(s) + 1 <=> i = 1 \/ \E j \in 1 .. Len(s) : i = j + 1
  <2>1. ASSUME NEW i \in 1 .. Len(s) + 1, i # 1 PROVE \E j \in 1 .. Len(s) : i = j + 1
    <3>1. i - 1 \in 1 .. Len(s) /\ i = (i - 1) + 1
      BY <1>1, <2>1
    <3> QED
      BY <3>1
  <2> QED
    BY <1>1, <2>1
<1>5. B = C \union (IF e.id = x THEN {1} ELSE {})
  <2>1. \A i \in 1 .. Len(s) : i + 1 \in B <=> i \in A
    BY <1>1, <1>4
  <2>2. 1 \in B <=> e.id = x
    BY <1>1, <1>4
  <2>3. B \in SUBSET (1 .. Len(s) + 1)
    BY <1>1
  <2>4. \A i : i \in B => i = 1 \/ i \in C
    BY <1>4, <2>1, <2>3
  <2>5. \A i \in C : i \in B
    BY <1>2, <2>1
  <2> QED
    BY <2>2, <2>4, <2>5
<1>6. Occurrences(s, x) = Cardinality(A) /\ Occurrences(t, x) = Cardinality(B)
  BY DEF Occurrences
<1>7. Cardinality(A) \in Nat
  BY <1>2, FS_CardinalityType, FS_Subset, FS_Interval
<1> HIDE DEF A, B, C
<1>8. CASE e.id = x
  <2>1. Cardinality(C \union {1}) = Cardinality(C) + 1
    BY <1>3, FS_AddElement
  <2> QED
    BY <1>3, <1>5, <1>6, <1>8, <2>1 DEF t
<1>9. CASE e.id # x
  BY <1>3, <1>5, <1>6, <1>7, <1>9 DEF t
<1> QED
  BY <1>8, <1>9

LEMMA CountedTail ==
  ASSUME NEW s \in Seq(Entry), s # <<>>, NEW x
  PROVE  /\ Head(s) \in Entry /\ Tail(s) \in Seq(Entry)
         /\ Occurrences(s, x) = Occurrences(Tail(s), x) + (IF Head(s).id = x THEN 1 ELSE 0)
<1>1. Head(s) \in Entry /\ Tail(s) \in Seq(Entry) /\ <<Head(s)>> \o Tail(s) = s
  OBVIOUS
<1>2. Occurrences(<<Head(s)>> \o Tail(s), x)
        = Occurrences(Tail(s), x) + (IF Head(s).id = x THEN 1 ELSE 0)
  BY <1>1, CountedPrepend
<1> QED
  BY <1>1, <1>2

LEMMA ScheduledFinite ==
  ASSUME NEW map \in SUBSET Delayed, NEW x
  PROVE  /\ IsFiniteSet({r \in map : r.id = x}) /\ Scheduled(map, x) \in Nat
         /\ Scheduled(map, x) = 0 <=> \A r \in map : r.id # x
<1> DEFINE A == {r \in map : r.id = x}
           L == {[line |-> l, id |-> x] : l \in 0 .. MaxTime}
           g == [l \in 0 .. MaxTime |-> [line |-> l, id |-> x]]
<1>1. IsFiniteSet(0 .. MaxTime)
  BY ConstantsAssumption, FS_Interval
<1>2. IsFiniteSet(L)
  <2>1. g \in Surjection(0 .. MaxTime, L)
    BY DEF Surjection
  <2> QED
    BY <1>1, <2>1, FS_Surjection
<1>3. A \in SUBSET L
  <2>1. ASSUME NEW r \in map, r.id = x PROVE r \in L
    <3>1. r = [line |-> r.line, id |-> x] /\ r.line \in 0 .. MaxTime
      BY <2>1 DEF Delayed
    <3> QED
      BY <3>1
  <2> QED
    BY <2>1
<1>4. IsFiniteSet(A)
  BY <1>2, <1>3, FS_Subset
<1> HIDE DEF L
<1>5. Cardinality(A) \in Nat /\ (Cardinality(A) = 0 <=> A = {})
  BY <1>4, FS_CardinalityType, FS_EmptySet
<1>6. A = {} <=> \A r \in map : r.id # x
  OBVIOUS
<1> QED
  BY <1>4, <1>5, <1>6 DEF Scheduled

LEMMA ScheduledAdd ==
  ASSUME NEW map \in SUBSET Delayed, NEW r \in Delayed, Scheduled(map, r.id) = 0, NEW x
  PROVE  Scheduled(map \union {r}, x) = Scheduled(map, x) + (IF r.id = x THEN 1 ELSE 0)
<1> DEFINE A == {s \in map : s.id = x}
<1>1. IsFiniteSet(A) /\ Cardinality(A) \in Nat
  BY ScheduledFinite, FS_CardinalityType
<1>2. CASE r.id = x
  <2>1. {s \in map \union {r} : s.id = x} = {r}
    BY <1>2, ScheduledFinite
  <2>2. Cardinality({r}) = 1
    BY FS_Singleton
  <2>3. Scheduled(map, x) = 0 /\ Scheduled(map \union {r}, x) = 1
    BY <1>2, <2>1, <2>2 DEF Scheduled
  <2> QED
    BY <1>2, <2>3
<1>3. CASE r.id # x
  <2>1. {s \in map \union {r} : s.id = x} = A
    BY <1>3
  <2> QED
    BY <1>1, <1>3, <2>1 DEF Scheduled
<1> QED
  BY <1>2, <1>3

LEMMA ScheduledRemove ==
  ASSUME NEW map \in SUBSET Delayed, NEW r \in map, NEW x
  PROVE  Scheduled(map, x) = Scheduled(map \ {r}, x) + (IF r.id = x THEN 1 ELSE 0)
<1> DEFINE A == {s \in map : s.id = x}
<1>1. IsFiniteSet(A) /\ Cardinality(A) \in Nat
  BY ScheduledFinite, FS_CardinalityType
<1>2. CASE r.id = x
  <2>1. {s \in map \ {r} : s.id = x} = A \ {r} /\ r \in A
    BY <1>2
  <2>2. Cardinality(A \ {r}) = Cardinality(A) - 1
    BY <1>1, <2>1, FS_RemoveElement
  <2>3. Scheduled(map, x) = Cardinality(A) /\ Scheduled(map \ {r}, x) = Cardinality(A \ {r})
    BY <2>1 DEF Scheduled
  <2> HIDE DEF A
  <2> QED
    BY <1>1, <1>2, <2>2, <2>3
<1>3. CASE r.id # x
  <2>1. {s \in map \ {r} : s.id = x} = A
    BY <1>3
  <2> QED
    BY <1>1, <1>3, <2>1 DEF Scheduled
<1> QED
  BY <1>2, <1>3

LEMMA ScheduledMerge ==
  ASSUME NEW map \in SUBSET Delayed, NEW copy \in SUBSET Delayed, NEW x,
         Scheduled(map, x) = 0 \/ Scheduled(copy, x) = 0
  PROVE  Scheduled(map \union copy, x) = Scheduled(map, x) + Scheduled(copy, x)
<1>1. Scheduled(map, x) \in Nat /\ Scheduled(copy, x) \in Nat
  BY ScheduledFinite
<1>2. CASE Scheduled(map, x) = 0
  <2>1. {r \in map \union copy : r.id = x} = {r \in copy : r.id = x}
    BY <1>2, ScheduledFinite
  <2> QED
    BY <1>1, <1>2, <2>1 DEF Scheduled
<1>3. CASE Scheduled(copy, x) = 0
  <2>1. {r \in map \union copy : r.id = x} = {r \in map : r.id = x}
    BY <1>3, ScheduledFinite
  <2> QED
    BY <1>1, <1>3, <2>1 DEF Scheduled
<1> QED
  BY <1>2, <1>3

(***************************************************************************)
(* Where each task is.                                                     *)
(***************************************************************************)
All == Tasks \union DelayTasks

Count(x) ==
  Occurrences(listTask, x) + Occurrences(batch, x) + Scheduled(delayMap, x)
    + Scheduled(taskCopy, x) + (IF cur = x THEN 1 ELSE 0)

(* InOnePlace, and what was not handed over is nowhere. *)
PlacedOnce ==
  /\ ended \subseteq posted
  /\ \A x \in All : Count(x) = IF x \in posted \ ended THEN 1 ELSE 0

(* _list_swap and task_copy are empty when they are filled. *)
PlacesUsed ==
  /\ cur # None => pc = "exec"
  /\ batch # <<>> => pc = "run" \/ (pc = "exec" /\ cur \in Tasks)
  /\ taskCopy # {} => InFlush

(* The destructor's last batch: nobody else has the poller, and what is    *)
(* queued after its swap was queued by the batch.                          *)
LastRun ==
  /\ owner # "alive" => holding = {}
  /\ owner = "final" => /\ pc \in {"drain", "swap", "run", "exec", "destroyed"}
                        /\ cur \in Tasks \union {None}
                        /\ pc \notin {"drain", "swap"} =>
                             \A i \in DOMAIN listTask : listTask[i].by = Owner
  /\ pc = "destroyed" => owner = "final" /\ batch = <<>>

LEMMA CountsNat ==
  ASSUME Types, NEW x
  PROVE  /\ Occurrences(listTask, x) \in Nat /\ Occurrences(batch, x) \in Nat
         /\ Scheduled(delayMap, x) \in Nat /\ Scheduled(taskCopy, x) \in Nat
<1>1. /\ listTask \in Seq(Entry) /\ batch \in Seq(Entry)
      /\ delayMap \in SUBSET Delayed /\ taskCopy \in SUBSET Delayed
  BY DEF Types
<1> QED
  BY <1>1, Counted, ScheduledFinite

LEMMA EntryKinds ==
  ASSUME NEW e \in Entry
  PROVE  /\ e.op \in {"run", "addDelay", "exit"} /\ e.first \in BOOLEAN /\ None \notin All
         /\ e.op = "run" => e.id \in Tasks
         /\ e.op = "addDelay" => e.id \in DelayTasks /\ [line |-> e.line, id |-> e.id] \in Delayed
         /\ e.op = "exit" => e.id = None
  BY ConstantsAssumption DEF Entry, All, Delayed

(* The new task is put into _list_task.                                    *)
LEMMA PlacedByEmplace ==
  ASSUME Types, PlacedOnce, NEW y, NEW e \in Entry, Emplace(y, e),
         UNCHANGED <<batch, delayMap, taskCopy, cur, ended>>,
         \/ e.id \in All \ posted /\ posted' = posted \union {e.id}
         \/ e.id = None /\ posted' = posted
  PROVE  PlacedOnce'
<1>1. ASSUME NEW x
      PROVE  Occurrences(listTask', x) = Occurrences(listTask, x) + (IF e.id = x THEN 1 ELSE 0)
  <2>1. listTask \in Seq(Entry)
    BY DEF Types
  <2>2. CASE e.first
    <3>1. listTask' = <<e>> \o listTask
      BY <2>2 DEF Emplace
    <3> QED
      BY <2>1, <3>1, CountedPrepend
  <2>3. CASE ~e.first
    <3>1. listTask' = Append(listTask, e)
      BY <2>3 DEF Emplace
    <3> QED
      BY <2>1, <3>1, CountedAppend
  <2> QED
    BY <2>2, <2>3
<1>2. ASSUME NEW x \in All PROVE Count(x)' = IF x \in posted' \ ended' THEN 1 ELSE 0
  <2>1. Count(x) = IF x \in posted \ ended THEN 1 ELSE 0
    BY DEF PlacedOnce
  <2>2. Count(x)' = Count(x) + (IF e.id = x THEN 1 ELSE 0)
    BY <1>1, CountsNat DEF Count
  <2>3. ended \subseteq posted /\ ended' = ended /\ None \notin All
    BY EntryKinds DEF PlacedOnce
  <2>4. CASE e.id = x
    <3>1. x \notin posted /\ x \in posted' /\ x \notin ended'
      BY <2>3, <2>4
    <3> QED
      BY <2>1, <2>2, <2>3, <2>4, <3>1
  <2>5. CASE e.id # x
    <3>1. x \in posted' <=> x \in posted
      BY <2>5
    <3>2. Count(x)' = Count(x) /\ Count(x) \in {0, 1}
      BY <2>1, <2>2, <2>5
    <3> QED
      BY <2>1, <2>3, <3>1, <3>2
  <2> QED
    BY <2>4, <2>5
<1> QED
  BY <1>2 DEF PlacedOnce

(* A delayed task is put into _delay_task_map.                             *)
LEMMA PlacedByTimer ==
  ASSUME Types, PlacedOnce, NEW r \in Delayed, delayMap' = delayMap \union {r},
         UNCHANGED <<listTask, taskCopy, ended>>,
         \/ r.id \notin posted /\ posted' = posted \union {r.id} /\ UNCHANGED <<batch, cur>>
         \/ cur = r.id /\ cur' = None /\ UNCHANGED <<posted, batch>>
         \/ /\ batch # <<>> /\ Head(batch).id = r.id /\ batch' = Tail(batch)
            /\ UNCHANGED <<posted, cur>>
  PROVE  PlacedOnce'
<1>0. /\ batch \in Seq(Entry) /\ delayMap \in SUBSET Delayed /\ r.id \in All /\ None \notin All
  BY ConstantsAssumption DEF Types, Delayed, All
<1>1. Count(r.id) = IF r.id \in posted \ ended THEN 1 ELSE 0
  BY <1>0 DEF PlacedOnce
<1>2. batch # <<>> =>
        \A x : Occurrences(batch, x) = Occurrences(Tail(batch), x)
                                         + (IF Head(batch).id = x THEN 1 ELSE 0)
               /\ Occurrences(Tail(batch), x) \in Nat
  BY <1>0, CountedTail, Counted
<1>3. Scheduled(delayMap, r.id) = 0
  <2>1. CASE r.id \notin posted
    BY <1>1, <2>1, CountsNat DEF Count
  <2>2. CASE cur = r.id
    BY <1>1, <2>2, CountsNat DEF Count
  <2>3. CASE batch # <<>> /\ Head(batch).id = r.id
    BY <1>1, <1>2, <2>3, CountsNat DEF Count
  <2> QED
    BY <2>1, <2>2, <2>3
<1>4. \A x : Scheduled(delayMap', x) = Scheduled(delayMap, x) + (IF r.id = x THEN 1 ELSE 0)
  BY <1>0, <1>3, ScheduledAdd
<1>5. ASSUME NEW x \in All PROVE Count(x)' = IF x \in posted' \ ended' THEN 1 ELSE 0
  <2>1. Count(x) = IF x \in posted \ ended THEN 1 ELSE 0
    BY DEF PlacedOnce
  <2>a. /\ Scheduled(delayMap', x) = Scheduled(delayMap, x) + (IF r.id = x THEN 1 ELSE 0)
        /\ Occurrences(listTask, x) \in Nat /\ Occurrences(batch, x) \in Nat
        /\ Scheduled(delayMap, x) \in Nat /\ Scheduled(taskCopy, x) \in Nat
        /\ listTask' = listTask /\ taskCopy' = taskCopy
    BY <1>4, CountsNat
  <2>2. CASE r.id \notin posted /\ posted' = posted \union {r.id} /\ UNCHANGED <<batch, cur>>
    <3>1. Count(x)' = Count(x) + (IF r.id = x THEN 1 ELSE 0)
      BY <2>a, <2>2 DEF Count
    <3>2. ended \subseteq posted /\ ended' = ended
      BY DEF PlacedOnce
    <3>3. CASE r.id = x
      BY <2>1, <2>2, <3>1, <3>2, <3>3
    <3>4. CASE r.id # x
      BY <2>1, <2>2, <3>1, <3>2, <3>4
    <3> QED
      BY <3>3, <3>4
  <2>3. CASE cur = r.id /\ cur' = None /\ UNCHANGED <<posted, batch>>
    <3>1. Count(x)' = Count(x)
      BY <1>0, <2>a, <2>3 DEF Count
    <3> QED
      BY <2>1, <2>3, <3>1
  <2>4. CASE /\ batch # <<>> /\ Head(batch).id = r.id /\ batch' = Tail(batch)
             /\ UNCHANGED <<posted, cur>>
    <3>1. /\ Occurrences(batch, x) = Occurrences(batch', x) + (IF r.id = x THEN 1 ELSE 0)
          /\ Occurrences(batch', x) \in Nat
      BY <1>2, <2>4
    <3>2. Count(x)' = Count(x)
      BY <2>a, <2>4, <3>1 DEF Count
    <3> QED
      BY <2>1, <2>4, <3>2
  <2> QED
    BY <2>2, <2>3, <2>4
<1>6. ended' \subseteq posted'
  BY DEF PlacedOnce
<1> QED
  BY <1>5, <1>6 DEF PlacedOnce

(* A task leaves cur, _list_swap or task_copy: it is done with, or it runs. *)
LEMMA PlacedByTurn ==
  ASSUME Types, PlacedOnce, NEW t \in All, UNCHANGED <<listTask, delayMap, posted>>,
         \/ cur = t /\ cur' = None /\ UNCHANGED <<batch, taskCopy>> /\ ended' = ended \union {t}
         \/ /\ \/ /\ batch # <<>> /\ Head(batch).id = t /\ batch' = Tail(batch)
                  /\ UNCHANGED taskCopy
               \/ /\ \E r \in taskCopy : r.id = t /\ taskCopy' = taskCopy \ {r}
                  /\ UNCHANGED batch
            /\ \/ ended' = ended \union {t} /\ UNCHANGED cur
               \/ cur = None /\ cur' = t /\ UNCHANGED ended
  PROVE  PlacedOnce'
<1> DEFINE Gone == /\ \A x : Occurrences(batch', x) + Scheduled(taskCopy', x)
                               = Occurrences(batch, x) + Scheduled(taskCopy, x)
                                   - (IF x = t THEN 1 ELSE 0)
                   /\ \A x : Occurrences(batch', x) \in Nat /\ Scheduled(taskCopy', x) \in Nat
<1>0. /\ batch \in Seq(Entry) /\ taskCopy \in SUBSET Delayed /\ None \notin All
  BY ConstantsAssumption DEF Types, All
<1>1. CASE cur = t /\ cur' = None /\ UNCHANGED <<batch, taskCopy>> /\ ended' = ended \union {t}
  <2>1. ASSUME NEW x \in All PROVE Count(x)' = IF x \in posted' \ ended' THEN 1 ELSE 0
    <3>1. /\ Count(x) = IF x \in posted \ ended THEN 1 ELSE 0
          /\ Count(t) = IF t \in posted \ ended THEN 1 ELSE 0
      BY DEF PlacedOnce
    <3>2. Count(x)' = Count(x) - (IF x = t THEN 1 ELSE 0)
      BY <1>0, <1>1, CountsNat DEF Count
    <3>3. /\ Occurrences(listTask, t) \in Nat /\ Occurrences(batch, t) \in Nat
          /\ Scheduled(delayMap, t) \in Nat /\ Scheduled(taskCopy, t) \in Nat
      BY CountsNat
    <3>4. Count(t) = 1 /\ Count(x) \in {0, 1}
      BY <1>1, <3>1, <3>3 DEF Count
    <3>5. CASE x = t
      BY <1>1, <3>2, <3>4, <3>5
    <3>6. CASE x # t
      <4>1. Count(x)' = Count(x) /\ (x \in posted' \ ended' <=> x \in posted \ ended)
        BY <1>1, <3>2, <3>4, <3>6
      <4> QED
        BY <3>1, <4>1
    <3> QED
      BY <3>5, <3>6
  <2>2. Count(t) = IF t \in posted \ ended THEN 1 ELSE 0
    BY DEF PlacedOnce
  <2>3. t \in posted
    BY <1>1, <2>2, CountsNat DEF Count
  <2> QED
    BY <1>1, <2>1, <2>3 DEF PlacedOnce
<1>2. ASSUME Gone,
             \/ ended' = ended \union {t} /\ UNCHANGED cur
             \/ cur = None /\ cur' = t /\ UNCHANGED ended
      PROVE  PlacedOnce'
  <2>1. Count(t) = IF t \in posted \ ended THEN 1 ELSE 0
    BY DEF PlacedOnce
  <2>2. Occurrences(batch, t) + Scheduled(taskCopy, t) >= 1
    BY <1>2, CountsNat
  <2>3. t \in posted /\ t \notin ended
    BY <2>1, <2>2, CountsNat DEF Count
  <2>4. ASSUME NEW x \in All PROVE Count(x)' = IF x \in posted' \ ended' THEN 1 ELSE 0
    <3>1. Count(x) = IF x \in posted \ ended THEN 1 ELSE 0
      BY DEF PlacedOnce
    <3>a. /\ Occurrences(listTask, x) \in Nat /\ Occurrences(batch, x) \in Nat
          /\ Scheduled(delayMap, x) \in Nat /\ Scheduled(taskCopy, x) \in Nat
          /\ Occurrences(batch', x) \in Nat /\ Scheduled(taskCopy', x) \in Nat
          /\ Occurrences(batch', x) + Scheduled(taskCopy', x)
               = Occurrences(batch, x) + Scheduled(taskCopy, x) - (IF x = t THEN 1 ELSE 0)
          /\ listTask' = listTask /\ delayMap' = delayMap
      BY <1>2, CountsNat
    <3>b. /\ Count(x) = Occurrences(listTask, x) + Occurrences(batch, x) + Scheduled(delayMap, x)
                          + Scheduled(taskCopy, x) + (IF cur = x THEN 1 ELSE 0)
          /\ Count(x)' = Occurrences(listTask, x) + Occurrences(batch', x) + Scheduled(delayMap, x)
                           + Scheduled(taskCopy', x) + (IF cur' = x THEN 1 ELSE 0)
      BY DEF Count
    <3> HIDE DEF Gone
    <3>2. CASE ended' = ended \union {t} /\ UNCHANGED cur
      <4>1. (IF cur' = x THEN 1 ELSE 0) = (IF cur = x THEN 1 ELSE 0) /\ Count(x) \in {0, 1}
        BY <3>1, <3>2
      <4>2. CASE x = t
        <5>1. Count(x)' = Count(x) - 1
          BY <3>a, <3>b, <4>1, <4>2, SMTT(30)
        <5> QED
          BY <2>3, <3>1, <3>2, <4>2, <5>1
      <4>3. CASE x # t
        <5>1. Count(x)' = Count(x)
          BY <3>a, <3>b, <4>1, <4>3, SMTT(30)
        <5> QED
          BY <2>3, <3>1, <3>2, <4>3, <5>1
      <4> QED
        BY <4>2, <4>3
    <3>3. CASE cur = None /\ cur' = t /\ UNCHANGED ended
      <4>1. Count(x)' = Count(x)
        BY <1>0, <3>a, <3>b, <3>3, SMTT(30)
      <4> QED
        BY <3>1, <3>3, <4>1
    <3> QED
      BY <1>2, <3>2, <3>3
  <2> QED
    BY <1>2, <2>3, <2>4 DEF PlacedOnce
<1>3. ASSUME batch # <<>> /\ Head(batch).id = t /\ batch' = Tail(batch) /\ UNCHANGED taskCopy
      PROVE  Gone
  <2>1. ASSUME NEW x
        PROVE  /\ Occurrences(batch, x) = Occurrences(batch', x) + (IF x = t THEN 1 ELSE 0)
               /\ Occurrences(batch', x) \in Nat
    BY <1>0, <1>3, CountedTail, Counted
  <2> QED
    BY <1>3, <2>1, CountsNat
<1>4. ASSUME /\ \E r \in taskCopy : r.id = t /\ taskCopy' = taskCopy \ {r}
             /\ UNCHANGED batch
      PROVE  Gone
  <2>1. PICK r \in taskCopy : r.id = t /\ taskCopy' = taskCopy \ {r}
    BY <1>4
  <2>2. ASSUME NEW x
        PROVE  /\ Scheduled(taskCopy, x) = Scheduled(taskCopy', x) + (IF x = t THEN 1 ELSE 0)
               /\ Scheduled(taskCopy', x) \in Nat
    <3>1. taskCopy' \in SUBSET Delayed
      BY <1>0, <2>1
    <3>2. Scheduled(taskCopy, x) = Scheduled(taskCopy \ {r}, x) + (IF r.id = x THEN 1 ELSE 0)
      BY <1>0, ScheduledRemove
    <3>3. Scheduled(taskCopy', x) \in Nat
      BY <3>1, ScheduledFinite
    <3> QED
      BY <2>1, <3>2, <3>3
  <2>3. ASSUME NEW x
        PROVE  /\ Occurrences(batch', x) + Scheduled(taskCopy', x)
                    = Occurrences(batch, x) + Scheduled(taskCopy, x) - (IF x = t THEN 1 ELSE 0)
               /\ Occurrences(batch', x) \in Nat /\ Scheduled(taskCopy', x) \in Nat
    <3>1. /\ Occurrences(batch, x) \in Nat /\ Scheduled(taskCopy, x) \in Nat /\ batch' = batch
          /\ Scheduled(taskCopy, x) = Scheduled(taskCopy', x) + (IF x = t THEN 1 ELSE 0)
          /\ Scheduled(taskCopy', x) \in Nat
      BY <1>4, <2>2, CountsNat
    <3> QED
      BY <3>1
  <2> QED
    BY <2>3
<1>5. Gone \/ (cur = t /\ cur' = None /\ UNCHANGED <<batch, taskCopy>> /\ ended' = ended \union {t})
  <2> HIDE DEF Gone
  <2> QED
    BY <1>3, <1>4
<1> HIDE DEF Gone
<1> QED
  BY <1>1, <1>2, <1>5

(* Whole containers: the list is swapped, the map is copied and merged.    *)
LEMMA PlacedBySwap ==
  ASSUME Types, PlacedOnce, UNCHANGED <<cur, posted, ended>>,
         \/ /\ batch = <<>> /\ batch' = listTask /\ listTask' = <<>>
            /\ UNCHANGED <<delayMap, taskCopy>>
         \/ /\ taskCopy = {} /\ taskCopy' = delayMap /\ delayMap' = {}
            /\ UNCHANGED <<listTask, batch>>
         \/ /\ delayMap' = delayMap \union taskCopy /\ taskCopy' = {}
            /\ UNCHANGED <<listTask, batch>>
         \/ /\ batch # <<>> /\ Head(batch).id = None /\ batch' = Tail(batch)
            /\ UNCHANGED <<listTask, delayMap, taskCopy>>
         \/ UNCHANGED <<listTask, batch, delayMap, taskCopy>>
  PROVE  PlacedOnce'
<1>0. /\ batch \in Seq(Entry) /\ delayMap \in SUBSET Delayed /\ taskCopy \in SUBSET Delayed
      /\ None \notin All
  BY ConstantsAssumption DEF Types, All
<1>1. \A x : Scheduled({}, x) = 0
  BY ScheduledFinite
<1>2. ASSUME NEW x \in All PROVE Count(x)' = Count(x)
  <2>1. /\ Count(x) = IF x \in posted \ ended THEN 1 ELSE 0
        /\ Occurrences(listTask, x) \in Nat /\ Occurrences(batch, x) \in Nat
        /\ Scheduled(delayMap, x) \in Nat /\ Scheduled(taskCopy, x) \in Nat
    BY CountsNat DEF PlacedOnce
  <2>2. /\ Count(x) = Occurrences(listTask, x) + Occurrences(batch, x) + Scheduled(delayMap, x)
                          + Scheduled(taskCopy, x) + (IF cur = x THEN 1 ELSE 0)
        /\ Count(x)' = Occurrences(listTask', x) + Occurrences(batch', x)
                         + Scheduled(delayMap', x)
                         + Scheduled(taskCopy', x) + (IF cur' = x THEN 1 ELSE 0)
    BY DEF Count
  <2>3. CASE /\ batch = <<>> /\ batch' = listTask /\ listTask' = <<>>
             /\ UNCHANGED <<delayMap, taskCopy>>
    BY <2>1, <2>2, <2>3, CountedEmpty
  <2>4. CASE /\ taskCopy = {} /\ taskCopy' = delayMap /\ delayMap' = {}
             /\ UNCHANGED <<listTask, batch>>
    BY <1>1, <2>1, <2>2, <2>4
  <2>5. CASE /\ delayMap' = delayMap \union taskCopy /\ taskCopy' = {}
             /\ UNCHANGED <<listTask, batch>>
    <3>1. Scheduled(delayMap, x) + Scheduled(taskCopy, x) <= 1
      BY <2>1, <2>2
    <3>2. Scheduled(delayMap, x) = 0 \/ Scheduled(taskCopy, x) = 0
      BY <2>1, <3>1
    <3>3. Scheduled(delayMap \union taskCopy, x)
            = Scheduled(delayMap, x) + Scheduled(taskCopy, x)
      BY <1>0, <3>2, ScheduledMerge
    <3> QED
      BY <1>1, <2>1, <2>2, <2>5, <3>3
  <2>6. CASE /\ batch # <<>> /\ Head(batch).id = None /\ batch' = Tail(batch)
             /\ UNCHANGED <<listTask, delayMap, taskCopy>>
    <3>1. /\ Occurrences(batch, x)
               = Occurrences(Tail(batch), x) + (IF Head(batch).id = x THEN 1 ELSE 0)
          /\ Occurrences(Tail(batch), x) \in Nat
      BY <1>0, <2>6, CountedTail, Counted
    <3>2. Occurrences(batch', x) = Occurrences(batch, x)
      BY <1>0, <2>6, <3>1
    <3> QED
      BY <2>1, <2>2, <2>6, <3>2
  <2>7. CASE UNCHANGED <<listTask, batch, delayMap, taskCopy>>
    BY <2>1, <2>2, <2>7
  <2> QED
    BY <2>3, <2>4, <2>5, <2>6, <2>7
<1> QED
  BY <1>2 DEF PlacedOnce

LEMMA PlacedOnceInductive ==
  ASSUME Types, PlacedOnce, PlacesUsed, [Next]_vars
  PROVE  PlacedOnce'
<1> USE ConstantsAssumption
<1>p. PollerThread \in Threads /\ Tasks \subseteq All /\ DelayTasks \subseteq All
  BY DEF PollerThread, Threads, All
<1>1. ASSUME NEW t \in Tasks, NEW first \in BOOLEAN, BodyAsync(t, first)
      PROVE  PlacedOnce'
  <2> DEFINE e == TaskEntry(PollerThread, t, first)
  <2>1. e \in Entry /\ e.id = t
    BY <1>p, EntryTypeRun DEF TaskEntry
  <2>2. Emplace(PollerThread, e) /\ t \notin posted /\ posted' = posted \union {t}
        /\ UNCHANGED <<batch, delayMap, taskCopy, cur, ended>>
    BY <1>1 DEF BodyAsync
  <2> HIDE DEF e
  <2> QED
    BY <1>p, <2>1, <2>2, PlacedByEmplace
<1>2. ASSUME NEW t \in Tasks, BodyInline(t)
      PROVE  PlacedOnce'
  <2>1. /\ posted' = posted \union {t} /\ ended' = ended \union {t} /\ t \notin posted
        /\ UNCHANGED <<listTask, batch, delayMap, taskCopy, cur>>
    BY <1>2 DEF BodyInline
  <2>2. ASSUME NEW x \in All PROVE Count(x)' = IF x \in posted' \ ended' THEN 1 ELSE 0
    <3>1. Count(x)' = Count(x)
      BY <2>1 DEF Count
    <3>2. x \in posted' \ ended' <=> x \in posted \ ended
      BY <2>1 DEF PlacedOnce
    <3> QED
      BY <3>1, <3>2 DEF PlacedOnce
  <2> QED
    BY <2>1, <2>2 DEF PlacedOnce
<1>3. ASSUME NEW d \in DelayTasks, NEW delay \in Nat, BodyDelay(d, delay)
      PROVE  PlacedOnce'
  <2> DEFINE r == [line |-> clock + delay, id |-> d]
  <2>1. r \in Delayed /\ r.id = d
    BY <1>3 DEF BodyDelay, Types, Delayed
  <2>2. /\ d \notin posted /\ posted' = posted \union {d} /\ delayMap' = delayMap \union {r}
        /\ UNCHANGED <<listTask, batch, taskCopy, cur, ended>>
    BY <1>3 DEF BodyDelay
  <2> HIDE DEF r
  <2> QED
    BY <2>1, <2>2, PlacedByTimer
<1>4. CASE BodyReturns
  <2>1. CASE cur = Io
    <3>1. /\ cur' = None /\ UNCHANGED <<listTask, batch, delayMap, taskCopy, posted, ended>>
          /\ None \notin All /\ Io \notin All
      BY <1>4, <2>1 DEF BodyReturns, All
    <3>2. \A x \in All : Count(x)' = Count(x)
      BY <2>1, <3>1 DEF Count
    <3> QED
      BY <3>1, <3>2 DEF PlacedOnce
  <2>2. CASE cur # Io
    <3>1. /\ cur \in All /\ cur' = None /\ ended' = ended \union {cur}
          /\ UNCHANGED <<listTask, batch, delayMap, taskCopy, posted>>
      BY <1>4, <2>2 DEF BodyReturns, InBody, Types, All
    <3> QED
      BY <3>1, PlacedByTurn
  <2> QED
    BY <2>1, <2>2
<1>5. ASSUME NEW next_delay \in Nat, DelayTaskReturns(next_delay)
      PROVE  PlacedOnce'
  <2> DEFINE r == [line |-> nowTime + next_delay, id |-> cur]
  <2>1. /\ r \in Delayed /\ r.id = cur /\ cur \in All /\ cur' = None
        /\ UNCHANGED <<listTask, batch, taskCopy, posted>>
    BY <1>5 DEF DelayTaskReturns, Types, Delayed, All
  <2>2. \/ ended' = ended \union {cur} /\ UNCHANGED delayMap
        \/ delayMap' = delayMap \union {r} /\ UNCHANGED ended
    BY <1>5 DEF DelayTaskReturns
  <2> HIDE DEF r
  <2>3. CASE ended' = ended \union {cur} /\ UNCHANGED delayMap
    BY <2>1, <2>3, PlacedByTurn
  <2>4. CASE delayMap' = delayMap \union {r} /\ UNCHANGED ended
    BY <2>1, <2>4, PlacedByTimer
  <2> QED
    BY <2>2, <2>3, <2>4
<1>6. CASE BeginFlush
  BY <1>6, PlacedBySwap DEF BeginFlush, PlacesUsed, InFlush
<1>7. CASE EndFlush
  BY <1>7, PlacedBySwap DEF EndFlush
<1>8. ASSUME NEW r \in taskCopy, FlushOne(r)
      PROVE  PlacedOnce'
  <2>1. /\ r.id \in All /\ cur = None /\ taskCopy' = taskCopy \ {r}
        /\ UNCHANGED <<listTask, batch, delayMap, posted>>
        /\ \/ ended' = ended \union {r.id} /\ UNCHANGED cur
           \/ cur' = r.id /\ UNCHANGED ended
    BY <1>8 DEF FlushOne, Types, Delayed, All, PlacesUsed
  <2> QED
    BY <2>1, PlacedByTurn
<1>9. CASE SwapList
  BY <1>9, PlacedBySwap DEF SwapList, PlacesUsed
<1>10. CASE RunNext
  <2> DEFINE e == Head(batch)
  <2>1. /\ e \in Entry /\ batch # <<>> /\ batch' = Tail(batch) /\ cur = None
        /\ UNCHANGED <<listTask, taskCopy, posted>>
    BY <1>10 DEF RunNext, Types, PlacesUsed
  <2>2. CASE e.op = "exit"
    <3>1. e.id = None /\ UNCHANGED <<cur, delayMap, ended>>
      BY <1>10, <2>1, <2>2, EntryKinds DEF RunNext
    <3> QED
      BY <2>1, <3>1, PlacedBySwap
  <2>3. CASE e.op = "addDelay"
    <3>1. /\ delayMap' = delayMap \union {[line |-> e.line, id |-> e.id]}
          /\ UNCHANGED <<cur, ended>>
      BY <1>10, <2>3 DEF RunNext
    <3>2. [line |-> e.line, id |-> e.id] \in Delayed
      BY <2>1, <2>3, EntryKinds
    <3> QED
      BY <2>1, <3>1, <3>2, PlacedByTimer
  <2>4. CASE e.op = "run"
    <3>1. /\ UNCHANGED delayMap
          /\ \/ ended' = ended \union {e.id} /\ UNCHANGED cur
             \/ cur' = e.id /\ UNCHANGED ended
      BY <1>10, <2>4 DEF RunNext
    <3>2. e.id \in All
      BY <1>p, <2>1, <2>4, EntryKinds
    <3> QED
      BY <2>1, <3>1, <3>2, PlacedByTurn
  <2> QED
    BY <2>1, <2>2, <2>3, <2>4, EntryKinds
<1>11. ASSUME NEW p \in Producers, NEW t \in Tasks, NEW first \in BOOLEAN, Async(p, t, first)
       PROVE  PlacedOnce'
  <2> DEFINE e == TaskEntry(p, t, first)
  <2>1. p \in Threads
    BY DEF Threads
  <2>2. e \in Entry /\ e.id = t
    BY <2>1, EntryTypeRun DEF TaskEntry
  <2>3. Emplace(p, e) /\ t \notin posted /\ posted' = posted \union {t}
        /\ UNCHANGED <<batch, delayMap, taskCopy, cur, ended>>
    BY <1>11 DEF Async
  <2> HIDE DEF e
  <2> QED
    BY <1>p, <2>2, <2>3, PlacedByEmplace
<1>12. ASSUME NEW p \in Producers, NEW d \in DelayTasks, NEW delay \in Nat,
              DoDelayTask(p, d, delay)
       PROVE  PlacedOnce'
  <2> DEFINE e == DelayEntry(p, d, delay)
  <2>1. p \in Threads
    BY DEF Threads
  <2>2. e \in Entry /\ e.id = d
    BY <1>12, <2>1, EntryTypeDelay DEF DelayEntry, DoDelayTask, Types
  <2>3. Emplace(p, e) /\ d \notin posted /\ posted' = posted \union {d}
        /\ UNCHANGED <<batch, delayMap, taskCopy, cur, ended>>
    BY <1>12 DEF DoDelayTask
  <2> HIDE DEF e
  <2> QED
    BY <1>p, <2>2, <2>3, PlacedByEmplace
<1>13. CASE Shutdown
  <2>1. ExitEntry.id = None
    BY DEF ExitEntry
  <2>2. Emplace(Owner, ExitEntry) /\ UNCHANGED <<posted, batch, delayMap, taskCopy, cur, ended>>
    BY <1>13 DEF Shutdown
  <2> QED
    BY <2>1, <2>2, EntryTypeExit, PlacedByEmplace
<1>14. CASE \/ ExitLoop \/ Sleep \/ WaitReturns \/ WaitTimesOut \/ ReadPipe \/ EndBatch
            \/ (\E x \in Threads : WritePipe(x)) \/ (\E t \in Cancelable : Cancel(t))
            \/ (\E p \in Producers : Release(p)) \/ Join \/ WaitInterrupted \/ Tick \/ IoArrives
            \/ UNCHANGED vars
  <2>1. UNCHANGED <<listTask, batch, delayMap, taskCopy, cur, posted, ended>>
    BY <1>14 DEF ExitLoop, Sleep, WaitReturns, WaitTimesOut, ReadPipe, EndBatch, WritePipe,
       Cancel, Release, Join, WaitInterrupted, Tick, IoArrives, vars
  <2> QED
    BY <2>1, PlacedBySwap
<1>15. CASE Dispatch
  <2>1. /\ UNCHANGED <<listTask, batch, delayMap, taskCopy, posted, ended>>
        /\ cur = None /\ cur' \in {None, Io} /\ None \notin All /\ Io \notin All
    BY <1>15 DEF Dispatch, PlacesUsed, All
  <2>2. \A x \in All : Count(x)' = Count(x)
    BY <2>1 DEF Count
  <2> QED
    BY <2>1, <2>2 DEF PlacedOnce
<1> QED
  BY <1>1, <1>2, <1>3, <1>4, <1>5, <1>6, <1>7, <1>8, <1>9, <1>10, <1>11, <1>12, <1>13, <1>14,
     <1>15, NextCases

LEMMA PlacesUsedInductive ==
  ASSUME Types, PlacesUsed, [Next]_vars
  PROVE  PlacesUsed'
<1> USE ConstantsAssumption DEF PlacesUsed, InFlush
<1>1. ASSUME NEW t \in Tasks, NEW first \in BOOLEAN, BodyAsync(t, first)
      PROVE  PlacesUsed'
  BY <1>1 DEF BodyAsync, InBody
<1>2. ASSUME NEW t \in Tasks, BodyInline(t)
      PROVE  PlacesUsed'
  BY <1>2 DEF BodyInline, InBody
<1>3. ASSUME NEW d \in DelayTasks, NEW delay \in Nat, BodyDelay(d, delay)
      PROVE  PlacesUsed'
  BY <1>3 DEF BodyDelay, InBody
<1>4. CASE BodyReturns
  BY <1>4 DEF BodyReturns, InBody
<1>5. ASSUME NEW next_delay \in Nat, DelayTaskReturns(next_delay)
      PROVE  PlacesUsed'
  BY <1>5 DEF DelayTaskReturns, InBody
<1>6. CASE BeginFlush \/ EndFlush \/ (\E r \in taskCopy : FlushOne(r))
  BY <1>6 DEF BeginFlush, EndFlush, FlushOne, Types, Delayed
<1>7. CASE SwapList \/ EndBatch
  BY <1>7 DEF SwapList, EndBatch
<1>8. CASE RunNext
  <2>1. /\ Head(batch) \in Entry /\ pc = "run" /\ UNCHANGED taskCopy
        /\ \/ pc' = pc /\ cur' = cur
           \/ Head(batch).op = "run" /\ pc' = "exec" /\ cur' = Head(batch).id
    BY <1>8 DEF RunNext, Types
  <2>2. Head(batch).op = "run" => Head(batch).id \in Tasks
    BY <2>1, EntryKinds
  <2> QED
    BY <2>1, <2>2
<1>9. CASE Dispatch \/ ReadPipe \/ WaitReturns \/ WaitTimesOut \/ WaitInterrupted \/ ExitLoop \/ Sleep
  BY <1>9 DEF Dispatch, ReadPipe, WaitReturns, WaitTimesOut, WaitInterrupted, ExitLoop, Sleep
<1>10. CASE Join
  BY <1>10 DEF Join
<1>11. CASE \/ \E p \in Producers, t \in Tasks, first \in BOOLEAN : Async(p, t, first)
            \/ \E p \in Producers, d \in DelayTasks, delay \in Nat : DoDelayTask(p, d, delay)
            \/ (\E x \in Threads : WritePipe(x)) \/ (\E t \in Cancelable : Cancel(t))
            \/ (\E p \in Producers : Release(p)) \/ Shutdown \/ Tick \/ IoArrives
            \/ UNCHANGED vars
  <2>1. UNCHANGED <<pc, cur, batch, taskCopy>>
    BY <1>11 DEF Async, DoDelayTask, WritePipe, Cancel, Release, Shutdown, Tick, IoArrives, vars
  <2> QED
    BY <2>1
<1> QED
  BY <1>1, <1>2, <1>3, <1>4, <1>5, <1>6, <1>7, <1>8, <1>9, <1>10, <1>11, NextCases

LEMMA LastRunInductive ==
  ASSUME Types, PlacesUsed, LastRun, [Next]_vars
  PROVE  LastRun'
<1> USE ConstantsAssumption DEF LastRun
<1>1. ASSUME NEW t \in Tasks, NEW first \in BOOLEAN, BodyAsync(t, first)
      PROVE  LastRun'
  <2> DEFINE e == TaskEntry(PollerThread, t, first)
  <2>1. /\ pc = "exec" /\ Emplace(PollerThread, e) /\ e.by = PollerThread
        /\ UNCHANGED <<pc, cur, owner, holding, batch>>
    BY <1>1 DEF BodyAsync, InBody, TaskEntry
  <2>2. CASE owner = "final"
    <3>1. e.by = Owner /\ e \in Entry /\ listTask \in Seq(Entry)
      <4>1. Owner \in Threads /\ PollerThread = Owner
        BY <2>2 DEF Threads, PollerThread
      <4> QED
        BY <2>1, <4>1, EntryTypeRun DEF TaskEntry, Types
    <3>2. \A i \in DOMAIN listTask : listTask[i].by = Owner
      BY <2>1, <2>2
    <3> HIDE DEF e
    <3>3. \A i \in DOMAIN listTask' : listTask'[i].by = Owner
      <4>1. listTask' = <<e>> \o listTask \/ listTask' = Append(listTask, e)
        BY <2>1 DEF Emplace
      <4>2. ASSUME NEW i \in DOMAIN listTask'
            PROVE  listTask'[i] = e \/ \E j \in DOMAIN listTask : listTask'[i] = listTask[j]
        <5>1. CASE listTask' = <<e>> \o listTask
          <6>1. CASE i = 1
            BY <3>1, <5>1, <6>1
          <6>2. CASE i # 1
            <7>1. i - 1 \in DOMAIN listTask /\ listTask'[i] = listTask[i - 1]
              BY <3>1, <4>2, <5>1, <6>2
            <7> QED
              BY <7>1
          <6> QED
            BY <6>1, <6>2
        <5>2. CASE listTask' = Append(listTask, e)
          <6>1. i = Len(listTask) + 1 \/ i \in DOMAIN listTask
            BY <3>1, <4>2, <5>2
          <6> QED
            BY <3>1, <5>2, <6>1
        <5> QED
          BY <4>1, <5>1, <5>2
      <4> QED
        BY <3>1, <3>2, <4>2
    <3> QED
      BY <2>1, <2>2, <3>3
  <2>3. CASE owner # "final"
    BY <2>1, <2>3
  <2> QED
    BY <2>2, <2>3
<1>2. ASSUME NEW t \in Tasks, BodyInline(t)
      PROVE  LastRun'
  BY <1>2 DEF BodyInline
<1>3. ASSUME NEW d \in DelayTasks, NEW delay \in Nat, BodyDelay(d, delay)
      PROVE  LastRun'
  BY <1>3 DEF BodyDelay
<1>4. CASE BodyReturns
  BY <1>4 DEF BodyReturns, InBody
<1>5. ASSUME NEW next_delay \in Nat, DelayTaskReturns(next_delay)
      PROVE  LastRun'
  BY <1>5 DEF DelayTaskReturns, InBody
<1>6. CASE \/ BeginFlush \/ EndFlush \/ (\E r \in taskCopy : FlushOne(r)) \/ ExitLoop \/ Sleep
           \/ WaitReturns \/ WaitTimesOut \/ WaitInterrupted
  BY <1>6 DEF BeginFlush, EndFlush, FlushOne, ExitLoop, Sleep, WaitReturns, WaitTimesOut,
     WaitInterrupted
<1>7. CASE Dispatch \/ ReadPipe
  BY <1>7 DEF Dispatch, ReadPipe
<1>8. CASE SwapList
  <2>1. DOMAIN <<>> = {}
    OBVIOUS
  <2> QED
    BY <1>8, <2>1 DEF SwapList
<1>9. CASE EndBatch
  BY <1>9 DEF EndBatch
<1>10. CASE RunNext
  <2>1. /\ Head(batch) \in Entry /\ pc = "run" /\ UNCHANGED <<listTask, owner, holding>>
        /\ \/ pc' = pc /\ cur' = cur
           \/ Head(batch).op = "run" /\ pc' = "exec" /\ cur' = Head(batch).id
    BY <1>10 DEF RunNext, Types
  <2>2. Head(batch).op = "run" => Head(batch).id \in Tasks
    BY <2>1, EntryKinds
  <2> QED
    BY <2>1, <2>2
<1>11. CASE Join
  BY <1>11 DEF Join, PlacesUsed
<1>12. CASE Shutdown
  BY <1>12 DEF Shutdown
<1>13. CASE \/ \E p \in Producers, t \in Tasks, first \in BOOLEAN : Async(p, t, first)
            \/ \E p \in Producers, d \in DelayTasks, delay \in Nat : DoDelayTask(p, d, delay)
  BY <1>13 DEF Async, DoDelayTask
<1>14. CASE \/ (\E x \in Threads : WritePipe(x)) \/ (\E t \in Cancelable : Cancel(t))
            \/ (\E p \in Producers : Release(p)) \/ Tick \/ IoArrives \/ UNCHANGED vars
  <2>1. UNCHANGED <<pc, cur, batch, listTask, owner>> /\ holding' \subseteq holding
    BY <1>14 DEF WritePipe, Cancel, Release, Tick, IoArrives, vars
  <2> QED
    BY <2>1
<1> QED
  BY <1>1, <1>2, <1>3, <1>4, <1>5, <1>6, <1>7, <1>8, <1>9, <1>10, <1>11, <1>12, <1>13, <1>14,
     NextCases

Placed == PlacedOnce /\ PlacesUsed /\ LastRun

LEMMA PlacedHolds == Spec => []Placed
<1>1. Init => Placed
  <2> SUFFICES ASSUME Init PROVE Placed
    OBVIOUS
  <2>1. \A x : Scheduled({}, x) = 0
    BY ScheduledFinite
  <2>2. None \notin All
    BY ConstantsAssumption DEF All
  <2>3. PlacedOnce
    BY <2>1, <2>2, CountedEmpty DEF Init, PlacedOnce, Count
  <2>4. PlacesUsed /\ LastRun
    BY DEF Init, PlacesUsed, LastRun
  <2> QED
    BY <2>3, <2>4 DEF Placed
<1>2. IInv /\ Placed /\ [Next]_vars => Placed'
  BY PlacedOnceInductive, PlacesUsedInductive, LastRunInductive DEF IInv, Placed
<1> QED
  BY <1>1, <1>2, IInvHolds, PTL DEF Spec

(* No task is lost or doubled on its way through _list_task, _list_swap,   *)
(* _delay_task_map and task_copy, for any number of threads and tasks, and *)
(* what was handed over before the destructor has run when it returns      *)
(* (onPipeEvent, flushDelayTask, shutdown, ~EventPoller).                  *)
THEOREM TasksStayAccounted == Spec => []TasksAccounted
<1>1. IInv /\ Placed => TasksAccounted
  <2> SUFFICES ASSUME IInv, Placed PROVE TasksAccounted
    OBVIOUS
  <2>1. Types
    BY DEF IInv
  <2>2. InOnePlace
    <3>1. ASSUME NEW x \in posted PROVE Count(x) = IF x \in ended THEN 0 ELSE 1
      <4>1. x \in All
        BY <2>1, <3>1 DEF Types, All
      <4> QED
        BY <3>1, <4>1 DEF Placed, PlacedOnce
    <3> QED
      BY <3>1 DEF InOnePlace, Count
  <2>3. NothingLostAtExit
    <3> SUFFICES ASSUME pc = "destroyed", NEW x \in Tasks, x \in posted, x \notin ended
                 PROVE  \E i \in DOMAIN listTask : listTask[i].id = x /\ listTask[i].by = Owner
      BY DEF NothingLostAtExit
    <3>1. /\ batch = <<>> /\ cur = None /\ taskCopy = {}
          /\ \A i \in DOMAIN listTask : listTask[i].by = Owner
      BY DEF Placed, PlacesUsed, LastRun, InFlush
    <3>2. Count(x) = 1
      BY DEF Placed, PlacedOnce, All
    <3>3. Scheduled(delayMap, x) = 0 /\ Scheduled(taskCopy, x) = 0
      <4>1. /\ delayMap \in SUBSET Delayed /\ taskCopy \in SUBSET Delayed
            /\ \A r \in Delayed : r.id # x
        BY <2>1, ConstantsAssumption DEF Types, Delayed
      <4> QED
        BY <4>1, ScheduledFinite
    <3>4. Occurrences(batch, x) = 0 /\ cur # x
      BY <3>1, CountedEmpty, ConstantsAssumption
    <3>5. Occurrences(listTask, x) \in Nat
      BY <2>1, CountsNat
    <3>6. Occurrences(listTask, x) # 0
      BY <3>2, <3>3, <3>4, <3>5 DEF Count
    <3>7. \E i \in DOMAIN listTask : listTask[i].id = x
      BY <2>1, <3>6, Counted DEF Types
    <3> QED
      BY <3>1, <3>7
  <2> QED
    BY <2>2, <2>3 DEF TasksAccounted
<1> QED
  BY <1>1, IInvHolds, PlacedHolds, PTL

(* Unless a running delayed task asks for a delay of 0 ms, epoll_wait ends *)
(* by the earliest deadline, plus the time that flushDelayTask took since  *)
(* it read the clock (getMinDelay 411-424, flushDelayTask 382-409).        *)
THEOREM SleepsEndInTime ==
  ASSUME 0 \notin NestedDelays
  PROVE  Spec => SleepEndsAtDeadline
<1> USE ConstantsAssumption
<1>1. IInv /\ FlushStrict /\ [Next]_vars =>
        [pc # "wait" /\ pc' = "wait" =>
           \A r \in delayMap' :
             wake' <= r.line + (IF pc = "flush" THEN clock - nowTime ELSE 0)]_vars
  <2> SUFFICES ASSUME IInv, FlushStrict, Next, pc # "wait", pc' = "wait", NEW r \in delayMap'
               PROVE  wake' <= r.line + (IF pc = "flush" THEN clock - nowTime ELSE 0)
    BY DEF vars
  <2>1. /\ clock \in 0 .. MaxTime /\ nowTime \in 0 .. MaxTime /\ nowTime <= clock
        /\ delayMap \in SUBSET Delayed /\ taskCopy \in SUBSET Delayed
        /\ \A s \in Delayed : s.line \in 0 .. MaxTime
    BY DEF IInv, Types, FlushOrder, Delayed
  <2>2. Sleep \/ EndFlush
    BY NextCases DEF BodyAsync, BodyInline, BodyDelay, BodyReturns, DelayTaskReturns, InBody,
       ExitLoop, BeginFlush, FlushOne, WaitReturns, WaitTimesOut, Dispatch, ReadPipe, SwapList,
       RunNext, EndBatch, WritePipe, Async, DoDelayTask, Cancel, Release, Shutdown, Join,
       WaitInterrupted, Tick, IoArrives, vars
  <2>3. CASE Sleep
    <3>1. pc = "check" /\ delayMap' = delayMap /\ wake' = Earliest(delayMap).line
      BY <2>3 DEF Sleep
    <3>2. Earliest(delayMap).line <= r.line /\ Earliest(delayMap) \in Delayed
      BY <2>1, <3>1, EarliestExists
    <3> QED
      BY <2>1, <3>1, <3>2
  <2>4. CASE EndFlush
    <3> DEFINE l == Earliest(delayMap').line
    <3>1. /\ pc = "flush" /\ delayMap' \in SUBSET Delayed
          /\ \A s \in delayMap' : nowTime < s.line
          /\ wake' = Deadline(l - nowTime)
      BY <2>1, <2>4 DEF EndFlush, FlushStrict, InFlush
    <3>2. /\ l <= r.line /\ l \in 0 .. MaxTime /\ r.line \in 0 .. MaxTime /\ nowTime < l
      BY <2>1, <3>1, EarliestExists
    <3> HIDE DEF l
    <3>3. wake' = clock + (l - nowTime)
      BY <2>1, <3>1, <3>2 DEF Deadline
    <3> QED
      BY <2>1, <3>1, <3>2, <3>3
  <2> QED
    BY <2>2, <2>3, <2>4
<1>2. Init => Armed
  BY DEF Init, Armed, FlushStrict, TimerArmed, InFlush
<1>3. IInv /\ Armed /\ [Next]_vars => Armed'
  BY ArmedInductive
<1>4. Armed => FlushStrict
  BY DEF Armed
<1> QED
  BY <1>1, <1>2, <1>3, <1>4, IInvHolds, PTL DEF Spec, SleepEndsAtDeadline

(***************************************************************************)
(* The safety half of the refinement of AsyncExecutor.                     *)
(***************************************************************************)

(* A task stands in the two lists once, and was handed over.               *)
Lined ==
  /\ \A i \in DOMAIN Listed : Listed[i].op = "run" => Listed[i].id \in posted
  /\ \A i, j \in DOMAIN Listed :
       Listed[i].op = "run" /\ Listed[j].id = Listed[i].id => i = j

LEMMA ListedType ==
  ASSUME Types
  PROVE  /\ Listed \in Seq(Entry) /\ Len(Listed) \in Nat /\ DOMAIN Listed = 1 .. Len(Listed)
         /\ \A i \in DOMAIN Listed : Listed[i] \in Entry
         /\ \A t \in Waiting \union Urgent : t \in Tasks
<1>1. Listed \in Seq(Entry)
  BY DEF Types, Listed
<1>2. Waiting \subseteq Tasks /\ Urgent \subseteq Tasks
  BY DEF Waiting, Urgent
<1> QED
  BY <1>1, <1>2

(* Emplace puts the entry somewhere, and one of async at the end.          *)
LEMMA Inserted ==
  ASSUME Types, NEW x, NEW e \in Entry, Emplace(x, e), UNCHANGED batch
  PROVE  \E k \in DOMAIN Listed' :
           /\ Listed'[k] = e /\ DOMAIN Listed' \subseteq Int
           /\ \A i \in DOMAIN Listed : i < k => i \in DOMAIN Listed' /\ Listed'[i] = Listed[i]
           /\ \A i \in DOMAIN Listed :
                ~(i < k) => i + 1 \in DOMAIN Listed' /\ Listed'[i + 1] = Listed[i]
           /\ \A i \in DOMAIN Listed' : i = k \/ (i < k /\ i \in DOMAIN Listed)
                                        \/ (i > k /\ i - 1 \in DOMAIN Listed)
           /\ ~e.first => \A i \in DOMAIN Listed : i < k
<1> DEFINE b == Len(batch)
           l == Len(listTask)
<1>1. batch \in Seq(Entry) /\ listTask \in Seq(Entry) /\ b \in Nat /\ l \in Nat
  BY DEF Types
<1>2. /\ DOMAIN Listed = 1 .. b + l
      /\ \A i \in 1 .. b : Listed[i] = batch[i]
      /\ \A i \in b + 1 .. b + l : Listed[i] = listTask[i - b]
  BY <1>1 DEF Listed
<1>3. CASE e.first
  <2>1. Listed' = batch \o (<<e>> \o listTask)
    BY <1>3 DEF Emplace, Listed
  <2>2. <<e>> \o listTask \in Seq(Entry) /\ Len(<<e>> \o listTask) = l + 1
    BY <1>1
  <2>3. (<<e>> \o listTask)[1] = e /\ \A i \in 2 .. l + 1 : (<<e>> \o listTask)[i] = listTask[i - 1]
    BY <1>1
  <2>4. /\ DOMAIN Listed' = 1 .. b + (l + 1)
        /\ \A i \in 1 .. b : Listed'[i] = batch[i]
        /\ \A i \in b + 1 .. b + (l + 1) : Listed'[i] = (<<e>> \o listTask)[i - b]
    BY <1>1, <2>1, <2>2
  <2>5. Listed'[b + 1] = e /\ \A i \in b + 2 .. b + l + 1 : Listed'[i] = listTask[i - 1 - b]
    <3>1. Listed'[b + 1] = e
      BY <1>1, <2>3, <2>4
    <3>2. ASSUME NEW i \in b + 2 .. b + l + 1 PROVE Listed'[i] = listTask[i - 1 - b]
      <4>1. i - b \in 2 .. l + 1 /\ i \in b + 1 .. b + (l + 1) /\ (i - b) - 1 = i - 1 - b
        BY <1>1
      <4> QED
        BY <4>1, <2>3, <2>4
    <3> QED
      BY <3>1, <3>2
  <2>6. \A i \in b + 1 .. b + l : Listed'[i + 1] = Listed[i]
    <3> SUFFICES ASSUME NEW i \in b + 1 .. b + l PROVE Listed'[i + 1] = Listed[i]
      OBVIOUS
    <3>1. i + 1 \in b + 2 .. b + l + 1 /\ (i + 1) - 1 - b = i - b
      BY <1>1
    <3> QED
      BY <3>1, <2>5, <1>2
  <2> HIDE DEF b, l
  <2>7. /\ b + 1 \in DOMAIN Listed' /\ DOMAIN Listed' \subseteq Int
        /\ \A i \in DOMAIN Listed : i < b + 1 => i \in DOMAIN Listed' /\ Listed'[i] = Listed[i]
        /\ \A i \in DOMAIN Listed :
             ~(i < b + 1) => i + 1 \in DOMAIN Listed' /\ Listed'[i + 1] = Listed[i]
        /\ \A i \in DOMAIN Listed' : i = b + 1 \/ (i < b + 1 /\ i \in DOMAIN Listed)
                                     \/ (i > b + 1 /\ i - 1 \in DOMAIN Listed)
    BY <1>1, <1>2, <2>4, <2>6, SMTT(30)
  <2> QED
    BY <1>3, <2>5, <2>7
<1>4. CASE ~e.first
  <2>1. Listed' = batch \o Append(listTask, e)
    BY <1>4 DEF Emplace, Listed
  <2>2. Append(listTask, e) \in Seq(Entry) /\ Len(Append(listTask, e)) = l + 1
    BY <1>1
  <2>3. /\ Append(listTask, e)[l + 1] = e
        /\ \A i \in 1 .. l : Append(listTask, e)[i] = listTask[i]
    BY <1>1
  <2>4. /\ DOMAIN Listed' = 1 .. b + (l + 1)
        /\ \A i \in 1 .. b : Listed'[i] = batch[i]
        /\ \A i \in b + 1 .. b + (l + 1) : Listed'[i] = Append(listTask, e)[i - b]
    <3>1. PICK q \in Seq(Entry) : q = Append(listTask, e)
      BY <2>2
    <3>2. /\ batch \o q \in Seq(Entry) /\ Len(batch \o q) = b + Len(q)
          /\ \A i \in 1 .. b + Len(q) : (batch \o q)[i] = IF i <= b THEN batch[i] ELSE q[i - b]
      BY <1>1, ConcatProperties
    <3>3. Listed' = batch \o q /\ Len(q) = l + 1
      BY <2>1, <2>2, <3>1
    <3> HIDE DEF b, l
    <3>4. Listed' \in Seq(Entry) /\ Len(Listed') = b + (l + 1)
      BY <3>2, <3>3
    <3>5. DOMAIN Listed' = 1 .. b + (l + 1)
      BY <3>4
    <3>6. \A i \in 1 .. b + (l + 1) : Listed'[i] = IF i <= b THEN batch[i] ELSE q[i - b]
      BY <3>2, <3>3
    <3>7. /\ \A i \in 1 .. b : Listed'[i] = batch[i]
          /\ \A i \in b + 1 .. b + (l + 1) : Listed'[i] = q[i - b]
      BY <1>1, <3>6
    <3> QED
      BY <3>1, <3>5, <3>7
  <2>5. Listed'[b + l + 1] = e
    <3>1. b + l + 1 \in b + 1 .. b + (l + 1) /\ (b + l + 1) - b = l + 1
      BY <1>1
    <3> QED
      BY <3>1, <2>3, <2>4
  <2>6. \A i \in 1 .. b + l : Listed'[i] = Listed[i]
    <3> SUFFICES ASSUME NEW i \in 1 .. b + l PROVE Listed'[i] = Listed[i]
      OBVIOUS
    <3>1. CASE i \in 1 .. b
      BY <3>1, <1>2, <2>4
    <3>2. CASE i \notin 1 .. b
      <4>1. i \in b + 1 .. b + l /\ i \in b + 1 .. b + (l + 1) /\ i - b \in 1 .. l
        BY <1>1, <3>2
      <4> QED
        BY <4>1, <1>2, <2>3, <2>4
    <3> QED
      BY <3>1, <3>2
  <2> HIDE DEF b, l
  <2>7. /\ b + l + 1 \in DOMAIN Listed' /\ DOMAIN Listed' \subseteq Int
        /\ \A i \in DOMAIN Listed : i < b + l + 1 /\ i \in DOMAIN Listed' /\ Listed'[i] = Listed[i]
        /\ \A i \in DOMAIN Listed' : i = b + l + 1 \/ (i < b + l + 1 /\ i \in DOMAIN Listed)
    BY <1>1, <1>2, <2>4, <2>6
  <2> QED
    BY <2>5, <2>7
<1> QED
  BY <1>3, <1>4

(* What AsyncExecutor sees of it: async puts a task behind those that      *)
(* wait, everything else changes nothing for them.                         *)
LEMMA EmplaceRefines ==
  ASSUME Types, Lined, NEW x, NEW e \in Entry, Emplace(x, e), UNCHANGED batch,
         \/ e.op # "run" /\ posted \subseteq posted'
         \/ e.op = "run" /\ e.id \in Tasks \ posted /\ posted' = posted \union {e.id}
  PROVE  /\ Lined'
         /\ Waiting' = IF e.op = "run" /\ ~e.first THEN Waiting \union {e.id} ELSE Waiting
         /\ Urgent' = IF e.op = "run" /\ e.first THEN Urgent \union {e.id} ELSE Urgent
         /\ Before' = IF e.op = "run" /\ ~e.first THEN Before \union (Waiting \X {e.id})
                      ELSE Before
<1>1. PICK k \in DOMAIN Listed' :
        /\ Listed'[k] = e /\ DOMAIN Listed' \subseteq Int
        /\ \A i \in DOMAIN Listed : i < k => i \in DOMAIN Listed' /\ Listed'[i] = Listed[i]
        /\ \A i \in DOMAIN Listed :
             ~(i < k) => i + 1 \in DOMAIN Listed' /\ Listed'[i + 1] = Listed[i]
        /\ \A i \in DOMAIN Listed' : i = k \/ (i < k /\ i \in DOMAIN Listed)
                                     \/ (i > k /\ i - 1 \in DOMAIN Listed)
        /\ ~e.first => \A i \in DOMAIN Listed : i < k
  BY Inserted
<1>2. k \in Int /\ DOMAIN Listed \subseteq Int
  BY <1>1, ListedType
<1> DEFINE Up(i) == IF i < k THEN i ELSE i + 1
           Down(i) == IF i < k THEN i ELSE i - 1
<1>3. \A i \in DOMAIN Listed : Up(i) \in DOMAIN Listed' /\ Listed'[Up(i)] = Listed[i] /\ Up(i) # k
  BY <1>1, <1>2
<1>4. \A i \in DOMAIN Listed' :
        i # k => Down(i) \in DOMAIN Listed /\ Listed'[i] = Listed[Down(i)]
  <2> SUFFICES ASSUME NEW i \in DOMAIN Listed', i # k
               PROVE  Down(i) \in DOMAIN Listed /\ Listed'[i] = Listed[Down(i)]
    OBVIOUS
  <2>1. CASE i < k
    <3>1. i \in DOMAIN Listed
      BY <2>1, <1>1, <1>2
    <3> QED
      BY <2>1, <3>1, <1>1
  <2>2. CASE ~(i < k)
    <3>1. i - 1 \in DOMAIN Listed /\ ~(i - 1 < k) /\ (i - 1) + 1 = i
      BY <2>2, <1>1, <1>2
    <3> QED
      BY <2>2, <3>1, <1>1
  <2> QED
    BY <2>1, <2>2
<1>5. \A i, j \in DOMAIN Listed : i < j => Up(i) < Up(j)
  BY <1>2
<1>6. \A i, j \in DOMAIN Listed' : i # k /\ j # k /\ i < j => Down(i) < Down(j)
  BY <1>1, <1>2
<1>7. \A i, j \in DOMAIN Listed' : i # k /\ j # k /\ Down(i) = Down(j) => i = j
  BY <1>1, <1>2
<1>8. ~e.first => \A i \in DOMAIN Listed' : ~(k < i)
  <2> SUFFICES ASSUME ~e.first, NEW i \in DOMAIN Listed', k < i PROVE FALSE
    OBVIOUS
  <2>1. i - 1 \in DOMAIN Listed /\ i \in Int
    BY <1>1, <1>2
  <2>2. i - 1 < k
    BY <2>1, <1>1
  <2> QED
    BY <2>1, <2>2, <1>2
<1> HIDE DEF Up, Down
<1>9. Listed'[k] = e
  BY <1>1
<1>10. \A i \in DOMAIN Listed : Listed[i] \in Entry
  BY ListedType
<1>11. e.op = "run" => \A i \in DOMAIN Listed : Listed[i].id # e.id
  <2> SUFFICES ASSUME e.op = "run", NEW i \in DOMAIN Listed, Listed[i].id = e.id PROVE FALSE
    OBVIOUS
  <2>1. e.id \in Tasks \ posted
    OBVIOUS
  <2>2. Listed[i].op = "run"
    BY <1>10, <2>1, EntryKinds, ConstantsAssumption
  <2> QED
    BY <2>1, <2>2 DEF Lined
<1>12. \A t \in Tasks, f \in BOOLEAN :
         (\E i \in DOMAIN Listed' : IsTask(Listed'[i], t, f))
           <=> IsTask(e, t, f) \/ \E i \in DOMAIN Listed : IsTask(Listed[i], t, f)
  BY <1>3, <1>4, <1>9
<1>13. Waiting' = IF e.op = "run" /\ ~e.first THEN Waiting \union {e.id} ELSE Waiting
  <2>1. \A t \in Tasks : t \in Waiting' <=> IsTask(e, t, FALSE) \/ t \in Waiting
    BY <1>12 DEF Waiting
  <2>2. \A t : IsTask(e, t, FALSE) <=> e.op = "run" /\ ~e.first /\ t = e.id
    BY EntryKinds DEF IsTask
  <2>3. Waiting \subseteq Tasks /\ Waiting' \subseteq Tasks
    BY DEF Waiting
  <2> QED
    BY <2>1, <2>2, <2>3
<1>14. Urgent' = IF e.op = "run" /\ e.first THEN Urgent \union {e.id} ELSE Urgent
  <2>1. \A t \in Tasks : t \in Urgent' <=> IsTask(e, t, TRUE) \/ t \in Urgent
    BY <1>12 DEF Urgent
  <2>2. \A t : IsTask(e, t, TRUE) <=> e.op = "run" /\ e.first /\ t = e.id
    BY EntryKinds DEF IsTask
  <2>3. Urgent \subseteq Tasks /\ Urgent' \subseteq Tasks
    BY DEF Urgent
  <2> QED
    BY <2>1, <2>2, <2>3
<1>15. Lined'
  <2>1. ASSUME NEW i \in DOMAIN Listed', Listed'[i].op = "run" PROVE Listed'[i].id \in posted'
    <3>1. CASE i = k
      BY <3>1, <2>1, <1>9
    <3>2. CASE i # k
      <4>1. Listed[Down(i)].id \in posted
        BY <3>2, <2>1, <1>4 DEF Lined
      <4> QED
        BY <4>1, <3>2, <1>4
    <3> QED
      BY <3>1, <3>2
  <2>2. ASSUME NEW i \in DOMAIN Listed', NEW j \in DOMAIN Listed',
               Listed'[i].op = "run", Listed'[j].id = Listed'[i].id
        PROVE  i = j
    <3>1. CASE i # k /\ j # k
      BY <3>1, <2>2, <1>4, <1>7 DEF Lined
    <3>2. CASE i = k /\ j # k
      BY <3>2, <2>2, <1>4, <1>9, <1>11
    <3>3. CASE i # k /\ j = k
      <4>1. Listed[Down(i)].id = e.id /\ Listed[Down(i)].op = "run" /\ Down(i) \in DOMAIN Listed
        BY <3>3, <2>2, <1>4, <1>9
      <4>2. e.id \in Tasks
        BY <4>1, <1>10, EntryKinds
      <4>3. e.op = "run"
        BY <4>2, EntryKinds, ConstantsAssumption
      <4> QED
        BY <4>1, <4>3, <1>11
    <3> QED
      BY <3>1, <3>2, <3>3
  <2> QED
    BY <2>1, <2>2 DEF Lined
<1>16. \A p \in Waiting \X Waiting : p \in Before' <=> p \in Before
  <2> SUFFICES ASSUME NEW p \in Waiting \X Waiting PROVE p \in Before' <=> p \in Before
    OBVIOUS
  <2>1. p \in Waiting' \X Waiting'
    BY <1>13
  <2>2. p[1] # e.id /\ p[2] # e.id
    <3>1. \A t \in Waiting : t # e.id
      <4> SUFFICES ASSUME NEW t \in Waiting, t = e.id PROVE FALSE
        OBVIOUS
      <4>1. PICK i \in DOMAIN Listed : Listed[i].id = t
        BY DEF Waiting, IsTask
      <4>2. e.op = "run"
        BY EntryKinds, ListedType, ConstantsAssumption
      <4> QED
        BY <4>1, <4>2, <1>11
    <3> QED
      BY <3>1
  <2>3. ASSUME NEW i \in DOMAIN Listed, NEW j \in DOMAIN Listed, i < j,
               Listed[i].id = p[1], Listed[j].id = p[2]
        PROVE  p \in Before'
    BY <2>1, <2>3, <1>3, <1>5 DEF Before
  <2>4. ASSUME NEW i \in DOMAIN Listed', NEW j \in DOMAIN Listed', i < j,
               Listed'[i].id = p[1], Listed'[j].id = p[2]
        PROVE  p \in Before
    <3>1. i # k /\ j # k
      BY <2>2, <2>4, <1>9
    <3> QED
      BY <2>4, <3>1, <1>4, <1>6 DEF Before
  <2> QED
    BY <2>3, <2>4 DEF Before
<1>17. CASE ~(e.op = "run" /\ ~e.first)
  <2>1. Waiting' = Waiting
    BY <1>13, <1>17
  <2>2. Before' = Before
    BY <2>1, <1>16 DEF Before
  <2> QED
    BY <1>13, <1>14, <1>15, <1>17, <2>2
<1>18. CASE e.op = "run" /\ ~e.first
  <2>1. Waiting' = Waiting \union {e.id}
    BY <1>13, <1>18
  <2>2. ASSUME NEW s \in Waiting PROVE <<s, e.id>> \in Before'
    <3>1. PICK i \in DOMAIN Listed : Listed[i].id = s
      BY DEF Waiting, IsTask
    <3>2. Up(i) < k
      BY <1>1, <1>18 DEF Up
    <3> QED
      BY <3>1, <3>2, <2>1, <1>3, <1>9 DEF Before
  <2>3. ASSUME NEW p \in Before', p \notin Waiting \X Waiting PROVE p \in Waiting \X {e.id}
    <3>1. PICK i \in DOMAIN Listed', j \in DOMAIN Listed' :
              i < j /\ Listed'[i].id = p[1] /\ Listed'[j].id = p[2]
      BY DEF Before
    <3>2. p \in Waiting' \X Waiting'
      BY DEF Before
    <3>3. i # k
      BY <3>1, <1>8, <1>18
    <3>4. p[1] # e.id
      BY <3>1, <3>3, <1>4, <1>11, <1>18
    <3> QED
      BY <2>1, <2>3, <3>2, <3>4
  <2>4. Before \subseteq Waiting \X Waiting
    BY DEF Before
  <2>5. Before' = Before \union (Waiting \X {e.id})
    BY <2>2, <2>3, <2>4, <1>16
  <2> QED
    BY <1>13, <1>14, <1>15, <1>18, <2>5
<1> QED
  BY <1>17, <1>18

(* The turn of the first entry. *)
LEMMA TurnRefines ==
  ASSUME Types, Lined, batch # <<>>, batch' = Tail(batch), UNCHANGED <<listTask, posted>>
  PROVE  LET e == Head(batch) IN
         /\ Lined'
         /\ IsTask(e, e.id, FALSE) =>
              e.id \in Waiting /\ \A s \in Waiting : <<s, e.id>> \notin Before
         /\ Waiting' = IF IsTask(e, e.id, FALSE) THEN Waiting \ {e.id} ELSE Waiting
         /\ Before' = IF IsTask(e, e.id, FALSE) THEN {p \in Before : p[1] # e.id} ELSE Before
         /\ IsTask(e, e.id, TRUE) => e.id \in Urgent
         /\ Urgent' = IF IsTask(e, e.id, TRUE) THEN Urgent \ {e.id} ELSE Urgent
<1> DEFINE e == Head(batch)
<1>1. /\ batch \in Seq(Entry) /\ listTask \in Seq(Entry) /\ Len(batch) \in Nat /\ Len(batch) > 0
      /\ Len(listTask) \in Nat
  BY DEF Types
<1>2. /\ Listed \in Seq(Entry) /\ Listed # <<>> /\ Listed' = Tail(Listed) /\ Listed[1] = e
  <2>1. Listed \in Seq(Entry) /\ Len(Listed) = Len(batch) + Len(listTask) /\ Listed[1] = batch[1]
    BY <1>1 DEF Listed
  <2>2. Tail(batch) \o listTask = Tail(batch \o listTask)
    BY <1>1
  <2> QED
    BY <1>1, <2>1, <2>2 DEF Listed
<1> HIDE DEF e
<1>3. /\ DOMAIN Listed \subseteq Int /\ 1 \in DOMAIN Listed /\ DOMAIN Listed' \subseteq Int
      /\ \A i \in DOMAIN Listed : ~(i < 1)
      /\ \A i \in DOMAIN Listed :
           i # 1 => i - 1 \in DOMAIN Listed' /\ Listed'[i - 1] = Listed[i]
      /\ \A i \in DOMAIN Listed' :
           i + 1 \in DOMAIN Listed /\ i + 1 # 1 /\ Listed'[i] = Listed[i + 1]
  <2>1. /\ Len(Listed) \in Nat /\ Len(Listed) > 0 /\ DOMAIN Listed = 1 .. Len(Listed)
        /\ DOMAIN Listed' = 1 .. Len(Listed) - 1
        /\ \A i \in 1 .. Len(Listed) - 1 : Listed'[i] = Listed[i + 1]
    BY <1>2
  <2> QED
    BY <2>1
<1>4. \A i \in DOMAIN Listed : Listed[i] \in Entry
  BY <1>2
<1>5. e \in Entry
  BY <1>2, <1>3, <1>4
<1>6. e.op = "run" => \A i \in DOMAIN Listed : i # 1 => Listed[i].id # e.id
  BY <1>2, <1>3 DEF Lined
<1>7. Lined'
  <2>1. ASSUME NEW i \in DOMAIN Listed', Listed'[i].op = "run" PROVE Listed'[i].id \in posted'
    BY <2>1, <1>3 DEF Lined
  <2>2. ASSUME NEW i \in DOMAIN Listed', NEW j \in DOMAIN Listed',
               Listed'[i].op = "run", Listed'[j].id = Listed'[i].id
        PROVE  i = j
    <3>1. i + 1 = j + 1
      BY <2>2, <1>3 DEF Lined
    <3> QED
      BY <3>1, <1>3
  <2> QED
    BY <2>1, <2>2 DEF Lined
<1>8. \A t \in Tasks, f \in BOOLEAN :
         (\E i \in DOMAIN Listed' : IsTask(Listed'[i], t, f))
           <=> ~IsTask(e, t, f) /\ \E i \in DOMAIN Listed : IsTask(Listed[i], t, f)
  <2> SUFFICES ASSUME NEW t \in Tasks, NEW f \in BOOLEAN
               PROVE  (\E i \in DOMAIN Listed' : IsTask(Listed'[i], t, f))
                 <=> ~IsTask(e, t, f) /\ \E i \in DOMAIN Listed : IsTask(Listed[i], t, f)
    OBVIOUS
  <2>1. ASSUME NEW i \in DOMAIN Listed', IsTask(Listed'[i], t, f)
        PROVE  ~IsTask(e, t, f) /\ \E m \in DOMAIN Listed : IsTask(Listed[m], t, f)
    <3>1. i + 1 \in DOMAIN Listed /\ i + 1 # 1 /\ IsTask(Listed[i + 1], t, f)
      BY <2>1, <1>3
    <3> QED
      BY <3>1, <1>6 DEF IsTask
  <2>2. ASSUME ~IsTask(e, t, f), NEW i \in DOMAIN Listed, IsTask(Listed[i], t, f)
        PROVE  \E m \in DOMAIN Listed' : IsTask(Listed'[m], t, f)
    <3>1. i # 1
      BY <2>2, <1>2
    <3>2. i - 1 \in DOMAIN Listed' /\ Listed'[i - 1] = Listed[i]
      BY <3>1, <1>3
    <3> QED
      BY <2>2, <3>2
  <2> QED
    BY <2>1, <2>2
<1>9. IsTask(e, e.id, FALSE) => e.id \in Waiting
  BY <1>2, <1>3, <1>5, EntryKinds DEF Waiting, IsTask
<1>10. IsTask(e, e.id, TRUE) => e.id \in Urgent
  BY <1>2, <1>3, <1>5, EntryKinds DEF Urgent, IsTask
<1>11. Waiting' = IF IsTask(e, e.id, FALSE) THEN Waiting \ {e.id} ELSE Waiting
  <2>1. \A t \in Tasks : t \in Waiting' <=> ~IsTask(e, t, FALSE) /\ t \in Waiting
    BY <1>8 DEF Waiting
  <2>2. \A t : IsTask(e, t, FALSE) <=> IsTask(e, e.id, FALSE) /\ t = e.id
    BY DEF IsTask
  <2>3. Waiting \subseteq Tasks /\ Waiting' \subseteq Tasks
    BY DEF Waiting
  <2> QED
    BY <2>1, <2>2, <2>3
<1>12. Urgent' = IF IsTask(e, e.id, TRUE) THEN Urgent \ {e.id} ELSE Urgent
  <2>1. \A t \in Tasks : t \in Urgent' <=> ~IsTask(e, t, TRUE) /\ t \in Urgent
    BY <1>8 DEF Urgent
  <2>2. \A t : IsTask(e, t, TRUE) <=> IsTask(e, e.id, TRUE) /\ t = e.id
    BY DEF IsTask
  <2>3. Urgent \subseteq Tasks /\ Urgent' \subseteq Tasks
    BY DEF Urgent
  <2> QED
    BY <2>1, <2>2, <2>3
<1>13. ASSUME IsTask(e, e.id, FALSE), NEW s, <<s, e.id>> \in Before PROVE FALSE
  <2>1. PICK i \in DOMAIN Listed, j \in DOMAIN Listed : i < j /\ Listed[j].id = e.id
    BY <1>13 DEF Before
  <2>2. j # 1
    BY <2>1, <1>3
  <2> QED
    BY <2>1, <2>2, <1>6, <1>13 DEF IsTask
<1>14. ~IsTask(e, e.id, FALSE) => e.id \notin Waiting
  <2> SUFFICES ASSUME ~IsTask(e, e.id, FALSE), e.id \in Waiting PROVE FALSE
    OBVIOUS
  <2>1. PICK i \in DOMAIN Listed : IsTask(Listed[i], e.id, FALSE)
    BY DEF Waiting
  <2>2. e.op = "run"
    BY <1>5, EntryKinds, ConstantsAssumption DEF Waiting
  <2>3. i = 1
    BY <2>1, <2>2, <1>6 DEF IsTask
  <2> QED
    BY <2>1, <2>3, <1>2
<1>15. Before' = {p \in Before : p[1] # e.id}
  <2>1. ASSUME NEW p \in Before' PROVE p \in Before /\ p[1] # e.id
    <3>1. PICK i \in DOMAIN Listed', j \in DOMAIN Listed' :
              i < j /\ Listed'[i].id = p[1] /\ Listed'[j].id = p[2]
      BY DEF Before
    <3>2. p \in Waiting' \X Waiting'
      BY DEF Before
    <3>3. /\ i + 1 \in DOMAIN Listed /\ j + 1 \in DOMAIN Listed /\ i + 1 < j + 1 /\ i + 1 # 1
          /\ Listed[i + 1].id = p[1] /\ Listed[j + 1].id = p[2]
      BY <3>1, <1>3
    <3>4. p \in Waiting \X Waiting
      BY <3>2, <1>11
    <3>5. p[1] # e.id
      BY <3>2, <1>11, <1>14
    <3> QED
      BY <3>3, <3>4, <3>5 DEF Before
  <2>2. ASSUME NEW p \in Before, p[1] # e.id PROVE p \in Before'
    <3>1. PICK i \in DOMAIN Listed, j \in DOMAIN Listed :
              i < j /\ Listed[i].id = p[1] /\ Listed[j].id = p[2]
      BY DEF Before
    <3>2. i # 1 /\ j # 1
      BY <2>2, <3>1, <1>2, <1>3
    <3>3. /\ i - 1 \in DOMAIN Listed' /\ j - 1 \in DOMAIN Listed' /\ i - 1 < j - 1
          /\ Listed'[i - 1].id = p[1] /\ Listed'[j - 1].id = p[2]
      BY <3>1, <3>2, <1>3
    <3>4. IsTask(e, e.id, FALSE) => p[2] # e.id
      BY <3>1, <3>2, <1>6 DEF IsTask
    <3>5. p \in Waiting' \X Waiting'
      BY <2>2, <3>4, <1>11 DEF Before
    <3> QED
      BY <3>3, <3>5 DEF Before
  <2> QED
    BY <2>1, <2>2
<1>16. ~IsTask(e, e.id, FALSE) => {p \in Before : p[1] # e.id} = Before
  BY <1>14 DEF Before
<1> QED
  BY <1>7, <1>9, <1>10, <1>11, <1>12, <1>13, <1>15, <1>16 DEF e

Refined == IInv /\ Placed /\ Lined

(* AsyncExecutor sees the lists, the ledger and the end of the promise.    *)
LEMMA Unseen ==
  ASSUME UNCHANGED <<Waiting, Before, Urgent>>, posted' \intersect Tasks = posted \intersect Tasks,
         ran' \intersect Tasks = ran \intersect Tasks, cancelled' = cancelled,
         (owner' = "final") = (owner = "final")
  PROVE  UNCHANGED Executor!vars
BY DEF Executor!vars

LEMMA ListsKept ==
  ASSUME UNCHANGED Listed
  PROVE  UNCHANGED <<Waiting, Before, Urgent>>
<1>1. Waiting' = Waiting
  BY DEF Waiting
<1> QED
  BY <1>1 DEF Before, Urgent

LEMMA SwapKeeps ==
  ASSUME Types, PlacesUsed, SwapList
  PROVE  UNCHANGED Listed
<1>1. batch = <<>> /\ batch' = listTask /\ listTask' = <<>> /\ listTask \in Seq(Entry)
  BY DEF SwapList, PlacesUsed, Types
<1> QED
  BY <1>1, ConcatEmptySeq DEF Listed

(* Every step keeps the line and is one of AsyncExecutor, or none.         *)
LEMMA StepRefines ==
  ASSUME Refined, [Next]_vars
  PROVE  Lined' /\ [Executor!Next]_(Executor!vars)
<1> DEFINE Goal == Lined' /\ [Executor!Next]_(Executor!vars)
<1> SUFFICES Goal
  OBVIOUS
<1>t. Types /\ PlacesUsed /\ Lined /\ PollerThread \in Threads
  BY DEF Refined, IInv, Placed, PollerThread, Threads
<1>c. Tasks \intersect DelayTasks = {} /\ Cancelable \subseteq Tasks \union DelayTasks
  BY ConstantsAssumption
<1>1. ASSUME NEW x \in Threads, NEW t \in Tasks \ posted, NEW first \in BOOLEAN,
             Emplace(x, TaskEntry(x, t, first)), posted' = posted \union {t},
             UNCHANGED <<batch, ran, cancelled, owner>>
      PROVE  Goal
  <2> DEFINE e == TaskEntry(x, t, first)
  <2>1. e \in Entry /\ e.op = "run" /\ e.id = t /\ e.first = first
    BY EntryTypeRun DEF TaskEntry
  <2> HIDE DEF e
  <2>2. Emplace(x, e)
    BY <1>1 DEF e
  <2>3. /\ Lined'
        /\ Waiting' = IF ~first THEN Waiting \union {t} ELSE Waiting
        /\ Urgent' = IF first THEN Urgent \union {t} ELSE Urgent
        /\ Before' = IF ~first THEN Before \union (Waiting \X {t}) ELSE Before
    BY <1>t, <1>1, <2>1, <2>2, EmplaceRefines
  <2>4. t \in Tasks \ (posted \intersect Tasks)
        /\ posted' \intersect Tasks = (posted \intersect Tasks) \union {t}
    BY <1>1
  <2>5. CASE first
    <3>1. Executor!AsyncFirst(t)
      BY <1>1, <2>3, <2>4, <2>5 DEF Executor!AsyncFirst
    <3> QED
      BY <2>3, <3>1 DEF Executor!Next
  <2>6. CASE ~first
    <3>1. Executor!Async(t)
      BY <1>1, <2>3, <2>4, <2>6 DEF Executor!Async
    <3> QED
      BY <2>3, <3>1 DEF Executor!Next
  <2> QED
    BY <2>5, <2>6
<1>2. ASSUME NEW x \in Threads, NEW e \in Entry, e.op # "run", Emplace(x, e),
             posted \subseteq posted', posted' \intersect Tasks = posted \intersect Tasks,
             UNCHANGED <<batch, ran, cancelled>>, (owner' = "final") = (owner = "final")
      PROVE  Goal
  <2>1. Lined' /\ UNCHANGED <<Waiting, Before, Urgent>>
    BY <1>t, <1>2, EmplaceRefines
  <2> QED
    BY <1>2, <2>1, Unseen
<1>3. ASSUME UNCHANGED Listed, posted \subseteq posted' PROVE Lined'
  BY <1>t, <1>3 DEF Lined
<1>4. ASSUME UNCHANGED <<Listed, cancelled>>, posted \subseteq posted',
             posted' \intersect Tasks = posted \intersect Tasks,
             ran' \intersect Tasks = ran \intersect Tasks, (owner' = "final") = (owner = "final")
      PROVE  Goal
  BY <1>3, <1>4, ListsKept, Unseen
<1>5. ASSUME NEW t \in Tasks, NEW first \in BOOLEAN, BodyAsync(t, first)
      PROVE  Goal
  BY <1>1, <1>5, <1>t DEF BodyAsync
<1>6. ASSUME NEW p \in Producers, NEW t \in Tasks, NEW first \in BOOLEAN, Async(p, t, first)
      PROVE  Goal
  BY <1>1, <1>6 DEF Async, Threads
<1>7. ASSUME NEW p \in Producers, NEW d \in DelayTasks, NEW delay \in Nat,
             DoDelayTask(p, d, delay)
      PROVE  Goal
  <2>1. /\ Emplace(p, DelayEntry(p, d, delay)) /\ clock + delay \in 0 .. MaxTime
        /\ posted' = posted \union {d} /\ UNCHANGED <<batch, ran, cancelled, owner>>
    BY <1>7, <1>t, ConstantsAssumption DEF DoDelayTask, Types
  <2>2. DelayEntry(p, d, delay) \in Entry /\ DelayEntry(p, d, delay).op # "run"
    BY <2>1, EntryTypeDelay DEF DelayEntry, Threads
  <2>3. p \in Threads /\ posted' \intersect Tasks = posted \intersect Tasks
    BY <2>1, <1>c DEF Threads
  <2> QED
    BY <1>2, <2>1, <2>2, <2>3
<1>8. CASE Shutdown
  <2>1. ExitEntry \in Entry /\ ExitEntry.op # "run" /\ Owner \in Threads
    BY EntryTypeExit DEF ExitEntry, Threads
  <2>2. (owner' = "final") = (owner = "final")
    BY <1>8 DEF Shutdown
  <2> QED
    BY <1>2, <1>8, <2>1, <2>2 DEF Shutdown
<1>9. ASSUME NEW t \in Tasks, BodyInline(t)
      PROVE  Goal
  <2>1. /\ t \in Tasks \ posted /\ posted' = posted \union {t} /\ ran' = ran \union {t}
        /\ UNCHANGED <<batch, listTask, cancelled, owner>>
    BY <1>9 DEF BodyInline
  <2>2. UNCHANGED Listed
    BY <2>1 DEF Listed
  <2>3. UNCHANGED <<Waiting, Before, Urgent>>
    BY <2>2, ListsKept
  <2>4. Executor!CallInline(t)
    BY <2>1, <2>3 DEF Executor!CallInline
  <2> QED
    BY <1>3, <2>1, <2>2, <2>4 DEF Executor!Next
<1>10. ASSUME NEW d \in DelayTasks, NEW delay \in Nat, BodyDelay(d, delay)
       PROVE  Goal
  <2>1. UNCHANGED <<Listed, cancelled, ran, owner>> /\ posted' = posted \union {d}
    BY <1>10 DEF BodyDelay, Listed
  <2>2. posted' \intersect Tasks = posted \intersect Tasks
    BY <2>1, <1>c
  <2> QED
    BY <1>4, <2>1, <2>2
<1>11. ASSUME NEW r \in taskCopy, FlushOne(r)
       PROVE  Goal
  <2>1. /\ UNCHANGED <<Listed, cancelled, posted, owner>>
        /\ ran' = ran \/ ran' = ran \union {r.id}
    BY <1>11 DEF FlushOne, Listed
  <2>2. r.id \in DelayTasks
    BY <1>t DEF Types, Delayed
  <2>3. ran' \intersect Tasks = ran \intersect Tasks
    BY <2>1, <2>2, <1>c
  <2> QED
    BY <1>4, <2>1, <2>3
<1>12. ASSUME NEW t \in Cancelable, Cancel(t)
       PROVE  Goal
  <2>1. /\ t \in posted /\ cancelled' = cancelled \union {t}
        /\ UNCHANGED <<batch, listTask, posted, ran, owner>>
    BY <1>12 DEF Cancel
  <2>2. UNCHANGED Listed
    BY <2>1 DEF Listed
  <2>3. UNCHANGED <<Waiting, Before, Urgent>> /\ Lined'
    BY <1>3, <2>1, <2>2, ListsKept
  <2>4. CASE t \in Tasks
    <3>1. Executor!Cancel(t)
      BY <2>1, <2>3, <2>4 DEF Executor!Cancel
    <3> QED
      BY <2>3, <2>4, <3>1 DEF Executor!Next
  <2>5. CASE t \notin Tasks
    <3>1. cancelled' \intersect Tasks = cancelled \intersect Tasks
      BY <2>1, <2>5
    <3>2. UNCHANGED Executor!vars
      BY <2>1, <2>3, <3>1 DEF Executor!vars
    <3> QED
      BY <2>3, <3>2
  <2> QED
    BY <2>4, <2>5
<1>13. CASE RunNext
  <2> DEFINE e == Head(batch)
  <2>1. /\ batch # <<>> /\ batch' = Tail(batch) /\ UNCHANGED <<listTask, posted, cancelled, owner>>
        /\ \/ e.op # "run" /\ ran' = ran
           \/ e.op = "run" /\ ran' = IF e.id \in cancelled THEN ran ELSE ran \union {e.id}
    BY <1>13 DEF RunNext
  <2>2. /\ Lined'
        /\ IsTask(e, e.id, FALSE) =>
             e.id \in Waiting /\ \A s \in Waiting : <<s, e.id>> \notin Before
        /\ Waiting' = IF IsTask(e, e.id, FALSE) THEN Waiting \ {e.id} ELSE Waiting
        /\ Before' = IF IsTask(e, e.id, FALSE) THEN {p \in Before : p[1] # e.id} ELSE Before
        /\ IsTask(e, e.id, TRUE) => e.id \in Urgent
        /\ Urgent' = IF IsTask(e, e.id, TRUE) THEN Urgent \ {e.id} ELSE Urgent
    BY <1>t, <2>1, TurnRefines
  <2>3. e \in Entry
    BY <1>t, <2>1 DEF Types
  <2> HIDE DEF e
  <2>4. CASE e.op # "run"
    <3>1. UNCHANGED <<Waiting, Before, Urgent, ran>>
      BY <2>1, <2>2, <2>4 DEF IsTask
    <3> QED
      BY <2>1, <2>2, <3>1, Unseen
  <2>5. CASE e.op = "run"
    <3> DEFINE t == e.id
    <3>1. t \in Tasks /\ e.first \in BOOLEAN
      BY <2>3, <2>5, EntryKinds
    <3>2. ran' \intersect Tasks = IF t \in cancelled \intersect Tasks THEN ran \intersect Tasks
                                  ELSE (ran \intersect Tasks) \union {t}
      BY <2>1, <2>5, <3>1
    <3>3. CASE e.first
      <4>1. IsTask(e, t, TRUE) /\ ~IsTask(e, t, FALSE)
        BY <2>5, <3>1, <3>3 DEF IsTask
      <4> HIDE DEF t
      <4>2. Executor!TurnOfUrgent(t)
        BY <2>1, <2>2, <3>2, <4>1 DEF Executor!TurnOfUrgent, Executor!Turn, t
      <4> QED
        BY <2>2, <3>1, <4>2 DEF Executor!Next
    <3>4. CASE ~e.first
      <4>1. ~IsTask(e, t, TRUE) /\ IsTask(e, t, FALSE)
        BY <2>5, <3>1, <3>4 DEF IsTask
      <4> HIDE DEF t
      <4>2. Executor!TurnOfWaiting(t)
        BY <2>1, <2>2, <3>2, <4>1 DEF Executor!TurnOfWaiting, Executor!Turn, t
      <4> QED
        BY <2>2, <3>1, <4>2 DEF Executor!Next
    <3> QED
      BY <3>3, <3>4
  <2> QED
    BY <2>4, <2>5
<1>14. CASE Join
  <2>1. owner' = "final" /\ owner # "final" /\ UNCHANGED <<batch, listTask, posted, ran, cancelled>>
    BY <1>14 DEF Join
  <2>2. UNCHANGED Listed
    BY <2>1 DEF Listed
  <2>3. UNCHANGED <<Waiting, Before, Urgent>> /\ Lined'
    BY <1>3, <2>1, <2>2, ListsKept
  <2>4. Executor!Close
    BY <2>1, <2>3 DEF Executor!Close
  <2> QED
    BY <2>3, <2>4 DEF Executor!Next
<1>15. CASE SwapList
  <2>1. UNCHANGED <<Listed, posted, ran, cancelled, owner>>
    BY <1>15, <1>t, SwapKeeps DEF SwapList
  <2> QED
    BY <1>4, <2>1
<1>16. ASSUME UNCHANGED <<batch, listTask, posted, ran, cancelled, owner>>
       PROVE  Goal
  BY <1>4, <1>16 DEF Listed
<1>17. CASE \/ BodyReturns \/ \E next_delay \in Nat : DelayTaskReturns(next_delay)
  BY <1>16, <1>17 DEF BodyReturns, DelayTaskReturns
<1>18. CASE ExitLoop \/ Sleep \/ BeginFlush \/ EndFlush \/ EndBatch
  BY <1>16, <1>18 DEF ExitLoop, Sleep, BeginFlush, EndFlush, EndBatch
<1>19. CASE WaitReturns \/ WaitTimesOut \/ WaitInterrupted \/ Dispatch \/ ReadPipe
  BY <1>16, <1>19 DEF WaitReturns, WaitTimesOut, WaitInterrupted, Dispatch, ReadPipe
<1>20. CASE \/ \E x \in Threads : WritePipe(x)
            \/ \E p \in Producers : Release(p)
            \/ Tick \/ IoArrives \/ UNCHANGED vars
  BY <1>16, <1>20 DEF WritePipe, Release, Tick, IoArrives, vars
<1> HIDE DEF Goal
<1> QED
  BY <1>5, <1>6, <1>7, <1>8, <1>9, <1>10, <1>11, <1>12, <1>13, <1>14, <1>15, <1>17, <1>18, <1>19,
     <1>20, NextCases

LEMMA RefinedHolds == Spec => []Refined
<1>1. Init => Lined
  <2> SUFFICES ASSUME Init PROVE Lined
    OBVIOUS
  <2>1. Listed = <<>> /\ DOMAIN <<>> = {}
    BY DEF Init, Listed
  <2> QED
    BY <2>1 DEF Lined
<1>2. Refined /\ [Next]_vars => Lined'
  BY StepRefines
<1> QED
  BY <1>1, <1>2, IInvHolds, PlacedHolds, PTL DEF Spec, Refined

(* EventPoller::async and async_first (186-213) do nothing that            *)
(* AsyncExecutor does not allow, however the two lists are swapped: no     *)
(* task starts twice, before one that was handed over earlier with async,  *)
(* or after its cancel.                                                    *)
THEOREM ExecutorRefined == Spec => Executor!Safety
<1>1. Init => Executor!Init
  <2> SUFFICES ASSUME Init PROVE Executor!Init
    OBVIOUS
  <2>1. Listed = <<>> /\ DOMAIN <<>> = {}
    BY DEF Init, Listed
  <2>2. Waiting = {} /\ Urgent = {}
    BY <2>1 DEF Waiting, Urgent
  <2>3. Before = {}
    BY <2>2 DEF Before
  <2> QED
    BY <2>2, <2>3 DEF Init, Executor!Init
<1>2. Refined /\ [Next]_vars => [Executor!Next]_(Executor!vars)
  BY StepRefines
<1> QED
  BY <1>1, <1>2, RefinedHolds, PTL DEF Spec, Executor!Safety
=============================================================================
