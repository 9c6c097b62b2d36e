------------------------ MODULE SocketConnectProofs ------------------------
(***************************************************************************)
(* Theorems about SocketConnect, for any number of calls of connect and of *)
(* threads that report errors.                                             *)
(***************************************************************************)
EXTENDS SocketConnect, SequenceTheorems, TLAPS

USE ConstantsAssumption

(***************************************************************************)
(* The inductive invariant.                                                *)
(***************************************************************************)
HasTask(op, a) == \E i \in DOMAIN queue : queue[i].op = op /\ queue[i].a = a
HasFrame(at, a) == \E i \in DOMAIN stack : stack[i].at = at /\ stack[i].a = a

Early == {"name", "ip", "resolved"}

(* What is asked for, or with the resolver's answer, is asked for once.    *)
TasksOnce ==
  \A i, j \in DOMAIN queue :
    queue[i].op \in Early /\ queue[j].op \in Early /\ queue[i].a = queue[j].a => i = j

(* An attempt that connect_l has not begun has left no trace.              *)
NotBegun(a) == calls < a \/ HasTask("name", a) \/ HasTask("ip", a)

Untouched(a) ==
  /\ a \notin resolving /\ ~HasTask("resolved", a) /\ ~HasTask("gone", a)
  /\ \A i \in DOMAIN stack : stack[i].a # a
  /\ sockFd # a /\ conTimer # a /\ answers[a] = 0

(* A descriptor is on its way to the socket at one place at most, then the *)
(* socket's, then on its way out.                                          *)
OnePhase ==
  \A a \in Attempts :
    /\ calls < a => ~HasTask("name", a) /\ ~HasTask("ip", a)
    /\ NotBegun(a) => Untouched(a)
    /\ a \in resolving => ~HasTask("resolved", a) /\ ~HasFrame("resolved", a)
    /\ HasTask("resolved", a) => ~HasFrame("resolved", a)
    /\ a \in resolving \/ HasTask("resolved", a) \/ HasFrame("resolved", a)
         => sockFd # a /\ ~HasTask("gone", a)
    /\ HasTask("gone", a) => sockFd # a

(* Events, timers and answers of the resolver begin on an empty stack; the *)
(* frame that keeps an event's descriptor is the outermost.                *)
StackShape ==
  \A i \in DOMAIN stack :
    /\ stack[i].at \in {"resolved", "event", "timeout"} => i = 1 /\ Len(stack) = 1
    /\ stack[i].at = "answered" => i = Len(stack)

(* Whoever will answer an attempt: it is the one begun last, and has no    *)
(* answer yet; or it failed inside connect_l and has that answer.          *)
Unanswered(a) == a = current /\ answers[a] = 0
Late(a) == answers[a] <= 1 /\ (a \in atOnce \/ Unanswered(a))

FramesFresh ==
  \A i \in DOMAIN stack :
    /\ stack[i].at \in {"resolved", "event"} => Unanswered(stack[i].a)
    /\ stack[i].at \in {"arm", "timeout"} => Late(stack[i].a)
    /\ stack[i].at = "arm" /\ i > 1 => stack[i].a \in atOnce

MembersFresh ==
  /\ asyncConCb # None => Unanswered(asyncConCb)
  /\ conTimer # None => Late(conTimer)
  /\ sockFd # None => sockFd = current /\ (fd[sockFd] = "watched" => answers[sockFd] = 0)
  /\ closing # {} => current # None

IInv ==
  /\ TypeOK /\ TasksOnce /\ OnePhase /\ StackShape /\ FramesFresh /\ MembersFresh
  /\ DescriptorsOwned

Tasks == [op : {"name", "ip", "resolved", "gone"}, a : Attempts, ok : BOOLEAN]
Frames == [at : {"arm", "callback", "resolved", "event", "answered", "timeout"}, a : Attempts]

(***************************************************************************)
(* The queue.                                                              *)
(***************************************************************************)
Holds(u) == \E i \in DOMAIN queue : queue[i] = u

LEMMA QueueType ==
  ASSUME TypeOK
  PROVE  /\ queue \in Seq(Tasks) /\ Len(queue) \in Nat /\ DOMAIN queue = 1 .. Len(queue)
         /\ \A i \in DOMAIN queue : queue[i] \in Tasks
<1>1. queue \in Seq(Tasks)
  BY DEF TypeOK, Tasks
<1> QED
  BY <1>1, LenProperties, ElementOfSeq

(* A task is added that asks for something new, or for nothing.            *)
LEMMA Enqueue ==
  ASSUME TypeOK, TasksOnce, NEW t \in Tasks, queue' = Append(queue, t),
         t.op \in Early => \A op \in Early : ~HasTask(op, t.a)
  PROVE  /\ queue' \in Seq(Tasks) /\ TasksOnce'
         /\ \A u : Holds(u)' <=> Holds(u) \/ u = t
         /\ \A op, b : HasTask(op, b)' <=> HasTask(op, b) \/ (t.op = op /\ t.a = b)
<1>1. /\ queue' \in Seq(Tasks) /\ DOMAIN queue' = 1 .. Len(queue) + 1
      /\ \A i \in 1 .. Len(queue) : queue'[i] = queue[i]
      /\ queue'[Len(queue) + 1] = t
  BY QueueType, AppendProperties
<1>2. 1 .. Len(queue) + 1 = (1 .. Len(queue)) \union {Len(queue) + 1}
  BY QueueType
<1>3. \A u : Holds(u)' <=> Holds(u) \/ u = t
  BY <1>1, <1>2, QueueType DEF Holds
<1>4. \A op, b : HasTask(op, b)' <=> HasTask(op, b) \/ (t.op = op /\ t.a = b)
  BY <1>1, <1>2, QueueType DEF HasTask
<1>5. TasksOnce'
  BY <1>1, <1>2, QueueType DEF TasksOnce, HasTask
<1> QED
  BY <1>1, <1>3, <1>4, <1>5

(* The first task is taken out.                                            *)
LEMMA Dequeue ==
  ASSUME TypeOK, TasksOnce, queue # <<>>, queue' = Tail(queue)
  PROVE  /\ queue' \in Seq(Tasks) /\ TasksOnce' /\ Head(queue) \in Tasks
         /\ HasTask(Head(queue).op, Head(queue).a) /\ Holds(Head(queue))
         /\ \A u : Holds(u)' => Holds(u)
         /\ \A u : Holds(u) => Holds(u)' \/ u = Head(queue)
         /\ \A op, b : HasTask(op, b)' => HasTask(op, b)
         /\ \A op, b : HasTask(op, b) =>
              HasTask(op, b)' \/ (op = Head(queue).op /\ b = Head(queue).a)
         /\ Head(queue).op \in Early =>
              \A op \in Early, b \in Attempts : b = Head(queue).a => ~HasTask(op, b)'
<1>1. /\ queue' \in Seq(Tasks) /\ Len(queue) > 0 /\ DOMAIN queue' = 1 .. Len(queue) - 1
      /\ \A i \in 1 .. Len(queue) - 1 : queue'[i] = queue[i + 1]
      /\ Head(queue) = queue[1] /\ Head(queue) \in Tasks
  BY QueueType, HeadTailProperties, EmptySeq, LenProperties
<1>2. \A i \in DOMAIN queue' : i + 1 \in DOMAIN queue /\ queue'[i] = queue[i + 1] /\ i + 1 # 1
  BY <1>1, QueueType
<1>3. \A i \in DOMAIN queue : i = 1 \/ (i - 1 \in DOMAIN queue' /\ queue'[i - 1] = queue[i])
  <2> SUFFICES ASSUME NEW i \in DOMAIN queue, i # 1
               PROVE  i - 1 \in DOMAIN queue' /\ queue'[i - 1] = queue[i]
    OBVIOUS
  <2>1. i - 1 \in 1 .. Len(queue) - 1 /\ (i - 1) + 1 = i
    BY QueueType
  <2> QED
    BY <2>1, <1>1
<1>4. 1 \in DOMAIN queue
  BY <1>1, QueueType
<1>5. HasTask(Head(queue).op, Head(queue).a) /\ Holds(Head(queue))
  BY <1>1, <1>4 DEF HasTask, Holds
<1>6. \A u : (Holds(u)' => Holds(u)) /\ (Holds(u) => Holds(u)' \/ u = Head(queue))
  BY <1>1, <1>2, <1>3, ZenonT(40) DEF Holds
<1>7. \A op, b : /\ HasTask(op, b)' => HasTask(op, b)
                 /\ HasTask(op, b) =>
                      HasTask(op, b)' \/ (op = Head(queue).op /\ b = Head(queue).a)
  <2> SUFFICES ASSUME NEW op, NEW b
               PROVE  /\ HasTask(op, b)' => HasTask(op, b)
                      /\ HasTask(op, b) =>
                           HasTask(op, b)' \/ (op = Head(queue).op /\ b = Head(queue).a)
    OBVIOUS
  <2>1. HasTask(op, b)' => HasTask(op, b)
    BY <1>2 DEF HasTask
  <2>2. ASSUME HasTask(op, b), ~(op = Head(queue).op /\ b = Head(queue).a)
        PROVE  HasTask(op, b)'
    <3>1. PICK i \in DOMAIN queue : queue[i].op = op /\ queue[i].a = b
      BY <2>2 DEF HasTask
    <3>2. i - 1 \in DOMAIN queue' /\ queue'[i - 1] = queue[i]
      BY <3>1, <2>2, <1>1, <1>3
    <3> QED
      BY <3>1, <3>2 DEF HasTask
  <2> QED
    BY <2>1, <2>2
<1>8. TasksOnce'
  <2> SUFFICES ASSUME NEW i \in DOMAIN queue', NEW j \in DOMAIN queue',
                      queue'[i].op \in Early, queue'[j].op \in Early, queue'[i].a = queue'[j].a
               PROVE  i = j
    BY DEF TasksOnce, Early
  <2>1. i + 1 = j + 1
    BY <1>2 DEF TasksOnce
  <2> QED
    BY <2>1, <1>1, QueueType
<1>9. Head(queue).op \in Early =>
        \A op \in Early, b \in Attempts : b = Head(queue).a => ~HasTask(op, b)'
  BY <1>1, <1>2, <1>4 DEF TasksOnce, HasTask
<1> QED
  BY <1>1, <1>5, <1>6, <1>7, <1>8, <1>9

(***************************************************************************)
(* The stack.                                                              *)
(***************************************************************************)
LEMMA StackType ==
  ASSUME TypeOK
  PROVE  /\ stack \in Seq(Frames) /\ Len(stack) \in Nat /\ DOMAIN stack = 1 .. Len(stack)
         /\ \A i \in DOMAIN stack : stack[i] \in Frames
         /\ stack # <<>> => 1 \in DOMAIN stack /\ Head(stack) = stack[1]
<1>1. stack \in Seq(Frames)
  BY DEF TypeOK, Frames
<1>2. Len(stack) \in Nat /\ DOMAIN stack = 1 .. Len(stack)
  BY <1>1, LenProperties
<1>3. ASSUME stack # <<>> PROVE 1 \in DOMAIN stack /\ Head(stack) = stack[1]
  BY <1>1, <1>2, <1>3, EmptySeq, HeadTailProperties
<1> QED
  BY <1>1, <1>2, <1>3, ElementOfSeq

LEMMA Push ==
  ASSUME NEW S \in Seq(Frames), NEW f \in Frames
  PROVE  /\ <<f>> \o S \in Seq(Frames) /\ DOMAIN (<<f>> \o S) = 1 .. Len(S) + 1
         /\ Len(<<f>> \o S) = Len(S) + 1
         /\ (<<f>> \o S)[1] = f
         /\ \A i \in DOMAIN S : i + 1 \in DOMAIN (<<f>> \o S) /\ (<<f>> \o S)[i + 1] = S[i]
         /\ \A i \in DOMAIN (<<f>> \o S) : i = 1 \/ (i - 1 \in DOMAIN S /\ (<<f>> \o S)[i] = S[i - 1])
<1>0. /\ <<f>> \in Seq(Frames) /\ Len(<<f>>) = 1 /\ <<f>>[1] = f
      /\ Len(S) \in Nat /\ DOMAIN S = 1 .. Len(S)
  BY LenProperties
<1>1. /\ <<f>> \o S \in Seq(Frames) /\ Len(<<f>> \o S) = Len(S) + 1
      /\ \A i \in 1 .. 1 + Len(S) : (<<f>> \o S)[i] = IF i <= 1 THEN <<f>>[i] ELSE S[i - 1]
  BY <1>0, ConcatProperties
<1>2. DOMAIN (<<f>> \o S) = 1 .. Len(S) + 1
  BY <1>1, LenProperties
<1> DEFINE T == <<f>> \o S
<1>3. T[1] = f
  BY <1>0, <1>1
<1>4. ASSUME NEW i \in DOMAIN S PROVE i + 1 \in DOMAIN T /\ T[i + 1] = S[i]
  <2>1. i \in Nat /\ i + 1 \in 1 .. 1 + Len(S) /\ ~(i + 1 <= 1) /\ (i + 1) - 1 = i
    BY <1>0
  <2>2. i + 1 \in DOMAIN T
    BY <2>1, <1>0, <1>2
  <2>3. T[i + 1] = S[(i + 1) - 1]
    BY <2>1, <1>1
  <2> QED
    BY <2>1, <2>2, <2>3
<1>5. ASSUME NEW i \in DOMAIN T, i # 1 PROVE i - 1 \in DOMAIN S /\ T[i] = S[i - 1]
  <2>1. i \in 1 .. 1 + Len(S) /\ ~(i <= 1) /\ i - 1 \in 1 .. Len(S)
    BY <1>0, <1>2, <1>5
  <2> QED
    BY <2>1, <1>0, <1>1
<1> QED
  BY <1>1, <1>2, <1>3, <1>4, <1>5

LEMMA Pop ==
  ASSUME TypeOK, stack # <<>>
  PROVE  /\ Tail(stack) \in Seq(Frames) /\ Len(stack) > 0
         /\ DOMAIN Tail(stack) = 1 .. Len(stack) - 1 /\ Len(Tail(stack)) = Len(stack) - 1
         /\ \A i \in DOMAIN Tail(stack) : i + 1 \in DOMAIN stack /\ Tail(stack)[i] = stack[i + 1]
         /\ \A i \in DOMAIN stack : i = 1 \/ (i - 1 \in DOMAIN Tail(stack)
                                              /\ Tail(stack)[i - 1] = stack[i])
<1>1. /\ Tail(stack) \in Seq(Frames) /\ Len(stack) > 0 /\ Len(Tail(stack)) = Len(stack) - 1
      /\ \A i \in 1 .. Len(Tail(stack)) : Tail(stack)[i] = stack[i + 1]
  BY StackType, HeadTailProperties, EmptySeq, LenProperties
<1>2. DOMAIN Tail(stack) = 1 .. Len(stack) - 1
  BY <1>1, LenProperties
<1>3. \A i \in DOMAIN Tail(stack) : i + 1 \in DOMAIN stack /\ Tail(stack)[i] = stack[i + 1]
  BY <1>1, <1>2, StackType
<1>4. ASSUME NEW i \in DOMAIN stack, i # 1
      PROVE  i - 1 \in DOMAIN Tail(stack) /\ Tail(stack)[i - 1] = stack[i]
  <2>1. i - 1 \in 1 .. Len(stack) - 1 /\ (i - 1) + 1 = i
    BY StackType, <1>4
  <2> QED
    BY <2>1, <1>1, <1>2
<1> QED
  BY <1>1, <1>2, <1>3, <1>4

(* Two frames at once.                                                     *)
LEMMA PushTwo ==
  ASSUME NEW S \in Seq(Frames), NEW f \in Frames, NEW g \in Frames
  PROVE  /\ <<f, g>> \o S \in Seq(Frames) /\ DOMAIN (<<f, g>> \o S) = 1 .. Len(S) + 2
         /\ Len(<<f, g>> \o S) = Len(S) + 2
         /\ (<<f, g>> \o S)[1] = f /\ (<<f, g>> \o S)[2] = g
         /\ \A i \in DOMAIN S : i + 2 \in DOMAIN (<<f, g>> \o S) /\ (<<f, g>> \o S)[i + 2] = S[i]
         /\ \A i \in DOMAIN (<<f, g>> \o S) :
              i = 1 \/ i = 2 \/ (i - 2 \in DOMAIN S /\ (<<f, g>> \o S)[i] = S[i - 2])
<1>0. /\ <<f, g>> \in Seq(Frames) /\ Len(<<f, g>>) = 2 /\ <<f, g>>[1] = f /\ <<f, g>>[2] = g
      /\ Len(S) \in Nat /\ DOMAIN S = 1 .. Len(S)
  BY LenProperties
<1>1. /\ <<f, g>> \o S \in Seq(Frames) /\ Len(<<f, g>> \o S) = Len(S) + 2
      /\ \A i \in 1 .. 2 + Len(S) : (<<f, g>> \o S)[i] = IF i <= 2 THEN <<f, g>>[i] ELSE S[i - 2]
  BY <1>0, ConcatProperties
<1>2. DOMAIN (<<f, g>> \o S) = 1 .. Len(S) + 2
  BY <1>1, LenProperties
<1> DEFINE T == <<f, g>> \o S
<1>3. T[1] = f /\ T[2] = g
  BY <1>0, <1>1
<1>4. ASSUME NEW i \in DOMAIN S PROVE i + 2 \in DOMAIN T /\ T[i + 2] = S[i]
  <2>1. i \in Nat /\ i + 2 \in 1 .. 2 + Len(S) /\ ~(i + 2 <= 2) /\ (i + 2) - 2 = i
    BY <1>0
  <2>2. i + 2 \in DOMAIN T
    BY <2>1, <1>0, <1>2
  <2>3. T[i + 2] = S[(i + 2) - 2]
    BY <2>1, <1>1
  <2> QED
    BY <2>1, <2>2, <2>3
<1>5. ASSUME NEW i \in DOMAIN T, i # 1, i # 2 PROVE i - 2 \in DOMAIN S /\ T[i] = S[i - 2]
  <2>1. i \in 1 .. 2 + Len(S) /\ ~(i <= 2) /\ i - 2 \in 1 .. Len(S)
    BY <1>0, <1>2, <1>5
  <2> QED
    BY <2>1, <1>0, <1>1
<1> QED
  BY <1>1, <1>2, <1>3, <1>4, <1>5

(* What the stack holds after its functions end or begin.                  *)
LEMMA Popped ==
  ASSUME TypeOK, stack # <<>>, stack' = Tail(stack)
  PROVE  /\ stack' \in Seq(Frames) /\ Head(stack) \in Frames
         /\ StackShape => StackShape'
         /\ HasFrame(Head(stack).at, Head(stack).a)
         /\ \A at, b : HasFrame(at, b)' => HasFrame(at, b)
         /\ \A at, b : HasFrame(at, b) =>
              HasFrame(at, b)' \/ (at = Head(stack).at /\ b = Head(stack).a)
         /\ \A i \in DOMAIN stack' : i + 1 \in DOMAIN stack /\ stack'[i] = stack[i + 1]
<1>1. /\ stack' \in Seq(Frames) /\ Head(stack) \in Frames /\ Head(stack) = stack[1]
      /\ 1 \in DOMAIN stack
  BY Pop, StackType
<1>2. StackShape => StackShape'
  BY Pop, StackType DEF StackShape
<1>3. \A at, b : HasFrame(at, b)' => HasFrame(at, b)
  BY Pop DEF HasFrame
<1>4. ASSUME NEW at, NEW b, HasFrame(at, b), ~(at = Head(stack).at /\ b = Head(stack).a)
      PROVE  HasFrame(at, b)'
  <2>1. PICK i \in DOMAIN stack : stack[i].at = at /\ stack[i].a = b
    BY <1>4 DEF HasFrame
  <2>2. i - 1 \in DOMAIN stack' /\ stack'[i - 1] = stack[i]
    BY <2>1, <1>4, <1>1, Pop
  <2> QED
    BY <2>1, <2>2 DEF HasFrame
<1>5. HasFrame(Head(stack).at, Head(stack).a)
  BY <1>1 DEF HasFrame
<1> QED
  BY <1>1, <1>2, <1>3, <1>4, <1>5, Pop

LEMMA Pushed ==
  ASSUME TypeOK, NEW f \in Frames, stack' = <<f>> \o stack
  PROVE  /\ stack' \in Seq(Frames) /\ DOMAIN stack' = 1 .. Len(stack) + 1
         /\ Len(stack') = Len(stack) + 1
         /\ stack'[1] = f /\ 1 \in DOMAIN stack'
         /\ \A i \in DOMAIN stack' : i = 1 \/ (i - 1 \in DOMAIN stack /\ stack'[i] = stack[i - 1])
         /\ \A at, b : HasFrame(at, b)' <=> HasFrame(at, b) \/ (f.at = at /\ f.a = b)
<1>1. /\ stack' \in Seq(Frames) /\ DOMAIN stack' = 1 .. Len(stack) + 1
      /\ Len(stack') = Len(stack) + 1
      /\ stack'[1] = f
      /\ \A i \in DOMAIN stack : i + 1 \in DOMAIN stack' /\ stack'[i + 1] = stack[i]
      /\ \A i \in DOMAIN stack' : i = 1 \/ (i - 1 \in DOMAIN stack /\ stack'[i] = stack[i - 1])
  BY Push, StackType
<1>2. 1 \in DOMAIN stack'
  BY <1>1, StackType
<1>3. ASSUME NEW at, NEW b, HasFrame(at, b) \/ (f.at = at /\ f.a = b) PROVE HasFrame(at, b)'
  BY <1>1, <1>2, <1>3, ZenonT(40) DEF HasFrame
<1>4. ASSUME NEW at, NEW b, HasFrame(at, b)' PROVE HasFrame(at, b) \/ (f.at = at /\ f.a = b)
  BY <1>1, <1>4 DEF HasFrame
<1> QED
  BY <1>1, <1>2, <1>3, <1>4

LEMMA PushedTwo ==
  ASSUME TypeOK, NEW f \in Frames, NEW g \in Frames, stack' = <<f, g>> \o stack
  PROVE  /\ stack' \in Seq(Frames) /\ DOMAIN stack' = 1 .. Len(stack) + 2
         /\ Len(stack') = Len(stack) + 2
         /\ stack'[1] = f /\ stack'[2] = g
         /\ \A i \in DOMAIN stack' :
              i = 1 \/ i = 2 \/ (i - 2 \in DOMAIN stack /\ stack'[i] = stack[i - 2])
         /\ \A at, b : HasFrame(at, b)' <=>
              HasFrame(at, b) \/ (f.at = at /\ f.a = b) \/ (g.at = at /\ g.a = b)
<1>1. /\ stack' \in Seq(Frames) /\ DOMAIN stack' = 1 .. Len(stack) + 2
      /\ Len(stack') = Len(stack) + 2
      /\ stack'[1] = f /\ stack'[2] = g
      /\ \A i \in DOMAIN stack : i + 2 \in DOMAIN stack' /\ stack'[i + 2] = stack[i]
      /\ \A i \in DOMAIN stack' :
           i = 1 \/ i = 2 \/ (i - 2 \in DOMAIN stack /\ stack'[i] = stack[i - 2])
  BY PushTwo, StackType
<1>2. 1 \in DOMAIN stack' /\ 2 \in DOMAIN stack'
  BY <1>1, StackType
<1>3. ASSUME NEW at, NEW b, HasFrame(at, b) \/ (f.at = at /\ f.a = b) \/ (g.at = at /\ g.a = b)
      PROVE  HasFrame(at, b)'
  BY <1>1, <1>2, <1>3, ZenonT(40) DEF HasFrame
<1>4. ASSUME NEW at, NEW b, HasFrame(at, b)'
      PROVE  HasFrame(at, b) \/ (f.at = at /\ f.a = b) \/ (g.at = at /\ g.a = b)
  BY <1>1, <1>4 DEF HasFrame
<1> QED
  BY <1>1, <1>3, <1>4

LEMMA OnlyOne ==
  ASSUME NEW f \in Frames, stack' = <<f>>
  PROVE  /\ stack' \in Seq(Frames) /\ DOMAIN stack' = {1} /\ Len(stack') = 1 /\ stack'[1] = f
         /\ \A at, b : HasFrame(at, b)' <=> f.at = at /\ f.a = b
<1>1. /\ stack' \in Seq(Frames) /\ DOMAIN stack' = {1} /\ Len(stack') = 1 /\ stack'[1] = f
  <2>1. <<f>> \in Seq(Frames) /\ Len(<<f>>) = 1 /\ <<f>>[1] = f
    OBVIOUS
  <2>2. DOMAIN <<f>> = 1 .. 1
    BY <2>1, LenProperties
  <2> QED
    BY <2>1, <2>2
<1>2. \A at, b : HasFrame(at, b)' <=> f.at = at /\ f.a = b
  BY <1>1 DEF HasFrame
<1> QED
  BY <1>1, <1>2

LEMMA NoFrames ==
  ASSUME TypeOK, stack = <<>>
  PROVE  DOMAIN stack = {} /\ Len(stack) = 0 /\ \A at, b : ~HasFrame(at, b)
<1>1. Len(stack) = 0 /\ DOMAIN stack = {}
  BY StackType
<1> QED
  BY <1>1 DEF HasFrame

(***************************************************************************)
(* What DescriptorsOwned says of one descriptor.                           *)
(***************************************************************************)
Kept(b) == HasFrame("event", b) \/ HasFrame("answered", b)

OwnedAt(b) ==
  /\ fd[b] = "open" => Holds(Task("resolved", b, TRUE)) \/ HasFrame("resolved", b)
  /\ fd[b] \in {"watched", "connected"} => sockFd = b \/ Kept(b)
  /\ fd[b] = "leaving" => Holds(Task("gone", b, TRUE))
  /\ sockFd = b => fd[b] \in {"watched", "connected"}

LEMMA PinnedIsKept ==
  /\ \A b : Pinned(stack, b) <=> Kept(b)
  /\ \A b : Pinned(stack', b) <=> Kept(b)'
  BY DEF Pinned, Kept, HasFrame

LEMMA FrameHeld ==
  ASSUME TypeOK, NEW at, NEW b
  PROVE  (\E i \in DOMAIN stack : stack[i] = Frame(at, b)) <=> HasFrame(at, b)
<1>1. ASSUME NEW i \in DOMAIN stack
      PROVE  stack[i] = Frame(at, b) <=> stack[i].at = at /\ stack[i].a = b
  <2>1. stack[i] \in Frames
    BY StackType
  <2>2. stack[i] = [at |-> stack[i].at, a |-> stack[i].a]
    BY <2>1 DEF Frames
  <2> QED
    BY <2>2 DEF Frame
<1> QED
  BY <1>1 DEF HasFrame

LEMMA Owned == TypeOK => (DescriptorsOwned <=> \A b \in Attempts : OwnedAt(b))
  BY FrameHeld, PinnedIsKept DEF DescriptorsOwned, OwnedAt, Holds

(***************************************************************************)
(* A step that begins nothing: tasks, frames and members only go away, but *)
(* for the delEvent of a descriptor the socket lets go of and the timer of *)
(* a connect_l that ends.                                                  *)
(***************************************************************************)
Settles ==
  /\ UNCHANGED <<calls, current, answers, atOnce, resolving>>
  /\ \A op, b : HasTask(op, b)' =>
       HasTask(op, b) \/ (op = "gone" /\ b = sockFd /\ sockFd' = None)
  /\ stack' = stack \/ (stack # <<>> /\ stack' = Tail(stack))
  /\ asyncConCb' \in {None, asyncConCb}
  /\ \/ conTimer' \in {None, conTimer}
     \/ \E i \in DOMAIN stack : stack[i].at = "arm" /\ conTimer' = stack[i].a
  /\ sockFd' \in {None, sockFd} /\ (sockFd' # None => fd'[sockFd] = fd[sockFd])
  /\ closing' # {} => closing # {} \/ sockFd # None

LEMMA Settled ==
  ASSUME IInv, Settles
  PROVE  OnePhase' /\ StackShape' /\ FramesFresh' /\ MembersFresh'
<1>0. TypeOK /\ OnePhase /\ StackShape /\ FramesFresh /\ MembersFresh
  BY DEF IInv
<1>1. /\ StackShape' 
      /\ \A at, b : HasFrame(at, b)' => HasFrame(at, b)
      /\ \A i \in DOMAIN stack' : \/ i \in DOMAIN stack /\ stack'[i] = stack[i]
                                  \/ i + 1 \in DOMAIN stack /\ stack'[i] = stack[i + 1]
  <2>1. CASE stack' = stack
    BY <1>0, <2>1 DEF StackShape, HasFrame
  <2>2. CASE stack # <<>> /\ stack' = Tail(stack)
    BY <1>0, <2>2, Popped
  <2> QED
    BY <2>1, <2>2 DEF Settles
<1>2. \A b \in Attempts : NotBegun(b)' => NotBegun(b)
  BY DEF NotBegun, Settles
<1>3. \A b \in Attempts : Untouched(b) => Untouched(b)'
  <2> SUFFICES ASSUME NEW b \in Attempts, Untouched(b) PROVE Untouched(b)'
    OBVIOUS
  <2>1. b # None /\ sockFd # b /\ conTimer # b
    BY DEF Untouched
  <2>2. sockFd' # b /\ conTimer' # b /\ b \notin resolving' /\ answers'[b] = 0
    BY <2>1 DEF Settles, Untouched
  <2>3. ~HasTask("resolved", b)' /\ ~HasTask("gone", b)'
    BY <2>1 DEF Settles, Untouched
  <2>4. \A i \in DOMAIN stack' : stack'[i].a # b
    BY <1>1 DEF Untouched
  <2> QED
    BY <2>2, <2>3, <2>4 DEF Untouched
<1>4. OnePhase'
  <2> SUFFICES ASSUME NEW b \in Attempts
               PROVE  /\ calls' < b => ~HasTask("name", b)' /\ ~HasTask("ip", b)'
                      /\ NotBegun(b)' => Untouched(b)'
                      /\ b \in resolving' => ~HasTask("resolved", b)' /\ ~HasFrame("resolved", b)'
                      /\ HasTask("resolved", b)' => ~HasFrame("resolved", b)'
                      /\ b \in resolving' \/ HasTask("resolved", b)' \/ HasFrame("resolved", b)'
                           => sockFd' # b /\ ~HasTask("gone", b)'
                      /\ HasTask("gone", b)' => sockFd' # b
    BY DEF OnePhase
  <2>1. b # None
    OBVIOUS
  <2>2. NotBegun(b)' => Untouched(b)'
    BY <1>0, <1>2, <1>3 DEF OnePhase
  <2>3. calls' < b => ~HasTask("name", b)' /\ ~HasTask("ip", b)'
    BY <1>0 DEF OnePhase, Settles
  <2>4. /\ HasTask("resolved", b)' => HasTask("resolved", b)
        /\ HasFrame("resolved", b)' => HasFrame("resolved", b)
        /\ resolving' = resolving
        /\ sockFd' = b => sockFd = b
        /\ HasTask("gone", b)' => HasTask("gone", b) \/ (sockFd = b /\ sockFd' = None)
    BY <1>1, <2>1 DEF Settles
  <2> QED
    BY <1>0, <2>1, <2>2, <2>3, <2>4 DEF OnePhase
<1>5. \A b \in Attempts : Unanswered(b) => Unanswered(b)'
  BY DEF Settles, Unanswered
<1>6. \A b \in Attempts : Late(b) => Late(b)'
  BY DEF Settles, Unanswered, Late
<1>7. FramesFresh'
  <2> SUFFICES ASSUME NEW i \in DOMAIN stack'
               PROVE  /\ stack'[i].at \in {"resolved", "event"} => Unanswered(stack[i].a)'
                      /\ stack'[i].at \in {"arm", "timeout"} => Late(stack[i].a)'
                      /\ stack'[i].at = "arm" /\ i > 1 => stack'[i].a \in atOnce'
    BY DEF FramesFresh
  <2>1. PICK j \in DOMAIN stack : stack'[i] = stack[j] /\ (i > 1 => j > 1)
    <3>1. CASE i \in DOMAIN stack /\ stack'[i] = stack[i]
      BY <3>1
    <3>2. CASE i + 1 \in DOMAIN stack /\ stack'[i] = stack[i + 1]
      <4>1. i + 1 > 1 \/ ~(i > 1)
        BY <1>0, <3>2, StackType
      <4> QED
        BY <3>2, <4>1
    <3> QED
      BY <1>1, <3>1, <3>2
  <2>2. stack[j].a \in Attempts
    BY <1>0, StackType DEF Frames
  <2>3. PICK b \in Attempts : b = stack[j].a
    BY <2>2
  <2>4. /\ stack[j].at \in {"resolved", "event"} => Unanswered(b)
        /\ stack[j].at \in {"arm", "timeout"} => Late(b)
        /\ stack[j].at = "arm" /\ j > 1 => b \in atOnce
    BY <1>0, <2>3 DEF FramesFresh
  <2>5. b = stack'[i].a
    BY <2>1, <2>3
  <2> QED
    BY <2>1, <2>4, <2>5, <1>5, <1>6 DEF Settles, Unanswered, Late
<1>8. MembersFresh'
  <2>1. conTimer' # None => Late(conTimer)'
    <3>1. CASE conTimer' \in {None, conTimer}
      BY <1>0, <3>1 DEF MembersFresh, Settles, Unanswered, Late
    <3>2. CASE \E i \in DOMAIN stack : stack[i].at = "arm" /\ conTimer' = stack[i].a
      <4>1. PICK i \in DOMAIN stack : stack[i].at = "arm" /\ conTimer' = stack[i].a
        BY <3>2
      <4>2. Late(stack[i].a)
        BY <1>0, <4>1 DEF FramesFresh
      <4> QED
        BY <4>1, <4>2 DEF Settles, Unanswered, Late
    <3> QED
      BY <3>1, <3>2 DEF Settles
  <2> QED
    BY <1>0, <2>1 DEF MembersFresh, Settles, Unanswered
<1> QED
  BY <1>1, <1>4, <1>7, <1>8

LEMMA SettledKeeps ==
  ASSUME IInv, TypeOK', TasksOnce', Settles, \A b \in Attempts : OwnedAt(b)'
  PROVE  IInv'
<1>1. (TypeOK => (DescriptorsOwned <=> \A b \in Attempts : OwnedAt(b)))'
  BY Owned, PTL
<1> QED
  BY <1>1, Settled DEF IInv

Fates == {"none", "open", "watched", "connected", "leaving", "closed"}

(* The socket lets go of its descriptor on the poller's thread.            *)
LEMMA Dropped ==
  ASSUME TypeOK, NEW S
  PROVE  /\ Drop(S, sockFd) \in [Attempts -> Fates]
         /\ \A b \in Attempts :
              Drop(S, sockFd)[b] = IF b = sockFd /\ ~Pinned(S, b) THEN "closed" ELSE fd[b]
  BY DEF TypeOK, Drop, Fates

LEMMA TypeFacts ==
  ASSUME TypeOK
  PROVE  /\ queue \in Seq(Tasks) /\ stack \in Seq(Frames) /\ fd \in [Attempts -> Fates]
         /\ calls \in 0 .. MaxAttempts /\ current \in Attempts \union {None}
         /\ resolving \subseteq Attempts
         /\ asyncConCb \in Attempts \union {None} /\ conTimer \in Attempts \union {None}
         /\ sockFd \in Attempts \union {None}
         /\ closing \subseteq Closers /\ held \in BOOLEAN
         /\ answers \in [Attempts -> 0 .. 2]
         /\ atOnce \subseteq Attempts /\ closed \subseteq Attempts
  BY DEF TypeOK, Tasks, Frames, Fates

LEMMA TypeIntro ==
  ASSUME /\ queue' \in Seq(Tasks) /\ stack' \in Seq(Frames) /\ fd' \in [Attempts -> Fates]
         /\ calls' \in 0 .. MaxAttempts /\ current' \in Attempts \union {None}
         /\ resolving' \subseteq Attempts
         /\ asyncConCb' \in Attempts \union {None} /\ conTimer' \in Attempts \union {None}
         /\ sockFd' \in Attempts \union {None}
         /\ closing' \subseteq Closers /\ held' \in BOOLEAN
         /\ answers' \in [Attempts -> 0 .. 2]
         /\ atOnce' \subseteq Attempts /\ closed' \subseteq Attempts
  PROVE  TypeOK'
  BY DEF TypeOK, Tasks, Frames, Fates

(***************************************************************************)
(* The steps that settle something.                                        *)
(***************************************************************************)

(* The innermost function returns, and leaves the timer or not; the socket *)
(* may go with it.                                                         *)
LEMMA UnwindKeeps ==
  ASSUME IInv, Top("arm") \/ Top("callback"),
         \/ Unwind(Tail(stack))
         \/ /\ Top("arm") /\ stack' = Tail(stack) /\ conTimer' = Self
            /\ UNCHANGED <<asyncConCb, sockFd, fd>>,
         UNCHANGED <<calls, current, queue, resolving, closing, held, ledger>>
  PROVE  IInv'
<1>0. /\ TypeOK /\ TasksOnce /\ DescriptorsOwned
      /\ stack # <<>> /\ stack' = Tail(stack) /\ Head(stack).at \in {"arm", "callback"}
      /\ UNCHANGED <<calls, current, queue, resolving, closing, held, answers, atOnce, closed>>
  BY DEF IInv, Top, Unwind, ledger
<1>1. /\ stack' \in Seq(Frames)
      /\ \A at, b : HasFrame(at, b)' => HasFrame(at, b)
      /\ \A at, b : HasFrame(at, b) =>
           HasFrame(at, b)' \/ (at = Head(stack).at /\ b = Head(stack).a)
  BY <1>0, Popped
<1>2. /\ \A op, b : HasTask(op, b)' <=> HasTask(op, b)
      /\ \A u : Holds(u)' <=> Holds(u)
      /\ TasksOnce'
  BY <1>0 DEF HasTask, Holds, TasksOnce
<1>3. /\ \/ UNCHANGED <<asyncConCb, sockFd, fd>>
         \/ /\ asyncConCb' = None /\ sockFd' = None
            /\ fd' = Drop(stack', sockFd)
      /\ \/ conTimer' \in {None, conTimer}
         \/ \E i \in DOMAIN stack : stack[i].at = "arm" /\ conTimer' = stack[i].a
      /\ conTimer' \in Attempts \union {None}
  <2>1. 1 \in DOMAIN stack /\ stack[1] = Head(stack) /\ Self \in Attempts
    BY <1>0, StackType DEF Frames, Self
  <2> QED
    BY <1>0, <2>1, TypeFacts DEF Unwind, socketVars, Self, Top
<1>4. fd' \in [Attempts -> Fates]
  BY <1>0, <1>3, Dropped, TypeFacts
<1>5. TypeOK'
  BY <1>0, <1>1, <1>3, <1>4, TypeFacts, TypeIntro
<1>6. Settles
  BY <1>0, <1>2, <1>3 DEF Settles
<1>7. ASSUME NEW b \in Attempts PROVE OwnedAt(b)'
  <2>1. OwnedAt(b)
    BY <1>0, Owned
  <2>2. /\ Kept(b)' <=> Kept(b)
        /\ HasFrame("resolved", b)' <=> HasFrame("resolved", b)
    BY <1>0, <1>1 DEF Kept
  <2>3. \/ fd'[b] = fd[b] /\ sockFd' = sockFd
        \/ sockFd' = None /\ b # sockFd /\ fd'[b] = fd[b]
        \/ sockFd' = None /\ Kept(b)' /\ fd'[b] = fd[b]
        \/ sockFd' = None /\ fd'[b] = "closed"
    <3>1. CASE fd' = Drop(stack', sockFd) /\ sockFd' = None
      <4>1. fd'[b] = IF b = sockFd /\ ~Pinned(stack', b) THEN "closed" ELSE fd[b]
        BY <1>0, <3>1, Dropped
      <4>2. Pinned(stack', b) <=> Kept(b)'
        BY PinnedIsKept
      <4> QED
        BY <3>1, <4>1, <4>2
    <3> QED
      BY <1>3, <3>1
  <2> QED
    BY <1>2, <2>1, <2>2, <2>3 DEF OwnedAt
<1> QED
  BY <1>5, <1>2, <1>6, <1>7, SettledKeeps

LEMMA ArmKeeps ==
  ASSUME IInv, Arm
  PROVE  IInv'
<1>1. CASE held \/ Tail(stack) # <<>>
  BY <1>1, UnwindKeeps DEF Arm
<1>2. CASE ~(held \/ Tail(stack) # <<>>)
  BY <1>2, UnwindKeeps DEF Arm
<1> QED
  BY <1>1, <1>2

LEMMA CallbackReturnsKeeps ==
  ASSUME IInv, CallbackReturns
  PROVE  IInv'
  BY UnwindKeeps DEF CallbackReturns

LEMMA EventReturnsKeeps ==
  ASSUME IInv, EventReturns
  PROVE  IInv'
<1>0. /\ TypeOK /\ TasksOnce /\ DescriptorsOwned /\ StackShape
      /\ stack # <<>> /\ stack' = <<>> /\ Head(stack).at = "answered"
      /\ UNCHANGED <<calls, current, queue, resolving, closing, held, answers, atOnce, closed>>
  BY DEF IInv, Top, EventReturns, ledger
<1>1. stack' = Tail(stack) /\ Len(stack) = 1 /\ DOMAIN stack = {1} /\ Head(stack) = stack[1]
  <2>1. 1 = Len(stack) /\ DOMAIN stack = {1} /\ Head(stack) = stack[1]
    BY <1>0, StackType DEF StackShape
  <2>2. Tail(stack) = <<>>
    BY <2>1, <1>0, Pop, EmptySeq
  <2> QED
    BY <1>0, <2>1, <2>2
<1>2. /\ \A op, b : HasTask(op, b)' <=> HasTask(op, b)
      /\ \A u : Holds(u)' <=> Holds(u)
      /\ TasksOnce'
  BY <1>0 DEF HasTask, Holds, TasksOnce
<1>3. /\ \A at, b : HasFrame(at, b) => at = "answered" /\ b = Self
      /\ Self \in Attempts
  <2>1. Head(stack) \in Frames
    BY <1>0, <1>1, StackType
  <2> QED
    BY <1>0, <1>1, <2>1 DEF HasFrame, Self, Frames
<1>4. /\ asyncConCb' \in {None, asyncConCb} /\ conTimer' \in {None, conTimer}
      /\ fd' \in [Attempts -> Fates]
      /\ \A b \in Attempts :
           \/ sockFd' = sockFd /\ fd'[b] = fd[b] /\ (b # Self \/ b = sockFd)
           \/ sockFd' = sockFd /\ b # sockFd /\ b = Self /\ fd'[b] = "closed"
           \/ sockFd' = None /\ (b = Self \/ b = sockFd) /\ fd'[b] = "closed"
           \/ sockFd' = None /\ b # sockFd /\ b # Self /\ fd'[b] = fd[b]
  <2>1. CASE held
    BY <1>0, <1>3, <2>1, TypeFacts DEF EventReturns, Fates
  <2>2. CASE ~held
    <3>1. /\ asyncConCb' = None /\ conTimer' = None /\ sockFd' = None
          /\ fd' = [Drop(<<>>, sockFd) EXCEPT ![Self] = "closed"]
      BY <2>2 DEF EventReturns
    <3>2. \A b : ~Pinned(<<>>, b)
      BY DEF Pinned
    <3>3. /\ Drop(<<>>, sockFd) \in [Attempts -> Fates]
          /\ \A b \in Attempts : Drop(<<>>, sockFd)[b] = IF b = sockFd THEN "closed" ELSE fd[b]
      BY <1>0, <3>2, Dropped
    <3>4. /\ fd' \in [Attempts -> Fates]
          /\ \A b \in Attempts : fd'[b] = IF b = Self THEN "closed" ELSE Drop(<<>>, sockFd)[b]
      BY <3>1, <3>3, <1>3 DEF Fates
    <3> QED
      BY <3>1, <3>3, <3>4
  <2> QED
    BY <2>1, <2>2
<1>5. sockFd' \in {None, sockFd} /\ (sockFd' # None => fd'[sockFd] = fd[sockFd])
  <2>1. CASE held
    <3>1. sockFd' = sockFd /\ (sockFd # None => sockFd \in Attempts)
      BY <1>0, <2>1, TypeFacts DEF EventReturns
    <3>2. CASE sockFd = Self
      BY <2>1, <3>1, <3>2 DEF EventReturns
    <3>3. CASE sockFd # Self
      BY <2>1, <3>1, <3>3, <1>0, TypeFacts DEF EventReturns
    <3> QED
      BY <3>2, <3>3
  <2>2. CASE ~held
    BY <2>2 DEF EventReturns
  <2> QED
    BY <2>1, <2>2
<1>6. TypeOK'
  <2>1. stack' \in Seq(Frames)
    BY <1>0
  <2> QED
    BY <1>0, <1>4, <1>5, <2>1, TypeFacts, TypeIntro
<1>7. Settles
  BY <1>0, <1>1, <1>2, <1>4, <1>5 DEF Settles
<1>8. ASSUME NEW b \in Attempts PROVE OwnedAt(b)'
  <2>1. OwnedAt(b)
    BY <1>0, Owned
  <2>2. /\ Kept(b) => b = Self
        /\ ~HasFrame("resolved", b)
    BY <1>0, <1>3 DEF Kept
  <2>3. b # None
    OBVIOUS
  <2> QED
    BY <1>2, <2>1, <2>2, <2>3, <1>4 DEF OwnedAt
<1> QED
  BY <1>6, <1>2, <1>7, <1>8, SettledKeeps

(* closeSock on the poller's thread.                                       *)
LEMMA CloseOnPollerKeeps ==
  ASSUME IInv, CloseOnPoller
  PROVE  IInv'
<1>0. /\ TypeOK /\ TasksOnce /\ DescriptorsOwned /\ MembersFresh
      /\ sockFd # None /\ asyncConCb' = None /\ conTimer' = None /\ sockFd' = None
      /\ fd' = Drop(stack, sockFd) /\ closed' = closed \union {current}
      /\ UNCHANGED <<calls, current, queue, stack, resolving, closing, held, answers, atOnce>>
  BY DEF IInv, CloseOnPoller
<1>1. current \in Attempts
  BY <1>0, TypeFacts DEF MembersFresh
<1>2. /\ \A op, b : HasTask(op, b)' <=> HasTask(op, b)
      /\ \A u : Holds(u)' <=> Holds(u)
      /\ \A at, b : HasFrame(at, b)' <=> HasFrame(at, b)
      /\ TasksOnce'
  BY <1>0 DEF HasTask, Holds, TasksOnce, HasFrame
<1>3. /\ fd' \in [Attempts -> Fates]
      /\ \A b \in Attempts : fd'[b] = IF b = sockFd /\ ~Kept(b) THEN "closed" ELSE fd[b]
  BY <1>0, Dropped, PinnedIsKept
<1>4. TypeOK'
  BY <1>0, <1>1, <1>3, TypeFacts, TypeIntro
<1>5. Settles
  BY <1>0, <1>2 DEF Settles
<1>6. ASSUME NEW b \in Attempts PROVE OwnedAt(b)'
  <2>1. OwnedAt(b)
    BY <1>0, Owned
  <2> QED
    BY <1>0, <1>2, <1>3, <2>1 DEF OwnedAt, Kept
<1> QED
  BY <1>4, <1>2, <1>5, <1>6, SettledKeeps

(* A step of others that touches nothing here.                             *)
LEMMA OthersKeep ==
  ASSUME IInv,
         UNCHANGED <<calls, current, queue, stack, resolving, asyncConCb, conTimer, sockFd, fd,
                     answers, atOnce, closed>>,
         held' \in BOOLEAN, closing' \subseteq Closers,
         closing' # {} => closing # {} \/ sockFd # None
  PROVE  IInv'
<1>0. TypeOK /\ TasksOnce /\ DescriptorsOwned /\ MembersFresh
  BY DEF IInv
<1>1. /\ \A op, b : HasTask(op, b)' <=> HasTask(op, b)
      /\ \A u : Holds(u)' <=> Holds(u)
      /\ \A at, b : HasFrame(at, b)' <=> HasFrame(at, b)
      /\ TasksOnce'
  BY <1>0 DEF HasTask, Holds, TasksOnce, HasFrame
<1>2. TypeOK'
  BY <1>0, TypeFacts, TypeIntro
<1>3. Settles
  BY <1>0, <1>1 DEF Settles
<1>4. ASSUME NEW b \in Attempts PROVE OwnedAt(b)'
  <2>1. OwnedAt(b)
    BY <1>0, Owned
  <2> QED
    BY <1>1, <2>1 DEF OwnedAt, Kept
<1> QED
  BY <1>2, <1>1, <1>3, <1>4, SettledKeeps

LEMMA EmitErrKeeps ==
  ASSUME IInv, NEW x \in Closers, EmitErr(x)
  PROVE  IInv'
<1>1. held \in BOOLEAN /\ closing \subseteq Closers
  BY TypeFacts DEF IInv
<1> QED
  BY <1>1, OthersKeep DEF EmitErr, socketVars, ledger

(* closeSock on another thread: the descriptor's delEvent is queued.       *)
LEMMA GoneKeeps ==
  ASSUME IInv, Gone, asyncConCb' = None, conTimer' = None, sockFd' = None,
         UNCHANGED <<calls, current, stack, resolving, answers, atOnce>>,
         closing' \subseteq closing, held' \in BOOLEAN, closed' \subseteq closed \union {current},
         closed' = closed \/ closing # {}
  PROVE  IInv'
<1>0. /\ TypeOK /\ TasksOnce /\ DescriptorsOwned /\ MembersFresh
      /\ UNCHANGED <<calls, current, stack, resolving, answers, atOnce>>
  BY DEF IInv
<1>1. closed' \subseteq Attempts
  BY <1>0, TypeFacts DEF MembersFresh
<1>2. \A at, b : HasFrame(at, b)' <=> HasFrame(at, b)
  BY <1>0 DEF HasFrame
<1>3. CASE sockFd = None \/ Pinned(stack, sockFd)
  <2>1. UNCHANGED <<fd, queue>>
    BY <1>3 DEF Gone
  <2>2. /\ \A op, b : HasTask(op, b)' <=> HasTask(op, b)
        /\ \A u : Holds(u)' <=> Holds(u)
        /\ TasksOnce'
    BY <2>1 DEF HasTask, Holds, TasksOnce, IInv
  <2>4. TypeOK'
    BY <1>0, <1>1, <2>1, TypeFacts, TypeIntro
  <2>5. Settles
    BY <1>0, <2>2 DEF Settles
  <2>6. ASSUME NEW b \in Attempts PROVE OwnedAt(b)'
    <3>1. OwnedAt(b) /\ (sockFd = b => Kept(b))
      BY <1>0, <1>3, Owned, PinnedIsKept
    <3> QED
      BY <1>0, <1>2, <2>1, <2>2, <3>1 DEF OwnedAt, Kept
  <2> QED
    BY <2>4, <2>2, <2>5, <2>6, SettledKeeps
<1>4. CASE ~(sockFd = None \/ Pinned(stack, sockFd))
  <2>1. PICK t \in Tasks : t = Task("gone", sockFd, TRUE)
    BY <1>0, <1>4, TypeFacts DEF Tasks, Task
  <2>2. /\ fd' = [fd EXCEPT ![sockFd] = "leaving"] /\ queue' = Append(queue, t)
        /\ t.op = "gone" /\ t.a = sockFd
    BY <1>4, <2>1 DEF Gone, Task
  <2>3. /\ queue' \in Seq(Tasks) /\ TasksOnce'
        /\ \A u : Holds(u)' <=> Holds(u) \/ u = t
        /\ \A op, b : HasTask(op, b)' <=> HasTask(op, b) \/ (op = "gone" /\ b = sockFd)
    <3>1. t.op \notin Early
      BY <2>2 DEF Early
    <3> QED
      BY <1>0, <2>2, <3>1, Enqueue
  <2>4. /\ fd' \in [Attempts -> Fates]
        /\ \A b \in Attempts : fd'[b] = IF b = sockFd THEN "leaving" ELSE fd[b]
    BY <1>0, <2>2, TypeFacts DEF Fates
  <2>5. TypeOK'
    BY <1>0, <1>1, <2>3, <2>4, TypeFacts, TypeIntro
  <2>6. Settles
    BY <1>0, <2>3 DEF Settles
  <2>7. ASSUME NEW b \in Attempts PROVE OwnedAt(b)'
    <3>1. OwnedAt(b) /\ (sockFd = b => t = Task("gone", b, TRUE))
      BY <1>0, <2>1, Owned
    <3> QED
      BY <1>0, <1>2, <2>3, <2>4, <3>1 DEF OwnedAt, Kept
  <2> QED
    BY <2>5, <2>3, <2>6, <2>7, SettledKeeps
<1> QED
  BY <1>3, <1>4

LEMMA CloseSockKeeps ==
  ASSUME IInv, NEW x \in Closers, CloseSock(x)
  PROVE  IInv'
<1>1. held \in BOOLEAN
  BY TypeFacts DEF IInv
<1> QED
  BY <1>1, GoneKeeps DEF CloseSock

LEMMA ReleaseKeeps ==
  ASSUME IInv, Release
  PROVE  IInv'
<1>1. held' \in BOOLEAN /\ closing \subseteq Closers
  BY TypeFacts DEF IInv, Release
<1>2. CASE \E i \in DOMAIN stack : stack[i].at # "timeout"
  BY <1>1, <1>2, OthersKeep DEF Release, socketVars, ledger
<1>3. CASE ~\E i \in DOMAIN stack : stack[i].at # "timeout"
  BY <1>1, <1>3, GoneKeeps DEF Release, ledger
<1> QED
  BY <1>2, <1>3

(* A task is taken out and nothing is begun: a descriptor is closed, or    *)
(* the task had none.                                                      *)
LEMMA TaskDone ==
  ASSUME IInv, queue # <<>>, queue' = Tail(queue),
         UNCHANGED <<calls, current, stack, resolving, asyncConCb, conTimer, sockFd, closing,
                     held, answers, atOnce, closed>>,
         \/ fd' = [fd EXCEPT ![Head(queue).a] = "closed"] /\ Head(queue).op \in {"resolved", "gone"}
         \/ fd' = fd /\ Head(queue).op # "gone" /\ (Head(queue).op = "resolved" => ~Head(queue).ok)
  PROVE  IInv'
<1>0. TypeOK /\ TasksOnce /\ DescriptorsOwned /\ OnePhase
  BY DEF IInv
<1> DEFINE h == Head(queue)
<1>1. /\ queue' \in Seq(Tasks) /\ TasksOnce' /\ h \in Tasks
      /\ HasTask(h.op, h.a)
      /\ \A u : Holds(u)' => Holds(u)
      /\ \A u : Holds(u) => Holds(u)' \/ u = h
      /\ \A op, b : HasTask(op, b)' => HasTask(op, b)
  BY <1>0, Dequeue
<1>2. \A at, b : HasFrame(at, b)' <=> HasFrame(at, b)
  BY DEF HasFrame
<1>3. /\ fd' \in [Attempts -> Fates] /\ h.a \in Attempts
      /\ \A b \in Attempts : b # h.a => fd'[b] = fd[b]
      /\ \/ fd'[h.a] = "closed" /\ sockFd # h.a
         \/ fd'[h.a] = fd[h.a] /\ h.op # "gone" /\ (h.op = "resolved" => ~h.ok)
  BY <1>0, <1>1, TypeFacts DEF Fates, Tasks, OnePhase
<1>4. TypeOK'
  BY <1>0, <1>1, <1>3, TypeFacts, TypeIntro
<1>5. Settles
  <2>1. sockFd # None => fd'[sockFd] = fd[sockFd]
    BY <1>0, <1>3, TypeFacts
  <2> QED
    BY <1>1, <2>1 DEF Settles
<1>6. ASSUME NEW b \in Attempts PROVE OwnedAt(b)'
  <2>1. OwnedAt(b)
    BY <1>0, Owned
  <2>2. \/ fd'[b] = "closed" /\ sockFd # b
        \/ /\ fd'[b] = fd[b]
           /\ Holds(Task("resolved", b, TRUE)) => Holds(Task("resolved", b, TRUE))'
           /\ Holds(Task("gone", b, TRUE)) => Holds(Task("gone", b, TRUE))'
    <3>1. /\ h = Task("resolved", b, TRUE) => h.op = "resolved" /\ h.ok /\ h.a = b
          /\ h = Task("gone", b, TRUE) => h.op = "gone" /\ h.a = b
      BY DEF Task
    <3> HIDE DEF h
    <3> QED
      BY <1>1, <1>3, <3>1
  <2> QED
    BY <1>2, <2>1, <2>2 DEF OwnedAt, Kept
<1> QED
  BY <1>4, <1>1, <1>5, <1>6, SettledKeeps

LEMMA RunGoneKeeps ==
  ASSUME IInv, RunGone
  PROVE  IInv'
  BY TaskDone DEF RunGone, ledger

(* The timer of a socket that is gone. *)
LEMMA TimedOutLateKeeps ==
  ASSUME IInv, TimedOut, ~held
  PROVE  IInv'
<1>0. /\ TypeOK /\ TasksOnce /\ DescriptorsOwned /\ StackShape
      /\ stack # <<>> /\ Head(stack).at = "timeout" /\ stack' = <<>>
      /\ UNCHANGED <<calls, current, queue, resolving, asyncConCb, conTimer, sockFd, fd,
                     closing, held, answers, atOnce, closed>>
  BY DEF IInv, Top, TimedOut, socketVars, ledger
<1>1. stack' = Tail(stack) /\ DOMAIN stack = {1} /\ Head(stack) = stack[1]
  <2>1. 1 = Len(stack) /\ DOMAIN stack = {1} /\ Head(stack) = stack[1]
    BY <1>0, StackType DEF StackShape
  <2>2. Tail(stack) = <<>>
    BY <2>1, <1>0, Pop, EmptySeq
  <2> QED
    BY <1>0, <2>1, <2>2
<1>2. /\ \A op, b : HasTask(op, b)' <=> HasTask(op, b)
      /\ \A u : Holds(u)' <=> Holds(u)
      /\ \A b : ~HasFrame("resolved", b) /\ ~HasFrame("event", b) /\ ~HasFrame("answered", b)
      /\ TasksOnce'
  BY <1>0, <1>1 DEF HasTask, Holds, TasksOnce, HasFrame
<1>3. TypeOK'
  <2>1. stack' \in Seq(Frames)
    BY <1>0
  <2> QED
    BY <1>0, <2>1, TypeFacts, TypeIntro
<1>4. Settles
  BY <1>0, <1>1, <1>2 DEF Settles
<1>5. ASSUME NEW b \in Attempts PROVE OwnedAt(b)'
  <2>1. OwnedAt(b)
    BY <1>0, Owned
  <2> QED
    BY <1>0, <1>2, <2>1 DEF OwnedAt, Kept
<1> QED
  BY <1>3, <1>2, <1>4, <1>5, SettledKeeps

(***************************************************************************)
(* The steps of an empty stack that call a function.                       *)
(***************************************************************************)
LEMMA BeginKeeps ==
  ASSUME IInv, stack = <<>>, NEW f \in Frames, stack' = <<f>>,
         UNCHANGED <<calls, current, resolving, asyncConCb, conTimer, sockFd, fd,
                     closing, held, answers, atOnce, closed>>,
         \/ queue' = queue /\ f.at \in {"event", "timeout"}
         \/ /\ queue # <<>> /\ queue' = Tail(queue) /\ f.at = "resolved"
            /\ Head(queue).op = "resolved" /\ Head(queue).a = f.a,
         ~NotBegun(f.a),
         f.at # "timeout" => Unanswered(f.a),
         f.at = "timeout" => Late(f.a)
  PROVE  IInv'
<1>0. TypeOK /\ TasksOnce /\ DescriptorsOwned /\ OnePhase /\ MembersFresh
  BY DEF IInv
<1>1. /\ stack' \in Seq(Frames) /\ DOMAIN stack' = {1} /\ Len(stack') = 1 /\ stack'[1] = f
      /\ \A at, b : HasFrame(at, b)' <=> f.at = at /\ f.a = b
      /\ \A at, b : ~HasFrame(at, b)
  BY <1>0, OnlyOne, NoFrames
<1>2. /\ queue' \in Seq(Tasks) /\ TasksOnce'
      /\ \A op, b : HasTask(op, b)' => HasTask(op, b)
      /\ \A u : Holds(u) => Holds(u)' \/ (f.at = "resolved" /\ u = Head(queue))
      /\ f.at = "resolved" => HasTask("resolved", f.a) /\ ~HasTask("resolved", f.a)'
  <2>1. CASE queue' = queue /\ f.at \in {"event", "timeout"}
    BY <1>0, <2>1, TypeFacts DEF TasksOnce, HasTask, Holds
  <2>2. CASE /\ queue # <<>> /\ queue' = Tail(queue) /\ f.at = "resolved"
             /\ Head(queue).op = "resolved" /\ Head(queue).a = f.a
    <3>1. f.a \in Attempts /\ "resolved" \in Early
      BY DEF Frames, Early
    <3> QED
      BY <1>0, <2>2, <3>1, Dequeue
  <2> QED
    BY <2>1, <2>2
<1>3. TypeOK'
  BY <1>0, <1>1, <1>2, TypeFacts, TypeIntro
<1>4. \A b \in Attempts : NotBegun(b)' => NotBegun(b) /\ b # f.a
  BY <1>2 DEF NotBegun
<1>5. \A b \in Attempts : Untouched(b) /\ b # f.a => Untouched(b)'
  BY <1>1, <1>2 DEF Untouched
<1>6. OnePhase'
  BY <1>0, <1>1, <1>2, <1>4, <1>5 DEF OnePhase
<1>7. StackShape' /\ FramesFresh'
  BY <1>1 DEF StackShape, FramesFresh, Unanswered, Late
<1>8. MembersFresh'
  BY <1>0 DEF MembersFresh, Unanswered, Late
<1>9. ASSUME NEW b \in Attempts PROVE OwnedAt(b)'
  <2>1. OwnedAt(b)
    BY <1>0, Owned
  <2>2. CASE f.at # "resolved"
    BY <1>1, <1>2, <2>1, <2>2 DEF OwnedAt, Kept
  <2>3. CASE f.at = "resolved"
    <3>1. Head(queue).op = "resolved" /\ Head(queue).a = f.a
      BY <2>3
    <3>2. /\ Task("resolved", b, TRUE) = Head(queue) => b = f.a
          /\ Task("gone", b, TRUE) # Head(queue)
      BY <3>1 DEF Task
    <3> QED
      BY <1>1, <1>2, <2>1, <2>3, <3>2 DEF OwnedAt, Kept
  <2> QED
    BY <2>2, <2>3
<1>10. DescriptorsOwned'
  <2>1. (TypeOK => (DescriptorsOwned <=> \A b \in Attempts : OwnedAt(b)))'
    BY Owned, PTL
  <2> QED
    BY <1>3, <1>9, <2>1
<1> QED
  BY <1>2, <1>3, <1>6, <1>7, <1>8, <1>10 DEF IInv

LEMMA TimerFiresKeeps ==
  ASSUME IInv, TimerFires
  PROVE  IInv'
<1>0. TypeOK /\ OnePhase /\ MembersFresh
  BY DEF IInv
<1>1. PICK f \in Frames : f = Frame("timeout", conTimer)
  BY <1>0, TypeFacts DEF TimerFires, Frames, Frame
<1>2. f.at = "timeout" /\ f.a = conTimer /\ conTimer \in Attempts
  BY <1>0, <1>1, TypeFacts DEF Frame, TimerFires
<1>3. ~NotBegun(conTimer)
  BY <1>0, <1>2 DEF OnePhase, Untouched
<1>4. Late(conTimer)
  BY <1>0 DEF TimerFires, MembersFresh
<1> QED
  BY <1>1, <1>2, <1>3, <1>4, BeginKeeps DEF TimerFires, socketVars, ledger

LEMMA WritableKeeps ==
  ASSUME IInv, NEW a \in Attempts, Writable(a)
  PROVE  IInv'
<1>0. TypeOK /\ OnePhase /\ MembersFresh /\ DescriptorsOwned
  BY DEF IInv
<1>1. PICK f \in Frames : f = Frame("event", a)
  BY DEF Frames, Frame
<1>2. f.at = "event" /\ f.a = a
  BY <1>1 DEF Frame
<1>3. sockFd = a
  BY <1>0, Owned, NoFrames DEF OwnedAt, Kept, Writable
<1>4. ~NotBegun(a)
  BY <1>0, <1>3 DEF OnePhase, Untouched
<1>5. Unanswered(a)
  BY <1>0, <1>3 DEF Writable, MembersFresh, Unanswered
<1> QED
  BY <1>1, <1>2, <1>4, <1>5, BeginKeeps DEF Writable, socketVars, ledger

(***************************************************************************)
(* The steps that answer an attempt.                                       *)
(***************************************************************************)
LEMMA AnswerKeeps ==
  ASSUME IInv, NEW a \in Attempts, ~NotBegun(a), answers[a] <= 1,
         asyncConCb' = None, conTimer' = None,
         answers' = [answers EXCEPT ![a] = @ + 1],
         UNCHANGED <<calls, current, resolving, closing, held, atOnce, closed>>,
         queue' \in Seq(Tasks), TasksOnce',
         \A op, b : HasTask(op, b)' => HasTask(op, b),
         \/ stack' = <<Frame("callback", a)>>
         \/ stack' = <<Frame("callback", a)>> \o <<Frame("answered", a)>>,
         \/ sockFd' = None
         \/ sockFd' = sockFd /\ sockFd = a /\ fd'[a] = "connected",
         fd' \in [Attempts -> Fates], \A b \in Attempts : OwnedAt(b)'
  PROVE  IInv'
<1>0. TypeOK /\ OnePhase /\ MembersFresh
  BY DEF IInv
<1>1. /\ stack' \in Seq(Frames)
      /\ \A i \in DOMAIN stack' :
           /\ stack'[i].a = a
           /\ stack'[i].at = "callback" \/ (stack'[i].at = "answered" /\ i = Len(stack'))
  <2>0. Frame("callback", a) \in Frames /\ Frame("answered", a) \in Frames
    BY DEF Frame, Frames
  <2>1. CASE stack' = <<Frame("callback", a)>>
    BY <2>0, <2>1, OnlyOne DEF Frame
  <2>2. CASE stack' = <<Frame("callback", a)>> \o <<Frame("answered", a)>>
    <3>1. /\ <<Frame("answered", a)>> \in Seq(Frames) /\ Len(<<Frame("answered", a)>>) = 1
          /\ <<Frame("answered", a)>>[1] = Frame("answered", a)
      BY <2>0
    <3>2. DOMAIN <<Frame("answered", a)>> = 1 .. 1
      BY <3>1, LenProperties
    <3>3. /\ stack' \in Seq(Frames) /\ DOMAIN stack' = 1 .. 2 /\ Len(stack') = 2
          /\ stack'[1] = Frame("callback", a) /\ stack'[2] = Frame("answered", a)
      <4>1. /\ stack' \in Seq(Frames) /\ DOMAIN stack' = 1 .. 1 + 1 /\ Len(stack') = 1 + 1
            /\ stack'[1] = Frame("callback", a)
            /\ stack'[1 + 1] = <<Frame("answered", a)>>[1]
        BY <2>0, <2>2, <3>1, <3>2, Push
      <4> QED
        BY <4>1, <3>1
    <3> QED
      BY <3>3 DEF Frame
  <2> QED
    BY <2>1, <2>2
<1>2. \A b : ~HasFrame("resolved", b)'
  BY <1>1 DEF HasFrame
<1>3. answers' \in [Attempts -> 0 .. 2] /\ \A b \in Attempts : b # a => answers'[b] = answers[b]
  <2>1. answers \in [Attempts -> 0 .. 2] /\ answers[a] + 1 \in 0 .. 2
    BY <1>0, TypeFacts
  <2> QED
    BY <2>1
<1>4. TypeOK'
  BY <1>0, <1>1, <1>3, TypeFacts, TypeIntro
<1>5. \A b \in Attempts : NotBegun(b)' => NotBegun(b) /\ b # a
  BY DEF NotBegun
<1>6. \A b \in Attempts : Untouched(b) /\ b # a => Untouched(b)'
  BY <1>1, <1>3 DEF Untouched
<1>7. OnePhase'
  BY <1>0, <1>2, <1>5, <1>6 DEF OnePhase
<1>8. StackShape' /\ FramesFresh'
  BY <1>1 DEF StackShape, FramesFresh
<1>9. MembersFresh'
  BY <1>0 DEF MembersFresh
<1>10. DescriptorsOwned'
  <2>1. (TypeOK => (DescriptorsOwned <=> \A b \in Attempts : OwnedAt(b)))'
    BY Owned, PTL
  <2> QED
    BY <1>4, <2>1
<1> QED
  BY <1>4, <1>7, <1>8, <1>9, <1>10 DEF IInv

LEMMA EmptyTail ==
  ASSUME TypeOK, StackShape, stack # <<>>, Head(stack).at \in {"resolved", "event", "timeout"}
  PROVE  /\ Tail(stack) = <<>> /\ Self \in Attempts
         /\ \A at, b : HasFrame(at, b) <=> at = Head(stack).at /\ b = Self
<1>1. 1 = Len(stack) /\ DOMAIN stack = {1} /\ Head(stack) = stack[1] /\ stack[1] \in Frames
  BY StackType DEF StackShape
<1>2. Tail(stack) = <<>>
  BY <1>1, Pop, EmptySeq
<1>3. Self = stack[1].a /\ Self \in Attempts
  BY <1>1 DEF Self, Frames
<1> QED
  BY <1>1, <1>2, <1>3 DEF HasFrame

(* Without frames nothing is pinned.                                       *)
LEMMA DroppedAll ==
  ASSUME TypeOK
  PROVE  /\ Drop(<<>>, sockFd) \in [Attempts -> Fates]
         /\ \A b \in Attempts : Drop(<<>>, sockFd)[b] = IF b = sockFd THEN "closed" ELSE fd[b]
<1>1. \A b : ~Pinned(<<>>, b)
  BY DEF Pinned
<1> QED
  BY <1>1, Dropped

LEMMA TimedOutKeeps ==
  ASSUME IInv, TimedOut
  PROVE  IInv'
<1>0. /\ TypeOK /\ OnePhase /\ FramesFresh /\ StackShape /\ DescriptorsOwned /\ TasksOnce
      /\ stack # <<>> /\ Head(stack).at = "timeout"
  BY DEF IInv, TimedOut, Top
<1>1. CASE ~held
  BY <1>1, TimedOutLateKeeps
<1>2. CASE held
  <2>0. PICK a \in Attempts : a = Self
    BY <1>0, EmptyTail
  <2>1. /\ asyncConCb' = None /\ conTimer' = None /\ sockFd' = None
        /\ fd' = Drop(<<>>, sockFd) /\ answers' = [answers EXCEPT ![a] = @ + 1]
        /\ stack' = <<Frame("callback", a)>>
        /\ UNCHANGED <<calls, current, queue, resolving, closing, held, atOnce, closed>>
    <3>1. <<Frame("callback", a)>> \o <<>> = <<Frame("callback", a)>>
      OBVIOUS
    <3> QED
      BY <1>2, <2>0, <3>1 DEF TimedOut, ConCb
  <2>2. Late(a) /\ ~NotBegun(a)
    <3>1. 1 \in DOMAIN stack /\ stack[1].at = "timeout" /\ stack[1].a = a
      BY <1>0, <2>0, StackType DEF Self
    <3> QED
      BY <1>0, <3>1 DEF FramesFresh, OnePhase, Untouched
  <2>3. /\ \A op, b : HasTask(op, b)' <=> HasTask(op, b)
        /\ \A u : Holds(u)' <=> Holds(u)
        /\ TasksOnce' /\ queue' \in Seq(Tasks)
    BY <1>0, <2>1, TypeFacts DEF HasTask, Holds, TasksOnce
  <2>4. ASSUME NEW b \in Attempts PROVE OwnedAt(b)'
    <3>1. OwnedAt(b) /\ ~HasFrame("resolved", b) /\ ~Kept(b)
      BY <1>0, Owned, EmptyTail DEF Kept
    <3>2. fd'[b] = IF b = sockFd THEN "closed" ELSE fd[b]
      BY <1>0, <2>1, DroppedAll
    <3> QED
      BY <2>1, <2>3, <3>1, <3>2 DEF OwnedAt
  <2>5. fd' \in [Attempts -> Fates]
    BY <1>0, <2>1, DroppedAll
  <2> QED
    BY <2>1, <2>2, <2>3, <2>4, <2>5, AnswerKeeps DEF Late
<1> QED
  BY <1>1, <1>2

LEMMA OnConnectedKeeps ==
  ASSUME IInv, OnConnected
  PROVE  IInv'
<1>0. /\ TypeOK /\ OnePhase /\ FramesFresh /\ StackShape /\ DescriptorsOwned /\ TasksOnce
      /\ MembersFresh /\ stack # <<>> /\ Head(stack).at = "event"
  BY DEF IInv, OnConnected, Top
<1>1. PICK a \in Attempts : a = Self
  BY <1>0, EmptyTail
<1>2. PICK err \in BOOLEAN : ConCb(a, err, <<Frame("answered", a)>>)
  BY <1>1 DEF OnConnected
<1> DEFINE S == <<Frame("answered", a)>>
<1>3. /\ asyncConCb' = None /\ conTimer' = None
      /\ IF err THEN sockFd' = None /\ fd' = Drop(S, sockFd)
         ELSE sockFd' = sockFd /\ fd' = [fd EXCEPT ![a] = "connected"]
      /\ answers' = [answers EXCEPT ![a] = @ + 1]
      /\ stack' = <<Frame("callback", a)>> \o S
      /\ UNCHANGED <<calls, current, queue, resolving, closing, held, atOnce, closed>>
  BY <1>2 DEF OnConnected, ConCb
<1>4. Unanswered(a) /\ ~NotBegun(a)
  <2>1. 1 \in DOMAIN stack /\ stack[1].at = "event" /\ stack[1].a = a
    BY <1>0, <1>1, StackType DEF Self
  <2> QED
    BY <1>0, <2>1 DEF FramesFresh, OnePhase, Untouched
<1>5. /\ \A op, b : HasTask(op, b)' <=> HasTask(op, b)
      /\ \A u : Holds(u)' <=> Holds(u)
      /\ TasksOnce' /\ queue' \in Seq(Tasks)
  BY <1>0, <1>3, TypeFacts DEF HasTask, Holds, TasksOnce
<1>6. \A b : Pinned(S, b) <=> b = a
  BY DEF Pinned, Frame
<1>7. Kept(a)'
  <2>1. Frame("callback", a) \in Frames /\ S \in Seq(Frames) /\ S[1] = Frame("answered", a)
    BY DEF Frame, Frames
  <2>2. 1 \in DOMAIN S
    OBVIOUS
  <2>3. 2 \in DOMAIN stack' /\ stack'[2] = Frame("answered", a)
    <3>1. 1 + 1 \in DOMAIN stack' /\ stack'[1 + 1] = S[1]
      BY <1>3, <2>1, <2>2, Push
    <3> QED
      BY <3>1, <2>1
  <2> QED
    BY <2>3 DEF Kept, HasFrame, Frame
<1>8. /\ fd' \in [Attempts -> Fates]
      /\ sockFd' = None \/ sockFd' = sockFd
      /\ sockFd' = sockFd /\ sockFd' # None => fd'[a] = "connected"
      /\ \A b \in Attempts :
           IF b = a THEN fd'[b] \in {"connected", fd[b]}
           ELSE fd'[b] = fd[b] \/ (sockFd = b /\ sockFd' = None /\ fd'[b] = "closed")
  <2>1. CASE err
    <3>1. /\ Drop(S, sockFd) \in [Attempts -> Fates]
          /\ \A b \in Attempts :
              Drop(S, sockFd)[b] = IF b = sockFd /\ ~Pinned(S, b) THEN "closed" ELSE fd[b]
      BY <1>0, Dropped
    <3> HIDE DEF S
    <3> QED
      BY <1>0, <1>3, <1>6, <2>1, <3>1
  <2>2. CASE ~err
    BY <1>0, <1>3, <2>2, TypeFacts DEF Fates
  <2> QED
    BY <2>1, <2>2
<1>9. ASSUME NEW b \in Attempts PROVE OwnedAt(b)'
  <2>1. OwnedAt(b) /\ ~HasFrame("resolved", b) /\ (Kept(b) => b = a)
    BY <1>0, <1>1, Owned, EmptyTail DEF Kept
  <2>2. b # None /\ (sockFd = b => b = a)
    BY <1>0, <1>4 DEF MembersFresh, Unanswered
  <2>3. CASE b = a
    <3>1. fd'[b] \in {"connected", fd[b]} /\ Kept(b)' /\ (sockFd' = b => fd'[b] = "connected")
      BY <1>7, <1>8, <2>2, <2>3
    <3> QED
      BY <1>5, <2>1, <3>1 DEF OwnedAt
  <2>4. CASE b # a
    <3>1. fd'[b] = fd[b] /\ sockFd' # b /\ sockFd # b
      BY <1>8, <2>2, <2>4
    <3> QED
      BY <1>5, <2>1, <2>4, <3>1 DEF OwnedAt
  <2> QED
    BY <2>3, <2>4
<1>10. sockFd' = None \/ (sockFd' = sockFd /\ sockFd = a /\ fd'[a] = "connected")
  BY <1>0, <1>4, <1>8 DEF MembersFresh, Unanswered
<1>11. answers[a] <= 1
  BY <1>4 DEF Unanswered
<1> HIDE DEF S
<1>12. stack' = <<Frame("callback", a)>> \o <<Frame("answered", a)>>
  BY <1>3 DEF S
<1> QED
  BY <1>3, <1>4, <1>5, <1>8, <1>9, <1>10, <1>11, <1>12, AnswerKeeps

LEMMA RunResolvedKeeps ==
  ASSUME IInv, RunResolved
  PROVE  IInv'
<1>0. /\ TypeOK /\ OnePhase /\ DescriptorsOwned /\ TasksOnce /\ MembersFresh
      /\ stack = <<>> /\ queue # <<>> /\ queue' = Tail(queue) /\ Head(queue).op = "resolved"
      /\ UNCHANGED <<calls, current, resolving, closing, held, atOnce, closed>>
  BY DEF IInv, RunResolved
<1>1. /\ queue' \in Seq(Tasks) /\ TasksOnce' /\ Head(queue) \in Tasks
      /\ HasTask("resolved", Head(queue).a)
      /\ \A u : Holds(u) => Holds(u)' \/ u = Head(queue)
      /\ \A op, b : HasTask(op, b)' => HasTask(op, b)
  BY <1>0, Dequeue
<1>2. PICK a \in Attempts : a = Head(queue).a
  BY <1>1 DEF Tasks
<1>3. ~NotBegun(a) /\ sockFd # a
  BY <1>0, <1>1, <1>2 DEF OnePhase, Untouched
<1>4. CASE asyncConCb # a
  <2>1. /\ fd' = IF Head(queue).ok THEN [fd EXCEPT ![a] = "closed"] ELSE fd
        /\ UNCHANGED <<stack, asyncConCb, conTimer, sockFd, answers>>
    BY <1>2, <1>4 DEF RunResolved
  <2> QED
    BY <1>0, <1>2, <2>1, TaskDone
<1>5. CASE asyncConCb = a /\ Head(queue).ok
  <2>1. PICK f \in Frames : f = Frame("resolved", a)
    BY DEF Frames, Frame
  <2>2. f.at = "resolved" /\ f.a = a
    BY <2>1 DEF Frame
  <2>3. stack' = <<f>> /\ UNCHANGED <<asyncConCb, conTimer, sockFd, fd, answers>>
    BY <1>2, <1>5, <2>1 DEF RunResolved, socketVars
  <2>4. Unanswered(a)
    BY <1>0, <1>5 DEF MembersFresh
  <2> QED
    BY <1>0, <1>2, <1>3, <2>2, <2>3, <2>4, BeginKeeps
<1>6. CASE asyncConCb = a /\ ~Head(queue).ok
  <2>1. /\ asyncConCb' = None /\ conTimer' = None /\ sockFd' = None
        /\ fd' = Drop(<<>>, sockFd) /\ answers' = [answers EXCEPT ![a] = @ + 1]
        /\ stack' = <<Frame("callback", a)>>
    <3>1. <<Frame("callback", a)>> \o <<>> = <<Frame("callback", a)>>
      OBVIOUS
    <3> QED
      BY <1>2, <1>6, <3>1 DEF RunResolved, ConCb
  <2>2. answers[a] <= 1
    BY <1>0, <1>6 DEF MembersFresh, Unanswered
  <2>3. fd' \in [Attempts -> Fates]
    BY <1>0, <2>1, DroppedAll
  <2>4. ASSUME NEW b \in Attempts PROVE OwnedAt(b)'
    <3>1. OwnedAt(b) /\ ~HasFrame("resolved", b) /\ ~Kept(b)
      BY <1>0, Owned, NoFrames DEF Kept
    <3>2. fd'[b] = IF b = sockFd THEN "closed" ELSE fd[b]
      BY <1>0, <2>1, DroppedAll
    <3>3. Task("resolved", b, TRUE) # Head(queue) /\ Task("gone", b, TRUE) # Head(queue)
      BY <1>0, <1>6 DEF Task
    <3> QED
      BY <1>1, <2>1, <3>1, <3>2, <3>3 DEF OwnedAt
  <2> QED
    BY <1>0, <1>1, <1>3, <2>1, <2>2, <2>3, <2>4, AnswerKeeps
<1> QED
  BY <1>4, <1>5, <1>6

(* The descriptor the worker opened becomes the socket's, or is dropped.   *)
LEMMA WatchKeeps ==
  ASSUME IInv, Watch
  PROVE  IInv'
<1>0. /\ TypeOK /\ OnePhase /\ FramesFresh /\ StackShape /\ DescriptorsOwned /\ TasksOnce
      /\ MembersFresh /\ stack # <<>> /\ Head(stack).at = "resolved"
      /\ UNCHANGED <<calls, current, queue, resolving, closing, held, atOnce, closed>>
  BY DEF IInv, Watch, Top
<1>1. PICK a \in Attempts : a = Self
  BY <1>0, EmptyTail
<1>2. /\ Tail(stack) = <<>>
      /\ \A at, b : HasFrame(at, b) <=> at = "resolved" /\ b = a
  BY <1>0, <1>1, EmptyTail
<1>3. /\ Unanswered(a) /\ ~NotBegun(a) /\ a \notin resolving
      /\ ~HasTask("resolved", a) /\ ~HasTask("gone", a) /\ sockFd # a
  <2>1. 1 \in DOMAIN stack /\ stack[1].at = "resolved" /\ stack[1].a = a
    BY <1>0, <1>1, StackType DEF Self
  <2> QED
    BY <1>0, <1>2, <2>1 DEF FramesFresh, OnePhase, Untouched
<1>4. /\ \A op, b : HasTask(op, b)' <=> HasTask(op, b)
      /\ \A u : Holds(u)' <=> Holds(u)
      /\ TasksOnce' /\ queue' \in Seq(Tasks)
  BY <1>0, TypeFacts DEF HasTask, Holds, TasksOnce
<1>5. CASE /\ held /\ sockFd' = a /\ fd' = [Drop(<<>>, sockFd) EXCEPT ![a] = "watched"]
           /\ stack' = Tail(stack)
           /\ UNCHANGED <<asyncConCb, conTimer, answers>>
  <2>1. /\ fd' \in [Attempts -> Fates]
        /\ \A b \in Attempts :
             fd'[b] = IF b = a THEN "watched" ELSE IF b = sockFd THEN "closed" ELSE fd[b]
    BY <1>0, <1>5, DroppedAll DEF Fates
  <2>2. stack' \in Seq(Frames) /\ DOMAIN stack' = {} /\ \A at, b : ~HasFrame(at, b)'
    <3>1. stack' = <<>>
      BY <1>2, <1>5
    <3>2. DOMAIN stack' = {}
      BY <3>1
    <3> QED
      BY <3>1, <3>2 DEF HasFrame
  <2>3. TypeOK'
    BY <1>0, <1>4, <1>5, <2>1, <2>2, TypeFacts, TypeIntro
  <2>4. StackShape' /\ FramesFresh'
    BY <2>2 DEF StackShape, FramesFresh
  <2>5. MembersFresh'
    BY <1>0, <1>3, <1>5 DEF MembersFresh, Unanswered, Late
  <2>6. \A b \in Attempts : NotBegun(b)' => NotBegun(b) /\ b # a
    BY <1>0, <1>3, <1>4 DEF NotBegun
  <2>7. \A b \in Attempts : Untouched(b) /\ b # a => Untouched(b)'
    BY <1>0, <1>4, <1>5, <2>2 DEF Untouched
  <2>8. OnePhase'
    BY <1>0, <1>3, <1>4, <1>5, <2>2, <2>6, <2>7 DEF OnePhase
  <2>9. ASSUME NEW b \in Attempts PROVE OwnedAt(b)'
    <3>1. OwnedAt(b) /\ ~Kept(b) /\ (HasFrame("resolved", b) => b = a)
      BY <1>0, <1>2, Owned DEF Kept
    <3> QED
      BY <1>4, <1>5, <2>1, <3>1 DEF OwnedAt
  <2>10. DescriptorsOwned'
    <3>1. (TypeOK => (DescriptorsOwned <=> \A b \in Attempts : OwnedAt(b)))'
      BY Owned, PTL
    <3> QED
      BY <2>3, <2>9, <3>1
  <2> QED
    BY <1>4, <2>3, <2>4, <2>5, <2>8, <2>10 DEF IInv
<1>6. CASE /\ asyncConCb' = None /\ conTimer' = None /\ sockFd' = None
           /\ fd' = [Drop(<<>>, sockFd) EXCEPT ![a] = "closed"]
           /\ answers' = [answers EXCEPT ![a] = @ + 1]
           /\ stack' = <<Frame("callback", a)>>
  <2>1. /\ fd' \in [Attempts -> Fates]
        /\ \A b \in Attempts : fd'[b] = IF b = a \/ b = sockFd THEN "closed" ELSE fd[b]
    BY <1>0, <1>6, DroppedAll DEF Fates
  <2>2. ASSUME NEW b \in Attempts PROVE OwnedAt(b)'
    <3>1. OwnedAt(b) /\ ~Kept(b) /\ (HasFrame("resolved", b) => b = a)
      BY <1>0, <1>2, Owned DEF Kept
    <3> QED
      BY <1>4, <1>6, <2>1, <3>1 DEF OwnedAt
  <2>3. answers[a] <= 1
    BY <1>3 DEF Unanswered
  <2> QED
    BY <1>0, <1>3, <1>4, <1>6, <2>1, <2>2, <2>3, AnswerKeeps
<1>7. CASE /\ ~held /\ asyncConCb' = None /\ conTimer' = None /\ sockFd' = None
           /\ fd' = [Drop(<<>>, sockFd) EXCEPT ![a] = "closed"]
           /\ stack' = Tail(stack)
           /\ UNCHANGED answers
  <2>1. /\ fd' \in [Attempts -> Fates]
        /\ \A b \in Attempts :
             fd'[b] = IF b = a \/ b = sockFd THEN "closed" ELSE fd[b]
    BY <1>0, <1>7, DroppedAll DEF Fates
  <2>2. stack' \in Seq(Frames) /\ DOMAIN stack' = {} /\ \A at, b : ~HasFrame(at, b)'
    <3>1. stack' = <<>>
      BY <1>2, <1>7
    <3>2. DOMAIN stack' = {}
      BY <3>1
    <3> QED
      BY <3>1, <3>2 DEF HasFrame
  <2>3. TypeOK'
    BY <1>0, <1>4, <1>7, <2>1, <2>2, TypeFacts, TypeIntro
  <2>4. StackShape' /\ FramesFresh'
    BY <2>2 DEF StackShape, FramesFresh
  <2>5. MembersFresh'
    BY <1>0, <1>3, <1>7 DEF MembersFresh, Unanswered, Late
  <2>6. \A b \in Attempts : NotBegun(b)' => NotBegun(b) /\ b # a
    BY <1>0, <1>3, <1>4 DEF NotBegun
  <2>7. \A b \in Attempts : Untouched(b) /\ b # a => Untouched(b)'
    BY <1>0, <1>4, <1>7, <2>2 DEF Untouched
  <2>8. OnePhase'
    BY <1>0, <1>3, <1>4, <1>7, <2>2, <2>6, <2>7 DEF OnePhase
  <2>9. ASSUME NEW b \in Attempts PROVE OwnedAt(b)'
    <3>1. OwnedAt(b) /\ ~Kept(b) /\ (HasFrame("resolved", b) => b = a)
      BY <1>0, <1>2, Owned DEF Kept
    <3> QED
      BY <1>4, <1>7, <2>1, <3>1 DEF OwnedAt
  <2>10. DescriptorsOwned'
    <3>1. (TypeOK => (DescriptorsOwned <=> \A b \in Attempts : OwnedAt(b)))'
      BY Owned, PTL
    <3> QED
      BY <2>3, <2>9, <3>1
  <2> QED
    BY <1>4, <2>3, <2>4, <2>5, <2>8, <2>10 DEF IInv
<1> QED
  BY <1>1, <1>5, <1>6, <1>7 DEF Watch

(***************************************************************************)
(* The steps that queue what begins an attempt, or the resolver's answer.  *)
(***************************************************************************)
LEMMA ConnectKeeps ==
  ASSUME IInv, NEW kind \in {"name", "ip"}, Connect(kind)
  PROVE  IInv'
<1>0. /\ TypeOK /\ OnePhase /\ FramesFresh /\ StackShape /\ DescriptorsOwned /\ TasksOnce
      /\ MembersFresh /\ calls < MaxAttempts
      /\ UNCHANGED <<current, stack, resolving, asyncConCb, conTimer, sockFd, fd, closing, held,
                     answers, atOnce, closed>>
  BY DEF IInv, Connect, socketVars, ledger
<1>1. PICK c \in Attempts : c = calls + 1
  BY <1>0, TypeFacts DEF Attempts
<1>2. PICK t \in Tasks : t = Task(kind, c, TRUE)
  BY DEF Task, Tasks
<1>3. calls' = c /\ queue' = Append(queue, t) /\ t.op = kind /\ t.a = c /\ calls < c
  BY <1>0, <1>1, <1>2, TypeFacts DEF Connect, Task
<1>4. /\ queue' \in Seq(Tasks) /\ TasksOnce'
      /\ \A u : Holds(u)' <=> Holds(u) \/ u = t
      /\ \A op, b : HasTask(op, b)' <=> HasTask(op, b) \/ (kind = op /\ c = b)
  <2>1. ~HasTask("name", c) /\ ~HasTask("ip", c) /\ ~HasTask("resolved", c)
    BY <1>0, <1>3 DEF OnePhase, NotBegun, Untouched
  <2>2. \A op \in Early : ~HasTask(op, t.a)
    BY <1>3, <2>1 DEF Early
  <2> QED
    BY <1>0, <1>3, <2>2, Enqueue
<1>5. TypeOK'
  BY <1>0, <1>1, <1>3, <1>4, TypeFacts, TypeIntro DEF Attempts
<1>6. \A b \in Attempts : calls' < b => calls < b /\ b # c
  BY <1>1, <1>3, <1>0, TypeFacts DEF Attempts
<1>7. \A b \in Attempts : NotBegun(b)' => NotBegun(b)
  BY <1>3, <1>4, <1>6 DEF NotBegun
<1>8. \A at, b : HasFrame(at, b)' <=> HasFrame(at, b)
  BY <1>0 DEF HasFrame
<1>9. \A b \in Attempts : Untouched(b) => Untouched(b)'
  BY <1>0, <1>4 DEF Untouched
<1>10. OnePhase'
  BY <1>0, <1>4, <1>6, <1>7, <1>8, <1>9 DEF OnePhase
<1>11. StackShape' /\ FramesFresh' /\ MembersFresh'
  BY <1>0 DEF StackShape, FramesFresh, MembersFresh, Unanswered, Late
<1>12. ASSUME NEW b \in Attempts PROVE OwnedAt(b)'
  <2>1. OwnedAt(b)
    BY <1>0, Owned
  <2> QED
    BY <1>0, <1>4, <1>8, <2>1 DEF OwnedAt, Kept
<1>13. DescriptorsOwned'
  <2>1. (TypeOK => (DescriptorsOwned <=> \A b \in Attempts : OwnedAt(b)))'
    BY Owned, PTL
  <2> QED
    BY <1>5, <1>12, <2>1
<1> QED
  BY <1>4, <1>5, <1>10, <1>11, <1>13 DEF IInv

LEMMA ResolveKeeps ==
  ASSUME IInv, NEW a \in Attempts, NEW ok \in BOOLEAN, Resolve(a, ok)
  PROVE  IInv'
<1>0. /\ TypeOK /\ OnePhase /\ FramesFresh /\ StackShape /\ DescriptorsOwned /\ TasksOnce
      /\ MembersFresh /\ a \in resolving /\ resolving' = resolving \ {a}
      /\ fd' = IF ok THEN [fd EXCEPT ![a] = "open"] ELSE fd
      /\ UNCHANGED <<calls, current, stack, asyncConCb, conTimer, sockFd, closing, held,
                     answers, atOnce, closed>>
  BY DEF IInv, Resolve, ledger
<1>1. PICK t \in Tasks : t = Task("resolved", a, ok)
  BY DEF Task, Tasks
<1>2. queue' = Append(queue, t) /\ t.op = "resolved" /\ t.a = a
  BY <1>1 DEF Resolve, Task
<1>3. /\ ~NotBegun(a) /\ ~HasTask("resolved", a) /\ ~HasFrame("resolved", a)
      /\ sockFd # a /\ ~HasTask("gone", a)
  BY <1>0 DEF OnePhase, Untouched
<1>4. /\ queue' \in Seq(Tasks) /\ TasksOnce'
      /\ \A u : Holds(u)' <=> Holds(u) \/ u = t
      /\ \A op, b : HasTask(op, b)' <=> HasTask(op, b) \/ (op = "resolved" /\ b = a)
  <2>1. \A op \in Early : ~HasTask(op, t.a)
    BY <1>2, <1>3 DEF Early, NotBegun
  <2> QED
    BY <1>0, <1>2, <2>1, Enqueue
<1>5. /\ fd' \in [Attempts -> Fates]
      /\ \A b \in Attempts : IF b = a /\ ok THEN fd'[b] = "open" ELSE fd'[b] = fd[b]
  BY <1>0, TypeFacts DEF Fates
<1>6. TypeOK'
  BY <1>0, <1>4, <1>5, TypeFacts, TypeIntro
<1>7. \A b \in Attempts : NotBegun(b)' => NotBegun(b) /\ b # a
  BY <1>0, <1>3, <1>4 DEF NotBegun
<1>8. \A at, b : HasFrame(at, b)' <=> HasFrame(at, b)
  BY <1>0 DEF HasFrame
<1>9. \A b \in Attempts : Untouched(b) /\ b # a => Untouched(b)'
  BY <1>0, <1>4 DEF Untouched
<1>10. OnePhase'
  BY <1>0, <1>3, <1>4, <1>7, <1>8, <1>9 DEF OnePhase
<1>11. StackShape' /\ FramesFresh'
  BY <1>0 DEF StackShape, FramesFresh, Unanswered, Late
<1>12. MembersFresh'
  <2>1. sockFd # None => fd'[sockFd] = fd[sockFd]
    BY <1>0, <1>3, <1>5, TypeFacts
  <2> QED
    BY <1>0, <2>1 DEF MembersFresh, Unanswered, Late
<1>13. ASSUME NEW b \in Attempts PROVE OwnedAt(b)'
  <2>1. OwnedAt(b)
    BY <1>0, Owned
  <2>2. CASE b = a /\ ok
    <3>1. t = Task("resolved", b, TRUE)
      BY <1>1, <2>2
    <3> QED
      BY <1>0, <1>3, <1>4, <1>5, <2>2, <3>1 DEF OwnedAt
  <2>3. CASE ~(b = a /\ ok)
    BY <1>0, <1>4, <1>5, <1>8, <2>1, <2>3 DEF OwnedAt, Kept
  <2> QED
    BY <2>2, <2>3
<1>14. DescriptorsOwned'
  <2>1. (TypeOK => (DescriptorsOwned <=> \A b \in Attempts : OwnedAt(b)))'
    BY Owned, PTL
  <2> QED
    BY <1>6, <1>13, <2>1
<1> QED
  BY <1>4, <1>6, <1>10, <1>11, <1>12, <1>14 DEF IInv

(***************************************************************************)
(* connect_l.  It runs on an empty stack, or under the user's callback,    *)
(* where every connect_l still in progress failed.                         *)
(***************************************************************************)

(* The queue after connect_l: what asked for it is gone.                   *)
Begun(a) ==
  /\ queue' \in Seq(Tasks) /\ TasksOnce'
  /\ calls' \in 0 .. MaxAttempts /\ \A b \in Attempts : calls' < b => calls < b /\ b # a
  /\ \A op, b : HasTask(op, b)' => HasTask(op, b)
  /\ ~HasTask("name", a)' /\ ~HasTask("ip", a)'
  /\ \A b \in Attempts : Holds(Task("resolved", b, TRUE)) => Holds(Task("resolved", b, TRUE))'
  /\ \A b \in Attempts : Holds(Task("gone", b, TRUE)) => Holds(Task("gone", b, TRUE))'

(* The frames on the stack of connect_l: those a later attempt harms not.  *)
LEMMA CallersAnswered ==
  ASSUME IInv, stack = <<>> \/ Top("callback")
  PROVE  \A i \in DOMAIN stack :
           /\ stack[i].at \notin {"resolved", "event", "timeout"}
           /\ stack[i].at = "answered" => i = Len(stack)
           /\ stack[i].at = "arm" => stack[i].a \in atOnce /\ answers[stack[i].a] <= 1
<1>0. TypeOK /\ StackShape /\ FramesFresh
  BY DEF IInv
<1> SUFFICES ASSUME NEW i \in DOMAIN stack
             PROVE  /\ stack[i].at \notin {"resolved", "event", "timeout"}
                    /\ stack[i].at = "answered" => i = Len(stack)
                    /\ stack[i].at = "arm" => stack[i].a \in atOnce /\ answers[stack[i].a] <= 1
  OBVIOUS
<1>1. stack # <<>> /\ stack[1].at = "callback"
  BY <1>0, NoFrames, StackType DEF Top
<1>2. i \in Nat /\ (i = 1 \/ i > 1)
  BY <1>0, StackType
<1> QED
  BY <1>0, <1>1, <1>2 DEF StackShape, FramesFresh, Late

(* What all of connect_l's branches have in common, when they put the      *)
(* frames of a on the stack.                                               *)
LEMMA BegunKeeps ==
  ASSUME IInv, stack = <<>> \/ Top("callback"), NEW a \in Attempts, NotBegun(a), Begun(a),
         current' = a, conTimer' = None, UNCHANGED <<closing, held, closed>>,
         asyncConCb' \in {None, a}, sockFd' \in {None, a},
         resolving' = resolving \/ (resolving' = resolving \union {a} /\ sockFd' = None),
         fd' \in [Attempts -> Fates], \A b \in Attempts : OwnedAt(b)',
         \/ answers' = answers /\ atOnce' = atOnce /\ stack' = <<Frame("arm", a)>> \o stack
         \/ /\ answers' = [answers EXCEPT ![a] = @ + 1] /\ atOnce' = atOnce \union {a}
            /\ asyncConCb' = None /\ sockFd' = None
            /\ stack' = <<Frame("callback", a), Frame("arm", a)>> \o stack
  PROVE  IInv'
<1>0. /\ TypeOK /\ OnePhase /\ StackShape /\ FramesFresh /\ MembersFresh /\ Untouched(a)
  BY DEF IInv, OnePhase
<1>1. /\ answers' \in [Attempts -> 0 .. 2] /\ atOnce' \in SUBSET Attempts
      /\ atOnce \subseteq atOnce'
      /\ \A b \in Attempts : b # a => answers'[b] = answers[b]
      /\ answers'[a] <= 1
      /\ answers'[a] = 0 \/ (asyncConCb' = None /\ sockFd' = None /\ a \in atOnce')
  <2>1. answers \in [Attempts -> 0 .. 2] /\ answers[a] = 0
    BY <1>0, TypeFacts DEF Untouched
  <2> QED
    BY <2>1, <1>0, TypeFacts
<1>2. /\ stack' \in Seq(Frames)
      /\ \A b : HasFrame("resolved", b)' => HasFrame("resolved", b)
      /\ \A i \in DOMAIN stack' :
           \/ /\ stack'[i].a = a /\ stack'[i].at \in {"callback", "arm"}
              /\ i > 1 => a \in atOnce'
           \/ \E j \in DOMAIN stack : /\ stack'[i] = stack[j]
                                      /\ j = Len(stack) => i = Len(stack')
  <2>0. Frame("callback", a) \in Frames /\ Frame("arm", a) \in Frames
    BY DEF Frame, Frames
  <2>1. CASE stack' = <<Frame("arm", a)>> \o stack
    <3>1. /\ stack' \in Seq(Frames) /\ stack'[1] = Frame("arm", a)
          /\ Len(stack') = Len(stack) + 1
          /\ \A i \in DOMAIN stack' : i = 1 \/ (i - 1 \in DOMAIN stack /\ stack'[i] = stack[i - 1])
          /\ \A b : HasFrame("resolved", b)' => HasFrame("resolved", b)
          /\ DOMAIN stack' = 1 .. Len(stack) + 1
      BY <1>0, <2>0, <2>1, Pushed DEF Frame
    <3>2. ASSUME NEW i \in DOMAIN stack', i # 1
          PROVE  \E j \in DOMAIN stack : stack'[i] = stack[j] /\ (j = Len(stack) => i = Len(stack'))
      <4>1. i - 1 \in DOMAIN stack /\ stack'[i] = stack[i - 1]
        BY <3>1, <3>2
      <4>2. i - 1 = Len(stack) => i = Len(stack')
        BY <1>0, <3>1, <3>2, StackType
      <4> QED
        BY <4>1, <4>2
    <3>3. ASSUME NEW i \in DOMAIN stack', i = 1
          PROVE  stack'[i].a = a /\ stack'[i].at \in {"callback", "arm"} /\ ~(i > 1)
      BY <3>1, <3>3 DEF Frame
    <3> QED
      BY <3>1, <3>2, <3>3
  <2>2. CASE /\ stack' = <<Frame("callback", a), Frame("arm", a)>> \o stack
             /\ atOnce' = atOnce \union {a}
    <3>1. /\ stack' \in Seq(Frames) /\ stack'[1] = Frame("callback", a)
          /\ stack'[2] = Frame("arm", a) /\ Len(stack') = Len(stack) + 2
          /\ DOMAIN stack' = 1 .. Len(stack) + 2
          /\ \A i \in DOMAIN stack' :
               i = 1 \/ i = 2 \/ (i - 2 \in DOMAIN stack /\ stack'[i] = stack[i - 2])
      BY <1>0, <2>0, <2>2, PushedTwo
    <3>2. \A b : HasFrame("resolved", b)' => HasFrame("resolved", b)
      <4>1. Frame("callback", a).at # "resolved" /\ Frame("arm", a).at # "resolved"
        BY DEF Frame
      <4>2. \A at, b : HasFrame(at, b)' <=>
              \/ HasFrame(at, b)
              \/ Frame("callback", a).at = at /\ Frame("callback", a).a = b
              \/ Frame("arm", a).at = at /\ Frame("arm", a).a = b
        BY <1>0, <2>0, <2>2, PushedTwo
      <4> QED
        BY <4>1, <4>2
    <3>3. ASSUME NEW i \in DOMAIN stack', i # 1, i # 2
          PROVE  \E j \in DOMAIN stack : stack'[i] = stack[j] /\ (j = Len(stack) => i = Len(stack'))
      <4>1. i - 2 \in DOMAIN stack /\ stack'[i] = stack[i - 2]
        BY <3>1, <3>3
      <4>2. i - 2 = Len(stack) => i = Len(stack')
        BY <1>0, <3>1, <3>3, StackType
      <4> QED
        BY <4>1, <4>2
    <3>4. ASSUME NEW i \in DOMAIN stack', i = 1 \/ i = 2
          PROVE  stack'[i].a = a /\ stack'[i].at \in {"callback", "arm"} /\ a \in atOnce'
      BY <2>2, <3>1, <3>4 DEF Frame
    <3> QED
      BY <3>1, <3>2, <3>3, <3>4
  <2> QED
    BY <2>1, <2>2
<1>3. TypeOK'
  <2>1. /\ resolving' \subseteq Attempts /\ closing \subseteq Closers /\ held \in BOOLEAN
        /\ closed \subseteq Attempts
    BY <1>0, TypeFacts
  <2> QED
    BY <1>1, <1>2, <2>1, TypeIntro DEF Begun
<1>4. \A b \in Attempts : NotBegun(b)' => NotBegun(b) /\ b # a
  BY DEF NotBegun, Begun
<1>5. \A b \in Attempts : Untouched(b) /\ b # a => Untouched(b)'
  <2> SUFFICES ASSUME NEW b \in Attempts, Untouched(b), b # a PROVE Untouched(b)'
    OBVIOUS
  <2>1. \A i \in DOMAIN stack' : stack'[i].a # b
    BY <1>2 DEF Untouched
  <2> QED
    BY <1>1, <2>1 DEF Untouched, Begun
<1>6. ~HasFrame("resolved", a)
  BY <1>0 DEF Untouched, HasFrame
<1>7. OnePhase'
  <2> SUFFICES ASSUME NEW b \in Attempts
               PROVE  /\ calls' < b => ~HasTask("name", b)' /\ ~HasTask("ip", b)'
                      /\ NotBegun(b)' => Untouched(b)'
                      /\ b \in resolving' => ~HasTask("resolved", b)' /\ ~HasFrame("resolved", b)'
                      /\ HasTask("resolved", b)' => ~HasFrame("resolved", b)'
                      /\ b \in resolving' \/ HasTask("resolved", b)' \/ HasFrame("resolved", b)'
                           => sockFd' # b /\ ~HasTask("gone", b)'
                      /\ HasTask("gone", b)' => sockFd' # b
    BY DEF OnePhase
  <2>1. calls' < b => ~HasTask("name", b)' /\ ~HasTask("ip", b)'
    BY <1>0 DEF OnePhase, Begun
  <2>2. NotBegun(b)' => Untouched(b)'
    BY <1>0, <1>4, <1>5 DEF OnePhase
  <2>3. /\ HasTask("resolved", b)' => HasTask("resolved", b)
        /\ HasTask("gone", b)' => HasTask("gone", b)
        /\ HasFrame("resolved", b)' => HasFrame("resolved", b)
    BY <1>2 DEF Begun
  <2>4. CASE b = a
    BY <1>0, <1>6, <2>1, <2>2, <2>3, <2>4 DEF Untouched
  <2>5. CASE b # a
    <3>1. sockFd' # b /\ (b \in resolving' => b \in resolving)
      BY <2>5
    <3> QED
      BY <1>0, <2>1, <2>2, <2>3, <3>1 DEF OnePhase
  <2> QED
    BY <2>4, <2>5
<1>8. StackShape'
  BY <1>2, CallersAnswered DEF StackShape
<1>9. FramesFresh'
  <2> SUFFICES ASSUME NEW i \in DOMAIN stack'
               PROVE  /\ stack'[i].at \in {"resolved", "event"} => Unanswered(stack[i].a)'
                      /\ stack'[i].at \in {"arm", "timeout"} => Late(stack[i].a)'
                      /\ stack'[i].at = "arm" /\ i > 1 => stack'[i].a \in atOnce'
    BY DEF FramesFresh
  <2>1. CASE /\ stack'[i].a = a /\ stack'[i].at \in {"callback", "arm"}
             /\ i > 1 => a \in atOnce'
    BY <1>1, <2>1 DEF Late, Unanswered
  <2>2. CASE \E j \in DOMAIN stack : stack'[i] = stack[j]
    <3>1. PICK j \in DOMAIN stack : stack'[i] = stack[j]
      BY <2>2
    <3>2. stack[j].a \in Attempts /\ stack[j].a # a
      BY <1>0, StackType DEF Frames, Untouched
    <3>3. /\ stack[j].at \notin {"resolved", "event", "timeout"}
          /\ stack[j].at = "arm" => stack[j].a \in atOnce /\ answers[stack[j].a] <= 1
      BY CallersAnswered
    <3>4. /\ stack'[i].at \notin {"resolved", "event", "timeout"}
          /\ stack'[i].at = "arm" => stack'[i].a \in atOnce' /\ answers'[stack'[i].a] <= 1
      BY <1>1, <3>1, <3>2, <3>3
    <3> QED
      BY <3>4 DEF Late
  <2> QED
    BY <1>2, <2>1, <2>2
<1>10. MembersFresh'
  BY <1>0, <1>1 DEF MembersFresh, Unanswered
<1>11. DescriptorsOwned'
  <2>1. (TypeOK => (DescriptorsOwned <=> \A b \in Attempts : OwnedAt(b)))'
    BY Owned, PTL
  <2> QED
    BY <1>3, <2>1
<1> QED
  BY <1>3, <1>7, <1>8, <1>9, <1>10, <1>11 DEF IInv, Begun

LEMMA ConnectLKeeps ==
  ASSUME IInv, stack = <<>> \/ Top("callback"), NEW a \in Attempts, NotBegun(a), Begun(a),
         NEW kind, ConnectL(kind, a, stack)
  PROVE  IInv'
<1>0. /\ TypeOK /\ DescriptorsOwned /\ Untouched(a) /\ current' = a
      /\ UNCHANGED <<closing, held, closed>>
  BY DEF IInv, OnePhase, ConnectL
<1>1. /\ Drop(stack, sockFd) \in [Attempts -> Fates]
      /\ \A b \in Attempts :
           Drop(stack, sockFd)[b] = IF b = sockFd /\ ~Kept(b) THEN "closed" ELSE fd[b]
  BY <1>0, Dropped, PinnedIsKept
<1>2. \A b \in Attempts : OwnedAt(b)
  BY <1>0, Owned
<1>3. /\ \A b : ~HasFrame("resolved", b)
      /\ ~Kept(a) /\ sockFd # a
  <2>1. \A b : ~HasFrame("resolved", b)
    BY CallersAnswered DEF HasFrame
  <2> QED
    BY <1>0, <2>1 DEF Untouched, Kept, HasFrame
<1>4. /\ Frame("arm", a) \in Frames /\ Frame("callback", a) \in Frames
  BY DEF Frame, Frames
<1>5. ASSUME \/ stack' = <<Frame("arm", a)>> \o stack
             \/ stack' = <<Frame("callback", a), Frame("arm", a)>> \o stack
      PROVE  \A b : Kept(b) => Kept(b)'
  <2>1. \A at, b : HasFrame(at, b) => HasFrame(at, b)'
    BY <1>0, <1>4, <1>5, Pushed, PushedTwo
  <2> QED
    BY <2>1 DEF Kept
<1>6. ASSUME \A b \in Attempts :
               \/ sockFd' = None /\ fd'[b] = Drop(stack, sockFd)[b]
               \/ sockFd' \in {None, a} /\ b # a /\ fd'[b] = Drop(stack, sockFd)[b]
               \/ sockFd' = None /\ b = a /\ fd'[b] \in {"none", "closed"}
               \/ sockFd' = a /\ b = a /\ fd'[b] = "watched",
             \A b : Kept(b) => Kept(b)'
      PROVE  \A b \in Attempts : OwnedAt(b)'
  <2> SUFFICES ASSUME NEW b \in Attempts PROVE OwnedAt(b)'
    OBVIOUS
  <2>1. CASE b = a /\ \/ fd'[b] \in {"none", "closed"} /\ sockFd' = None
                      \/ fd'[b] = "watched" /\ sockFd' = a
    BY <1>6, <2>1 DEF OwnedAt
  <2>2. CASE fd'[b] = Drop(stack, sockFd)[b] /\ sockFd' # b
    <3>1. fd'[b] = IF b = sockFd /\ ~Kept(b) THEN "closed" ELSE fd[b]
      BY <1>1, <2>2
    <3> QED
      BY <1>2, <1>3, <1>6, <2>2, <3>1 DEF OwnedAt, Begun
  <2> QED
    BY <1>6, <2>1, <2>2
<1>7. CASE ConnectName(a, stack)
  <2>1. /\ resolving' = resolving \union {a} /\ asyncConCb' = a /\ conTimer' = None
        /\ sockFd' = None /\ fd' = Drop(stack, sockFd)
        /\ stack' = <<Frame("arm", a)>> \o stack /\ UNCHANGED <<answers, atOnce>>
    BY <1>7 DEF ConnectName
  <2>2. \A b \in Attempts : OwnedAt(b)'
    <3>1. \A b \in Attempts : sockFd' = None /\ fd'[b] = Drop(stack, sockFd)[b]
      BY <2>1
    <3> QED
      BY <1>5, <1>6, <2>1, <3>1
  <2> QED
    BY <1>0, <1>1, <2>1, <2>2, BegunKeeps
<1>8. CASE ConnectIp(a, stack)
  <2>0. asyncConCb' = None /\ conTimer' = None /\ resolving' = resolving
    BY <1>8 DEF ConnectIp
  <2>1. CASE /\ sockFd' = a
             /\ fd' = [Drop(stack, sockFd) EXCEPT ![a] = "watched"]
             /\ stack' = <<Frame("arm", a)>> \o stack
             /\ UNCHANGED <<answers, atOnce>>
    <3>1. /\ fd' \in [Attempts -> Fates]
          /\ \A b \in Attempts : IF b = a THEN fd'[b] = "watched"
                                 ELSE fd'[b] = Drop(stack, sockFd)[b]
      BY <1>1, <2>1 DEF Fates
    <3>2. \A b \in Attempts : OwnedAt(b)'
      BY <1>5, <1>6, <2>1, <3>1
    <3> QED
      BY <1>0, <2>0, <2>1, <3>1, <3>2, BegunKeeps
  <2>2. CASE /\ sockFd' = None
             /\ \E f \in {"none", "closed"} : fd' = [Drop(stack, sockFd) EXCEPT ![a] = f]
             /\ stack' = <<Frame("callback", a), Frame("arm", a)>> \o stack
             /\ answers' = [answers EXCEPT ![a] = @ + 1]
             /\ atOnce' = atOnce \union {a}
    <3>1. /\ fd' \in [Attempts -> Fates]
          /\ \A b \in Attempts : IF b = a THEN fd'[b] \in {"none", "closed"}
                                 ELSE fd'[b] = Drop(stack, sockFd)[b]
      BY <1>1, <2>2 DEF Fates
    <3>2. \A b \in Attempts : OwnedAt(b)'
      BY <1>5, <1>6, <2>2, <3>1
    <3> QED
      BY <1>0, <2>0, <2>2, <3>1, <3>2, BegunKeeps
  <2> QED
    BY <1>8, <2>1, <2>2 DEF ConnectIp
<1> QED
  BY <1>7, <1>8 DEF ConnectL

LEMMA RunConnectKeeps ==
  ASSUME IInv, RunConnect
  PROVE  IInv'
<1>0. /\ TypeOK /\ OnePhase /\ TasksOnce /\ stack = <<>> /\ queue # <<>>
      /\ queue' = Tail(queue) /\ Head(queue).op \in {"name", "ip"}
  BY DEF IInv, RunConnect
<1>1. /\ queue' \in Seq(Tasks) /\ TasksOnce' /\ Head(queue) \in Tasks
      /\ HasTask(Head(queue).op, Head(queue).a)
      /\ \A u : Holds(u) => Holds(u)' \/ u = Head(queue)
      /\ \A op, b : HasTask(op, b)' => HasTask(op, b)
      /\ \A op \in Early, b \in Attempts : b = Head(queue).a => ~HasTask(op, b)'
  BY <1>0, Dequeue DEF Early
<1>2. CASE ~held
  BY <1>0, <1>2, TaskDone DEF RunConnect, socketVars, ledger
<1>3. CASE held
  <2>1. PICK a \in Attempts : a = Head(queue).a
    BY <1>1 DEF Tasks
  <2>2. ConnectL(Head(queue).op, a, stack) /\ calls' = calls
    BY <1>3, <2>1 DEF RunConnect
  <2>3. NotBegun(a)
    BY <1>0, <1>1, <2>1 DEF NotBegun
  <2>4. ~(calls < a)
    BY <1>0, <1>1, <2>1 DEF OnePhase
  <2>5. Begun(a)
    <3>1. \A b : Task("resolved", b, TRUE) # Head(queue) /\ Task("gone", b, TRUE) # Head(queue)
      BY <1>0 DEF Task
    <3>2. ~HasTask("name", a)' /\ ~HasTask("ip", a)'
      BY <1>1, <2>1 DEF Early
    <3>3. calls \in 0 .. MaxAttempts
      BY <1>0, TypeFacts
    <3> QED
      BY <1>1, <2>2, <2>4, <3>1, <3>2, <3>3 DEF Begun
  <2> QED
    BY <1>0, <2>2, <2>3, <2>5, ConnectLKeeps
<1> QED
  BY <1>2, <1>3

LEMMA ConnectInCallbackKeeps ==
  ASSUME IInv, NEW kind \in {"name", "ip"}, ConnectInCallback(kind)
  PROVE  IInv'
<1>0. /\ TypeOK /\ OnePhase /\ TasksOnce /\ calls < MaxAttempts /\ queue' = queue
      /\ Top("callback")
  BY DEF IInv, ConnectInCallback
<1>1. PICK a \in Attempts : a = calls + 1
  BY <1>0, TypeFacts DEF Attempts
<1>2. ConnectL(kind, a, stack) /\ calls' = a
  BY <1>1 DEF ConnectInCallback
<1>3. calls < a /\ NotBegun(a) /\ ~HasTask("name", a) /\ ~HasTask("ip", a)
  BY <1>0, <1>1, TypeFacts DEF NotBegun, OnePhase
<1>4. Begun(a)
  <2>1. \A b \in Attempts : calls' < b => calls < b /\ b # a
    BY <1>0, <1>1, <1>2, TypeFacts DEF Attempts
  <2>2. calls' \in 0 .. MaxAttempts
    BY <1>2 DEF Attempts
  <2>3. /\ queue' \in Seq(Tasks) /\ TasksOnce'
        /\ \A op, b : HasTask(op, b)' <=> HasTask(op, b)
        /\ \A u : Holds(u)' <=> Holds(u)
    BY <1>0, TypeFacts DEF TasksOnce, HasTask, Holds
  <2> QED
    BY <1>3, <2>1, <2>2, <2>3 DEF Begun
<1> QED
  BY <1>0, <1>2, <1>3, <1>4, ConnectLKeeps

(***************************************************************************)
(* The invariant.                                                          *)
(***************************************************************************)
LEMMA InitIInv ==
  ASSUME Init
  PROVE  IInv
<1>1. TypeOK
  <2>1. queue \in Seq(Tasks) /\ stack \in Seq(Frames)
    BY DEF Init
  <2> QED
    BY <2>1 DEF Init, TypeOK, Tasks, Frames
<1>2. DOMAIN queue = {} /\ DOMAIN stack = {}
  BY DEF Init
<1>3. TasksOnce /\ StackShape /\ FramesFresh /\ MembersFresh
  BY <1>2 DEF Init, TasksOnce, StackShape, FramesFresh, MembersFresh
<1>4. OnePhase
  BY <1>2 DEF Init, OnePhase, NotBegun, Untouched, HasTask, HasFrame
<1>5. DescriptorsOwned
  BY DEF Init, DescriptorsOwned
<1> QED
  BY <1>1, <1>3, <1>4, <1>5 DEF IInv

LEMMA StepKeeps ==
  ASSUME IInv, [Next]_vars
  PROVE  IInv'
<1>1. CASE PollerStep
  BY <1>1, RunConnectKeeps, ArmKeeps, CallbackReturnsKeeps, RunResolvedKeeps, WatchKeeps,
     OnConnectedKeeps, EventReturnsKeeps, TimedOutKeeps, RunGoneKeeps DEF PollerStep
<1>2. CASE \E kind \in {"name", "ip"} : Connect(kind) \/ ConnectInCallback(kind)
  BY <1>2, ConnectKeeps, ConnectInCallbackKeeps
<1>3. CASE \E a \in Attempts : Writable(a) \/ \E ok \in BOOLEAN : Resolve(a, ok)
  BY <1>3, WritableKeeps, ResolveKeeps
<1>4. CASE \E x \in Closers : EmitErr(x) \/ CloseSock(x)
  BY <1>4, EmitErrKeeps, CloseSockKeeps
<1>5. CASE Quiet \/ UNCHANGED vars
  <2>1. held \in BOOLEAN /\ closing \subseteq Closers
    BY TypeFacts DEF IInv
  <2> QED
    BY <1>5, <2>1, OthersKeep DEF Quiet, vars, socketVars, ledger
<1> QED
  BY <1>1, <1>2, <1>3, <1>4, <1>5, TimerFiresKeeps, CloseOnPollerKeeps, ReleaseKeeps DEF Next

(***************************************************************************)
(* The theorems.                                                           *)
(***************************************************************************)

(* The invariant holds of every reachable state.                           *)
THEOREM Invariance == Spec => []IInv
<1>1. Init => IInv
  BY InitIInv
<1>2. IInv /\ [Next]_vars => IInv'
  BY StepKeeps
<1> QED
  BY <1>1, <1>2, PTL DEF Spec

(* Every variable keeps the type the code gives it; in particular no       *)
(* attempt is answered more than twice, however timers, answers of the     *)
(* resolver and nested calls of connect meet (Socket.cpp:152-230).         *)
THEOREM TypeCorrect == Spec => []TypeOK
<1>1. IInv => TypeOK
  BY DEF IInv
<1> QED
  BY <1>1, Invariance, PTL

(* No descriptor leaks, none is closed under the socket or the event that  *)
(* uses it, and what the socket waits for belongs to the attempt begun     *)
(* last, or to one that failed inside connect_l (Socket.cpp:152-230).      *)
THEOREM MembersAreSound == Spec => []MembersSound
<1>1. IInv => MembersSound
  <2> SUFFICES ASSUME IInv PROVE MembersSound
    OBVIOUS
  <2>1. OnlyTheLatest
    BY DEF IInv, MembersFresh, Unanswered, Late, OnlyTheLatest
  <2> QED
    BY <2>1 DEF IInv, MembersSound
<1> QED
  BY <1>1, Invariance, PTL

FreshAnswer(a) ==
  answers'[a] # answers[a] => (answers[a] = 0 /\ a = current') \/ a \in atOnce

(* con_cb answers whom it is called for.                                   *)
LEMMA ConCbFresh ==
  ASSUME IInv, NEW a \in Attempts, NEW err, NEW S, ConCb(a, err, S), current' = current,
         Unanswered(a) \/ Late(a)
  PROVE  \A b \in Attempts : FreshAnswer(b)
<1>1. answers \in [Attempts -> 0 .. 2] /\ answers' = [answers EXCEPT ![a] = @ + 1]
  BY TypeFacts DEF IInv, ConCb
<1>2. \A b \in Attempts : b # a => answers'[b] = answers[b]
  BY <1>1
<1> QED
  BY <1>2 DEF FreshAnswer, Unanswered, Late

LEMMA ConnectLFresh ==
  ASSUME IInv, NEW a \in Attempts, NotBegun(a), NEW kind, ConnectL(kind, a, stack)
  PROVE  \A b \in Attempts : FreshAnswer(b)
<1>1. answers \in [Attempts -> 0 .. 2] /\ answers[a] = 0 /\ current' = a
  BY TypeFacts DEF IInv, ConnectL, OnePhase, Untouched
<1>2. answers' = answers \/ answers' = [answers EXCEPT ![a] = @ + 1]
  BY DEF ConnectL, ConnectName, ConnectIp
<1>3. \A b \in Attempts : b # a => answers'[b] = answers[b]
  BY <1>1, <1>2
<1> QED
  BY <1>1, <1>3 DEF FreshAnswer

LEMMA StepFresh ==
  ASSUME IInv, Next
  PROVE  \A b \in Attempts : FreshAnswer(b)
<1>0. /\ TypeOK /\ OnePhase /\ StackShape /\ FramesFresh /\ MembersFresh /\ TasksOnce
  BY DEF IInv
<1>1. ASSUME answers' = answers PROVE \A b \in Attempts : FreshAnswer(b)
  BY <1>1 DEF FreshAnswer
<1>2. CASE RunConnect
  <2>1. CASE ~held
    BY <1>1, <1>2, <2>1 DEF RunConnect, ledger
  <2>2. CASE held
    <3>1. /\ Head(queue) \in Tasks /\ HasTask(Head(queue).op, Head(queue).a)
          /\ Head(queue).op \in {"name", "ip"}
      BY <1>0, <1>2, Dequeue DEF RunConnect
    <3>2. PICK a \in Attempts : a = Head(queue).a
      BY <3>1 DEF Tasks
    <3>3. NotBegun(a) /\ ConnectL(Head(queue).op, a, stack)
      BY <1>2, <2>2, <3>1, <3>2 DEF NotBegun, RunConnect
    <3> QED
      BY <3>3, ConnectLFresh
  <2> QED
    BY <2>1, <2>2
<1>3. ASSUME NEW kind \in {"name", "ip"}, ConnectInCallback(kind)
      PROVE  \A b \in Attempts : FreshAnswer(b)
  <2>1. PICK a \in Attempts : a = calls + 1
    BY <1>0, <1>3, TypeFacts DEF Attempts, ConnectInCallback
  <2>2. NotBegun(a) /\ ConnectL(kind, a, stack)
    BY <1>0, <1>3, <2>1, TypeFacts DEF NotBegun, ConnectInCallback
  <2> QED
    BY <2>2, ConnectLFresh
<1>4. CASE RunResolved
  <2>1. PICK a \in Attempts : a = Head(queue).a
    BY <1>0, <1>4, Dequeue DEF RunResolved, Tasks
  <2>2. CASE asyncConCb = a /\ ~Head(queue).ok
    <3>1. ConCb(a, TRUE, <<>>) /\ current' = current /\ Unanswered(a)
      BY <1>0, <1>4, <2>1, <2>2 DEF RunResolved, MembersFresh
    <3> QED
      BY <3>1, ConCbFresh
  <2>3. CASE ~(asyncConCb = a /\ ~Head(queue).ok)
    <3>1. answers' = answers
      BY <1>4, <2>1, <2>3 DEF RunResolved
    <3> QED
      BY <1>1, <3>1
  <2> QED
    BY <2>2, <2>3
<1>5. CASE Watch
  <2>1. PICK a \in Attempts : a = Self
    BY <1>0, <1>5, EmptyTail DEF Watch, Top
  <2>2. Unanswered(a) /\ current' = current
    BY <1>0, <1>5, <2>1, StackType DEF FramesFresh, Watch, Top, Self
  <2>3. answers' = answers \/ answers' = [answers EXCEPT ![a] = @ + 1]
    BY <1>5, <2>1 DEF Watch
  <2>4. \A b \in Attempts : b # a => answers'[b] = answers[b]
    BY <1>0, <2>3, TypeFacts
  <2> QED
    BY <2>2, <2>4 DEF FreshAnswer, Unanswered
<1>6. CASE OnConnected
  <2>1. PICK a \in Attempts : a = Self
    BY <1>0, <1>6, EmptyTail DEF OnConnected, Top
  <2>2. Unanswered(a) /\ current' = current
    BY <1>0, <1>6, <2>1, StackType DEF FramesFresh, OnConnected, Top, Self
  <2>3. PICK err \in BOOLEAN : ConCb(a, err, <<Frame("answered", a)>>)
    BY <1>6, <2>1 DEF OnConnected
  <2> QED
    BY <2>2, <2>3, ConCbFresh
<1>7. CASE TimedOut
  <2>1. CASE ~held
    BY <1>1, <1>7, <2>1 DEF TimedOut
  <2>2. CASE held
    <3>1. PICK a \in Attempts : a = Self
      BY <1>0, <1>7, EmptyTail DEF TimedOut, Top
    <3>2. Late(a) /\ current' = current /\ ConCb(a, TRUE, <<>>)
      BY <1>0, <1>7, <2>2, <3>1, StackType DEF FramesFresh, TimedOut, Top, Self
    <3> QED
      BY <3>2, ConCbFresh
  <2> QED
    BY <2>1, <2>2
<1>8. CASE Arm \/ CallbackReturns \/ EventReturns \/ RunGone \/ TimerFires \/ CloseOnPoller
           \/ Release \/ Quiet
  BY <1>1, <1>8 DEF Arm, CallbackReturns, EventReturns, RunGone, TimerFires, CloseOnPoller,
                    Release, Quiet, ledger, vars
<1>9. ASSUME NEW kind \in {"name", "ip"}, Connect(kind)
      PROVE  \A b \in Attempts : FreshAnswer(b)
  BY <1>1, <1>9 DEF Connect, ledger
<1>10. ASSUME NEW a \in Attempts, NEW ok \in BOOLEAN, Writable(a) \/ Resolve(a, ok)
       PROVE  \A b \in Attempts : FreshAnswer(b)
  BY <1>1, <1>10 DEF Writable, Resolve, ledger
<1>11. ASSUME NEW x \in Closers, EmitErr(x) \/ CloseSock(x)
       PROVE  \A b \in Attempts : FreshAnswer(b)
  BY <1>1, <1>11 DEF EmitErr, CloseSock, ledger
<1>12. CASE PollerStep
  BY <1>2, <1>4, <1>5, <1>6, <1>7, <1>8, <1>12 DEF PollerStep
<1>13. CASE \E kind \in {"name", "ip"} : Connect(kind) \/ ConnectInCallback(kind)
  BY <1>3, <1>9, <1>13
<1>14. CASE \E a \in Attempts : Writable(a) \/ \E ok \in BOOLEAN : Resolve(a, ok)
  BY <1>10, <1>14
<1>15. CASE \E x \in Closers : EmitErr(x) \/ CloseSock(x)
  BY <1>11, <1>15
<1> QED
  BY <1>8, <1>12, <1>13, <1>14, <1>15 DEF Next

(* connect's callback is called once for an attempt, by the attempt begun  *)
(* last; only one that failed inside connect_l may be answered again, by   *)
(* the timer set after that (Socket.cpp:128-150, 206-216).                 *)
THEOREM AnswersAreFresh == Spec => AnswersFresh
<1>1. IInv /\ [Next]_vars => [\A a \in Attempts : answers'[a] # answers[a] =>
        (answers[a] = 0 /\ a = current') \/ a \in atOnce]_vars
  BY StepFresh DEF FreshAnswer
<1> QED
  BY <1>1, Invariance, PTL DEF Spec, AnswersFresh
=============================================================================
