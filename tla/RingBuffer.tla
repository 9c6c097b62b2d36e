----------------------------- MODULE RingBuffer -----------------------------
(***************************************************************************)
(* toolkit::RingBuffer: a writer hands each packet to one dispatcher per   *)
(* poller by a task of that poller, and keeps recent packets for readers   *)
(* to come.  A dispatcher is made by the first reader of a poller and      *)
(* leaves the map with the last one.  Readers are reference counted;       *)
(* the last reference may be dropped by any thread.                        *)
(***************************************************************************)
EXTENDS RingStorage, FiniteSets

CONSTANTS
  Pollers, Readers,
  Cached,         (* the readers that attach with use_cache                *)
  Dispatchers,    (* an identity for each dispatcher ever made: a bound    *)
  Elsewhere,      (* any thread that is no poller                          *)
  None,
  MaxLog          (* bound: packets written                                *)

ASSUME ConstantsAssumption ==
  /\ None \notin Dispatchers \union Readers \union Pollers
  /\ Elsewhere \notin Pollers
  /\ Cached \subseteq Readers
  /\ MaxLog \in Nat

VARIABLES
  ring,           (* "alive", or "gone" once the last reference is dropped *)
  log,            (* all packets written: is it a key packet               *)
  storage,        (* RingBuffer::_storage                                  *)
  total,          (* _total_count                                          *)
  dispatcher,     (* _dispatcher_map: each poller's dispatcher             *)
  home,           (* each dispatcher's poller, None before it is made      *)
  cache,          (* each dispatcher's _storage                            *)
  members,        (* each dispatcher's _reader_map                         *)
  deleted,        (* the dispatchers whose destructor ran                  *)
  queue,          (* the tasks each poller has yet to run                  *)
  pc, task,       (* the place in dispatcher::write, and its task          *)
  left,           (* the readers the loop has yet to visit                 *)
  pin,            (* the reader the loop holds a reference to              *)
  of,             (* each reader's dispatcher                              *)
  held,           (* the readers somebody outside holds                    *)
  hearing,        (* the readers with a read callback                      *)
  got,            (* what each reader's callback was given                 *)
  detached        (* the readers whose onDetach was called                 *)

ringVars == <<ring, log, storage, total, dispatcher>>
dispatcherVars == <<home, cache, members, deleted>>
pollerVars == <<queue, pc, task, left, pin>>
readerVars == <<of, held, hearing, got, detached>>
vars == <<ringVars, dispatcherVars, pollerVars, readerVars>>

NoTask == [op |-> "none", on |-> None, n |-> 0]

Init ==
  /\ ring = "alive" /\ log = <<>> /\ storage = EmptyStorage /\ total = 0
  /\ dispatcher = [p \in Pollers |-> None]
  /\ home = [d \in Dispatchers |-> None]
  /\ cache = [d \in Dispatchers |-> EmptyStorage]
  /\ members = [d \in Dispatchers |-> {}] /\ deleted = {}
  /\ queue = [p \in Pollers |-> <<>>]
  /\ pc = [p \in Pollers |-> "idle"] /\ task = [p \in Pollers |-> NoTask]
  /\ left = [p \in Pollers |-> {}] /\ pin = [p \in Pollers |-> None]
  /\ of = [r \in Readers |-> None] /\ held = {} /\ hearing = {}
  /\ got = [r \in Readers |-> <<>>] /\ detached = {}

-----------------------------------------------------------------------------
(* RingBuffer, called by any thread; each call is one section of _mtx_map. *)

(* async(..., false): a task for every dispatcher in the map. *)
ToAll(op, n) ==
  queue' = [p \in Pollers |->
              IF dispatcher[p] = None THEN queue[p]
              ELSE Append(queue[p], [op |-> op, on |-> dispatcher[p], n |-> n])]

Write(is_key) ==
  /\ ring = "alive" /\ Len(log) < MaxLog
  /\ ToAll("write", Len(log) + 1)
  /\ log' = Append(log, is_key)
  /\ storage' = StorageWrite(storage, Len(log) + 1, is_key)
  /\ UNCHANGED <<ring, total, dispatcher, dispatcherVars, pc, task, left, pin, readerVars>>

(* Bound: only a cache that holds something is cleared, and not while such *)
(* a task waits.                                                           *)
ClearAll ==
  /\ ring = "alive" /\ storage.size > 0
  /\ \A p \in Pollers : \A i \in DOMAIN queue[p] : queue[p][i].op # "clear"
  /\ ToAll("clear", 0)
  /\ storage' = ClearCache(storage)
  /\ UNCHANGED <<ring, log, total, dispatcher, dispatcherVars, pc, task, left, pin,
                 readerVars>>

Unmade == {d \in Dispatchers : home[d] = None}
Fresh == CHOOSE d \in Unmade : TRUE

(* The first half of attach when the poller has no dispatcher yet. *)
MakeDispatcher(p, d, M) ==
  /\ home' = [home EXCEPT ![d] = p]
  /\ members' = [members EXCEPT ![d] = M]
  /\ dispatcher' = [dispatcher EXCEPT ![p] = d]
  /\ cache' = [cache EXCEPT ![d] = storage]

(* attach on the poller's own thread, in a task of its own. *)
Attach(p, r) ==
  /\ ring = "alive" /\ pc[p] = "idle" /\ of[r] = None
  /\ dispatcher[p] = None => Unmade # {}
  /\ IF dispatcher[p] = None
     THEN MakeDispatcher(p, Fresh, {r}) /\ of' = [of EXCEPT ![r] = Fresh]
     ELSE /\ of' = [of EXCEPT ![r] = dispatcher[p]]
          /\ members' = [members EXCEPT ![dispatcher[p]] = @ \union {r}]
          /\ UNCHANGED <<dispatcher, home, cache>>
  /\ total' = total + 1
  /\ held' = held \union {r}
  /\ UNCHANGED <<ring, log, storage, deleted, pollerVars, hearing, got, detached>>

(* attach on any other thread throws, after it made the dispatcher.        *)
AttachElsewhere(p) ==
  /\ ring = "alive" /\ dispatcher[p] = None /\ Unmade # {}
  /\ MakeDispatcher(p, Fresh, {})
  /\ UNCHANGED <<ring, log, storage, total, deleted, pollerVars, readerVars>>

(* ~RingBuffer: the map lets go of the dispatchers. *)
Destroy ==
  /\ ring = "alive"
  /\ ring' = "gone"
  /\ dispatcher' = [p \in Pollers |-> None]
  /\ UNCHANGED <<log, storage, total, dispatcherVars, pollerVars, readerVars>>

-----------------------------------------------------------------------------
(* Readers. *)

(* setReadCB with flushGop, on the poller's thread. *)
SetReadCB(r) ==
  /\ r \in held \ hearing
  /\ pc[home[of[r]]] = "idle"
  /\ hearing' = hearing \union {r}
  /\ got' = [got EXCEPT ![r] = IF r \in Cached THEN Packets(cache[of[r]]) ELSE <<>>]
  /\ UNCHANGED <<ringVars, dispatcherVars, pollerVars, of, held, detached>>

(* Mutant: the size is compared before it is decremented. *)
UnlinkEarly(d, r) ==
  /\ members' = [members EXCEPT ![d] = @ \ {r}]
  /\ IF ring = "alive"
     THEN /\ total' = total - 1
          /\ dispatcher' = IF Cardinality(members[d]) = 2
                           THEN [dispatcher EXCEPT ![home[d]] = None] ELSE dispatcher
     ELSE UNCHANGED <<total, dispatcher>>

(* An entry leaves _reader_map: onSizeChanged. *)
Unlink(d, r) ==
  /\ members' = [members EXCEPT ![d] = @ \ {r}]
  /\ IF ring = "alive"
     THEN /\ total' = total - 1
          /\ dispatcher' = IF members[d] = {r} THEN [dispatcher EXCEPT ![home[d]] = None]
                           ELSE dispatcher
     ELSE UNCHANGED <<total, dispatcher>>

(* Mutant: the result of erase is not looked at. *)
DeallocUnchecked(r) == Unlink(of[r], r)

(* The deleter's lambda: the loop may have erased the reader already.      *)
Dealloc(r) ==
  IF of[r] \notin deleted /\ r \in members[of[r]]
  THEN Unlink(of[r], r)
  ELSE UNCHANGED <<members, total, dispatcher>>

(* Code outside runs on a poller between two writes, or in a callback.     *)
MayRun(x) == x \in Pollers => pc[x] \in {"idle", "callback"}

(* With its last reference the reader hears nothing any more; what it      *)
(* heard is no longer of interest.                                         *)
Forget(r) ==
  /\ hearing' = hearing \ {r}
  /\ got' = [got EXCEPT ![r] = <<>>]

(* The last reference outside is dropped by thread x.  If the loop holds   *)
(* another one, the deleter runs later; on the poller it runs at once.     *)
Release(x, r) ==
  /\ r \in held /\ MayRun(x)
  /\ held' = held \ {r}
  /\ IF \E p \in Pollers : pin[p] = r
     THEN UNCHANGED <<queue, members, total, dispatcher, hearing, got>>
     ELSE /\ Forget(r)
          /\ IF x = home[of[r]]
             THEN Dealloc(r) /\ UNCHANGED queue
             ELSE /\ queue' = [queue EXCEPT ![home[of[r]]] =
                                 Append(@, [op |-> "dealloc", on |-> r, n |-> 0])]
                  /\ UNCHANGED <<members, total, dispatcher>>
  /\ UNCHANGED <<ring, log, storage, home, cache, deleted, pc, task, left, pin, of,
                 detached>>

-----------------------------------------------------------------------------
(* The tasks of a poller. *)

Take(p, op) ==
  /\ pc[p] = "idle" /\ queue[p] # <<>> /\ Head(queue[p]).op = op
  /\ queue' = [queue EXCEPT ![p] = Tail(@)]

BeginWrite(p) ==
  /\ Take(p, "write")
  /\ task' = [task EXCEPT ![p] = Head(queue[p])]
  /\ pc' = [pc EXCEPT ![p] = "loop"]
  /\ left' = [left EXCEPT ![p] = members[Head(queue[p]).on]]
  /\ UNCHANGED <<ringVars, dispatcherVars, pin, readerVars>>

RunClear(p) ==
  /\ Take(p, "clear")
  /\ LET d == Head(queue[p]).on IN
     cache' = IF members[d] = {} THEN [cache EXCEPT ![d] = ClearCache(@)] ELSE cache
  /\ UNCHANGED <<ringVars, home, members, deleted, pc, task, left, pin, readerVars>>

RunDealloc(p) ==
  /\ Take(p, "dealloc")
  /\ Dealloc(Head(queue[p]).on)
  /\ UNCHANGED <<ring, log, storage, home, cache, deleted, pc, task, left, pin, readerVars>>

Unvisited(p) == left[p] \intersect members[task[p].on]

(* Mutant: an erased reader is not reported. *)
VisitSilently(p, r) ==
  /\ pc[p] = "loop" /\ r \in Unvisited(p)
  /\ left' = [left EXCEPT ![p] = @ \ {r}]
  /\ IF r \in held
     THEN /\ pin' = [pin EXCEPT ![p] = r]
          /\ pc' = [pc EXCEPT ![p] = "locked"]
          /\ UNCHANGED members
     ELSE /\ members' = [members EXCEPT ![task[p].on] = @ \ {r}]
          /\ UNCHANGED <<pin, pc>>
  /\ UNCHANGED <<ringVars, home, cache, deleted, queue, task, readerVars>>

(* The next entry: a reader that is gone is erased. *)
Visit(p, r) ==
  /\ pc[p] = "loop" /\ r \in Unvisited(p)
  /\ left' = [left EXCEPT ![p] = @ \ {r}]
  /\ IF r \in held
     THEN /\ pin' = [pin EXCEPT ![p] = r]
          /\ pc' = [pc EXCEPT ![p] = "locked"]
          /\ UNCHANGED <<members, total, dispatcher>>
     ELSE /\ Unlink(task[p].on, r)
          /\ UNCHANGED <<pin, pc>>
  /\ UNCHANGED <<ring, log, storage, home, cache, deleted, queue, task, readerVars>>

OnRead(p) ==
  /\ pc[p] = "locked"
  /\ pc' = [pc EXCEPT ![p] = "callback"]
  /\ got' = IF pin[p] \in hearing THEN [got EXCEPT ![pin[p]] = Append(@, task[p].n)]
            ELSE got
  /\ UNCHANGED <<ringVars, dispatcherVars, queue, task, left, pin, of, held,
                 hearing, detached>>

(* The loop drops its reference, which may be the last one. *)
OnReadReturns(p) ==
  /\ pc[p] = "callback"
  /\ pc' = [pc EXCEPT ![p] = "loop"]
  /\ pin' = [pin EXCEPT ![p] = None]
  /\ IF pin[p] \in held
     THEN UNCHANGED <<members, total, dispatcher, hearing, got>>
     ELSE Dealloc(pin[p]) /\ Forget(pin[p])
  /\ UNCHANGED <<ring, log, storage, home, cache, deleted, queue, task, left, of, held,
                 detached>>

(* Mutant: the dispatcher does not keep the packet. *)
EndWriteUncached(p) ==
  /\ pc[p] = "loop" /\ Unvisited(p) = {}
  /\ pc' = [pc EXCEPT ![p] = "idle"]
  /\ task' = [task EXCEPT ![p] = NoTask] /\ left' = [left EXCEPT ![p] = {}]
  /\ UNCHANGED <<ringVars, dispatcherVars, queue, pin, readerVars>>

EndWrite(p) ==
  /\ pc[p] = "loop" /\ Unvisited(p) = {}
  /\ cache' = [cache EXCEPT ![task[p].on] = StorageWrite(@, task[p].n, log[task[p].n])]
  /\ pc' = [pc EXCEPT ![p] = "idle"]
  /\ task' = [task EXCEPT ![p] = NoTask] /\ left' = [left EXCEPT ![p] = {}]
  /\ UNCHANGED <<ringVars, home, members, deleted, queue, pin, readerVars>>

Mentioned(d) ==
  \E i \in DOMAIN queue[home[d]] :
    queue[home[d]][i].op # "dealloc" /\ queue[home[d]][i].on = d

(* ~_RingReaderDispatcher, once neither the map nor a task refers to it.   *)
DeleteDispatcher(d) ==
  /\ ring = "gone" /\ home[d] # None /\ d \notin deleted
  /\ pc[home[d]] = "idle" /\ ~Mentioned(d)
  /\ deleted' = deleted \union {d}
  /\ members' = [members EXCEPT ![d] = {}]
  /\ detached' = detached \union (members[d] \intersect held)
  /\ UNCHANGED <<ringVars, home, cache, pollerVars, of, held, hearing, got>>

-----------------------------------------------------------------------------
PollerStep(p) ==
  \/ BeginWrite(p) \/ RunClear(p) \/ RunDealloc(p)
  \/ \E r \in Readers : Visit(p, r)
  \/ OnRead(p) \/ OnReadReturns(p) \/ EndWrite(p)
  \/ \E d \in Dispatchers : home[d] = p /\ DeleteDispatcher(d)

(* The ring is gone and nobody holds a reader. *)
Quiet ==
  /\ ring = "gone" /\ held = {}
  /\ UNCHANGED vars

Next ==
  \/ \E is_key \in BOOLEAN : Write(is_key)
  \/ ClearAll \/ Destroy
  \/ \E p \in Pollers, r \in Readers : Attach(p, r)
  \/ \E p \in Pollers : AttachElsewhere(p)
  \/ \E r \in Readers : SetReadCB(r)
  \/ \E x \in Pollers \union {Elsewhere}, r \in Readers : Release(x, r)
  \/ \E p \in Pollers : PollerStep(p)
  \/ Quiet

Spec == Init /\ [][Next]_vars

(* The pollers run their tasks, and callbacks return. *)
FairSpec == Spec /\ \A p \in Pollers : WF_vars(PollerStep(p))

-----------------------------------------------------------------------------
(* Properties. *)

Task ==
  [op : {"write"}, on : Dispatchers, n : 1 .. MaxLog]
    \union [op : {"clear"}, on : Dispatchers, n : {0}]
    \union [op : {"dealloc"}, on : Readers, n : {0}]

(* Every variable holds a value of the type the code gives it.             *)
TypeOK ==
  /\ ring \in {"alive", "gone"} /\ log \in Seq(BOOLEAN) /\ Len(log) <= MaxLog
  /\ storage \in Storage(1 .. MaxLog) /\ total \in Nat
  /\ dispatcher \in [Pollers -> Dispatchers \union {None}]
  /\ home \in [Dispatchers -> Pollers \union {None}]
  /\ cache \in [Dispatchers -> Storage(1 .. MaxLog)]
  /\ members \in [Dispatchers -> SUBSET Readers] /\ deleted \subseteq Dispatchers
  /\ queue \in [Pollers -> Seq(Task)]
  /\ pc \in [Pollers -> {"idle", "loop", "locked", "callback"}]
  /\ task \in [Pollers -> Task \union {NoTask}]
  /\ left \in [Pollers -> SUBSET Readers] /\ pin \in [Pollers -> Readers \union {None}]
  /\ of \in [Readers -> Dispatchers \union {None}]
  /\ held \subseteq Readers /\ hearing \subseteq Readers
  /\ got \in [Readers -> Seq(1 .. MaxLog)] /\ detached \subseteq Readers

(* What is between a dispatcher and a reader of it: write tasks, and the   *)
(* packet the loop has in hand.                                            *)
Behind(r) ==
  LET p == home[of[r]] IN
  Cardinality({i \in DOMAIN queue[p] : queue[p][i].op = "write" /\ queue[p][i].on = of[r]})
    + IF r \in left[p] \/ (pin[p] = r /\ pc[p] = "locked") THEN 1 ELSE 0

Stage(r) ==
  IF of[r] = None THEN "new"
  ELSE IF r \notin held /\ pin[home[of[r]]] # r THEN "left"
  ELSE IF r \in detached THEN "detached" ELSE "in"

Promise == INSTANCE Broadcast WITH
  closed <- (ring = "gone"),
  state <- [r \in Readers |-> Stage(r)],
  next <- [r \in Readers |-> CASE Stage(r) \in {"new", "left"} -> 0
                                [] Stage(r) = "in" -> Len(log) + 1 - Behind(r)
                                [] OTHER -> Len(log) + 1]

(* write, attach, setReadCB and the deleters (RingBuffer.h 63-92, 237-274, *)
(* 326-362) give every reader an unbroken run of the packets, whichever    *)
(* dispatcher the attach met and however far behind it was; what flushGop  *)
(* passes on fits what follows; everything written while the reader is     *)
(* held arrives, and after the last packet of a destroyed ring it is       *)
(* detached.                                                               *)
ImplementsBroadcast == Promise!Spec

(* The last packet a dispatcher has stored, if it missed none.             *)
Stored(d) ==
  LET p == home[d] IN
  Len(log)
    - Cardinality({i \in DOMAIN queue[p] : queue[p][i].op = "write" /\ queue[p][i].on = d})
    - IF task[p].on = d THEN 1 ELSE 0

(* The count is right, the packets are the latest ones without a hole, and *)
(* a decoder can start at the first one.                                   *)
Sound(s, n) ==
  LET c == Packets(s) IN
  /\ s.size = Len(c) /\ Len(c) <= MaxSize /\ Len(s.gops) <= MaxGops
  /\ c = Promise!Run(n + 1 - Len(c), n)
  /\ c # <<>> => Promise!Decodable(Head(c))

(* However the caches are filled, shrunk, cleared and cloned (126-189,     *)
(* 352), each holds a sound end of what has been written so far, and a     *)
(* dispatcher's own is as far as its readers are.                          *)
CachesSound ==
  /\ Sound(storage, Len(log))
  /\ \A p \in Pollers : dispatcher[p] # None =>
       Sound(cache[dispatcher[p]], Stored(dispatcher[p]))

(* A dispatcher that still has a reader somebody holds is the one new      *)
(* packets are sent to: erasing it when the count is 0 (onSizeChanged,     *)
(* 409-413) never hits a poller's next dispatcher, although readers go by  *)
(* the loop, by the deleter and by tasks queued long before.               *)
ReadersServed ==
  ring = "alive" =>
    \A r \in held : r \in members[of[r]] /\ dispatcher[home[of[r]]] = of[r]

(* readerCount() is the number of readers in the maps of the dispatchers   *)
(* in use: each reader is counted off once, by the loop or by its deleter  *)
(* (237-247, 262-263, 415-419).                                            *)
CountsMatch ==
  ring = "alive" =>
    total = Cardinality({r \in Readers : \E p \in Pollers :
                           dispatcher[p] # None /\ r \in members[dispatcher[p]]})

(* Both: the maps of readers and of dispatchers and the counters agree.     *)
MapsSound == ReadersServed /\ CountsMatch
=============================================================================
