---------------------------- MODULE ResourcePool ----------------------------
(***************************************************************************)
(* toolkit::ResourcePool: objects that are made when they are needed and   *)
(* kept for reuse.  The list is guarded by an atomic flag that nobody      *)
(* waits for: a thread that finds it set makes, or deletes, an object of   *)
(* its own instead.  The steps of one thread between asking for an object  *)
(* and having given it back; what it does with the object is up to the     *)
(* module that extends this one.                                           *)
(***************************************************************************)
EXTENDS Naturals, Sequences, FiniteSets

CONSTANTS
  Threads,
  Objects,        (* addresses: one that was deleted may be given out again *)
  Sizes,          (* the sizes setSize is called with                      *)
  None

ASSUME PoolAssumption ==
  /\ None \notin Objects
  /\ Sizes \subseteq Nat /\ \E n \in Sizes : n > 0

VARIABLES
  busy,           (* _busy                                                 *)
  objs,           (* _objs                                                 *)
  pool_size,      (* _pool_size                                            *)
  live,           (* the objects that exist                                *)
  held,           (* the object each thread has a pointer to               *)
  quit,           (* the threads whose pointer had quit called             *)
  pc,             (* each thread's place                                   *)
  stuck           (* _alloc threw under the flag, which stays set          *)

poolVars == <<busy, objs, pool_size, live, held, quit, pc, stuck>>

Goto(t, place) == pc' = [pc EXCEPT ![t] = place]
InSection(t) == pc[t] \in {"get", "put"}

(* the first obtain, by SqlPool::Init, made an object and gave it back, or *)
(* threw; the size is not 0 (8 in the code) until setSize is called        *)
PoolInit ==
  /\ pool_size \in Sizes \ {0}
  /\ held = [t \in Threads |-> None] /\ quit = {}
  /\ pc = [t \in Threads |-> "idle"]
  /\ \/ \E o \in Objects : live = {o} /\ objs = <<o>> /\ busy = FALSE /\ stuck = FALSE
     \/ live = {} /\ objs = <<>> /\ busy = TRUE /\ stuck = TRUE

(* setSize takes no lock; with a thread between the flag's set and its     *)
(* clear the vector is read and reallocated at once, which is undefined    *)
SetSize ==
  /\ \A t \in Threads : ~InSection(t)
  /\ pool_size' \in Sizes
  /\ UNCHANGED <<busy, objs, live, held, quit, pc, stuck>>

(* getPtr: _busy.test_and_set()                                            *)
Obtain(t) ==
  /\ pc[t] = "obtain"
  /\ busy' = TRUE /\ Goto(t, IF busy THEN "alone" ELSE "get")
  /\ UNCHANGED <<objs, pool_size, live, held, quit, stuck>>

(* with the flag: the youngest object in the list                          *)
GetPtr(t) ==
  /\ pc[t] = "get" /\ objs # <<>>
  /\ held' = [held EXCEPT ![t] = objs[Len(objs)]]
  /\ objs' = SubSeq(objs, 1, Len(objs) - 1)
  /\ busy' = FALSE /\ Goto(t, "use")
  /\ UNCHANGED <<pool_size, live, quit, stuck>>

(* _alloc, with the flag and an empty list, or without the flag, if there  *)
(* is an address left (new throws otherwise)                               *)
Alloc(t) ==
  /\ pc[t] = "alone" \/ (pc[t] = "get" /\ objs = <<>>)
  /\ Objects \ live # {}
  /\ LET o == CHOOSE x \in Objects \ live : TRUE
     IN  live' = live \union {o} /\ held' = [held EXCEPT ![t] = o]
  /\ busy' = IF pc[t] = "get" THEN FALSE ELSE busy
  /\ Goto(t, "use")
  /\ UNCHANGED <<objs, pool_size, quit, stuck>>

(* the constructor throws: the flag is not cleared                         *)
AllocThrows(t) ==
  /\ pc[t] = "alone" \/ (pc[t] = "get" /\ objs = <<>>)
  /\ stuck' = (stuck \/ pc[t] = "get")
  /\ Goto(t, "thrown")
  /\ UNCHANGED <<busy, objs, pool_size, live, held, quit>>

(* Mutant: the quit flag is not looked at                                  *)
ReturnAlways(t) ==
  /\ pc[t] = "return"
  /\ quit' = quit \ {t}
  /\ IF busy
     THEN /\ live' = live \ {held[t]} /\ held' = [held EXCEPT ![t] = None]
          /\ Goto(t, "returned") /\ UNCHANGED busy
     ELSE /\ busy' = TRUE /\ Goto(t, "put") /\ UNCHANGED <<live, held>>
  /\ UNCHANGED <<objs, pool_size, stuck>>

(* the deleter of the pointer: an object whose quit was called is deleted, *)
(* any other one goes to recycle, where the flag is tested                 *)
Return(t) ==
  /\ pc[t] = "return"
  /\ quit' = quit \ {t}
  /\ IF t \in quit \/ busy
     THEN /\ live' = live \ {held[t]} /\ held' = [held EXCEPT ![t] = None]
          /\ Goto(t, "returned") /\ UNCHANGED busy
     ELSE /\ busy' = TRUE /\ Goto(t, "put") /\ UNCHANGED <<live, held>>
  /\ UNCHANGED <<objs, pool_size, stuck>>

Recycle(t) ==
  /\ pc[t] = "put"
  /\ IF Len(objs) >= pool_size
     THEN live' = live \ {held[t]} /\ UNCHANGED objs
     ELSE objs' = Append(objs, held[t]) /\ UNCHANGED live
  /\ held' = [held EXCEPT ![t] = None]
  /\ busy' = FALSE /\ Goto(t, "returned")
  /\ UNCHANGED <<pool_size, quit, stuck>>

PoolStep(t) ==
  \/ Obtain(t) \/ GetPtr(t) \/ Alloc(t) \/ Return(t) \/ Recycle(t)
=============================================================================
