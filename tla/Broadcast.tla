----------------------------- MODULE Broadcast -----------------------------
(***************************************************************************)
(* What toolkit::RingBuffer promises its readers: every reader hears an    *)
(* unbroken run of the packets written, in order; the run may begin in the *)
(* past, and then at a packet from which a decoder can start; once the     *)
(* ring is gone a reader that stayed is told so, after the last packet.    *)
(***************************************************************************)
EXTENDS Naturals, Sequences

CONSTANT Readers

VARIABLES
  log,            (* the packets written; log[n] tells if n is a key packet *)
  closed,         (* the ring buffer is destroyed                          *)
  state,          (* each reader's stage                                   *)
  next,           (* the number of the next packet each reader gets        *)
  hearing,        (* the readers that have a read callback                 *)
  got             (* the packets handed to each reader's callback          *)

vars == <<log, closed, state, next, hearing, got>>

Init ==
  /\ log = <<>> /\ closed = FALSE
  /\ state = [r \in Readers |-> "new"] /\ next = [r \in Readers |-> 0]
  /\ hearing = {} /\ got = [r \in Readers |-> <<>>]

Run(i, j) == [k \in 1 .. (j + 1 - i) |-> i + k - 1]

(* A decoder can start at packet i, or no packet so far is one to start at. *)
Decodable(i) == log[i] \/ \A j \in 1 .. i : ~log[j]

Publish(key) ==
  /\ ~closed
  /\ log' = Append(log, key)
  /\ UNCHANGED <<closed, state, next, hearing, got>>

(* The reader may be behind by the packets that are still under way.       *)
Subscribe(r) ==
  /\ ~closed /\ state[r] = "new"
  /\ state' = [state EXCEPT ![r] = "in"]
  /\ \E n \in 1 .. Len(log) + 1 : next' = [next EXCEPT ![r] = n]
  /\ UNCHANGED <<log, closed, hearing, got>>

(* The callback is set; it may hear the recent past first.                 *)
Listen(r) ==
  /\ state[r] \in {"in", "detached"} /\ r \notin hearing
  /\ hearing' = hearing \union {r}
  /\ \E i \in 1 .. next[r] :
       /\ i < next[r] => Decodable(i)
       /\ got' = [got EXCEPT ![r] = Run(i, next[r] - 1)]
  /\ UNCHANGED <<log, closed, state, next>>

Deliver(r) ==
  /\ state[r] = "in" /\ next[r] <= Len(log)
  /\ next' = [next EXCEPT ![r] = @ + 1]
  /\ got' = IF r \in hearing THEN [got EXCEPT ![r] = Append(@, next[r])] ELSE got
  /\ UNCHANGED <<log, closed, state, hearing>>

Leave(r) ==
  /\ state[r] \in {"in", "detached"}
  /\ state' = [state EXCEPT ![r] = "left"]
  /\ next' = [next EXCEPT ![r] = 0]
  /\ hearing' = hearing \ {r}
  /\ got' = [got EXCEPT ![r] = <<>>]
  /\ UNCHANGED <<log, closed>>

Close ==
  /\ ~closed /\ closed' = TRUE
  /\ UNCHANGED <<log, state, next, hearing, got>>

(* Readers of one dispatcher are told together, hence the set. *)
Detach(S) ==
  /\ closed /\ S # {}
  /\ \A r \in S : state[r] = "in" /\ next[r] = Len(log) + 1
  /\ state' = [r \in Readers |-> IF r \in S THEN "detached" ELSE state[r]]
  /\ UNCHANGED <<log, closed, next, hearing, got>>

Next ==
  \/ \E key \in BOOLEAN : Publish(key)
  \/ \E r \in Readers : Subscribe(r) \/ Listen(r) \/ Deliver(r) \/ Leave(r)
  \/ Close
  \/ \E S \in SUBSET Readers : Detach(S)

Told(r) == \E S \in SUBSET Readers : r \in S /\ Detach(S)

Spec ==
  /\ Init /\ [][Next]_vars
  /\ \A r \in Readers : WF_vars(Deliver(r)) /\ WF_vars(Told(r))
=============================================================================
