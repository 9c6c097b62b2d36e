--------------------------- MODULE MCEventPoller ---------------------------
(***************************************************************************)
(* Instances of EventPoller for TLC.                                       *)
(***************************************************************************)
EXTENDS EventPoller, TLC

(* Producers and tasks are interchangeable as long as no temporal property *)
(* is checked.                                                             *)
Symmetry ==
  Permutations(Producers) \union Permutations(Tasks \ Cancelable)
=============================================================================
