---------------------------- MODULE MCThreadPool ----------------------------
(***************************************************************************)
(* Instances of ThreadPool for TLC.                                        *)
(***************************************************************************)
EXTENDS ThreadPool, TLC

(* Callers, workers and tasks are interchangeable as long as no temporal   *)
(* property is checked.                                                    *)
Symmetry ==
  Permutations(Callers) \union Permutations(Workers)
    \union Permutations(Tasks \ Cancelable)
=============================================================================
