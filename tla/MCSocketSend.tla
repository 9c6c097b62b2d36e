---------------------------- MODULE MCSocketSend ----------------------------
(***************************************************************************)
(* Instances of SocketSend for TLC.                                        *)
(***************************************************************************)
EXTENDS SocketSend, TLC

(* Senders and packets are interchangeable as long as no temporal property *)
(* is checked.                                                             *)
Symmetry == Permutations(Senders) \union Permutations(Packets)
=============================================================================
