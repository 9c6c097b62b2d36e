---------------------------- MODULE RingStorage ----------------------------
(***************************************************************************)
(* toolkit::_RingStorage: the packets a new reader is given first, in      *)
(* groups that begin with a key packet.  A packet is its number in the     *)
(* order of writing.                                                       *)
(***************************************************************************)
EXTENDS Naturals, SequencesExt

CONSTANTS
  MaxSize,        (* _max_size, at least RING_MIN_SIZE in the code         *)
  MaxGops         (* _max_gop_size                                         *)

ASSUME SizesAssumption == MaxSize \in Nat \ {0} /\ MaxGops \in Nat \ {0}

Storage(Numbers) ==
  [gops : Seq(Seq(Numbers)), size : Nat, have_idr : BOOLEAN, started : BOOLEAN]

EmptyStorage == [gops |-> <<<<>>>>, size |-> 0, have_idr |-> FALSE, started |-> FALSE]

(* Mutant: the flag survives the packets. *)
ClearCacheKeepingIdr(s) == [s EXCEPT !.gops = <<<<>>>>, !.size = 0]

(* clearCache() of the storage; _started stays. *)
ClearCache(s) == [s EXCEPT !.gops = <<<<>>>>, !.size = 0, !.have_idr = FALSE]

PopFrontGop(s) ==
  [s EXCEPT !.gops = IF Len(@) = 1 THEN <<<<>>>> ELSE Tail(@),
            !.size = @ - Len(Head(s.gops))]

(* What a key packet does before it is appended. *)
NewGop(s) ==
  LET t == [s EXCEPT !.have_idr = TRUE, !.started = TRUE,
                     !.gops = IF Last(@) = <<>> THEN @ ELSE Append(@, <<>>)]
  IN  IF Len(t.gops) > MaxGops THEN PopFrontGop(t) ELSE t

(* Too many packets: all groups but the last go, and if that is not        *)
(* enough, the last one too.                                               *)
Shrink(s) ==
  LET t == [s EXCEPT !.gops = <<Last(@)>>, !.size = Len(Last(s.gops))]
  IN  CASE s.size <= MaxSize -> s
        [] s.size > MaxSize /\ t.size <= MaxSize -> t
        [] OTHER -> ClearCache(t)

(* write(): without a key packet to start from, nothing is kept.           *)
StorageWrite(s, n, is_key) ==
  LET t == IF is_key THEN NewGop(s) ELSE s
  IN  IF ~t.have_idr /\ t.started
      THEN t
      ELSE Shrink([t EXCEPT !.gops = Front(@) \o <<Append(Last(@), n)>>, !.size = @ + 1])

(* The cached packets in the order in which flushGop passes them on.       *)
Packets(s) == FlattenSeq(s.gops)
=============================================================================
