------------------------------- MODULE MCMap -------------------------------
(***************************************************************************)
(* Every map of up to MaxPairs pairs over three keys (sorted or not, with  *)
(* equal keys or not), every tail, and every key looked up: those below,   *)
(* between, above and equal to the stored ones.                            *)
(***************************************************************************)
EXTENDS StrupleMap, SequencesExt

CONSTANT MaxPairs    \* bound: pairs per map

(* The value names the pair's position, so a wrong entry shows. *)
WithValues(keys) == [i \in DOMAIN keys |-> [key |-> keys[i], value |-> i]]

MCValues  == 1..MaxPairs
MCSought  == 0..6
MCStreams == [pairs : {WithValues(s) : s \in BoundedSeq({1, 3, 5}, MaxPairs)}, tail : Tails]
=============================================================================
