---------------------------- MODULE MCMemoryPools ----------------------------
(***************************************************************************)
(* Three threads, and pools of two items and of one: three operations      *)
(* overlap in a ring of three slots and of two, and an allocation that     *)
(* finds the first pool empty tries the second.  After the first           *)
(* disturbance of a pool the operations on their way, and one more, run to *)
(* their end.                                                              *)
(***************************************************************************)
EXTENDS MemoryPools, TLC

CONSTANTS t1, t2, t3

MCThreads == {t1, t2, t3}
MCPoolItems == <<2, 1>>
Symmetry == Permutations(MCThreads)
=============================================================================
