---------------------------- MODULE MCTmrMinHeap ----------------------------
(***************************************************************************)
(* Model-checking instance of TmrMinHeap: six events due at three times,   *)
(* enough for a heap of three levels with ties.                            *)
(***************************************************************************)
EXTENDS TmrMinHeap, TLC

CONSTANTS e1, e2, e3, e4, e5, e6

MCEvents == {e1, e2, e3, e4, e5, e6}
MCTimes == 1 .. 3
MCSymmetry == Permutations(MCEvents)
=============================================================================
