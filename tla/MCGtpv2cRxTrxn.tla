--------------------------- MODULE MCGtpv2cRxTrxn ---------------------------
(* Small instances of Gtpv2cRxTrxn. *)
EXTENDS Gtpv2cRxTrxn, TLC

CONSTANTS r1, r2, t1, t2, t3, m1, m2, m3, m4

MCRequests == {r1, r2}
MCTrxns == {t1, t2, t3}
MCMsgs == {m1, m2, m3, m4}

Symmetry == Permutations(MCTrxns) \cup Permutations(MCMsgs)
              \cup Permutations(MCRequests)
=============================================================================
