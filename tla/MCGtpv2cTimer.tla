--------------------------- MODULE MCGtpv2cTimer ---------------------------
(***************************************************************************)
(* Model-checking instances of Gtpv2cTimer.  When no timer is stopped, the *)
(* second ITTI timer is there to show a first that was left behind; when   *)
(* timers are stopped, expired ITTI timers pile up, so there are more of   *)
(* them and a nearer horizon.                                              *)
(***************************************************************************)
EXTENDS Gtpv2cTimer, TLC

CONSTANTS c1, c2, x1, x2, h1, h2, h3, h4

MCClients == {c1, c2}
MCInfos == {x1, x2}
ExpiryHandles == {h1, h2}
ExpiryDurations == {2, 4}
StopHandles == {h1, h2, h3, h4}
StopDurations == {2, 3}
StopSymmetry == Permutations(StopHandles)
=============================================================================
