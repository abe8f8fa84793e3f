------------------------------ MODULE FreeList ------------------------------
(***************************************************************************)
(* The free lists of the GTPv2-C stack (gpGtpv2cTrxnPool, gpGtpv2cMsgPool, *)
(* gpGtpv2cTunnelPool, gpGtpv2cTimeoutInfoPool): an object is put at the   *)
(* head and taken from the head; when the list is empty, a new object is   *)
(* allocated.                                                              *)
(***************************************************************************)
EXTENDS Sequences, Functions

(***************************************************************************)
(* What an allocation may return: the head of the list or, when it is      *)
(* empty, any object that is not in use.                                   *)
(***************************************************************************)
Allocated(pool, unused) == IF pool # <<>> THEN {Head(pool)} ELSE unused

Popped(pool) == IF pool # <<>> THEN Tail(pool) ELSE pool

Pushed(x, pool) == <<x>> \o pool

(***************************************************************************)
(* No object is on the list twice, and none that is in use is on it.       *)
(***************************************************************************)
IsFreeList(pool, inUse) ==
  /\ IsInjective(pool)
  /\ Range(pool) \cap inUse = {}
=============================================================================
