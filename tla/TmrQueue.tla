------------------------------ MODULE TmrQueue ------------------------------
(***************************************************************************)
(* What the GTPv2-C stack expects of its timer heap: a set of pending      *)
(* timer events, each with the absolute time at which it is due.  Events   *)
(* enter and leave one at a time, and the due time of a pending event is   *)
(* never touched.                                                          *)
(***************************************************************************)
EXTENDS Naturals

CONSTANTS Events, Times

VARIABLES
  queue,       \* the events pending
  tvTimeout    \* the absolute due time of each event

vars == <<queue, tvTimeout>>

Init == /\ queue = {}
        /\ tvTimeout \in [Events -> Times]

Insert(e, t) == /\ e \notin queue
                /\ queue' = queue \cup {e}
                /\ tvTimeout' = [tvTimeout EXCEPT ![e] = t]

Remove(e) == /\ e \in queue
             /\ queue' = queue \ {e}
             /\ UNCHANGED tvTimeout

Next == \E e \in Events : \/ \E t \in Times : Insert(e, t)
                          \/ Remove(e)

Spec == Init /\ [][Next]_vars
=============================================================================
