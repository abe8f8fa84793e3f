---------------------------- MODULE TimerService ----------------------------
(***************************************************************************)
(* What a transaction expects of the timers of the GTPv2-C stack: a timer  *)
(* it has started runs until the transaction stops it or its callback is   *)
(* called, and the callback is never called before the timer is due.       *)
(***************************************************************************)
EXTENDS Naturals

CONSTANTS Clients, Durations, NULL

VARIABLES
  now,      \* the time of day
  runs      \* the time at which each client's timer is due, NULL if none

vars == <<now, runs>>

Init == now = 0 /\ runs = [c \in Clients |-> NULL]

Tick == now' = now + 1 /\ UNCHANGED runs

Start(c, d) == /\ runs[c] = NULL
               /\ runs' = [runs EXCEPT ![c] = now + d]
               /\ UNCHANGED now

Stop(c) == /\ runs[c] # NULL
           /\ runs' = [runs EXCEPT ![c] = NULL]
           /\ UNCHANGED now

\* The callback of c, which may start the timer anew.
Expire(c) == /\ runs[c] # NULL
             /\ runs[c] <= now
             /\ \/ runs' = [runs EXCEPT ![c] = NULL]
                \/ \E d \in Durations : runs' = [runs EXCEPT ![c] = now + d]
             /\ UNCHANGED now

Next == \/ Tick
        \/ \E c \in Clients : \/ \E d \in Durations : Start(c, d)
                              \/ Stop(c)
                              \/ Expire(c)

Spec == Init /\ [][Next]_vars
=============================================================================
