----------------------------- MODULE Gtpv2cTimer -----------------------------
(***************************************************************************)
(* The timer manager of the GTPv2-C stack (nwGtpv2cStartTimer,             *)
(* nwGtpv2cStopTimer and nwGtpv2cProcessTimeout of NwGtpv2c.c) above the   *)
(* ITTI timers (timer.c) that the Sm task lends it.  The manager keeps all *)
(* its timers in a heap and asks ITTI for one of them only, the active     *)
(* one.  Two threads take steps: the signal thread, which turns an expired *)
(* POSIX timer into a message to TASK_SM, and the Sm task, which handles   *)
(* that message and every call of the transactions.                        *)
(*                                                                         *)
(* The heap is the queue of module TmrQueue, which TmrMinHeap implements.  *)
(* One transaction (client) has at most one timer, whose handle it keeps   *)
(* in hRspTmr.                                                             *)
(***************************************************************************)
EXTENDS Naturals, Sequences, FreeList

CONSTANTS
  Clients,     \* transactions
  Infos,       \* nw_gtpv2c_timeout_info_t objects
  Handles,     \* ITTI timer ids
  Durations,   \* the durations a timer is started with
  Stops,       \* do transactions stop timers, or do all of them expire?
  MaxStall,    \* the longest time spent in one call of the manager
  Horizon,     \* bound: no timer is started that is due after it
  MaxTime,     \* bound: where the clock stops
  NULL

ASSUME DurationsAssumption == Durations \subseteq Nat /\ Durations # {}
ASSUME StallAssumption == MaxStall \in Nat /\ \A d \in Durations : MaxStall < d
ASSUME StopsAssumption == Stops \in BOOLEAN

\* A timer of timer.c: its argument, whether timer_settime armed it, and when it expires.
timer_elm == [arg : Infos, armed : BOOLEAN, at : Nat]

ASSUME NullAssumption ==
  NULL \notin Clients \cup Infos \cup Handles \cup Nat /\ NULL \notin timer_elm

VARIABLES
  now,              \* gettimeofday
  heap,             \* the pending timers (hTmrMinHeap)
  tvTimeout,        \* per info: when it is due
  timeoutArg,       \* per info: the client its callback is called for
  hTimer,           \* per info: the ITTI timer last asked for it
  pool,             \* gpGtpv2cTimeoutInfoPool, last in first out
  activeTimerInfo,  \* the pending timer ITTI is asked for, or NULL
  hRspTmr,          \* per client: the info it holds as a handle, or NULL
  timer_queue,      \* the list of timer.c: per handle its timer, or NULL
  msgs,             \* TIMER_HAS_EXPIRED messages in the queue of TASK_SM
  pc,               \* where the Sm task is in nwGtpv2cProcessTimeout
  client,           \* the client whose callback is about to run
  tv,               \* the time the loop of nwGtpv2cProcessTimeout read
  entered           \* the time the running call was entered at

task == <<pc, client, tv, entered>>
infoVars == <<tvTimeout, timeoutArg>>
ittiVars == <<timer_queue, msgs>>

vars == <<now, heap, tvTimeout, timeoutArg, hTimer, pool, activeTimerInfo,
          hRspTmr, timer_queue, msgs, pc, client, tv, entered>>

Init == /\ now = 0
        /\ heap = {}
        /\ tvTimeout = [x \in Infos |-> 0]
        /\ timeoutArg = [x \in Infos |-> NULL]
        /\ hTimer = [x \in Infos |-> NULL]
        /\ pool = <<>>
        /\ activeTimerInfo = NULL
        /\ hRspTmr = [c \in Clients |-> NULL]
        /\ timer_queue = [h \in Handles |-> NULL]
        /\ msgs = <<>>
        /\ pc = "idle"
        /\ client = NULL
        /\ tv = 0
        /\ entered = 0
-----------------------------------------------------------------------------
(***************************************************************************)
(* The heap: any earliest event may be at its root.                        *)
(***************************************************************************)
Earliest(S) == {x \in S : \A y \in S : tvTimeout[x] <= tvTimeout[y]}

(***************************************************************************)
(* timer.c.  timer_setup of a zero interval leaves the POSIX timer it      *)
(* creates disarmed: it stays in the list and never expires.               *)
(***************************************************************************)
Listed(h) == timer_queue[h] # NULL

timer_setup(list, h, x, interval) ==
  [list EXCEPT ![h] = [arg |-> x, armed |-> interval > 0,
                       at |-> now + interval]]

timer_remove(list, h) == [list EXCEPT ![h] = NULL]

\* The signal thread: timer_handle_signal of a one-shot timer.
timer_handle_signal(h) ==
  /\ Listed(h)
  /\ timer_queue[h].armed
  /\ timer_queue[h].at <= now
  /\ timer_queue' = timer_remove(timer_queue, h)
  /\ msgs' = Append(msgs, timer_queue[h].arg)
  /\ UNCHANGED <<now, heap, infoVars, hTimer, pool, activeTimerInfo, hRspTmr,
                 task>>

\* Time passes: freely between two calls, at most MaxStall within one.
Tick == /\ now < MaxTime
        /\ pc # "idle" => now < entered + MaxStall
        /\ now' = now + 1
        /\ UNCHANGED <<heap, infoVars, hTimer, pool, activeTimerInfo, hRspTmr,
                       ittiVars, task>>
-----------------------------------------------------------------------------
\* An info from the pool, or a new one.
NewInfo == Allocated(pool, Infos \ heap)

\* Mutant: the comparison the wrong way round.
DueBeforeActiveSwapped(t) ==
  activeTimerInfo # NULL => tvTimeout[activeTimerInfo] < t

\* Is a timer due at t to become the active one?
DueBeforeActive(t) == activeTimerInfo # NULL => tvTimeout[activeTimerInfo] > t

\* Mutant: the timer that is replaced is not stopped.
ActiveLeft == timer_queue

\* The list once the active timer, if there is one, is stopped.
ActiveStopped == IF activeTimerInfo = NULL THEN timer_queue
                 ELSE timer_remove(timer_queue, hTimer[activeTimerInfo])

(***************************************************************************)
(* nwGtpv2cStartTimer for client c, called by a handler or by a callback.  *)
(* A timer that is due after the active one is left to the heap.           *)
(***************************************************************************)
nwGtpv2cStartTimer(c, d) ==
  /\ now + d <= Horizon
  /\ \E x \in NewInfo :
       /\ pool' = Popped(pool)
       /\ heap' = heap \cup {x}
       /\ tvTimeout' = [tvTimeout EXCEPT ![x] = now + d]
       /\ timeoutArg' = [timeoutArg EXCEPT ![x] = c]
       /\ hRspTmr' = [hRspTmr EXCEPT ![c] = x]
       /\ \/ /\ ~ DueBeforeActive(now + d)
             /\ UNCHANGED <<activeTimerInfo, hTimer, timer_queue>>
          \/ /\ DueBeforeActive(now + d)
             /\ \E h \in Handles :
                  /\ ActiveStopped[h] = NULL
                  /\ timer_queue' = timer_setup(ActiveStopped, h, x, d)
                  /\ hTimer' = [hTimer EXCEPT ![x] = h]
             /\ activeTimerInfo' = x
  /\ UNCHANGED <<now, msgs>>

\* Mutant: the expired timer stays in the heap.
TakeExpiredKept(x, from) ==
  heap' = from /\ pool' = Pushed(x, pool) /\ client' = timeoutArg[x]

\* Mutant: the callback gets the info instead of its argument.
TakeExpiredInfo(x, from) ==
  heap' = from \ {x} /\ pool' = Pushed(x, pool) /\ client' = x

(***************************************************************************)
(* The head of nwGtpv2cProcessTimeout: a pending timer leaves the heap for *)
(* the pool, and its callback is to run.                                   *)
(***************************************************************************)
TakeExpired(x, from) ==
  /\ heap' = from \ {x}
  /\ pool' = Pushed(x, pool)
  /\ client' = timeoutArg[x]

(***************************************************************************)
(* nwGtpv2cStopTimer of the timer x.  When it is the active one, a timer   *)
(* that is overdue by now is processed on the spot, otherwise ITTI is      *)
(* asked for the earliest.                                                 *)
(***************************************************************************)
StopOther(x) ==
  /\ activeTimerInfo # x
  /\ heap' = heap \ {x}
  /\ pool' = Pushed(x, pool)
  /\ UNCHANGED <<activeTimerInfo, hTimer, timer_queue, task>>

\* Mutant: the last timer stays the active one.
StopLastKeepsActive(x) ==
  /\ activeTimerInfo = x
  /\ heap = {x}
  /\ heap' = {}
  /\ pool' = Pushed(x, pool)
  /\ timer_queue' = timer_remove(timer_queue, hTimer[x])
  /\ UNCHANGED <<activeTimerInfo, hTimer, task>>

StopLast(x) ==
  /\ activeTimerInfo = x
  /\ heap = {x}
  /\ heap' = {}
  /\ pool' = Pushed(x, pool)
  /\ activeTimerInfo' = NULL
  /\ timer_queue' = timer_remove(timer_queue, hTimer[x])
  /\ UNCHANGED <<hTimer, task>>

StopThenExpire(x) ==
  \E m \in Earliest(heap \ {x}) :
    /\ activeTimerInfo = x
    /\ tvTimeout[m] < now
    /\ heap' = heap \ {x, m}
    /\ pool' = Pushed(m, Pushed(x, pool))
    /\ client' = timeoutArg[m]
    /\ activeTimerInfo' = NULL
    /\ timer_queue' = timer_remove(timer_queue, hTimer[x])
    /\ pc' = "first_callback"
    /\ entered' = now
    /\ UNCHANGED <<hTimer, tv>>

StopThenRearm(x) ==
  LET list == timer_remove(timer_queue, hTimer[x])
  IN  \E m \in Earliest(heap \ {x}), h \in Handles :
        /\ activeTimerInfo = x
        /\ tvTimeout[m] >= now
        /\ heap' = heap \ {x}
        /\ pool' = Pushed(x, pool)
        /\ list[h] = NULL
        /\ timer_queue' = timer_setup(list, h, m, tvTimeout[m] - now)
        /\ hTimer' = [hTimer EXCEPT ![m] = h]
        /\ activeTimerInfo' = m
        /\ UNCHANGED task

nwGtpv2cStopTimer(c) ==
  /\ Stops
  /\ pc = "idle"
  /\ hRspTmr[c] # NULL
  /\ \/ StopOther(hRspTmr[c])
     \/ StopLast(hRspTmr[c])
     \/ StopThenExpire(hRspTmr[c])
     \/ StopThenRearm(hRspTmr[c])
  /\ hRspTmr' = [hRspTmr EXCEPT ![c] = NULL]
  /\ UNCHANGED <<now, infoVars, msgs>>

(***************************************************************************)
(* TASK_SM receives TIMER_HAS_EXPIRED.  The message carries the info, and  *)
(* nwGtpv2cProcessTimeout compares it with the active one: any other is a  *)
(* timeout "for non-existent timeoutInfo" and is dropped.                  *)
(***************************************************************************)
TimeoutOfActive ==
  /\ pc = "idle"
  /\ msgs # <<>>
  /\ Head(msgs) = activeTimerInfo
  /\ msgs' = Tail(msgs)
  /\ TakeExpired(activeTimerInfo, heap)
  /\ activeTimerInfo' = NULL
  /\ pc' = "first_callback"
  /\ entered' = now
  /\ UNCHANGED <<now, infoVars, hTimer, hRspTmr, timer_queue, tv>>

TimeoutOfOther ==
  /\ pc = "idle"
  /\ msgs # <<>>
  /\ Head(msgs) # activeTimerInfo
  /\ msgs' = Tail(msgs)
  /\ UNCHANGED <<now, heap, infoVars, hTimer, pool, activeTimerInfo, hRspTmr,
                 timer_queue, task>>

\* Mutant: a callback that does not forget its handle.
CallbackKeepsHandle ==
  /\ pc \in {"first_callback", "callback"}
  /\ UNCHANGED <<heap, infoVars, hTimer, pool, activeTimerInfo, hRspTmr,
                 timer_queue, msgs, now>>
  /\ pc' = IF pc = "first_callback" THEN "gettimeofday" ELSE "loop"
  /\ UNCHANGED <<client, tv, entered>>

(***************************************************************************)
(* timeoutCallbackFunc.  The callbacks of NwGtpv2cTrxn.c forget the handle *)
(* and then either start the timer again (a retransmission) or end the     *)
(* transaction.                                                            *)
(***************************************************************************)
Callback ==
  /\ pc \in {"first_callback", "callback"}
  /\ \/ /\ hRspTmr' = [hRspTmr EXCEPT ![client] = NULL]
        /\ UNCHANGED <<heap, infoVars, hTimer, pool, activeTimerInfo,
                       timer_queue, msgs, now>>
     \/ \E d \in Durations : nwGtpv2cStartTimer(client, d)
  /\ pc' = IF pc = "first_callback" THEN "gettimeofday" ELSE "loop"
  /\ UNCHANGED <<client, tv, entered>>

ReadClock == /\ pc = "gettimeofday"
             /\ tv' = now
             /\ pc' = "loop"
             /\ UNCHANGED <<now, heap, infoVars, hTimer, pool, activeTimerInfo,
                            hRspTmr, ittiVars, client, entered>>

\* Mutant: the timers that are not due expire as well.
LoopExpireAll ==
  /\ pc = "loop"
  /\ \E m \in Earliest(heap) : TakeExpired(m, heap)
  /\ pc' = "callback"
  /\ UNCHANGED <<now, infoVars, hTimer, activeTimerInfo, hRspTmr, ittiVars, tv,
                 entered>>

\* The loop: every timer that was due when the clock was read.
LoopExpire ==
  /\ pc = "loop"
  /\ \E m \in Earliest(heap) :
       /\ tvTimeout[m] <= tv
       /\ TakeExpired(m, heap)
  /\ pc' = "callback"
  /\ UNCHANGED <<now, infoVars, hTimer, activeTimerInfo, hRspTmr, ittiVars, tv,
                 entered>>

\* Mutant: no ITTI timer is asked for after the loop.
LoopEndIdle ==
  /\ pc = "loop"
  /\ \A m \in heap : tvTimeout[m] > tv
  /\ pc' = "idle"
  /\ UNCHANGED <<now, heap, infoVars, hTimer, pool, activeTimerInfo, hRspTmr,
                 ittiVars, client, tv, entered>>

\* After the loop ITTI is asked for the earliest timer, unless a callback
\* has started one.
LoopEnd ==
  /\ pc = "loop"
  /\ \A m \in heap : tvTimeout[m] > tv
  /\ \/ /\ activeTimerInfo # NULL \/ heap = {}
        /\ UNCHANGED <<activeTimerInfo, hTimer, timer_queue>>
     \/ /\ activeTimerInfo = NULL
        /\ \E m \in Earliest(heap), h \in Handles :
             /\ ~ Listed(h)
             /\ timer_queue' =
                  timer_setup(timer_queue, h, m, tvTimeout[m] - tv)
             /\ hTimer' = [hTimer EXCEPT ![m] = h]
             /\ activeTimerInfo' = m
  /\ pc' = "idle"
  /\ UNCHANGED <<now, heap, infoVars, pool, hRspTmr, msgs, client, tv, entered>>

(***************************************************************************)
(* A handler of the Sm task starts the timer of a transaction.             *)
(***************************************************************************)
StartTimer(c, d) ==
  /\ pc = "idle"
  /\ hRspTmr[c] = NULL
  /\ nwGtpv2cStartTimer(c, d)
  /\ UNCHANGED task

\* Nothing more happens once the clock has stopped and all is quiet.
HorizonReached == /\ pc = "idle" /\ msgs = <<>> /\ now = MaxTime
                  /\ UNCHANGED vars

SmTask == \/ TimeoutOfActive
          \/ TimeoutOfOther
          \/ Callback
          \/ ReadClock
          \/ LoopExpire
          \/ LoopEnd

Next == \/ Tick
        \/ SmTask
        \/ \E h \in Handles : timer_handle_signal(h)
        \/ \E c \in Clients, d \in Durations : StartTimer(c, d)
        \/ \E c \in Clients : nwGtpv2cStopTimer(c)
        \/ HorizonReached

Spec == Init /\ [][Next]_vars

(***************************************************************************)
(* The clock advances, the signal thread handles every signal, and the Sm  *)
(* task handles every message and runs every call to its end.              *)
(***************************************************************************)
Fairness == /\ WF_vars(Tick)
            /\ WF_vars(SmTask)
            /\ \A h \in Handles : WF_vars(timer_handle_signal(h))

FairSpec == Spec /\ Fairness
-----------------------------------------------------------------------------
(***************************************************************************)
(* Each variable holds a value of its C type.                              *)
(***************************************************************************)
TypeOK ==
  /\ now \in Nat
  /\ heap \subseteq Infos
  /\ tvTimeout \in [Infos -> Nat]
  /\ timeoutArg \in [Infos -> Clients \cup {NULL}]
  /\ hTimer \in [Infos -> Handles \cup {NULL}]
  /\ pool \in Seq(Infos)
  /\ activeTimerInfo \in Infos \cup {NULL}
  /\ hRspTmr \in [Clients -> Infos \cup {NULL}]
  /\ timer_queue \in [Handles -> timer_elm \cup {NULL}]
  /\ msgs \in Seq(Infos)
  /\ pc \in {"idle", "first_callback", "gettimeofday", "callback", "loop"}
  /\ client \in Clients \cup {NULL}
  /\ tv \in Nat
  /\ entered \in Nat

(***************************************************************************)
(* No timeoutInfo is at once pending and free, and none is free twice: the *)
(* pool hands out no info that the heap or another client still uses.      *)
(***************************************************************************)
PoolSound == IsFreeList(pool, heap)

(***************************************************************************)
(* The handle a transaction holds is a pending timer of its own, so that   *)
(* stopping it never removes the timer of another, and every pending timer *)
(* is held by the transaction it will call.  (The transaction whose        *)
(* callback is about to run still holds a handle that is already free.)    *)
(***************************************************************************)
InCallback(c) == pc \in {"first_callback", "callback"} /\ c = client

HandlesOwned ==
  /\ \A c \in Clients : hRspTmr[c] # NULL /\ ~ InCallback(c) =>
       hRspTmr[c] \in heap /\ timeoutArg[hRspTmr[c]] = c
  /\ \A x \in heap : timeoutArg[x] \in Clients /\ hRspTmr[timeoutArg[x]] = x

(***************************************************************************)
(* NW_ASSERT (NW_OK == rc) after the tmrStopCallback of                    *)
(* nwGtpv2cStartTimer never fails: an active timer that is due after a new *)
(* one has not expired yet, so ITTI still knows it.                        *)
(***************************************************************************)
StopOfActiveSucceeds ==
  activeTimerInfo # NULL =>
    \A d \in Durations :
      tvTimeout[activeTimerInfo] > now + d => Listed(hTimer[activeTimerInfo])

(***************************************************************************)
(* A timer is never lost: between calls, when timers are pending, one of   *)
(* them is active, and either ITTI has it in its list for the manager or   *)
(* its expiry is already on its way to TASK_SM.                            *)
(***************************************************************************)
ActiveIsGuarded ==
  pc = "idle" =>
    /\ heap # {} <=> activeTimerInfo # NULL
    /\ activeTimerInfo # NULL =>
         /\ activeTimerInfo \in heap
         /\ \/ /\ Listed(hTimer[activeTimerInfo])
               /\ timer_queue[hTimer[activeTimerInfo]].arg = activeTimerInfo
            \/ \E i \in 1 .. Len(msgs) : msgs[i] = activeTimerInfo

(***************************************************************************)
(* A callback that starts a timer makes it the active one even when an     *)
(* earlier timer waits in the heap; the wait that this adds is bounded by  *)
(* the longest duration.                                                   *)
(***************************************************************************)
BoundedLateness ==
  pc = "idle" /\ activeTimerInfo # NULL =>
    \A x \in heap : \E d \in Durations :
      tvTimeout[activeTimerInfo] < tvTimeout[x] + d + MaxStall

\* When the timer of each client is due.
Runs == [c \in Clients |-> IF hRspTmr[c] = NULL THEN NULL ELSE tvTimeout[hRspTmr[c]]]

Service == INSTANCE TimerService WITH runs <- Runs

(***************************************************************************)
(* The manager keeps the promise of module TimerService: in particular it  *)
(* calls no callback before its timer is due.                              *)
(***************************************************************************)
ImplementsService == Service!Spec

(***************************************************************************)
(* As long as no timer is stopped, the manager uses one ITTI timer at a    *)
(* time, that of the active info: none is left behind when a callback or a *)
(* new timer replaces it.                                                  *)
(***************************************************************************)
OneIttiTimer ==
  \A h \in Handles : Listed(h) =>
    activeTimerInfo # NULL /\ h = hTimer[activeTimerInfo]

(***************************************************************************)
(* The timer that timer_setup was asked for, and returned 0 for, will      *)
(* expire: it is armed.                                                    *)
(***************************************************************************)
SetupTimersRun == \A h \in Handles : Listed(h) => timer_queue[h].armed

(***************************************************************************)
(* A timeout that nwGtpv2cProcessTimeout takes for that of the active      *)
(* timer is one: the timer is due.  Any other is dropped as one "for       *)
(* non-existent timeoutInfo".                                              *)
(***************************************************************************)
NoPrematureTimeout ==
  [][TimeoutOfActive => tvTimeout[activeTimerInfo] <= now]_vars

(***************************************************************************)
(* Every pending timer leaves the heap: no sequence of expiries, late      *)
(* messages and timers started by callbacks leaves a timer waiting for an  *)
(* ITTI timer that nobody has asked for.                                   *)
(***************************************************************************)
EveryTimerEnds == \A x \in Infos : (x \in heap) ~> (x \notin heap)
=============================================================================
