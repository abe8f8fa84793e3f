------------------------- MODULE Gtpv2cTimer_proofs -------------------------
(***************************************************************************)
(* The safety of the timer manager of the GTPv2-C stack, for any number of *)
(* transactions, info objects and ITTI timers, any durations longer than a *)
(* call of the manager, and any horizon.                                   *)
(***************************************************************************)
EXTENDS Gtpv2cTimer, FreeList_proofs

(* A call takes at most MaxStall, and the loop of nwGtpv2cProcessTimeout   *)
(* read the clock during the call.                                         *)
CallTimes ==
  /\ pc # "idle" => entered <= now /\ now <= entered + MaxStall
  /\ pc \in {"callback", "loop"} => entered <= tv /\ tv <= now

(* The transaction whose callback is about to run has no pending timer.    *)
CallbackClient ==
  pc \in {"first_callback", "callback"} =>
    client \in Clients /\ hRspTmr[client] \notin heap

(* ITTI has the active timer x, set to expire when x is due or later, or   *)
(* x is due and its expiry is in the queue of TASK_SM.                     *)
Guarded(x) ==
  /\ hTimer[x] \in Handles
  /\ \/ /\ timer_queue[hTimer[x]] # NULL
        /\ timer_queue[hTimer[x]].arg = x
        /\ tvTimeout[x] <= timer_queue[hTimer[x]].at
     \/ /\ tvTimeout[x] <= now
        /\ \E i \in 1 .. Len(msgs) : msgs[i] = x

ActiveGuarded ==
  /\ activeTimerInfo # NULL => activeTimerInfo \in heap /\ Guarded(activeTimerInfo)
  /\ pc = "idle" /\ heap # {} => activeTimerInfo # NULL

(* A timer that became active during the call was started by a callback of *)
(* that call: it is due after the call.                                    *)
ActiveTimes ==
  /\ pc = "first_callback" => activeTimerInfo = NULL
  /\ pc # "idle" /\ activeTimerInfo # NULL =>
       /\ entered + MaxStall < tvTimeout[activeTimerInfo]
       /\ \E d \in Durations : tvTimeout[activeTimerInfo] <= entered + MaxStall + d

IInv == /\ TypeOK
        /\ PoolSound
        /\ HandlesOwned
        /\ CallTimes
        /\ CallbackClient
        /\ ActiveGuarded
        /\ ActiveTimes
        /\ BoundedLateness

(* When no timer is stopped, at most one ITTI timer or one message exists, *)
(* and it is that of the active timer.                                     *)
OneExpiry ==
  /\ \A h \in Handles : timer_queue[h] # NULL =>
       /\ activeTimerInfo # NULL
       /\ h = hTimer[activeTimerInfo]
       /\ msgs = <<>>
  /\ Len(msgs) <= 1
  /\ msgs # <<>> =>
       /\ activeTimerInfo # NULL
       /\ msgs[1] = activeTimerInfo
       /\ tvTimeout[activeTimerInfo] <= now

(* ... and the callback that is about to run is that of a timer that is    *)
(* due.                                                                    *)
CallbackDue ==
  pc \in {"first_callback", "callback"} =>
    hRspTmr[client] # NULL /\ tvTimeout[hRspTmr[client]] <= now
-----------------------------------------------------------------------------
(* The clock advances: what was due stays due. *)
LEMMA TickInv ==
  ASSUME IInv, Tick
  PROVE  IInv'
<1>1. /\ now \in Nat /\ entered \in Nat /\ tv \in Nat /\ MaxStall \in Nat
      /\ now' = now + 1
      /\ pc # "idle" => now < entered + MaxStall
  BY StallAssumption, Zenon DEF IInv, TypeOK, Tick
<1>2. UNCHANGED <<heap, tvTimeout, timeoutArg, hTimer, pool, activeTimerInfo,
                  hRspTmr, timer_queue, msgs, pc, client, tv, entered>>
  BY Zenon DEF Tick, infoVars, ittiVars, task
<1>3. TypeOK'
  BY <1>1, <1>2 DEF IInv, TypeOK
<1>4. CallTimes'
  BY <1>1, <1>2 DEF IInv, CallTimes
<1>5. ActiveGuarded'
  <2>1. ASSUME activeTimerInfo # NULL
        PROVE  activeTimerInfo \in heap /\ Guarded(activeTimerInfo)'
    <3>1. activeTimerInfo \in heap /\ Guarded(activeTimerInfo)
      BY <2>1, Zenon DEF IInv, ActiveGuarded
    <3>2. tvTimeout[activeTimerInfo] \in Nat
      BY <3>1, Zenon DEF IInv, TypeOK
    <3>3. tvTimeout[activeTimerInfo] <= now => tvTimeout[activeTimerInfo] <= now'
      BY <3>2, <1>1
    <3> QED BY <1>2, <3>1, <3>3, Zenon DEF Guarded
  <2> QED BY <1>2, <2>1, Zenon DEF IInv, ActiveGuarded
<1> QED BY <1>2, <1>3, <1>4, <1>5, Zenon
        DEF IInv, PoolSound, HandlesOwned, InCallback, CallbackClient, ActiveTimes,
            BoundedLateness

(* The signal thread: the expiry of the active timer goes from the list to *)
(* the queue of TASK_SM.                                                   *)
LEMMA SignalInv ==
  ASSUME IInv, NEW h \in Handles, timer_handle_signal(h)
  PROVE  IInv'
<1>1. /\ timer_queue[h] # NULL
      /\ timer_queue[h].at <= now
      /\ timer_queue' = [timer_queue EXCEPT ![h] = NULL]
      /\ msgs' = Append(msgs, timer_queue[h].arg)
      /\ UNCHANGED <<now, heap, tvTimeout, timeoutArg, hTimer, pool, activeTimerInfo,
                     hRspTmr, pc, client, tv, entered>>
  BY Zenon DEF timer_handle_signal, Listed, timer_remove, infoVars, task
<1>2. timer_queue[h] \in timer_elm
  BY <1>1, Zenon DEF IInv, TypeOK
<1>3. timer_queue[h].arg \in Infos /\ timer_queue[h].at \in Nat
  BY <1>2, Zenon DEF timer_elm
<1>4. TypeOK'
  <2>1. msgs' \in Seq(Infos)
    BY <1>1, <1>3 DEF IInv, TypeOK
  <2>2. timer_queue' \in [Handles -> timer_elm \cup {NULL}]
    BY <1>1, Zenon DEF IInv, TypeOK
  <2> QED BY <1>1, <2>1, <2>2, Zenon DEF IInv, TypeOK
<1>5. ActiveGuarded'
  <2>1. ASSUME activeTimerInfo # NULL
        PROVE  activeTimerInfo \in heap /\ Guarded(activeTimerInfo)'
    <3> DEFINE x == activeTimerInfo
    <3>1. x \in heap /\ Guarded(x)
      BY <2>1, Zenon DEF IInv, ActiveGuarded
    <3>2. tvTimeout[x] \in Nat /\ now \in Nat /\ msgs \in Seq(Infos)
      BY <3>1, Zenon DEF IInv, TypeOK
    <3>3. CASE /\ hTimer[x] = h
               /\ timer_queue[h].arg = x
               /\ tvTimeout[x] <= timer_queue[h].at
      <4>1. tvTimeout[x] <= now
        BY <1>1, <1>3, <3>2, <3>3
      <4>2. /\ Len(msgs) + 1 \in 1 .. Len(msgs')
            /\ msgs'[Len(msgs) + 1] = x
        BY <1>1, <1>3, <3>2, <3>3
      <4> QED BY <1>1, <3>1, <3>3, <4>1, <4>2, Zenon DEF Guarded
    <3>4. CASE /\ hTimer[x] # h
               /\ timer_queue[hTimer[x]] # NULL
               /\ timer_queue[hTimer[x]].arg = x
               /\ tvTimeout[x] <= timer_queue[hTimer[x]].at
      <4>1. timer_queue'[hTimer[x]] = timer_queue[hTimer[x]]
        BY <1>1, <3>1, <3>4, Zenon DEF IInv, TypeOK, Guarded
      <4> QED BY <1>1, <3>1, <3>4, <4>1, Zenon DEF Guarded
    <3>5. CASE /\ tvTimeout[x] <= now
               /\ \E i \in 1 .. Len(msgs) : msgs[i] = x
      <4>1. PICK i \in 1 .. Len(msgs) : msgs[i] = x
        BY <3>5, Zenon
      <4>2. i \in 1 .. Len(msgs') /\ msgs'[i] = x
        BY <1>1, <1>3, <3>2, <4>1
      <4> QED BY <1>1, <3>1, <3>5, <4>2, Zenon DEF Guarded
    <3> QED BY <3>1, <3>3, <3>4, <3>5, Zenon DEF Guarded
  <2> QED BY <1>1, <2>1, Zenon DEF IInv, ActiveGuarded
<1> QED BY <1>1, <1>4, <1>5, Zenon
        DEF IInv, PoolSound, HandlesOwned, InCallback, CallTimes, CallbackClient,
            ActiveTimes, BoundedLateness

(* What a call that expires the pending timer x leaves behind. *)
LEMMA ExpiredFacts ==
  ASSUME IInv, pc \notin {"first_callback", "callback"}, NEW x \in heap,
         TakeExpired(x, heap), pc' \in {"first_callback", "callback"},
         UNCHANGED <<timeoutArg, hRspTmr>>
  PROVE  /\ x \in Infos
         /\ heap' = heap \ {x}
         /\ heap' \subseteq Infos
         /\ pool' \in Seq(Infos)
         /\ client' \in Clients
         /\ hRspTmr[client'] = x
         /\ PoolSound'
         /\ HandlesOwned'
         /\ CallbackClient'
<1>1. /\ x \in Infos
      /\ heap' = heap \ {x}
      /\ heap' \subseteq Infos
      /\ pool' = Pushed(x, pool)
      /\ client' = timeoutArg[x]
  BY Zenon DEF IInv, TypeOK, TakeExpired
<1>2. pool' \in Seq(Infos) /\ PoolSound'
  <2>1. pool \in Seq(Infos) /\ IsFreeList(pool, heap) /\ heap \cup {x} = heap
    BY Zenon DEF IInv, TypeOK, PoolSound
  <2>2. /\ Pushed(x, pool) \in Seq(Infos)
        /\ IsFreeList(Pushed(x, pool), heap \ {x})
    BY <1>1, <2>1, ReleaseFacts, ZenonT(30)
  <2> QED BY <1>1, <2>2, Zenon DEF PoolSound
<1>3. client' \in Clients /\ hRspTmr[client'] = x
  BY <1>1, Zenon DEF IInv, HandlesOwned
<1>4. CallbackClient'
  BY <1>1, <1>3, Zenon DEF CallbackClient
<1>5. HandlesOwned'
  <2>1. ASSUME NEW c \in Clients, hRspTmr[c] # NULL, c # client'
        PROVE  hRspTmr[c] \in heap' /\ timeoutArg[hRspTmr[c]] = c
    <3>1. hRspTmr[c] \in heap /\ timeoutArg[hRspTmr[c]] = c
      BY <2>1, Zenon DEF IInv, HandlesOwned, InCallback
    <3> QED BY <2>1, <3>1, <1>1, Zenon
  <2>2. ASSUME NEW y \in heap'
        PROVE  timeoutArg[y] \in Clients /\ hRspTmr[timeoutArg[y]] = y
    BY <2>2, <1>1, Zenon DEF IInv, HandlesOwned
  <2> QED BY <2>1, <2>2, Zenon DEF HandlesOwned, InCallback
<1> QED BY <1>1, <1>2, <1>3, <1>4, <1>5, Zenon

(* TASK_SM takes the timeout of the active timer. *)
LEMMA TimeoutOfActiveInv ==
  ASSUME IInv, TimeoutOfActive
  PROVE  IInv'
<1>1. /\ pc = "idle" /\ pc' = "first_callback"
      /\ msgs # <<>> /\ msgs' = Tail(msgs)
      /\ Head(msgs) = activeTimerInfo
      /\ TakeExpired(activeTimerInfo, heap)
      /\ activeTimerInfo' = NULL
      /\ entered' = now
      /\ UNCHANGED <<now, tvTimeout, timeoutArg, hTimer, hRspTmr, timer_queue, tv>>
  BY Zenon DEF TimeoutOfActive, infoVars
<1>2. activeTimerInfo \in heap
  <2>1. activeTimerInfo \in Infos
    BY <1>1 DEF IInv, TypeOK
  <2> QED BY <2>1, NullAssumption, Zenon DEF IInv, ActiveGuarded
<1>3. /\ heap' \subseteq Infos
      /\ pool' \in Seq(Infos)
      /\ client' \in Clients
      /\ PoolSound'
      /\ HandlesOwned'
      /\ CallbackClient'
  BY <1>1, <1>2, ExpiredFacts, Zenon
<1>4. TypeOK'
  <2>1. msgs' \in Seq(Infos)
    BY <1>1 DEF IInv, TypeOK
  <2> QED BY <1>1, <1>3, <2>1, Zenon DEF IInv, TypeOK
<1>5. CallTimes'
  BY <1>1, StallAssumption DEF IInv, TypeOK, CallTimes
<1>6. ActiveGuarded' /\ ActiveTimes' /\ BoundedLateness'
  BY <1>1, Zenon DEF ActiveGuarded, ActiveTimes, BoundedLateness
<1> QED BY <1>3, <1>4, <1>5, <1>6, Zenon DEF IInv

(* TASK_SM drops a timeout of another timer; that of the active one stays. *)
LEMMA TimeoutOfOtherInv ==
  ASSUME IInv, TimeoutOfOther
  PROVE  IInv'
<1>1. /\ msgs # <<>> /\ msgs' = Tail(msgs)
      /\ Head(msgs) # activeTimerInfo
      /\ UNCHANGED <<now, heap, tvTimeout, timeoutArg, hTimer, pool, activeTimerInfo,
                     hRspTmr, timer_queue, pc, client, tv, entered>>
  BY Zenon DEF TimeoutOfOther, infoVars, task
<1>2. msgs \in Seq(Infos)
  BY Zenon DEF IInv, TypeOK
<1>3. TypeOK'
  <2>1. msgs' \in Seq(Infos)
    BY <1>1, <1>2
  <2> QED BY <1>1, <2>1, Zenon DEF IInv, TypeOK
<1>4. ActiveGuarded'
  <2>1. ASSUME NEW i \in 1 .. Len(msgs), msgs[i] = activeTimerInfo
        PROVE  \E j \in 1 .. Len(msgs') : msgs'[j] = activeTimerInfo
    <3>1. Head(msgs) = msgs[1] /\ Len(msgs) \in Nat
      BY <1>1, <1>2
    <3>2. i # 1
      BY <1>1, <2>1, <3>1, Zenon
    <3>3. i - 1 \in 1 .. Len(msgs') /\ msgs'[i - 1] = msgs[i]
      BY <1>1, <1>2, <3>1, <3>2
    <3> QED BY <2>1, <3>3, Zenon
  <2>2. ASSUME activeTimerInfo # NULL
        PROVE  Guarded(activeTimerInfo)'
    BY <1>1, <2>1, <2>2, Zenon DEF IInv, ActiveGuarded, Guarded
  <2> QED BY <1>1, <2>2, Zenon DEF IInv, ActiveGuarded
<1> QED BY <1>1, <1>3, <1>4, Zenon
        DEF IInv, PoolSound, HandlesOwned, InCallback, CallTimes, CallbackClient,
            ActiveTimes, BoundedLateness

(* The clock is read between the first callback and the loop. *)
LEMMA ReadClockInv ==
  ASSUME IInv, ReadClock
  PROVE  IInv'
<1>1. /\ pc = "gettimeofday" /\ pc' = "loop" /\ tv' = now
      /\ UNCHANGED <<now, heap, tvTimeout, timeoutArg, hTimer, pool, activeTimerInfo,
                     hRspTmr, timer_queue, msgs, client, entered>>
  BY Zenon DEF ReadClock, infoVars, ittiVars
<1>2. TypeOK' /\ CallTimes'
  BY <1>1 DEF IInv, TypeOK, CallTimes
<1>3. ActiveGuarded'
  BY <1>1, Zenon DEF IInv, ActiveGuarded, Guarded
<1>4. HandlesOwned' /\ CallbackClient'
  BY <1>1, Zenon DEF IInv, HandlesOwned, InCallback, CallbackClient
<1>5. ActiveTimes' /\ BoundedLateness' /\ PoolSound'
  BY <1>1, Zenon DEF IInv, ActiveTimes, BoundedLateness, PoolSound
<1> QED BY <1>2, <1>3, <1>4, <1>5, Zenon DEF IInv

(* The loop expires a timer that was due when the clock was read, which is *)
(* not the active one.                                                     *)
LEMMA LoopExpireInv ==
  ASSUME IInv, LoopExpire
  PROVE  IInv'
<1>1. PICK m \in Earliest(heap) : tvTimeout[m] <= tv /\ TakeExpired(m, heap)
  BY Zenon DEF LoopExpire
<1>2. /\ pc = "loop" /\ pc' = "callback"
      /\ UNCHANGED <<now, tvTimeout, timeoutArg, hTimer, activeTimerInfo, hRspTmr,
                     timer_queue, msgs, tv, entered>>
  BY Zenon DEF LoopExpire, infoVars, ittiVars
<1>3. m \in heap
  BY <1>1, Zenon DEF Earliest
<1>4. /\ heap' = heap \ {m}
      /\ heap' \subseteq Infos
      /\ pool' \in Seq(Infos)
      /\ client' \in Clients
      /\ PoolSound'
      /\ HandlesOwned'
      /\ CallbackClient'
  BY <1>1, <1>2, <1>3, ExpiredFacts, Zenon
<1>5. TypeOK' /\ CallTimes'
  BY <1>2, <1>4, Zenon DEF IInv, TypeOK, CallTimes
<1>6. activeTimerInfo # NULL => activeTimerInfo # m
  <2>1. /\ tvTimeout[m] \in Nat /\ tv \in Nat /\ now \in Nat /\ entered \in Nat
        /\ MaxStall \in Nat
    BY <1>3, StallAssumption, Zenon DEF IInv, TypeOK
  <2>2. tv <= now /\ now <= entered + MaxStall
    BY <1>2, Zenon DEF IInv, CallTimes
  <2>3. activeTimerInfo # NULL => entered + MaxStall < tvTimeout[activeTimerInfo]
    BY <1>2, Zenon DEF IInv, ActiveTimes
  <2>4. ~ (entered + MaxStall < tvTimeout[m])
    BY <1>1, <2>1, <2>2
  <2> QED BY <2>3, <2>4, Zenon
<1>7. ActiveGuarded'
  BY <1>2, <1>4, <1>6, Zenon DEF IInv, ActiveGuarded, Guarded
<1>8. ActiveTimes' /\ BoundedLateness'
  BY <1>2, Zenon DEF IInv, ActiveTimes, BoundedLateness
<1> QED BY <1>4, <1>5, <1>7, <1>8, Zenon DEF IInv

(* Every duration is positive and longer than a call. *)
LEMMA DurationFacts ==
  ASSUME NEW d \in Durations
  PROVE  d \in Nat /\ MaxStall \in Nat /\ MaxStall < d
BY DurationsAssumption, StallAssumption, Zenon

(* The interval from b to a, asked for at b, ends at a. *)
LEMMA IntervalFacts ==
  ASSUME NEW a \in Nat, NEW b \in Nat, a >= b
  PROVE  a - b \in Nat /\ b + (a - b) = a
OBVIOUS

(* What timer_setup of a free handle h for the info m puts into the list. *)
LEMMA SetupFacts ==
  ASSUME NEW h \in Handles, NEW m \in Infos, NEW interval \in Nat, now \in Nat,
         NEW list \in [Handles -> timer_elm \cup {NULL}]
  PROVE  /\ timer_setup(list, h, m, interval) \in [Handles -> timer_elm \cup {NULL}]
         /\ timer_setup(list, h, m, interval)[h] # NULL
         /\ timer_setup(list, h, m, interval)[h].arg = m
         /\ timer_setup(list, h, m, interval)[h].at = now + interval
<1> DEFINE r == [arg |-> m, armed |-> interval > 0, at |-> now + interval]
<1>1. now + interval \in Nat
  OBVIOUS
<1>2. r \in timer_elm /\ r.arg = m /\ r.at = now + interval
  BY <1>1 DEF timer_elm
<1>3. r # NULL
  BY <1>2, NullAssumption, Zenon
<1>4. timer_setup(list, h, m, interval) = [list EXCEPT ![h] = r]
  BY Zenon DEF timer_setup
<1> HIDE DEF r
<1> QED BY <1>2, <1>3, <1>4, Zenon

(* The loop has ended, and ITTI has the active timer or is asked for the   *)
(* earliest.                                                               *)
LEMMA LoopEndInv ==
  ASSUME IInv, LoopEnd
  PROVE  IInv'
<1>1. /\ pc = "loop" /\ pc' = "idle"
      /\ \A m \in heap : tvTimeout[m] > tv
      /\ UNCHANGED <<now, heap, tvTimeout, timeoutArg, pool, hRspTmr, msgs, client,
                     tv, entered>>
  BY Zenon DEF LoopEnd, infoVars
<1>2. /\ now \in Nat /\ tv \in Nat /\ entered \in Nat /\ MaxStall \in Nat
      /\ heap \subseteq Infos
      /\ \A m \in heap : tvTimeout[m] \in Nat
  BY StallAssumption, Zenon DEF IInv, TypeOK
<1>3. entered <= tv /\ tv <= now
  BY <1>1, Zenon DEF IInv, CallTimes
<1>4. PoolSound' /\ HandlesOwned' /\ CallTimes' /\ CallbackClient' /\ ActiveTimes'
  BY <1>1, Zenon
  DEF IInv, PoolSound, HandlesOwned, InCallback, CallTimes, CallbackClient,
              ActiveTimes
<1>5. CASE /\ activeTimerInfo # NULL \/ heap = {}
           /\ UNCHANGED <<activeTimerInfo, hTimer, timer_queue>>
  <2>1. TypeOK' /\ ActiveGuarded'
    BY <1>1, <1>5, Zenon DEF IInv, TypeOK, ActiveGuarded, Guarded
  <2>2. BoundedLateness'
    <3>1. ASSUME activeTimerInfo # NULL, NEW x \in heap
          PROVE  \E d \in Durations :
                   tvTimeout[activeTimerInfo] < tvTimeout[x] + d + MaxStall
      <4>1. PICK d \in Durations : tvTimeout[activeTimerInfo] <= entered + MaxStall + d
        BY <1>1, <3>1, Zenon DEF IInv, ActiveTimes
      <4>2. d \in Nat
        BY DurationFacts, Zenon
      <4>3. activeTimerInfo \in heap
        BY <3>1, Zenon DEF IInv, ActiveGuarded
      <4>4. tvTimeout[x] > tv /\ tvTimeout[x] \in Nat
            /\ tvTimeout[activeTimerInfo] \in Nat
        BY <1>1, <1>2, <4>3, Zenon
      <4>5. tvTimeout[activeTimerInfo] < tvTimeout[x] + d + MaxStall
        BY <1>2, <1>3, <4>1, <4>2, <4>4
      <4> QED BY <4>5, Zenon
    <3> QED BY <1>1, <1>5, <3>1, Zenon DEF BoundedLateness
  <2> QED BY <1>4, <2>1, <2>2, Zenon DEF IInv
<1>6. ASSUME NEW m \in Earliest(heap), NEW h \in Handles,
             timer_queue' = timer_setup(timer_queue, h, m, tvTimeout[m] - tv),
             hTimer' = [hTimer EXCEPT ![m] = h],
             activeTimerInfo' = m
      PROVE  IInv'
  <2>1. /\ m \in heap
        /\ m \in Infos
        /\ tvTimeout[m] \in Nat
        /\ tvTimeout[m] > tv
        /\ \A x \in heap : tvTimeout[m] <= tvTimeout[x]
    BY <1>1, <1>2, Zenon DEF Earliest
  <2>2. tvTimeout[m] - tv \in Nat /\ tvTimeout[m] <= now + (tvTimeout[m] - tv)
    BY <1>2, <1>3, <2>1
  <2>3. /\ timer_queue' \in [Handles -> timer_elm \cup {NULL}]
        /\ timer_queue'[h] # NULL
        /\ timer_queue'[h].arg = m
        /\ timer_queue'[h].at = now + (tvTimeout[m] - tv)
    <3>1. timer_queue \in [Handles -> timer_elm \cup {NULL}]
      BY Zenon DEF IInv, TypeOK
    <3> QED BY <1>2, <1>6, <2>1, <2>2, <3>1, SetupFacts
  <2>4. hTimer' \in [Infos -> Handles \cup {NULL}] /\ hTimer'[m] = h
    BY <1>6, <2>1, Zenon DEF IInv, TypeOK
  <2>5. TypeOK'
    BY <1>1, <1>6, <2>1, <2>3, <2>4, Zenon DEF IInv, TypeOK
  <2>6. ActiveGuarded'
    <3>1. tvTimeout'[m] <= timer_queue'[h].at
      BY <1>1, <2>2, <2>3, Zenon
    <3>2. Guarded(activeTimerInfo)'
      BY <1>6, <2>3, <2>4, <3>1, Zenon DEF Guarded
    <3>3. activeTimerInfo' # NULL
      BY <1>6, <2>1, NullAssumption, Zenon
    <3> QED BY <1>1, <1>6, <2>1, <3>2, <3>3, Zenon DEF ActiveGuarded
  <2>7. BoundedLateness'
    <3>1. PICK d \in Durations : TRUE
      BY DurationsAssumption, Zenon
    <3>2. d \in Nat /\ MaxStall < d
      BY DurationFacts, Zenon
    <3>3. ASSUME NEW x \in heap PROVE tvTimeout[m] < tvTimeout[x] + d + MaxStall
      <4>1. tvTimeout[x] \in Nat /\ tvTimeout[m] <= tvTimeout[x]
        BY <1>2, <2>1, Zenon
      <4> QED BY <1>2, <2>1, <3>2, <4>1
    <3> QED BY <1>1, <1>6, <3>3, Zenon DEF BoundedLateness
  <2> QED BY <1>4, <2>5, <2>6, <2>7, Zenon DEF IInv
<1> QED BY <1>5, <1>6, Zenon DEF LoopEnd

(***************************************************************************)
(* nwGtpv2cStartTimer for a client without a pending timer.  The timer is  *)
(* new, it is the active one or due after it, and whichever is active is   *)
(* guarded.                                                                *)
(***************************************************************************)
StartPromise(x, c, d) ==
  /\ x \in Infos \ heap
  /\ heap' = heap \cup {x}
  /\ tvTimeout' = [tvTimeout EXCEPT ![x] = now + d]
  /\ timeoutArg' = [timeoutArg EXCEPT ![x] = c]
  /\ hRspTmr' = [hRspTmr EXCEPT ![c] = x]
  /\ pool' \in Seq(Infos)
  /\ timer_queue' \in [Handles -> timer_elm \cup {NULL}]
  /\ hTimer' \in [Infos -> Handles \cup {NULL}]
  /\ PoolSound'
  /\ activeTimerInfo' \in heap'
  /\ Guarded(activeTimerInfo)'
  /\ \/ /\ activeTimerInfo' = activeTimerInfo
        /\ activeTimerInfo # NULL
        /\ tvTimeout[activeTimerInfo] <= now + d
        /\ UNCHANGED <<hTimer, timer_queue>>
     \/ /\ activeTimerInfo' = x
        /\ activeTimerInfo # NULL => now + d < tvTimeout[activeTimerInfo]
        /\ \A h \in Handles : timer_queue'[h] # NULL /\ h # hTimer'[x] =>
             /\ timer_queue[h] # NULL
             /\ activeTimerInfo # NULL => h # hTimer[activeTimerInfo]
  /\ UNCHANGED <<now, msgs>>

LEMMA StartFacts ==
  ASSUME IInv, NEW c \in Clients, NEW d \in Durations, nwGtpv2cStartTimer(c, d)
  PROVE  \E x \in Infos : StartPromise(x, c, d)
<1>1. PICK x \in NewInfo :
        /\ pool' = Popped(pool)
        /\ heap' = heap \cup {x}
        /\ tvTimeout' = [tvTimeout EXCEPT ![x] = now + d]
        /\ timeoutArg' = [timeoutArg EXCEPT ![x] = c]
        /\ hRspTmr' = [hRspTmr EXCEPT ![c] = x]
        /\ \/ /\ ~ DueBeforeActive(now + d)
              /\ UNCHANGED <<activeTimerInfo, hTimer, timer_queue>>
           \/ /\ DueBeforeActive(now + d)
              /\ \E h \in Handles :
                   /\ ActiveStopped[h] = NULL
                   /\ timer_queue' = timer_setup(ActiveStopped, h, x, d)
                   /\ hTimer' = [hTimer EXCEPT ![x] = h]
              /\ activeTimerInfo' = x
  BY Zenon DEF nwGtpv2cStartTimer
<1>2. UNCHANGED <<now, msgs>>
  BY Zenon DEF nwGtpv2cStartTimer
<1>3. /\ x \in Infos
      /\ x \notin heap
      /\ pool' \in Seq(Infos)
      /\ PoolSound'
  <2>1. pool \in Seq(Infos) /\ IsFreeList(pool, heap)
    BY Zenon DEF IInv, TypeOK, PoolSound
  <2>2. x \in Allocated(pool, Infos \ heap)
    BY Zenon DEF NewInfo
  <2>3. /\ x \in Infos
        /\ x \notin heap
        /\ Popped(pool) \in Seq(Infos)
        /\ IsFreeList(Popped(pool), heap \cup {x})
    BY <2>1, <2>2, AllocationFacts, ZenonT(30)
  <2> QED BY <1>1, <2>3, Zenon DEF PoolSound
<1>4. /\ now \in Nat /\ d \in Nat
      /\ tvTimeout \in [Infos -> Nat]
      /\ hTimer \in [Infos -> Handles \cup {NULL}]
      /\ timer_queue \in [Handles -> timer_elm \cup {NULL}]
      /\ heap \subseteq Infos
  BY DurationFacts, Zenon DEF IInv, TypeOK
<1>5. CASE /\ ~ DueBeforeActive(now + d)
           /\ UNCHANGED <<activeTimerInfo, hTimer, timer_queue>>
  <2>1. activeTimerInfo # NULL /\ ~ (tvTimeout[activeTimerInfo] > now + d)
    BY <1>5, Zenon DEF DueBeforeActive
  <2>2. activeTimerInfo \in heap /\ Guarded(activeTimerInfo)
    BY <2>1, Zenon DEF IInv, ActiveGuarded
  <2>3. /\ tvTimeout[activeTimerInfo] \in Nat
        /\ tvTimeout'[activeTimerInfo] = tvTimeout[activeTimerInfo]
    BY <1>1, <1>3, <1>4, <2>2, Zenon
  <2>4. tvTimeout[activeTimerInfo] <= now + d
    BY <1>4, <2>1, <2>3
  <2>5. Guarded(activeTimerInfo)'
    BY <1>2, <1>5, <2>2, <2>3, Zenon DEF Guarded
  <2> QED BY <1>1, <1>2, <1>3, <1>4, <1>5, <2>1, <2>2, <2>4, <2>5, Zenon
          DEF StartPromise
<1>6. CASE /\ DueBeforeActive(now + d)
           /\ activeTimerInfo' = x
           /\ \E h \in Handles :
                /\ timer_queue' = timer_setup(ActiveStopped, h, x, d)
                /\ hTimer' = [hTimer EXCEPT ![x] = h]
  <2>1. PICK h \in Handles : /\ timer_queue' = timer_setup(ActiveStopped, h, x, d)
                             /\ hTimer' = [hTimer EXCEPT ![x] = h]
    BY <1>6, Zenon
  <2>2. ActiveStopped \in [Handles -> timer_elm \cup {NULL}]
    BY <1>4, Zenon DEF ActiveStopped, timer_remove
  <2>8. \A g \in Handles : ActiveStopped[g] # NULL =>
          /\ timer_queue[g] # NULL
          /\ activeTimerInfo # NULL => g # hTimer[activeTimerInfo]
    BY <1>4, Zenon DEF ActiveStopped, timer_remove
  <2>3. /\ timer_queue' \in [Handles -> timer_elm \cup {NULL}]
        /\ timer_queue'[h] # NULL
        /\ timer_queue'[h].arg = x
        /\ timer_queue'[h].at = now + d
    BY <1>3, <1>4, <2>1, <2>2, SetupFacts, SMTT(30)
  <2>4. hTimer' \in [Infos -> Handles \cup {NULL}] /\ hTimer'[x] = h
    BY <1>3, <1>4, <2>1, Zenon
  <2>5. tvTimeout'[x] <= timer_queue'[h].at
    <3>1. tvTimeout'[x] = now + d
      BY <1>1, <1>3, <1>4, Zenon
    <3> QED BY <1>4, <2>3, <3>1
  <2>6. Guarded(activeTimerInfo)'
    BY <1>6, <2>3, <2>4, <2>5, Zenon DEF Guarded
  <2>7. activeTimerInfo # NULL => now + d < tvTimeout[activeTimerInfo]
    <3>1. ASSUME activeTimerInfo # NULL PROVE tvTimeout[activeTimerInfo] \in Nat
      BY <3>1, <1>4, Zenon DEF IInv, ActiveGuarded
    <3> QED BY <1>4, <1>6, <3>1, Zenon DEF DueBeforeActive
  <2>9. \A g \in Handles :
          timer_queue'[g] # NULL /\ g # hTimer'[x] => ActiveStopped[g] # NULL
    BY <2>1, <2>2, <2>4, Zenon DEF timer_setup
  <2> QED BY <1>1, <1>2, <1>3, <1>6, <2>3, <2>4, <2>6, <2>7, <2>8, <2>9, Zenon
          DEF StartPromise
<1> QED BY <1>1, <1>5, <1>6, Zenon

(* The new timer is owned by its client, and no other timer changes hands. *)
LEMMA StartOwned ==
  ASSUME IInv, NEW c \in Clients, NEW d \in Durations, NEW x \in Infos,
         StartPromise(x, c, d), hRspTmr[c] \notin heap,
         \A e \in Clients : InCallback(e) => e = c,
         pc' \notin {"first_callback", "callback"}
  PROVE  HandlesOwned' /\ CallbackClient'
<1>1. /\ x \notin heap
      /\ heap' = heap \cup {x}
      /\ timeoutArg' = [timeoutArg EXCEPT ![x] = c]
      /\ hRspTmr' = [hRspTmr EXCEPT ![c] = x]
  BY Zenon DEF StartPromise
<1>2. /\ timeoutArg \in [Infos -> Clients \cup {NULL}]
      /\ hRspTmr \in [Clients -> Infos \cup {NULL}]
      /\ heap \subseteq Infos
  BY Zenon DEF IInv, TypeOK
<1>3. ASSUME NEW e \in Clients, hRspTmr'[e] # NULL
      PROVE  hRspTmr'[e] \in heap' /\ timeoutArg'[hRspTmr'[e]] = e
  <2>1. CASE e = c
    BY <1>1, <1>2, <2>1, Zenon
  <2>2. CASE e # c
    <3>1. hRspTmr'[e] = hRspTmr[e]
      BY <1>1, <1>2, <2>2, Zenon
    <3>2. hRspTmr[e] \in heap /\ timeoutArg[hRspTmr[e]] = e
      BY <1>3, <2>2, <3>1, Zenon DEF IInv, HandlesOwned
    <3> QED BY <1>1, <1>2, <3>1, <3>2, Zenon
  <2> QED BY <2>1, <2>2, Zenon
<1>4. ASSUME NEW y \in heap'
      PROVE  timeoutArg'[y] \in Clients /\ hRspTmr'[timeoutArg'[y]] = y
  <2>1. CASE y = x
    BY <1>1, <1>2, <2>1, Zenon
  <2>2. CASE y # x
    <3>1. y \in heap /\ timeoutArg'[y] = timeoutArg[y]
      BY <1>1, <1>2, <2>2, Zenon
    <3>2. timeoutArg[y] \in Clients /\ hRspTmr[timeoutArg[y]] = y
      BY <3>1, Zenon DEF IInv, HandlesOwned
    <3>3. timeoutArg[y] # c
      BY <3>1, <3>2, Zenon
    <3> QED BY <1>1, <1>2, <3>1, <3>2, <3>3, Zenon
  <2> QED BY <2>1, <2>2, Zenon
<1> QED BY <1>3, <1>4, Zenon DEF HandlesOwned, CallbackClient

(* The types after a start. *)
LEMMA StartType ==
  ASSUME IInv, NEW c \in Clients, NEW d \in Durations, NEW x \in Infos,
         StartPromise(x, c, d), UNCHANGED <<client, tv, entered>>,
         pc' \in {"idle", "gettimeofday", "loop"}
  PROVE  TypeOK'
<1>1. now \in Nat /\ d \in Nat /\ now + d \in Nat
  BY DurationFacts DEF IInv, TypeOK
<1>2. /\ tvTimeout' \in [Infos -> Nat]
      /\ timeoutArg' \in [Infos -> Clients \cup {NULL}]
      /\ hRspTmr' \in [Clients -> Infos \cup {NULL}]
  BY <1>1, Zenon DEF IInv, TypeOK, StartPromise
<1>3. heap' \subseteq Infos /\ activeTimerInfo' \in Infos
  BY Zenon DEF IInv, TypeOK, StartPromise
<1> QED BY <1>2, <1>3, Zenon DEF IInv, TypeOK, StartPromise

(* A handler of TASK_SM starts a timer. *)
LEMMA StartTimerInv ==
  ASSUME IInv, NEW c \in Clients, NEW d \in Durations, StartTimer(c, d)
  PROVE  IInv'
<1>1. /\ pc = "idle" /\ hRspTmr[c] = NULL
      /\ nwGtpv2cStartTimer(c, d)
      /\ UNCHANGED <<pc, client, tv, entered>>
  BY Zenon DEF StartTimer, task
<1>2. PICK x \in Infos : StartPromise(x, c, d)
  BY <1>1, StartFacts, Zenon
<1>3. hRspTmr[c] \notin heap
  BY <1>1, NullAssumption, Zenon DEF IInv, TypeOK
<1>4. HandlesOwned' /\ CallbackClient'
  BY <1>1, <1>2, <1>3, StartOwned, Zenon DEF InCallback
<1>5. TypeOK' /\ PoolSound'
  BY <1>1, <1>2, StartType, Zenon DEF StartPromise
<1>6. CallTimes' /\ ActiveTimes'
  BY <1>1, Zenon DEF CallTimes, ActiveTimes
<1>7. ActiveGuarded'
  <2>1. activeTimerInfo' # NULL
    BY <1>2, <1>5, NullAssumption, Zenon DEF TypeOK, StartPromise
  <2> QED BY <1>2, <2>1, Zenon DEF ActiveGuarded, StartPromise
<1>8. BoundedLateness'
  <2>1. /\ now \in Nat /\ d \in Nat /\ MaxStall \in Nat /\ MaxStall < d
        /\ tvTimeout \in [Infos -> Nat] /\ heap \subseteq Infos
    BY DurationFacts, Zenon DEF IInv, TypeOK
  <2>2. /\ x \notin heap
        /\ heap' = heap \cup {x}
        /\ tvTimeout'[x] = now + d
        /\ \A y \in heap : tvTimeout'[y] = tvTimeout[y] /\ tvTimeout[y] \in Nat
    BY <1>2, <2>1, Zenon DEF StartPromise
  <2>3. ASSUME activeTimerInfo # NULL
        PROVE  activeTimerInfo \in heap
    BY <2>3, Zenon DEF IInv, ActiveGuarded
  <2>4. tvTimeout'[activeTimerInfo'] \in Nat /\ tvTimeout'[activeTimerInfo'] <= now + d
    <3>1. CASE /\ activeTimerInfo' = activeTimerInfo
               /\ activeTimerInfo # NULL
               /\ tvTimeout[activeTimerInfo] <= now + d
      BY <2>2, <2>3, <3>1, Zenon
    <3>2. CASE activeTimerInfo' = x
      BY <2>1, <2>2, <3>2
    <3> QED BY <1>2, <3>1, <3>2, Zenon DEF StartPromise
  <2>5. ASSUME NEW y \in heap
        PROVE  \E e \in Durations :
                 tvTimeout'[activeTimerInfo'] < tvTimeout'[y] + e + MaxStall
    <3>1. activeTimerInfo # NULL
      BY <1>1, <2>5, Zenon DEF IInv, ActiveGuarded
    <3>2. PICK e \in Durations :
            tvTimeout[activeTimerInfo] < tvTimeout[y] + e + MaxStall
      BY <1>1, <2>5, <3>1, Zenon DEF IInv, BoundedLateness
    <3>3. e \in Nat
      BY DurationFacts, Zenon
    <3>4. tvTimeout[activeTimerInfo] \in Nat
      BY <2>2, <2>3, <3>1, Zenon
    <3>5. tvTimeout'[activeTimerInfo'] <= tvTimeout[activeTimerInfo]
      <4>1. CASE activeTimerInfo' = activeTimerInfo
        BY <2>2, <2>3, <3>1, <3>4, <4>1
      <4>2. CASE activeTimerInfo' = x /\ now + d < tvTimeout[activeTimerInfo]
        BY <2>1, <2>2, <3>4, <4>2
      <4> QED BY <1>2, <3>1, <4>1, <4>2, Zenon DEF StartPromise
    <3>6. tvTimeout'[y] = tvTimeout[y] /\ tvTimeout[y] \in Nat
      BY <2>2, <2>5, Zenon
    <3>7. tvTimeout'[activeTimerInfo'] < tvTimeout'[y] + e + MaxStall
      BY <2>1, <2>4, <3>2, <3>3, <3>4, <3>5, <3>6
    <3> QED BY <3>7, Zenon
  <2>6. tvTimeout'[activeTimerInfo'] < tvTimeout'[x] + d + MaxStall
    BY <2>1, <2>2, <2>4
  <2> QED BY <2>2, <2>5, <2>6, Zenon DEF BoundedLateness
<1> QED BY <1>4, <1>5, <1>6, <1>7, <1>8, Zenon DEF IInv

(* A callback forgets its handle and may start its timer again. *)
LEMMA CallbackInv ==
  ASSUME IInv, Callback
  PROVE  IInv'
<1>1. /\ pc \in {"first_callback", "callback"}
      /\ pc' = IF pc = "first_callback" THEN "gettimeofday" ELSE "loop"
      /\ UNCHANGED <<client, tv, entered>>
  BY Zenon DEF Callback
<1>2. pc' \in {"gettimeofday", "loop"} /\ (pc' = "loop" => pc = "callback")
  BY <1>1, Zenon
<1>3. client \in Clients /\ hRspTmr[client] \notin heap
  BY <1>1, Zenon DEF IInv, CallbackClient
<1>4. ASSUME UNCHANGED now PROVE CallTimes'
  BY <1>1, <1>2, <1>4, Zenon DEF IInv, CallTimes
<1>5. CASE /\ hRspTmr' = [hRspTmr EXCEPT ![client] = NULL]
           /\ UNCHANGED <<heap, tvTimeout, timeoutArg, hTimer, pool, activeTimerInfo,
                          timer_queue, msgs, now>>
  <2>1. TypeOK' /\ PoolSound'
    BY <1>1, <1>2, <1>5, Zenon DEF IInv, TypeOK, PoolSound
  <2>2. HandlesOwned' /\ CallbackClient'
    <3>1. hRspTmr \in [Clients -> Infos \cup {NULL}]
      BY Zenon DEF IInv, TypeOK
    <3>2. ASSUME NEW c \in Clients, hRspTmr'[c] # NULL
          PROVE  hRspTmr'[c] \in heap /\ timeoutArg[hRspTmr'[c]] = c
      <4>1. c # client /\ hRspTmr'[c] = hRspTmr[c]
        BY <1>3, <1>5, <3>1, <3>2, Zenon
      <4> QED BY <3>2, <4>1, Zenon DEF IInv, HandlesOwned, InCallback
    <3>3. ASSUME NEW x \in heap
          PROVE  timeoutArg[x] \in Clients /\ hRspTmr'[timeoutArg[x]] = x
      <4>1. timeoutArg[x] \in Clients /\ hRspTmr[timeoutArg[x]] = x
        BY Zenon DEF IInv, HandlesOwned
      <4>2. timeoutArg[x] # client
        BY <1>3, <4>1, Zenon
      <4> QED BY <1>5, <3>1, <4>1, <4>2, Zenon
    <3> QED BY <1>2, <1>5, <3>2, <3>3, Zenon DEF HandlesOwned, CallbackClient
  <2>3. ActiveGuarded'
    BY <1>2, <1>5, Zenon DEF IInv, ActiveGuarded, Guarded
  <2>4. ActiveTimes' /\ BoundedLateness'
    BY <1>1, <1>2, <1>5, Zenon DEF IInv, ActiveTimes, BoundedLateness
  <2> QED BY <1>4, <1>5, <2>1, <2>2, <2>3, <2>4, Zenon DEF IInv
<1>6. ASSUME NEW d \in Durations, nwGtpv2cStartTimer(client, d)
      PROVE  IInv'
  <2>1. PICK x \in Infos : StartPromise(x, client, d)
    BY <1>3, <1>6, StartFacts, Zenon
  <2>2. HandlesOwned' /\ CallbackClient'
    BY <1>2, <1>3, <2>1, StartOwned, Zenon DEF InCallback
  <2>3. TypeOK' /\ PoolSound' /\ now' = now
    BY <1>1, <1>2, <1>3, <2>1, StartType, Zenon DEF StartPromise
  <2>4. ActiveGuarded'
    BY <1>2, <2>1, Zenon DEF ActiveGuarded, StartPromise
  <2>5. ActiveTimes' /\ BoundedLateness'
    <3>1. /\ now \in Nat /\ d \in Nat /\ MaxStall \in Nat /\ MaxStall < d
          /\ entered \in Nat /\ tvTimeout \in [Infos -> Nat] /\ heap \subseteq Infos
      BY DurationFacts, Zenon DEF IInv, TypeOK
    <3>2. entered <= now /\ now <= entered + MaxStall
      BY <1>1, Zenon DEF IInv, CallTimes
    <3>3. CASE activeTimerInfo' = activeTimerInfo /\ activeTimerInfo # NULL
      <4>1. activeTimerInfo \in heap
        BY <3>3, Zenon DEF IInv, ActiveGuarded
      <4>2. tvTimeout'[activeTimerInfo] = tvTimeout[activeTimerInfo]
        BY <2>1, <3>1, <4>1, Zenon DEF StartPromise
      <4> QED BY <1>1, <1>2, <3>3, <4>2, Zenon DEF IInv, ActiveTimes, BoundedLateness
    <3>4. CASE activeTimerInfo' = x
      <4>1. tvTimeout'[x] = now + d
        BY <2>1, <3>1, Zenon DEF StartPromise
      <4>2. /\ entered + MaxStall < tvTimeout'[x]
            /\ tvTimeout'[x] <= entered + MaxStall + d
        BY <3>1, <3>2, <4>1
      <4> QED BY <1>1, <1>2, <3>4, <4>2, Zenon DEF ActiveTimes, BoundedLateness
    <3> QED BY <2>1, <3>3, <3>4, Zenon DEF StartPromise
  <2> QED BY <1>4, <2>2, <2>3, <2>4, <2>5, Zenon DEF IInv
<1> QED BY <1>5, <1>6, Zenon DEF Callback, infoVars

(* nwGtpv2cStopTimer takes the timer of its caller from the heap. *)
LEMMA StopFacts ==
  ASSUME IInv, NEW c \in Clients, pc = "idle", hRspTmr[c] # NULL
  PROVE  /\ hRspTmr[c] \in heap
         /\ hRspTmr[c] \in Infos
         /\ timeoutArg[hRspTmr[c]] = c
         /\ Pushed(hRspTmr[c], pool) \in Seq(Infos)
         /\ IsFreeList(Pushed(hRspTmr[c], pool), heap \ {hRspTmr[c]})
<1> DEFINE x == hRspTmr[c]
<1>1. x \in heap /\ x \in Infos /\ timeoutArg[x] = c
  BY Zenon DEF IInv, TypeOK, HandlesOwned, InCallback
<1>2. pool \in Seq(Infos) /\ IsFreeList(pool, heap) /\ heap \cup {x} = heap
  BY <1>1, Zenon DEF IInv, TypeOK, PoolSound
<1> HIDE DEF x
<1>3. /\ Pushed(x, pool) \in Seq(Infos)
      /\ IsFreeList(Pushed(x, pool), heap \ {x})
  BY <1>1, <1>2, ReleaseFacts, ZenonT(30)
<1> QED BY <1>1, <1>3, Zenon DEF x

(* The other timers keep their owners when the timer of c is stopped. *)
LEMMA StopOwned ==
  ASSUME IInv, NEW c \in Clients, pc = "idle", hRspTmr[c] # NULL,
         hRspTmr' = [hRspTmr EXCEPT ![c] = NULL], UNCHANGED timeoutArg
  PROVE  /\ hRspTmr' \in [Clients -> Infos \cup {NULL}]
         /\ \A e \in Clients : hRspTmr'[e] # NULL =>
              /\ e # c
              /\ hRspTmr'[e] = hRspTmr[e]
              /\ hRspTmr'[e] \in heap \ {hRspTmr[c]}
              /\ timeoutArg'[hRspTmr'[e]] = e
         /\ \A y \in heap \ {hRspTmr[c]} :
              /\ timeoutArg'[y] \in Clients
              /\ hRspTmr'[timeoutArg'[y]] = y
<1>1. hRspTmr \in [Clients -> Infos \cup {NULL}]
  BY Zenon DEF IInv, TypeOK
<1>2. ASSUME NEW e \in Clients, hRspTmr'[e] # NULL
      PROVE  /\ e # c
             /\ hRspTmr'[e] = hRspTmr[e]
             /\ hRspTmr'[e] \in heap \ {hRspTmr[c]}
             /\ timeoutArg'[hRspTmr'[e]] = e
  <2>1. e # c /\ hRspTmr'[e] = hRspTmr[e]
    BY <1>1, <1>2, Zenon
  <2>2. hRspTmr[e] \in heap /\ timeoutArg[hRspTmr[e]] = e
    BY <1>2, <2>1, Zenon DEF IInv, HandlesOwned, InCallback
  <2>3. timeoutArg[hRspTmr[c]] = c
    BY StopFacts, Zenon
  <2> QED BY <2>1, <2>2, <2>3, Zenon
<1>3. ASSUME NEW y \in heap \ {hRspTmr[c]}
      PROVE  timeoutArg'[y] \in Clients /\ hRspTmr'[timeoutArg'[y]] = y
  <2>1. timeoutArg[y] \in Clients /\ hRspTmr[timeoutArg[y]] = y
    BY Zenon DEF IInv, HandlesOwned
  <2>2. timeoutArg[y] # c
    BY <2>1, Zenon
  <2> QED BY <1>1, <2>1, <2>2, Zenon
<1>4. hRspTmr' \in [Clients -> Infos \cup {NULL}]
  BY <1>1, Zenon
<1> QED BY <1>2, <1>3, <1>4, Zenon

(* A timer other than the active one is stopped, or the last one. *)
LEMMA StopOtherInv ==
  ASSUME IInv, NEW c \in Clients, nwGtpv2cStopTimer(c),
         StopOther(hRspTmr[c]) \/ StopLast(hRspTmr[c])
  PROVE  IInv'
<1> DEFINE x == hRspTmr[c]
<1>1. /\ pc = "idle" /\ x # NULL
      /\ hRspTmr' = [hRspTmr EXCEPT ![c] = NULL]
      /\ UNCHANGED <<now, tvTimeout, timeoutArg, msgs>>
  BY Zenon DEF nwGtpv2cStopTimer, infoVars
<1>2. /\ heap' = heap \ {x}
      /\ pool' = Pushed(x, pool)
      /\ UNCHANGED <<hTimer, pc, client, tv, entered>>
  BY Zenon DEF StopOther, StopLast, task
<1>3. \/ activeTimerInfo # x /\ UNCHANGED <<activeTimerInfo, timer_queue>>
      \/ /\ heap' = {} /\ activeTimerInfo' = NULL
         /\ timer_queue' = timer_remove(timer_queue, hTimer[x])
  BY Zenon DEF StopOther, StopLast
<1>4. /\ x \in heap
      /\ Pushed(x, pool) \in Seq(Infos)
      /\ IsFreeList(Pushed(x, pool), heap \ {x})
  BY <1>1, StopFacts, Zenon
<1>5. /\ hRspTmr' \in [Clients -> Infos \cup {NULL}]
      /\ \A e \in Clients : hRspTmr'[e] # NULL =>
           hRspTmr'[e] \in heap \ {x} /\ timeoutArg'[hRspTmr'[e]] = e
      /\ \A y \in heap \ {x} :
           timeoutArg'[y] \in Clients /\ hRspTmr'[timeoutArg'[y]] = y
  BY <1>1, StopOwned, Zenon
<1> HIDE DEF x
<1>6. PoolSound' /\ HandlesOwned' /\ CallbackClient'
  BY <1>1, <1>2, <1>4, <1>5, SMTT(30) DEF PoolSound, HandlesOwned, CallbackClient
<1>7. TypeOK'
  <2>1. timer_queue' \in [Handles -> timer_elm \cup {NULL}]
    BY <1>3, Zenon DEF IInv, TypeOK, timer_remove
  <2>2. activeTimerInfo' \in Infos \cup {NULL}
    BY <1>3, Zenon DEF IInv, TypeOK
  <2> QED BY <1>1, <1>2, <1>4, <1>5, <2>1, <2>2, Zenon DEF IInv, TypeOK
<1>8. CallTimes' /\ ActiveTimes'
  BY <1>1, <1>2, Zenon DEF CallTimes, ActiveTimes
<1>9. ActiveGuarded'
  <2>1. CASE activeTimerInfo # x /\ UNCHANGED <<activeTimerInfo, timer_queue>>
    <3>1. activeTimerInfo # NULL => activeTimerInfo \in heap /\ Guarded(activeTimerInfo)
      BY Zenon DEF IInv, ActiveGuarded
    <3>2. activeTimerInfo # NULL => Guarded(activeTimerInfo)'
      BY <1>1, <1>2, <2>1, <3>1, Zenon DEF Guarded
    <3>3. activeTimerInfo # NULL
      BY <1>1, <1>4, Zenon DEF IInv, ActiveGuarded
    <3> QED BY <1>2, <2>1, <3>1, <3>2, <3>3, Zenon DEF ActiveGuarded
  <2>2. CASE heap' = {} /\ activeTimerInfo' = NULL
    BY <2>2, Zenon DEF ActiveGuarded
  <2> QED BY <1>3, <2>1, <2>2, Zenon
<1>10. BoundedLateness'
  BY <1>1, <1>2, <1>3, Zenon DEF IInv, BoundedLateness
<1> QED BY <1>6, <1>7, <1>8, <1>9, <1>10, Zenon DEF IInv

(* The active timer is stopped, and ITTI is asked for the earliest. *)
LEMMA StopThenRearmInv ==
  ASSUME IInv, NEW c \in Clients, nwGtpv2cStopTimer(c), StopThenRearm(hRspTmr[c])
  PROVE  IInv'
<1> DEFINE x == hRspTmr[c]
           list == timer_remove(timer_queue, hTimer[x])
<1>1. /\ pc = "idle" /\ x # NULL
      /\ hRspTmr' = [hRspTmr EXCEPT ![c] = NULL]
      /\ UNCHANGED <<now, tvTimeout, timeoutArg, msgs>>
  BY Zenon DEF nwGtpv2cStopTimer, infoVars
<1>2. PICK m \in Earliest(heap \ {x}), h \in Handles :
        /\ tvTimeout[m] >= now
        /\ heap' = heap \ {x}
        /\ pool' = Pushed(x, pool)
        /\ timer_queue' = timer_setup(list, h, m, tvTimeout[m] - now)
        /\ hTimer' = [hTimer EXCEPT ![m] = h]
        /\ activeTimerInfo' = m
        /\ UNCHANGED <<pc, client, tv, entered>>
  BY Zenon DEF StopThenRearm, task
<1>3. /\ x \in heap
      /\ Pushed(x, pool) \in Seq(Infos)
      /\ IsFreeList(Pushed(x, pool), heap \ {x})
  BY <1>1, StopFacts, Zenon
<1>4. /\ hRspTmr' \in [Clients -> Infos \cup {NULL}]
      /\ \A e \in Clients : hRspTmr'[e] # NULL =>
           hRspTmr'[e] \in heap \ {x} /\ timeoutArg'[hRspTmr'[e]] = e
      /\ \A y \in heap \ {x} :
           timeoutArg'[y] \in Clients /\ hRspTmr'[timeoutArg'[y]] = y
  BY <1>1, StopOwned, Zenon
<1>5. list \in [Handles -> timer_elm \cup {NULL}]
  BY Zenon DEF IInv, TypeOK, timer_remove
<1> HIDE DEF x, list
<1>6. /\ m \in heap'
      /\ m \in Infos
      /\ tvTimeout[m] \in Nat /\ now \in Nat
      /\ \A y \in heap' : tvTimeout[m] <= tvTimeout[y] /\ tvTimeout[y] \in Nat
  BY <1>2, Zenon DEF Earliest, IInv, TypeOK
<1>7. tvTimeout[m] - now \in Nat /\ now + (tvTimeout[m] - now) = tvTimeout[m]
  <2>1. tvTimeout[m] >= now
    BY <1>2, Zenon
  <2> QED BY <1>6, <2>1, IntervalFacts, Zenon
<1>8. /\ timer_queue' \in [Handles -> timer_elm \cup {NULL}]
      /\ timer_queue'[h] # NULL
      /\ timer_queue'[h].arg = m
      /\ timer_queue'[h].at = tvTimeout[m]
  <2> DEFINE interval == tvTimeout[m] - now
  <2>1. timer_queue' = timer_setup(list, h, m, interval)
    BY <1>2, Zenon
  <2>2. m \in Infos /\ interval \in Nat /\ now \in Nat /\ now + interval = tvTimeout[m]
    BY <1>6, <1>7, Zenon
  <2> HIDE DEF interval
  <2>3. /\ timer_setup(list, h, m, interval) \in [Handles -> timer_elm \cup {NULL}]
        /\ timer_setup(list, h, m, interval)[h] # NULL
        /\ timer_setup(list, h, m, interval)[h].arg = m
        /\ timer_setup(list, h, m, interval)[h].at = now + interval
    BY <1>5, <2>2, SetupFacts, SMTT(30)
  <2> QED BY <2>1, <2>2, <2>3, Zenon
<1>9. hTimer' \in [Infos -> Handles \cup {NULL}] /\ hTimer'[m] = h
  <2>1. hTimer \in [Infos -> Handles \cup {NULL}] /\ m \in Infos
    BY <1>6, Zenon DEF IInv, TypeOK
  <2>2. hTimer' = [hTimer EXCEPT ![m] = h]
    BY <1>2, Zenon
  <2> QED BY <2>1, <2>2, Zenon
<1>10. PoolSound' /\ HandlesOwned' /\ CallbackClient'
  <2>1. heap' = heap \ {x} /\ pool' = Pushed(x, pool) /\ pc' = "idle"
    BY <1>1, <1>2, Zenon
  <2>2. PoolSound'
    BY <1>3, <2>1, Zenon DEF PoolSound
  <2>3. HandlesOwned'
    BY <1>4, <2>1, Zenon DEF HandlesOwned
  <2>4. CallbackClient'
    BY <2>1, Zenon DEF CallbackClient
  <2> QED BY <2>2, <2>3, <2>4, Zenon
<1>11. TypeOK'
  BY <1>1, <1>2, <1>3, <1>4, <1>6, <1>8, <1>9, Zenon DEF IInv, TypeOK
<1>12. CallTimes' /\ ActiveTimes'
  BY <1>1, <1>2, Zenon DEF CallTimes, ActiveTimes
<1>13. ActiveGuarded'
  <2>1. tvTimeout'[m] <= timer_queue'[h].at
    BY <1>1, <1>6, <1>8, Zenon
  <2>2. Guarded(activeTimerInfo)'
    BY <1>2, <1>8, <1>9, <2>1, Zenon DEF Guarded
  <2> QED BY <1>2, <1>6, <2>2, NullAssumption, Zenon DEF ActiveGuarded
<1>14. BoundedLateness'
  <2>1. PICK d \in Durations : TRUE
    BY DurationsAssumption, Zenon
  <2>2. d \in Nat /\ MaxStall \in Nat /\ MaxStall < d
    BY DurationFacts, Zenon
  <2>3. ASSUME NEW y \in heap' PROVE tvTimeout[m] < tvTimeout[y] + d + MaxStall
    <3>1. tvTimeout[y] \in Nat /\ tvTimeout[m] <= tvTimeout[y]
      BY <1>6, Zenon
    <3> QED BY <1>6, <2>2, <3>1, SMTT(30)
  <2> QED BY <1>1, <1>2, <2>3, Zenon DEF BoundedLateness
<1> QED BY <1>10, <1>11, <1>12, <1>13, <1>14, Zenon DEF IInv

(* The active timer is stopped, and the earliest of the others, which is   *)
(* overdue, expires on the spot.                                           *)
LEMMA StopThenExpireInv ==
  ASSUME IInv, NEW c \in Clients, nwGtpv2cStopTimer(c), StopThenExpire(hRspTmr[c])
  PROVE  IInv'
<1> DEFINE x == hRspTmr[c]
<1>1. /\ pc = "idle" /\ x # NULL
      /\ hRspTmr' = [hRspTmr EXCEPT ![c] = NULL]
      /\ UNCHANGED <<now, tvTimeout, timeoutArg, msgs>>
  BY Zenon DEF nwGtpv2cStopTimer, infoVars
<1>2. PICK m \in Earliest(heap \ {x}) :
        /\ heap' = heap \ {x, m}
        /\ pool' = Pushed(m, Pushed(x, pool))
        /\ client' = timeoutArg[m]
        /\ activeTimerInfo' = NULL
        /\ timer_queue' = timer_remove(timer_queue, hTimer[x])
        /\ pc' = "first_callback"
        /\ entered' = now
        /\ UNCHANGED <<hTimer, tv>>
  BY Zenon DEF StopThenExpire
<1>3. /\ x \in heap
      /\ Pushed(x, pool) \in Seq(Infos)
      /\ IsFreeList(Pushed(x, pool), heap \ {x})
  BY <1>1, StopFacts, Zenon
<1>4. /\ hRspTmr' \in [Clients -> Infos \cup {NULL}]
      /\ \A e \in Clients : hRspTmr'[e] # NULL =>
           hRspTmr'[e] \in heap \ {x} /\ timeoutArg'[hRspTmr'[e]] = e
      /\ \A y \in heap \ {x} :
           timeoutArg'[y] \in Clients /\ hRspTmr'[timeoutArg'[y]] = y
  BY <1>1, StopOwned, Zenon
<1> HIDE DEF x
<1>5. m \in heap \ {x} /\ m \in Infos /\ heap' = (heap \ {x}) \ {m}
  BY <1>2, Zenon DEF Earliest, IInv, TypeOK
<1>6. pool' \in Seq(Infos) /\ PoolSound'
  <2>1. (heap \ {x}) \cup {m} = heap \ {x}
    BY <1>5, Zenon
  <2>2. /\ Pushed(m, Pushed(x, pool)) \in Seq(Infos)
        /\ IsFreeList(Pushed(m, Pushed(x, pool)), (heap \ {x}) \ {m})
    BY <1>3, <1>5, <2>1, ReleaseFacts, ZenonT(30)
  <2> QED BY <1>2, <1>5, <2>2, Zenon DEF PoolSound
<1>7. client' \in Clients /\ hRspTmr'[client'] = m
  BY <1>1, <1>2, <1>4, <1>5, Zenon
<1>8. HandlesOwned' /\ CallbackClient'
  <2>1. ASSUME NEW e \in Clients, hRspTmr'[e] # NULL, e # client'
        PROVE  hRspTmr'[e] \in heap' /\ timeoutArg'[hRspTmr'[e]] = e
    <3>1. hRspTmr'[e] \in heap \ {x} /\ timeoutArg'[hRspTmr'[e]] = e
      BY <1>4, <2>1, Zenon
    <3>2. hRspTmr'[e] # m
      BY <1>1, <1>2, <2>1, <3>1, Zenon
    <3> QED BY <1>5, <3>1, <3>2, Zenon
  <2>2. \A y \in heap' : timeoutArg'[y] \in Clients /\ hRspTmr'[timeoutArg'[y]] = y
    BY <1>4, <1>5, Zenon
  <2>3. hRspTmr'[client'] \notin heap'
    BY <1>5, <1>7, Zenon
  <2> QED BY <1>2, <1>7, <2>1, <2>2, <2>3, Zenon
          DEF HandlesOwned, InCallback, CallbackClient
<1>9. TypeOK'
  <2>1. timer_queue' \in [Handles -> timer_elm \cup {NULL}]
    BY <1>2, Zenon DEF IInv, TypeOK, timer_remove
  <2> QED BY <1>1, <1>2, <1>4, <1>6, <1>7, <2>1, Zenon DEF IInv, TypeOK
<1>10. CallTimes'
  <2>1. now \in Nat /\ MaxStall \in Nat
    BY StallAssumption, Zenon DEF IInv, TypeOK
  <2>2. now <= now /\ now <= now + MaxStall
    BY <2>1, SMTT(30)
  <2> QED BY <1>1, <1>2, <2>2, Zenon DEF CallTimes
<1>11. ActiveGuarded' /\ ActiveTimes' /\ BoundedLateness'
  BY <1>2, Zenon DEF ActiveGuarded, ActiveTimes, BoundedLateness
<1> QED BY <1>6, <1>8, <1>9, <1>10, <1>11, Zenon DEF IInv

LEMMA InitInv == Init => IInv
<1> SUFFICES ASSUME Init PROVE IInv
  BY Zenon
<1>1. PoolSound
  <2>1. Range(pool) = {} /\ IsInjective(pool)
    BY DEF Init, Range, IsInjective
  <2> QED BY <2>1, Zenon DEF PoolSound, IsFreeList
<1>2. TypeOK
  BY SMTT(30) DEF Init, TypeOK
<1> QED BY <1>1, <1>2, Zenon DEF Init, IInv, HandlesOwned, CallTimes, CallbackClient,
                          ActiveGuarded, ActiveTimes, BoundedLateness

(* Every step keeps the invariant. *)
LEMMA StepInv ==
  ASSUME IInv, [Next]_vars
  PROVE  IInv'
<1>1. ASSUME NEW c \in Clients, nwGtpv2cStopTimer(c)
      PROVE  IInv'
  BY <1>1, StopOtherInv, StopThenExpireInv, StopThenRearmInv, Zenon
  DEF nwGtpv2cStopTimer
<1>2. ASSUME SmTask
      PROVE  IInv'
  BY <1>2, TimeoutOfActiveInv, TimeoutOfOtherInv, CallbackInv, ReadClockInv, Zenon,
     LoopExpireInv, LoopEndInv DEF SmTask
<1>3. ASSUME UNCHANGED vars
      PROVE  IInv'
  <2>1. TypeOK' /\ PoolSound'
    BY <1>3, Zenon DEF vars, IInv, TypeOK, PoolSound
  <2>2. HandlesOwned' /\ CallTimes' /\ CallbackClient'
    BY <1>3, Zenon
    DEF vars, IInv, HandlesOwned, InCallback, CallTimes, CallbackClient
  <2>3. ActiveGuarded' /\ ActiveTimes' /\ BoundedLateness'
    BY <1>3, Zenon DEF vars, IInv, ActiveGuarded, Guarded, ActiveTimes, BoundedLateness
  <2> QED BY <2>1, <2>2, <2>3, Zenon DEF IInv
<1> QED BY <1>1, <1>2, <1>3, TickInv, SignalInv, StartTimerInv, Zenon
        DEF Next, HorizonReached

(* The invariant holds in every state the timer manager reaches. *)
THEOREM InvariantHolds == Spec => []IInv
BY InitInv, StepInv, PTL DEF Spec

(* Every variable of the timer manager and of timer.c keeps its type. *)
THEOREM TypeCorrect == Spec => []TypeOK
<1>1. IInv => TypeOK
  BY Zenon DEF IInv
<1> QED BY <1>1, InvariantHolds, PTL

(* No info object is pending and free at once, or free twice, although     *)
(* nwGtpv2cStopTimer does not look at the result of the removal.           *)
THEOREM PoolIsSound == Spec => []PoolSound
<1>1. IInv => PoolSound
  BY Zenon DEF IInv
<1> QED BY <1>1, InvariantHolds, PTL

(* The handle a transaction holds is a pending timer of its own. *)
THEOREM HandlesAreOwned == Spec => []HandlesOwned
<1>1. IInv => HandlesOwned
  BY Zenon DEF IInv
<1> QED BY <1>1, InvariantHolds, PTL

(* NW_ASSERT after the stop of the active timer in nwGtpv2cStartTimer does *)
(* not fail: were the timer's expiry on its way, the timer would be due.   *)
THEOREM StopOfActiveIsSafe == Spec => []StopOfActiveSucceeds
<1>1. ASSUME IInv PROVE StopOfActiveSucceeds
  <2>1. ASSUME activeTimerInfo # NULL, NEW d \in Durations,
               tvTimeout[activeTimerInfo] > now + d
        PROVE  Listed(hTimer[activeTimerInfo])
    <3>1. activeTimerInfo \in heap /\ Guarded(activeTimerInfo)
      BY <1>1, <2>1, Zenon DEF IInv, ActiveGuarded
    <3>2. tvTimeout[activeTimerInfo] \in Nat /\ now \in Nat /\ d \in Nat
      BY <1>1, <3>1, DurationFacts, Zenon DEF IInv, TypeOK
    <3>3. ~ (tvTimeout[activeTimerInfo] <= now)
      BY <2>1, <3>2
    <3> QED BY <3>1, <3>3, Zenon DEF Guarded, Listed
  <2> QED BY <2>1, Zenon DEF StopOfActiveSucceeds
<1> QED BY <1>1, InvariantHolds, PTL

(* Between calls, when timers are pending, one of them is active and ITTI  *)
(* has it, or its expiry is in the queue of TASK_SM.                       *)
THEOREM ActiveStaysGuarded == Spec => []ActiveIsGuarded
<1>1. ASSUME IInv PROVE ActiveIsGuarded
  <2>1. ASSUME activeTimerInfo # NULL
        PROVE  activeTimerInfo \in heap /\ Guarded(activeTimerInfo)
    BY <1>1, <2>1, Zenon DEF IInv, ActiveGuarded
  <2>2. pc = "idle" /\ heap # {} => activeTimerInfo # NULL
    BY <1>1, Zenon DEF IInv, ActiveGuarded
  <2> QED BY <2>1, <2>2, Zenon DEF ActiveIsGuarded, Guarded, Listed
<1> QED BY <1>1, InvariantHolds, PTL

(* The active timer is at most a duration and a call later than any timer  *)
(* that waits in the heap, with timers stopped at any time too.            *)
THEOREM LatenessIsBounded == Spec => []BoundedLateness
<1>1. IInv => BoundedLateness
  BY Zenon DEF IInv
<1> QED BY <1>1, InvariantHolds, PTL
-----------------------------------------------------------------------------
(***************************************************************************)
(* When no transaction stops a timer: one ITTI timer, no early callback,   *)
(* and the promise of TimerService.                                        *)
(***************************************************************************)

(* The signal thread and the clock. *)
LEMMA SignalOne ==
  ASSUME IInv, OneExpiry, NEW h \in Handles, timer_handle_signal(h)
  PROVE  OneExpiry'
<1>1. /\ timer_queue[h] # NULL
      /\ timer_queue[h].at <= now
      /\ timer_queue' = [timer_queue EXCEPT ![h] = NULL]
      /\ msgs' = Append(msgs, timer_queue[h].arg)
      /\ UNCHANGED <<now, tvTimeout, hTimer, activeTimerInfo>>
  BY Zenon DEF timer_handle_signal, Listed, timer_remove, infoVars
<1>2. activeTimerInfo # NULL /\ h = hTimer[activeTimerInfo] /\ msgs = <<>>
  BY <1>1, Zenon DEF OneExpiry
<1>3. activeTimerInfo \in heap /\ Guarded(activeTimerInfo)
  BY <1>2, Zenon DEF IInv, ActiveGuarded
<1>4. ~ \E i \in 1 .. Len(msgs) : msgs[i] = activeTimerInfo
  BY <1>2
<1>5. timer_queue[h].arg = activeTimerInfo
      /\ tvTimeout[activeTimerInfo] <= timer_queue[h].at
  BY <1>2, <1>3, <1>4, Zenon DEF Guarded
<1>6. tvTimeout[activeTimerInfo] <= now
  <2>1. timer_queue[h] \in timer_elm
    BY <1>1, Zenon DEF IInv, TypeOK
  <2>2. /\ timer_queue[h].at \in Nat
        /\ tvTimeout[activeTimerInfo] \in Nat
        /\ now \in Nat
    BY <1>3, <2>1, Zenon DEF IInv, TypeOK, timer_elm
  <2> QED BY <1>1, <1>5, <2>2, SMTT(30)
<1>7. msgs' = <<activeTimerInfo>>
  BY <1>1, <1>2, <1>5, SMTT(30)
<1>8. \A g \in Handles : timer_queue'[g] = NULL
  BY <1>1, <1>2, Zenon DEF OneExpiry, IInv, TypeOK
<1>9. Len(msgs') <= 1 /\ msgs'[1] = activeTimerInfo
  BY <1>7
<1> QED BY <1>1, <1>2, <1>6, <1>8, <1>9, Zenon DEF OneExpiry

LEMMA TickOne ==
  ASSUME IInv, OneExpiry, CallbackDue, Tick
  PROVE  OneExpiry' /\ CallbackDue'
<1>1. /\ now' = now + 1 /\ now \in Nat
      /\ UNCHANGED <<tvTimeout, hTimer, activeTimerInfo, hRspTmr, timer_queue, msgs, pc,
                     client>>
  BY Zenon DEF Tick, infoVars, ittiVars, task, IInv, TypeOK
<1>2. ASSUME NEW x \in Infos, tvTimeout[x] <= now PROVE tvTimeout[x] <= now'
  <2>1. tvTimeout[x] \in Nat
    BY Zenon DEF IInv, TypeOK
  <2> QED BY <1>1, <1>2, <2>1, SMTT(30)
<1>3. activeTimerInfo # NULL => activeTimerInfo \in Infos
  BY Zenon DEF IInv, TypeOK
<1>4. OneExpiry'
  BY <1>1, <1>2, <1>3, Zenon DEF OneExpiry
<1>5. pc \in {"first_callback", "callback"} => hRspTmr[client] \in Infos
  BY Zenon DEF IInv, TypeOK, CallbackClient, CallbackDue
<1>6. CallbackDue'
  BY <1>1, <1>2, <1>5, Zenon DEF CallbackDue
<1> QED BY <1>4, <1>6, Zenon

(* A message there is, is that of the active timer, which is due. *)
LEMMA TimeoutOne ==
  ASSUME IInv, OneExpiry, TimeoutOfActive
  PROVE  OneExpiry' /\ CallbackDue'
<1>1. /\ msgs # <<>> /\ msgs' = Tail(msgs)
      /\ TakeExpired(activeTimerInfo, heap)
      /\ pc = "idle" /\ pc' = "first_callback"
      /\ UNCHANGED <<now, tvTimeout, timeoutArg, hRspTmr, timer_queue>>
  BY Zenon DEF TimeoutOfActive, infoVars
<1>2. activeTimerInfo # NULL /\ tvTimeout[activeTimerInfo] <= now
  BY <1>1, Zenon DEF OneExpiry
<1>3. msgs' = <<>>
  <2>1. msgs \in Seq(Infos) /\ Len(msgs) <= 1
    BY Zenon DEF IInv, TypeOK, OneExpiry
  <2>2. Len(msgs') = 0 /\ msgs' \in Seq(Infos)
    BY <1>1, <2>1, SMTT(30)
  <2> QED BY <2>2
<1>4. OneExpiry'
  <2>1. \A h \in Handles : timer_queue'[h] = NULL
    BY <1>1, Zenon DEF OneExpiry
  <2>2. Len(msgs') <= 1
    BY <1>3
  <2> QED BY <1>3, <2>1, <2>2, Zenon DEF OneExpiry
<1>5. activeTimerInfo \in heap
  BY <1>2, Zenon DEF IInv, ActiveGuarded
<1>6. hRspTmr[client'] = activeTimerInfo
  BY <1>1, <1>5, ExpiredFacts, Zenon
<1> QED BY <1>1, <1>2, <1>4, <1>6, Zenon DEF CallbackDue

(* A start leaves the active timer or replaces its ITTI timer. *)
LEMMA StartOne ==
  ASSUME IInv, OneExpiry, NEW c \in Clients, NEW d \in Durations, NEW x \in Infos,
         StartPromise(x, c, d)
  PROVE  OneExpiry'
<1>1. UNCHANGED <<now, msgs>> /\ x \notin heap
      /\ tvTimeout' = [tvTimeout EXCEPT ![x] = now + d]
  BY Zenon DEF StartPromise
<1>2. tvTimeout \in [Infos -> Nat] /\ now \in Nat /\ d \in Nat
  BY DurationFacts, Zenon DEF IInv, TypeOK
<1>3. activeTimerInfo # NULL =>
        activeTimerInfo \in heap /\ tvTimeout[activeTimerInfo] \in Nat
  BY <1>2, Zenon DEF IInv, TypeOK, ActiveGuarded
<1>4. CASE /\ activeTimerInfo' = activeTimerInfo
           /\ activeTimerInfo # NULL
           /\ UNCHANGED <<hTimer, timer_queue>>
  <2>1. tvTimeout'[activeTimerInfo] = tvTimeout[activeTimerInfo]
    BY <1>1, <1>2, <1>3, <1>4, SMTT(30)
  <2> QED BY <1>1, <1>4, <2>1, Zenon DEF OneExpiry
<1>5. CASE /\ activeTimerInfo' = x
           /\ activeTimerInfo # NULL => now + d < tvTimeout[activeTimerInfo]
           /\ \A h \in Handles : timer_queue'[h] # NULL /\ h # hTimer'[x] =>
                /\ timer_queue[h] # NULL
                /\ activeTimerInfo # NULL => h # hTimer[activeTimerInfo]
  <2>1. msgs = <<>>
    <3>1. ASSUME msgs # <<>> PROVE FALSE
      <4>1. activeTimerInfo # NULL /\ tvTimeout[activeTimerInfo] <= now
        BY <3>1, Zenon DEF OneExpiry
      <4>2. tvTimeout[activeTimerInfo] \in Nat /\ now + d < tvTimeout[activeTimerInfo]
        BY <1>3, <1>5, <4>1, Zenon
      <4> QED BY <1>2, <4>1, <4>2, SMTT(30)
    <3> QED BY <3>1, Zenon
  <2>2. \A h \in Handles : timer_queue'[h] # NULL => h = hTimer'[x]
    BY <1>5, Zenon DEF OneExpiry
  <2>3. activeTimerInfo' # NULL
    BY <1>5, NullAssumption, Zenon
  <2>4. Len(msgs') <= 1 /\ msgs' = <<>>
    BY <1>1, <2>1, SMTT(30)
  <2> QED BY <1>5, <2>2, <2>3, <2>4, Zenon DEF OneExpiry
<1> QED BY <1>4, <1>5, Zenon DEF StartPromise

(* The end of the loop asks ITTI for a timer when it has none. *)
LEMMA LoopEndOne ==
  ASSUME IInv, OneExpiry, LoopEnd
  PROVE  OneExpiry'
<1>1. UNCHANGED <<now, tvTimeout, msgs>>
  BY Zenon DEF LoopEnd, infoVars
<1>2. CASE UNCHANGED <<activeTimerInfo, hTimer, timer_queue>>
  BY <1>1, <1>2, Zenon DEF OneExpiry
<1>3. ASSUME activeTimerInfo = NULL, NEW m \in Earliest(heap), NEW h \in Handles,
             timer_queue' = timer_setup(timer_queue, h, m, tvTimeout[m] - tv),
             hTimer' = [hTimer EXCEPT ![m] = h],
             activeTimerInfo' = m
      PROVE  OneExpiry'
  <2>1. m \in Infos /\ m # NULL
    BY NullAssumption, Zenon DEF Earliest, IInv, TypeOK
  <2>2. hTimer'[m] = h
    BY <1>3, <2>1, Zenon DEF IInv, TypeOK
  <2>3. msgs' = <<>> /\ Len(msgs') <= 1
    <3>1. msgs = <<>>
      BY <1>3, Zenon DEF OneExpiry
    <3> QED BY <1>1, <3>1, SMTT(30)
  <2>4. \A g \in Handles : timer_queue[g] = NULL
    BY <1>3, Zenon DEF OneExpiry
  <2>5. \A g \in Handles : timer_queue'[g] # NULL => g = h
    BY <1>3, <2>4, Zenon DEF timer_setup, IInv, TypeOK
  <2> QED BY <1>3, <2>1, <2>2, <2>3, <2>5, Zenon DEF OneExpiry
<1> QED BY <1>2, <1>3, Zenon DEF LoopEnd
(* Nothing stops a timer: no ITTI timer outlives its info. *)
LEMMA StepOne ==
  ASSUME Stops = FALSE, IInv, OneExpiry, CallbackDue, [Next]_vars
  PROVE  OneExpiry' /\ CallbackDue'
<1>1. ASSUME NEW h \in Handles, timer_handle_signal(h)
      PROVE  OneExpiry' /\ CallbackDue'
  <2>1. UNCHANGED <<now, tvTimeout, hRspTmr, pc, client>>
    BY <1>1, Zenon DEF timer_handle_signal, infoVars, task
  <2>2. CallbackDue'
    BY <2>1, Zenon DEF CallbackDue
  <2> QED BY <1>1, <2>2, SignalOne, Zenon
<1>2. ASSUME NEW c \in Clients, NEW d \in Durations, StartTimer(c, d)
      PROVE  OneExpiry' /\ CallbackDue'
  <2>1. pc' = "idle" /\ nwGtpv2cStartTimer(c, d)
    BY <1>2, Zenon DEF StartTimer, task
  <2>2. PICK x \in Infos : StartPromise(x, c, d)
    BY <2>1, StartFacts, Zenon
  <2>3. OneExpiry'
    BY <2>2, StartOne, Zenon
  <2>4. CallbackDue'
    BY <2>1, Zenon DEF CallbackDue
  <2> QED BY <2>3, <2>4, Zenon
<1>3. ASSUME TimeoutOfOther PROVE FALSE
  BY <1>3, SMTT(30) DEF TimeoutOfOther, OneExpiry
<1>4. ASSUME Callback PROVE OneExpiry' /\ CallbackDue'
  <2>1. pc \in {"first_callback", "callback"} /\ pc' \in {"gettimeofday", "loop"}
    BY <1>4, Zenon DEF Callback
  <2>2. CallbackDue'
    BY <2>1, Zenon DEF CallbackDue
  <2>3. client \in Clients
    BY <2>1, Zenon DEF IInv, CallbackClient
  <2>4. CASE UNCHANGED <<tvTimeout, hTimer, activeTimerInfo, timer_queue, msgs, now>>
    BY <2>2, <2>4, Zenon DEF OneExpiry
  <2>5. ASSUME NEW d \in Durations, nwGtpv2cStartTimer(client, d) PROVE OneExpiry'
    <3>1. PICK x \in Infos : StartPromise(x, client, d)
      BY <2>3, <2>5, StartFacts, Zenon
    <3> QED BY <2>3, <3>1, StartOne, Zenon
  <2> QED BY <1>4, <2>2, <2>4, <2>5, Zenon DEF Callback, infoVars
<1>5. ASSUME ReadClock PROVE OneExpiry' /\ CallbackDue'
  BY <1>5, Zenon DEF ReadClock, infoVars, ittiVars, OneExpiry, CallbackDue
<1>6. ASSUME LoopExpire PROVE OneExpiry' /\ CallbackDue'
  <2>1. PICK m \in Earliest(heap) : tvTimeout[m] <= tv /\ TakeExpired(m, heap)
    BY <1>6, Zenon DEF LoopExpire
  <2>2. /\ pc = "loop" /\ pc' = "callback"
        /\ UNCHANGED <<now, tvTimeout, timeoutArg, hTimer, activeTimerInfo, hRspTmr,
                       timer_queue, msgs>>
    BY <1>6, Zenon DEF LoopExpire, infoVars, ittiVars
  <2>3. m \in heap
    BY <2>1, Zenon DEF Earliest
  <2>4. hRspTmr[client'] = m /\ m \in Infos
    BY <2>1, <2>2, <2>3, ExpiredFacts, Zenon
  <2>5. tvTimeout[m] <= now
    <3>1. tv <= now /\ tv \in Nat /\ now \in Nat /\ tvTimeout[m] \in Nat
      BY <2>2, <2>4, Zenon DEF IInv, TypeOK, CallTimes
    <3> QED BY <2>1, <3>1
  <2>6. OneExpiry'
    BY <2>2, Zenon DEF OneExpiry
  <2>7. CallbackDue'
    BY <2>2, <2>4, <2>5, NullAssumption, Zenon DEF CallbackDue
  <2> QED BY <2>6, <2>7, Zenon
<1>7. ASSUME LoopEnd PROVE OneExpiry' /\ CallbackDue'
  <2>1. CallbackDue'
    BY <1>7, Zenon DEF LoopEnd, CallbackDue
  <2> QED BY <1>7, <2>1, LoopEndOne, Zenon
<1>8. ASSUME UNCHANGED vars PROVE OneExpiry' /\ CallbackDue'
  BY <1>8, Zenon DEF vars, OneExpiry, CallbackDue
<1>9. ASSUME SmTask PROVE OneExpiry' /\ CallbackDue'
  BY <1>3, <1>4, <1>5, <1>6, <1>7, <1>9, TimeoutOne, Zenon DEF SmTask
<1>10. ~ \E c \in Clients : nwGtpv2cStopTimer(c)
  BY Zenon DEF nwGtpv2cStopTimer
<1> QED BY <1>1, <1>2, <1>8, <1>9, <1>10, TickOne, Zenon DEF Next, HorizonReached

LEMMA OneExpiryHolds ==
  ASSUME Stops = FALSE
  PROVE  Spec => [](OneExpiry /\ CallbackDue)
<1>1. Init => OneExpiry /\ CallbackDue
  <2> SUFFICES ASSUME Init PROVE OneExpiry /\ CallbackDue
    BY Zenon
  <2>1. msgs = <<>> /\ Len(msgs) <= 1
    BY SMTT(30) DEF Init
  <2> QED BY <2>1, Zenon DEF Init, OneExpiry, CallbackDue
<1>2. IInv /\ (OneExpiry /\ CallbackDue) /\ [Next]_vars => (OneExpiry /\ CallbackDue)'
  BY StepOne, Zenon
<1> QED BY <1>1, <1>2, InvariantHolds, PTL DEF Spec

(* When no timer is stopped, nwGtpv2cStartTimer and nwGtpv2cProcessTimeout *)
(* use one ITTI timer at a time, that of the active info.                  *)
THEOREM OneTimerAtATime ==
  ASSUME Stops = FALSE
  PROVE  Spec => []OneIttiTimer
<1>1. OneExpiry => OneIttiTimer
  BY Zenon DEF OneExpiry, OneIttiTimer, Listed
<1> QED BY <1>1, OneExpiryHolds, PTL

(* When no timer is stopped, nwGtpv2cProcessTimeout takes a message for    *)
(* the expiry of the active timer only when that timer is due.             *)
THEOREM TimeoutsAreDue ==
  ASSUME Stops = FALSE
  PROVE  Spec => NoPrematureTimeout
<1>1. OneExpiry /\ [Next]_vars =>
        [TimeoutOfActive => tvTimeout[activeTimerInfo] <= now]_vars
  BY Zenon DEF OneExpiry, TimeoutOfActive
<1> QED BY <1>1, OneExpiryHolds, PTL DEF Spec, NoPrematureTimeout
-----------------------------------------------------------------------------
(* A started timer runs for its client, and no other client notices. *)
LEMMA StartRuns ==
  ASSUME IInv, NEW c \in Clients, NEW d \in Durations, NEW x \in Infos,
         StartPromise(x, c, d), \A e \in Clients : InCallback(e) => e = c
  PROVE  Runs' = [Runs EXCEPT ![c] = now + d]
<1>1. /\ x \notin heap
      /\ tvTimeout' = [tvTimeout EXCEPT ![x] = now + d]
      /\ hRspTmr' = [hRspTmr EXCEPT ![c] = x]
  BY Zenon DEF StartPromise
<1>2. tvTimeout \in [Infos -> Nat] /\ hRspTmr \in [Clients -> Infos \cup {NULL}]
  BY Zenon DEF IInv, TypeOK
<1>3. Runs'[c] = now + d
  BY <1>1, <1>2, NullAssumption, Zenon DEF Runs
<1>4. ASSUME NEW e \in Clients, e # c PROVE Runs'[e] = Runs[e]
  <2>1. hRspTmr'[e] = hRspTmr[e]
    BY <1>1, <1>2, <1>4, Zenon
  <2>2. hRspTmr[e] # NULL => hRspTmr[e] \in heap
    BY <1>4, Zenon DEF IInv, HandlesOwned
  <2>3. hRspTmr[e] # NULL => tvTimeout'[hRspTmr[e]] = tvTimeout[hRspTmr[e]]
    BY <1>1, <1>2, <2>2, Zenon
  <2> QED BY <2>1, <2>3, Zenon DEF Runs
<1>5. /\ Runs = [e \in Clients |-> Runs[e]]
      /\ Runs' = [e \in Clients |-> Runs'[e]]
  BY Zenon DEF Runs
<1> HIDE DEF Runs
<1> QED BY <1>3, <1>4, <1>5, Zenon

(* Every step of the manager is a step of the service, or none. *)
LEMMA StepSimulation ==
  ASSUME Stops = FALSE, IInv, OneExpiry, CallbackDue, [Next]_vars
  PROVE  [Service!Next]_(Service!vars)
<1>1. ASSUME UNCHANGED <<now, tvTimeout, hRspTmr>>
      PROVE  UNCHANGED Service!vars
  <2>1. Runs' = Runs
    BY <1>1, Zenon DEF Runs
  <2> QED BY <1>1, <2>1, Zenon DEF Service!vars
<1>2. ASSUME Tick PROVE Service!Next
  <2>1. now' = now + 1 /\ Runs' = Runs
    BY <1>2, Zenon DEF Tick, Runs, infoVars
  <2> QED BY <2>1, Zenon DEF Service!Next, Service!Tick
<1>3. ASSUME NEW c \in Clients, NEW d \in Durations, StartTimer(c, d)
      PROVE  Service!Next
  <2>1. pc = "idle" /\ hRspTmr[c] = NULL /\ nwGtpv2cStartTimer(c, d)
    BY <1>3, Zenon DEF StartTimer
  <2>2. PICK x \in Infos : StartPromise(x, c, d)
    BY <2>1, StartFacts, Zenon
  <2>3. Runs' = [Runs EXCEPT ![c] = now + d]
    BY <2>1, <2>2, StartRuns, Zenon DEF InCallback
  <2>4. Runs[c] = NULL
    BY <2>1, Zenon DEF Runs
  <2>5. now' = now
    BY <2>2, Zenon DEF StartPromise
  <2>6. Service!Start(c, d)
    BY <2>3, <2>4, <2>5, Zenon DEF Service!Start
  <2> QED BY <2>6, Zenon DEF Service!Next
<1>4. ASSUME Callback PROVE Service!Next
  <2>1. pc \in {"first_callback", "callback"}
    BY <1>4, Zenon DEF Callback
  <2>2. client \in Clients
    BY <2>1, Zenon DEF IInv, CallbackClient
  <2>3. Runs[client] # NULL /\ Runs[client] <= now
    <3>1. hRspTmr[client] # NULL /\ tvTimeout[hRspTmr[client]] <= now
      BY <2>1, Zenon DEF CallbackDue
    <3>2. tvTimeout[hRspTmr[client]] \in Nat
      BY <2>2, <3>1, Zenon DEF IInv, TypeOK
    <3> QED BY <2>2, <3>1, <3>2, NullAssumption, Zenon DEF Runs
  <2>4. CASE /\ hRspTmr' = [hRspTmr EXCEPT ![client] = NULL]
             /\ UNCHANGED <<now, tvTimeout>>
    <3>1. hRspTmr \in [Clients -> Infos \cup {NULL}]
      BY Zenon DEF IInv, TypeOK
    <3>2. Runs' = [Runs EXCEPT ![client] = NULL]
      BY <2>2, <2>4, <3>1, Zenon DEF Runs
    <3>3. Service!Expire(client)
      BY <2>3, <2>4, <3>2, Zenon DEF Service!Expire
    <3> QED BY <2>2, <3>3, Zenon DEF Service!Next
  <2>5. ASSUME NEW d \in Durations, nwGtpv2cStartTimer(client, d)
        PROVE  Service!Next
    <3>1. PICK x \in Infos : StartPromise(x, client, d)
      BY <2>2, <2>5, StartFacts, Zenon
    <3>2. Runs' = [Runs EXCEPT ![client] = now + d]
      BY <2>2, <3>1, StartRuns, Zenon DEF InCallback
    <3>3. now' = now
      BY <3>1, Zenon DEF StartPromise
    <3>4. Service!Expire(client)
      BY <2>3, <3>2, <3>3, Zenon DEF Service!Expire
    <3> QED BY <2>2, <3>4, Zenon DEF Service!Next
  <2> QED BY <1>4, <2>4, <2>5, Zenon DEF Callback, infoVars
<1>5. ASSUME \/ TimeoutOfActive \/ TimeoutOfOther \/ ReadClock \/ LoopExpire \/ LoopEnd
             \/ UNCHANGED vars
             \/ \E h \in Handles : timer_handle_signal(h)
      PROVE  UNCHANGED <<now, tvTimeout, hRspTmr>>
  BY <1>5, Zenon
  DEF TimeoutOfActive, TimeoutOfOther, ReadClock, LoopExpire, LoopEnd, vars,
              timer_handle_signal, infoVars
<1>6. ~ \E c \in Clients : nwGtpv2cStopTimer(c)
  BY Zenon DEF nwGtpv2cStopTimer
<1> QED BY <1>1, <1>2, <1>3, <1>4, <1>5, <1>6, Zenon DEF Next, SmTask, HorizonReached

(* When no timer is stopped, the manager with its heap, its one ITTI timer *)
(* and its loop keeps the promise of TimerService: nwGtpv2cProcessTimeout  *)
(* calls the callback of a timer that runs and is due, and of no other.    *)
THEOREM TimerImplementsService ==
  ASSUME Stops = FALSE
  PROVE  Spec => ImplementsService
<1>1. Init => Service!Init
  BY Zenon DEF Init, Service!Init, Runs
<1>2. IInv /\ (OneExpiry /\ CallbackDue) /\ [Next]_vars => [Service!Next]_(Service!vars)
  BY StepSimulation, Zenon
<1> QED BY <1>1, <1>2, InvariantHolds, OneExpiryHolds, PTL
        DEF Spec, ImplementsService, Service!Spec
=============================================================================
