# Verification of the OpenAirInterface MCE

TLA+ models of the Multi-cell/multicast Coordination Entity (MCE), TLC
configurations that check them on small instances, and TLAPS proofs of the
invariants for every size.  Paths are relative to the repository root, the code
is under `src/src/`.

## 1. The system

The MCE is one process of several ITTI tasks (threads with a message queue):

| part | code | state | operations |
|---|---|---|---|
| GTPv2-C timer heap | `NwGtpv2c.c:100-213` | array of timers, back index per timer | insert, remove, peek |
| GTPv2-C timer manager | `NwGtpv2c.c:1848-2114` | heap, active timer, info pool | start, stop, timeout (with callbacks) |
| ITTI timers | `timer.c` | list of POSIX timers | setup, remove, signal thread |
| GTPv2-C transactions | `NwGtpv2cTrxn.c`, `NwGtpv2c.c` | maps of outstanding Rx/Tx transactions, pools, stored responses | new, duplicate, answer, timeout, purge |
| GTPv2-C messages | `NwGtpv2cMsg.c` and parsers | message pool | new, delete, encode, parse |
| GTPv2-C tunnels | `NwGtpv2cTunnel.c`, `NwGtpv2c.c` | tunnel map, pool | create, delete, find |
| Sm session manager (TASK_SM) | `sm_mce_session_manager.c`, `sm_mce_task.c` | hash table TEID -> tunnel handle | start/update/stop request and response, remove tunnel |
| TASK_MCE_APP, services | `mce_app_mbms_service*.c`, `mce_app_procedures.c` | MBMS services, procedures and timers, TEID generator | Sm and M3AP handlers, timer expiries |
| TASK_MCE_APP, MBSFN areas | `mce_app_mbsfn_*.c` | areas, their eNBs and services, CSA patterns | eNB setup/loss, scheduling |
| TASK_M2AP | `m2ap_mce*.c` | eNB associations, MBMS references | M2 setup, reset, session procedures, retransmission |
| SCTP, UDP tasks | `sctp/`, `udp/` | associations, sockets | send, receive, disconnect |
| ITTI messages | `intertask_interface.c`, `signals.c` | task states, bounded queues, event descriptors | create task, send, receive, broadcast, wait for the end |
| ITTI memory pools | `memory_pools.c` | lock-free rings of free items, item status | allocate, free |
| start and logging | `oai_mce.c`, `log.c`, `shared_ts_log.c` | order of the tasks | create, terminate |
| hash tables | `utils/hashtable/` | buckets with locks | insert, get, free, apply |

An MBMS-GW sends a session request over UDP; TASK_UDP hands it to TASK_SM; the
stack opens an Rx transaction and indicates it; the session manager decodes it
and sends it to TASK_MCE_APP with the transaction as a bare pointer; the answer
comes back as a message, is sent, stored for retransmission, and purged by a
timer.  Timers are POSIX timers whose signals a thread of its own turns into
messages.  What makes this hard: objects in last-in first-out pools referred to
by pointers that travel through other tasks; expiries in flight when a timer is
stopped; retransmissions racing hold timers; two tables that must stay in step;
queues and event descriptors written in separate steps; tasks that are addressed
while the process starts or ends; a ring that every thread changes without a lock.

`PROJECT.json` lists every component with its status, and the hazards with the
line where each bites.

## 2. Modules

| module | models | state and actions |
|---|---|---|
| `TmrQueue` | what the heap promises | set of pending timers with due times; `Insert`, `Remove` |
| `TmrMinHeap` | the heap | array, `currSize`, back indexes and the locals of the running call; one action per loop iteration |
| `TimerService` | what the timer manager promises | per client the due time; `Start`, `Stop`, `Expire` (never early) |
| `Gtpv2cTimer` | timer manager above ITTI timers | heap (as `TmrQueue`), info pool, active timer, ITTI list, messages to TASK_SM; Sm task, signal thread, clock |
| `FreeList` | the stack's pools | `Allocated`, `Popped`, `Pushed` |
| `Gtpv2cRxTrxn` | received requests | Rx map, pools, stored responses, hold timers, ULP handles, queue of TASK_UDP, peer |
| `SmSession` | session manager and tunnels | hash table, tunnel map and pool, pending requests, TEID generator |
| `Itti` | tasks and their messages, from start to termination | task states, queues, event descriptors, where each thread is; one action per send, wake-up, receive and handler of the termination |
| `MemoryPools` | the pools messages are allocated from | rings with put and get position, item status, locals of the running calls; one action per atomic operation |
| `MC*` | the instances TLC checks | |
| `*_proofs`, `MemoryPools_lemmas` | theorems | |

`Gtpv2cTimer` uses the heap through its promise: `TmrMinHeap` is shown (checked
and proved) to implement `TmrQueue`.  `Gtpv2cTimer` in turn implements (checked
and proved) `TimerService` when no timer is stopped; `Gtpv2cRxTrxn` uses timers
as that service does, with timeouts that may be handled late.

`Gtpv2cTimer`, `Gtpv2cRxTrxn` and `SmSession` see ITTI queues that are in order
and never full.
`Itti` is about the queues themselves: the order is proved there, and a message
is lost only when the queue is full (256 messages, `tasks_def.h:43`), which
sooner or later ends the process.

Definitions that end in a qualifier and are not used by `Next`
(`TakeExpiredKept`, `UlpTriggeredRspFreed`, ...) are faulty variants: each is a
plausible slip in the code that violates one of the properties, which shows
that the property depends on the code.

### Decisions of the models

* `Gtpv2cTimer`: the Sm task runs a call of the manager in several steps, so
  that the clock, the signal thread and expiry messages can come in between.
  `MaxStall` bounds the time one call takes; it is shorter than any duration
  (seconds in the code).  The ITTI functions are one step each.
* `Gtpv2cRxTrxn`: a request stands for its key (sequence number, address,
  port).  The peer follows the procedure the stack has for its own requests.
  The ULP answers at most once or never.  A lost or discarded request is a
  transmission without effect.  `pt_trx` is left out (TASK_SM never sets it),
  and with it the branch for a transaction that already stores a message.
* `SmSession`: TASK_MCE_APP is any client that answers at most once.  This is
  wider than what the code does today: `nwGtpv2cProcessUdpReq` has no case for
  the MBMS messages (they reach the default at `NwGtpv2c.c:1707`), and the
  start handler of MCE_APP has error paths of its own.  The model is about the
  handlers of the session manager for every such client.  TEIDs are bounded by
  `MaxTeid`, so the 32-bit wrap of the generator is outside the model.
* `Itti`: a send is the enqueue and, as a step of its own, the write to the
  event descriptor; a receive is one step, since only the task itself reads and
  dequeues.  A message is its origin and a number, which is what the order is
  about, and a kind.  `Peers` says to which tasks a task's handlers send; these
  may be tasks that main creates later, as TASK_MCE_APP is for TASK_SM and
  TASK_M2AP.  `PeerAssumption` has what the proofs need of the order in
  `oai_mce.c:147-161` (TASK_MCE_APP is last) and of the two tasks that get work
  before the start is over (TASK_UDP has no peers, TASK_SM has TASK_UDP and
  TASK_MCE_APP).  The handler of a message with work may send to any of its
  peers, in any number, so that a datagram makes TASK_SM address TASK_MCE_APP
  (`sm_mce_session_manager.c:175,365,496`).  Today the missing dispatch of the
  MBMS messages in the stack (`NwGtpv2c.c:1707`) keeps the code from getting
  there, as it keeps it from what `SmSession` models.  The queue is liblfds710,
  which is not part of the repository: its enqueue is one step.  `aborted`
  records the assertion that ended the process: the sender and the destination
  of a send that failed, or the task that was woken up without a message.
  The `TASK_S1AP` of `tasks_def.h` is a task that main never creates, and the
  one the SCTP receiver thread sends to (`sctp_itti_messaging.c:73,92,108`).
* `MemoryPools`: every `__sync` operation, read or write of shared memory is a
  step; memory is sequentially consistent.  `drained` (a get has met an empty
  pool) and `lapped` (a put has taken the position of a slot that is not yet
  cleared) are history variables: they name the two situations up to which the
  ring is exclusive.  After that, at most `MaxLate` further operations begin:
  what follows is only checked for the assertions that can end the process and
  for the balance of the positions.
  The remainder is C's, negative for a negative position.

## 3. Runs

| run | instance | shows |
|---|---|---|
| `heap` | 6 timers, 3 due times | `IndexExact` (at every turn of the loops), `PeekIsEarliest`, implements `TmrQueue` |
| `expiry` | 2 transactions, durations 2 and 4, 2 ITTI timers, clock to 9, no stops, fair | `OneIttiTimer`, `BoundedLateness`, implements `TimerService`, `EveryTimerEnds` |
| `stop` | 2 transactions, durations 2 and 3, 4 ITTI timers, stops at any time | `PoolSound`, `HandlesOwned`, `StopOfActiveSucceeds`, `ActiveIsGuarded` |
| `rx` | 2 requests, 3 transactions, 4 messages, 2 retransmissions, clock to 5 | `TrxnsOwned`, `HandlesLive`, `TimersMatch`, `StoredResponseIntact` |
| `sm` | 3 tunnels, 2 peers, TEIDs 1-3, 4 requests | `HandlesMatchTunnels`, `TunnelsOwned`, `AcceptedIsAnswered` |
| `itti` | 8 tasks, queues of 2 messages, 2 messages besides those of start and termination, fair | `WakeupsMatch`, `EmptyQueueOnlyAfterDrop`, `InOrder`, `FailedSends`, `SharedLogWaitsForBoth`, `QueuesDrain` |
| `pools` | 3 threads, pools of 2 items and 1 | `OnePlace`, `PositionsWrap`, `SlotIsEmpty`, `LapNeedsGetter`, `StatusHolds`, `CountIsExact`, `PositionsBalance` |

Bounds.  Six timers give a heap of three levels with incomplete last level, so
that a removal takes every way through both loops, equal due times included.
Two transactions are enough for every pair of timers that race: one active, one
waiting, restarted by a callback.  Two requests with three transactions include
the transaction made for a duplicate and thrown away while both requests are
outstanding.  Time in `rx` is counted in units of `t3Timer`; the horizon covers
first transmission, both retransmissions and the hold time, also when the
answer comes late.  Three TEIDs allow an ended session's tunnel next to two
live ones.

Two ITTI timers in `expiry` are one more than the manager may use: one that was
left running when another replaced it would show.

The tasks of `itti` are the seven that main creates, in its order and with the
peers they have in the code, and TASK_S1AP.  Two messages besides those that
start the tasks (`MaxMessages`) give chains that are two deep: a datagram to
TASK_SM and from there a message to TASK_UDP or TASK_MCE_APP, a timer of
TASK_MCE_APP and a message to TASK_SM or TASK_M2AP, two datagrams.  With the
TERMINATE_MESSAGE they fill a queue of two while a sender has enqueued and not
yet signalled.  Timers are those of TASK_MCE_APP and TASK_M2AP; those of TASK_SM
bring it the same kind of message as a datagram does.  Three threads are the
fewest for which a failing get restores the position over another's get while a
third puts, in rings of three slots and of two so that the positions wrap within
few calls.

Deadlock is not checked in `rx`, `sm`, `itti` and `pools`: the clock's horizon
and the bound on the requests are where the first two stop, the process ends in
`itti`, and in `pools` all memory may be in use or an assertion has failed.  In
the timer runs `HorizonReached` lets the end of the clock stutter, and deadlock
is checked.

Fairness (`expiry`): the clock advances, the signal thread handles each signal,
the Sm task handles each message and finishes each call.  The tasks are threads
that block only on their queue, so the scheduler gives them this.  Nothing is
assumed of the transactions, which start timers if they like.  In `itti` every
thread finishes its send, handles what is in its queue and goes through its
start and its end; nothing is assumed of signals, timers and packets.
`FairSpec` says this of all threads together, which fairness to each of them
implies.

What `itti` and `pools` show.  Whatever the interleaving of senders, a wake-up
belongs to each message; the assertion "No message in queue" can fail only after
a full queue refused a message, whose wake-up the code writes all the same
(`intertask_interface.c:438`).  The assertion that a task is ready when it is
addressed fails in two cases and in no other (`FailedSends`): the receiver
thread of the SCTP task addresses TASK_S1AP, so that its first indication ends
the process, and TASK_SM addresses TASK_MCE_APP when a datagram is handled
between `sm_mce_init`, which opens the socket, and the end of `mce_app_init`.
Once main waits for signals every task it created can be addressed.
TASK_SHARED_TS_LOG exits after TASK_LOG and after main's broadcast has come to
it, because it waits for two termination messages (`shared_ts_log.c:171`).  It
waits for no other task: TASK_SM may still be at work, or TASK_MCE_APP have
messages in its queue, and log, when both log tasks are gone.  The ring of the
pools hands every item out once as long as no get meets an empty pool and no put
laps a get; a lap needs a get that is stalled for a whole round.  After an empty
pool, with three threads, the restored position can be one too low for another's
get: an item is then handed out twice or the slot before the ring is read.  The
positions themselves lose nothing even then (`PositionsBalance`): what a get
that found no item takes back is its own step, never that of a call in between.
The code's pools hold 100 items and more (`intertask_interface.c:868`).

### What the code does differently from what it says

Five runs violate a property that a comment, a message or a doc of the code
states; the findings in `PROJECT.json` quote it.

* `setup` (`SetupTimersRun`): stopping the active timer when the next is due in
  the same microsecond asks ITTI for an interval of zero, which disarms it.
* `stale` (`NoPrematureTimeout`): an expiry message of a stopped timer is taken
  for the timer that reuses its info object.
* `rx_duplicate` (`IndicatedOnce`): the hold time ties with the peer's last
  retransmission, which may then be indicated as a new request.
* `rx_buffer` (`QueuedIsSent`): an echo response's buffer is freed while
  TASK_UDP still has to send it.
* `sm_stop` (`StopDeletesTunnel`): the stop response looks its tunnel up by the
  MBMS-GW's TEID and leaves its own tunnel.

## 4. Proofs

All for any constants that satisfy the named assumptions (`NULL` is none of the
objects, bounds and times are naturals).

* `TmrMinHeap_proofs`: `IInv` adds to `TypeOK` what holds in the middle of the
  loops: every slot but the hole holds a timer that notes its slot (`IndexExact`),
  and the order holds away from the hole and across it (`OrderOK`), which is
  what makes closing the hole restore the order.  From it: `TypeCorrect`,
  `IndexIsExact`, `HeapIsOrdered`, `PeekFindsEarliest` (the least
  position due before the root would have a parent due before the root) and `HeapImplementsQueue`.
* `FreeList_proofs`: a pop gives an object that is not in use and a push keeps
  the list free of duplicates; the three modules below rest on it.
* `Gtpv2cTimer_proofs`, for any number of transactions, info objects and ITTI
  timers, and any non-empty set of durations that are longer than `MaxStall`.
  `IInv` adds to the properties of run `stop` and `BoundedLateness`: the active
  timer is pending and `Guarded` (ITTI has it, to expire when it is due or
  later, or it is due and its message is in the queue of TASK_SM), which is
  stronger than `ActiveIsGuarded` by the times; the transaction whose callback
  is about to run has no pending timer (`CallbackClient`); and a timer that
  became active during a call is due after that call (`ActiveTimes`).  The last
  is where the durations matter: the loop never expires the active timer, which
  would leave ITTI with a timer of a freed info.  Hence `TypeCorrect`,
  `PoolIsSound`, `HandlesAreOwned`, `StopOfActiveIsSafe`, `ActiveStaysGuarded`
  and `LatenessIsBounded`, with stops and without.  Assuming that no timer is
  stopped, `OneExpiry` (at most one ITTI timer or message, that of the active
  timer) and `CallbackDue` are inductive above `IInv` and give
  `OneTimerAtATime`, `TimeoutsAreDue` and `TimerImplementsService`.  Run `stale`
  shows that with stops a timeout may not be due.
* `Gtpv2cRxTrxn_proofs`: the five properties of run `rx` are together
  inductive; none is alone.  A timeout, for instance, may free a transaction
  because `TimersMatch` says that the map has it for that request, and
  `HandlesLive` that no ULP handle refers to a transaction with a response.
* `SmSession_proofs`: the properties of run `sm` need `TeidsFresh` (TEIDs in
  the tunnel map are below the generator) to be inductive; it is why an
  accepted session's tunnel cannot collide with one left behind.
* `Itti_proofs`, for any set of tasks, order of creation, peers, timer users and
  queue size that satisfy the assumptions of `Itti`.  `StartInv` says where
  every thread is during the start: the tasks main has created so far are ready
  or ended (`Creating`), all are once main waits for signals (`Complete`), those
  created before a thread that runs are ready (`Ordered`), a thread not created
  sends nothing (`Silent`), TASK_S1AP is never configured (`MissingTask`).  Until
  TASK_MCE_APP is ready, which as the last means that all are, work is with
  TASK_SM or in the queues of TASK_SM and TASK_UDP only, and a datagram has come
  (`EarlyWork`).  Hence `TypeCorrect` and `SendAssertion`, with no condition on
  the order of a task and its peers other than `PeerAssumption`.  `WakeupsCorrect`
  then follows step by step: `StepKinds` sorts the actions into sends, wake-ups,
  receives and the others, so that the count is argued once per kind.
  `ReceiveAssertionOnlyAfterDrop` follows from it.  `OrderCorrect` needs that no
  message in a queue has a number its sender has not reached (`Numbered`).
  `SharedLogWaits` counts the TERMINATE_MESSAGEs in the queue of
  TASK_SHARED_TS_LOG (`LogOpen`): there is none before TASK_LOG has exited or
  main's broadcast has come to it, at most one while only one of the two has
  happened, and TASK_SHARED_TS_LOG needs two to exit.  It uses that the
  broadcast of main, in the order of `thread_id_t`, meets no task twice (a
  conjunct of `TaskAssumption`; the enumeration has each task once).
* `MemoryPools_lemmas` and `MemoryPools_proofs`, for any set of threads and any
  number and sizes of pools, with calls that stall at any point.  `IInv` says of
  a pool that no get found empty and no put found full (`Undisturbed`) which
  slots are filled: those from the get position to the put position, its window,
  but for the slots of the calls on their way.  A get has its slot outside of the
  window and the item is still in it, a put has its slot inside and nothing is in
  it (`GetOrPut`, `Filled`), no two gets and no two puts have the same slot
  (`SlotsApart`), a position is beyond the end of the ring only while a call is
  about to take it back (`Positions`, `PutWraps`), and each item is in one slot,
  with one call or alive as one message, with the status that goes with it
  (`Place`, `Status`).  The fetch of a put position must not run into the get
  position: the ring has a slot more than items, so that with the window closed
  up the other slots, or the puts that fill them, would have more items than
  there are besides the one in hand (`RoomForPut`, from the pigeonhole principle,
  `SlotsExceedItems`).  The properties of run `pools` but `PositionsBalance` follow:
  `TypeCorrect`, `ExclusiveItems`, `PositionsStay`, `SlotsStayEmpty`,
  `StatusesHold`, `CountsAreExact` (the size of the window is what
  `items_group_free_items` computes) and `LapsNeedGetters`.

Only model-checked: the liveness properties `EveryTimerEnds` and `QueuesDrain`,
which are out of the prover's reach, and `PositionsBalance`, a sum over the items
of a pool, whose steps need an induction over the items.  Every other safety
invariant, action property and refinement that a passing run checks is also
proved.

Most leaves name their prover (`Zenon`, or `SMTT(30)` for slow arithmetic): this
keeps the check of each module from nothing within some ten minutes.

## 5. Not modelled, and why

Much of the MCE cannot run in the present state of the code, for these reasons:

* The stack discards the MBMS session messages as unknown (`NwGtpv2c.c:1707`).
  Would they arrive, the session start handler of TASK_MCE_APP
  (`mce_app_mbms_service.c:92-315`) answers every request with a rejection, so
  no service is registered and no procedure is started.
* The SCTP task sends what it receives to TASK_S1AP, so TASK_M2AP sees neither an
  association nor data.  The M2 setup handler asks for IE 16 where the message
  has IE 15 (`m2ap_mce_handlers.c:332`) and would assert.
* The handler of the MCCH repetition timer returns before it schedules anything
  (`mce_app_mbms_service.c:627`).
* The Sm task sends no request, so the stack has no Tx transaction.

The contexts and procedures of TASK_MCE_APP, the MBSFN areas and their
scheduling, the eNB and MBMS contexts of TASK_M2AP and the Tx transactions are
therefore left out: a model would have to invent the environment that makes them
run.  When the paths above are repaired, these come next: the service contexts
as the client of `SmSession` (its write lock is tested the wrong way round,
`mce_app_mbms_service_context.c:140`), then the M2AP contexts with an SCTP
disconnection racing the session procedures, then the CSA pattern and MCH
allocation as operators against a definition of a valid allocation.

In reach and open: `timer_setup` and the signal thread in several steps, with
timers shorter than the call (`timer.c:210`, `timer.c:110`); the bucket locks
of the hash tables of the loggers.

Not planned: message coding (octet level, no state), parsing of the
configuration, statistics, formatting of the log, the generated ASN.1 code under
`build/`, the graphical `itti_analyzer` and the string library.  These are most
of the repository's lines.
