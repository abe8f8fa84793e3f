-------------------------------- MODULE Itti --------------------------------
(***************************************************************************)
(* The message service between the tasks of the MCE (intertask_interface.c)*)
(* from the start of the tasks to their termination.  A task is a thread   *)
(* with a bounded message queue and an event descriptor used as a          *)
(* semaphore; a sender first enqueues and then writes to the descriptor,   *)
(* the task first reads the descriptor and then dequeues.  Senders are the *)
(* tasks, the main thread, which also turns timer signals into messages,   *)
(* and the receiver thread of the SCTP task.  What that thread receives it *)
(* forwards to TASK_S1AP, a task that main never creates.                  *)
(***************************************************************************)
EXTENDS Naturals, Sequences, FiniteSetsExt

CONSTANTS
  Tasks,        \* the tasks of tasks_info
  Main,         \* the main thread
  Receiver,     \* sctp_receiver_thread
  MceApp, M2ap, S1ap, Sctp, Udp, Sm,  \* the tasks with a part of their own
  Log, SharedLog,
  InitOrder,    \* the tasks main creates, in that order
  ThreadIds,    \* the tasks in the order of thread_id_t
  Peers,        \* per task: the tasks its handlers send messages to
  TimerUsers,   \* the tasks that set timers
  QueueSize,    \* queue_size of tasks_info
  MaxMessages,  \* bound: messages sent besides those that start the tasks
  NULL

Threads == Tasks \cup {Main, Receiver}

Created == Tasks \ {S1ap}

\* main creates u before t
Before(u, t) ==
  \E i, j \in 1 .. Len(InitOrder) : InitOrder[i] = u /\ InitOrder[j] = t /\ i < j

ASSUME TaskAssumption ==
  /\ {MceApp, M2ap, S1ap, Sctp, Udp, Sm, Log, SharedLog} \subseteq Tasks
  /\ Main \notin Tasks /\ Receiver \notin Tasks /\ Main # Receiver
  /\ IsFiniteSet(Tasks)
  /\ ThreadIds \in Seq(Tasks)
  /\ InitOrder \in Seq(Created)
  /\ \A t \in Created : \E i \in 1 .. Len(InitOrder) : InitOrder[i] = t
  /\ \A i, j \in 1 .. Len(InitOrder) : InitOrder[i] = InitOrder[j] => i = j
  /\ \A i, j \in 1 .. Len(ThreadIds) : ThreadIds[i] = ThreadIds[j] => i = j

\* main creates TASK_MCE_APP last; while other tasks may send to any task that
\* main creates, TASK_UDP and TASK_SM, which run before, have these peers
ASSUME PeerAssumption ==
  /\ Before(Udp, Sm) /\ Before(Sctp, M2ap) /\ Before(SharedLog, Log)
  /\ InitOrder[Len(InitOrder)] = MceApp
  /\ Peers \in [Tasks -> SUBSET Created]
  /\ Peers[Udp] = {} /\ Peers[Sm] \subseteq {Udp, MceApp}
  /\ TimerUsers \subseteq Created

ASSUME BoundAssumption == QueueSize \in Nat \ {0} /\ MaxMessages \in Nat

Locations == {"none", "create", "udp_init", "signals", "broadcast", "end",
              "start", "wait", "activate", "work", "terminate", "exited",
              "receive", "cancelled"}
Kinds == {"activate", "sctp_init", "udp_init", "work", "terminate"}
Messages == [number : Nat, origin : Threads, kind : Kinds]

\* a send that failed: the sender and the task it addressed
Failures == Threads \X Tasks

ASSUME NullAssumption == NULL \notin Tasks \cup Failures /\ Tasks \cap Failures = {}

VARIABLES
  task_state,      \* per task: the state of its thread
  message_queue,   \* per task: its queue of messages
  task_event_fd,   \* per task: the count of its event descriptor
  sent,            \* per thread: how many messages it has sent
  pc,              \* per thread: where it is outside of a send
  next,            \* main: index of the loop over the tasks it is in
  signalling,      \* per thread: the task it is about to wake up, or NULL
  exit_count,      \* of shared_log_task
  udp_socket,      \* TASK_UDP has opened its socket
  dropped,         \* per task: messages its full queue refused
  lastReceived,    \* per task and origin: number of the last message received
  aborted          \* NULL, or what ended the process: a send that failed, or the
                   \* task that was woken up without a message

vars == <<task_state, message_queue, task_event_fd, sent, pc, next, signalling,
          exit_count, udp_socket, dropped, lastReceived, aborted>>

Init ==
  /\ task_state = [t \in Tasks |-> "NOT_CONFIGURED"]
  /\ message_queue = [t \in Tasks |-> <<>>]
  /\ task_event_fd = [t \in Tasks |-> 0]
  /\ sent = [p \in Threads |-> 0]
  /\ pc = [p \in Threads |-> IF p = Main THEN "create" ELSE "none"]
  /\ next = 1
  /\ signalling = [p \in Threads |-> NULL]
  /\ exit_count = 2
  /\ udp_socket = FALSE
  /\ dropped = [t \in Tasks |-> 0]
  /\ lastReceived = [t \in Tasks |-> [p \in Threads |-> 0]]
  /\ aborted = NULL

\* Bound: so many messages besides UDP_INIT and ACTIVATE_MESSAGE of main and
\* SCTP_INIT_MSG of TASK_M2AP.
MoreMessages ==
  MapThenSumSet(LAMBDA p : sent[p], Threads)
    < MaxMessages + Min({2, sent[Main]}) + Min({1, sent[M2ap]})

Running == aborted = NULL /\ pc[Main] # "end"

At(p, location) == pc[p] = location /\ signalling[p] = NULL

GoTo(p, location) == pc' = [pc EXCEPT ![p] = location]
-----------------------------------------------------------------------------
(***************************************************************************)
(* itti_send_msg_to_task up to the write to the event descriptor.  The     *)
(* message is freed when its destination has ended; a destination that is  *)
(* not ready is fatal.  lfds710_queue_bmm_enqueue refuses the message when *)
(* the queue is full, which the caller ignores: it signals all the same.   *)
(* The queue is that of a library (liblfds710): an enqueue is one step.    *)
(* A message is told from others by its origin and its number there.       *)
(***************************************************************************)
SendMsgToTask(p, t, kind) ==
  /\ sent' = [sent EXCEPT ![p] = @ + 1]
  /\ aborted' = IF task_state[t] \in {"READY", "ENDED"} THEN NULL ELSE <<p, t>>
  /\ IF task_state[t] # "READY"
     THEN UNCHANGED <<message_queue, dropped, signalling>>
     ELSE /\ signalling' = [signalling EXCEPT ![p] = t]
          /\ IF Len(message_queue[t]) < QueueSize
             THEN /\ message_queue' = [message_queue EXCEPT ![t] = Append(@,
                       [number |-> sent[p] + 1, origin |-> p, kind |-> kind])]
                  /\ UNCHANGED dropped
             ELSE /\ dropped' = [dropped EXCEPT ![t] = @ + 1]
                  /\ UNCHANGED message_queue
  /\ UNCHANGED <<task_event_fd, exit_count, udp_socket, lastReceived>>

(***************************************************************************)
(* The write to the event descriptor, which ends the send.                 *)
(***************************************************************************)
Signal(p) ==
  /\ signalling[p] # NULL
  /\ signalling' = [signalling EXCEPT ![p] = NULL]
  /\ task_event_fd' = [task_event_fd EXCEPT ![signalling[p]] = @ + 1]
  /\ UNCHANGED <<task_state, message_queue, sent, pc, next, exit_count,
                 udp_socket, dropped, lastReceived, aborted>>
-----------------------------------------------------------------------------
(***************************************************************************)
(* itti_receive_msg: epoll_wait returns when the descriptor is not zero,   *)
(* read takes one from it (EFD_SEMAPHORE), and the oldest message is       *)
(* dequeued.  Only the task itself reads and dequeues, so the two are one  *)
(* step here.                                                              *)
(***************************************************************************)
\* Mutant: the task dequeues and leaves the descriptor as it is.
ReceiveWithoutRead(t, kind) ==
  /\ At(t, "wait") /\ task_event_fd[t] > 0
  /\ message_queue[t] # <<>> /\ Head(message_queue[t]).kind = kind
  /\ UNCHANGED task_event_fd
  /\ message_queue' = [message_queue EXCEPT ![t] = Tail(@)]
  /\ lastReceived' = [lastReceived EXCEPT ![t][Head(message_queue[t]).origin] =
                        Head(message_queue[t]).number]
  /\ UNCHANGED <<task_state, sent, next, signalling, dropped, aborted>>

\* Mutant: the descriptor is no semaphore, a read takes its whole count.
ReceiveReadsAll(t, kind) ==
  /\ At(t, "wait") /\ task_event_fd[t] > 0
  /\ message_queue[t] # <<>> /\ Head(message_queue[t]).kind = kind
  /\ task_event_fd' = [task_event_fd EXCEPT ![t] = 0]
  /\ message_queue' = [message_queue EXCEPT ![t] = Tail(@)]
  /\ lastReceived' = [lastReceived EXCEPT ![t][Head(message_queue[t]).origin] =
                        Head(message_queue[t]).number]
  /\ UNCHANGED <<task_state, sent, next, signalling, dropped, aborted>>

\* Mutant: the task dequeues before the sender has written.
ReceiveWithoutWait(t, kind) ==
  /\ At(t, "wait")
  /\ message_queue[t] # <<>> /\ Head(message_queue[t]).kind = kind
  /\ task_event_fd' = [task_event_fd EXCEPT ![t] = @ - 1]
  /\ message_queue' = [message_queue EXCEPT ![t] = Tail(@)]
  /\ lastReceived' = [lastReceived EXCEPT ![t][Head(message_queue[t]).origin] =
                        Head(message_queue[t]).number]
  /\ UNCHANGED <<task_state, sent, next, signalling, dropped, aborted>>

\* Mutant: the newest message is dequeued first.
ReceiveNewest(t, kind) ==
  /\ At(t, "wait") /\ task_event_fd[t] > 0
  /\ message_queue[t] # <<>>
  /\ LET m == message_queue[t][Len(message_queue[t])] IN
     /\ m.kind = kind
     /\ task_event_fd' = [task_event_fd EXCEPT ![t] = @ - 1]
     /\ message_queue' = [message_queue EXCEPT ![t] = SubSeq(@, 1, Len(@) - 1)]
     /\ lastReceived' = [lastReceived EXCEPT ![t][m.origin] = m.number]
  /\ UNCHANGED <<task_state, sent, next, signalling, dropped, aborted>>

ReceiveMsg(t, kind) ==
  /\ At(t, "wait") /\ task_event_fd[t] > 0
  /\ message_queue[t] # <<>> /\ Head(message_queue[t]).kind = kind
  /\ task_event_fd' = [task_event_fd EXCEPT ![t] = @ - 1]
  /\ message_queue' = [message_queue EXCEPT ![t] = Tail(@)]
  /\ lastReceived' = [lastReceived EXCEPT ![t][Head(message_queue[t]).origin] =
                        Head(message_queue[t]).number]
  /\ UNCHANGED <<task_state, sent, next, signalling, dropped, aborted>>

(***************************************************************************)
(* A wake-up without a message is fatal.                                   *)
(***************************************************************************)
ReceiveNothing(t) ==
  /\ At(t, "wait") /\ task_event_fd[t] > 0
  /\ message_queue[t] = <<>>
  /\ task_event_fd' = [task_event_fd EXCEPT ![t] = @ - 1]
  /\ aborted' = t
  /\ UNCHANGED <<task_state, message_queue, sent, pc, next, signalling,
                 exit_count, udp_socket, dropped, lastReceived>>
-----------------------------------------------------------------------------
(***************************************************************************)
(* main: each init function creates its task with itti_create_task, which  *)
(* returns only when the thread has marked itself ready.  sm_mce_init also *)
(* sends UDP_INIT to TASK_UDP.                                             *)
(***************************************************************************)
PreviousReady == next > 1 => task_state[InitOrder[next - 1]] = "READY"

\* Mutant: itti_create_task does not wait for the thread.
CreateAtOnce ==
  /\ At(Main, "create")
  /\ next <= Len(InitOrder)
  /\ task_state' = [task_state EXCEPT ![InitOrder[next]] = "STARTING"]
  /\ pc' = [pc EXCEPT ![InitOrder[next]] = "start",
                       ![Main] = IF InitOrder[next] = Sm THEN "udp_init" ELSE @]
  /\ next' = next + 1
  /\ UNCHANGED <<message_queue, task_event_fd, sent, signalling, exit_count,
                 udp_socket, dropped, lastReceived, aborted>>

CreateTask ==
  /\ At(Main, "create")
  /\ PreviousReady
  /\ next <= Len(InitOrder)
  /\ task_state' = [task_state EXCEPT ![InitOrder[next]] = "STARTING"]
  /\ pc' = [pc EXCEPT ![InitOrder[next]] = "start",
                       ![Main] = IF InitOrder[next] = Sm THEN "udp_init" ELSE @]
  /\ next' = next + 1
  /\ UNCHANGED <<message_queue, task_event_fd, sent, signalling, exit_count,
                 udp_socket, dropped, lastReceived, aborted>>

SendInitUdp ==
  /\ At(Main, "udp_init")
  /\ PreviousReady
  /\ SendMsgToTask(Main, Udp, "udp_init")
  /\ GoTo(Main, "create")
  /\ UNCHANGED <<task_state, next>>

(***************************************************************************)
(* itti_mark_task_ready, the first thing a new task does.                  *)
(***************************************************************************)
MarkTaskReady(t) ==
  /\ pc[t] = "start"
  /\ task_state' = [task_state EXCEPT ![t] = "READY"]
  /\ GoTo(t, "wait")
  /\ UNCHANGED <<message_queue, task_event_fd, sent, next, signalling,
                 exit_count, udp_socket, dropped, lastReceived, aborted>>

(***************************************************************************)
(* main sends ACTIVATE_MESSAGE to TASK_M2AP and then waits for signals.    *)
(***************************************************************************)
Activate ==
  /\ At(Main, "create")
  /\ PreviousReady
  /\ next > Len(InitOrder)
  /\ SendMsgToTask(Main, M2ap, "activate")
  /\ GoTo(Main, "signals")
  /\ UNCHANGED <<task_state, next>>

(***************************************************************************)
(* signal_handle on SIGTIMER: main sends TIMER_HAS_EXPIRED to the task     *)
(* that set the timer.                                                     *)
(***************************************************************************)
TimerSignal(t) ==
  /\ At(Main, "signals")
  /\ MoreMessages
  /\ SendMsgToTask(Main, t, "work")
  /\ UNCHANGED <<task_state, pc, next>>

(***************************************************************************)
(* signal_handle on SIGINT calls itti_send_terminate_message, which        *)
(* broadcasts to the tasks that are ready, in the order of thread_id_t;    *)
(* SIGUSR1 ends the process without a broadcast.                           *)
(***************************************************************************)
Sigint ==
  /\ At(Main, "signals")
  /\ GoTo(Main, "broadcast")
  /\ next' = 1
  /\ UNCHANGED <<task_state, message_queue, task_event_fd, sent, signalling,
                 exit_count, udp_socket, dropped, lastReceived, aborted>>

Sigusr1 ==
  /\ At(Main, "signals")
  /\ GoTo(Main, "broadcast")
  /\ next' = Len(ThreadIds) + 1
  /\ UNCHANGED <<task_state, message_queue, task_event_fd, sent, signalling,
                 exit_count, udp_socket, dropped, lastReceived, aborted>>

SendBroadcastMessage ==
  /\ At(Main, "broadcast")
  /\ next <= Len(ThreadIds)
  /\ next' = next + 1
  /\ IF task_state[ThreadIds[next]] = "READY"
     THEN SendMsgToTask(Main, ThreadIds[next], "terminate")
     ELSE UNCHANGED <<message_queue, task_event_fd, sent, signalling, exit_count,
                      udp_socket, dropped, lastReceived, aborted>>
  /\ UNCHANGED <<task_state, pc>>

(***************************************************************************)
(* itti_wait_tasks_end after a second: one round of joins over the tasks,  *)
(* since end is set, and the end of the process, which nothing that the    *)
(* other threads do in between outlives.                                   *)
(***************************************************************************)
WaitTasksEnd ==
  /\ At(Main, "broadcast")
  /\ next > Len(ThreadIds)
  /\ task_state' = [t \in Tasks |-> IF task_state[t] = "READY" /\ At(t, "exited")
                                     THEN "ENDED" ELSE task_state[t]]
  /\ GoTo(Main, "end")
  /\ UNCHANGED <<message_queue, task_event_fd, sent, next, signalling, exit_count,
                 udp_socket, dropped, lastReceived, aborted>>
-----------------------------------------------------------------------------
(***************************************************************************)
(* The handlers of the tasks.  The handler of a message with work sends    *)
(* messages to the peers of the task in any number.                        *)
(***************************************************************************)
ReceiveWork(t) ==
  /\ ReceiveMsg(t, "work")
  /\ GoTo(t, IF Peers[t] = {} THEN "wait" ELSE "work")
  /\ UNCHANGED <<exit_count, udp_socket>>

HandlerSends(t, u) ==
  /\ At(t, "work")
  /\ MoreMessages
  /\ SendMsgToTask(t, u, "work")
  /\ UNCHANGED <<task_state, pc, next>>

HandlerDone(t) ==
  /\ At(t, "work")
  /\ GoTo(t, "wait")
  /\ UNCHANGED <<task_state, message_queue, task_event_fd, sent, next,
                 signalling, exit_count, udp_socket, dropped, lastReceived, aborted>>

(***************************************************************************)
(* TASK_M2AP answers ACTIVATE_MESSAGE with SCTP_INIT_MSG to TASK_SCTP.     *)
(***************************************************************************)
ReceiveActivate ==
  /\ ReceiveMsg(M2ap, "activate")
  /\ GoTo(M2ap, "activate")
  /\ UNCHANGED <<exit_count, udp_socket>>

HandleActivate ==
  /\ At(M2ap, "activate")
  /\ SendMsgToTask(M2ap, Sctp, "sctp_init")
  /\ GoTo(M2ap, "wait")
  /\ UNCHANGED <<task_state, next>>

(***************************************************************************)
(* TASK_SCTP creates a listener and its receiver thread.  When a socket    *)
(* call fails there is none, which is like one that receives nothing.      *)
(***************************************************************************)
ReceiveSctpInit ==
  /\ ReceiveMsg(Sctp, "sctp_init")
  /\ GoTo(Receiver, "receive")
  /\ UNCHANGED <<exit_count, udp_socket>>

(***************************************************************************)
(* The receiver thread forwards what arrives on its sockets to TASK_S1AP,  *)
(* and ends in select once it was cancelled.                               *)
(***************************************************************************)
ReceiverSends ==
  /\ pc[Receiver] \in {"receive", "cancelled"} /\ signalling[Receiver] = NULL
  /\ SendMsgToTask(Receiver, S1ap, "work")
  /\ UNCHANGED <<task_state, pc, next>>

ReceiverCancelled ==
  /\ pc[Receiver] = "cancelled"
  /\ GoTo(Receiver, "exited")
  /\ UNCHANGED <<task_state, message_queue, task_event_fd, sent, next,
                 signalling, exit_count, udp_socket, dropped, lastReceived, aborted>>

(***************************************************************************)
(* TASK_UDP opens its socket on UDP_INIT (again one that fails is like one *)
(* that receives nothing) and then sends every datagram it receives to     *)
(* TASK_SM: its epoll_wait returns for the socket as well.                 *)
(***************************************************************************)
ReceiveUdpInit ==
  /\ ReceiveMsg(Udp, "udp_init")
  /\ udp_socket' = TRUE
  /\ UNCHANGED <<pc, exit_count>>

UdpReceives ==
  /\ At(Udp, "wait")
  /\ udp_socket
  /\ MoreMessages
  /\ SendMsgToTask(Udp, Sm, "work")
  /\ UNCHANGED <<task_state, pc, next>>

(***************************************************************************)
(* TERMINATE_MESSAGE.  TASK_LOG sends another one to TASK_SHARED_TS_LOG    *)
(* before it exits, which exits on the second it gets; TASK_SCTP cancels   *)
(* its receiver thread.                                                    *)
(***************************************************************************)
TerminateTask(t) ==
  /\ t \notin {Log, SharedLog}
  /\ ReceiveMsg(t, "terminate")
  /\ pc' = IF t = Sctp /\ pc[Receiver] = "receive"
           THEN [pc EXCEPT ![t] = "exited", ![Receiver] = "cancelled"]
           ELSE [pc EXCEPT ![t] = "exited"]
  /\ UNCHANGED <<exit_count, udp_socket>>

ReceiveTerminateLog ==
  /\ ReceiveMsg(Log, "terminate")
  /\ GoTo(Log, "terminate")
  /\ UNCHANGED <<exit_count, udp_socket>>

TerminateLog ==
  /\ At(Log, "terminate")
  /\ SendMsgToTask(Log, SharedLog, "terminate")
  /\ GoTo(Log, "exited")
  /\ UNCHANGED <<task_state, next>>

\* Mutant: the first TERMINATE_MESSAGE ends the task.
TerminateSharedLogAtOnce ==
  /\ ReceiveMsg(SharedLog, "terminate")
  /\ exit_count' = exit_count - 1
  /\ GoTo(SharedLog, "exited")
  /\ UNCHANGED udp_socket

TerminateSharedLog ==
  /\ ReceiveMsg(SharedLog, "terminate")
  /\ exit_count' = exit_count - 1
  /\ GoTo(SharedLog, IF exit_count' = 0 THEN "exited" ELSE "wait")
  /\ UNCHANGED udp_socket
-----------------------------------------------------------------------------
TaskStep(t) == MarkTaskReady(t) \/ ReceiveWork(t) \/ HandlerDone(t)
               \/ TerminateTask(t) \/ ReceiveNothing(t)

OwnStep == ReceiveActivate \/ HandleActivate \/ ReceiveSctpInit \/ ReceiveUdpInit
           \/ ReceiveTerminateLog \/ TerminateLog \/ TerminateSharedLog

MainStep == CreateTask \/ SendInitUdp \/ Activate \/ SendBroadcastMessage
            \/ WaitTasksEnd

Stimulus == \/ \E t \in TimerUsers : TimerSignal(t)
            \/ \E t \in Tasks : \E u \in Peers[t] : HandlerSends(t, u)
            \/ UdpReceives
            \/ ReceiverSends
            \/ ReceiverCancelled
            \/ Sigint
            \/ Sigusr1

\* What the threads do by themselves
ThreadStep == /\ Running
              /\ \/ \E p \in Threads : Signal(p)
                 \/ \E t \in Tasks : TaskStep(t)
                 \/ OwnStep
                 \/ MainStep

Next == ThreadStep \/ (Running /\ Stimulus)

Spec == Init /\ [][Next]_vars

(***************************************************************************)
(* The threads run; nothing makes a signal, a packet or a message happen.  *)
(* It is enough that some thread runs, which a scheduler that is fair to   *)
(* every thread grants: the messages end at the bound, so that no thread   *)
(* can hold up another for ever.                                           *)
(***************************************************************************)
FairSpec == Spec /\ WF_vars(ThreadStep)
-----------------------------------------------------------------------------
TypeOK ==
  /\ task_state \in [Tasks -> {"NOT_CONFIGURED", "STARTING", "READY", "ENDED"}]
  /\ message_queue \in [Tasks -> Seq(Messages)]
  /\ task_event_fd \in [Tasks -> Nat]
  /\ sent \in [Threads -> Nat]
  /\ pc \in [Threads -> Locations]
  /\ next \in Nat \ {0}
  /\ signalling \in [Threads -> Tasks \cup {NULL}]
  /\ exit_count \in 0 .. 2
  /\ udp_socket \in BOOLEAN
  /\ dropped \in [Tasks -> Nat]
  /\ lastReceived \in [Tasks -> [Threads -> Nat]]
  /\ aborted \in Tasks \cup Failures \cup {NULL}

Signalling(t) == {p \in Threads : signalling[p] = t}

(***************************************************************************)
(* Queue and event descriptor stay in step whatever the interleaving of    *)
(* senders and task: the wake-ups written and about to be written are the  *)
(* messages in the queue and those that the full queue refused (enqueue    *)
(* and write of itti_send_msg_to_task, read and dequeue of                 *)
(* itti_receive_msg).                                                      *)
(***************************************************************************)
WakeupsMatch ==
  aborted \notin Tasks =>
    \A t \in Tasks :
      task_event_fd[t] + Cardinality(Signalling(t)) = Len(message_queue[t]) + dropped[t]

(***************************************************************************)
(* The assertion of the receive, a wake-up without a message ("this should *)
(* not happen"), can fail only for a task whose full queue has refused a   *)
(* message before: nothing else makes a wake-up outlive its message.       *)
(***************************************************************************)
EmptyQueueOnlyAfterDrop ==
  \A t \in Tasks : aborted = t => message_queue[t] = <<>> /\ dropped[t] > 0

(***************************************************************************)
(* What one thread sends to one task arrives in the order it was sent,     *)
(* also when other threads send to the same task in between.               *)
(***************************************************************************)
InOrder ==
  \A t \in Tasks : \A j \in 1 .. Len(message_queue[t]) :
    LET m == message_queue[t][j] IN
    /\ lastReceived[t][m.origin] < m.number
    /\ \A i \in 1 .. (j - 1) :
         message_queue[t][i].origin = m.origin => message_queue[t][i].number < m.number

(***************************************************************************)
(* The assertion of the send ("We cannot send a message if the task is not *)
(* running") fails in two ways.  The first indication of the SCTP receiver *)
(* thread ends the process, since nobody creates TASK_S1AP.  And while     *)
(* main is still starting tasks, a datagram can make TASK_SM address       *)
(* TASK_MCE_APP, which main creates after the socket is open.  No other    *)
(* message, of main, of a timer or of a handler, meets a task that is not  *)
(* ready; once main waits for signals only the first case is left.         *)
(***************************************************************************)
Starting == pc[Main] \in {"create", "udp_init"}

FailedSends ==
  /\ sent[Receiver] > 0 => aborted = <<Receiver, S1ap>>
  /\ aborted \in Failures =>
       \/ aborted = <<Receiver, S1ap>>
       \/ aborted = <<Sm, MceApp>> /\ Starting /\ sent[Udp] > 0

(***************************************************************************)
(* TASK_SHARED_TS_LOG, which writes the log for all, exits only after      *)
(* TASK_LOG has closed the log and main's broadcast has come to it: of the *)
(* two TERMINATE_MESSAGEs it waits for, one is of main and one of TASK_LOG.*)
(* When it is the last of thread_id_t, every task has been sent its own.   *)
(***************************************************************************)
MainDone == /\ pc[Main] \in {"broadcast", "end"}
            /\ \E i \in 1 .. Len(ThreadIds) : i < next /\ ThreadIds[i] = SharedLog

SharedLogWaitsForBoth == pc[SharedLog] = "exited" => pc[Log] = "exited" /\ MainDone

(***************************************************************************)
(* No message stays in a queue for ever: the tasks that have not exited    *)
(* catch up with their senders again and again, until the process ends.    *)
(***************************************************************************)
QueuesDrain ==
  []<>(Running => \A t \in Tasks : message_queue[t] = <<>> \/ pc[t] = "exited")
=============================================================================
