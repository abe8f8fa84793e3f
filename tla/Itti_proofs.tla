----------------------------- MODULE Itti_proofs -----------------------------
(***************************************************************************)
(* Proofs about Itti for any number of tasks and any queue size: queue and *)
(* event descriptor stay in step, the assertions of the send and of the    *)
(* receive, the order of messages, and the end of the log.                 *)
(***************************************************************************)
EXTENDS Itti, TLAPS

USE DEF Threads, Created

(***************************************************************************)
(* What a step does to queues and descriptors, whatever its action.        *)
(***************************************************************************)
SignalStep == \E p \in Threads : Signal(p)

SendStep == \E p \in Threads, t \in Tasks, k \in Kinds :
              signalling[p] = NULL /\ SendMsgToTask(p, t, k)

ReceiveStep == \E t \in Tasks, k \in Kinds : ReceiveMsg(t, k)

WakeStep == \E t \in Tasks : ReceiveNothing(t)

QuietStep == UNCHANGED <<message_queue, task_event_fd, sent, signalling, dropped,
                         lastReceived, aborted>>

(***************************************************************************)
(* The start.  main waits for each task before it goes on, so a task that  *)
(* exists finds the tasks created before it ready; nothing is sent before  *)
(* TASK_SM is ready; TASK_S1AP is never created.                           *)
(***************************************************************************)
Ready(t) == task_state[t] \in {"READY", "ENDED"}

MissingTask == task_state[S1ap] = "NOT_CONFIGURED" /\ pc[S1ap] = "none"

Creating ==
  Starting =>
    /\ next <= Len(InitOrder) + 1
    /\ \A i \in 1 .. Len(InitOrder) :
         /\ i < next - 1 => Ready(InitOrder[i])
         /\ i >= next => ~Ready(InitOrder[i]) /\ pc[InitOrder[i]] = "none"
    /\ pc[Main] = "udp_init" => next > 1 /\ InitOrder[next - 1] = Sm

Complete == ~Starting => \A t \in Created : Ready(t)

Ordered ==
  \A i, j \in 1 .. Len(InitOrder) :
    pc[InitOrder[i]] # "none" /\ j < i => Ready(InitOrder[j])

Silent ==
  ~Ready(Sm) =>
    /\ \A t \in Tasks : /\ message_queue[t] = <<>> /\ task_event_fd[t] = 0
                        /\ pc[t] \in {"none", "start", "wait"}
    /\ \A p \in Threads : signalling[p] = NULL
    /\ ~udp_socket /\ pc[Receiver] = "none"

(* Until TASK_MCE_APP, the last, is ready, all work comes from a datagram.  *)
WorkQueued(t) ==
  \E j \in 1 .. Len(message_queue[t]) : message_queue[t][j].kind = "work"

EarlyWork ==
  ~Ready(MceApp) =>
    \A t \in Tasks : /\ pc[t] = "work" => t = Sm /\ sent[Udp] > 0
                     /\ WorkQueued(t) => t \in {Udp, Sm} /\ sent[Udp] > 0

LogRuns == pc[SharedLog] # "exited" => exit_count > 0

BasicInv == TypeOK /\ LogRuns

StartInv == /\ BasicInv
            /\ MissingTask /\ Creating /\ Complete /\ Ordered /\ Silent /\ EarlyWork
            /\ FailedSends

LEMMA TaskMembers == /\ {MceApp, M2ap, S1ap, Sctp, Udp, Sm, Log, SharedLog} \subseteq Tasks
                     /\ Main \notin Tasks /\ Receiver \notin Tasks /\ Main # Receiver
BY TaskAssumption, Zenon

LEMMA OrderMembers == /\ \A i \in Nat \ {0} : i <= Len(InitOrder) => InitOrder[i] \in Created
                      /\ \A i \in Nat \ {0} : i <= Len(ThreadIds) => ThreadIds[i] \in Tasks
                      /\ Len(InitOrder) \in Nat /\ Len(ThreadIds) \in Nat
<1>1. InitOrder \in Seq(Created) /\ ThreadIds \in Seq(Tasks)
  BY TaskAssumption, Zenon
<1> HIDE DEF Created
<1> QED
  BY <1>1

LEMMA RoleMembers == {MceApp, M2ap, Sctp, Udp, Sm, Log, SharedLog} \subseteq Created
<1>1. ASSUME NEW u, NEW t, Before(u, t) PROVE u \in Created /\ t \in Created
  <2>1. PICK i, j \in 1 .. Len(InitOrder) : InitOrder[i] = u /\ InitOrder[j] = t
    BY <1>1, Zenon DEF Before
  <2>2. i \in Nat \ {0} /\ j \in Nat \ {0} /\ i <= Len(InitOrder) /\ j <= Len(InitOrder)
    BY OrderMembers
  <2> QED
    BY <2>1, <2>2, OrderMembers, Zenon
<1>2. Before(Udp, Sm) /\ Before(Sctp, M2ap) /\ Before(SharedLog, Log)
  BY PeerAssumption, Zenon
<1>3. MceApp \in Created
  <2>1. PICK i, j \in 1 .. Len(InitOrder) : InitOrder[i] = Udp /\ InitOrder[j] = Sm
    BY <1>2, Zenon DEF Before
  <2>2. Len(InitOrder) \in Nat \ {0} /\ Len(InitOrder) <= Len(InitOrder)
    BY <2>1, OrderMembers
  <2> QED
    BY <2>2, OrderMembers, PeerAssumption, Zenon
<1> QED
  BY <1>1, <1>2, <1>3, Zenon

LEMMA FailureFacts ==
  ASSUME NEW p \in Threads, NEW t \in Tasks
  PROVE  <<p, t>> \in Failures /\ <<p, t>> # NULL /\ <<p, t>> \notin Tasks
<1>1. <<p, t>> \in Failures
  BY Zenon DEF Failures
<1> QED
  BY <1>1, NullAssumption, Zenon

LEMMA PeerMembers == /\ \A t \in Tasks : Peers[t] \subseteq Created
                     /\ TimerUsers \subseteq Created
BY PeerAssumption, Zenon
-----------------------------------------------------------------------------
(***************************************************************************)
(* Every step is one of the five kinds.                                    *)
(***************************************************************************)
LEMMA TaskKinds ==
  ASSUME NEW t \in Tasks, TaskStep(t)
  PROVE  ReceiveStep \/ WakeStep \/ QuietStep
<1>1. CASE MarkTaskReady(t) \/ HandlerDone(t)
  BY <1>1, Zenon DEF MarkTaskReady, HandlerDone, QuietStep
<1>2. CASE ReceiveWork(t)
  BY <1>2, Zenon DEF ReceiveWork, ReceiveStep, Kinds
<1>3. CASE TerminateTask(t)
  BY <1>3, Zenon DEF TerminateTask, ReceiveStep, Kinds
<1>4. CASE ReceiveNothing(t)
  BY <1>4, Zenon DEF WakeStep
<1> QED
  BY <1>1, <1>2, <1>3, <1>4, Zenon DEF TaskStep

LEMMA OwnKinds ==
  ASSUME OwnStep
  PROVE  ReceiveStep \/ SendStep
<1> USE TaskMembers
<1>1. CASE ReceiveActivate
  BY <1>1, Zenon DEF ReceiveActivate, ReceiveStep, Kinds
<1>2. CASE ReceiveSctpInit
  BY <1>2, Zenon DEF ReceiveSctpInit, ReceiveStep, Kinds
<1>3. CASE ReceiveUdpInit
  BY <1>3, Zenon DEF ReceiveUdpInit, ReceiveStep, Kinds
<1>4. CASE ReceiveTerminateLog
  BY <1>4, Zenon DEF ReceiveTerminateLog, ReceiveStep, Kinds
<1>5. CASE TerminateSharedLog
  BY <1>5, Zenon DEF TerminateSharedLog, ReceiveStep, Kinds
<1>6. CASE HandleActivate
  BY <1>6, Zenon DEF HandleActivate, At, SendStep, Kinds
<1>7. CASE TerminateLog
  BY <1>7, Zenon DEF TerminateLog, At, SendStep, Kinds
<1> QED
  BY <1>1, <1>2, <1>3, <1>4, <1>5, <1>6, <1>7, Zenon DEF OwnStep

LEMMA MainKinds ==
  ASSUME next \in Nat \ {0}, MainStep
  PROVE  SendStep \/ QuietStep
<1> USE TaskMembers
<1>1. CASE CreateTask \/ WaitTasksEnd
  BY <1>1, Zenon DEF CreateTask, WaitTasksEnd, QuietStep
<1>2. CASE SendInitUdp
  BY <1>2, Zenon DEF SendInitUdp, At, SendStep, Kinds
<1>3. CASE Activate
  BY <1>3, Zenon DEF Activate, At, SendStep, Kinds
<1>4. CASE SendBroadcastMessage
  <2>1. ThreadIds[next] \in Tasks
    BY <1>4, OrderMembers, Zenon DEF SendBroadcastMessage
  <2>2. CASE task_state[ThreadIds[next]] = "READY"
    BY <1>4, <2>1, <2>2, Zenon DEF SendBroadcastMessage, At, SendStep, Kinds
  <2>3. CASE task_state[ThreadIds[next]] # "READY"
    BY <1>4, <2>3, Zenon DEF SendBroadcastMessage, QuietStep
  <2> QED
    BY <2>2, <2>3, Zenon
<1> QED
  BY <1>1, <1>2, <1>3, <1>4, Zenon DEF MainStep

LEMMA StimulusKinds ==
  ASSUME Stimulus
  PROVE  SendStep \/ QuietStep
<1> USE TaskMembers
<1>1. CASE \E t \in TimerUsers : TimerSignal(t)
  BY <1>1, PeerMembers, Zenon DEF TimerSignal, At, SendStep, Kinds
<1>2. CASE \E t \in Tasks : \E u \in Peers[t] : HandlerSends(t, u)
  BY <1>2, PeerMembers, Zenon DEF HandlerSends, At, SendStep, Kinds
<1>3. CASE UdpReceives
  BY <1>3, Zenon DEF UdpReceives, At, SendStep, Kinds
<1>4. CASE ReceiverSends
  BY <1>4, Zenon DEF ReceiverSends, SendStep, Kinds
<1>5. CASE ReceiverCancelled \/ Sigint \/ Sigusr1
  BY <1>5, Zenon DEF ReceiverCancelled, Sigint, Sigusr1, QuietStep
<1> QED
  BY <1>1, <1>2, <1>3, <1>4, <1>5, Zenon DEF Stimulus

LEMMA StepKinds ==
  ASSUME TypeOK, [Next]_vars
  PROVE  SignalStep \/ SendStep \/ ReceiveStep \/ WakeStep \/ QuietStep
<1>0. next \in Nat \ {0}
  BY Zenon DEF TypeOK
<1>1. CASE Next
  BY <1>0, <1>1, TaskKinds, OwnKinds, MainKinds, StimulusKinds, Zenon
  DEF Next, ThreadStep, SignalStep
<1>2. CASE UNCHANGED vars
  BY <1>2, Zenon DEF vars, QuietStep
<1> QED
  BY <1>1, <1>2, Zenon
-----------------------------------------------------------------------------
(***************************************************************************)
(* TypeOK is an invariant: every variable of Itti keeps its type.          *)
(***************************************************************************)
MessageTypes == /\ message_queue \in [Tasks -> Seq(Messages)]
                /\ task_event_fd \in [Tasks -> Nat]
                /\ sent \in [Threads -> Nat]
                /\ signalling \in [Threads -> Tasks \cup {NULL}]
                /\ dropped \in [Tasks -> Nat]
                /\ lastReceived \in [Tasks -> [Threads -> Nat]]
                /\ aborted \in Tasks \cup Failures \cup {NULL}

ControlTypes ==
  /\ task_state \in [Tasks -> {"NOT_CONFIGURED", "STARTING", "READY", "ENDED"}]
  /\ pc \in [Threads -> Locations]
  /\ next \in Nat \ {0}
  /\ exit_count \in 0 .. 2
  /\ udp_socket \in BOOLEAN

LEMMA SendType ==
  ASSUME MessageTypes, NEW p \in Threads, NEW t \in Tasks, NEW k \in Kinds,
         SendMsgToTask(p, t, k)
  PROVE  MessageTypes'
<1> DEFINE m == [number |-> sent[p] + 1, origin |-> p, kind |-> k]
<1>0. sent \in [Threads -> Nat] /\ sent[p] + 1 \in Nat
  <2>1. sent \in [Threads -> Nat]
    BY Zenon DEF MessageTypes
  <2> QED
    BY <2>1
<1>1. m \in Messages
  BY <1>0, Zenon DEF Messages
<1>2. Append(message_queue[t], m) \in Seq(Messages)
  BY <1>1 DEF MessageTypes
<1>3. message_queue' \in [Tasks -> Seq(Messages)]
  BY <1>2, ZenonT(30) DEF MessageTypes, SendMsgToTask
<1>4. sent' \in [Threads -> Nat]
  <2>1. sent' = [sent EXCEPT ![p] = @ + 1]
    BY Zenon DEF SendMsgToTask
  <2> QED
    BY <1>0, <2>1, Zenon
<1>5. aborted' \in Tasks \cup Failures \cup {NULL}
  <2>1. aborted' = NULL \/ aborted' = <<p, t>>
    BY Zenon DEF SendMsgToTask
  <2> QED
    BY <2>1, FailureFacts, Zenon
<1>6. dropped' \in [Tasks -> Nat]
  <2>1. dropped' = dropped \/ dropped' = [dropped EXCEPT ![t] = @ + 1]
    BY Zenon DEF SendMsgToTask
  <2>2. dropped \in [Tasks -> Nat]
    BY Zenon DEF MessageTypes
  <2> QED
    BY <2>1, <2>2
<1>7. signalling' \in [Threads -> Tasks \cup {NULL}]
  BY Zenon DEF MessageTypes, SendMsgToTask
<1>8. UNCHANGED <<task_event_fd, lastReceived>>
  BY Zenon DEF SendMsgToTask
<1> QED
  BY <1>3, <1>4, <1>5, <1>6, <1>7, <1>8, Zenon DEF MessageTypes

LEMMA SignalType ==
  ASSUME MessageTypes, NEW p \in Threads, Signal(p)
  PROVE  MessageTypes'
<1>1. signalling[p] \in Tasks
  BY Zenon DEF MessageTypes, Signal
<1>2. signalling' \in [Threads -> Tasks \cup {NULL}]
  BY Zenon DEF MessageTypes, Signal
<1>3. /\ task_event_fd' = [task_event_fd EXCEPT ![signalling[p]] = @ + 1]
      /\ task_event_fd \in [Tasks -> Nat]
  BY Zenon DEF Signal, MessageTypes
<1>4. task_event_fd' \in [Tasks -> Nat]
  BY <1>1, <1>3
<1> QED
  BY <1>2, <1>4, Zenon DEF Signal, MessageTypes

LEMMA ReceiveType ==
  ASSUME MessageTypes, NEW t \in Tasks, NEW k \in Kinds, ReceiveMsg(t, k)
  PROVE  MessageTypes'
<1> DEFINE m == Head(message_queue[t])
<1>1. message_queue[t] \in Seq(Messages) /\ message_queue[t] # <<>>
  BY Zenon DEF MessageTypes, ReceiveMsg
<1>2. m \in Messages /\ Tail(message_queue[t]) \in Seq(Messages)
  BY <1>1
<1>3. message_queue' \in [Tasks -> Seq(Messages)]
  BY <1>2, Zenon DEF ReceiveMsg, MessageTypes
<1>4. lastReceived' \in [Tasks -> [Threads -> Nat]]
  <2>1. m.origin \in Threads /\ m.number \in Nat
    BY <1>2, Zenon DEF Messages
  <2>2. lastReceived' = [lastReceived EXCEPT ![t][m.origin] = m.number]
    BY Zenon DEF ReceiveMsg
  <2>3. lastReceived \in [Tasks -> [Threads -> Nat]]
    BY Zenon DEF MessageTypes
  <2> QED
    BY <2>1, <2>2, <2>3, Zenon
<1>5. task_event_fd' \in [Tasks -> Nat]
  <2>1. /\ task_event_fd \in [Tasks -> Nat]
        /\ task_event_fd[t] > 0
        /\ task_event_fd' = [task_event_fd EXCEPT ![t] = @ - 1]
    BY Zenon DEF ReceiveMsg, MessageTypes
  <2>2. task_event_fd[t] - 1 \in Nat
    BY <2>1
  <2> QED
    BY <2>1, <2>2, Zenon
<1> QED
  BY <1>3, <1>4, <1>5, Zenon DEF ReceiveMsg, MessageTypes

LEMMA WakeType ==
  ASSUME MessageTypes, NEW t \in Tasks, ReceiveNothing(t)
  PROVE  MessageTypes'
<1>1. task_event_fd' \in [Tasks -> Nat]
  BY DEF ReceiveNothing, MessageTypes
<1> QED
  BY <1>1, Zenon DEF ReceiveNothing, MessageTypes

LEMMA MessageStep ==
  ASSUME TypeOK, [Next]_vars
  PROVE  MessageTypes'
<1>1. MessageTypes
  BY Zenon DEF TypeOK, MessageTypes
<1>2. QuietStep => MessageTypes'
  BY <1>1, Zenon DEF QuietStep, MessageTypes
<1> QED
  BY <1>1, <1>2, StepKinds, SendType, SignalType, ReceiveType, WakeType, Zenon
  DEF SendStep, SignalStep, ReceiveStep, WakeStep

LEMMA MoveType ==
  ASSUME ControlTypes, NEW p \in Threads, NEW l \in Locations, GoTo(p, l)
  PROVE  pc' \in [Threads -> Locations]
BY Zenon DEF ControlTypes, GoTo

LEMMA TaskControl ==
  ASSUME ControlTypes, NEW t \in Tasks, TaskStep(t)
  PROVE  ControlTypes'
<1>1. CASE MarkTaskReady(t)
  <2>1. pc' \in [Threads -> Locations]
    BY <1>1, MoveType, Zenon DEF MarkTaskReady, Locations
  <2>2. task_state' \in [Tasks -> {"NOT_CONFIGURED", "STARTING", "READY", "ENDED"}]
    BY <1>1, Zenon DEF MarkTaskReady, ControlTypes
  <2> QED
    BY <1>1, <2>1, <2>2, Zenon DEF MarkTaskReady, ControlTypes
<1>2. CASE ReceiveWork(t)
  <2>1. pc' \in [Threads -> Locations]
    BY <1>2, Zenon DEF ReceiveWork, Locations, GoTo, ControlTypes
  <2> QED
    BY <1>2, <2>1, Zenon DEF ReceiveWork, ReceiveMsg, ControlTypes
<1>3. CASE HandlerDone(t)
  <2>1. pc' \in [Threads -> Locations]
    BY <1>3, MoveType, Zenon DEF HandlerDone, Locations
  <2> QED
    BY <1>3, <2>1, Zenon DEF HandlerDone, ControlTypes
<1>4. CASE TerminateTask(t)
  <2>1. pc' \in [Threads -> Locations]
    BY <1>4, Zenon DEF TerminateTask, Locations, ControlTypes
  <2> QED
    BY <1>4, <2>1, Zenon DEF TerminateTask, ReceiveMsg, ControlTypes
<1>5. CASE ReceiveNothing(t)
  BY <1>5, Zenon DEF ReceiveNothing, ControlTypes
<1> QED
  BY <1>1, <1>2, <1>3, <1>4, <1>5, Zenon DEF TaskStep

LEMMA OwnControl ==
  ASSUME ControlTypes, LogRuns, OwnStep
  PROVE  ControlTypes'
<1> USE TaskMembers
<1>1. CASE ReceiveActivate
  <2>1. pc' \in [Threads -> Locations]
    BY <1>1, MoveType, Zenon DEF ReceiveActivate, Locations
  <2> QED
    BY <1>1, <2>1, Zenon DEF ReceiveActivate, ReceiveMsg, ControlTypes
<1>2. CASE HandleActivate
  <2>1. pc' \in [Threads -> Locations]
    BY <1>2, MoveType, Zenon DEF HandleActivate, Locations
  <2> QED
    BY <1>2, <2>1, Zenon DEF HandleActivate, SendMsgToTask, ControlTypes
<1>3. CASE ReceiveSctpInit
  <2>1. pc' \in [Threads -> Locations]
    BY <1>3, MoveType, Zenon DEF ReceiveSctpInit, Locations
  <2> QED
    BY <1>3, <2>1, Zenon DEF ReceiveSctpInit, ReceiveMsg, ControlTypes
<1>4. CASE ReceiveUdpInit
  BY <1>4, Zenon DEF ReceiveUdpInit, ReceiveMsg, ControlTypes
<1>5. CASE ReceiveTerminateLog
  <2>1. pc' \in [Threads -> Locations]
    BY <1>5, MoveType, Zenon DEF ReceiveTerminateLog, Locations
  <2> QED
    BY <1>5, <2>1, Zenon DEF ReceiveTerminateLog, ReceiveMsg, ControlTypes
<1>6. CASE TerminateLog
  <2>1. pc' \in [Threads -> Locations]
    BY <1>6, MoveType, Zenon DEF TerminateLog, Locations
  <2> QED
    BY <1>6, <2>1, Zenon DEF TerminateLog, SendMsgToTask, ControlTypes
<1>7. CASE TerminateSharedLog
  <2>1. pc' \in [Threads -> Locations]
    BY <1>7, Zenon DEF TerminateSharedLog, Locations, GoTo, ControlTypes
  <2>2. exit_count' \in 0 .. 2
    BY <1>7 DEF TerminateSharedLog, ReceiveMsg, At, LogRuns, ControlTypes
  <2> QED
    BY <1>7, <2>1, <2>2, Zenon DEF TerminateSharedLog, ReceiveMsg, ControlTypes
<1> QED
  BY <1>1, <1>2, <1>3, <1>4, <1>5, <1>6, <1>7, Zenon DEF OwnStep

LEMMA MainControl ==
  ASSUME ControlTypes, MainStep
  PROVE  ControlTypes'
<1> USE TaskMembers
<1>0. next \in Nat \ {0}
  BY Zenon DEF ControlTypes
<1>1. CASE CreateTask
  <2>1. InitOrder[next] \in Tasks
    BY <1>0, <1>1, OrderMembers, Zenon DEF CreateTask
  <2>2. pc' \in [Threads -> Locations]
    BY <1>1, <2>1, Zenon DEF CreateTask, Locations, ControlTypes
  <2>3. task_state' \in [Tasks -> {"NOT_CONFIGURED", "STARTING", "READY", "ENDED"}]
    BY <1>1, <2>1, Zenon DEF CreateTask, ControlTypes
  <2>4. next' \in Nat \ {0}
    BY <1>0, <1>1 DEF CreateTask
  <2> QED
    BY <1>1, <2>2, <2>3, <2>4, Zenon DEF CreateTask, ControlTypes
<1>2. CASE SendInitUdp
  <2>1. pc' \in [Threads -> Locations]
    BY <1>2, MoveType, Zenon DEF SendInitUdp, Locations
  <2> QED
    BY <1>2, <2>1, Zenon DEF SendInitUdp, SendMsgToTask, ControlTypes
<1>3. CASE Activate
  <2>1. pc' \in [Threads -> Locations]
    BY <1>3, MoveType, Zenon DEF Activate, Locations
  <2> QED
    BY <1>3, <2>1, Zenon DEF Activate, SendMsgToTask, ControlTypes
<1>4. CASE SendBroadcastMessage
  <2>1. next' \in Nat \ {0}
    <3>1. next' = next + 1
      BY <1>4, Zenon DEF SendBroadcastMessage
    <3> QED
      BY <1>0, <3>1
  <2>2. UNCHANGED <<task_state, pc, exit_count, udp_socket>>
    BY <1>4, Zenon DEF SendBroadcastMessage, SendMsgToTask
  <2> QED
    BY <2>1, <2>2, Zenon DEF ControlTypes
<1>5. CASE WaitTasksEnd
  <2>1. pc' \in [Threads -> Locations]
    BY <1>5, MoveType, Zenon DEF WaitTasksEnd, Locations
  <2>2. task_state' \in [Tasks -> {"NOT_CONFIGURED", "STARTING", "READY", "ENDED"}]
    BY <1>5, Zenon DEF WaitTasksEnd, ControlTypes
  <2> QED
    BY <1>5, <2>1, <2>2, Zenon DEF WaitTasksEnd, ControlTypes
<1> QED
  BY <1>1, <1>2, <1>3, <1>4, <1>5, Zenon DEF MainStep

LEMMA StimulusControl ==
  ASSUME ControlTypes, Stimulus
  PROVE  ControlTypes'
<1> USE TaskMembers
<1>1. CASE \E t \in TimerUsers : TimerSignal(t)
  BY <1>1, Zenon DEF TimerSignal, SendMsgToTask, ControlTypes
<1>2. CASE \E t \in Tasks : \E u \in Peers[t] : HandlerSends(t, u)
  BY <1>2, Zenon DEF HandlerSends, SendMsgToTask, ControlTypes
<1>3. CASE UdpReceives
  BY <1>3, Zenon DEF UdpReceives, SendMsgToTask, ControlTypes
<1>4. CASE ReceiverSends
  BY <1>4, Zenon DEF ReceiverSends, SendMsgToTask, ControlTypes
<1>5. CASE ReceiverCancelled
  <2>1. pc' \in [Threads -> Locations]
    BY <1>5, MoveType, Zenon DEF ReceiverCancelled, Locations
  <2> QED
    BY <1>5, <2>1, Zenon DEF ReceiverCancelled, ControlTypes
<1>6. CASE Sigint
  <2>1. pc' \in [Threads -> Locations]
    BY <1>6, MoveType, Zenon DEF Sigint, Locations
  <2>2. next' \in Nat \ {0}
    BY <1>6 DEF Sigint
  <2> QED
    BY <1>6, <2>1, <2>2, Zenon DEF Sigint, ControlTypes
<1>7. CASE Sigusr1
  <2>1. pc' \in [Threads -> Locations]
    BY <1>7, MoveType, Zenon DEF Sigusr1, Locations
  <2>2. next' \in Nat \ {0}
    BY <1>7, OrderMembers DEF Sigusr1
  <2> QED
    BY <1>7, <2>1, <2>2, Zenon DEF Sigusr1, ControlTypes
<1> QED
  BY <1>1, <1>2, <1>3, <1>4, <1>5, <1>6, <1>7, Zenon DEF Stimulus

LEMMA StepType ==
  ASSUME TypeOK, LogRuns, [Next]_vars
  PROVE  TypeOK'
<1>1. MessageTypes'
  BY MessageStep, Zenon
<1>2. ControlTypes
  BY Zenon DEF TypeOK, ControlTypes
<1>3. ASSUME NEW p \in Threads, Signal(p) PROVE ControlTypes'
  BY <1>2, <1>3, Zenon DEF Signal, ControlTypes
<1>4. ASSUME Next PROVE ControlTypes'
  BY <1>2, <1>3, <1>4, TaskControl, OwnControl, MainControl, StimulusControl, Zenon
  DEF Next, ThreadStep
<1>5. ASSUME UNCHANGED vars PROVE ControlTypes'
  BY <1>2, <1>5, Zenon DEF vars, ControlTypes
<1>6. ControlTypes'
  BY <1>4, <1>5, Zenon
<1> QED
  BY <1>1, <1>6, Zenon DEF TypeOK, MessageTypes, ControlTypes

LEMMA InitType == Init => TypeOK
<1> SUFFICES ASSUME Init PROVE TypeOK
  BY Zenon
<1>1. message_queue \in [Tasks -> Seq(Messages)]
  BY DEF Init
<1>2. pc \in [Threads -> Locations]
  <2>1. pc = [p \in Threads |-> IF p = Main THEN "create" ELSE "none"]
    BY Zenon DEF Init
  <2> QED
    BY <2>1, Zenon DEF Locations
<1>3. exit_count \in 0 .. 2 /\ next \in Nat \ {0}
  BY DEF Init
<1>4. udp_socket \in BOOLEAN
  BY Zenon DEF Init
<1>5. lastReceived \in [Tasks -> [Threads -> Nat]]
  BY Zenon DEF Init
<1>6. aborted \in Tasks \cup Failures \cup {NULL}
  BY Zenon DEF Init
<1>7. /\ task_state \in [Tasks -> {"NOT_CONFIGURED", "STARTING", "READY", "ENDED"}]
      /\ task_event_fd \in [Tasks -> Nat] /\ sent \in [Threads -> Nat]
      /\ signalling \in [Threads -> Tasks \cup {NULL}] /\ dropped \in [Tasks -> Nat]
  BY Zenon DEF Init
<1> QED
  BY <1>1, <1>2, <1>3, <1>4, <1>5, <1>6, <1>7, Zenon DEF TypeOK

LEMMA LogStep ==
  ASSUME TypeOK, LogRuns, Creating, [Next]_vars
  PROVE  LogRuns'
<1> USE TaskMembers
<1>0. /\ pc \in [Threads -> Locations] /\ SharedLog \in Threads /\ Main \in Threads
      /\ Receiver \in Threads /\ exit_count \in 0 .. 2
  BY Zenon DEF TypeOK
<1>1. CASE UNCHANGED <<exit_count, pc>>
  BY <1>1, Zenon DEF LogRuns
<1>2. ASSUME NEW p \in Threads, NEW l \in Locations, GoTo(p, l), exit_count' = exit_count,
             pc[SharedLog] # "exited" \/ p # SharedLog
      PROVE  LogRuns'
  BY <1>0, <1>2, Zenon DEF GoTo, LogRuns
<1>3. ASSUME NEW t \in Tasks, TaskStep(t) PROVE LogRuns'
  <2>1. CASE MarkTaskReady(t) \/ HandlerDone(t)
    BY <1>2, <2>1, Zenon DEF MarkTaskReady, HandlerDone, At, Locations
  <2>2. CASE ReceiveWork(t)
    BY <1>2, <2>2, Zenon DEF ReceiveWork, ReceiveMsg, At, Locations
  <2>3. CASE TerminateTask(t)
    BY <1>0, <2>3, Zenon DEF TerminateTask, LogRuns
  <2>4. CASE ReceiveNothing(t)
    BY <1>1, <2>4, Zenon DEF ReceiveNothing
  <2> QED
    BY <1>3, <2>1, <2>2, <2>3, <2>4, Zenon DEF TaskStep
<1>4. ASSUME OwnStep PROVE LogRuns'
  <2>1. CASE ReceiveActivate \/ ReceiveTerminateLog
    BY <1>2, <2>1, Zenon
    DEF ReceiveActivate, ReceiveTerminateLog, ReceiveMsg, At, Locations
  <2>2. CASE HandleActivate \/ TerminateLog
    BY <1>2, <2>2, Zenon DEF HandleActivate, TerminateLog, SendMsgToTask, At, Locations
  <2>3. CASE ReceiveSctpInit
    BY <1>2, <2>3, Zenon DEF ReceiveSctpInit, Locations
  <2>4. CASE ReceiveUdpInit
    BY <1>1, <2>4, Zenon DEF ReceiveUdpInit
  <2>5. CASE TerminateSharedLog
    <3>1. /\ exit_count' = 0 => pc'[SharedLog] = "exited"
          /\ exit_count' = exit_count - 1 /\ exit_count > 0
      BY <1>0, <2>5, Zenon DEF TerminateSharedLog, ReceiveMsg, At, LogRuns, GoTo
    <3> QED
      BY <1>0, <3>1 DEF LogRuns
  <2> QED
    BY <1>4, <2>1, <2>2, <2>3, <2>4, <2>5, Zenon DEF OwnStep
<1>5. ASSUME MainStep PROVE LogRuns'
  <2>1. CASE CreateTask
    <3>1. next \in 1 .. Len(InitOrder) /\ pc[Main] = "create"
      BY <2>1, OrderMembers DEF CreateTask, At, TypeOK
    <3>2. pc[InitOrder[next]] = "none" /\ InitOrder[next] \in Tasks
      BY <3>1, OrderMembers DEF Creating, Starting
    <3>3. pc[SharedLog] = "exited" => pc'[SharedLog] = "exited"
      BY <1>0, <2>1, <3>2, Zenon DEF CreateTask
    <3> QED
      BY <2>1, <3>3, Zenon DEF CreateTask, LogRuns
  <2>2. CASE SendInitUdp \/ Activate
    BY <1>2, <2>2, Zenon DEF SendInitUdp, Activate, SendMsgToTask, Locations
  <2>3. CASE SendBroadcastMessage
    BY <1>1, <2>3, Zenon DEF SendBroadcastMessage, SendMsgToTask
  <2>4. CASE WaitTasksEnd
    BY <1>2, <2>4, Zenon DEF WaitTasksEnd, Locations
  <2> QED
    BY <1>5, <2>1, <2>2, <2>3, <2>4, Zenon DEF MainStep
<1>6. ASSUME Stimulus PROVE LogRuns'
  <2>1. CASE ReceiverCancelled \/ Sigint \/ Sigusr1
    BY <1>2, <2>1, Zenon DEF ReceiverCancelled, Sigint, Sigusr1, Locations
  <2>2. CASE ~(ReceiverCancelled \/ Sigint \/ Sigusr1)
    BY <1>1, <1>6, <2>2, Zenon
    DEF Stimulus, TimerSignal, HandlerSends, UdpReceives, ReceiverSends,
       SendMsgToTask
  <2> QED
    BY <2>1, <2>2, Zenon
<1>7. ASSUME NEW p \in Threads, Signal(p) PROVE LogRuns'
  BY <1>1, <1>7, Zenon DEF Signal
<1> QED
  BY <1>1, <1>3, <1>4, <1>5, <1>6, <1>7, Zenon DEF Next, ThreadStep, vars
-----------------------------------------------------------------------------
(***************************************************************************)
(* How a step changes the state of tasks and of main during the start.     *)
(***************************************************************************)
LEMMA TaskChanges ==
  ASSUME TypeOK, Next, NEW t \in Tasks
  PROVE  /\ pc[t] = "none" => pc'[t] = "none" \/ (CreateTask /\ t = InitOrder[next])
         /\ \/ task_state'[t] = task_state[t]
            \/ CreateTask /\ t = InitOrder[next]
            \/ MarkTaskReady(t) /\ task_state'[t] = "READY"
            \/ task_state[t] = "READY" /\ task_state'[t] = "ENDED"
<1> USE TaskMembers
<1> DEFINE Goal == /\ pc[t] = "none" => pc'[t] = "none" \/ (CreateTask /\ t = InitOrder[next])
                   /\ \/ task_state'[t] = task_state[t]
                      \/ CreateTask /\ t = InitOrder[next]
                      \/ MarkTaskReady(t) /\ task_state'[t] = "READY"
                      \/ task_state[t] = "READY" /\ task_state'[t] = "ENDED"
<1>0. /\ pc \in [Threads -> Locations] /\ Main \in Threads /\ Receiver \in Threads
      /\ task_state \in [Tasks -> {"NOT_CONFIGURED", "STARTING", "READY", "ENDED"}]
      /\ next \in Nat \ {0}
  BY Zenon DEF TypeOK
<1>1. ASSUME task_state' = task_state, pc'[t] = pc[t] PROVE Goal
  BY <1>1, Zenon
<1>2. ASSUME NEW p \in Threads, NEW l \in Locations, GoTo(p, l), task_state' = task_state,
             pc[p] # "none" \/ p \notin Tasks
      PROVE  Goal
  BY <1>0, <1>2, Zenon DEF GoTo
<1>3. ASSUME NEW u \in Tasks, TaskStep(u) PROVE Goal
  <2>1. CASE MarkTaskReady(u)
    BY <1>0, <2>1, Zenon DEF MarkTaskReady, GoTo
  <2>2. CASE HandlerDone(u)
    BY <1>2, <2>2, Zenon DEF HandlerDone, At, Locations
  <2>3. CASE ReceiveWork(u)
    BY <1>2, <2>3, Zenon DEF ReceiveWork, ReceiveMsg, At, Locations
  <2>4. CASE TerminateTask(u)
    BY <1>0, <2>4, Zenon DEF TerminateTask, ReceiveMsg, At
  <2>5. CASE ReceiveNothing(u)
    BY <1>1, <2>5, Zenon DEF ReceiveNothing
  <2> QED
    BY <1>3, <2>1, <2>2, <2>3, <2>4, <2>5, Zenon DEF TaskStep
<1>4. ASSUME OwnStep PROVE Goal
  <2>1. CASE ReceiveActivate \/ ReceiveTerminateLog
    BY <1>2, <2>1, Zenon
    DEF ReceiveActivate, ReceiveTerminateLog, ReceiveMsg, At, Locations
  <2>2. CASE HandleActivate \/ TerminateLog
    BY <1>2, <2>2, Zenon DEF HandleActivate, TerminateLog, At, Locations
  <2>3. CASE ReceiveSctpInit
    BY <1>2, <2>3, Zenon DEF ReceiveSctpInit, ReceiveMsg, Locations
  <2>4. CASE ReceiveUdpInit
    BY <1>1, <2>4, Zenon DEF ReceiveUdpInit, ReceiveMsg
  <2>5. CASE TerminateSharedLog
    BY <1>2, <2>5, Zenon DEF TerminateSharedLog, ReceiveMsg, At, Locations
  <2> QED
    BY <1>4, <2>1, <2>2, <2>3, <2>4, <2>5, Zenon DEF OwnStep
<1>5. ASSUME MainStep PROVE Goal
  <2>1. CASE CreateTask
    <3>1. InitOrder[next] \in Tasks
      BY <1>0, <2>1, OrderMembers, Zenon DEF CreateTask
    <3> QED
      BY <1>0, <2>1, <3>1, Zenon DEF CreateTask
  <2>2. CASE SendInitUdp \/ Activate
    BY <1>2, <2>2, Zenon DEF SendInitUdp, Activate, Locations
  <2>3. CASE SendBroadcastMessage
    BY <1>1, <2>3, Zenon DEF SendBroadcastMessage
  <2>4. CASE WaitTasksEnd
    BY <1>0, <2>4, Zenon DEF WaitTasksEnd, GoTo
  <2> QED
    BY <1>5, <2>1, <2>2, <2>3, <2>4, Zenon DEF MainStep
<1>6. ASSUME Stimulus PROVE Goal
  <2>1. CASE ReceiverCancelled \/ Sigint \/ Sigusr1
    BY <1>2, <2>1, Zenon DEF ReceiverCancelled, Sigint, Sigusr1, Locations
  <2>2. CASE ~(ReceiverCancelled \/ Sigint \/ Sigusr1)
    BY <1>1, <1>6, <2>2, Zenon
    DEF Stimulus, TimerSignal, HandlerSends, UdpReceives, ReceiverSends
  <2> QED
    BY <2>1, <2>2, Zenon
<1>7. ASSUME NEW p \in Threads, Signal(p) PROVE Goal
  BY <1>1, <1>7, Zenon DEF Signal
<1> HIDE DEF Goal
<1>8. Goal
  BY <1>3, <1>4, <1>5, <1>6, <1>7, Zenon DEF Next, ThreadStep
<1> QED
  BY <1>8, Zenon DEF Goal

LEMMA MainChanges ==
  ASSUME TypeOK, Next
  PROVE  \/ pc'[Main] = pc[Main] /\ next' = next
         \/ CreateTask \/ SendInitUdp \/ Activate
         \/ ~Starting /\ ~Starting'
<1> USE TaskMembers
<1> DEFINE Goal == \/ pc'[Main] = pc[Main] /\ next' = next
                   \/ CreateTask \/ SendInitUdp \/ Activate
                   \/ ~Starting /\ ~Starting'
<1>0. /\ pc \in [Threads -> Locations] /\ Main \in Threads /\ Receiver \in Threads
  BY Zenon DEF TypeOK
<1>2. ASSUME NEW p \in Threads, NEW l \in Locations, GoTo(p, l), p # Main, next' = next
      PROVE  Goal
  BY <1>0, <1>2, Zenon DEF GoTo
<1>3. ASSUME NEW u \in Tasks, TaskStep(u) PROVE Goal
  <2>1. CASE MarkTaskReady(u) \/ HandlerDone(u)
    BY <1>2, <2>1, Zenon DEF MarkTaskReady, HandlerDone, Locations
  <2>3. CASE ReceiveWork(u)
    BY <1>2, <2>3, Zenon DEF ReceiveWork, ReceiveMsg, Locations
  <2>4. CASE TerminateTask(u)
    BY <1>0, <2>4, Zenon DEF TerminateTask, ReceiveMsg
  <2>5. CASE ReceiveNothing(u)
    BY <2>5, Zenon DEF ReceiveNothing
  <2> QED
    BY <1>3, <2>1, <2>3, <2>4, <2>5, Zenon DEF TaskStep
<1>4. ASSUME OwnStep PROVE Goal
  <2>1. CASE ReceiveActivate \/ ReceiveTerminateLog
    BY <1>2, <2>1, Zenon DEF ReceiveActivate, ReceiveTerminateLog, ReceiveMsg, Locations
  <2>2. CASE HandleActivate \/ TerminateLog
    BY <1>2, <2>2, Zenon DEF HandleActivate, TerminateLog, Locations
  <2>3. CASE ReceiveSctpInit
    BY <1>2, <2>3, Zenon DEF ReceiveSctpInit, ReceiveMsg, Locations
  <2>4. CASE ReceiveUdpInit
    BY <2>4, Zenon DEF ReceiveUdpInit, ReceiveMsg
  <2>5. CASE TerminateSharedLog
    BY <1>2, <2>5, Zenon DEF TerminateSharedLog, ReceiveMsg, Locations
  <2> QED
    BY <1>4, <2>1, <2>2, <2>3, <2>4, <2>5, Zenon DEF OwnStep
<1>5. ASSUME SendBroadcastMessage \/ WaitTasksEnd PROVE Goal
  BY <1>0, <1>5, Zenon DEF SendBroadcastMessage, WaitTasksEnd, At, GoTo, Starting
<1>6. ASSUME Stimulus PROVE Goal
  <2>1. CASE Sigint \/ Sigusr1
    BY <1>0, <2>1, Zenon DEF Sigint, Sigusr1, At, GoTo, Starting
  <2>2. CASE ReceiverCancelled
    BY <1>2, <2>2, Zenon DEF ReceiverCancelled, Locations
  <2>3. CASE ~(ReceiverCancelled \/ Sigint \/ Sigusr1)
    BY <1>6, <2>3, Zenon
    DEF Stimulus, TimerSignal, HandlerSends, UdpReceives, ReceiverSends
  <2> QED
    BY <2>1, <2>2, <2>3, Zenon
<1>7. ASSUME NEW p \in Threads, Signal(p) PROVE Goal
  BY <1>7, Zenon DEF Signal
<1> QED
  BY <1>3, <1>4, <1>5, <1>6, <1>7, Zenon DEF Next, ThreadStep, MainStep

LEMMA InitIndex == /\ \A t \in Created : \E i \in 1 .. Len(InitOrder) : InitOrder[i] = t
                   /\ \A i, j \in 1 .. Len(InitOrder) : InitOrder[i] = InitOrder[j] => i = j
                   /\ \A i \in 1 .. Len(InitOrder) : InitOrder[i] \in Created
BY TaskAssumption, OrderMembers

LEMMA CreateIndex ==
  ASSUME TypeOK, CreateTask
  PROVE  /\ next \in 1 .. Len(InitOrder) /\ pc[Main] = "create" /\ Starting
         /\ InitOrder[next] \in Created
BY OrderMembers DEF CreateTask, At, TypeOK, Starting

LEMMA PreviousReadyAll ==
  ASSUME TypeOK, Creating, Starting, PreviousReady, NEW i \in 1 .. Len(InitOrder), i < next
  PROVE  Ready(InitOrder[i])
<1>1. next \in Nat \ {0} /\ Len(InitOrder) \in Nat
  BY OrderMembers, Zenon DEF TypeOK
<1>2. CASE i < next - 1
  BY <1>2, Zenon DEF Creating
<1>3. CASE i = next - 1
  BY <1>1, <1>3 DEF PreviousReady, Ready
<1> QED
  BY <1>1, <1>2, <1>3

LEMMA AllReady ==
  ASSUME TypeOK, Creating, Activate, NEW t \in Created
  PROVE  Ready(t)
<1>1. PICK i \in 1 .. Len(InitOrder) : InitOrder[i] = t
  BY InitIndex, Zenon
<1>2. next \in Nat \ {0} /\ Len(InitOrder) \in Nat /\ next > Len(InitOrder)
  BY OrderMembers, Zenon DEF TypeOK, Activate
<1>3. i < next
  BY <1>2
<1>4. Starting /\ PreviousReady
  BY Zenon DEF Activate, At, Starting
<1> QED
  BY <1>1, <1>3, <1>4, PreviousReadyAll, Zenon

LEMMA ReadyStays ==
  ASSUME TypeOK, Creating, Next, NEW t \in Tasks, Ready(t)
  PROVE  Ready(t)'
<1>1. ~(CreateTask /\ t = InitOrder[next])
  <2> SUFFICES ASSUME CreateTask, t = InitOrder[next] PROVE FALSE
    BY Zenon
  <2>1. next \in 1 .. Len(InitOrder) /\ Starting
    BY CreateIndex, Zenon
  <2>2. next >= next
    BY <2>1, OrderMembers
  <2> QED
    BY <2>1, <2>2, Zenon DEF Creating
<1> QED
  BY <1>1, TaskChanges, Zenon DEF Ready

LEMMA MissingStep ==
  ASSUME TypeOK, MissingTask, Next
  PROVE  MissingTask'
<1>1. ~(CreateTask /\ S1ap = InitOrder[next])
  BY CreateIndex, Zenon
<1>2. ~MarkTaskReady(S1ap)
  BY Zenon DEF MissingTask, MarkTaskReady
<1> QED
  BY <1>1, <1>2, TaskChanges, TaskMembers, Zenon DEF MissingTask

LEMMA CompleteStep ==
  ASSUME TypeOK, Creating, Complete, Next
  PROVE  Complete'
<1> SUFFICES ASSUME ~Starting', NEW t \in Created PROVE Ready(t)'
  BY Zenon DEF Complete
<1>1. CASE ~Starting
  BY <1>1, ReadyStays, Zenon DEF Complete
<1>2. CASE Activate
  BY <1>2, AllReady, ReadyStays, Zenon
<1>3. CASE Starting /\ ~Activate
  <2>1. /\ pc \in [Threads -> Locations] /\ Main \in Threads
    BY Zenon DEF TypeOK
  <2>2. ~CreateTask
    <3> SUFFICES ASSUME CreateTask PROVE Starting'
      BY Zenon
    <3>1. InitOrder[next] \in Tasks /\ pc[Main] = "create"
      BY CreateIndex, Zenon
    <3> QED
      BY <2>1, <3>1, TaskMembers, Zenon DEF CreateTask, Starting
  <2>3. ~SendInitUdp
    BY <2>1, Zenon DEF SendInitUdp, GoTo, Starting
  <2> QED
    BY <1>3, <2>2, <2>3, MainChanges, Zenon DEF Starting
<1> QED
  BY <1>1, <1>2, <1>3, Zenon

LEMMA OrderedStep ==
  ASSUME TypeOK, Creating, Ordered, Next
  PROVE  Ordered'
<1> SUFFICES ASSUME NEW i \in 1 .. Len(InitOrder), NEW j \in 1 .. Len(InitOrder),
                    pc'[InitOrder[i]] # "none", j < i
             PROVE  Ready(InitOrder[j])'
  BY Zenon DEF Ordered
<1>0. InitOrder[i] \in Tasks /\ InitOrder[j] \in Tasks
  BY InitIndex, Zenon
<1>1. CASE pc[InitOrder[i]] # "none"
  BY <1>0, <1>1, ReadyStays, Zenon DEF Ordered
<1>2. CASE pc[InitOrder[i]] = "none"
  <2>1. CreateTask /\ InitOrder[i] = InitOrder[next]
    BY <1>0, <1>2, TaskChanges, Zenon
  <2>2. next \in 1 .. Len(InitOrder) /\ Starting
    BY <2>1, CreateIndex, Zenon
  <2>3. i = next
    BY <2>1, <2>2, InitIndex, Zenon
  <2>4. PreviousReady
    BY <2>1, Zenon DEF CreateTask
  <2> QED
    BY <1>0, <2>2, <2>3, <2>4, PreviousReadyAll, ReadyStays, Zenon
<1> QED
  BY <1>1, <1>2, Zenon

LEMMA NotYetStep ==
  ASSUME TypeOK, Creating, Next, Starting, NEW i \in 1 .. Len(InitOrder), i >= next,
         ~(CreateTask /\ i = next)
  PROVE  ~Ready(InitOrder[i])' /\ pc'[InitOrder[i]] = "none"
<1>0. InitOrder[i] \in Tasks
  BY InitIndex, Zenon
<1>1. pc[InitOrder[i]] = "none" /\ ~Ready(InitOrder[i])
  BY Zenon DEF Creating
<1>2. ~(CreateTask /\ InitOrder[i] = InitOrder[next])
  BY CreateIndex, InitIndex, Zenon
<1>3. ~MarkTaskReady(InitOrder[i])
  BY <1>1, Zenon DEF MarkTaskReady
<1> QED
  BY <1>0, <1>1, <1>2, <1>3, TaskChanges, Zenon DEF Ready

LEMMA CreatingStep ==
  ASSUME TypeOK, Creating, Next
  PROVE  Creating'
<1>0. /\ pc \in [Threads -> Locations] /\ Main \in Threads
      /\ next \in Nat \ {0} /\ Len(InitOrder) \in Nat
  BY OrderMembers, Zenon DEF TypeOK
<1>1. CASE ~Starting'
  BY <1>1, Zenon DEF Creating
<1>2. CASE CreateTask
  <2>1. /\ next \in 1 .. Len(InitOrder) /\ pc[Main] = "create" /\ Starting
        /\ InitOrder[next] \in Tasks
    BY <1>2, CreateIndex, Zenon
  <2>2. /\ next' = next + 1 /\ PreviousReady
        /\ pc'[Main] = IF InitOrder[next] = Sm THEN "udp_init" ELSE "create"
    BY <1>0, <1>2, <2>1, TaskMembers, Zenon DEF CreateTask
  <2>3. next' <= Len(InitOrder) + 1
    BY <2>1, <2>2, <1>0
  <2>4. ASSUME NEW i \in 1 .. Len(InitOrder), i < next' - 1 PROVE Ready(InitOrder[i])'
    <3>1. i < next
      BY <1>0, <2>2, <2>4
    <3> QED
      BY <2>1, <2>2, <3>1, PreviousReadyAll, ReadyStays, InitIndex, Zenon
  <2>5. ASSUME NEW i \in 1 .. Len(InitOrder), i >= next'
        PROVE  ~Ready(InitOrder[i])' /\ pc'[InitOrder[i]] = "none"
    <3>1. i >= next /\ i # next
      BY <1>0, <2>2, <2>5
    <3> QED
      BY <2>1, <3>1, NotYetStep, Zenon
  <2>6. pc'[Main] = "udp_init" => next' > 1 /\ InitOrder[next' - 1] = Sm
    <3>1. next' > 1 /\ next' - 1 = next
      BY <1>0, <2>2
    <3> QED
      BY <2>2, <3>1, Zenon
  <2> QED
    BY <2>3, <2>4, <2>5, <2>6, Zenon DEF Creating
<1>3. CASE Starting' /\ ~CreateTask
  <2>1. Starting /\ next' = next /\ (pc'[Main] = pc[Main] \/ pc'[Main] = "create")
    <3>1. CASE SendInitUdp
      BY <1>0, <3>1, Zenon DEF SendInitUdp, GoTo, At, Starting
    <3>2. ~Activate
      BY <1>0, <1>3, Zenon DEF Activate, GoTo, Starting
    <3> QED
      BY <1>3, <3>1, <3>2, MainChanges, Zenon DEF Starting
  <2>2. ASSUME NEW i \in 1 .. Len(InitOrder), i < next' - 1 PROVE Ready(InitOrder[i])'
    BY <2>1, <2>2, ReadyStays, InitIndex, Zenon DEF Creating
  <2>3. ASSUME NEW i \in 1 .. Len(InitOrder), i >= next'
        PROVE  ~Ready(InitOrder[i])' /\ pc'[InitOrder[i]] = "none"
    BY <1>3, <2>1, <2>3, NotYetStep, Zenon
  <2>4. next' <= Len(InitOrder) + 1
    BY <2>1, Zenon DEF Creating
  <2>5. pc'[Main] = "udp_init" => next' > 1 /\ InitOrder[next' - 1] = Sm
    BY <2>1, Zenon DEF Creating
  <2> QED
    BY <2>2, <2>3, <2>4, <2>5, Zenon DEF Creating
<1> QED
  BY <1>1, <1>2, <1>3, Zenon

LEMMA SilentSteps ==
  ASSUME StartInv, Next, ~Ready(Sm)
  PROVE  CreateTask \/ \E t \in Tasks : MarkTaskReady(t)
<1> USE TaskMembers
<1>0. TypeOK /\ Creating /\ Complete
  BY Zenon DEF StartInv, BasicInv
<1>1. Starting /\ pc[Main] \notin {"signals", "broadcast"}
  BY <1>0, RoleMembers, Zenon DEF Complete, Starting
<1>2. /\ \A t \in Tasks : /\ ~(task_event_fd[t] > 0)
                          /\ pc[t] \in {"none", "start", "wait"}
      /\ \A p \in Threads : signalling[p] = NULL
      /\ ~udp_socket /\ pc[Receiver] = "none"
  BY DEF StartInv, Silent
<1>3. ASSUME NEW p \in Threads, Signal(p) PROVE FALSE
  BY <1>2, <1>3, Zenon DEF Signal
<1>4. ASSUME NEW t \in Tasks, TaskStep(t) PROVE MarkTaskReady(t)
  BY <1>2, <1>4, Zenon
  DEF TaskStep, ReceiveWork, HandlerDone, TerminateTask, ReceiveNothing,
     ReceiveMsg, At
<1>5. ASSUME OwnStep PROVE FALSE
  BY <1>2, <1>5, Zenon
  DEF OwnStep, ReceiveActivate, HandleActivate, ReceiveSctpInit,
     ReceiveUdpInit, ReceiveTerminateLog, TerminateLog, TerminateSharedLog, ReceiveMsg, At
<1>6. ASSUME SendInitUdp PROVE FALSE
  BY <1>0, <1>1, <1>6, Zenon DEF SendInitUdp, At, Creating, PreviousReady, Ready
<1>7. ASSUME Activate PROVE FALSE
  BY <1>0, <1>7, AllReady, RoleMembers, Zenon
<1>8. ASSUME MainStep PROVE CreateTask
  BY <1>1, <1>6, <1>7, <1>8, Zenon
  DEF MainStep, SendBroadcastMessage, WaitTasksEnd, At
<1>9. ASSUME Stimulus PROVE FALSE
  BY <1>1, <1>2, <1>9, Zenon
  DEF Stimulus, TimerSignal, HandlerSends, UdpReceives, ReceiverSends,
     ReceiverCancelled, Sigint, Sigusr1, At
<1> QED
  BY <1>3, <1>4, <1>5, <1>8, <1>9, Zenon DEF Next, ThreadStep

LEMMA SilentStep ==
  ASSUME StartInv, Next
  PROVE  Silent'
<1> USE TaskMembers
<1>0. /\ TypeOK /\ Creating
      /\ pc \in [Threads -> Locations] /\ Main \in Threads /\ Receiver \in Threads
  BY Zenon DEF StartInv, BasicInv, TypeOK
<1> SUFFICES ASSUME ~Ready(Sm)' PROVE Silent'
  BY Zenon DEF Silent
<1>1. ~Ready(Sm)
  BY <1>0, ReadyStays, Zenon
<1>2. /\ \A t \in Tasks : /\ message_queue[t] = <<>> /\ task_event_fd[t] = 0
                          /\ pc[t] \in {"none", "start", "wait"}
      /\ \A p \in Threads : signalling[p] = NULL
      /\ ~udp_socket /\ pc[Receiver] = "none"
  BY <1>1, Zenon DEF StartInv, Silent
<1>3. CASE CreateTask
  <2>1. InitOrder[next] \in Tasks
    BY <1>0, <1>3, CreateIndex, Zenon
  <2>2. /\ \A t \in Tasks : pc'[t] \in {"none", "start", "wait"}
        /\ pc'[Receiver] = "none"
    BY <1>0, <1>2, <1>3, <2>1, Zenon DEF CreateTask
  <2> QED
    BY <1>2, <1>3, <2>2, Zenon DEF CreateTask, Silent
<1>4. ASSUME NEW t \in Tasks, MarkTaskReady(t) PROVE Silent'
  <2>1. /\ \A u \in Tasks : pc'[u] \in {"none", "start", "wait"}
        /\ pc'[Receiver] = "none"
    BY <1>0, <1>2, <1>4, Zenon DEF MarkTaskReady, GoTo
  <2> QED
    BY <1>2, <1>4, <2>1, Zenon DEF MarkTaskReady, Silent
<1> QED
  BY <1>1, <1>3, <1>4, SilentSteps, Zenon

LEMMA BeforeReady ==
  ASSUME Ordered, NEW u, NEW t, Before(u, t), pc[t] # "none"
  PROVE  Ready(u)
BY Zenon DEF Ordered, Before

(***************************************************************************)
(* What a send and a receive do to the work that is queued.                *)
(***************************************************************************)
LEMMA WorkSend ==
  ASSUME TypeOK, NEW p \in Threads, NEW t \in Tasks, NEW k \in Kinds,
         SendMsgToTask(p, t, k), NEW u \in Tasks, WorkQueued(u)'
  PROVE  WorkQueued(u) \/ (u = t /\ k = "work")
<1> DEFINE q == message_queue[u]
           m == [number |-> sent[p] + 1, origin |-> p, kind |-> k]
<1>0. /\ message_queue \in [Tasks -> Seq(Messages)] /\ sent \in [Threads -> Nat]
      /\ q \in Seq(Messages)
  BY Zenon DEF TypeOK
<1>1. m \in Messages /\ m.kind = k
  <2>1. sent[p] + 1 \in Nat
    BY <1>0
  <2> QED
    BY <2>1, Zenon DEF Messages
<1>2. CASE message_queue'[u] = q
  BY <1>2, Zenon DEF WorkQueued
<1>3. CASE message_queue'[u] # q
  <2>1. message_queue' = [message_queue EXCEPT ![t] = Append(@, m)]
    BY <1>3, Zenon DEF SendMsgToTask
  <2>2. u = t /\ message_queue'[u] = Append(q, m)
    BY <1>0, <1>3, <2>1, Zenon
  <2>3. PICK j \in 1 .. Len(Append(q, m)) : Append(q, m)[j].kind = "work"
    BY <2>2, Zenon DEF WorkQueued
  <2> HIDE DEF q, m
  <2>4. \/ j \in 1 .. Len(q) /\ Append(q, m)[j] = q[j]
        \/ Append(q, m)[j] = m
    BY <1>0, <1>1
  <2> QED
    BY <1>1, <2>2, <2>3, <2>4, Zenon DEF WorkQueued, q
<1> QED
  BY <1>2, <1>3, Zenon

LEMMA WorkReceive ==
  ASSUME TypeOK, NEW t \in Tasks, NEW k \in Kinds, ReceiveMsg(t, k), NEW u \in Tasks
  PROVE  /\ WorkQueued(u)' => WorkQueued(u)
         /\ k = "work" => WorkQueued(t)
<1>0. message_queue \in [Tasks -> Seq(Messages)]
  BY Zenon DEF TypeOK
<1>1. /\ message_queue' = [message_queue EXCEPT ![t] = Tail(@)]
      /\ message_queue[t] # <<>> /\ Head(message_queue[t]).kind = k
  BY Zenon DEF ReceiveMsg
<1> DEFINE q == message_queue[t]
<1>2. q \in Seq(Messages) /\ q # <<>> /\ Head(q).kind = k
  BY <1>0, <1>1, Zenon
<1>3. message_queue'[t] = Tail(q)
  BY <1>0, <1>1, Zenon
<1>4. WorkQueued(t) <=> \E j \in 1 .. Len(q) : q[j].kind = "work"
  BY Zenon DEF WorkQueued
<1>5. WorkQueued(t)' <=> \E j \in 1 .. Len(Tail(q)) : Tail(q)[j].kind = "work"
  BY <1>3, Zenon DEF WorkQueued
<1>6. u # t => message_queue'[u] = message_queue[u]
  BY <1>0, <1>1, Zenon
<1> HIDE DEF q
<1>7. /\ 1 \in 1 .. Len(q) /\ Head(q) = q[1]
      /\ \A j \in 1 .. Len(Tail(q)) : j + 1 \in 1 .. Len(q) /\ Tail(q)[j] = q[j + 1]
  BY <1>2
<1>8. WorkQueued(t)' => WorkQueued(t)
  BY <1>4, <1>5, <1>7, Zenon
<1>9. k = "work" => WorkQueued(t)
  BY <1>2, <1>4, <1>7, Zenon
<1>10. u # t => (WorkQueued(u)' => WorkQueued(u))
  BY <1>6, Zenon DEF WorkQueued
<1> QED
  BY <1>8, <1>9, <1>10, Zenon

LEMMA SentGrows ==
  ASSUME TypeOK, NEW p \in Threads, NEW t, NEW k, SendMsgToTask(p, t, k)
  PROVE  sent[Udp] > 0 \/ p = Udp => sent'[Udp] > 0
<1>1. /\ sent \in [Threads -> Nat] /\ Udp \in Threads
      /\ sent' = [sent EXCEPT ![p] = @ + 1]
  BY TaskMembers, Zenon DEF TypeOK, SendMsgToTask
<1>2. sent[Udp] \in Nat
  BY <1>1, Zenon
<1>3. sent'[Udp] = IF p = Udp THEN sent[Udp] + 1 ELSE sent[Udp]
  BY <1>1, Zenon
<1> QED
  BY <1>2, <1>3

(***************************************************************************)
(* TASK_MCE_APP is the last that main creates: once it is ready all are,   *)
(* and until then main is in the start and has not activated TASK_M2AP.    *)
(***************************************************************************)
LEMMA LastReady ==
  ASSUME TypeOK, Creating, Complete, Ready(MceApp), NEW t \in Created
  PROVE  Ready(t)
<1>1. CASE ~Starting
  BY <1>1, Zenon DEF Complete
<1>2. CASE Starting
  <2>1. PICK i \in 1 .. Len(InitOrder) : InitOrder[i] = t
    BY InitIndex, Zenon
  <2>2. /\ Len(InitOrder) \in Nat /\ next \in Nat \ {0}
        /\ InitOrder[Len(InitOrder)] = MceApp
    BY OrderMembers, PeerAssumption, Zenon DEF TypeOK
  <2>3. Len(InitOrder) \in 1 .. Len(InitOrder)
    BY <2>1, <2>2
  <2>4. ~(Len(InitOrder) >= next)
    BY <1>2, <2>2, <2>3, Zenon DEF Creating
  <2>5. CASE i = Len(InitOrder)
    BY <2>1, <2>2, <2>5, Zenon
  <2>6. CASE i # Len(InitOrder)
    <3>1. i < next - 1
      BY <2>1, <2>2, <2>4, <2>6
    <3> QED
      BY <1>2, <2>1, <3>1, Zenon DEF Creating
  <2> QED
    BY <2>5, <2>6, Zenon
<1> QED
  BY <1>1, <1>2, Zenon

LEMMA NotLast ==
  ASSUME TypeOK, Creating, Complete, ~Ready(MceApp)
  PROVE  Starting /\ pc[Main] \notin {"signals", "broadcast"} /\ ~Activate
<1>1. Starting
  BY RoleMembers, Zenon DEF Complete
<1>2. pc[Main] \notin {"signals", "broadcast"}
  BY <1>1, Zenon DEF Starting
<1> QED
  BY <1>1, <1>2, AllReady, RoleMembers, Zenon

LEMMA EarlyWorkStep ==
  ASSUME StartInv, Next
  PROVE  EarlyWork'
<1> USE TaskMembers
<1>0. /\ TypeOK /\ Creating /\ Complete /\ EarlyWork
      /\ pc \in [Threads -> Locations] /\ Main \in Threads /\ Receiver \in Threads
  BY Zenon DEF StartInv, BasicInv, TypeOK
<1> SUFFICES ASSUME ~Ready(MceApp)' PROVE EarlyWork'
  BY Zenon DEF EarlyWork
<1>1. ~Ready(MceApp)
  BY <1>0, ReadyStays, Zenon
<1>2. \A t \in Tasks : /\ pc[t] = "work" => t = Sm /\ sent[Udp] > 0
                       /\ WorkQueued(t) => t \in {Udp, Sm} /\ sent[Udp] > 0
  BY <1>0, <1>1, Zenon DEF EarlyWork
<1>3. pc[Main] \notin {"signals", "broadcast"} /\ ~Activate
  BY <1>0, <1>1, NotLast, Zenon
<1> DEFINE NoNewWork == \A u \in Tasks : pc'[u] = "work" => pc[u] = "work"
<1>4. ASSUME message_queue' = message_queue, sent' = sent, NoNewWork PROVE EarlyWork'
  <2>1. \A u \in Tasks : WorkQueued(u)' => WorkQueued(u)
    BY <1>4, Zenon DEF WorkQueued
  <2> QED
    BY <1>2, <1>4, <2>1, Zenon DEF EarlyWork
<1>5. ASSUME NEW t \in Tasks, NEW k \in Kinds, ReceiveMsg(t, k),
             \A u \in Tasks : pc'[u] = "work" =>
               pc[u] = "work" \/ (u = t /\ u = Sm /\ k = "work")
      PROVE  EarlyWork'
  <2>1. \A u \in Tasks : WorkQueued(u)' => WorkQueued(u)
    BY <1>0, <1>5, WorkReceive, Zenon
  <2>2. k = "work" => WorkQueued(t)
    BY <1>0, <1>5, WorkReceive, Zenon
  <2>3. sent' = sent
    BY <1>5, Zenon DEF ReceiveMsg
  <2> QED
    BY <1>2, <1>5, <2>1, <2>2, <2>3, Zenon DEF EarlyWork
<1>6. ASSUME NEW p \in Threads, NEW t \in Tasks, NEW k \in Kinds, SendMsgToTask(p, t, k),
             NoNewWork,
             \/ k # "work"
             \/ t = Sm /\ p = Udp
             \/ t = Udp /\ sent[Udp] > 0
             \/ message_queue' = message_queue
      PROVE  EarlyWork'
  <2>1. \A u \in Tasks : WorkQueued(u)' =>
          WorkQueued(u) \/ (u = t /\ k = "work" /\ message_queue' # message_queue)
    <3>1. message_queue' = message_queue =>
            \A u \in Tasks : WorkQueued(u)' => WorkQueued(u)
      BY Zenon DEF WorkQueued
    <3> QED
      BY <1>0, <1>6, <3>1, WorkSend, Zenon
  <2>2. sent[Udp] > 0 \/ p = Udp => sent'[Udp] > 0
    BY <1>0, <1>6, SentGrows, Zenon
  <2> QED
    BY <1>2, <1>6, <2>1, <2>2, Zenon DEF EarlyWork
<1>7. ASSUME NEW p \in Threads, NEW l \in Locations \ {"work"}, GoTo(p, l) PROVE NoNewWork
  BY <1>0, <1>7, Zenon DEF GoTo
<1> HIDE DEF NoNewWork
<1>8. ASSUME pc' = pc PROVE NoNewWork
  BY <1>8, Zenon DEF NoNewWork
<1>9. ASSUME NEW p \in Threads, Signal(p) PROVE EarlyWork'
  BY <1>4, <1>8, <1>9, Zenon DEF Signal
<1>10. ASSUME NEW t \in Tasks, TaskStep(t) PROVE EarlyWork'
  <2>1. CASE MarkTaskReady(t) \/ HandlerDone(t)
    BY <1>4, <1>7, <2>1, Zenon DEF MarkTaskReady, HandlerDone, Locations
  <2>2. CASE ReceiveWork(t)
    <3>1. ReceiveMsg(t, "work") /\ "work" \in Kinds
      BY <2>2, Zenon DEF ReceiveWork, Kinds
    <3>2. t \in {Udp, Sm}
      BY <1>0, <1>2, <3>1, WorkReceive, Zenon
    <3>3. \A u \in Tasks : pc'[u] = "work" => pc[u] = "work" \/ (u = t /\ u = Sm)
      BY <1>0, <2>2, <3>2, PeerAssumption, Zenon DEF ReceiveWork, GoTo
    <3> QED
      BY <1>5, <3>1, <3>3, Zenon
  <2>3. CASE TerminateTask(t)
    <3>1. ReceiveMsg(t, "terminate") /\ "terminate" \in Kinds
      BY <2>3, Zenon DEF TerminateTask, Kinds
    <3>2. \A u \in Tasks : pc'[u] = "work" => pc[u] = "work"
      BY <1>0, <2>3, Zenon DEF TerminateTask
    <3> QED
      BY <1>5, <3>1, <3>2, Zenon
  <2>4. CASE ReceiveNothing(t)
    BY <1>4, <1>8, <2>4, Zenon DEF ReceiveNothing
  <2> QED
    BY <1>10, <2>1, <2>2, <2>3, <2>4, Zenon DEF TaskStep
<1>11. ASSUME OwnStep PROVE EarlyWork'
  <2>1. ASSUME NEW t \in Tasks, NEW k \in Kinds, ReceiveMsg(t, k), NoNewWork
        PROVE  EarlyWork'
    BY <1>5, <2>1, Zenon DEF NoNewWork
  <2>2. CASE ReceiveActivate \/ ReceiveSctpInit
    BY <1>0, <1>7, <2>1, <2>2, Zenon DEF ReceiveActivate, ReceiveSctpInit, Locations, Kinds
  <2>3. CASE ReceiveUdpInit
    BY <1>8, <2>1, <2>3, Zenon DEF ReceiveUdpInit, Kinds
  <2>4. CASE ReceiveTerminateLog
    BY <1>7, <2>1, <2>4, Zenon DEF ReceiveTerminateLog, Locations, Kinds
  <2>5. CASE TerminateSharedLog
    <3>1. PICK l \in {"exited", "wait"} : GoTo(SharedLog, l)
      BY <2>5, Zenon DEF TerminateSharedLog
    <3>2. NoNewWork
      BY <1>7, <3>1, Zenon DEF Locations
    <3> QED
      BY <2>1, <2>5, <3>2, Zenon DEF TerminateSharedLog, Kinds
  <2>6. CASE HandleActivate
    BY <1>6, <1>7, <2>6, Zenon DEF HandleActivate, Locations, Kinds
  <2>7. CASE TerminateLog
    BY <1>6, <1>7, <2>7, Zenon DEF TerminateLog, Locations, Kinds
  <2> QED
    BY <1>11, <2>2, <2>3, <2>4, <2>5, <2>6, <2>7, Zenon DEF OwnStep
<1>12. ASSUME MainStep PROVE EarlyWork'
  <2>1. CASE CreateTask
    <3>1. InitOrder[next] \in Tasks
      BY <1>0, <2>1, CreateIndex, Zenon
    <3>2. NoNewWork
      BY <1>0, <2>1, <3>1, Zenon DEF CreateTask, NoNewWork
    <3> QED
      BY <1>4, <2>1, <3>2, Zenon DEF CreateTask
  <2>2. CASE SendInitUdp
    BY <1>0, <1>6, <1>7, <2>2, Zenon DEF SendInitUdp, Locations, Kinds
  <2> QED
    BY <1>3, <1>12, <2>1, <2>2, Zenon
    DEF MainStep, SendBroadcastMessage, WaitTasksEnd, At
<1>13. ASSUME Stimulus PROVE EarlyWork'
  <2>1. ASSUME NEW t \in Tasks, NEW u \in Peers[t], HandlerSends(t, u) PROVE EarlyWork'
    <3>1. pc[t] = "work" /\ SendMsgToTask(t, u, "work") /\ pc' = pc
      BY <2>1, Zenon DEF HandlerSends, At
    <3>2. t = Sm /\ sent[Udp] > 0 /\ u \in {Udp, MceApp} /\ u \in Tasks
      BY <1>2, <2>1, <3>1, PeerAssumption, PeerMembers, Zenon
    <3>3. u = MceApp => message_queue' = message_queue
      BY <1>1, <3>1, Zenon DEF SendMsgToTask, Ready
    <3> QED
      BY <1>6, <1>8, <3>1, <3>2, <3>3, Zenon DEF Kinds
  <2>2. CASE UdpReceives
    BY <1>6, <1>8, <2>2, Zenon DEF UdpReceives, Kinds
  <2>3. CASE ReceiverSends
    <3>1. message_queue' = message_queue /\ pc' = pc /\ SendMsgToTask(Receiver, S1ap, "work")
      BY <2>3, Zenon DEF ReceiverSends, SendMsgToTask, StartInv, MissingTask
    <3> QED
      BY <1>0, <1>6, <1>8, <3>1, Zenon DEF Kinds
  <2>4. CASE ReceiverCancelled
    BY <1>0, <1>4, <1>7, <2>4, Zenon DEF ReceiverCancelled, Locations
  <2> QED
    BY <1>3, <1>13, <2>1, <2>2, <2>3, <2>4, Zenon
    DEF Stimulus, TimerSignal, Sigint, Sigusr1, At
<1> QED
  BY <1>9, <1>10, <1>11, <1>12, <1>13, Zenon DEF Next, ThreadStep

(***************************************************************************)
(* Which sends fail.                                                       *)
(***************************************************************************)
LEMMA ReadySend ==
  ASSUME NEW p \in Threads, NEW t \in Tasks, NEW k, SendMsgToTask(p, t, k), Ready(t),
         p # Receiver, sent \in [Threads -> Nat]
  PROVE  sent'[Receiver] = sent[Receiver] /\ aborted' = NULL
BY Zenon DEF SendMsgToTask, Ready

EarlyFailure == aborted' = <<Sm, MceApp>> /\ Starting' /\ sent'[Udp] > 0

LEMMA HandlerSendFate ==
  ASSUME StartInv, NEW t \in Tasks, NEW u \in Peers[t], HandlerSends(t, u)
  PROVE  sent'[Receiver] = sent[Receiver] /\ (aborted' = NULL \/ EarlyFailure)
<1> USE TaskMembers
<1>0. /\ TypeOK /\ Creating /\ Complete /\ Ordered /\ EarlyWork /\ MissingTask
      /\ sent \in [Threads -> Nat]
  BY Zenon DEF StartInv, BasicInv, TypeOK
<1>1. /\ pc[t] = "work" /\ SendMsgToTask(t, u, "work") /\ pc' = pc
      /\ u \in Created /\ u \in Tasks /\ t # Receiver
  BY PeerMembers, Zenon DEF HandlerSends, At
<1>2. CASE Ready(u)
  BY <1>0, <1>1, <1>2, ReadySend, Zenon
<1>3. CASE ~Ready(u)
  <2>1. ~Ready(MceApp)
    BY <1>0, <1>1, <1>3, LastReady, Zenon
  <2>2. t = Sm /\ sent[Udp] > 0 /\ u \in {Udp, MceApp}
    BY <1>0, <1>1, <2>1, PeerAssumption, Zenon DEF EarlyWork
  <2>3. u = MceApp
    <3>1. Ready(Udp)
      BY <1>0, <1>1, <2>2, BeforeReady, PeerAssumption, Zenon
    <3> QED
      BY <1>3, <2>2, <3>1, Zenon
  <2>4. /\ aborted' = NULL \/ aborted' = <<Sm, MceApp>>
        /\ sent'[Receiver] = sent[Receiver]
    BY <1>0, <1>1, <2>2, <2>3, Zenon DEF SendMsgToTask
  <2>5. Starting'
    BY <1>0, <1>1, <2>1, NotLast, Zenon DEF Starting
  <2>6. sent'[Udp] > 0
    BY <1>0, <1>1, <2>2, SentGrows, Zenon
  <2> QED
    BY <2>4, <2>5, <2>6, Zenon DEF EarlyFailure
<1> QED
  BY <1>2, <1>3, Zenon

LEMMA SendsAreReady ==
  ASSUME StartInv, Next, ~ReceiverSends
  PROVE  sent'[Receiver] = sent[Receiver] /\ (aborted' \notin Failures \/ EarlyFailure)
<1> USE TaskMembers
<1> DEFINE Goal == /\ sent'[Receiver] = sent[Receiver]
                   /\ aborted' \notin Failures \/ EarlyFailure
<1>0. /\ TypeOK /\ Creating /\ Complete /\ Ordered /\ MissingTask
      /\ sent \in [Threads -> Nat] /\ aborted = NULL
      /\ NULL \notin Failures /\ Tasks \cap Failures = {}
  BY NullAssumption, Zenon DEF StartInv, BasicInv, TypeOK, Next, ThreadStep, Running
<1>1. ASSUME UNCHANGED <<sent, aborted>> PROVE Goal
  BY <1>0, <1>1, Zenon
<1>2. ASSUME NEW p \in Threads, NEW t \in Tasks, NEW k, SendMsgToTask(p, t, k), Ready(t),
             p # Receiver
      PROVE  Goal
  BY <1>0, <1>2, ReadySend, Zenon
<1>3. ASSUME NEW t \in Tasks, TaskStep(t) PROVE Goal
  <2>1. CASE ReceiveNothing(t)
    BY <1>0, <2>1, Zenon DEF ReceiveNothing
  <2>2. CASE ~ReceiveNothing(t)
    BY <1>1, <1>3, <2>2, Zenon
    DEF TaskStep, MarkTaskReady, ReceiveWork, HandlerDone, TerminateTask,
       ReceiveMsg
  <2> QED
    BY <2>1, <2>2, Zenon
<1>4. ASSUME OwnStep PROVE Goal
  <2>1. CASE HandleActivate
    <3>1. Ready(Sctp)
      BY <1>0, <2>1, BeforeReady, PeerAssumption, Zenon DEF HandleActivate, At
    <3> QED
      BY <1>2, <2>1, <3>1, Zenon DEF HandleActivate
  <2>2. CASE TerminateLog
    <3>1. Ready(SharedLog)
      BY <1>0, <2>2, BeforeReady, PeerAssumption, Zenon DEF TerminateLog, At
    <3> QED
      BY <1>2, <2>2, <3>1, Zenon DEF TerminateLog
  <2>3. CASE ~HandleActivate /\ ~TerminateLog
    BY <1>1, <1>4, <2>3, Zenon
    DEF OwnStep, ReceiveActivate, ReceiveSctpInit, ReceiveUdpInit,
       ReceiveTerminateLog, TerminateSharedLog, ReceiveMsg
  <2> QED
    BY <2>1, <2>2, <2>3, Zenon
<1>5. ASSUME MainStep PROVE Goal
  <2>1. CASE CreateTask \/ WaitTasksEnd
    BY <1>1, <2>1, Zenon DEF CreateTask, WaitTasksEnd
  <2>2. CASE SendInitUdp
    <3>1. Starting /\ pc[Main] = "udp_init" /\ PreviousReady
      BY <2>2, Zenon DEF SendInitUdp, At, Starting
    <3>2. PICK i, j \in 1 .. Len(InitOrder) : InitOrder[i] = Udp /\ InitOrder[j] = Sm /\ i < j
      BY PeerAssumption, Zenon DEF Before
    <3>3. /\ next \in Nat \ {0} /\ Len(InitOrder) \in Nat /\ next > 1
          /\ next <= Len(InitOrder) + 1 /\ InitOrder[next - 1] = Sm
      BY <1>0, <3>1, OrderMembers, Zenon DEF TypeOK, Creating
    <3>4. next - 1 \in 1 .. Len(InitOrder)
      BY <3>3
    <3>5. j = next - 1
      BY <3>2, <3>3, <3>4, InitIndex, Zenon
    <3>6. i < next
      BY <3>2, <3>3, <3>5
    <3>7. Ready(Udp)
      BY <1>0, <3>1, <3>2, <3>6, PreviousReadyAll, Zenon
    <3> QED
      BY <1>2, <2>2, <3>7, Zenon DEF SendInitUdp
  <2>3. CASE Activate
    <3>1. Ready(M2ap)
      BY <1>0, <2>3, AllReady, RoleMembers, Zenon
    <3> QED
      BY <1>2, <2>3, <3>1, Zenon DEF Activate
  <2>4. CASE SendBroadcastMessage
    <3>1. ThreadIds[next] \in Tasks
      BY <1>0, <2>4, OrderMembers, Zenon DEF SendBroadcastMessage, TypeOK
    <3>2. CASE task_state[ThreadIds[next]] = "READY"
      BY <1>2, <2>4, <3>1, <3>2, Zenon DEF SendBroadcastMessage, Ready
    <3>3. CASE task_state[ThreadIds[next]] # "READY"
      BY <1>1, <2>4, <3>3, Zenon DEF SendBroadcastMessage
    <3> QED
      BY <3>2, <3>3, Zenon
  <2> QED
    BY <1>5, <2>1, <2>2, <2>3, <2>4, Zenon DEF MainStep
<1>6. ASSUME Stimulus PROVE Goal
  <2>1. ASSUME NEW t \in TimerUsers, TimerSignal(t) PROVE Goal
    <3>1. t \in Created
      BY <2>1, PeerMembers, Zenon
    <3>2. Ready(t)
      BY <1>0, <2>1, <3>1, Zenon DEF TimerSignal, At, Complete, Starting
    <3> QED
      BY <1>2, <2>1, <3>1, <3>2, Zenon DEF TimerSignal
  <2>2. ASSUME NEW t \in Tasks, NEW u \in Peers[t], HandlerSends(t, u) PROVE Goal
    BY <1>0, <2>2, HandlerSendFate, Zenon
  <2>3. CASE UdpReceives
    <3>1. Ready(Sm)
      BY <2>3, Zenon DEF UdpReceives, StartInv, Silent
    <3> QED
      BY <1>2, <2>3, <3>1, Zenon DEF UdpReceives
  <2>4. CASE ReceiverCancelled \/ Sigint \/ Sigusr1
    BY <1>1, <2>4, Zenon DEF ReceiverCancelled, Sigint, Sigusr1
  <2> QED
    BY <1>6, <2>1, <2>2, <2>3, <2>4, Zenon DEF Stimulus
<1>7. ASSUME NEW p \in Threads, Signal(p) PROVE Goal
  BY <1>1, <1>7, Zenon DEF Signal
<1> QED
  BY <1>3, <1>4, <1>5, <1>6, <1>7, Zenon DEF Next, ThreadStep

LEMMA AssertionStep ==
  ASSUME StartInv, Next
  PROVE  FailedSends'
<1>0. /\ sent \in [Threads -> Nat] /\ Receiver \in Threads /\ aborted = NULL
      /\ FailedSends /\ MissingTask
  BY Zenon DEF StartInv, BasicInv, TypeOK, Next, ThreadStep, Running
<1>1. sent[Receiver] = 0
  <2>1. ~(sent[Receiver] > 0)
    BY <1>0, FailureFacts, TaskMembers, Zenon DEF FailedSends
  <2> QED
    BY <1>0, <2>1
<1>2. CASE ReceiverSends
  <2>1. aborted' = <<Receiver, S1ap>>
    BY <1>0, <1>2, Zenon DEF ReceiverSends, SendMsgToTask, MissingTask
  <2> QED
    BY <2>1, Zenon DEF FailedSends
<1>3. CASE ~ReceiverSends
  <2>1. /\ sent'[Receiver] = sent[Receiver]
        /\ aborted' \notin Failures \/ EarlyFailure
    BY <1>3, SendsAreReady, Zenon
  <2>2. ~(sent'[Receiver] > 0)
    BY <1>1, <2>1
  <2> QED
    BY <2>1, <2>2, Zenon DEF FailedSends, EarlyFailure
<1> QED
  BY <1>2, <1>3, Zenon

LEMMA StartInit == Init => StartInv
<1> SUFFICES ASSUME Init PROVE StartInv
  BY Zenon
<1> USE TaskMembers
<1>1. BasicInv
  BY InitType DEF BasicInv, Init, LogRuns
<1>2. /\ \A t \in Tasks : ~Ready(t) /\ pc[t] = "none" /\ message_queue[t] = <<>>
                         /\ task_event_fd[t] = 0
      /\ pc[Main] = "create" /\ pc[Receiver] = "none" /\ next = 1 /\ ~udp_socket
      /\ \A p \in Threads : signalling[p] = NULL
      /\ task_state[S1ap] = "NOT_CONFIGURED"
  BY Zenon DEF Init, Ready
<1>3. MissingTask /\ Complete /\ Silent
  BY <1>2, Zenon DEF MissingTask, Complete, Silent, Starting
<1>4. Creating
  BY <1>2, InitIndex, OrderMembers DEF Creating
<1>5. Ordered
  BY <1>2, InitIndex, Zenon DEF Ordered
<1>6. FailedSends
  <2>1. sent[Receiver] = 0 /\ aborted = NULL
    BY Zenon DEF Init
  <2>2. ~(sent[Receiver] > 0)
    BY <2>1
  <2> QED
    BY <2>1, <2>2, NullAssumption, Zenon DEF FailedSends
<1>7. EarlyWork
  <2>1. \A t \in Tasks : Len(message_queue[t]) = 0 /\ pc[t] # "work"
    BY <1>2
  <2>2. \A t \in Tasks : ~WorkQueued(t)
    BY <2>1 DEF WorkQueued
  <2> QED
    BY <2>1, <2>2, Zenon DEF EarlyWork
<1> QED
  BY <1>1, <1>3, <1>4, <1>5, <1>6, <1>7, Zenon DEF StartInv

LEMMA StartStep == StartInv /\ [Next]_vars => StartInv'
<1>1. ASSUME StartInv, Next PROVE StartInv'
  <2>1. TypeOK /\ LogRuns /\ MissingTask /\ Creating /\ Complete /\ Ordered
    BY <1>1, Zenon DEF StartInv, BasicInv
  <2>2. BasicInv'
    BY <1>1, <2>1, StepType, LogStep, Zenon DEF BasicInv
  <2>3. MissingTask' /\ Creating' /\ Complete' /\ Ordered'
    BY <1>1, <2>1, MissingStep, CreatingStep, CompleteStep, OrderedStep, Zenon
  <2> QED
    BY <1>1, <2>2, <2>3, SilentStep, EarlyWorkStep, AssertionStep, Zenon DEF StartInv
<1>2. ASSUME StartInv, UNCHANGED vars PROVE StartInv'
  <2>1. BasicInv'
    BY <1>2, StepType, Zenon DEF StartInv, BasicInv, LogRuns, vars
  <2>2. MissingTask' /\ Creating' /\ Complete' /\ Ordered' /\ Silent'
    BY <1>2, ZenonT(30)
    DEF StartInv, MissingTask, Creating, Complete, Ordered, Silent, Starting, Ready, vars
  <2>3. EarlyWork' /\ FailedSends'
    BY <1>2, ZenonT(30)
    DEF StartInv, EarlyWork, WorkQueued, FailedSends, Starting, Ready, vars
  <2> QED
    BY <2>1, <2>2, <2>3, Zenon DEF StartInv
<1> QED
  BY <1>1, <1>2, Zenon

(***************************************************************************)
(* Every variable keeps its type; the exit_count of TASK_SHARED_TS_LOG     *)
(* does not pass zero.                                                     *)
(***************************************************************************)
THEOREM TypeCorrect == Spec => []TypeOK
<1>1. StartInv => TypeOK
  BY Zenon DEF StartInv, BasicInv
<1> QED
  BY <1>1, StartInit, StartStep, PTL DEF Spec

(***************************************************************************)
(* The send assertion fails only for the first indication of the SCTP      *)
(* receiver thread and, while main starts the tasks, for a message that a  *)
(* datagram makes TASK_SM send to TASK_MCE_APP.  This holds for any tasks, *)
(* in any order that has TASK_MCE_APP last, and for any peers of the tasks *)
(* but TASK_UDP and TASK_SM, also peers that main creates later.           *)
(***************************************************************************)
THEOREM SendAssertion == Spec => []FailedSends
<1>1. StartInv => FailedSends
  BY Zenon DEF StartInv
<1> QED
  BY <1>1, StartInit, StartStep, PTL DEF Spec
-----------------------------------------------------------------------------
(***************************************************************************)
(* The order of messages: what is queued or was received was numbered when *)
(* its origin sent it.                                                     *)
(***************************************************************************)
Numbered ==
  /\ \A t \in Tasks, p \in Threads : lastReceived[t][p] <= sent[p]
  /\ \A t \in Tasks : \A j \in 1 .. Len(message_queue[t]) :
       message_queue[t][j].number <= sent[message_queue[t][j].origin]

OrderInv == InOrder /\ Numbered

LEMMA QueueTypes ==
  ASSUME TypeOK, NEW t \in Tasks
  PROVE  /\ message_queue[t] \in Seq(Messages)
         /\ \A j \in 1 .. Len(message_queue[t]) :
              /\ message_queue[t][j].number \in Nat
              /\ message_queue[t][j].origin \in Threads
         /\ \A p \in Threads : lastReceived[t][p] \in Nat /\ sent[p] \in Nat
<1>1. message_queue[t] \in Seq(Messages)
  BY Zenon DEF TypeOK
<1>2. \A j \in 1 .. Len(message_queue[t]) : message_queue[t][j] \in Messages
  BY <1>1
<1>3. \A m \in Messages : m.number \in Nat /\ m.origin \in Threads
  BY Zenon DEF Messages
<1>4. \A p \in Threads : lastReceived[t][p] \in Nat /\ sent[p] \in Nat
  BY Zenon DEF TypeOK
<1> QED
  BY <1>1, <1>2, <1>3, <1>4, Zenon

LEMMA OrderSame ==
  ASSUME TypeOK, OrderInv, UNCHANGED <<message_queue, lastReceived>>,
         \A p \in Threads : sent'[p] \in Nat /\ sent[p] <= sent'[p]
  PROVE  OrderInv'
<1>1. InOrder'
  BY Zenon DEF OrderInv, InOrder
<1>2. ASSUME NEW t \in Tasks, NEW p \in Threads PROVE lastReceived'[t][p] <= sent'[p]
  <2> DEFINE l == lastReceived[t][p]
  <2>1. l \in Nat /\ sent[p] \in Nat
    BY QueueTypes, Zenon
  <2>2. l <= sent[p]
    BY Zenon DEF OrderInv, Numbered
  <2>3. lastReceived'[t][p] = l
    BY Zenon
  <2> HIDE DEF l
  <2>4. l <= sent'[p]
    BY <2>1, <2>2
  <2> QED
    BY <2>3, <2>4, Zenon
<1>3. ASSUME NEW t \in Tasks, NEW j \in 1 .. Len(message_queue'[t])
      PROVE  message_queue'[t][j].number <= sent'[message_queue'[t][j].origin]
  BY QueueTypes, SMTT(30) DEF OrderInv, Numbered
<1> QED
  BY <1>1, <1>2, <1>3, Zenon DEF OrderInv, Numbered

LEMMA OrderAppend ==
  ASSUME TypeOK, OrderInv, NEW t \in Tasks, NEW p \in Threads, NEW k \in Kinds,
         sent' = [sent EXCEPT ![p] = @ + 1], lastReceived' = lastReceived,
         message_queue' = [message_queue EXCEPT ![t] =
           Append(@, [number |-> sent[p] + 1, origin |-> p, kind |-> k])]
  PROVE  OrderInv'
<1> DEFINE m == [number |-> sent[p] + 1, origin |-> p, kind |-> k]
           q == message_queue[t]
           n == Len(q)
<1>0. /\ sent \in [Threads -> Nat] /\ message_queue \in [Tasks -> Seq(Messages)]
      /\ sent[p] \in Nat /\ sent'[p] = sent[p] + 1
      /\ \A r \in Threads : r # p => sent'[r] = sent[r]
  BY Zenon DEF TypeOK
<1>1. /\ \A u \in Tasks : u # t => message_queue'[u] = message_queue[u]
      /\ message_queue'[t] = Append(q, m)
  BY <1>0, Zenon
<1>2. m.number = sent[p] + 1 /\ m.origin = p
  BY Zenon
<1>3. q \in Seq(Messages) /\ n \in Nat
  BY <1>0
<1>4. /\ Len(message_queue'[t]) = n + 1
      /\ message_queue'[t][n + 1] = m
      /\ \A j \in 1 .. n : message_queue'[t][j] = q[j]
  BY SMTT(30), <1>1, <1>3
<1>5. \A r \in Threads : sent'[r] \in Nat /\ sent[r] <= sent'[r]
  BY <1>0
<1> HIDE DEF m
<1>6. ASSUME NEW u \in Tasks, NEW j \in 1 .. Len(message_queue'[u])
      PROVE  /\ message_queue'[u][j].number <= sent'[message_queue'[u][j].origin]
             /\ lastReceived'[u][message_queue'[u][j].origin] < message_queue'[u][j].number
             /\ \A i \in 1 .. (j - 1) :
                  message_queue'[u][i].origin = message_queue'[u][j].origin =>
                    message_queue'[u][i].number < message_queue'[u][j].number
  <2>1. CASE u # t
    <3>1. message_queue'[u] = message_queue[u]
      BY <1>1, <2>1, Zenon
    <3>2. message_queue'[u][j].number <= sent'[message_queue'[u][j].origin]
      <4>1. message_queue[u][j].number <= sent[message_queue[u][j].origin]
        BY <3>1, Zenon DEF OrderInv, Numbered
      <4>2. /\ message_queue[u][j].number \in Nat /\ message_queue[u][j].origin \in Threads
            /\ \A r \in Threads : sent[r] \in Nat
        BY <3>1, QueueTypes, Zenon
      <4> DEFINE a == message_queue[u][j].number
                 o == message_queue[u][j].origin
      <4>3. a <= sent[o] /\ a \in Nat /\ o \in Threads /\ sent[o] \in Nat
        BY <4>1, <4>2, Zenon
      <4> HIDE DEF a, o
      <4>4. a <= sent'[o]
        BY <1>5, <4>3
      <4> QED
        BY <3>1, <4>4, Zenon DEF a, o
    <3>3. /\ lastReceived[u][message_queue[u][j].origin] < message_queue[u][j].number
          /\ \A i \in 1 .. (j - 1) :
               message_queue[u][i].origin = message_queue[u][j].origin =>
                 message_queue[u][i].number < message_queue[u][j].number
      BY <3>1, Zenon DEF OrderInv, InOrder
    <3> QED
      BY <3>1, <3>2, <3>3, Zenon
  <2>2. CASE u = t /\ j \in 1 .. n
    <3>1. message_queue'[u][j] = q[j] /\ \A i \in 1 .. (j - 1) : message_queue'[u][i] = q[i]
      BY <1>3, <1>4, <2>2, SMTT(30)
    <3>2. message_queue'[u][j].number <= sent'[message_queue'[u][j].origin]
      <4> DEFINE a == q[j].number
                 o == q[j].origin
      <4>1. a \in Nat /\ o \in Threads /\ \A r \in Threads : sent[r] \in Nat
        BY <2>2, QueueTypes, Zenon
      <4>2. a <= sent[o]
        BY <2>2, Zenon DEF OrderInv, Numbered
      <4> HIDE DEF a, o
      <4>3. a <= sent'[o]
        BY <1>5, <4>1, <4>2
      <4> QED
        BY <3>1, <4>3, Zenon DEF a, o
    <3>3. lastReceived'[u][message_queue'[u][j].origin] < message_queue'[u][j].number
      BY <2>2, <3>1, Zenon DEF OrderInv, InOrder
    <3>4. \A i \in 1 .. (j - 1) : q[i].origin = q[j].origin => q[i].number < q[j].number
      BY <2>2, Zenon DEF OrderInv, InOrder
    <3> QED
      BY <3>1, <3>2, <3>3, <3>4, Zenon
  <2>3. CASE u = t /\ j = n + 1
    <3>1. message_queue'[u][j] = m /\ \A i \in 1 .. (j - 1) : message_queue'[u][i] = q[i]
      BY <1>3, <1>4, <2>3, SMTT(30)
    <3>2. message_queue'[u][j].number <= sent'[message_queue'[u][j].origin]
      <4>1. message_queue'[u][j].number = sent'[p] /\ message_queue'[u][j].origin = p
        BY <1>0, <1>2, <3>1, Zenon
      <4>2. sent'[p] <= sent'[p]
        BY <1>5, SMTT(30)
      <4> QED
        BY <4>1, <4>2, Zenon
    <3>3. lastReceived'[u][message_queue'[u][j].origin] < message_queue'[u][j].number
      <4> DEFINE l == lastReceived[t][p]
      <4>1. l \in Nat /\ l <= sent[p]
        BY QueueTypes, Zenon DEF OrderInv, Numbered
      <4>2. lastReceived'[u][message_queue'[u][j].origin] = l
        BY <1>2, <2>3, <3>1, Zenon
      <4>3. message_queue'[u][j].number = sent[p] + 1
        BY <1>2, <3>1, Zenon
      <4> HIDE DEF l
      <4>4. l < sent[p] + 1
        BY <1>0, <4>1, SMTT(30)
      <4> QED
        BY <4>2, <4>3, <4>4, Zenon
    <3>4. ASSUME NEW i \in 1 .. n, q[i].origin = p PROVE q[i].number < m.number
      <4> DEFINE a == q[i].number
      <4>1. a \in Nat /\ a <= sent[p]
        BY <3>4, QueueTypes, Zenon DEF OrderInv, Numbered
      <4> HIDE DEF a
      <4>2. a < sent[p] + 1
        BY <1>0, <4>1, SMTT(30)
      <4> QED
        BY <1>2, <4>2, Zenon DEF a
    <3>5. ASSUME NEW i \in 1 .. (j - 1),
                 message_queue'[u][i].origin = message_queue'[u][j].origin
          PROVE  message_queue'[u][i].number < message_queue'[u][j].number
      <4>1. i \in 1 .. n
        BY <1>3, <2>3
      <4>2. message_queue'[u][i] = q[i]
        BY <3>1, Zenon
      <4>3. q[i].origin = p
        BY <1>2, <3>1, <3>5, <4>2, Zenon
      <4>4. q[i].number < m.number
        BY <3>4, <4>1, <4>3, Zenon
      <4> QED
        BY <3>1, <4>2, <4>4, Zenon
    <3> QED
      BY <3>2, <3>3, <3>5, Zenon
  <2>4. u = t => j \in 1 .. n \/ j = n + 1
    BY <1>3, <1>4, SMTT(30)
  <2> QED
    BY <2>1, <2>2, <2>3, <2>4, Zenon
<1>7. ASSUME NEW u \in Tasks, NEW r \in Threads PROVE lastReceived'[u][r] <= sent'[r]
  <2> DEFINE l == lastReceived[u][r]
  <2>1. l \in Nat /\ sent[r] \in Nat
    BY QueueTypes, Zenon
  <2>2. l <= sent[r]
    BY Zenon DEF OrderInv, Numbered
  <2>3. lastReceived'[u][r] = l
    BY Zenon
  <2> HIDE DEF l
  <2>4. l <= sent'[r]
    BY <1>5, <2>1, <2>2
  <2> QED
    BY <2>3, <2>4, Zenon
<1> QED
  BY <1>6, <1>7, Zenon DEF OrderInv, InOrder, Numbered

LEMMA OrderTail ==
  ASSUME TypeOK, OrderInv, NEW t \in Tasks, message_queue[t] # <<>>, sent' = sent,
         message_queue' = [message_queue EXCEPT ![t] = Tail(@)],
         lastReceived' = [lastReceived EXCEPT ![t][Head(message_queue[t]).origin] =
                                               Head(message_queue[t]).number]
  PROVE  OrderInv'
<1> DEFINE q == message_queue[t]
           n == Len(q)
           m == Head(q)
<1>0. message_queue \in [Tasks -> Seq(Messages)] /\ lastReceived \in [Tasks -> [Threads -> Nat]]
  BY Zenon DEF TypeOK
<1>1. q \in Seq(Messages) /\ n \in Nat /\ n > 0 /\ m = q[1]
  BY <1>0
<1>2. m.origin \in Threads /\ m.number \in Nat
  BY <1>1, QueueTypes
<1>3. /\ \A u \in Tasks : u # t => message_queue'[u] = message_queue[u]
      /\ message_queue'[t] = Tail(q)
  BY <1>0, Zenon
<1>4. /\ Len(message_queue'[t]) = n - 1
      /\ \A j \in 1 .. (n - 1) : message_queue'[t][j] = q[j + 1]
  <2> HIDE DEF q
  <2>1. Len(Tail(q)) = n - 1 /\ \A j \in 1 .. (n - 1) : Tail(q)[j] = q[j + 1]
    BY <1>1
  <2> QED
    BY <1>3, <2>1, Zenon
<1>5. /\ \A u \in Tasks : u # t => lastReceived'[u] = lastReceived[u]
      /\ lastReceived'[t][m.origin] = m.number
      /\ \A r \in Threads : r # m.origin => lastReceived'[t][r] = lastReceived[t][r]
  <2>1. lastReceived' = [lastReceived EXCEPT ![t][m.origin] = m.number]
    BY Zenon
  <2> HIDE DEF m
  <2> QED
    BY <1>0, <1>2, <2>1
<1>6. m.number <= sent[m.origin]
  BY <1>1 DEF OrderInv, Numbered
<1>7. ASSUME NEW u \in Tasks, NEW r \in Threads PROVE lastReceived'[u][r] <= sent'[r]
  BY <1>5, <1>6, Zenon DEF OrderInv, Numbered
<1>8. ASSUME NEW u \in Tasks, NEW j \in 1 .. Len(message_queue'[u])
      PROVE  /\ message_queue'[u][j].number <= sent'[message_queue'[u][j].origin]
             /\ lastReceived'[u][message_queue'[u][j].origin] < message_queue'[u][j].number
             /\ \A i \in 1 .. (j - 1) :
                  message_queue'[u][i].origin = message_queue'[u][j].origin =>
                    message_queue'[u][i].number < message_queue'[u][j].number
  <2>1. CASE u # t
    BY <1>3, <1>5, <2>1, ZenonT(30) DEF OrderInv, InOrder, Numbered
  <2>2. CASE u = t
    <3>1. j \in 1 .. (n - 1) /\ j + 1 \in 1 .. n
      BY <1>1, <1>4, <2>2
    <3>2. message_queue'[u][j] = q[j + 1]
          /\ \A i \in 1 .. (j - 1) : message_queue'[u][i] = q[i + 1]
      BY <1>1, <1>4, <2>2, <3>1, SMTT(30)
    <3>3. /\ q[j + 1].number <= sent[q[j + 1].origin]
          /\ lastReceived[t][q[j + 1].origin] < q[j + 1].number
          /\ \A i \in 1 .. ((j + 1) - 1) :
               q[i].origin = q[j + 1].origin => q[i].number < q[j + 1].number
      BY <3>1, Zenon DEF OrderInv, InOrder, Numbered
    <3>4. m.origin = q[j + 1].origin => m.number < q[j + 1].number
      BY <1>1, <3>1, <3>3, SMTT(30)
    <3>5. q[j + 1].origin \in Threads
      BY <3>1, QueueTypes, Zenon
    <3>6. lastReceived'[u][message_queue'[u][j].origin] < message_queue'[u][j].number
      BY <1>5, <2>2, <3>2, <3>3, <3>4, <3>5
    <3>7. \A i \in 1 .. (j - 1) : i + 1 \in 1 .. ((j + 1) - 1)
      BY <3>1, SMTT(30)
    <3>8. \A i \in 1 .. (j - 1) :
            q[i + 1].origin = q[j + 1].origin => q[i + 1].number < q[j + 1].number
      BY <3>3, <3>7, Zenon
    <3> QED
      BY <3>2, <3>3, <3>6, <3>8, Zenon
  <2> QED
    BY <2>1, <2>2, Zenon
<1> QED
  BY <1>7, <1>8, Zenon DEF OrderInv, InOrder, Numbered

LEMMA OrderStep ==
  ASSUME TypeOK, OrderInv, [Next]_vars
  PROVE  OrderInv'
<1>0. sent \in [Threads -> Nat]
  BY Zenon DEF TypeOK
<1>1. ASSUME UNCHANGED <<message_queue, lastReceived, sent>> PROVE OrderInv'
  BY <1>0, <1>1, OrderSame, SMTT(30)
<1>2. ASSUME SignalStep \/ WakeStep \/ QuietStep PROVE OrderInv'
  BY <1>1, <1>2, Zenon DEF SignalStep, Signal, WakeStep, ReceiveNothing, QuietStep
<1>3. ASSUME NEW t \in Tasks, NEW k \in Kinds, ReceiveMsg(t, k) PROVE OrderInv'
  BY <1>3, OrderTail, Zenon DEF ReceiveMsg
<1>4. ASSUME NEW p \in Threads, NEW t \in Tasks, NEW k \in Kinds, SendMsgToTask(p, t, k)
      PROVE  OrderInv'
  <2>1. lastReceived' = lastReceived /\ sent' = [sent EXCEPT ![p] = @ + 1]
    BY <1>4, Zenon DEF SendMsgToTask
  <2>2. CASE message_queue' = message_queue
    <3>1. \A r \in Threads : sent'[r] \in Nat /\ sent[r] <= sent'[r]
      BY <1>0, <2>1
    <3> QED
      BY <2>1, <2>2, <3>1, OrderSame, Zenon
  <2>3. CASE message_queue' # message_queue
    <3>1. message_queue' = [message_queue EXCEPT ![t] =
            Append(@, [number |-> sent[p] + 1, origin |-> p, kind |-> k])]
      BY <1>4, <2>3, Zenon DEF SendMsgToTask
    <3> QED
      BY <2>1, <3>1, OrderAppend, Zenon
  <2> QED
    BY <2>2, <2>3, Zenon
<1> QED
  BY <1>2, <1>3, <1>4, StepKinds, Zenon DEF SendStep, ReceiveStep

LEMMA OrderInit == Init => OrderInv
<1> SUFFICES ASSUME Init PROVE OrderInv
  BY Zenon
<1>1. \A t \in Tasks : Len(message_queue[t]) = 0
  BY Zenon DEF Init
<1>2. \A t \in Tasks, p \in Threads : lastReceived[t][p] = 0 /\ sent[p] = 0
  BY Zenon DEF Init
<1> QED
  <2>1. ASSUME NEW t \in Tasks, NEW j \in 1 .. Len(message_queue[t]) PROVE FALSE
    BY <1>1
  <2>2. ASSUME NEW t \in Tasks, NEW p \in Threads PROVE lastReceived[t][p] <= sent[p]
    BY <1>2
  <2>3. InOrder
    BY <2>1, Zenon DEF InOrder
  <2>4. Numbered
    BY <2>1, <2>2, Zenon DEF Numbered
  <2> QED
    BY <2>3, <2>4, Zenon DEF OrderInv

(***************************************************************************)
(* Messages of one thread to one task are received in the order sent.      *)
(***************************************************************************)
THEOREM OrderCorrect == Spec => []InOrder
<1>1. OrderInv => InOrder
  BY Zenon DEF OrderInv
<1> QED
  BY <1>1, TypeCorrect, OrderInit, OrderStep, PTL DEF Spec
-----------------------------------------------------------------------------
(***************************************************************************)
(* The end of the log.  TASK_SHARED_TS_LOG gets one TERMINATE_MESSAGE of   *)
(* main, when MainDone becomes true, and one of TASK_LOG, when that exits. *)
(***************************************************************************)
Terms == {i \in 1 .. Len(message_queue[SharedLog]) :
            message_queue[SharedLog][i].kind = "terminate"}

LogOpen ==
  /\ pc[Log] # "exited" \/ ~MainDone =>
       /\ pc[SharedLog] # "exited"
       /\ \A i, j \in Terms : i = j
       /\ Terms # {} => exit_count = 2
  /\ pc[Log] # "exited" /\ ~MainDone => Terms = {} /\ exit_count = 2

LEMMA TermsSend ==
  ASSUME TypeOK, NEW p \in Threads, NEW t \in Tasks, NEW k \in Kinds,
         SendMsgToTask(p, t, k)
  PROVE  /\ k # "terminate" \/ t # SharedLog => Terms' = Terms
         /\ \A i, j \in Terms' \ Terms : i = j
         /\ Terms \subseteq Terms'
<1> DEFINE q == message_queue[SharedLog]
           m == [number |-> sent[p] + 1, origin |-> p, kind |-> k]
<1>0. SharedLog \in Tasks /\ q \in Seq(Messages) /\ m \in Messages /\ m.kind = k
  <2>1. SharedLog \in Tasks
    BY TaskMembers, Zenon
  <2>2. sent \in [Threads -> Nat]
    BY Zenon DEF TypeOK
  <2>3. m \in Messages
    <3>1. sent[p] + 1 \in Nat
      BY <2>2
    <3> QED BY <3>1, Zenon DEF Messages
  <2>4. message_queue[SharedLog] \in Seq(Messages)
    BY <2>1, Zenon DEF TypeOK
  <2> QED BY <2>1, <2>3, <2>4, Zenon
<1>1. CASE message_queue'[SharedLog] = q
  BY <1>1, Zenon DEF Terms
<1>2. CASE message_queue'[SharedLog] # q
  <2>1. message_queue' = [message_queue EXCEPT ![t] = Append(@, m)]
    BY <1>2, Zenon DEF SendMsgToTask
  <2>2. t = SharedLog /\ message_queue'[SharedLog] = Append(q, m)
    BY <1>0, <1>2, <2>1, Zenon DEF TypeOK
  <2> HIDE DEF q, m
  <2>3. /\ Len(Append(q, m)) = Len(q) + 1 /\ Append(q, m)[Len(q) + 1] = m
        /\ \A i \in 1 .. Len(q) : Append(q, m)[i] = q[i]
    BY <1>0
  <2>4. Terms = {i \in 1 .. Len(q) : q[i].kind = "terminate"}
    BY Zenon DEF Terms, q
  <2>5. Terms' = {i \in 1 .. (Len(q) + 1) : Append(q, m)[i].kind = "terminate"}
    BY <2>2, <2>3, Zenon DEF Terms
  <2>6. Len(q) \in Nat
    BY <1>0
  <2>7. \A i \in 1 .. (Len(q) + 1) : i \in 1 .. Len(q) \/ i = Len(q) + 1
    BY <2>6
  <2>8. \A i \in 1 .. Len(q) : i \in 1 .. (Len(q) + 1)
    BY <2>6
  <2> HIDE DEF Terms
  <2>9. \A i \in Terms' \ Terms : i = Len(q) + 1 /\ k = "terminate"
    BY <1>0, <2>3, <2>4, <2>5, <2>7, Zenon
  <2>10. Terms \subseteq Terms'
    BY <2>3, <2>4, <2>5, <2>8, Zenon
  <2> QED BY <2>2, <2>9, <2>10, Zenon
<1> QED BY <1>1, <1>2, Zenon

LEMMA TermsReceive ==
  ASSUME TypeOK, NEW t \in Tasks, NEW k \in Kinds, ReceiveMsg(t, k)
  PROVE  /\ Terms' = Terms \/ \A i \in Terms' : i \in Nat \ {0} /\ i + 1 \in Terms
         /\ t = SharedLog => /\ k = "terminate" => 1 \in Terms
                             /\ \A i \in Terms' : i \in Nat \ {0} /\ i + 1 \in Terms
<1> DEFINE q == message_queue[SharedLog]
<1>0. SharedLog \in Tasks /\ q \in Seq(Messages)
  BY TaskMembers, Zenon DEF TypeOK
<1>1. CASE t # SharedLog
  <2>1. message_queue'[SharedLog] = q
    BY <1>0, <1>1, Zenon DEF ReceiveMsg, TypeOK
  <2> QED BY <1>1, <2>1, Zenon DEF Terms
<1>2. CASE t = SharedLog
  <2>1. /\ message_queue'[SharedLog] = Tail(q) /\ q # <<>> /\ Head(q).kind = k
    BY <1>0, <1>2, Zenon DEF ReceiveMsg, TypeOK
  <2>2. Terms = {i \in 1 .. Len(q) : q[i].kind = "terminate"}
    BY Zenon DEF Terms
  <2>3. Terms' = {i \in 1 .. Len(Tail(q)) : Tail(q)[i].kind = "terminate"}
    BY <2>1, Zenon DEF Terms
  <2> HIDE DEF q, Terms
  <2>4. /\ Len(q) \in Nat \ {0} /\ Len(Tail(q)) = Len(q) - 1 /\ Head(q) = q[1]
        /\ \A i \in 1 .. Len(Tail(q)) : Tail(q)[i] = q[i + 1]
    BY <1>0, <2>1
  <2>5. k = "terminate" => 1 \in Terms
    BY <2>1, <2>2, <2>4, SMTT(30)
  <2>6. \A i \in Terms' : i \in Nat \ {0} /\ i + 1 \in Terms
    BY <2>2, <2>3, <2>4
  <2> QED BY <2>5, <2>6, Zenon
<1> QED BY <1>1, <1>2, Zenon

(* A step that brings no TERMINATE_MESSAGE to TASK_SHARED_TS_LOG and takes *)
(* none that counts.                                                       *)
LEMMA LogIdle ==
  ASSUME LogOpen, exit_count' = exit_count,
         Terms' = Terms \/ \A i \in Terms' : i \in Nat \ {0} /\ i + 1 \in Terms,
         pc[Log] = "exited" => pc'[Log] = "exited",
         pc'[SharedLog] = "exited" => pc[SharedLog] = "exited",
         MainDone => MainDone'
  PROVE  LogOpen'
<1>1. CASE Terms' = Terms
  BY <1>1, Zenon DEF LogOpen
<1>2. CASE \A i \in Terms' : i \in Nat \ {0} /\ i + 1 \in Terms
  <2>1. Terms = {} => Terms' = {}
    BY <1>2, Zenon
  <2>2. ASSUME \A i, j \in Terms : i = j, NEW i \in Terms', NEW j \in Terms' PROVE i = j
    <3>1. i + 1 = j + 1 /\ i \in Nat /\ j \in Nat
      BY <1>2, <2>2, Zenon
    <3> QED BY <3>1
  <2> QED BY <2>1, <2>2, Zenon DEF LogOpen
<1> QED BY <1>1, <1>2, Zenon

LEMMA LogsDiffer == Log # SharedLog
<1>1. PICK i, j \in 1 .. Len(InitOrder) :
        InitOrder[i] = SharedLog /\ InitOrder[j] = Log /\ i < j
  BY PeerAssumption, Zenon DEF Before
<1>2. i # j
  BY <1>1, OrderMembers
<1> QED
  BY <1>1, <1>2, InitIndex, Zenon

LEMMA LogOpenStep ==
  ASSUME TypeOK, Creating, LogOpen, [Next]_vars
  PROVE  LogOpen'
<1> USE TaskMembers
<1>0. /\ pc \in [Threads -> Locations] /\ exit_count \in 0 .. 2 /\ next \in Nat \ {0}
      /\ {Main, Receiver, Log, SharedLog} \subseteq Threads
      /\ Main \notin Tasks /\ Receiver \notin Tasks /\ Main # Receiver
      /\ {Main, Receiver} \cap {Log, SharedLog} = {}
  <2>1. pc \in [Threads -> Locations] /\ exit_count \in 0 .. 2 /\ next \in Nat \ {0}
    BY Zenon DEF TypeOK
  <2>2. Main \notin Tasks /\ Receiver \notin Tasks /\ Main # Receiver
    BY TaskAssumption, Zenon
  <2> QED BY <2>1, <2>2, Zenon
<1>1. ASSUME message_queue' = message_queue PROVE Terms' = Terms
  BY <1>1, Zenon DEF Terms
<1>2. ASSUME pc'[Main] = pc[Main], next' = next PROVE MainDone => MainDone'
  BY <1>2, Zenon DEF MainDone
<1>3. ASSUME exit_count' = exit_count, pc' = pc, next' = next,
             Terms' = Terms \/ \A i \in Terms' : i \in Nat \ {0} /\ i + 1 \in Terms
      PROVE  LogOpen'
  BY <1>2, <1>3, LogIdle, Zenon
<1>4. ASSUME NEW t \in Tasks \cup {Receiver}, NEW l \in Locations, GoTo(t, l), next' = next,
             exit_count' = exit_count,
             t \in {Log, SharedLog} => pc[t] # "exited" /\ l # "exited",
             Terms' = Terms \/ \A i \in Terms' : i \in Nat \ {0} /\ i + 1 \in Terms
      PROVE  LogOpen'
  <2>1. /\ pc[Log] = "exited" => pc'[Log] = "exited"
        /\ pc'[SharedLog] = "exited" => pc[SharedLog] = "exited"
        /\ pc'[Main] = pc[Main]
    BY <1>0, <1>4, Zenon DEF GoTo
  <2> QED BY <1>2, <1>4, <2>1, LogIdle, Zenon
<1>5. ASSUME NEW t \in Tasks, TaskStep(t) PROVE LogOpen'
  <2>1. CASE MarkTaskReady(t) \/ HandlerDone(t)
    BY <1>1, <1>4, <2>1, Zenon DEF MarkTaskReady, HandlerDone, At, Locations
  <2>2. CASE ReceiveWork(t)
    <3>1. ReceiveMsg(t, "work") /\ "work" \in Kinds
      BY <2>2, Zenon DEF ReceiveWork, Kinds
    <3>2. next' = next /\ exit_count' = exit_count /\ pc[t] = "wait"
      BY <2>2, Zenon DEF ReceiveWork, ReceiveMsg, At
    <3>3. PICK l \in {"wait", "work"} : GoTo(t, l)
      BY <2>2, Zenon DEF ReceiveWork
    <3> QED BY <1>4, <3>1, <3>2, <3>3, TermsReceive, Zenon DEF Locations
  <2>3. CASE TerminateTask(t)
    <3>1. ReceiveMsg(t, "terminate") /\ "terminate" \in Kinds /\ t \notin {Log, SharedLog}
      BY <2>3, Zenon DEF TerminateTask, Kinds
    <3>2. next' = next /\ exit_count' = exit_count
      BY <2>3, Zenon DEF TerminateTask, ReceiveMsg
    <3>3. pc'[Log] = pc[Log] /\ pc'[SharedLog] = pc[SharedLog] /\ pc'[Main] = pc[Main]
      BY <1>0, <2>3, Zenon DEF TerminateTask
    <3> QED BY <1>2, <3>1, <3>2, <3>3, TermsReceive, LogIdle, Zenon
  <2>4. CASE ReceiveNothing(t)
    BY <1>1, <1>3, <2>4, Zenon DEF ReceiveNothing
  <2> QED
    BY <1>5, <2>1, <2>2, <2>3, <2>4, Zenon DEF TaskStep
<1>6. ASSUME NEW p \in Threads, NEW t \in Tasks, NEW k \in Kinds \ {"terminate"},
             SendMsgToTask(p, t, k)
      PROVE  Terms' = Terms /\ exit_count' = exit_count
  BY <1>6, TermsSend, Zenon DEF SendMsgToTask
<1>7. ASSUME OwnStep PROVE LogOpen'
  <2>1. CASE ReceiveActivate
    <3>1. ReceiveMsg(M2ap, "activate") /\ "activate" \in Kinds
      BY <2>1, Zenon DEF ReceiveActivate, Kinds
    <3> QED
      BY <1>4, <2>1, <3>1, TermsReceive, Zenon
      DEF ReceiveActivate, ReceiveMsg, At, Locations
  <2>2. CASE ReceiveTerminateLog
    <3>1. ReceiveMsg(Log, "terminate") /\ "terminate" \in Kinds
      BY <2>2, Zenon DEF ReceiveTerminateLog, Kinds
    <3> QED
      BY <1>4, <2>2, <3>1, TermsReceive, Zenon
      DEF ReceiveTerminateLog, ReceiveMsg, At, Locations
  <2>3. CASE ReceiveSctpInit
    <3>1. ReceiveMsg(Sctp, "sctp_init") /\ "sctp_init" \in Kinds
      BY <2>3, Zenon DEF ReceiveSctpInit, Kinds
    <3> QED
      BY <1>0, <1>4, <2>3, <3>1, TermsReceive, Zenon
      DEF ReceiveSctpInit, ReceiveMsg, Locations
  <2>4. CASE ReceiveUdpInit
    <3>1. ReceiveMsg(Udp, "udp_init") /\ "udp_init" \in Kinds
      BY <2>4, Zenon DEF ReceiveUdpInit, Kinds
    <3> QED BY <1>3, <2>4, <3>1, TermsReceive, Zenon DEF ReceiveUdpInit, ReceiveMsg
  <2>5. CASE HandleActivate
    <3>1. SendMsgToTask(M2ap, Sctp, "sctp_init") /\ "sctp_init" \in Kinds \ {"terminate"}
      BY <2>5, Zenon DEF HandleActivate, Kinds
    <3>2. Terms' = Terms /\ exit_count' = exit_count
      BY <1>0, <1>6, <3>1, Zenon
    <3> QED BY <1>4, <2>5, <3>2, Zenon DEF HandleActivate, At, Locations
  <2>6. CASE TerminateLog
    <3>1. /\ SendMsgToTask(Log, SharedLog, "terminate") /\ "terminate" \in Kinds
          /\ GoTo(Log, "exited") /\ pc[Log] = "terminate" /\ next' = next
      BY <2>6, Zenon DEF TerminateLog, At, Kinds
    <3>2. /\ pc'[Log] = "exited" /\ pc'[Main] = pc[Main] /\ exit_count' = exit_count
          /\ Log # SharedLog => pc'[SharedLog] = pc[SharedLog]
      BY <1>0, <3>1, Zenon DEF GoTo, SendMsgToTask
    <3>3. CASE MainDone
      <4>1. MainDone'
        BY <1>2, <3>1, <3>2, <3>3, Zenon
      <4> QED BY <3>2, <4>1, Zenon DEF LogOpen
    <3>4. CASE ~MainDone
      <4>1. Terms = {} /\ exit_count = 2 /\ pc[SharedLog] # "exited"
        BY <3>1, <3>4, Zenon DEF LogOpen
      <4>2. \A i, j \in Terms' : i = j
        BY <1>0, <3>1, <4>1, TermsSend, Zenon
      <4> QED BY <3>2, <4>1, <4>2, LogsDiffer, Zenon DEF LogOpen
    <3> QED BY <3>3, <3>4, Zenon
  <2>7. CASE TerminateSharedLog
    <3>1. /\ ReceiveMsg(SharedLog, "terminate") /\ "terminate" \in Kinds
          /\ exit_count' = exit_count - 1 /\ next' = next /\ pc[SharedLog] = "wait"
          /\ GoTo(SharedLog, IF exit_count' = 0 THEN "exited" ELSE "wait")
      BY <2>7, Zenon DEF TerminateSharedLog, ReceiveMsg, At, Kinds
    <3>2. 1 \in Terms /\ \A i \in Terms' : i \in Nat \ {0} /\ i + 1 \in Terms
      BY <3>1, TermsReceive, Zenon
    <3>3. pc'[Log] = pc[Log] \/ Log = SharedLog
      BY <1>0, <3>1, Zenon DEF GoTo
    <3>4. pc'[Main] = pc[Main]
      BY <1>0, <3>1, Zenon DEF GoTo
    <3>5. MainDone' <=> MainDone
      BY <3>1, <3>4, Zenon DEF MainDone
    <3>6. CASE pc[Log] = "exited" /\ MainDone
      BY <3>3, <3>5, <3>6, LogsDiffer, Zenon DEF LogOpen
    <3>7. CASE pc[Log] # "exited" \/ ~MainDone
      <4>1. /\ \A i, j \in Terms : i = j
            /\ exit_count = 2 /\ ~(pc[Log] # "exited" /\ ~MainDone)
        BY <3>2, <3>7, Zenon DEF LogOpen
      <4>2. Terms' = {}
        <5>1. ASSUME NEW i \in Terms' PROVE FALSE
          <6>1. i + 1 = 1 /\ i \in Nat \ {0}
            BY <3>2, <4>1, Zenon
          <6> QED BY <6>1
        <5> QED BY <5>1, Zenon
      <4>3. exit_count' = 1 /\ pc'[SharedLog] = "wait"
        BY <1>0, <3>1, <4>1 DEF GoTo
      <4> QED BY <3>3, <3>5, <4>1, <4>2, <4>3, LogsDiffer, Zenon DEF LogOpen
    <3> QED BY <3>6, <3>7, Zenon
  <2> QED
    BY <1>7, <2>1, <2>2, <2>3, <2>4, <2>5, <2>6, <2>7, Zenon DEF OwnStep
<1>8. ASSUME MainStep PROVE LogOpen'
  <2>1. CASE CreateTask
    <3>1. next \in 1 .. Len(InitOrder) /\ pc[Main] = "create"
      BY <2>1, OrderMembers, SMTT(30) DEF CreateTask, At, TypeOK
    <3>2. pc[InitOrder[next]] = "none" /\ InitOrder[next] \in Tasks
      BY <3>1, OrderMembers, SMTT(30) DEF Creating, Starting
    <3>3. /\ pc[Log] = "exited" => pc'[Log] = "exited"
          /\ pc'[SharedLog] = "exited" => pc[SharedLog] = "exited"
      BY <1>0, <2>1, <3>2, Zenon DEF CreateTask
    <3>4. ~MainDone
      BY <3>1, Zenon DEF MainDone
    <3> QED
      BY <1>1, <2>1, <3>3, <3>4, LogIdle, Zenon DEF CreateTask
  <2>2. CASE SendInitUdp \/ Activate
    <3>1. PICK t \in Tasks, k \in Kinds \ {"terminate"} : SendMsgToTask(Main, t, k)
      BY <2>2, Zenon DEF SendInitUdp, Activate, Kinds
    <3>2. Terms' = Terms /\ exit_count' = exit_count
      BY <1>0, <1>6, <3>1, Zenon
    <3>3. pc'[Log] = pc[Log] /\ pc'[SharedLog] = pc[SharedLog] /\ ~MainDone
      BY <1>0, <2>2, Zenon DEF SendInitUdp, Activate, GoTo, At, MainDone
    <3> QED BY <3>2, <3>3, LogIdle, Zenon
  <2>3. CASE SendBroadcastMessage
    <3>0. /\ pc' = pc /\ pc[Main] = "broadcast" /\ exit_count' = exit_count
          /\ next' = next + 1 /\ next \in 1 .. Len(ThreadIds)
      BY <1>0, <2>3, OrderMembers, SMTT(30) DEF SendBroadcastMessage, At, SendMsgToTask
    <3>1. MainDone => MainDone'
      BY <1>0, <3>0 DEF MainDone
    <3>2. CASE Terms' = Terms
      BY <3>0, <3>1, <3>2, LogIdle, Zenon
    <3>3. CASE Terms' # Terms
      <4>1. message_queue' # message_queue
        BY <1>1, <3>3, Zenon
      <4>2. /\ SendMsgToTask(Main, ThreadIds[next], "terminate") /\ "terminate" \in Kinds
        BY <2>3, <4>1, Zenon DEF SendBroadcastMessage, Kinds
      <4>3. ThreadIds[next] \in Tasks
        BY <3>0, OrderMembers, SMTT(30)
      <4>4. /\ ThreadIds[next] = SharedLog
            /\ \A i, j \in Terms' \ Terms : i = j
        BY <1>0, <3>3, <4>2, <4>3, TermsSend, Zenon
      <4>5. MainDone'
        BY <3>0, <4>4 DEF MainDone
      <4>6. ~MainDone
        BY <1>0, <3>0, <4>4, TaskAssumption DEF MainDone
      <4>7. pc[Log] # "exited" => Terms = {} /\ exit_count = 2 /\ pc[SharedLog] # "exited"
        BY <4>6, Zenon DEF LogOpen
      <4> QED BY <3>0, <4>4, <4>5, <4>7, Zenon DEF LogOpen
    <3> QED BY <3>2, <3>3, Zenon
  <2>4. CASE WaitTasksEnd
    <3>1. /\ pc'[Log] = pc[Log] /\ pc'[SharedLog] = pc[SharedLog] /\ next' = next
          /\ pc'[Main] = "end" /\ exit_count' = exit_count /\ message_queue' = message_queue
      BY <1>0, <2>4, Zenon DEF WaitTasksEnd, GoTo
    <3>2. MainDone => MainDone'
      BY <3>1, Zenon DEF MainDone
    <3> QED BY <1>1, <3>1, <3>2, LogIdle, Zenon
  <2> QED
    BY <1>8, <2>1, <2>2, <2>3, <2>4, Zenon DEF MainStep
<1>9. ASSUME Stimulus PROVE LogOpen'
  <2>1. CASE ReceiverCancelled
    BY <1>0, <1>1, <1>4, <2>1, Zenon DEF ReceiverCancelled, Locations
  <2>2. CASE Sigint \/ Sigusr1
    <3>1. /\ pc'[Log] = pc[Log] /\ pc'[SharedLog] = pc[SharedLog] /\ ~MainDone
          /\ exit_count' = exit_count /\ message_queue' = message_queue
      BY <1>0, <2>2, Zenon DEF Sigint, Sigusr1, GoTo, At, MainDone
    <3> QED BY <1>1, <3>1, LogIdle, Zenon
  <2>3. CASE ~(ReceiverCancelled \/ Sigint \/ Sigusr1)
    <3>1. PICK p \in Threads, t \in Tasks : SendMsgToTask(p, t, "work")
      BY <1>9, <2>3, PeerMembers, PeerAssumption, Zenon
      DEF Stimulus, TimerSignal, HandlerSends, UdpReceives, ReceiverSends
    <3>2. pc' = pc /\ next' = next
      BY <1>9, <2>3, Zenon
      DEF Stimulus, TimerSignal, HandlerSends, UdpReceives, ReceiverSends
    <3>3. "work" \in Kinds \ {"terminate"}
      BY Zenon DEF Kinds
    <3> QED BY <1>3, <1>6, <3>1, <3>2, <3>3, Zenon
  <2> QED
    BY <2>1, <2>2, <2>3, Zenon
<1>10. ASSUME NEW p \in Threads, Signal(p) PROVE LogOpen'
  BY <1>1, <1>3, <1>10, Zenon DEF Signal
<1>11. CASE UNCHANGED vars
  BY <1>1, <1>3, <1>11, Zenon DEF vars
<1> QED
  BY <1>5, <1>7, <1>8, <1>9, <1>10, <1>11, Zenon DEF Next, ThreadStep

LEMMA LogOpenInit == Init => LogOpen
<1> SUFFICES ASSUME Init PROVE LogOpen
  BY Zenon
<1>1. Len(message_queue[SharedLog]) = 0 /\ exit_count = 2 /\ pc[SharedLog] # "exited"
  BY TaskMembers, TaskAssumption, Zenon DEF Init
<1>2. Terms = {}
  BY <1>1 DEF Terms
<1> QED BY <1>1, <1>2, SMTT(30) DEF LogOpen

(***************************************************************************)
(* TASK_SHARED_TS_LOG never exits before TASK_LOG has and before main's    *)
(* broadcast has come to it: the two messages that shared_log_task counts  *)
(* are one of main and one of TASK_LOG, whatever the full queues refuse.   *)
(***************************************************************************)
THEOREM SharedLogWaits == Spec => []SharedLogWaitsForBoth
<1>1. LogOpen => SharedLogWaitsForBoth
  BY Zenon DEF LogOpen, SharedLogWaitsForBoth
<1>2. StartInv => TypeOK /\ Creating
  BY Zenon DEF StartInv, BasicInv
<1> QED
  BY <1>1, <1>2, StartInit, StartStep, LogOpenInit, LogOpenStep, PTL DEF Spec
-----------------------------------------------------------------------------
(***************************************************************************)
(* Queue and event descriptor.  The facts about cardinality come in only   *)
(* here, which keeps the obligations above small.                          *)
(***************************************************************************)
INSTANCE FiniteSetTheorems

LEMMA SetFinite ==
  ASSUME NEW f, NEW t
  PROVE  /\ IsFiniteSet({p \in Threads : f[p] = t})
         /\ Cardinality({p \in Threads : f[p] = t}) \in Nat
<1>1. IsFiniteSet(Tasks \cup {Main})
  BY TaskAssumption, FS_AddElement, Zenon
<1>2. IsFiniteSet((Tasks \cup {Main}) \cup {Receiver})
  BY <1>1, FS_AddElement, Zenon
<1>3. Threads = (Tasks \cup {Main}) \cup {Receiver}
  BY Zenon
<1>4. IsFiniteSet({p \in Threads : f[p] = t})
  BY <1>2, <1>3, FS_Subset, Zenon
<1> QED
  BY <1>4, FS_CardinalityType, Zenon

LEMMA SignallingFinite ==
  ASSUME NEW t
  PROVE  /\ IsFiniteSet(Signalling(t)) /\ Cardinality(Signalling(t)) \in Nat
         /\ IsFiniteSet(Signalling(t)') /\ Cardinality(Signalling(t)') \in Nat
BY SetFinite, Zenon DEF Signalling

LEMMA SignallingGrows ==
  ASSUME TypeOK, NEW p \in Threads, NEW t \in Tasks, signalling[p] = NULL,
         signalling' = [signalling EXCEPT ![p] = t], NEW u \in Tasks
  PROVE  /\ u = t => Cardinality(Signalling(u)') = Cardinality(Signalling(u)) + 1
         /\ u # t => Cardinality(Signalling(u)') = Cardinality(Signalling(u))
<1>1. signalling \in [Threads -> Tasks \cup {NULL}] /\ NULL \notin Tasks
  BY NullAssumption, Zenon DEF TypeOK
<1>2. CASE u = t
  <2>1. Signalling(u)' = Signalling(u) \cup {p} /\ p \notin Signalling(u)
    BY <1>1, <1>2, ZenonT(30) DEF Signalling
  <2> QED
    BY <1>2, <2>1, SignallingFinite, FS_AddElement, ZenonT(30)
<1>3. CASE u # t
  <2>1. Signalling(u)' = Signalling(u)
    BY <1>1, <1>3, Zenon DEF Signalling
  <2> QED
    BY <1>3, <2>1, SignallingFinite, Zenon
<1> QED
  BY <1>2, <1>3, Zenon

LEMMA SignallingShrinks ==
  ASSUME TypeOK, NEW p \in Threads, signalling[p] # NULL,
         signalling' = [signalling EXCEPT ![p] = NULL], NEW u \in Tasks
  PROVE  /\ u = signalling[p] =>
              Cardinality(Signalling(u)) = Cardinality(Signalling(u)') + 1
         /\ u # signalling[p] => Cardinality(Signalling(u)') = Cardinality(Signalling(u))
<1>1. signalling \in [Threads -> Tasks \cup {NULL}] /\ NULL \notin Tasks
  BY NullAssumption, Zenon DEF TypeOK
<1>2. CASE u = signalling[p]
  <2>1. Signalling(u)' = Signalling(u) \ {p} /\ p \in Signalling(u)
    BY <1>1, <1>2, Zenon DEF Signalling
  <2>2. Cardinality(Signalling(u) \ {p}) = Cardinality(Signalling(u)) - 1
    BY <2>1, SignallingFinite, FS_RemoveElement, Zenon
  <2>3. Cardinality(Signalling(u)) \in Nat
    BY SignallingFinite, Zenon
  <2> QED
    BY <1>2, <2>1, <2>2, <2>3, SMTT(30)
<1>3. CASE u # signalling[p]
  <2>1. Signalling(u)' = Signalling(u)
    BY <1>1, <1>3, Zenon DEF Signalling
  <2> QED
    BY <1>3, <2>1, SignallingFinite, ZenonT(30)
<1> QED
  BY <1>2, <1>3, Zenon

LEMMA WakeupsInit == Init => WakeupsMatch
<1> SUFFICES ASSUME Init, NEW t \in Tasks
             PROVE  task_event_fd[t] + Cardinality(Signalling(t))
                    = Len(message_queue[t]) + dropped[t]
  BY Zenon DEF WakeupsMatch
<1>1. Signalling(t) = {}
  BY NullAssumption, Zenon DEF Init, Signalling
<1>2. Cardinality(Signalling(t)) = 0
  BY <1>1, FS_EmptySet, Zenon
<1>3. task_event_fd[t] = 0 /\ dropped[t] = 0 /\ message_queue[t] = <<>>
  BY Zenon DEF Init
<1> QED
  BY <1>2, <1>3, Zenon

LEMMA WakeupsStep ==
  ASSUME TypeOK, WakeupsMatch, [Next]_vars
  PROVE  WakeupsMatch'
<1> SUFFICES ASSUME aborted' \notin Tasks, NEW u \in Tasks
             PROVE  task_event_fd'[u] + Cardinality(Signalling(u)')
                    = Len(message_queue'[u]) + dropped'[u]
  BY Zenon DEF WakeupsMatch
<1> DEFINE c == Cardinality(Signalling(u))
           c1 == Cardinality(Signalling(u)')
           q == Len(message_queue[u])
           q1 == Len(message_queue'[u])
           f == task_event_fd[u]
           f1 == task_event_fd'[u]
           r == dropped[u]
           r1 == dropped'[u]
<1>0. aborted \notin Tasks
  BY NullAssumption, Zenon DEF Next, ThreadStep, Running, vars
<1>1. f + c = q + r
  BY <1>0, Zenon DEF WakeupsMatch
<1>2. /\ task_event_fd \in [Tasks -> Nat] /\ dropped \in [Tasks -> Nat]
      /\ message_queue \in [Tasks -> Seq(Messages)]
  BY Zenon DEF TypeOK
<1>3. f \in Nat /\ r \in Nat /\ q \in Nat /\ message_queue[u] \in Seq(Messages)
  BY <1>2
<1>4. c \in Nat /\ c1 \in Nat
  BY SignallingFinite, Zenon
<1> DEFINE Goal == f1 + c1 = q1 + r1
<1> SUFFICES Goal
  BY Zenon
<1> HIDE DEF c, c1, q, q1, f, f1, r, r1
<1>5. ASSUME NEW p \in Threads, Signal(p)
      PROVE  Goal
  <2>1. /\ u = signalling[p] => c = c1 + 1
        /\ u # signalling[p] => c1 = c
    BY <1>5, SignallingShrinks, Zenon DEF Signal, c, c1
  <2>2. q1 = q /\ r1 = r
    BY <1>5, Zenon DEF Signal, q, q1, r, r1
  <2>3. /\ u = signalling[p] => f1 = f + 1
        /\ u # signalling[p] => f1 = f
    BY <1>2, <1>5, Zenon DEF Signal, f, f1
  <2> QED
    BY <1>1, <1>3, <1>4, <2>1, <2>2, <2>3, SMTT(30)
<1>6. ASSUME NEW t \in Tasks, NEW k \in Kinds, ReceiveMsg(t, k)
      PROVE  Goal
  <2>1. c1 = c /\ r1 = r
    BY <1>6, Zenon DEF ReceiveMsg, c, c1, r, r1, Signalling
  <2>2. /\ message_queue[t] # <<>> /\ task_event_fd[t] > 0
        /\ message_queue' = [message_queue EXCEPT ![t] = Tail(@)]
        /\ task_event_fd' = [task_event_fd EXCEPT ![t] = @ - 1]
    BY <1>6, ZenonT(30) DEF ReceiveMsg
  <2>3. CASE u = t
    <3>1. q1 = q - 1
      BY <1>2, <1>3, <2>2, <2>3, SMTT(30) DEF q, q1
    <3>2. f1 = f - 1
      BY <1>2, <2>2, <2>3, ZenonT(30) DEF f, f1
    <3> QED
      BY <1>1, <1>3, <1>4, <2>1, <3>1, <3>2, SMTT(30)
  <2>4. CASE u # t
    <3>1. q1 = q /\ f1 = f
      BY <1>2, <2>2, <2>4, Zenon DEF q, q1, f, f1
    <3> QED
      BY <1>1, <2>1, <3>1, ZenonT(30)
  <2> QED
    BY <2>3, <2>4, Zenon
<1>7. ASSUME NEW t \in Tasks, ReceiveNothing(t)
      PROVE  Goal
  BY <1>7, Zenon DEF ReceiveNothing
<1>8. ASSUME NEW p \in Threads, NEW t \in Tasks, NEW k \in Kinds,
             signalling[p] = NULL, SendMsgToTask(p, t, k)
      PROVE  Goal
  <2>1. f1 = f
    BY <1>8, Zenon DEF SendMsgToTask, f, f1
  <2>2. CASE task_state[t] # "READY"
    <3>1. signalling' = signalling /\ message_queue' = message_queue /\ dropped' = dropped
      BY <1>8, <2>2, Zenon DEF SendMsgToTask
    <3>2. c1 = c /\ q1 = q /\ r1 = r
      BY <3>1, ZenonT(30) DEF c, c1, q, q1, r, r1, Signalling
    <3> QED
      BY <1>1, <2>1, <3>2, ZenonT(30)
  <2>3. CASE task_state[t] = "READY"
    <3>1. /\ u = t => c1 = c + 1
          /\ u # t => c1 = c
      BY <1>8, <2>3, SignallingGrows, ZenonT(30) DEF SendMsgToTask, c, c1
    <3>2. CASE Len(message_queue[t]) < QueueSize
      <4> DEFINE m == [number |-> sent[p] + 1, origin |-> p, kind |-> k]
      <4>1. dropped' = dropped /\ message_queue' = [message_queue EXCEPT ![t] = Append(@, m)]
        BY <1>8, <2>3, <3>2, ZenonT(30) DEF SendMsgToTask
      <4> HIDE DEF m
      <4>2. /\ u = t => q1 = q + 1
            /\ u # t => q1 = q
        BY <1>2, <1>3, <4>1, SMTT(30) DEF q, q1
      <4>3. r1 = r
        BY <4>1, Zenon DEF r, r1
      <4> QED
        BY <1>1, <1>3, <1>4, <2>1, <3>1, <4>2, <4>3, SMTT(30)
    <3>3. CASE ~(Len(message_queue[t]) < QueueSize)
      <4>1. message_queue' = message_queue /\ dropped' = [dropped EXCEPT ![t] = @ + 1]
        BY <1>8, <2>3, <3>3, Zenon DEF SendMsgToTask
      <4>2. /\ q1 = q
            /\ u = t => r1 = r + 1
            /\ u # t => r1 = r
        BY <1>2, <4>1, Zenon DEF q, q1, r, r1
      <4> QED
        BY <1>1, <1>3, <1>4, <2>1, <3>1, <4>2, SMTT(30)
    <3> QED
      BY <3>2, <3>3, ZenonT(30)
  <2> QED
    BY <2>2, <2>3, Zenon
<1>9. ASSUME QuietStep PROVE Goal
  <2>1. f1 = f /\ q1 = q /\ r1 = r /\ c1 = c
    BY <1>9, Zenon DEF QuietStep, f, f1, q, q1, r, r1, c, c1, Signalling
  <2> QED
    BY <1>1, <2>1, Zenon
<1> HIDE DEF Goal
<1> QED
  BY <1>5, <1>6, <1>7, <1>8, <1>9, StepKinds, ZenonT(30)
  DEF SignalStep, ReceiveStep, WakeStep, SendStep

(***************************************************************************)
(* In every reachable state the wake-ups of a task, written or on their    *)
(* way, are its messages, queued or refused.                               *)
(***************************************************************************)
THEOREM WakeupsCorrect == Spec => []WakeupsMatch
BY WakeupsInit, WakeupsStep, TypeCorrect, PTL DEF Spec
-----------------------------------------------------------------------------
(***************************************************************************)
(* The assertion of the receive.                                           *)
(***************************************************************************)
LEMMA AbortStep ==
  ASSUME TypeOK, WakeupsMatch, EmptyQueueOnlyAfterDrop, [Next]_vars
  PROVE  EmptyQueueOnlyAfterDrop'
<1>1. ASSUME UNCHANGED vars PROVE EmptyQueueOnlyAfterDrop'
  BY <1>1, Zenon DEF vars, EmptyQueueOnlyAfterDrop
<1>2. ASSUME Next PROVE EmptyQueueOnlyAfterDrop'
  <2>1. aborted = NULL /\ NULL \notin Tasks /\ Tasks \cap Failures = {}
    BY <1>2, NullAssumption, ZenonT(30) DEF Next, ThreadStep, Running
  <2>2. ASSUME aborted' = aborted \/ aborted' = NULL \/ aborted' \in Failures
        PROVE  EmptyQueueOnlyAfterDrop'
    BY <2>1, <2>2, Zenon DEF EmptyQueueOnlyAfterDrop
  <2>3. ASSUME NEW t \in Tasks, ReceiveNothing(t) PROVE EmptyQueueOnlyAfterDrop'
    <3>1. /\ message_queue' = message_queue /\ message_queue[t] = <<>> /\ aborted' = t
          /\ dropped' = dropped /\ task_event_fd[t] > 0
      BY <2>3, ZenonT(30) DEF ReceiveNothing
    <3>2. task_event_fd[t] + Cardinality(Signalling(t)) = 0 + dropped[t]
      BY <2>1, <3>1, Zenon DEF WakeupsMatch
    <3>3. /\ task_event_fd[t] \in Nat /\ dropped[t] \in Nat
          /\ Cardinality(Signalling(t)) \in Nat
      BY SignallingFinite, Zenon DEF TypeOK
    <3>4. dropped[t] > 0
      BY <3>1, <3>2, <3>3, SMTT(30)
    <3> QED
      BY <3>1, <3>4, Zenon DEF EmptyQueueOnlyAfterDrop
  <2>4. ASSUME SignalStep \/ ReceiveStep \/ QuietStep PROVE aborted' = aborted
    BY <2>4, Zenon DEF SignalStep, Signal, ReceiveStep, ReceiveMsg, QuietStep
  <2>5. ASSUME SendStep PROVE aborted' = NULL \/ aborted' \in Failures
    BY <2>5, FailureFacts, Zenon DEF SendStep, SendMsgToTask
  <2> QED
    BY <2>2, <2>3, <2>4, <2>5, StepKinds, ZenonT(30) DEF WakeStep
<1> QED
  BY <1>1, <1>2, ZenonT(30)

(***************************************************************************)
(* "No element in list" is fatal only after a full queue has refused a     *)
(* message of the same task.                                               *)
(***************************************************************************)
THEOREM ReceiveAssertionOnlyAfterDrop == Spec => []EmptyQueueOnlyAfterDrop
<1>1. Init => EmptyQueueOnlyAfterDrop
  BY NullAssumption DEF Init, EmptyQueueOnlyAfterDrop
<1> QED
  BY <1>1, AbortStep, TypeCorrect, WakeupsCorrect, PTL DEF Spec
=============================================================================
