------------------------------- MODULE MCItti -------------------------------
(***************************************************************************)
(* The tasks that main creates, in its order, and TASK_S1AP; each with the *)
(* tasks that its handlers send to.  Queues of two messages are full when  *)
(* two datagrams and a TERMINATE_MESSAGE meet a slow TASK_SM, or a timer, a*)
(* message of TASK_SM and a TERMINATE_MESSAGE a slow TASK_MCE_APP.  TASK_SM*)
(* has timers as well; it gets its messages from TASK_UDP here.            *)
(***************************************************************************)
EXTENDS Itti, TLC

CONSTANTS mceApp, m2ap, s1ap, sctp, udp, sm, log, sharedLog

MCTasks == {mceApp, m2ap, s1ap, sctp, udp, sm, log, sharedLog}
MCInitOrder == <<sharedLog, log, sctp, udp, m2ap, sm, mceApp>>
MCThreadIds == <<sm, s1ap, m2ap, sctp, mceApp, udp, log, sharedLog>>
MCPeers == (sm :> {udp, mceApp}) @@ (mceApp :> {sm, m2ap}) @@ (m2ap :> {sctp, mceApp})
           @@ (sctp :> {m2ap}) @@ [t \in {s1ap, udp, log, sharedLog} |-> {}]
MCTimerUsers == {mceApp, m2ap}
=============================================================================
