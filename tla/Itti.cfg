SPECIFICATION FairSpec
CONSTANTS
  mceApp = mceApp
  m2ap = m2ap
  s1ap = s1ap
  sctp = sctp
  udp = udp
  sm = sm
  log = log
  sharedLog = sharedLog
  NULL = NULL
  Main = main
  Receiver = receiver
  MceApp = mceApp
  M2ap = m2ap
  S1ap = s1ap
  Sctp = sctp
  Udp = udp
  Sm = sm
  Log = log
  SharedLog = sharedLog
  Tasks <- MCTasks
  InitOrder <- MCInitOrder
  ThreadIds <- MCThreadIds
  Peers <- MCPeers
  TimerUsers <- MCTimerUsers
  QueueSize = 2
  MaxMessages = 2
INVARIANTS TypeOK WakeupsMatch EmptyQueueOnlyAfterDrop InOrder FailedSends SharedLogWaitsForBoth
PROPERTIES QueuesDrain
CHECK_DEADLOCK FALSE
