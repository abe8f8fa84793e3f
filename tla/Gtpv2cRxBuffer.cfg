SPECIFICATION Spec
CONSTANTS
  r1 = r1
  r2 = r2
  t1 = t1
  t2 = t2
  t3 = t3
  m1 = m1
  m2 = m2
  m3 = m3
  m4 = m4
  NULL = NULL
  Requests <- MCRequests
  Trxns <- MCTrxns
  Msgs <- MCMsgs
  t3Timer = 2
  maxRetries = 2
  MaxQueue = 2
  Horizon = 4
INVARIANT
  QueuedIsSent
SYMMETRY Symmetry
CHECK_DEADLOCK FALSE
