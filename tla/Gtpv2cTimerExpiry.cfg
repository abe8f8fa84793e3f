SPECIFICATION FairSpec
CONSTANTS
  c1 = c1
  c2 = c2
  x1 = x1
  x2 = x2
  h1 = h1
  h2 = h2
  h3 = h3
  h4 = h4
  NULL = NULL
  Clients <- MCClients
  Infos <- MCInfos
  Handles <- ExpiryHandles
  Durations <- ExpiryDurations
  Stops = FALSE
  MaxStall = 1
  Horizon = 7
  MaxTime = 9
INVARIANTS OneIttiTimer BoundedLateness
PROPERTIES ImplementsService EveryTimerEnds
