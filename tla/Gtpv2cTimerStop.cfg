SPECIFICATION Spec
CONSTANTS
  c1 = c1
  c2 = c2
  x1 = x1
  x2 = x2
  h1 = h1
  h2 = h2
  h3 = h3
  h4 = h4
  NULL = NULL
  Clients <- MCClients
  Infos <- MCInfos
  Handles <- StopHandles
  Durations <- StopDurations
  Stops = TRUE
  MaxStall = 1
  Horizon = 5
  MaxTime = 6
SYMMETRY StopSymmetry
INVARIANTS TypeOK PoolSound HandlesOwned StopOfActiveSucceeds ActiveIsGuarded
