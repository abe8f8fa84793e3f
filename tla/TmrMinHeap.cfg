SPECIFICATION Spec
CONSTANTS
  e1 = e1
  e2 = e2
  e3 = e3
  e4 = e4
  e5 = e5
  e6 = e6
  NULL = NULL
  Events <- MCEvents
  Times <- MCTimes
  maxSize = 7
SYMMETRY MCSymmetry
INVARIANTS TypeOK IndexExact PeekIsEarliest
PROPERTY ImplementsQueue
