SPECIFICATION Spec
CONSTANTS
  t1 = t1
  t2 = t2
  t3 = t3
  Threads <- MCThreads
  PoolItems <- MCPoolItems
  MaxLate = 1
SYMMETRY Symmetry
INVARIANTS TypeOK OnePlace PositionsWrap SlotIsEmpty StatusHolds CountIsExact PositionsBalance
PROPERTIES LapNeedsGetter
CHECK_DEADLOCK FALSE
