CONSTANTS
  Workers = {w1, w2}
  Rank0 = w1
  Keys = {k1}
  LimitS = 2
  TotalIters = 5
SPECIFICATION Spec
INVARIANT ServerKeepsUp
PROPERTIES
  ClocksMonotone
  EveryoneFinishes
