CONSTANTS
  Workers = {w1, w2}
  Rank0 = w1
  Keys = {k1}
  LimitS = 1
  TotalIters = 4
SPECIFICATION Safety
INVARIANT BoundedStaleness
