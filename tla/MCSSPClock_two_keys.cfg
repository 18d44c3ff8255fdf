CONSTANTS
  Workers = {w1, w2}
  Rank0 = w1
  Keys = {k1, k2}
  LimitS = 1
  TotalIters = 4
SPECIFICATION Safety
INVARIANT FreshRead
