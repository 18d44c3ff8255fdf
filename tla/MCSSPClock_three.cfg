CONSTANTS
  Workers = {w1, w2, w3}
  Rank0 = w1
  Keys = {k1}
  LimitS = 0
  TotalIters = 3
SPECIFICATION Safety
SYMMETRY PeerSymmetry
INVARIANTS
  TypeOK
  FreshRead
  LeadBound
  WorkerSzCounts
