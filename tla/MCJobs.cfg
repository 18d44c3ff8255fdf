SPECIFICATION JobSpec
CONSTANTS
  NW = 2
  NS = 2
  KTop = 2
  KeyCount = 2
  FactorLimit = 1
  BlockRows = 2
  ServerOf <- MCServerOf
  Jobs <- MCJobs
  Program <- Solve
  Own <- StartValues
  Total <- TotalIters
INVARIANTS
  NoWrongUpdater
  NoMissingKey
  RoundsComplete
  TopkRight
  PregelMax
PROPERTY
  JobEnds
