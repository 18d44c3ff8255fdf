CONSTANTS
  sz = 4
  blk_sz = 2
SPECIFICATION Spec
INVARIANTS
  ExactlyOnce
  NobodyStranded
PROPERTY EveryoneReturns
