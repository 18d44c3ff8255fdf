SPECIFICATION Spec
CONSTANTS
  N = 3
  Root = 2
  Calls <- AllCalls
  Inputs <- MCInputs
INVARIANTS
  Framing
  RingDelivers
  TreeReduceTotal
PROPERTIES
  EveryoneReturns
