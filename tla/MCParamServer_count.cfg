CONSTANTS
  k1 = k1
  k2 = k2
  Keys = {k1, k2}
  Values <- MCValues
  Funcs <- MCFuncs
  Loadable <- MCLoadable
  DefaultIncr = "default_incr_i"
  Apply <- MCApply
  Passes <- MCPasses
  NoFunc = "none"
  Garbage = Garbage
  Clients = {c1, c2, c3}
  Menu <- CountMenu
  MaxOps = 2
SPECIFICATION Spec
INVARIANTS
  NoLostUpdate
  TicketsUnique
PROPERTY EveryRequestServed
CHECK_DEADLOCK FALSE
