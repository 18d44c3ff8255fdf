CONSTANTS
  Names = {0, 1, 2}
  DefaultName = 0
  replicas = 2
  HashLimit = 6
  SizeLimit = 16
  HashFuncs <- MCHashFuncs
  N = 4
  Weight = {1, 2}
  Input <- MCInput
  Asked <- MCAsked
  MaxCalls <- MCMaxCalls
SPECIFICATION MCSpec
INVARIANTS
  SearchExact
  Mirror
  ShortestPaths
  Components
PROPERTIES
  RoutesToOwner
  MinimalDisruption
  SearchEnds
