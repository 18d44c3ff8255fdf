SPECIFICATION Load
CONSTANTS
  MaxFiles = 2
  MaxBytes = 4
  FileLists <- MCFileLists
  NPs = {1, 2}
  BlkSzs = {1, 2}
  Cases <- MCCases
  BLK_SZ = 2
  Hash <- MCHash
  IntLimit = 64
  IdLimit = 256
  Spelling <- MCSpelling
INVARIANTS
  LinesInOrder
  LoadsEveryLine
  RowsAgree
  CellsAtOwners
  BlocksAreInput
