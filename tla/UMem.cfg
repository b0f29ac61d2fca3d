CONSTANTS
  StStart = 4
  StSize = 6
  AlignST = 2
  AlignAlt = 4
  Boards <- OneBoard
  Amounts = {1, 3}
  EnvSize = 2
  Blocks = {1, 2}
  MaxDepth = 2
SPECIFICATION Spec
INVARIANT TypeOK
INVARIANT Partition
INVARIANT StCoalesced
INVARIANT MDsAccounted
INVARIANT OwnersLive
PROPERTY FailsClean
PROPERTY MemoryMapSpec
