SPECIFICATION RaiseSpec
CONSTANTS
  NULL = NULL
  Space = {s1, s2}
  MO = {a}
  Obj = {1, 2, 3}
  Size = 2
  Byte = {0, 1}
  Input = {1, 2}
  MaxOps = 5
  Indexes <- MCIndexes
  Stores <- MCStores
  Array <- MCArray
  ChainArray = {"a", "b"}
  ChainSize <- MCChainSize
  Formula = {1, 2, 3}
  Reads <- MCReads
  Symbolic = Symbolic
  Sat <- MCSat
  Chains <- MCChains
  Paths <- MCPaths
  Asked <- MCAsked
  MaxQueries = 2
  SmallSizes = {1, 2, 3}
  Word8 = {0, 1}
  MaxRuns = 2
  MAX_FDS = 4
  SymFiles = 1
  FileSize = 2
  OsSize = 2
  Data = {0, 1}
  Jump = 4
  MaxFailures = 1
  Starts <- MCFileStarts
  MaxCalls = 2
  NumBytes = 2
  PathState = {1, 2, 3, 4}
  State = {s1, s2}
  Programs <- MCPrograms
  ForkOptions <- MCForkOptions
  bufferSize = 2
  AddrBits = 4
  HeapInput = {1, 2, 3}
  Ops <- MCOps
  Layouts <- MCLayouts
  HeapOptions <- MCHeapOptions
  DefaultAlign = 2
  SmallSize = 1
  HugeSize = 4
  SpaceStart = 8
  SpaceEnd = 15
  Type = {"A", "B"}
  Address <- MCAddress
  Derived <- MCDerived
  Pads <- MCPads
  RuntimeMaxStackFrames = 3
  MaxThrows = 2
  Key = {1, 2, 3, 4, 5, 6}
  Value = {1, 2}
  Trees = {"objects", "copy"}
  TreeStarts <- MCTreeStarts
  MaxNodes = 14
  MaxTreeOps = 2
  Weights <- MCWeights
INVARIANTS SearchReturnsToRaise
CHECK_DEADLOCK FALSE
