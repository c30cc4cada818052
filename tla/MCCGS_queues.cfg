CONSTANTS
  State = {s1, s2, s3}
  NULL = NULL
  Branch <- OneBr
  SwitchBranch = {}
  Outcome <- OneBrOut
  Default = "default"
  Store <- OneStore
  Dep <- OneBrDep
  LoadOrder <- OneBrOrder
  Function = {"f"}
  FuncOf <- OneBrFunc
  Value <- Bits
  NoValue = NoValue
  Zero = 0
  Takes <- OneBrTakes
  Arith <- OneBrArith
  TargetBranchNum = 1
  MaxReach = 1
  FaultyStores = {}
  Allowed = {"fork", "exit", "alias", "memory"}
  MaxInfos = 2
SPECIFICATION Spec
SYMMETRY Sym
INVARIANTS TypeOK QueuesPartitionStates TargetedStatesFirst
PROPERTIES IsStatePool
