CONSTANTS
  State = {s1, s2}
  NULL = NULL
  Branch <- OneBr
  SwitchBranch = {}
  Outcome <- OneBrOut
  Default = "default"
  Store <- OneStore
  Dep <- OneBrDep
  LoadOrder <- OneBrOrder
  Function = {"f"}
  FuncOf <- OneBrFunc
  Value <- Bits
  NoValue = NoValue
  Zero = 0
  Takes <- OneBrTakes
  Arith <- OneBrArith
  TargetBranchNum = 1
  MaxReach = 1
  FaultyStores = {"st1"}
  Allowed = {"fork", "exit"}
  MaxInfos = 2
SPECIFICATION Spec
SYMMETRY Sym
INVARIANTS NewInfosCounted
