CONSTANTS
  State = {s1, s2}
  NULL = NULL
  Branch <- OneBr
  SwitchBranch = {}
  Outcome <- OneBrOut
  Default = "default"
  Store <- TwoStores
  Dep <- MaskedDep
  LoadOrder <- OneBrOrder
  Function = {"f"}
  FuncOf <- OneBrFunc
  Value <- Words
  NoValue = NoValue
  Zero = 0
  Takes <- MaskedTakes
  Arith <- MaskedArith
  TargetBranchNum = 1
  MaxReach = 2
  FaultyStores = {}
  Allowed = {"fork", "retarget"}
  MaxInfos = 2
SPECIFICATION Spec
SYMMETRY Sym
INVARIANTS  ExaminedValuesKnown
