CONSTANTS
  State = {s1}
  NULL = NULL
  Branch <- BrSw
  SwitchBranch <- OneSw
  Outcome <- BrSwOut
  Default = "default"
  Store <- OneStore
  Dep <- BrSwDep
  LoadOrder <- BrSwOrder
  Function = {"f"}
  FuncOf <- BrSwFunc
  Value <- Zeros
  NoValue = NoValue
  Zero = 0
  Takes <- BrSwTakes
  Arith <- BrSwArith
  TargetBranchNum = 1
  MaxReach = 2
  FaultyStores = {}
  Allowed = {"alias", "symbolic", "mixed", "memory", "retarget"}
  MaxInfos = 2
SPECIFICATION Spec
INVARIANTS BranchListsExclusive NoBranchWaitsForRoom  NoUndefinedBehaviour NeededStoresKept
