CONSTANTS
  State = {s1}
  NULL = NULL
  Branch <- OneSw
  SwitchBranch <- OneSw
  Outcome <- OneSwOut
  Default = "default"
  Store <- OneStore
  Dep <- OneSwDep
  LoadOrder <- OneSwOrder
  Function = {"f"}
  FuncOf <- OneSwFunc
  Value <- Words
  NoValue = NoValue
  Zero = 0
  Takes <- OneSwTakes
  Arith <- OneSwArith
  TargetBranchNum = 1
  MaxReach = 1
  FaultyStores = {}
  Allowed = {}
  MaxInfos = 2
SPECIFICATION Spec
PROPERTIES ReachedTargetDropped
