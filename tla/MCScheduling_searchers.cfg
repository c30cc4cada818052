SPECIFICATION SchedSpec
CONSTANTS
  NULL = NULL
  MaxStates = 3
  Handler <- HandlerIds
  MergePoints = 1
  Options <- CommandLines
  TreeDepth = 2
INVARIANTS SearchersDoNotAbort EveryStateHeldOnce TagsExact SomeStateRuns HandlersMatchStates RunLeavesNothing

PROPERTY SearchersAreStatePool
