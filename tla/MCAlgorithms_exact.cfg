SPECIFICATION AlgSpec
CONSTANTS
  Half = 4
  Sizes <- ThreeWidths
  CaseSizes = {4, 8}
  MaxReach = 3
  ConstArrayOpt = TRUE
  Word = 4
  optimizeDivides = TRUE
  maxInstCount = 3
  BB_THRESHOLD = 2
  maxDistance = 9
  Wide = 6
  ByteBits = 2
INVARIANTS
  PredicateExact SwitchCasesExact
  ExpressionsKeepValue 
  DependenciesSound DistancesExact
   PassesKeepPrograms
CHECK_DEADLOCK FALSE
