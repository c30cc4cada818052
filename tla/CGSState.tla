------------------------------ MODULE CGSState ------------------------------
(***************************************************************************)
(* The state shared by the executor and the concrete-branch guided         *)
(* searcher (CGS): Executor.h 120-216, Searcher.h 320-355 and the fields   *)
(* ExecutionState.h 249-266 adds to an execution state.                    *)
(*                                                                         *)
(* One iteration of the interpreter loop is a chain of small steps: the    *)
(* variable step names the next one.  The program is single threaded, so   *)
(* nothing is interleaved with the chain; what is nondeterministic is the  *)
(* program under test (which instruction runs, with which value), the      *)
(* iteration order of the unordered containers, and the memory monitor.    *)
(***************************************************************************)
EXTENDS Vectors, FiniteSets

CONSTANTS
  State,            \* the addresses an ExecutionState can be allocated at
  NULL,             \* the null pointer, passed as "current" to update
  Branch,           \* ids of the conditional br and switch instructions with metadata
  SwitchBranch,     \* those that are switch instructions (BDDep.type = 1)
  Outcome,          \* Outcome[b]: the outcomes that must be seen to fully cover b
  Default,          \* the default destination of a switch: never counted as coverage
  Store,            \* ids of the store instructions with metadata
  Dep,              \* Dep[b] = _BDDep[b]->stores
  LoadOrder,        \* the branches in the order the metadata is loaded
  Function, FuncOf, \* the functions, and the function each branch is in
  Value, NoValue,   \* stored values; "no entry" in a storeValues map
  Zero,             \* the value operator[] default-inserts
  Takes,            \* Takes[b][v]: the outcome of b when its variable is v
  Arith,            \* Arith[b][v]: v after the and/or recorded in BDDep.arith_op
  TargetBranchNum,  \* --target-branch-num
  MaxReach,         \* --target-branch-reach-max
  FaultyStores,     \* stores whose memory operation may terminate the state
  Allowed,          \* what the program under test and its environment may do
  MaxInfos          \* bound: no tracked store runs in a state with this many branchInfos

ASSUME StateAssumption == /\ NULL \notin State
                          /\ IsFiniteSet(State)
ASSUME BranchAssumption == /\ SwitchBranch \subseteq Branch
                           /\ \A b \in Branch : Default \notin Outcome[b]
                           /\ \A b \in Branch \ SwitchBranch :
                                 \E x, y \in Outcome[b] : x # y /\ Outcome[b] = {x, y}
                           /\ Function # {}
                           /\ FuncOf \in [Branch -> Function]
                           /\ LoadOrder \in Seq(Branch)
ASSUME StoreAssumption == /\ Dep \in [Branch -> SUBSET Store]
                          /\ FaultyStores \subseteq Store
ASSUME ValueAssumption == /\ NoValue \notin Value
                          /\ Zero \in Value
                          /\ Arith \in [Branch -> [Value -> Value]]
                          /\ \A b \in Branch : \A v \in Value :
                                Arith[b][Arith[b][v]] = Arith[b][v]
                          /\ \A b \in Branch \ SwitchBranch : \A v \in Value :
                                Takes[b][v] \in Outcome[b]
ASSUME BoundAssumption == /\ TargetBranchNum \in Nat \ {0}
                          /\ MaxReach \in Nat \ {0}
                          /\ MaxInfos \in Nat
ASSUME AllowedAssumption ==
  Allowed \subseteq {"fork", "exit", "symbolic", "mixed", "alias", "new code", "memory", "retarget"}

VARIABLES
  \* Executor: the live states and the changes of the current instruction
  execStates, addedStates, removedStates, current,
  \* Executor: coverage of the branches, and what is recorded for each of them
  seen, unCoveredPred, BI2ID, invalidBranches, reachBranchCount,
  \* Executor: target, partly and fully covered branches
  TB, PCB, FCB,
  \* Executor: messages to the searcher
  newFullyCoveredBranch, newPartlyCoveredBranch, updateTargetBranch,
  newBranchNumFromStore,
  \* Executor and CGSSearcher: values known (not) to lead to uncovered code
  invalidKeys, invalidStoreValues, validStoreValues,
  \* Executor: dependencies still of interest
  storeToBranches, funcStores,
  \* ExecutionState: fields of the states
  branchInfos, storeValues, reachStore, reachBranch, coveredNew,
  \* CGSSearcher: the two queues
  states, branch_states,
  \* control: the next step, the branch at prevPC, and the loops' variables
  step, prevBranch, target, sids, sid, idx, ret

execVars    == <<execStates, addedStates, removedStates, current>>
coverVars   == <<seen, unCoveredPred, BI2ID, invalidBranches, reachBranchCount>>
targetVars  == <<TB, PCB, FCB>>
cacheVars   == <<invalidKeys, invalidStoreValues, validStoreValues>>
depVars     == <<storeToBranches, funcStores>>
stateVars   == <<branchInfos, storeValues, reachStore, reachBranch, coveredNew>>
queueVars   == <<states, branch_states>>
loopVars    == <<target, sids, sid, idx, ret>>
messageVars == <<newFullyCoveredBranch, newPartlyCoveredBranch,
                 updateTargetBranch, newBranchNumFromStore>>
vars == <<execVars, coverVars, targetVars, messageVars, cacheVars, depVars,
          stateVars, queueVars, step, prevBranch, loopVars>>

BranchInfo == [sid : Store, bid : Branch]
NoStores == [s \in Store |-> NoValue]

(***************************************************************************)
(* The dependencies as setModule loads them from the metadata.             *)
(***************************************************************************)
InitStoreToBranches == [s \in Store |-> {b \in Branch : s \in Dep[b]}]
InitFuncStores ==
  [f \in Function |-> UNION {Dep[b] : b \in {c \in Branch : FuncOf[c] = f}}]

\* storesWithSameVar[s]: overwritten by every branch with several stores.
storesWithSameVar(s) ==
  LET shared == {i \in DOMAIN LoadOrder :
                    s \in Dep[LoadOrder[i]] /\ Cardinality(Dep[LoadOrder[i]]) > 1}
  IN  IF shared = {} THEN {} ELSE Dep[LoadOrder[Max(shared)]]

FullyCovered(b) == Outcome[b] \subseteq seen[b]
\* Slip: any target counts as reached, whoever's it is.
AnyTarget(s, b) == b \in Range(TB)
Targets(s, b) == \E i \in DOMAIN branchInfos[s] : branchInfos[s][i].bid = b
Alive == current # NULL /\ current \notin removedStates

Init ==
  /\ \E s \in State : execStates = {s} /\ states = <<s>>
  /\ branch_states = <<>> /\ addedStates = <<>> /\ removedStates = {}
  /\ current = NULL
  /\ seen = [b \in Branch |-> {}] /\ unCoveredPred = [b \in Branch |-> Default]
  /\ BI2ID = Branch /\ invalidBranches = {}
  /\ reachBranchCount = [b \in Branch |-> 0]
  /\ TB = <<>> /\ PCB = <<>> /\ FCB = <<>>
  /\ newFullyCoveredBranch = FALSE /\ newPartlyCoveredBranch = FALSE
  /\ updateTargetBranch = FALSE /\ newBranchNumFromStore = 0
  /\ invalidKeys = {}
  /\ invalidStoreValues = [b \in Branch |-> {}]
  /\ validStoreValues = [b \in Branch |-> {}]
  /\ storeToBranches = InitStoreToBranches /\ funcStores = InitFuncStores
  /\ branchInfos = [s \in State |-> <<>>]
  /\ storeValues = [s \in State |-> NoStores]
  /\ reachStore = [s \in State |-> FALSE] /\ reachBranch = [s \in State |-> FALSE]
  /\ coveredNew = [s \in State |-> FALSE]
  /\ step = "select" /\ prevBranch = NULL
  /\ target = NULL /\ sids = {} /\ sid = NULL /\ idx = 1 /\ ret = "select"
-----------------------------------------------------------------------------
Steps == {"select", "exec", "storeLoop", "rotate", "reach", "fully", "store", "examine",
          "partly", "claim", "pick", "find", "partlyDone", "retarget", "clear", "refill",
          "add", "remove", "commit", "memory", "tick", "done", "crashed"}

ExecType ==
  /\ execStates \subseteq State /\ removedStates \subseteq State
  /\ addedStates \in Seq(State) /\ current \in State \cup {NULL}
AnyOutcome == UNION {Outcome[b] : b \in Branch}
CoverType ==
  /\ seen \in [Branch -> SUBSET AnyOutcome] /\ \A b \in Branch : seen[b] \subseteq Outcome[b]
  /\ unCoveredPred \in [Branch -> AnyOutcome \cup {Default}]
  /\ BI2ID \subseteq Branch /\ invalidBranches \subseteq Branch
  /\ reachBranchCount \in [Branch -> 0 .. MaxReach + 1]
TargetType == TB \in Seq(Branch) /\ PCB \in Seq(Branch) /\ FCB \in Seq(Branch)
MessageType ==
  /\ newFullyCoveredBranch \in BOOLEAN /\ newPartlyCoveredBranch \in BOOLEAN
  /\ updateTargetBranch \in BOOLEAN /\ newBranchNumFromStore \in Nat
CacheType ==
  /\ invalidKeys \subseteq Branch
  /\ invalidStoreValues \in [Branch -> SUBSET Value]
  /\ validStoreValues \in [Branch -> SUBSET Value]
DepType ==
  /\ storeToBranches \in [Store -> SUBSET Branch]
  /\ funcStores \in [Function -> SUBSET Store]
StateType ==
  /\ branchInfos \in [State -> Seq(BranchInfo)]
  /\ storeValues \in [State -> [Store -> Value \cup {NoValue}]]
  /\ reachStore \in [State -> BOOLEAN] /\ reachBranch \in [State -> BOOLEAN]
  /\ coveredNew \in [State -> BOOLEAN]
QueueType == states \in Seq(State) /\ branch_states \in Seq(State)
ControlType ==
  /\ step \in Steps /\ prevBranch \in Branch \cup {NULL}
  /\ target \in Branch \cup {NULL} /\ sids \subseteq Store
  /\ sid \in Store \cup {NULL} /\ idx \in Nat \ {0}
  /\ ret \in {"select", "partlyDone", "refill"}

(***************************************************************************)
(* Type invariant: every field holds values of its C++ type, with the      *)
(* saturated hit counter of FollowBranch bounded by MaxReach + 1.          *)
(***************************************************************************)
TypeOK ==
  /\ ExecType /\ CoverType /\ TargetType /\ MessageType /\ CacheType /\ DepType
  /\ StateType /\ QueueType /\ ControlType
=============================================================================
