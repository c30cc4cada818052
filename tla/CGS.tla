-------------------------------- MODULE CGS --------------------------------
(***************************************************************************)
(* The interpreter loop driven by CGSSearcher, and what must hold of it.   *)
(***************************************************************************)
EXTENDS CGSSearcher

\* The loop ended, or ran into undefined behaviour: nothing more is said.
Ended == step \in {"done", "crashed"} /\ UNCHANGED vars

Next == ExecutorNext \/ UpdateNext \/ Ended
Spec == Init /\ [][Next]_vars

\* Code without a wait or a lock in it keeps running: the searcher's update
\* and the straight-line rest of the loop body take their next step.
LoopBody == UpdateNext \/ StoreLoop \/ UpdateStates \/ CheckMemoryUsage \/ Tick
FairSpec == Spec /\ WF_vars(LoopBody)
-----------------------------------------------------------------------------
(***************************************************************************)
(* Whenever the executor runs, the searcher's two queues hold every live   *)
(* state exactly once and nothing else: no move between them, rotation,    *)
(* addition or removal in update loses a state, schedules one twice or     *)
(* leaves a deleted one behind.                                            *)
(***************************************************************************)
ExecutorRuns == step \in {"select", "exec", "storeLoop", "memory", "tick"}
QueuesPartitionStates ==
  ExecutorRuns =>
    /\ IsInjective(states) /\ IsInjective(branch_states)
    /\ Range(states) \cap Range(branch_states) = {}
    /\ Range(states) \cup Range(branch_states) = execStates

(***************************************************************************)
(* The br, switch and re-targeting code keep a branch in at most one of    *)
(* the target, partly covered and fully covered lists, once, never exceed  *)
(* TargetBranchNum, and put only fully covered branches in the last one.   *)
(***************************************************************************)
BranchListsExclusive ==
  /\ Len(TB) <= TargetBranchNum
  /\ IsInjective(TB) /\ IsInjective(PCB) /\ IsInjective(FCB)
  /\ Range(TB) \cap Range(PCB) = {}
  /\ Range(FCB) \cap (Range(TB) \cup Range(PCB)) = {}
  /\ \A b \in Range(FCB) : FullyCovered(b)

(***************************************************************************)
(* A partly covered branch never waits while there is room for a target:   *)
(* the promotion after a target is covered and the refill of the periodic  *)
(* re-targeting both leave the target list full or nothing waiting.        *)
(***************************************************************************)
NoBranchWaitsForRoom ==
  step \notin {"clear", "refill", "claim", "pick", "find", "crashed"} /\ PCB # <<>>
     => Len(TB) = TargetBranchNum

(***************************************************************************)
(* When a state is selected, no state with a target branch waits in the    *)
(* ordinary queue, where branch_states would starve it: update moves a     *)
(* state over whenever it gives it a branchInfo.                           *)
(***************************************************************************)
TargetedStatesFirst ==
  step = "select" => \A s \in Range(states) : branchInfos[s] = <<>>

(***************************************************************************)
(* The messages of an instruction are consumed by the update after it:     *)
(* when the next state is selected, no state still has reachStore or       *)
(* reachBranch set and no partly covered branch is left to be handled, so  *)
(* a copy made by fork never inherits a pending event.                     *)
(***************************************************************************)
EventsConsumed ==
  step = "select" =>
    /\ \A s \in execStates : ~reachStore[s] /\ ~reachBranch[s]
    /\ ~newPartlyCoveredBranch

(***************************************************************************)
(* update meets no undefined behaviour: the iterator it erases is found,   *)
(* the first examined branchInfo exists, a state is there to be selected,  *)
(* and re-targeting, which dereferences current, never runs in the         *)
(* update(nullptr) that follows a memory kill.                             *)
(***************************************************************************)
NoUndefinedBehaviour == step # "crashed"

(***************************************************************************)
(* A value cached as valid for a br that is not yet fully covered really   *)
(* takes it to the outcome nobody has seen, although the predicate was     *)
(* recorded, and the value cached, at earlier visits, possibly in between  *)
(* re-targetings and after the value was masked.                           *)
(***************************************************************************)
ValidValuesUncover ==
  \A b \in BrBranch : \A v \in validStoreValues[b] :
     FullyCovered(b) \/ Takes[b][Arith[b][v]] \notin seen[b]

(***************************************************************************)
(* A store some branch that is not yet fully covered depends on stays in   *)
(* storetTobranches and in its function's funcStores: what                 *)
(* handleFullyCoveredBranch removes for one branch is still there for the  *)
(* others that share the store.                                            *)
(***************************************************************************)
NeededStoresKept ==
  \A b \in Branch \ Range(FCB) : \A t \in Dep[b] :
     b \in storeToBranches[t] /\ t \in funcStores[FuncOf[b]]

(***************************************************************************)
(* Every branchInfo update examines after a store has a recorded value:    *)
(* the storeValues[sid] of isNewStoreValue never default-inserts a zero.   *)
(* The value is recorded after a former value of the same variable, maybe  *)
(* of the same store, was dropped.                                         *)
(***************************************************************************)
ExaminedValuesKnown ==
  step = "examine" =>
    \A i \in idx .. Len(branchInfos[current]) :
       storeValues[current][branchInfos[current][i].sid] # NoValue

(***************************************************************************)
(* When a state is selected, the branchInfos of all states name current    *)
(* targets, or branches fully covered since: the list of targets and the   *)
(* states' copies of it are changed together by the handlers and by the    *)
(* re-targeting (for a program that does not fork).                        *)
(***************************************************************************)
InfosNameTargets ==
  step = "select" =>
    \A s \in execStates : \A i \in DOMAIN branchInfos[s] :
       branchInfos[s][i].bid \in Range(TB) \cup Range(FCB)

(***************************************************************************)
(* A state that reaches a target without covering it loses one branchInfo, *)
(* the one of the branch it just took: update still finds the branch at    *)
(* prevPC in the map the br handler looked it up in.                       *)
(***************************************************************************)
ReachedTargetDropped ==
  [][step = "reach" /\ reachBranch[current] /\ ~newFullyCoveredBranch
       => Len(branchInfos'[current]) = Len(branchInfos[current]) - 1]_vars

(***************************************************************************)
(* CGSSearcher is a searcher: moving states between and within its queues  *)
(* never loses or duplicates one, even halfway through update, a state is  *)
(* learned of or forgotten only as the executor asked, and the pool agrees *)
(* with the executor whenever a state is selected.                         *)
(***************************************************************************)
Pool == INSTANCE StatePool WITH
          live <- execStates, created <- Range(addedStates), killed <- removedStates,
          pool <- Range(states) \cup Range(branch_states), picked <- current
IsStatePool == Pool!PoolSpec

(***************************************************************************)
(* update always comes to an end: its loops over branchInfos,              *)
(* branch_states and states erase and append while they iterate.           *)
(***************************************************************************)
UpdateReturns == step = "rotate" ~> step \in {"select", "crashed"}
=============================================================================
