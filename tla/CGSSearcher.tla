---------------------------- MODULE CGSSearcher ----------------------------
(***************************************************************************)
(* CGSSearcher::update and the operations it calls (Searcher.cpp 587-1072) *)
(* as a chain of steps: one per section of update, one per iteration of    *)
(* its loops.  A loop that erases while it iterates keeps its position     *)
(* (idx) when the element under it is moved away, as the code does.        *)
(***************************************************************************)
EXTENDS CGSExecutor

\* Slip: the state is not erased from states.
PrioritiseCopy(s) ==
  /\ branch_states' = IF s \in Range(states) THEN Append(branch_states, s) ELSE branch_states
  /\ UNCHANGED states
\* Current moves to the back of branch_states if it waits in states.
Prioritise(s) ==
  /\ states' = Without(states, s)
  /\ branch_states' = IF s \in Range(states) THEN Append(branch_states, s) ELSE branch_states

(***************************************************************************)
(* isNewStoreValue: whether the value state s stored at t can take branch  *)
(* b to uncovered code, and what the two caches remember of the answer.    *)
(* The first value ever looked up for b counts as new, and as invalid.     *)
(* The value cached is the one after the recorded and/or was applied.      *)
(***************************************************************************)
Loaded(s, t) == IF storeValues[s][t] = NoValue THEN Zero ELSE storeValues[s][t]
Uncovered(b, v) == IF b \in SwitchBranch THEN Takes[b][v] \in Outcome[b] \ seen[b]
                                         ELSE Takes[b][v] = unCoveredPred[b]
Cached(b, v) == v \in invalidStoreValues[b] \cup validStoreValues[b]
\* Slip: the recorded and/or is not applied.
Unmodified(b, v) == v
Compared(b, v) == IF b \in SwitchBranch \/ b \notin invalidKeys \/ Cached(b, v)
                  THEN v ELSE Arith[b][v]
isNewStoreValue(s, b, t) ==
  LET v == Loaded(s, t)
  IN  \/ b \notin invalidKeys
      \/ /\ v \notin invalidStoreValues[b]
         /\ v \in validStoreValues[b] \/ Uncovered(b, Compared(b, v))

RememberValue(s, b, t) ==
  LET v   == Compared(b, Loaded(s, t))
      new == isNewStoreValue(s, b, t) /\ b \in invalidKeys
  IN  /\ invalidKeys' = invalidKeys \cup {b}
      /\ invalidStoreValues' = IF new THEN invalidStoreValues
                               ELSE [invalidStoreValues EXCEPT ![b] = @ \cup {v}]
      /\ validStoreValues' = IF new THEN [validStoreValues EXCEPT ![b] = @ \cup {v}]
                             ELSE validStoreValues
      /\ storeValues' = [storeValues EXCEPT ![s] = [@ EXCEPT ![t] = Loaded(s, t)]]

(***************************************************************************)
(* update, first section: after a fork the selected state goes to the back *)
(* of the queue it was taken from; erase(end()) is undefined.  A null or   *)
(* removed current skips to the re-targeting section.                      *)
(***************************************************************************)
Rotate ==
  /\ step = "rotate"
  /\ IF ~Alive THEN step' = "retarget" /\ UNCHANGED queueVars
     ELSE IF addedStates = <<>> THEN step' = "reach" /\ UNCHANGED queueVars
     ELSE IF branch_states = <<>>
          THEN IF current \notin Range(states) THEN step' = "crashed" /\ UNCHANGED queueVars
               ELSE /\ step' = "reach" /\ UNCHANGED branch_states
                    /\ states' = Append(Without(states, current), current)
          ELSE IF current \notin Range(branch_states)
               THEN step' = "crashed" /\ UNCHANGED queueVars
               ELSE /\ step' = "reach" /\ UNCHANGED states
                    /\ branch_states' = Append(Without(branch_states, current), current)
  /\ UNCHANGED <<execVars, coverVars, targetVars, messageVars, cacheVars, depVars,
                 stateVars, prevBranch, loopVars>>

(***************************************************************************)
(* A state reached its target.  If some branch was newly fully covered,    *)
(* the last one is handled; otherwise the state used a wrong value and     *)
(* loses its first branchInfo of this branch.  BI2ID holds instructions    *)
(* of both kinds but is asked for a BranchInst: null for a switch.         *)
(***************************************************************************)
\* Slip: also the stores other branches need.
AllStores(b) == Dep[b]
\* The stores no other branch needs once b is covered.
remove_sv(b) == {t \in Dep[b] : storeToBranches[t] \subseteq {b}}

pastBID == IF prevBranch \in SwitchBranch THEN NULL ELSE prevBranch

ReachBranch ==
  /\ step = "reach"
  /\ \/ /\ ~reachBranch[current]
        /\ step' = "store"
        /\ UNCHANGED <<branchInfos, reachBranch, queueVars, depVars, target>>
     \/ /\ reachBranch[current] /\ newFullyCoveredBranch
        /\ target' = back(FCB) /\ step' = "fully"
        /\ storeToBranches' = [t \in Store |-> IF t \in Dep[back(FCB)]
                                 THEN storeToBranches[t] \ {back(FCB)} ELSE storeToBranches[t]]
        /\ funcStores' = [funcStores EXCEPT ![FuncOf[back(FCB)]] =
                            @ \ remove_sv(back(FCB))]
        /\ UNCHANGED <<branchInfos, reachBranch, queueVars>>
     \/ /\ reachBranch[current] /\ ~newFullyCoveredBranch
        /\ branchInfos' = [branchInfos EXCEPT
                             ![current] = EraseFirst(@, {i \in DOMAIN @ : @[i].bid = pastBID})]
        /\ reachBranch' = [reachBranch EXCEPT ![current] = FALSE]
        /\ IF branchInfos'[current] = <<>> /\ current \in Range(branch_states)
           THEN /\ branch_states' = Without(branch_states, current)
                /\ states' = Append(states, current)
           ELSE UNCHANGED queueVars
        /\ step' = "store"
        /\ UNCHANGED <<depVars, target>>
  /\ UNCHANGED <<execVars, coverVars, targetVars, messageVars, cacheVars, storeValues,
                 reachStore, coveredNew, prevBranch, sids, sid, idx, ret>>

(***************************************************************************)
(* handleFullyCoveredBranch, the loop over branch_states: values of stores *)
(* no branch needs any more are dropped, and the first branchInfo of the   *)
(* covered branch; a state left without one goes back to states.           *)
(***************************************************************************)
HandleFullyCovered ==
  /\ step = "fully" /\ idx <= Len(branch_states)
  /\ LET s == branch_states[idx]
     IN  /\ storeValues' = [storeValues EXCEPT ![s] =
              [t \in Store |-> IF t \in Dep[target] /\ storeToBranches[t] = {}
                               THEN NoValue ELSE @[t]]]
         /\ branchInfos' = [branchInfos EXCEPT
                              ![s] = EraseFirst(@, {i \in DOMAIN @ : @[i].bid = target})]
         /\ IF s # current /\ branchInfos'[s] = <<>>
            THEN /\ branch_states' = erase(branch_states, idx)
                 /\ states' = Append(states, s)
                 /\ UNCHANGED idx
            ELSE idx' = idx + 1 /\ UNCHANGED queueVars
  /\ UNCHANGED <<execVars, coverVars, targetVars, messageVars, cacheVars, depVars, reachStore,
                 reachBranch, coveredNew, step, prevBranch, target, sids, sid, ret>>

\* Slip: current is erased from branch_states but not inserted into states.
FullyCoveredLost ==
  /\ step = "fully" /\ idx > Len(branch_states)
  /\ branch_states' = IF branchInfos[current] = <<>> THEN Without(branch_states, current)
                      ELSE branch_states
  /\ newFullyCoveredBranch' = FALSE
  /\ reachBranch' = [reachBranch EXCEPT ![current] = FALSE]
  /\ step' = "store" /\ idx' = 1 /\ target' = NULL
  /\ UNCHANGED <<execVars, coverVars, targetVars, newPartlyCoveredBranch, updateTargetBranch,
                 newBranchNumFromStore, cacheVars, depVars, branchInfos, storeValues,
                 reachStore, coveredNew, states, prevBranch, sids, sid, ret>>
FullyCoveredHandled ==
  /\ step = "fully" /\ idx > Len(branch_states)
  /\ IF branchInfos[current] = <<>> /\ current \in Range(branch_states)
     THEN /\ branch_states' = Without(branch_states, current)
          /\ states' = <<current>> \o states
     ELSE UNCHANGED queueVars
  /\ newFullyCoveredBranch' = FALSE
  /\ reachBranch' = [reachBranch EXCEPT ![current] = FALSE]
  /\ step' = "store" /\ idx' = 1 /\ target' = NULL
  /\ UNCHANGED <<execVars, coverVars, targetVars, newPartlyCoveredBranch, updateTargetBranch,
                 newBranchNumFromStore, cacheVars, depVars, branchInfos, storeValues,
                 reachStore, coveredNew, prevBranch, sids, sid, ret>>

(***************************************************************************)
(* The state passed a store the targets depend on.  The last               *)
(* newBranchNumFromStore branchInfos are examined; an iterator before      *)
(* begin() is undefined.                                                   *)
(***************************************************************************)
\* Slip: one branchInfo too many is examined.
ReachStoreEarly ==
  /\ step = "store"
  /\ \/ ~reachStore[current] /\ step' = "partly" /\ UNCHANGED idx
     \/ /\ reachStore[current] /\ step' = "examine"
        /\ idx' = Len(branchInfos[current]) - newBranchNumFromStore
  /\ UNCHANGED <<execVars, coverVars, targetVars, messageVars, cacheVars, depVars, stateVars,
                 queueVars, prevBranch, target, sids, sid, ret>>
ReachStore ==
  /\ step = "store"
  /\ \/ ~reachStore[current] /\ step' = "partly" /\ UNCHANGED idx
     \/ /\ reachStore[current]
        /\ IF newBranchNumFromStore > Len(branchInfos[current])
           THEN step' = "crashed" /\ UNCHANGED idx
           ELSE /\ step' = "examine"
                /\ idx' = Len(branchInfos[current]) - newBranchNumFromStore + 1
  /\ UNCHANGED <<execVars, coverVars, targetVars, messageVars, cacheVars, depVars, stateVars,
                 queueVars, prevBranch, target, sids, sid, ret>>

ExamineStoreValue ==
  /\ step = "examine" /\ idx <= Len(branchInfos[current])
  /\ LET bi == branchInfos[current][idx]
     IN  /\ RememberValue(current, bi.bid, bi.sid)
         /\ IF isNewStoreValue(current, bi.bid, bi.sid)
            THEN Prioritise(current) /\ idx' = idx + 1 /\ UNCHANGED branchInfos
            ELSE /\ branchInfos' = [branchInfos EXCEPT ![current] = erase(@, idx)]
                 /\ UNCHANGED <<queueVars, idx>>
  /\ UNCHANGED <<execVars, coverVars, targetVars, messageVars, depVars, reachStore, reachBranch,
                 coveredNew, step, prevBranch, target, sids, sid, ret>>

\* Slip: reachStore is not reset.
StoreStillReached ==
  /\ step = "examine" /\ idx > Len(branchInfos[current])
  /\ newBranchNumFromStore' = 0
  /\ step' = "partly" /\ idx' = 1
  /\ UNCHANGED <<execVars, coverVars, targetVars, newFullyCoveredBranch,
                 newPartlyCoveredBranch, updateTargetBranch, cacheVars, depVars, stateVars,
                 queueVars, prevBranch, target, sids, sid, ret>>
StoreValuesExamined ==
  /\ step = "examine" /\ idx > Len(branchInfos[current])
  /\ newBranchNumFromStore' = 0
  /\ reachStore' = [reachStore EXCEPT ![current] = FALSE]
  /\ step' = "partly" /\ idx' = 1
  /\ UNCHANGED <<execVars, coverVars, targetVars, newFullyCoveredBranch,
                 newPartlyCoveredBranch, updateTargetBranch, cacheVars, depVars, branchInfos,
                 storeValues, reachBranch, coveredNew, queueVars, prevBranch, target, sids,
                 sid, ret>>

\* A new partly covered branch: the last target is handled.
NewPartlyCovered ==
  /\ step = "partly"
  /\ IF TB # <<>> /\ newPartlyCoveredBranch
     THEN step' = "claim" /\ target' = back(TB) /\ sids' = Dep[back(TB)] /\ ret' = "partlyDone"
     ELSE step' = "retarget" /\ UNCHANGED <<target, sids, ret>>
  /\ UNCHANGED <<execVars, coverVars, targetVars, messageVars, cacheVars, depVars, stateVars,
                 queueVars, prevBranch, sid, idx>>

PartlyCoveredHandled ==
  /\ step = "partlyDone"
  /\ newPartlyCoveredBranch' = FALSE
  /\ step' = "retarget" /\ ret' = "select"
  /\ UNCHANGED <<execVars, coverVars, targetVars, newFullyCoveredBranch, updateTargetBranch,
                 newBranchNumFromStore, cacheVars, depVars, stateVars, queueVars, prevBranch,
                 target, sids, sid, idx>>

(***************************************************************************)
(* handlePartlyCoveredBranch(current, target), first loop: the values      *)
(* current already stored are looked up, and current gets one branchInfo   *)
(* per store the branch depends on.                                        *)
(***************************************************************************)
ClaimStore ==
  /\ step = "claim"
  /\ \E t \in sids :
       /\ sids' = sids \ {t}
       /\ IF storeValues[current][t] # NoValue
          THEN RememberValue(current, target, t)
          ELSE UNCHANGED <<cacheVars, storeValues>>
       /\ branchInfos' = [branchInfos EXCEPT
                            ![current] = Append(@, [sid |-> t, bid |-> target])]
  /\ UNCHANGED <<execVars, coverVars, targetVars, messageVars, depVars, reachStore, reachBranch,
                 coveredNew, queueVars, step, prevBranch, target, sid, idx, ret>>

\* Slip: current stays in states.
ClaimedInPlace ==
  /\ step = "claim" /\ sids = {}
  /\ sids' = Dep[target] /\ step' = "pick"
  /\ UNCHANGED <<execVars, coverVars, targetVars, messageVars, cacheVars, depVars, stateVars,
                 queueVars, prevBranch, target, sid, idx, ret>>
Claimed ==
  /\ step = "claim" /\ sids = {}
  /\ Prioritise(current)
  /\ sids' = Dep[target] /\ step' = "pick"
  /\ UNCHANGED <<execVars, coverVars, targetVars, messageVars, cacheVars, depVars, stateVars,
                 prevBranch, target, sid, idx, ret>>

\* Second loop: for every store, every waiting state with a promising value.
PickStore ==
  /\ step = "pick"
  /\ \/ /\ sids = {} /\ step' = ret /\ sid' = NULL /\ target' = NULL
        /\ UNCHANGED sids
     \/ /\ \E t \in sids : sid' = t /\ sids' = sids \ {t}
        /\ step' = "find" /\ UNCHANGED target
  /\ idx' = 1
  /\ UNCHANGED <<execVars, coverVars, targetVars, messageVars, cacheVars, depVars, stateVars,
                 queueVars, prevBranch, ret>>

FindState ==
  /\ step = "find" /\ idx <= Len(states)
  /\ LET s == states[idx]
         known == s # current /\ storeValues[s][sid] # NoValue
     IN  /\ IF known THEN RememberValue(s, target, sid) ELSE UNCHANGED <<cacheVars, storeValues>>
         /\ IF known /\ isNewStoreValue(s, target, sid)
            THEN /\ reachBranch' = [reachBranch EXCEPT ![s] = FALSE]
                 /\ reachStore' = [reachStore EXCEPT ![s] = FALSE]
                 /\ branchInfos' = [branchInfos EXCEPT
                                      ![s] = Append(@, [sid |-> sid, bid |-> target])]
                 /\ states' = erase(states, idx)
                 /\ branch_states' = Append(branch_states, s)
                 /\ UNCHANGED idx
            ELSE idx' = idx + 1 /\ UNCHANGED <<reachBranch, reachStore, branchInfos, queueVars>>
  /\ UNCHANGED <<execVars, coverVars, targetVars, messageVars, depVars, coveredNew, step,
                 prevBranch, target, sids, sid, ret>>

StatesFound ==
  /\ step = "find" /\ idx > Len(states)
  /\ step' = "pick" /\ idx' = 1
  /\ UNCHANGED <<execVars, coverVars, targetVars, messageVars, cacheVars, depVars, stateVars,
                 queueVars, prevBranch, target, sids, sid, ret>>

(***************************************************************************)
(* Re-targeting: every state in branch_states loses its branchInfos and,   *)
(* unless it covered new code, its priority; the targets are replaced by   *)
(* partly covered branches.  The handler dereferences current.             *)
(***************************************************************************)
Retarget ==
  /\ step = "retarget"
  /\ step' = IF updateTargetBranch THEN "clear" ELSE "add"
  /\ UNCHANGED <<execVars, coverVars, targetVars, messageVars, cacheVars, depVars, stateVars,
                 queueVars, prevBranch, loopVars>>

\* Slip: a state that stays keeps its branchInfos.
ClearStateKeeps ==
  /\ step = "clear" /\ idx <= Len(branch_states)
  /\ LET s == branch_states[idx]
     IN  IF coveredNew[s]
         THEN idx' = idx + 1 /\ UNCHANGED <<branchInfos, queueVars>>
         ELSE /\ branchInfos' = [branchInfos EXCEPT ![s] = <<>>]
              /\ branch_states' = erase(branch_states, idx)
              /\ states' = Append(states, s)
              /\ UNCHANGED idx
  /\ UNCHANGED <<execVars, coverVars, targetVars, messageVars, cacheVars, depVars, storeValues,
                 reachStore, reachBranch, coveredNew, step, prevBranch, target, sids, sid, ret>>
\* Slip: the iterator does not advance past a state that stays.
ClearStateStays ==
  /\ step = "clear" /\ idx <= Len(branch_states)
  /\ branchInfos' = [branchInfos EXCEPT ![branch_states[idx]] = <<>>]
  /\ IF coveredNew[branch_states[idx]]
     THEN UNCHANGED queueVars
     ELSE /\ branch_states' = erase(branch_states, idx)
          /\ states' = Append(states, branch_states[idx])
  /\ UNCHANGED <<execVars, coverVars, targetVars, messageVars, cacheVars, depVars, storeValues,
                 reachStore, reachBranch, coveredNew, step, prevBranch, loopVars>>
ClearState ==
  /\ step = "clear" /\ idx <= Len(branch_states)
  /\ LET s == branch_states[idx]
     IN  /\ branchInfos' = [branchInfos EXCEPT ![s] = <<>>]
         /\ IF coveredNew[s]
            THEN idx' = idx + 1 /\ UNCHANGED queueVars
            ELSE /\ branch_states' = erase(branch_states, idx)
                 /\ states' = Append(states, s)
                 /\ UNCHANGED idx
  /\ UNCHANGED <<execVars, coverVars, targetVars, messageVars, cacheVars, depVars, storeValues,
                 reachStore, reachBranch, coveredNew, step, prevBranch, target, sids, sid, ret>>

StatesCleared ==
  /\ step = "clear" /\ idx > Len(branch_states)
  /\ TB' = <<>> /\ idx' = 1 /\ step' = "refill"
  /\ UNCHANGED <<execVars, coverVars, PCB, FCB, messageVars, cacheVars, depVars, stateVars,
                 queueVars, prevBranch, target, sids, sid, ret>>

Refill ==
  /\ step = "refill"
  /\ IF Len(TB) < TargetBranchNum /\ PCB # <<>>
     THEN /\ TB' = Append(TB, back(PCB)) /\ PCB' = pop_back(PCB)
          /\ target' = back(PCB) /\ sids' = Dep[back(PCB)] /\ ret' = "refill"
          /\ step' = IF current = NULL THEN "crashed" ELSE "claim"
          /\ UNCHANGED updateTargetBranch
     ELSE /\ updateTargetBranch' = FALSE /\ ret' = "select" /\ step' = "add"
          /\ UNCHANGED <<TB, PCB, target, sids>>
  /\ UNCHANGED <<execVars, coverVars, FCB, newFullyCoveredBranch, newPartlyCoveredBranch,
                 newBranchNumFromStore, cacheVars, depVars, stateVars, queueVars, prevBranch,
                 sid, idx>>

(***************************************************************************)
(* New states: into branch_states if they inherited a target, or if their  *)
(* block holds a store of this function that some branch still depends on. *)
(***************************************************************************)
WantedStore == \E f \in Function : \E t \in funcStores[f] : storeToBranches[t] # {}

AddState ==
  /\ step = "add" /\ idx <= Len(addedStates)
  /\ LET s == addedStates[idx]
     IN  \E storeAhead \in IF WantedStore THEN BOOLEAN ELSE {FALSE} :
           IF current # NULL /\ (branchInfos[s] # <<>> \/ storeAhead)
           THEN branch_states' = Append(branch_states, s) /\ UNCHANGED states
           ELSE states' = Append(states, s) /\ UNCHANGED branch_states
  /\ idx' = idx + 1
  /\ UNCHANGED <<execVars, coverVars, targetVars, messageVars, cacheVars, depVars, stateVars,
                 step, prevBranch, target, sids, sid, ret>>

StatesAdded ==
  /\ step = "add" /\ idx > Len(addedStates)
  /\ step' = "remove" /\ idx' = 1
  /\ UNCHANGED <<execVars, coverVars, targetVars, messageVars, cacheVars, depVars, stateVars,
                 queueVars, prevBranch, target, sids, sid, ret>>

\* Removed states leave branch_states or, if they are not there, states.
RemoveState ==
  /\ step = "remove"
  /\ \E s \in removedStates :
       IF s \in Range(branch_states)
       THEN branch_states' = Without(branch_states, s) /\ UNCHANGED states
       ELSE s \in Range(states) /\ states' = Without(states, s) /\ UNCHANGED branch_states
  /\ UNCHANGED <<execVars, coverVars, targetVars, messageVars, cacheVars, depVars, stateVars,
                 step, prevBranch, loopVars>>

StatesRemoved ==
  /\ step = "remove"
  /\ removedStates \cap (Range(branch_states) \cup Range(states)) = {}
  /\ step' = "commit"
  /\ UNCHANGED <<execVars, coverVars, targetVars, messageVars, cacheVars, depVars, stateVars,
                 queueVars, prevBranch, loopVars>>

UpdateNext ==
  \/ Rotate \/ ReachBranch \/ HandleFullyCovered \/ FullyCoveredHandled
  \/ ReachStore \/ ExamineStoreValue \/ StoreValuesExamined
  \/ NewPartlyCovered \/ PartlyCoveredHandled
  \/ ClaimStore \/ Claimed \/ PickStore \/ FindState \/ StatesFound
  \/ Retarget \/ ClearState \/ StatesCleared \/ Refill
  \/ AddState \/ StatesAdded \/ RemoveState \/ StatesRemoved
=============================================================================
