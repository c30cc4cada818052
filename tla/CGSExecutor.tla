---------------------------- MODULE CGSExecutor ----------------------------
(***************************************************************************)
(* The executor's side of CGS: the interpreter loop (Executor::run), what  *)
(* fork and terminateState do to the lists of changed states, and the      *)
(* hooks in the br, switch and store handlers of executeInstruction.       *)
(***************************************************************************)
EXTENDS CGSState

Fresh == State \ (execStates \cup Range(addedStates))
Capped(n) == IF n > MaxReach THEN MaxReach + 1 ELSE n

\* A deleted state's address may be handed out again; nothing of it is left.
Deleted(gone) ==
  /\ branchInfos' = [s \in State |-> IF s \in gone THEN <<>> ELSE branchInfos[s]]
  /\ storeValues' = [s \in State |-> IF s \in gone THEN NoStores ELSE storeValues[s]]
  /\ reachStore' = [s \in State |-> s \notin gone /\ reachStore[s]]
  /\ reachBranch' = [s \in State |-> s \notin gone /\ reachBranch[s]]
  /\ coveredNew' = [s \in State |-> s \notin gone /\ coveredNew[s]]

\* StatsTracker::stepInstruction: whether the instruction was never executed before.
CoversNewCode == {FALSE, "new code" \in Allowed}

(***************************************************************************)
(* CGSSearcher::selectState, called at the head of the loop, followed by   *)
(* stepInstruction, which sets coveredNew when the instruction is new.     *)
(* front() of an empty vector is undefined: the run is over.               *)
(***************************************************************************)
SelectState ==
  /\ step = "select" /\ execStates # {}
  /\ IF branch_states = <<>> /\ states = <<>>
     THEN step' = "crashed" /\ UNCHANGED <<current, coveredNew>>
     ELSE LET e == IF branch_states # <<>> THEN Head(branch_states) ELSE Head(states)
          IN  /\ current' = e /\ step' = "exec"
              /\ \E new \in CoversNewCode : coveredNew' = [coveredNew EXCEPT ![e] = @ \/ new]
  /\ UNCHANGED <<execStates, addedStates, removedStates, coverVars, targetVars,
                 messageVars, cacheVars, depVars, branchInfos, storeValues,
                 reachStore, reachBranch, queueVars, prevBranch, loopVars>>

\* The loop ends when no state is left or haltExecution was set: the searcher is
\* deleted, then doDumpStates terminates what is left (with --dump-states-on-halt).
Halt ==
  /\ step = "select"
  /\ step' = "done"
  /\ states' = <<>> /\ branch_states' = <<>>
  /\ execStates' = {} /\ Deleted(execStates)
  /\ UNCHANGED <<addedStates, removedStates, current, coverVars, targetVars, messageVars,
                 cacheVars, depVars, prevBranch, loopVars>>

(***************************************************************************)
(* fork and branch: a copy of the state, with coveredNew cleared, joins    *)
(* addedStates.  One instruction may fork several times, also from a copy  *)
(* after the selected state was terminated; the copies are alike.          *)
(***************************************************************************)
Fork ==
  /\ step = "exec" /\ "fork" \in Allowed
  /\ Alive \/ addedStates # <<>>
  /\ \E c \in Fresh :
       /\ addedStates' = Append(addedStates, c)
       /\ branchInfos' = [branchInfos EXCEPT ![c] = branchInfos[current]]
       /\ storeValues' = [storeValues EXCEPT ![c] = storeValues[current]]
       /\ reachStore' = [reachStore EXCEPT ![c] = reachStore[current]]
       /\ reachBranch' = [reachBranch EXCEPT ![c] = reachBranch[current]]
       /\ coveredNew' = [coveredNew EXCEPT ![c] = FALSE]
  /\ UNCHANGED <<execStates, removedStates, current, coverVars, targetVars, messageVars,
                 cacheVars, depVars, queueVars, step, prevBranch, loopVars>>

\* terminateState on a state the searcher knows.
TerminateCurrent ==
  /\ step = "exec" /\ Alive /\ "exit" \in Allowed
  /\ removedStates' = removedStates \cup {current}
  /\ UNCHANGED <<execStates, addedStates, current, coverVars, targetVars, messageVars,
                 cacheVars, depVars, stateVars, queueVars, step, prevBranch, loopVars>>

\* terminateState on a state created by this instruction: deleted at once.
TerminateAdded ==
  /\ step = "exec" /\ "exit" \in Allowed
  /\ \E i \in DOMAIN addedStates :
       /\ addedStates' = erase(addedStates, i)
       /\ Deleted({addedStates[i]})
  /\ UNCHANGED <<execStates, removedStates, current, coverVars, targetVars, messageVars,
                 cacheVars, depVars, queueVars, step, prevBranch, loopVars>>

(***************************************************************************)
(* The part the br and switch handlers share.  b is a branch the executor  *)
(* still follows, taken concretely; seen' is already known.  The branch    *)
(* becomes a target or a partly covered branch the first time (step 1 of   *)
(* the algorithm), or fully covered (step 3).                              *)
(***************************************************************************)
\* Slip: one target too many.
NewTargetOverfull(b) ==
  /\ IF Len(TB) <= TargetBranchNum
     THEN TB' = Append(TB, b) /\ newPartlyCoveredBranch' = TRUE /\ UNCHANGED PCB
     ELSE PCB' = Append(PCB, b) /\ UNCHANGED <<TB, newPartlyCoveredBranch>>
  /\ UNCHANGED <<FCB, newFullyCoveredBranch>>
NewTarget(b) ==
  /\ IF Len(TB) < TargetBranchNum
     THEN TB' = Append(TB, b) /\ newPartlyCoveredBranch' = TRUE /\ UNCHANGED PCB
     ELSE PCB' = Append(PCB, b) /\ UNCHANGED <<TB, newPartlyCoveredBranch>>
  /\ UNCHANGED <<FCB, newFullyCoveredBranch>>

\* Slip: no partly covered branch takes the free place.
NewlyCoveredUnpromoted(b) ==
  /\ FCB' = Append(FCB, b)
  /\ newFullyCoveredBranch' = TRUE
  /\ TB' = Without(TB, b) /\ PCB' = Without(PCB, b)
  /\ UNCHANGED newPartlyCoveredBranch
NewlyCovered(b) ==
  /\ FCB' = Append(FCB, b)
  /\ newFullyCoveredBranch' = TRUE
  /\ LET rest == Without(TB, b)
     IN  IF b \in Range(TB) /\ PCB # <<>>
         THEN /\ TB' = Append(rest, back(PCB)) /\ PCB' = pop_back(PCB)
              /\ newPartlyCoveredBranch' = TRUE
         ELSE /\ TB' = rest
              /\ PCB' = IF b \in Range(TB) THEN PCB ELSE Without(PCB, b)
              /\ UNCHANGED newPartlyCoveredBranch

FollowBranch(b, o, concreteOperands) ==
  LET reached == Targets(current, b)
      hits    == IF reached THEN reachBranchCount[b] + 1 ELSE reachBranchCount[b]
      bad     == IF reached /\ hits > MaxReach THEN invalidBranches \cup {b}
                                               ELSE invalidBranches
      covered == Outcome[b] \subseteq seen'[b]
      first   == /\ ~covered /\ b \notin bad /\ Dep[b] # {}
                 /\ b \notin Range(TB) \cup Range(PCB)
      overHit == hits > 0 /\ hits + 1 > MaxReach
      admit   == first /\ ~overHit /\ concreteOperands
  IN  /\ reachBranch' = [reachBranch EXCEPT ![current] = @ \/ reached]
      /\ reachBranchCount' = [reachBranchCount EXCEPT
                                ![b] = Capped(IF first THEN hits + 1 ELSE hits)]
      /\ invalidBranches' = IF first /\ ~admit THEN bad \cup {b} ELSE bad
      /\ unCoveredPred' = IF admit /\ b \notin SwitchBranch
                          THEN [unCoveredPred EXCEPT ![b] = CHOOSE x \in Outcome[b] : x # o]
                          ELSE unCoveredPred
      /\ IF admit THEN NewTarget(b)
         ELSE IF covered /\ b \notin Range(FCB) THEN NewlyCovered(b)
         ELSE UNCHANGED <<targetVars, newFullyCoveredBranch, newPartlyCoveredBranch>>
      /\ prevBranch' = b

\* Without aliases the branch goes where the recorded store values take it.
Plausible(b, o) ==
  LET known    == {t \in Dep[b] : storeValues[current][t] # NoValue}
      contrary == {t \in known : Takes[b][Arith[b][storeValues[current][t]]] # o}
  IN  "alias" \notin Allowed => contrary = {}

\* A br with a constant condition, taken to outcome o.
ConcreteBr(b, o, concreteOperands) ==
  /\ step = "exec" /\ Alive /\ addedStates = <<>> /\ Plausible(b, o)
  /\ seen' = [seen EXCEPT ![b] = @ \cup {o}]
  /\ coveredNew' = [coveredNew EXCEPT ![current] = @ \/ o \notin seen[b]]
  /\ IF b \in BI2ID
     THEN FollowBranch(b, o, concreteOperands)
     ELSE UNCHANGED <<reachBranch, reachBranchCount, invalidBranches, unCoveredPred,
                      targetVars, newFullyCoveredBranch, newPartlyCoveredBranch, prevBranch>>
  /\ step' = "rotate"
  /\ UNCHANGED <<execVars, BI2ID, updateTargetBranch, newBranchNumFromStore, cacheVars,
                 depVars, branchInfos, storeValues, reachStore, queueVars, loopVars>>

(***************************************************************************)
(* A br with a symbolic condition is never followed again.  It may have    *)
(* forked (both outcomes seen), been decided one way, or been given up     *)
(* (solver timeout, maximal depth) with the state terminated.              *)
(***************************************************************************)
SymbolicBr(b, o) ==
  /\ step = "exec" /\ "symbolic" \in Allowed /\ Len(addedStates) <= 1
  /\ Alive \/ addedStates = <<>>
  /\ LET other == CHOOSE x \in Outcome[b] : x # o
         here  == IF Alive THEN {o} ELSE {}
         there == IF addedStates = <<>> THEN {} ELSE {other}
         fresh == {s \in {current} : here \ seen[b] # {}} \cup
                  {s \in Range(addedStates) : other \notin seen[b]}
     IN  /\ seen' = [seen EXCEPT ![b] = @ \cup here \cup there]
         /\ coveredNew' = [s \in State |-> coveredNew[s] \/ s \in fresh]
  /\ BI2ID' = BI2ID \ {b}
  /\ step' = "rotate"
  /\ UNCHANGED <<execVars, unCoveredPred, invalidBranches, reachBranchCount, targetVars,
                 messageVars, cacheVars, depVars, branchInfos, storeValues, reachStore,
                 reachBranch, queueVars, prevBranch, loopVars>>

\* A switch on a constant; o is a case or the default destination.
ConcreteSwitch(b, o) ==
  /\ step = "exec" /\ Alive /\ addedStates = <<>> /\ Plausible(b, o)
  /\ seen' = [seen EXCEPT ![b] = @ \cup ({o} \cap Outcome[b])]
  /\ FollowBranch(b, o, TRUE)
  /\ step' = "rotate"
  /\ UNCHANGED <<execVars, BI2ID, updateTargetBranch, newBranchNumFromStore, cacheVars,
                 depVars, branchInfos, storeValues, reachStore, coveredNew, queueVars, loopVars>>

\* Slip: the former value is dropped after the new one is recorded.
DropsLast(values, t, s, v) == [[values EXCEPT ![s] = v] EXCEPT ![t] = NoValue]
\* A former value, of store t, makes room for the value of store s.
Replaced(values, t, s, v) == [[values EXCEPT ![t] = NoValue] EXCEPT ![s] = v]

(***************************************************************************)
(* A store of a constant.  The memory operation comes first and may have   *)
(* terminated the state; the hook runs all the same.  One recorded value   *)
(* of a store to the same variable is dropped, with the first branchInfo   *)
(* of that store; then the loop over the target branches starts.           *)
(***************************************************************************)
StoreInst(s, v) ==
  /\ step = "exec"
  /\ Alive \/ s \in FaultyStores
  /\ Len(branchInfos[current]) < MaxInfos /\ newBranchNumFromStore < MaxInfos
  /\ LET former == {t \in storesWithSameVar(s) : storeValues[current][t] \notin {NoValue, v}}
         mine   == storeValues[current]
     IN  \/ /\ former = {}
            /\ storeValues' = [storeValues EXCEPT ![current] = [mine EXCEPT ![s] = v]]
            /\ UNCHANGED branchInfos
         \/ \E t \in former :
            /\ storeValues' = [storeValues EXCEPT ![current] = Replaced(mine, t, s, v)]
            /\ branchInfos' = [branchInfos EXCEPT
                                 ![current] = EraseFirst(@, {i \in DOMAIN @ : @[i].sid = t})]
  /\ IF TB = <<>> THEN step' = "rotate" /\ UNCHANGED <<sid, idx>>
                  ELSE step' = "storeLoop" /\ sid' = s /\ idx' = 1
  /\ UNCHANGED <<execVars, coverVars, targetVars, messageVars, cacheVars, depVars, reachStore,
                 reachBranch, coveredNew, queueVars, prevBranch, target, sids, ret>>

\* One target branch; looking a branch up in invalidStoreValues makes it a key.
StoreLoop ==
  /\ step = "storeLoop"
  /\ LET b == TB[idx]
         v == storeValues[current][sid]
     IN  /\ invalidKeys' = invalidKeys \cup {b}
         /\ IF v \notin invalidStoreValues[b] /\ sid \in Dep[b]
            THEN /\ reachStore' = [reachStore EXCEPT ![current] = TRUE]
                 /\ reachBranch' = [reachBranch EXCEPT ![current] = FALSE]
                 /\ branchInfos' = [branchInfos EXCEPT
                                      ![current] = Append(@, [sid |-> sid, bid |-> b])]
                 /\ newBranchNumFromStore' = newBranchNumFromStore + 1
            ELSE UNCHANGED <<reachStore, reachBranch, branchInfos, newBranchNumFromStore>>
  /\ IF idx < Len(TB) THEN idx' = idx + 1 /\ UNCHANGED <<step, sid>>
                      ELSE idx' = 1 /\ step' = "rotate" /\ sid' = NULL
  /\ UNCHANGED <<execVars, coverVars, targetVars, newFullyCoveredBranch,
                 newPartlyCoveredBranch, updateTargetBranch, invalidStoreValues,
                 validStoreValues, depVars, storeValues, coveredNew, queueVars, prevBranch,
                 target, sids, ret>>

\* Every other instruction, after the forks and terminations it caused.
OtherInst ==
  /\ step = "exec"
  /\ step' = "rotate"
  /\ UNCHANGED <<execVars, coverVars, targetVars, messageVars, cacheVars, depVars,
                 stateVars, queueVars, prevBranch, loopVars>>

(***************************************************************************)
(* The rest of updateStates, after the searcher was told.                  *)
(***************************************************************************)
UpdateStates ==
  /\ step = "commit"
  /\ execStates' = (execStates \cup Range(addedStates)) \ removedStates
  /\ Deleted(removedStates)
  /\ addedStates' = <<>> /\ removedStates' = {} /\ prevBranch' = NULL
  /\ IF current = NULL THEN step' = "tick" ELSE step' = "memory"
  /\ UNCHANGED <<current, coverVars, targetVars, messageVars, cacheVars, depVars,
                 queueVars, loopVars>>

\* Slip: a kill that already asks for new targets.
CheckMemoryRetargets ==
  /\ step = "memory"
  /\ current' = NULL
  /\ \/ removedStates' = {} /\ step' = "tick" /\ UNCHANGED updateTargetBranch
     \/ /\ "memory" \in Allowed /\ updateTargetBranch' = TRUE
        /\ removedStates' \in (SUBSET execStates) \ {{}} /\ step' = "rotate"
  /\ UNCHANGED <<execStates, addedStates, coverVars, targetVars, newFullyCoveredBranch,
                 newPartlyCoveredBranch, newBranchNumFromStore, cacheVars, depVars,
                 stateVars, queueVars, prevBranch, loopVars>>
\* checkMemoryUsage: nothing to do, or some states are killed and update(nullptr) runs.
CheckMemoryUsage ==
  /\ step = "memory"
  /\ current' = NULL
  /\ \/ removedStates' = {} /\ step' = "tick"
     \/ /\ "memory" \in Allowed
        /\ removedStates' \in (SUBSET execStates) \ {{}} /\ step' = "rotate"
  /\ UNCHANGED <<execStates, addedStates, coverVars, targetVars, messageVars, cacheVars,
                 depVars, stateVars, queueVars, prevBranch, loopVars>>

\* The end of the loop body: every TargetBranchUpdateInsts instructions, new targets.
Tick ==
  /\ step = "tick"
  /\ \/ updateTargetBranch' = TRUE /\ "retarget" \in Allowed
     \/ UNCHANGED updateTargetBranch
  /\ step' = "select"
  /\ UNCHANGED <<execVars, coverVars, targetVars, newFullyCoveredBranch,
                 newPartlyCoveredBranch, newBranchNumFromStore, cacheVars, depVars,
                 stateVars, queueVars, prevBranch, loopVars>>

BrBranch == Branch \ SwitchBranch
ExecutorNext ==
  \/ SelectState \/ Halt \/ Fork \/ TerminateCurrent \/ TerminateAdded
  \/ \E b \in BrBranch : \E o \in Outcome[b], c \in {TRUE, "mixed" \notin Allowed} :
        ConcreteBr(b, o, c)
  \/ \E b \in BrBranch : \E o \in Outcome[b] : SymbolicBr(b, o)
  \/ \E b \in SwitchBranch : \E o \in Outcome[b] \cup {Default} : ConcreteSwitch(b, o)
  \/ \E s \in Store, v \in Value : StoreInst(s, v)
  \/ StoreLoop \/ OtherInst \/ UpdateStates \/ CheckMemoryUsage \/ Tick
=============================================================================
