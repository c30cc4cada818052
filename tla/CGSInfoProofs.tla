--------------------------- MODULE CGSInfoProofs ---------------------------
(***************************************************************************)
(* The branchInfos of the states: how many of them a store added, whether  *)
(* their values are known, and which branches they name.  Some of this     *)
(* holds for part of the programs under test only: the theorems say which. *)
(***************************************************************************)
EXTENDS CGSEventProofs

(***************************************************************************)
(* If no store terminates its state, newBranchNumFromStore is the number   *)
(* of branchInfos the store just added to the selected state, which update *)
(* examines before anything else happens to them.                          *)
(***************************************************************************)
CountInv ==
  /\ step # "crashed"
  /\ step = "storeLoop" => Alive
  /\ newBranchNumFromStore > 0 =>
       /\ step \in {"storeLoop", "rotate", "reach", "store", "examine"} /\ Alive
       /\ reachStore[current] /\ ~reachBranch[current]
       /\ step # "examine" => newBranchNumFromStore <= Len(branchInfos[current])

\* A step away from the store and the sections that examine its infos.
LEMMA CountZero ==
  ASSUME TypeOK, CountInv, step \notin {"storeLoop", "rotate", "reach", "store", "examine"},
         newBranchNumFromStore' = newBranchNumFromStore, step' \notin {"crashed", "storeLoop"}
  PROVE  CountInv' /\ newBranchNumFromStore = 0
<1>1. newBranchNumFromStore \in Nat
  BY DEF TypeOK, MessageType
<1>2. newBranchNumFromStore = 0
  BY <1>1 DEF CountInv
<1> QED BY <1>2 DEF CountInv

\* The executor's steps; a state can be selected because the queues hold the live ones.
LEMMA ExecutorCount ==
  ASSUME TypeOK, Relied, QInv, CountInv, FaultyStores = {}, ExecutorNext
  PROVE  CountInv'
<1>1. CASE SelectState
  <2>1. /\ step = "select" /\ execStates # {} /\ newBranchNumFromStore' = newBranchNumFromStore
        /\ step' = "exec" \/ (branch_states = <<>> /\ states = <<>>)
    BY <1>1, Zenon DEF SelectState, messageVars
  <2>2. Range(states) \cup Range(branch_states) = execStates
    BY <2>1 DEF QInv, PoolFollows, Idle, pool
  <2>3. ~(branch_states = <<>> /\ states = <<>>)
    <3>1. Range(<<>>) = {}
      BY EmptySeq, EmptyRange, Zenon
    <3> QED BY <2>1, <2>2, <3>1, Zenon
  <2> QED BY <2>1, <2>3, CountZero, ZenonT(40)
<1>2. CASE Halt \/ Fork \/ TerminateCurrent \/ TerminateAdded \/ OtherInst
  <2>1. /\ step \in {"select", "exec"} /\ step' \in {"done", "exec", "rotate"}
        /\ newBranchNumFromStore' = newBranchNumFromStore
    BY <1>2, Zenon DEF Halt, Fork, TerminateCurrent, TerminateAdded, OtherInst, messageVars
  <2> QED BY <2>1, CountZero
<1>3. CASE Handlers
  <2>1. step = "exec" /\ step' = "rotate" /\ newBranchNumFromStore' = newBranchNumFromStore
    BY <1>3, Zenon DEF Handlers, ConcreteBr, ConcreteSwitch, SymbolicBr, messageVars
  <2> QED BY <2>1, CountZero
<1>4. CASE UpdateStates \/ CheckMemoryUsage \/ Tick
  <2>1. /\ step \in {"commit", "memory", "tick"} /\ step' \in {"memory", "tick", "rotate", "select"}
        /\ newBranchNumFromStore' = newBranchNumFromStore
    BY <1>4, Zenon DEF UpdateStates, CheckMemoryUsage, Tick, messageVars
  <2> QED BY <2>1, CountZero
<1>5. CASE \E s \in Store, v \in Value : StoreInst(s, v)
  <2>1. /\ step = "exec" /\ step' \in {"rotate", "storeLoop"} /\ Alive
        /\ UNCHANGED <<execVars, newBranchNumFromStore>>
    BY <1>5, Zenon DEF StoreInst, messageVars
  <2>2. newBranchNumFromStore = 0
    BY <2>1 DEF CountInv, TypeOK, MessageType
  <2> QED BY <2>1, <2>2 DEF CountInv, Alive, execVars
<1>6. CASE StoreLoop
  <2>1. /\ step = "storeLoop" /\ step' \in {"storeLoop", "rotate"} /\ UNCHANGED execVars
        /\ \/ UNCHANGED <<reachStore, reachBranch, branchInfos, newBranchNumFromStore>>
           \/ /\ reachStore' = [reachStore EXCEPT ![current] = TRUE]
              /\ reachBranch' = [reachBranch EXCEPT ![current] = FALSE]
              /\ branchInfos' = [branchInfos EXCEPT ![current] =
                                   Append(branchInfos[current], [sid |-> sid, bid |-> TB[idx]])]
              /\ newBranchNumFromStore' = newBranchNumFromStore + 1
    BY <1>6, Zenon DEF StoreLoop
  <2>2. Alive' /\ Alive
    BY <2>1 DEF CountInv, Alive, execVars
  <2>3. CASE UNCHANGED <<reachStore, reachBranch, branchInfos, newBranchNumFromStore>>
    BY <2>1, <2>2, <2>3, ZenonT(40) DEF CountInv, execVars
  <2>4. CASE ~UNCHANGED <<reachStore, reachBranch, branchInfos, newBranchNumFromStore>>
    <3>1. /\ current \in State /\ sid \in Store /\ idx \in 1 .. Len(TB) /\ TB \in Seq(Branch)
          /\ newBranchNumFromStore \in Nat /\ reachStore \in [State -> BOOLEAN]
          /\ reachBranch \in [State -> BOOLEAN] /\ branchInfos \in [State -> Seq(BranchInfo)]
      BY <2>1 DEF Relied, TypeOK, TargetType, MessageType, StateType
    <3>2. [sid |-> sid, bid |-> TB[idx]] \in BranchInfo
      BY <3>1, ElementOfSeq, ZenonT(40) DEF BranchInfo
    <3>3. branchInfos[current] \in Seq(BranchInfo) /\ Len(branchInfos[current]) \in Nat
      BY <3>1, BranchInfoSeq, ZenonT(40)
    <3>4. /\ Len(branchInfos'[current]) = Len(branchInfos[current]) + 1
          /\ reachStore'[current] /\ ~reachBranch'[current]
      BY <2>1, <2>4, <3>1, <3>2, <3>3, AppendProperties, SMTT(30)
    <3>5. newBranchNumFromStore <= Len(branchInfos[current])
      BY <2>1, <3>1, <3>3 DEF CountInv
    <3>6. newBranchNumFromStore' <= Len(branchInfos'[current])
      BY <2>1, <2>4, <3>1, <3>3, <3>4, <3>5, SMTT(30)
    <3> QED BY <2>1, <2>2, <3>4, <3>6, SMTT(30) DEF CountInv, execVars
  <2> QED BY <2>3, <2>4
<1> QED BY <1>1, <1>2, <1>3, <1>4, <1>5, <1>6, Zenon DEF ExecutorNext, Handlers

\* The sections of update: the iterators they compute are within the vectors.
LEMMA UpdateCount ==
  ASSUME TypeOK, Relied, QInv, CurrentInv, CountInv, UpdateNext
  PROVE  CountInv'
<1>0. newBranchNumFromStore \in Nat /\ (step = "store" => Len(branchInfos[current]) \in Nat)
  BY BranchInfoSeq, ZenonT(40) DEF TypeOK, MessageType, Relied
<1>1. CASE Rotate
  <2>1. /\ step = "rotate" /\ UNCHANGED <<execVars, messageVars, stateVars>>
        /\ \/ ~Alive /\ step' = "retarget"
           \/ Alive /\ step' = "reach"
           \/ Alive /\ step' = "crashed" /\ current \notin Selected
    BY <1>1, Zenon DEF Rotate, Selected
  <2>2. step' # "crashed"
    BY <2>1 DEF CurrentInv, Alive
  <2> QED BY <1>0, <2>1, <2>2, ZenonT(40) DEF CountInv, Alive, execVars, messageVars, stateVars
<1>2. CASE ReachBranch
  <2>1. /\ step = "reach" /\ UNCHANGED <<execVars, messageVars, reachStore>>
        /\ \/ step' = "store" /\ UNCHANGED <<branchInfos, reachBranch>>
           \/ reachBranch[current] /\ step' \in {"fully", "store"}
    BY <1>2, Zenon DEF ReachBranch
  <2> QED BY <1>0, <2>1, ZenonT(40) DEF CountInv, Alive, execVars, messageVars
<1>3. CASE ReachStore
  <2>1. /\ step = "store" /\ UNCHANGED <<execVars, messageVars, stateVars>>
        /\ \/ ~reachStore[current] /\ step' = "partly"
           \/ newBranchNumFromStore > Len(branchInfos[current]) /\ step' = "crashed"
           \/ step' = "examine"
    BY <1>3, Zenon DEF ReachStore
  <2>2. ~(newBranchNumFromStore > Len(branchInfos[current]))
    BY <1>0, <2>1 DEF CountInv
  <2> QED BY <1>0, <2>1, <2>2, ZenonT(40) DEF CountInv, Alive, execVars, messageVars, stateVars
<1>4. CASE ExamineStoreValue
  <2>1. /\ step = "examine" /\ step' = "examine"
        /\ UNCHANGED <<execVars, messageVars, reachStore, reachBranch>>
    BY <1>4, Zenon DEF ExamineStoreValue
  <2> QED BY <2>1 DEF CountInv, Alive, execVars, messageVars
<1>5. CASE StoreValuesExamined
  <2>1. step' = "partly" /\ newBranchNumFromStore' = 0
    BY <1>5, Zenon DEF StoreValuesExamined
  <2> QED BY <2>1 DEF CountInv
<1>6. CASE HandleFullyCovered \/ FullyCoveredHandled \/ NewPartlyCovered \/ PartlyCoveredHandled
  <2>1. /\ step \in {"fully", "partly", "partlyDone"}
        /\ step' \in {"fully", "store", "claim", "retarget"}
        /\ newBranchNumFromStore' = newBranchNumFromStore
    BY <1>6, Zenon DEF HandleFullyCovered, FullyCoveredHandled, NewPartlyCovered,
       PartlyCoveredHandled, messageVars
  <2> QED BY <2>1, CountZero, ZenonT(40)
<1>7. CASE ClaimStore \/ Claimed \/ PickStore \/ FindState \/ StatesFound
  <2>1. /\ step \in {"claim", "pick", "find"} /\ step' \in {"claim", "pick", "find", ret}
        /\ newBranchNumFromStore' = newBranchNumFromStore
    BY <1>7, Zenon DEF ClaimStore, Claimed, PickStore, FindState, StatesFound, messageVars
  <2>2. ret \in {"partlyDone", "refill"}
    BY <2>1 DEF QInv, Positions
  <2> QED BY <2>1, <2>2, CountZero, ZenonT(40)
<1>8. CASE Retarget \/ ClearState \/ StatesCleared \/ Refill
  <2>1. /\ step \in {"retarget", "clear", "refill"}
        /\ step' \in {"clear", "add", "refill", "claim", "crashed"}
        /\ step' = "crashed" => step = "refill" /\ current = NULL
        /\ newBranchNumFromStore' = newBranchNumFromStore
    BY <1>8, Zenon DEF Retarget, ClearState, StatesCleared, Refill, messageVars
  <2>2. step' # "crashed"
    BY <2>1 DEF CurrentInv
  <2> QED BY <2>1, <2>2, CountZero, ZenonT(40)
<1>9. CASE AddState \/ StatesAdded \/ RemoveState \/ StatesRemoved
  <2>1. /\ step \in {"add", "remove"} /\ step' \in {"add", "remove", "commit"}
        /\ newBranchNumFromStore' = newBranchNumFromStore
    BY <1>9, Zenon DEF AddState, StatesAdded, RemoveState, StatesRemoved, messageVars
  <2> QED BY <2>1, CountZero, ZenonT(40)
<1> QED BY <1>1, <1>2, <1>3, <1>4, <1>5, <1>6, <1>7, <1>8, <1>9, Zenon DEF UpdateNext

\* Every step keeps the count, if no store terminates its state.
LEMMA NextCount ==
  ASSUME BaseInv, CurrentInv, CountInv, FaultyStores = {}, [Next]_vars PROVE CountInv'
<1>0. TypeOK /\ Relied /\ QInv
  BY Zenon DEF BaseInv, TInv
<1>1. CASE UNCHANGED vars
  <2>1. UNCHANGED <<step, current, removedStates, newBranchNumFromStore, reachStore, reachBranch,
                    branchInfos>>
    BY <1>1, ZenonT(40) DEF vars, execVars, messageVars, stateVars
  <2> QED BY <2>1, Zenon DEF CountInv, Alive
<1> QED BY <1>0, <1>1, ExecutorCount, UpdateCount, Zenon DEF Next, Ended

\* Initially nothing is counted.
LEMMA InitCount == Init => CountInv
BY DEF Init, CountInv

(***************************************************************************)
(* If no store terminates its state, update meets no undefined behaviour:  *)
(* it erases iterators it found, examines branchInfos that exist, selects  *)
(* from a queue that is not empty and never re-targets without a current.  *)
(***************************************************************************)
THEOREM UpdateIsDefined == ASSUME FaultyStores = {} PROVE Spec => []NoUndefinedBehaviour
<1>1. BaseInv /\ CurrentInv /\ CountInv /\ [Next]_vars => BaseInv' /\ CurrentInv' /\ CountInv'
  BY NextBase, NextCurrent, NextCount, ZenonT(40)
<1>2. CountInv => NoUndefinedBehaviour
  BY DEF CountInv, NoUndefinedBehaviour
<1> QED BY InitBase, InitCurrent, InitCount, <1>1, <1>2, PTL DEF Spec

(***************************************************************************)
(* The value of a store is recorded before the infos that name it, and     *)
(* update examines them before a covered branch drops recorded values.     *)
(* KnownFrom(n): the selected state's infos after the n-th have a value.   *)
(***************************************************************************)
KnownFrom(n) ==
  current # NULL => \A i \in DOMAIN branchInfos[current] :
    i > n => storeValues[current][branchInfos[current][i].sid] # NoValue
KnownInv ==
  /\ step = "storeLoop" => storeValues[current][sid] # NoValue
  /\ step \in {"storeLoop", "rotate", "reach", "store"} =>
       KnownFrom(Len(branchInfos[current]) - newBranchNumFromStore)
  /\ step = "examine" => KnownFrom(idx - 1)

\* Where no store is being handled there is no value to know.
LEMMA NothingToKnow ==
  ASSUME TypeOK', step' \notin {"storeLoop", "examine"},
         step' \in {"rotate", "reach", "store"} => newBranchNumFromStore' = 0
  PROVE  KnownInv'
<1> SUFFICES ASSUME step' \in {"rotate", "reach", "store"}, current' # NULL,
                    NEW i \in DOMAIN (branchInfos[current])'
             PROVE  ~(i > (Len(branchInfos[current]) - newBranchNumFromStore)')
  BY DEF KnownInv, KnownFrom
<1>1. current' \in State /\ branchInfos' \in [State -> Seq(BranchInfo)]
  BY DEF TypeOK, ExecType, StateType
<1>2. branchInfos'[current'] \in Seq(BranchInfo)
  BY <1>1
<1>3. DOMAIN branchInfos'[current'] = 1 .. Len(branchInfos'[current']) /\ Len(branchInfos'[current']) \in Nat
  BY <1>2, LenProperties, ZenonT(40)
<1> QED BY <1>3

\* The infos of the selected state and their values are left alone.
LEMMA KnownSame ==
  ASSUME KnownInv, step \in {"storeLoop", "rotate", "reach", "store"},
         UNCHANGED <<current, branchInfos, storeValues, newBranchNumFromStore>>,
         step' \notin {"storeLoop", "examine"}
  PROVE  KnownInv'
BY DEF KnownInv, KnownFrom

\* The executor's steps: a store records its value first.
LEMMA ExecutorKnown ==
  ASSUME TypeOK, TypeOK', Relied, CountInv, KnownInv, FaultyStores = {}, ExecutorNext
  PROVE  KnownInv'
<1>1. CASE SelectState \/ Halt \/ Fork \/ TerminateCurrent \/ TerminateAdded \/ UpdateStates \/ Tick
  <2>1. step' \in {"crashed", "exec", "done", "memory", "tick", "select"}
    BY <1>1, Zenon DEF SelectState, Halt, Fork, TerminateCurrent, TerminateAdded, UpdateStates, Tick
  <2> QED BY <2>1, NothingToKnow, ZenonT(40)
<1>2. CASE Handlers \/ OtherInst \/ CheckMemoryUsage
  <2>1. /\ step \in {"exec", "memory"} /\ step' \in {"rotate", "tick"}
        /\ newBranchNumFromStore' = newBranchNumFromStore
    BY <1>2, Zenon DEF Handlers, ConcreteBr, ConcreteSwitch, SymbolicBr, OtherInst,
       CheckMemoryUsage, messageVars
  <2>2. newBranchNumFromStore = 0
    BY <2>1 DEF CountInv, TypeOK, MessageType
  <2> QED BY <2>1, <2>2, NothingToKnow, ZenonT(40)
<1>3. CASE \E s \in Store, v \in Value : StoreInst(s, v)
  <2>0. PICK s \in Store, v \in Value : StoreInst(s, v)
    BY <1>3, Zenon
  <2>1. /\ step = "exec" /\ step' \in {"rotate", "storeLoop"} /\ (step' = "storeLoop" => sid' = s)
        /\ UNCHANGED <<execVars, newBranchNumFromStore>> /\ Alive
    BY <2>0, Zenon DEF StoreInst, messageVars
  <2>2. newBranchNumFromStore' = 0
    BY <2>1 DEF CountInv, TypeOK, MessageType
  <2>3. CASE step' = "rotate"
    BY <2>2, <2>3, NothingToKnow, ZenonT(40)
  <2>4. CASE step' = "storeLoop"
    <3>1. current \in State /\ current' = current
      BY <2>1, ZenonT(40) DEF Alive, TypeOK, ExecType, execVars
    <3>2. storeValues \in [State -> [Store -> Value \cup {NoValue}]]
      BY DEF TypeOK, StateType
    <3>3. \/ storeValues' = [storeValues EXCEPT ![current] = [storeValues[current] EXCEPT ![s] = v]]
          \/ \E t \in storesWithSameVar(s) : storeValues' =
                [storeValues EXCEPT ![current] = Replaced(storeValues[current], t, s, v)]
      BY <2>0, Zenon DEF StoreInst
    <3>4. storeValues'[current][s] = v
      BY <3>1, <3>2, <3>3 DEF Replaced
    <3>5. branchInfos' \in [State -> Seq(BranchInfo)]
      BY DEF TypeOK, StateType
    <3>6. branchInfos'[current] \in Seq(BranchInfo)
      BY <3>1, <3>5, Zenon
    <3>7. DOMAIN branchInfos'[current] = 1 .. Len(branchInfos'[current]) /\ Len(branchInfos'[current]) \in Nat
      BY <3>6, LenProperties, ZenonT(40)
    <3>8. KnownFrom(Len(branchInfos[current]) - newBranchNumFromStore)'
      BY <2>2, <3>1, <3>7 DEF KnownFrom
    <3> QED BY <2>1, <2>4, <3>1, <3>4, <3>8, ValueAssumption, ZenonT(40) DEF KnownInv
  <2> QED BY <2>1, <2>3, <2>4, ZenonT(40)
<1>4. CASE StoreLoop
  <2>1. /\ step = "storeLoop" /\ UNCHANGED <<execVars, storeValues>>
        /\ (step' = "storeLoop" /\ sid' = sid) \/ step' = "rotate"
        /\ \/ UNCHANGED <<branchInfos, newBranchNumFromStore>>
           \/ /\ branchInfos' = [branchInfos EXCEPT ![current] =
                                   Append(branchInfos[current], [sid |-> sid, bid |-> TB[idx]])]
              /\ newBranchNumFromStore' = newBranchNumFromStore + 1
    BY <1>4, Zenon DEF StoreLoop
  <2>2. current' = current
    BY <2>1, ZenonT(40) DEF execVars
  <2>3. CASE UNCHANGED <<branchInfos, newBranchNumFromStore>>
    BY <2>1, <2>2, <2>3, ZenonT(40) DEF KnownInv, KnownFrom
  <2>4. CASE ~UNCHANGED <<branchInfos, newBranchNumFromStore>>
    <3> DEFINE q == branchInfos[current]  e == [sid |-> sid, bid |-> TB[idx]]
    <3>1. /\ current \in State /\ sid \in Store /\ idx \in 1 .. Len(TB) /\ TB \in Seq(Branch)
          /\ newBranchNumFromStore \in Nat /\ branchInfos \in [State -> Seq(BranchInfo)]
      BY <2>1, ZenonT(40) DEF Relied, TypeOK, TargetType, MessageType, StateType
    <3>2. e \in BranchInfo /\ e.sid = sid
      BY <3>1, ElementOfSeq, ZenonT(40) DEF BranchInfo
    <3>3. q \in Seq(BranchInfo) /\ Len(q) \in Nat /\ DOMAIN q = 1 .. Len(q)
      BY <3>1, BranchInfoSeq
    <3>4. branchInfos'[current] = Append(q, e)
      BY <2>1, <2>4, <3>1, ZenonT(40)
    <3>5. /\ Len(Append(q, e)) = Len(q) + 1 /\ DOMAIN Append(q, e) = 1 .. Len(q) + 1
          /\ \A i \in 1 .. Len(q) : Append(q, e)[i] = q[i]
          /\ Append(q, e)[Len(q) + 1] = e
      BY <3>2, <3>3, AppendProperties, LenProperties, SMTT(30)
    <3>6. storeValues[current][sid] # NoValue /\ KnownFrom(Len(q) - newBranchNumFromStore)
      BY <2>1, Zenon DEF KnownInv
    <3>7. ASSUME NEW i \in 1 .. Len(q) + 1,
                 i > Len(q) + 1 - (newBranchNumFromStore + 1)
          PROVE  storeValues[current][Append(q, e)[i].sid] # NoValue
      <4>1. CASE i = Len(q) + 1
        BY <3>2, <3>5, <3>6, <4>1, Zenon
      <4>2. CASE i # Len(q) + 1
        <5>1. i \in 1 .. Len(q) /\ i > Len(q) - newBranchNumFromStore
          BY <3>1, <3>3, <3>7, <4>2, SMTT(30)
        <5>2. current # NULL
          BY <3>1, StateAssumption, ZenonT(40)
        <5>3. storeValues[current][q[i].sid] # NoValue
          BY <3>3, <3>6, <5>1, <5>2, ZenonT(40) DEF KnownFrom
        <5> QED BY <3>5, <5>1, <5>3, ZenonT(40)
      <4> QED BY <4>1, <4>2, Zenon
    <3>8. KnownFrom(Len(branchInfos[current]) - newBranchNumFromStore)'
      <4>1. newBranchNumFromStore' = newBranchNumFromStore + 1
        BY <2>1, <2>4, ZenonT(40)
      <4> SUFFICES ASSUME NEW i \in DOMAIN branchInfos'[current],
                          i > Len(branchInfos'[current]) - newBranchNumFromStore'
                   PROVE  storeValues[current][branchInfos'[current][i].sid] # NoValue
        BY <2>1, <2>2, ZenonT(40) DEF KnownFrom
      <4> HIDE DEF q, e
      <4>2. i \in 1 .. Len(q) + 1 /\ i > Len(q) + 1 - (newBranchNumFromStore + 1)
        BY <3>4, <3>5, <4>1
      <4> QED BY <3>4, <3>7, <4>2, ZenonT(40)
    <3> QED BY <2>1, <2>2, <3>6, <3>8, ZenonT(40) DEF KnownInv
  <2> QED BY <2>3, <2>4, ZenonT(40)
<1> QED BY <1>1, <1>2, <1>3, <1>4, Zenon DEF ExecutorNext, Handlers

\* Examining an info keeps the values of the infos still to be examined.
LEMMA ExamineKnown == ASSUME TypeOK, Relied, KnownInv, ExamineStoreValue PROVE KnownInv'
<1> DEFINE q == branchInfos[current]  t == q[idx].sid
<1>1. /\ step = "examine" /\ step' = "examine" /\ idx <= Len(q) /\ current' = current
      /\ storeValues' = [storeValues EXCEPT ![current] =
                           [storeValues[current] EXCEPT ![t] = Loaded(current, t)]]
      /\ \/ branchInfos' = branchInfos /\ idx' = idx + 1
         \/ branchInfos' = [branchInfos EXCEPT ![current] = erase(q, idx)] /\ idx' = idx
  BY Zenon DEF ExamineStoreValue, RememberValue, execVars
<1>2. /\ current \in State /\ current # NULL /\ idx \in Nat \ {0}
      /\ storeValues \in [State -> [Store -> Value \cup {NoValue}]]
      /\ branchInfos \in [State -> Seq(BranchInfo)]
  BY <1>1, StateAssumption, ZenonT(40) DEF Relied, TypeOK, ControlType, StateType
<1>3. q \in Seq(BranchInfo) /\ Len(q) \in Nat /\ DOMAIN q = 1 .. Len(q)
  BY <1>2, BranchInfoSeq, LenProperties, ZenonT(40)
<1>4. \A i \in 1 .. Len(q) : q[i].sid \in Store
  <2> HIDE DEF q, t
  <2>1. \A i \in 1 .. Len(q) : q[i] \in BranchInfo
    BY <1>3, ElementOfSeq, ZenonT(40)
  <2> QED BY <2>1 DEF BranchInfo
<1>5. \A i \in 1 .. Len(q) : i > idx - 1 => storeValues[current][q[i].sid] # NoValue
  BY <1>1, <1>2, <1>3, ZenonT(40) DEF KnownInv, KnownFrom
<1>6. idx \in 1 .. Len(q)
  BY <1>1, <1>2, <1>3
<1> HIDE DEF q, t
<1>7. t \in Store
  BY <1>4, <1>6, ZenonT(40) DEF t
<1>8. \A u \in Store : storeValues[current][u] # NoValue => storeValues'[current][u] # NoValue
  <2>1. Loaded(current, t) # NoValue
    BY ValueAssumption, ZenonT(40) DEF Loaded
  <2> QED BY <1>1, <1>2, <1>7, <2>1, ZenonT(40)
<1>9. KnownFrom(idx - 1)'
  <2>1. CASE branchInfos' = branchInfos /\ idx' = idx + 1
    <3> SUFFICES ASSUME NEW i \in 1 .. Len(q), i > idx'- 1
                 PROVE  storeValues'[current][q[i].sid] # NoValue
      BY <1>1, <1>3, <2>1, ZenonT(40) DEF KnownFrom, q
    <3>1. i > idx - 1
      BY <1>2, <2>1
    <3> QED BY <1>4, <1>5, <1>8, <3>1, ZenonT(40)
  <2>2. CASE branchInfos' = [branchInfos EXCEPT ![current] = erase(q, idx)] /\ idx' = idx
    <3>1. /\ erase(q, idx) \in Seq(BranchInfo) /\ Len(erase(q, idx)) = Len(q) - 1
          /\ \A j \in 1 .. Len(q) - 1 : erase(q, idx)[j] = IF j < idx THEN q[j] ELSE q[j + 1]
      BY <1>3, <1>6, EraseElements, Zenon
    <3>2. DOMAIN erase(q, idx) = 1 .. Len(q) - 1
      BY <3>1, LenProperties, ZenonT(40)
    <3>3. branchInfos'[current] = erase(q, idx)
      BY <1>2, <2>2, ZenonT(40)
    <3> SUFFICES ASSUME NEW i \in 1 .. Len(q) - 1, i > idx - 1
                 PROVE  storeValues'[current][erase(q, idx)[i].sid] # NoValue
      BY <1>1, <2>2, <3>2, <3>3, Zenon DEF KnownFrom
    <3>4. erase(q, idx)[i] = q[i + 1] /\ i + 1 \in 1 .. Len(q) /\ i + 1 > idx - 1
      BY <1>2, <1>3, <3>1
    <3> QED BY <1>4, <1>5, <1>8, <3>4, ZenonT(40)
  <2> QED BY <1>1, <2>1, <2>2, ZenonT(40)
<1> QED BY <1>1, <1>9, ZenonT(40) DEF KnownInv

\* The sections of update: what they drop is not what the store just added.
LEMMA UpdateKnown ==
  ASSUME TypeOK, TypeOK', Relied, QInv, CountInv, KnownInv, UpdateNext
  PROVE  KnownInv'
<1>1. CASE Rotate
  <2>1. /\ step = "rotate" /\ UNCHANGED <<execVars, messageVars, stateVars>>
        /\ step' \in {"retarget", "reach", "crashed"}
    BY <1>1, Zenon DEF Rotate
  <2>2. UNCHANGED <<current, branchInfos, storeValues, newBranchNumFromStore>>
    BY <2>1 DEF execVars, messageVars, stateVars
  <2> QED BY <2>1, <2>2, KnownSame, ZenonT(40)
<1>2. CASE ReachBranch
  <2>1. /\ step = "reach" /\ UNCHANGED <<execVars, messageVars, storeValues>>
        /\ \/ step' = "store" /\ UNCHANGED branchInfos
           \/ reachBranch[current] /\ step' \in {"fully", "store"}
    BY <1>2, Zenon DEF ReachBranch
  <2>2. UNCHANGED <<current, newBranchNumFromStore>> /\ newBranchNumFromStore \in Nat
    BY <2>1, ZenonT(40) DEF execVars, messageVars, TypeOK, MessageType
  <2>3. CASE reachBranch[current]
    <3>1. newBranchNumFromStore = 0
      BY <2>2, <2>3 DEF CountInv
    <3> QED BY <2>1, <2>2, <2>3, <3>1, NothingToKnow, ZenonT(40)
  <2>4. CASE ~reachBranch[current]
    BY <2>1, <2>2, <2>4, KnownSame, ZenonT(40)
  <2> QED BY <2>3, <2>4, ZenonT(40)
<1>3. CASE ReachStore
  <2>1. /\ step = "store" /\ UNCHANGED <<execVars, messageVars, stateVars>>
        /\ \/ step' \in {"partly", "crashed"}
           \/ /\ step' = "examine"
              /\ idx' = Len(branchInfos[current]) - newBranchNumFromStore + 1
    BY <1>3, Zenon DEF ReachStore
  <2>2. UNCHANGED <<current, branchInfos, storeValues, newBranchNumFromStore>>
    BY <2>1, ZenonT(40) DEF execVars, messageVars, stateVars
  <2>3. CASE step' = "examine"
    <3>1. Len(branchInfos[current]) \in Nat /\ newBranchNumFromStore \in Nat
      BY <2>1, BranchInfoSeq, ZenonT(40) DEF Relied, TypeOK, MessageType
    <3>2. idx' - 1 = Len(branchInfos[current]) - newBranchNumFromStore
      BY <2>1, <2>3, <3>1
    <3>3. KnownFrom(Len(branchInfos[current]) - newBranchNumFromStore)
      BY <2>1 DEF KnownInv
    <3>4. KnownFrom(idx - 1)'
      BY <2>2, <3>2, <3>3, Zenon DEF KnownFrom
    <3> QED BY <2>3, <3>4, ZenonT(40) DEF KnownInv
  <2> QED BY <2>1, <2>2, <2>3, KnownSame, ZenonT(40)
<1>4. CASE ExamineStoreValue
  BY <1>4, ExamineKnown, ZenonT(40)
<1>5. CASE FullyCoveredHandled
  <2>1. /\ step = "fully" /\ step' = "store" /\ newBranchNumFromStore' = newBranchNumFromStore
    BY <1>5, Zenon DEF FullyCoveredHandled
  <2>2. newBranchNumFromStore = 0
    BY <2>1 DEF CountInv, TypeOK, MessageType
  <2> QED BY <2>1, <2>2, NothingToKnow, ZenonT(40)
<1>6. CASE StoreValuesExamined \/ HandleFullyCovered \/ NewPartlyCovered \/ PartlyCoveredHandled
  <2>1. step' \in {"partly", "fully", "claim", "retarget"}
    BY <1>6, Zenon DEF StoreValuesExamined, HandleFullyCovered, NewPartlyCovered, PartlyCoveredHandled
  <2> QED BY <2>1, NothingToKnow, ZenonT(40)
<1>7. CASE ClaimStore \/ Claimed \/ PickStore \/ FindState \/ StatesFound
  <2>1. step \in {"claim", "pick", "find"} /\ step' \in {"claim", "pick", "find", ret}
    BY <1>7, Zenon DEF ClaimStore, Claimed, PickStore, FindState, StatesFound
  <2>2. ret \in {"partlyDone", "refill"}
    BY <2>1, ZenonT(40) DEF QInv, Positions
  <2> QED BY <2>1, <2>2, NothingToKnow, ZenonT(40)
<1>8. CASE Retarget \/ ClearState \/ StatesCleared \/ Refill
  <2>1. step' \in {"clear", "add", "refill", "claim", "crashed"}
    BY <1>8, Zenon DEF Retarget, ClearState, StatesCleared, Refill
  <2> QED BY <2>1, NothingToKnow, ZenonT(40)
<1>9. CASE AddState \/ StatesAdded \/ RemoveState \/ StatesRemoved
  <2>1. step' \in {"add", "remove", "commit"}
    BY <1>9, Zenon DEF AddState, StatesAdded, RemoveState, StatesRemoved
  <2> QED BY <2>1, NothingToKnow, ZenonT(40)
<1> QED BY <1>1, <1>2, <1>3, <1>4, <1>5, <1>6, <1>7, <1>8, <1>9, ZenonT(40) DEF UpdateNext

\* Every step keeps the values known, if no store terminates its state.
LEMMA NextKnown ==
  ASSUME BaseInv, BaseInv', CountInv, KnownInv, FaultyStores = {}, [Next]_vars
  PROVE  KnownInv'
<1>0. TypeOK /\ TypeOK' /\ Relied /\ QInv
  BY Zenon DEF BaseInv, TInv
<1>1. CASE UNCHANGED vars
  <2>1. UNCHANGED <<step, current, sid, idx, newBranchNumFromStore, storeValues, branchInfos>>
    BY <1>1, ZenonT(40) DEF vars, execVars, messageVars, stateVars, loopVars
  <2> QED BY <2>1, Zenon DEF KnownInv, KnownFrom
<1>2. CASE Ended
  <2>1. step' \in {"done", "crashed"}
    BY <1>2 DEF Ended, vars
  <2> QED BY <1>0, <2>1, NothingToKnow, ZenonT(40)
<1> QED BY <1>0, <1>1, <1>2, ExecutorKnown, UpdateKnown, Zenon DEF Next

(***************************************************************************)
(* If no store terminates its state, every branchInfo update examines      *)
(* after a store has a recorded value, so isNewStoreValue never inserts a  *)
(* default zero for it.                                                    *)
(***************************************************************************)
THEOREM ValuesRecorded == ASSUME FaultyStores = {} PROVE Spec => []ExaminedValuesKnown
<1> DEFINE Inv == BaseInv /\ CurrentInv /\ CountInv /\ KnownInv
<1>1. Init => Inv
  <2>1. Init => KnownInv
    BY DEF Init, KnownInv
  <2> QED BY <2>1, InitBase, InitCurrent, InitCount, ZenonT(40)
<1>2. Inv /\ [Next]_vars => Inv'
  BY NextBase, NextCurrent, NextCount, NextKnown, ZenonT(40)
<1>3. Inv => ExaminedValuesKnown
  <2> SUFFICES ASSUME TypeOK, Relied, KnownInv, step = "examine",
                      NEW i \in idx .. Len(branchInfos[current])
               PROVE  storeValues[current][branchInfos[current][i].sid] # NoValue
    BY ZenonT(40) DEF ExaminedValuesKnown, BaseInv, TInv
  <2>1. current \in State /\ current # NULL /\ idx \in Nat \ {0}
    BY StateAssumption, ZenonT(40) DEF Relied, TypeOK, ControlType
  <2>2. Len(branchInfos[current]) \in Nat /\ DOMAIN branchInfos[current] = 1 .. Len(branchInfos[current])
    BY <2>1, BranchInfoSeq, LenProperties, ZenonT(40)
  <2>3. i \in DOMAIN branchInfos[current] /\ i > idx - 1
    BY <2>1, <2>2
  <2> QED BY <2>1, <2>3, Zenon DEF KnownInv, KnownFrom
<1> QED BY <1>1, <1>2, <1>3, PTL DEF Spec

-----------------------------------------------------------------------------
(***************************************************************************)
(* Until update handles it, the branch a state reached is the one at       *)
(* prevPC, and the state still has a branchInfo of it.                     *)
(***************************************************************************)
DropInv ==
  step \in {"rotate", "reach"} =>
    \A s \in State : s = current /\ reachBranch[s] => Targets(s, prevBranch)

\* Only the br and switch handlers report a reached target.
LEMMA NextDrop == ASSUME BaseInv, EventInv, DropInv, [Next]_vars PROVE DropInv'
<1>0. TypeOK /\ Relied /\ QInv
  BY Zenon DEF BaseInv, TInv
<1>1. step \in {"exec", "storeLoop"} => \A s \in State : ~reachBranch[s]
  BY DEF EventInv, Settled
<1>2. CASE Handlers
  <2>1. /\ step = "exec" /\ UNCHANGED <<current, branchInfos>>
        /\ \/ reachBranch' = reachBranch
           \/ \E b, o, c : FollowBranch(b, o, c)
    BY <1>2, Zenon DEF Handlers, ConcreteBr, ConcreteSwitch, SymbolicBr, execVars
  <2>2. CASE reachBranch' = reachBranch
    BY <1>1, <2>1, <2>2 DEF DropInv
  <2>3. CASE \E b, o, c : FollowBranch(b, o, c)
    <3>1. PICK b, o, c : FollowBranch(b, o, c)
      BY <2>3, Zenon
    <3>2. /\ reachBranch' = [reachBranch EXCEPT ![current] =
                               reachBranch[current] \/ Targets(current, b)]
          /\ prevBranch' = b
      BY <3>1, Zenon DEF FollowBranch
    <3>3. current \in State /\ reachBranch \in [State -> BOOLEAN]
      BY <1>0, <2>1, ZenonT(40) DEF Relied, TypeOK, StateType
    <3>4. reachBranch'[current] = (reachBranch[current] \/ Targets(current, b))
      BY <3>2, <3>3, Zenon
    <3>5. reachBranch'[current] => Targets(current, b)
      BY <1>1, <2>1, <3>3, <3>4, Zenon
    <3> QED BY <2>1, <3>2, <3>5, Zenon DEF DropInv, Targets
  <2> QED BY <2>1, <2>2, <2>3, ZenonT(40)
<1>3. CASE OtherInst \/ \E s \in Store, v \in Value : StoreInst(s, v)
  <2>1. step = "exec" /\ reachBranch' = reachBranch
    BY <1>3, Zenon DEF OtherInst, StoreInst, stateVars
  <2> QED BY <1>1, <2>1, ZenonT(40) DEF DropInv
<1>4. CASE StoreLoop
  <2>1. /\ step = "storeLoop"
        /\ reachBranch' = reachBranch \/ reachBranch' = [reachBranch EXCEPT ![current] = FALSE]
    BY <1>4, Zenon DEF StoreLoop
  <2>2. reachBranch \in [State -> BOOLEAN]
    BY <1>0 DEF TypeOK, StateType
  <2> QED BY <1>1, <2>1, <2>2, ZenonT(40) DEF DropInv
<1>5. CASE CheckMemoryUsage
  BY <1>5, StateAssumption, Zenon DEF CheckMemoryUsage, DropInv
<1>6. CASE Rotate \/ UNCHANGED vars
  <2>1. /\ step \in {"rotate", "reach"} \/ step' \notin {"rotate", "reach"}
        /\ UNCHANGED <<current, reachBranch, branchInfos, prevBranch>>
    BY <1>6, Zenon DEF Rotate, vars, execVars, stateVars
  <2> QED BY <2>1, Zenon DEF DropInv, Targets
<1>7. CASE \/ SelectState \/ Halt \/ Fork \/ TerminateCurrent \/ TerminateAdded \/ UpdateStates
           \/ Tick \/ Ended
  <2>1. step' \in {"crashed", "exec", "done", "memory", "tick", "select"}
    BY <1>7, Zenon DEF SelectState, Halt, Fork, TerminateCurrent, TerminateAdded, UpdateStates,
       Tick, Ended, vars
  <2> QED BY <2>1, ZenonT(40) DEF DropInv
<1>8. CASE UpdateNext /\ ~Rotate
  <2>1. \/ step' \notin {"rotate", "reach"}
        \/ step \in {"pick"} /\ step' = ret
    BY <1>8, ZenonT(40) DEF UpdateNext, ReachBranch, HandleFullyCovered, FullyCoveredHandled, ReachStore,
       ExamineStoreValue, StoreValuesExamined, NewPartlyCovered, PartlyCoveredHandled, ClaimStore,
       Claimed, PickStore, FindState, StatesFound, Retarget, ClearState, StatesCleared, Refill,
       AddState, StatesAdded, RemoveState, StatesRemoved
  <2>2. step = "pick" => ret \in {"partlyDone", "refill"}
    BY <1>0, ZenonT(40) DEF QInv, Positions
  <2> QED BY <2>1, <2>2, ZenonT(40) DEF DropInv
<1> QED BY <1>2, <1>3, <1>4, <1>5, <1>6, <1>7, <1>8, ZenonT(40) DEF Next, ExecutorNext, UpdateNext, Handlers

\* The section for a state that reached its target: the branch is found among its infos.
LEMMA ReachedDrops ==
  ASSUME SwitchBranch = {}, BaseInv, DropInv, [Next]_vars, step = "reach", reachBranch[current],
         ~newFullyCoveredBranch, ~UNCHANGED vars
  PROVE  Len(branchInfos'[current]) = Len(branchInfos[current]) - 1
<1> DEFINE q == branchInfos[current]  at == {i \in DOMAIN q : q[i].bid = prevBranch}
<1>1. ReachBranch
  BY ZenonT(40) DEF Next, ExecutorNext, UpdateNext, Ended, SelectState, Halt, Fork, TerminateCurrent, TerminateAdded,
     ConcreteBr, ConcreteSwitch, SymbolicBr, StoreInst, StoreLoop, OtherInst, UpdateStates,
     CheckMemoryUsage, Tick, Rotate, HandleFullyCovered, FullyCoveredHandled, ReachStore,
     ExamineStoreValue, StoreValuesExamined, NewPartlyCovered, PartlyCoveredHandled, ClaimStore,
     Claimed, PickStore, FindState, StatesFound, Retarget, ClearState, StatesCleared, Refill,
     AddState, StatesAdded, RemoveState, StatesRemoved
<1>2. pastBID = prevBranch
  BY DEF pastBID
<1>3. branchInfos' = [branchInfos EXCEPT ![current] = EraseFirst(q, at)]
  BY <1>1, <1>2, Zenon DEF ReachBranch
<1>4. current \in State /\ branchInfos \in [State -> Seq(BranchInfo)]
  BY DEF BaseInv, TInv, Relied, TypeOK, StateType
<1>5. q \in Seq(BranchInfo) /\ at \subseteq DOMAIN q /\ at # {}
  BY <1>4 DEF DropInv, Targets
<1>6. branchInfos'[current] = EraseFirst(q, at)
  BY <1>3, <1>4, Zenon
<1>7. Len(EraseFirst(q, at)) = Len(q) - 1
  <2> HIDE DEF q, at
  <2> QED BY <1>5, EraseFirstLen, ZenonT(40)
<1> QED BY <1>6, <1>7, SMTT(30)

(***************************************************************************)
(* In a program without switches, a state that reaches a target without    *)
(* covering it loses exactly one branchInfo: update finds the branch at    *)
(* prevPC among the infos of the state.                                    *)
(***************************************************************************)
THEOREM ReachedTargetLeaves == ASSUME SwitchBranch = {} PROVE Spec => ReachedTargetDropped
<1> DEFINE Inv == BaseInv /\ EventInv /\ DropInv
<1>1. Init => Inv
  <2>1. Init => DropInv
    BY DEF Init, DropInv
  <2> QED BY <2>1, InitBase, InitEvents, ZenonT(40)
<1>2. Inv /\ [Next]_vars => Inv'
  BY NextBase, NextEvents, NextDrop, ZenonT(40)
<1>3. Inv /\ [Next]_vars =>
        [step = "reach" /\ reachBranch[current] /\ ~newFullyCoveredBranch
           => Len(branchInfos'[current]) = Len(branchInfos[current]) - 1]_vars
  BY ReachedDrops, Zenon
<1> QED BY <1>1, <1>2, <1>3, PTL DEF Spec, ReachedTargetDropped

-----------------------------------------------------------------------------
(***************************************************************************)
(* If the program does not fork, the branchInfos of the live states name   *)
(* branches of the two lists.  A re-targeting empties the list of targets  *)
(* after it took the infos of the states in branch_states; the others have *)
(* none by then, which TargetedFirst's invariant says.                     *)
(***************************************************************************)
Listed == Range(TB) \cup Range(FCB)
Named(s) == \A r \in Range(branchInfos[s]) : r.bid \in Listed
NamedInv ==
  /\ addedStates = <<>>
  /\ \A s \in execStates \ removedStates : Named(s)
  /\ step = "clear" => \A j \in 1 .. Len(branch_states) :
       j < idx => branchInfos[branch_states[j]] = <<>>
  /\ step \in {"claim", "pick", "find"} => target \in Range(TB)

\* The lists keep their branches, the states get no new info.
LEMMA NamesKept ==
  ASSUME NamedInv, execStates \subseteq State,
         execStates' \ removedStates' \subseteq execStates \ removedStates,
         Listed \subseteq Listed',
         \A s \in State : Range(branchInfos'[s]) \subseteq Range(branchInfos[s])
  PROVE  \A s \in execStates' \ removedStates' : Named(s)'
BY Zenon DEF NamedInv, Named

\* The same, for steps other than those of the loops that handle a branch or clear the states.
LEMMA NamesOutside ==
  ASSUME NamedInv, execStates \subseteq State, addedStates' = <<>>,
         execStates' \ removedStates' \subseteq execStates \ removedStates,
         Listed \subseteq Listed',
         \A s \in State : Range(branchInfos'[s]) \subseteq Range(branchInfos[s]),
         step' \notin {"clear", "claim", "pick", "find"}
  PROVE  NamedInv'
<1>1. \A s \in execStates' \ removedStates' : Named(s)'
  BY NamesKept, Zenon
<1> QED BY <1>1 DEF NamedInv

\* A state's infos shrink when one is erased from them.
LEMMA InfosErased ==
  ASSUME TypeOK, NEW c \in State, NEW q \in Seq(BranchInfo), Range(q) \subseteq Range(branchInfos[c]),
         branchInfos' = [branchInfos EXCEPT ![c] = q]
  PROVE  \A s \in State : Range(branchInfos'[s]) \subseteq Range(branchInfos[s])
<1>1. branchInfos \in [State -> Seq(BranchInfo)]
  BY ZenonT(40) DEF TypeOK, StateType
<1> QED BY <1>1, Zenon

\* One of them is erased.
LEMMA InfoErased ==
  ASSUME TypeOK, NEW c \in State, NEW i \in 1 .. Len(branchInfos[c])
  PROVE  /\ erase(branchInfos[c], i) \in Seq(BranchInfo)
         /\ Range(erase(branchInfos[c], i)) \subseteq Range(branchInfos[c])
<1> DEFINE q == branchInfos[c]
<1>1. q \in Seq(BranchInfo) /\ Len(q) \in Nat
  BY BranchInfoSeq, ZenonT(40)
<1> HIDE DEF q
<1>2. /\ erase(q, i) \in Seq(BranchInfo) /\ Len(erase(q, i)) = Len(q) - 1
      /\ \A j \in 1 .. Len(q) - 1 : erase(q, i)[j] = IF j < i THEN q[j] ELSE q[j + 1]
  BY <1>1, EraseElements, ZenonT(40) DEF q
<1>3. DOMAIN erase(q, i) = 1 .. Len(q) - 1 /\ DOMAIN q = 1 .. Len(q)
  BY <1>1, <1>2, LenProperties, ZenonT(40)
<1>4. ASSUME NEW j \in 1 .. Len(q) - 1 PROVE \E k \in 1 .. Len(q) : erase(q, i)[j] = q[k]
  <2>1. j \in 1 .. Len(q) /\ j + 1 \in 1 .. Len(q)
    BY <1>1, SMTT(30)
  <2>2. erase(q, i)[j] = q[j] \/ erase(q, i)[j] = q[j + 1]
    BY <1>2, ZenonT(40)
  <2> QED BY <2>1, <2>2, Zenon
<1>5. Range(erase(q, i)) \subseteq Range(q)
  BY <1>3, <1>4, Zenon DEF Range
<1> QED BY <1>2, <1>5, ZenonT(40) DEF q

\* The first of some of them is erased, if there is one.
LEMMA FirstInfoErased ==
  ASSUME TypeOK, NEW c \in State, NEW at, at \subseteq DOMAIN branchInfos[c],
         branchInfos' = [branchInfos EXCEPT ![c] = EraseFirst(branchInfos[c], at)]
  PROVE  \A s \in State : Range(branchInfos'[s]) \subseteq Range(branchInfos[s])
<1>1. branchInfos[c] \in Seq(BranchInfo)
  BY BranchInfoSeq, ZenonT(40)
<1>2. EraseFirst(branchInfos[c], at) \in Seq(BranchInfo)
  BY <1>1, EraseFirstType, ZenonT(40)
<1>3. Range(EraseFirst(branchInfos[c], at)) \subseteq Range(branchInfos[c])
  BY <1>1, EraseFirstElements, ZenonT(40)
<1> QED BY <1>2, <1>3, InfosErased, Zenon

\* A state gets an info that names a branch of the lists.
LEMMA NameAppended ==
  ASSUME TypeOK, NamedInv, UNCHANGED <<execVars, targetVars>>, NEW c \in State, NEW e \in BranchInfo,
         e.bid \in Listed, branchInfos' = [branchInfos EXCEPT ![c] = Append(branchInfos[c], e)]
  PROVE  \A s \in execStates' \ removedStates' : Named(s)'
<1>1. /\ branchInfos \in [State -> Seq(BranchInfo)] /\ branchInfos[c] \in Seq(BranchInfo)
      /\ execStates \subseteq State
  BY BranchInfoSeq, ZenonT(40) DEF TypeOK, StateType, ExecType
<1>2. Range(Append(branchInfos[c], e)) = Range(branchInfos[c]) \cup {e}
  BY <1>1, AppendRange
<1>3. \A s \in State : Range(branchInfos'[s]) \subseteq Range(branchInfos[s]) \cup {e}
  BY <1>1, <1>2, Zenon
<1>4. Listed' = Listed /\ execStates' \ removedStates' = execStates \ removedStates
  BY DEF Listed, targetVars, execVars
<1> QED BY <1>1, <1>3, <1>4, Zenon DEF NamedInv, Named

\* The branch a handler follows moves between the lists, and none leaves both.
LEMMA FollowedListed ==
  ASSUME TypeOK, ListInv, NEW b \in Branch, NEW o, NEW c, FollowBranch(b, o, c)
  PROVE  Listed \subseteq Listed'
<1>0. TB \in Seq(Branch) /\ PCB \in Seq(Branch) /\ FCB \in Seq(Branch)
  BY DEF TypeOK, TargetType
<1>1. CASE NewTarget(b)
  <2>1. FCB' = FCB /\ (TB' = TB \/ TB' = Append(TB, b))
    BY <1>1, Zenon DEF NewTarget
  <2>2. Range(Append(TB, b)) = Range(TB) \cup {b}
    BY <1>0, AppendRange
  <2> QED BY <2>1, <2>2, Zenon DEF Listed
<1>2. CASE NewlyCovered(b)
  <2> DEFINE rest == Without(TB, b)
  <2>1. /\ FCB' = Append(FCB, b)
        /\ TB' = rest \/ (PCB # <<>> /\ TB' = Append(rest, back(PCB)))
    BY <1>2, Zenon DEF NewlyCovered
  <2>2. Range(rest) = Range(TB) \ {b} /\ rest \in Seq(Branch)
    BY <1>0, WithoutRange, WithoutType, Zenon DEF ListInv, BranchListsExclusive
  <2>3. Range(FCB') = Range(FCB) \cup {b}
    BY <1>0, <2>1, AppendRange, SMTT(30)
  <2>4. Range(TB) \ {b} \subseteq Range(TB')
    <3> HIDE DEF rest
    <3>1. CASE TB' = rest
      BY <2>2, <3>1, Zenon
    <3>2. CASE PCB # <<>> /\ TB' = Append(rest, back(PCB))
      <4>1. back(PCB) \in Branch
        BY <1>0, <3>2, BackInRange, ZenonT(40)
      <4>2. Range(TB') = Range(rest) \cup {back(PCB)}
        BY <2>2, <3>2, <4>1, AppendRange, SMTT(30)
      <4> QED BY <2>2, <4>2, Zenon
    <3> QED BY <2>1, <3>1, <3>2, Zenon
  <2> QED BY <2>3, <2>4, Zenon DEF Listed
<1>3. CASE UNCHANGED targetVars
  BY <1>3, Zenon DEF targetVars, Listed
<1> QED BY <1>1, <1>2, <1>3, Zenon DEF FollowBranch

\* The executor's steps.
LEMMA ExecutorNames ==
  ASSUME BaseInv, ListInv, NamedInv, "fork" \notin Allowed, ExecutorNext
  PROVE  NamedInv'
<1>0. TypeOK /\ Relied /\ QInv /\ execStates \subseteq State /\ addedStates = <<>>
  BY Zenon DEF BaseInv, TInv, TypeOK, ExecType, NamedInv
<1>a. branchInfos' = branchInfos => \A s \in State : Range(branchInfos'[s]) \subseteq Range(branchInfos[s])
  BY Zenon
<1>b. UNCHANGED <<TB, FCB>> => Listed' = Listed
  BY Zenon DEF Listed
<1>1. CASE SelectState \/ TerminateCurrent \/ OtherInst \/ Tick
  <2>1. /\ step' \in {"exec", "crashed", "rotate", "select"} /\ UNCHANGED <<addedStates, execStates>>
        /\ removedStates \subseteq removedStates' /\ UNCHANGED <<TB, FCB, branchInfos>>
    BY <1>1, Zenon DEF SelectState, TerminateCurrent, OtherInst, Tick, execVars, targetVars, stateVars
  <2> QED BY <1>0, <1>a, <1>b, <2>1, NamesOutside, ZenonT(40)
<1>2. CASE Halt
  <2>1. step' = "done" /\ addedStates' = addedStates /\ execStates' = {}
    BY <1>2, Zenon DEF Halt
  <2> QED BY <1>0, <2>1, ZenonT(40) DEF NamedInv
<1>3. CASE Fork
  BY <1>3, Zenon DEF Fork
<1>4. CASE TerminateAdded
  <2>1. \E i : i \in DOMAIN <<>>
    BY <1>0, <1>4, Zenon DEF TerminateAdded
  <2> QED BY <2>1
<1>5. CASE Handlers
  <2>1. /\ step' = "rotate" /\ UNCHANGED <<execVars, branchInfos>>
        /\ UNCHANGED targetVars \/ \E b \in Branch : \E o, c : FollowBranch(b, o, c)
    <3>1. BrBranch \subseteq Branch /\ SwitchBranch \subseteq Branch
      BY BranchAssumption, ZenonT(40) DEF BrBranch
    <3> QED BY <1>5, <3>1, Zenon DEF Handlers, ConcreteBr, ConcreteSwitch, SymbolicBr
  <2>2. Listed \subseteq Listed'
    BY <1>0, <2>1, FollowedListed, Zenon DEF Listed, targetVars
  <2>3. UNCHANGED <<addedStates, execStates, removedStates>>
    BY <2>1, ZenonT(40) DEF execVars
  <2> QED BY <1>0, <1>a, <2>1, <2>2, <2>3, NamesOutside, ZenonT(40)
<1>6. CASE \E s \in Store, v \in Value : StoreInst(s, v)
  <2>1. /\ step = "exec" /\ step' \in {"rotate", "storeLoop"} /\ UNCHANGED <<execVars, targetVars>>
        /\ \/ branchInfos' = branchInfos
           \/ \E at : /\ at \subseteq DOMAIN branchInfos[current]
                      /\ branchInfos' = [branchInfos EXCEPT ![current] =
                                           EraseFirst(branchInfos[current], at)]
    <3>1. PICK s \in Store, v \in Value : StoreInst(s, v)
      BY <1>6, Zenon
    <3>2. /\ step = "exec" /\ step' \in {"rotate", "storeLoop"} /\ UNCHANGED <<execVars, targetVars>>
          /\ \/ branchInfos' = branchInfos
             \/ \E t : branchInfos' = [branchInfos EXCEPT ![current] = EraseFirst(branchInfos[current],
                   {i \in DOMAIN branchInfos[current] : branchInfos[current][i].sid = t})]
      BY <3>1, ZenonT(40) DEF StoreInst
    <3> QED BY <3>2, Zenon
  <2>2. current \in State
    BY <1>0, <2>1, ZenonT(40) DEF Relied
  <2>3. \A s \in State : Range(branchInfos'[s]) \subseteq Range(branchInfos[s])
    BY <1>0, <1>a, <2>1, <2>2, FirstInfoErased, ZenonT(40)
  <2>4. UNCHANGED <<addedStates, execStates, removedStates, TB, FCB>>
    BY <2>1, ZenonT(40) DEF execVars, targetVars
  <2> QED BY <1>0, <1>b, <2>1, <2>3, <2>4, NamesOutside, ZenonT(40)
<1>7. CASE StoreLoop
  <2>1. /\ step = "storeLoop" /\ step' \in {"storeLoop", "rotate"} /\ UNCHANGED <<execVars, targetVars>>
        /\ \/ branchInfos' = branchInfos
           \/ branchInfos' = [branchInfos EXCEPT ![current] =
                                Append(branchInfos[current], [sid |-> sid, bid |-> TB[idx]])]
    BY <1>7, Zenon DEF StoreLoop
  <2>2. UNCHANGED <<addedStates, execStates, removedStates, TB, FCB>>
    BY <2>1, ZenonT(40) DEF execVars, targetVars
  <2>3. CASE branchInfos' = branchInfos
    BY <1>0, <1>a, <1>b, <2>1, <2>2, <2>3, NamesOutside, ZenonT(40)
  <2>4. CASE branchInfos' = [branchInfos EXCEPT ![current] =
                               Append(branchInfos[current], [sid |-> sid, bid |-> TB[idx]])]
    <3> DEFINE e == [sid |-> sid, bid |-> TB[idx]]
    <3>1. current \in State /\ sid \in Store /\ idx \in 1 .. Len(TB) /\ TB \in Seq(Branch)
      BY <1>0, <2>1, ZenonT(40) DEF Relied, TypeOK, TargetType
    <3>2. TB[idx] \in Branch /\ TB[idx] \in Range(TB)
      BY <3>1, ElementInRange, ZenonT(40)
    <3>3. e \in BranchInfo /\ e.bid \in Listed
      BY <3>1, <3>2, ZenonT(40) DEF BranchInfo, Listed
    <3> HIDE DEF e
    <3>4. \A s \in execStates' \ removedStates' : Named(s)'
      BY <1>0, <2>1, <2>4, <3>1, <3>3, NameAppended, Zenon DEF e
    <3> QED BY <1>0, <2>1, <2>2, <3>4, ZenonT(40) DEF NamedInv
  <2> QED BY <2>1, <2>3, <2>4, ZenonT(40)
<1>8. CASE UpdateStates
  <2>1. /\ execStates' = (execStates \cup Range(<<>>)) \ removedStates /\ addedStates' = <<>>
        /\ removedStates' = {} /\ step' \in {"tick", "memory"} /\ UNCHANGED targetVars
        /\ branchInfos' = [s \in State |-> IF s \in removedStates THEN <<>> ELSE branchInfos[s]]
    BY <1>0, <1>8, Zenon DEF UpdateStates, Deleted
  <2>2. Range(<<>>) = {}
    BY EmptySeq, EmptyRange, Zenon
  <2>3. \A s \in State : Range(branchInfos'[s]) \subseteq Range(branchInfos[s])
    BY <2>1, <2>2, Zenon
  <2>4. UNCHANGED <<TB, FCB>>
    BY <2>1, ZenonT(40) DEF targetVars
  <2>5. execStates' \ removedStates' \subseteq execStates \ removedStates
    BY <2>1, <2>2, ZenonT(40)
  <2> QED BY <1>0, <1>b, <2>1, <2>3, <2>4, <2>5, NamesOutside, ZenonT(40)
<1>9. CASE CheckMemoryUsage
  <2>1. /\ step = "memory" /\ step' \in {"tick", "rotate"} /\ UNCHANGED <<execStates, addedStates>>
        /\ UNCHANGED <<targetVars, stateVars>>
    BY <1>9, Zenon DEF CheckMemoryUsage
  <2>2. removedStates = {} /\ UNCHANGED <<TB, FCB, branchInfos>>
    BY <1>0, <2>1, ZenonT(40) DEF QInv, PoolFollows, Idle, targetVars, stateVars
  <2> QED BY <1>0, <1>a, <1>b, <2>1, <2>2, NamesOutside, ZenonT(40)
<1> QED BY <1>1, <1>2, <1>3, <1>4, <1>5, <1>6, <1>7, <1>8, <1>9, ZenonT(40) DEF ExecutorNext, Handlers

\* handleFullyCovered, isNewStoreValue and a reached target take infos away.
LEMMA ErasureNames ==
  ASSUME BaseInv, NamedInv, ReachBranch \/ HandleFullyCovered \/ ExamineStoreValue
  PROVE  NamedInv'
<1>0. TypeOK /\ Relied /\ QInv /\ execStates \subseteq State /\ addedStates = <<>>
  BY Zenon DEF BaseInv, TInv, TypeOK, ExecType, NamedInv
<1>1. /\ UNCHANGED <<execVars, targetVars>> /\ step' \in {"store", "fully", "examine"}
      /\ step \in {"reach", "fully", "examine"}
  BY Zenon DEF ReachBranch, HandleFullyCovered, ExamineStoreValue
<1>2. UNCHANGED <<addedStates, execStates, removedStates>> /\ Listed' = Listed /\ current \in State
  BY <1>0, <1>1, ZenonT(40) DEF execVars, targetVars, Listed, Relied
<1>3. CASE ReachBranch
  <2>1. \/ branchInfos' = branchInfos
        \/ branchInfos' = [branchInfos EXCEPT ![current] = EraseFirst(branchInfos[current],
              {i \in DOMAIN branchInfos[current] : branchInfos[current][i].bid = pastBID})]
    BY <1>3, Zenon DEF ReachBranch
  <2>a. \/ branchInfos' = branchInfos
        \/ \E at : /\ at \subseteq DOMAIN branchInfos[current]
                   /\ branchInfos' = [branchInfos EXCEPT ![current] =
                                        EraseFirst(branchInfos[current], at)]
    BY <2>1, Zenon
  <2>2. \A s \in State : Range(branchInfos'[s]) \subseteq Range(branchInfos[s])
    BY <1>0, <1>2, <2>a, FirstInfoErased, ZenonT(40)
  <2> QED BY <1>0, <1>1, <1>2, <2>2, NamesOutside, ZenonT(40)
<1>4. CASE HandleFullyCovered
  <2>1. /\ step = "fully" /\ idx <= Len(branch_states)
        /\ branchInfos' = [branchInfos EXCEPT ![branch_states[idx]] =
              EraseFirst(branchInfos[branch_states[idx]], {i \in DOMAIN branchInfos[branch_states[idx]] :
                 branchInfos[branch_states[idx]][i].bid = target})]
    BY <1>4, Zenon DEF HandleFullyCovered
  <2>2. branch_states \in Seq(State) /\ idx \in Nat \ {0}
    BY <1>0, ZenonT(40) DEF TypeOK, QueueType, ControlType
  <2>3. idx \in 1 .. Len(branch_states)
    BY <2>1, <2>2, LenProperties, SMTT(30)
  <2>4. branch_states[idx] \in State
    BY <2>2, <2>3, ElementOfSeq, Zenon
  <2>a. \E at : /\ at \subseteq DOMAIN branchInfos[branch_states[idx]]
                /\ branchInfos' = [branchInfos EXCEPT ![branch_states[idx]] =
                                     EraseFirst(branchInfos[branch_states[idx]], at)]
    BY <2>1, Zenon
  <2>5. \A s \in State : Range(branchInfos'[s]) \subseteq Range(branchInfos[s])
    BY <1>0, <2>a, <2>4, FirstInfoErased, ZenonT(40)
  <2> QED BY <1>0, <1>1, <1>2, <2>5, NamesOutside, ZenonT(40)
<1>5. CASE ExamineStoreValue
  <2>1. /\ idx <= Len(branchInfos[current])
        /\ \/ branchInfos' = branchInfos
           \/ branchInfos' = [branchInfos EXCEPT ![current] = erase(branchInfos[current], idx)]
    BY <1>5, ZenonT(40) DEF ExamineStoreValue
  <2>2. Len(branchInfos[current]) \in Nat /\ idx \in Nat \ {0}
    BY <1>0, <1>2, BranchInfoSeq, ZenonT(40) DEF TypeOK, ControlType
  <2>3. idx \in 1 .. Len(branchInfos[current])
    BY <2>1, <2>2, SMTT(30)
  <2>4. /\ erase(branchInfos[current], idx) \in Seq(BranchInfo)
        /\ Range(erase(branchInfos[current], idx)) \subseteq Range(branchInfos[current])
    BY <1>0, <1>2, <2>3, InfoErased, ZenonT(40)
  <2>5. \A s \in State : Range(branchInfos'[s]) \subseteq Range(branchInfos[s])
    BY <1>0, <1>2, <2>1, <2>4, InfosErased, Zenon
  <2> QED BY <1>0, <1>1, <1>2, <2>5, NamesOutside, Zenon
<1> QED BY <1>3, <1>4, <1>5, ZenonT(40)

\* handlePartlyCoveredBranch hands out infos of its branch, which is a target.
LEMMA PartlyNames ==
  ASSUME BaseInv, NamedInv, NewPartlyCovered \/ ClaimStore \/ Claimed \/ PickStore \/ FindState \/ StatesFound
  PROVE  NamedInv'
<1>0. TypeOK /\ Relied /\ QInv /\ execStates \subseteq State /\ addedStates = <<>>
  BY Zenon DEF BaseInv, TInv, TypeOK, ExecType, NamedInv
<1>1. UNCHANGED <<execVars, targetVars>>
  BY Zenon DEF NewPartlyCovered, ClaimStore, Claimed, PickStore, FindState, StatesFound
<1>2. /\ UNCHANGED <<addedStates, execStates, removedStates, TB>> /\ Listed' = Listed
      /\ TB \in Seq(Branch)
  BY <1>0, <1>1, ZenonT(40) DEF execVars, targetVars, Listed, TypeOK, TargetType
<1>3. CASE branchInfos' = branchInfos
  <2>1. \A s \in execStates' \ removedStates' : Named(s)'
    BY <1>0, <1>2, <1>3, Zenon DEF NamedInv, Named
  <2>2. step' # "clear" /\ (step' \in {"claim", "pick", "find"} => target' \in Range(TB))
    <3>1. CASE NewPartlyCovered
      <4>1. step' = "retarget" \/ (step' = "claim" /\ TB # <<>> /\ target' = back(TB))
        BY <3>1, Zenon DEF NewPartlyCovered
      <4> QED BY <1>2, <4>1, BackInRange, ZenonT(40)
    <3>2. CASE ClaimStore \/ Claimed \/ FindState \/ StatesFound
      <4>1. step \in {"claim", "find"} /\ step' \in {"claim", "pick", "find"} /\ target' = target
        BY <3>2, Zenon DEF ClaimStore, Claimed, FindState, StatesFound
      <4> QED BY <4>1, ZenonT(40) DEF NamedInv
    <3>3. CASE PickStore
      <4>1. step = "pick" /\ (step' = ret \/ (step' = "find" /\ target' = target))
        BY <3>3, Zenon DEF PickStore
      <4>2. ret \in {"partlyDone", "refill"}
        BY <1>0, <4>1, ZenonT(40) DEF QInv, Positions
      <4> QED BY <4>1, <4>2, ZenonT(40) DEF NamedInv
    <3> QED BY <3>1, <3>2, <3>3, ZenonT(40)
  <2> QED BY <1>0, <1>2, <2>1, <2>2, ZenonT(40) DEF NamedInv
<1>4. CASE branchInfos' # branchInfos
  <2>1. /\ ClaimStore \/ FindState
        /\ step \in {"claim", "find"} /\ step' = step /\ target' = target
        /\ \E c, t : /\ branchInfos' = [branchInfos EXCEPT ![c] =
                                          Append(branchInfos[c], [sid |-> t, bid |-> target])]
                     /\ \/ c = current /\ t \in sids
                        \/ step = "find" /\ idx <= Len(states) /\ c = states[idx] /\ t = sid
    <3>1. CASE ClaimStore
      <4>1. PICK t \in sids : branchInfos' = [branchInfos EXCEPT ![current] =
                                 Append(branchInfos[current], [sid |-> t, bid |-> target])]
        BY <3>1, Zenon DEF ClaimStore
      <4>2. step = "claim" /\ step' = step /\ target' = target
        BY <3>1, Zenon DEF ClaimStore
      <4> QED BY <3>1, <4>1, <4>2, Zenon
    <3>2. CASE FindState
      <4>1. /\ step = "find" /\ step' = step /\ target' = target /\ idx <= Len(states)
            /\ branchInfos' = [branchInfos EXCEPT ![states[idx]] =
                                 Append(branchInfos[states[idx]], [sid |-> sid, bid |-> target])]
        BY <1>4, <3>2, Zenon DEF FindState
      <4> QED BY <3>2, <4>1, Zenon
    <3>3. CASE NewPartlyCovered \/ Claimed \/ PickStore \/ StatesFound
      BY <1>4, <3>3, Zenon DEF NewPartlyCovered, Claimed, PickStore, StatesFound, stateVars
    <3> QED BY <3>1, <3>2, <3>3, Zenon
  <2>2. PICK c, t : /\ branchInfos' = [branchInfos EXCEPT ![c] =
                                         Append(branchInfos[c], [sid |-> t, bid |-> target])]
                    /\ \/ c = current /\ t \in sids
                       \/ step = "find" /\ idx <= Len(states) /\ c = states[idx] /\ t = sid
    BY <2>1, ZenonT(40)
  <2>3. /\ sids \subseteq Store /\ states \in Seq(State) /\ idx \in Nat \ {0}
        /\ current \in State /\ (step = "find" => sid \in Store) /\ target \in Branch
        /\ target \in Range(TB)
    BY <1>0, <2>1, ZenonT(40) DEF TypeOK, QueueType, ControlType, Relied, NamedInv
  <2>4. c \in State /\ t \in Store
    <3>1. idx <= Len(states) => idx \in 1 .. Len(states)
      BY <2>3, LenProperties, SMTT(30)
    <3> QED BY <2>2, <2>3, <3>1, ElementOfSeq, ZenonT(40)
  <2> DEFINE e == [sid |-> t, bid |-> target]
  <2>5. e \in BranchInfo /\ e.bid \in Listed
    BY <2>3, <2>4, Zenon DEF BranchInfo, Listed
  <2> HIDE DEF e
  <2>6. \A s \in execStates' \ removedStates' : Named(s)'
    BY <1>0, <1>1, <2>2, <2>4, <2>5, NameAppended, Zenon DEF e
  <2> QED BY <1>0, <1>2, <2>1, <2>3, <2>6, ZenonT(40) DEF NamedInv
<1> QED BY <1>3, <1>4, ZenonT(40)

\* Re-targeting: the infos go before the targets they name do.
LEMMA RetargetNames ==
  ASSUME BaseInv, FirstInv, NamedInv, Retarget \/ ClearState \/ StatesCleared \/ Refill
  PROVE  NamedInv'
<1>0. /\ TypeOK /\ Relied /\ QInv /\ execStates \subseteq State /\ addedStates = <<>>
      /\ branch_states \in Seq(State) /\ idx \in Nat \ {0} /\ PCB \in Seq(Branch) /\ TB \in Seq(Branch)
  BY Zenon DEF BaseInv, TInv, TypeOK, ExecType, NamedInv, QueueType, ControlType, TargetType
<1>1. UNCHANGED execVars /\ FCB' = FCB
  BY Zenon DEF Retarget, ClearState, StatesCleared, Refill, targetVars
<1>2. UNCHANGED <<addedStates, execStates, removedStates>>
  BY <1>1, ZenonT(40) DEF execVars
<1>3. CASE Retarget
  <2>1. /\ step = "retarget" /\ step' \in {"clear", "add"} /\ idx' = idx
        /\ UNCHANGED <<branchInfos, TB>>
    BY <1>3, Zenon DEF Retarget, stateVars, targetVars, loopVars
  <2>2. idx = 1
    BY <1>0, <2>1, Zenon DEF QInv, Positions
  <2>3. \A s \in execStates' \ removedStates' : Named(s)'
    BY <1>1, <1>2, <2>1, ZenonT(40) DEF NamedInv, Named, Listed
  <2> QED BY <1>0, <1>2, <2>1, <2>2, <2>3, SMTT(30) DEF NamedInv
<1>4. CASE ClearState
  <2> DEFINE s == branch_states[idx]
  <2>1. /\ step = "clear" /\ step' = "clear" /\ idx <= Len(branch_states) /\ TB' = TB
        /\ branchInfos' = [branchInfos EXCEPT ![s] = <<>>]
        /\ \/ idx' = idx + 1 /\ branch_states' = branch_states
           \/ idx' = idx /\ branch_states' = erase(branch_states, idx)
    BY <1>4, Zenon DEF ClearState, targetVars, queueVars
  <2>2. idx \in 1 .. Len(branch_states) /\ Len(branch_states) \in Nat
    BY <1>0, <2>1, LenProperties, SMTT(30)
  <2>3. s \in State
    BY <1>0, <2>2, ElementOfSeq, Zenon
  <2>4. <<>> \in Seq(BranchInfo) /\ Range(<<>>) \subseteq Range(branchInfos[s])
    BY EmptySeq, EmptyRange, ZenonT(40)
  <2>5. \A u \in State : Range(branchInfos'[u]) \subseteq Range(branchInfos[u])
    <3> HIDE DEF s
    <3> QED BY <1>0, <2>1, <2>3, <2>4, InfosErased, Zenon
  <2>6. Listed' = Listed
    BY <1>1, <2>1, ZenonT(40) DEF Listed
  <2>7. \A u \in execStates' \ removedStates' : Named(u)'
    BY <1>0, <1>2, <2>5, <2>6, NamesKept, ZenonT(40)
  <2>8. branchInfos \in [State -> Seq(BranchInfo)]
    BY <1>0, ZenonT(40) DEF TypeOK, StateType
  <2>9. /\ branchInfos'[s] = <<>>
        /\ \A u \in State : branchInfos[u] = <<>> => branchInfos'[u] = <<>>
    <3> HIDE DEF s
    <3> QED BY <2>1, <2>3, <2>8, Zenon
  <2>10. \A j \in 1 .. Len(branch_states) : j < idx =>
            branchInfos'[branch_states[j]] = <<>>
    <3>1. \A j \in 1 .. Len(branch_states) : branch_states[j] \in State
      BY <1>0, ElementOfSeq, ZenonT(40)
    <3>2. \A j \in 1 .. Len(branch_states) : j < idx => branchInfos[branch_states[j]] = <<>>
      BY <2>1, ZenonT(40) DEF NamedInv
    <3> QED BY <2>9, <3>1, <3>2, Zenon
  <2>11. \A j \in 1 .. Len(branch_states') : j < idx' => branchInfos'[branch_states'[j]] = <<>>
    <3>1. CASE idx' = idx + 1 /\ branch_states' = branch_states
      <4> SUFFICES ASSUME NEW j \in 1 .. Len(branch_states), j < idx + 1
                   PROVE  branchInfos'[branch_states[j]] = <<>>
        BY <3>1, ZenonT(40)
      <4>1. j = idx \/ j < idx
        BY <1>0, SMTT(30)
      <4> QED BY <2>9, <2>10, <4>1, ZenonT(40)
    <3>2. CASE idx' = idx /\ branch_states' = erase(branch_states, idx)
      <4>1. /\ Len(erase(branch_states, idx)) = Len(branch_states) - 1
            /\ \A j \in 1 .. Len(branch_states) - 1 : erase(branch_states, idx)[j] =
                  IF j < idx THEN branch_states[j] ELSE branch_states[j + 1]
        BY <1>0, <2>2, EraseElements, ZenonT(40)
      <4> SUFFICES ASSUME NEW j \in 1 .. Len(branch_states) - 1, j < idx
                   PROVE  branchInfos'[erase(branch_states, idx)[j]] = <<>>
        BY <3>2, <4>1, ZenonT(40)
      <4>2. j \in 1 .. Len(branch_states) /\ erase(branch_states, idx)[j] = branch_states[j]
        BY <2>2, <4>1, SMTT(30)
      <4> QED BY <2>10, <4>2, ZenonT(40)
    <3> QED BY <2>1, <3>1, <3>2, ZenonT(40)
  <2> QED BY <1>0, <1>2, <2>1, <2>7, <2>11, ZenonT(40) DEF NamedInv
<1>5. CASE StatesCleared
  <2>1. /\ step = "clear" /\ step' = "refill" /\ idx > Len(branch_states) /\ branchInfos' = branchInfos
    BY <1>5, ZenonT(40) DEF StatesCleared, stateVars
  <2>2. execStates = Range(states) \cup Range(branch_states)
    BY <1>0, <2>1, ZenonT(40) DEF QInv, PoolFollows, Running, pool
  <2>3. ASSUME NEW u \in execStates \ removedStates PROVE branchInfos[u] = <<>>
    <3>1. CASE u \in Range(branch_states)
      <4>1. DOMAIN branch_states = 1 .. Len(branch_states) /\ Len(branch_states) \in Nat
        BY <1>0, LenProperties, ZenonT(40)
      <4>2. PICK j \in 1 .. Len(branch_states) : u = branch_states[j]
        BY <3>1, <4>1, Zenon DEF Range
      <4>3. j < idx
        BY <1>0, <2>1, <4>1, SMTT(30)
      <4> QED BY <2>1, <4>2, <4>3, ZenonT(40) DEF NamedInv
    <3>2. CASE u \in Range(states)
      <4>1. u \in State /\ u \notin removedStates
        BY <1>0, ZenonT(40)
      <4>2. Waits(u) => u = current /\ Excused
        BY <4>1, ZenonT(40) DEF FirstInv
      <4>3. Excused => current \in removedStates
        BY <2>1, ZenonT(40) DEF Excused
      <4> QED BY <3>2, <4>1, <4>2, <4>3, ZenonT(40) DEF Waits
    <3> QED BY <2>2, <3>1, <3>2, ZenonT(40)
  <2>4. Range(<<>>) = {}
    BY EmptySeq, EmptyRange, Zenon
  <2>5. \A u \in execStates' \ removedStates' : Named(u)'
    BY <1>2, <2>1, <2>3, <2>4, ZenonT(40) DEF Named
  <2> QED BY <1>0, <1>2, <2>1, <2>5, ZenonT(40) DEF NamedInv
<1>6. CASE Refill
  <2>1. /\ step' \in {"claim", "crashed", "add"} /\ branchInfos' = branchInfos
        /\ \/ step' = "add" /\ TB' = TB
           \/ PCB # <<>> /\ TB' = Append(TB, back(PCB)) /\ target' = back(PCB)
    BY <1>6, ZenonT(40) DEF Refill, stateVars
  <2>2. PCB # <<>> => /\ back(PCB) \in Branch
                      /\ Range(Append(TB, back(PCB))) = Range(TB) \cup {back(PCB)}
    BY <1>0, BackInRange, AppendRange, SMTT(30)
  <2>3. Listed \subseteq Listed' /\ (step' = "claim" => target' \in Range(TB'))
    BY <1>1, <2>1, <2>2, Zenon DEF Listed
  <2>4. \A u \in execStates' \ removedStates' : Named(u)'
    BY <1>2, <2>1, <2>3, Zenon DEF NamedInv, Named
  <2> QED BY <1>0, <1>2, <2>1, <2>3, <2>4, ZenonT(40) DEF NamedInv
<1> QED BY <1>3, <1>4, <1>5, <1>6

\* Every step keeps the names, if the program does not fork.
LEMMA NextNames ==
  ASSUME BaseInv, ListInv, FirstInv, NamedInv, "fork" \notin Allowed, [Next]_vars
  PROVE  NamedInv'
<1>0. execStates \subseteq State /\ addedStates = <<>>
  BY Zenon DEF BaseInv, TInv, TypeOK, ExecType, NamedInv
<1>1. CASE \/ Rotate \/ FullyCoveredHandled \/ ReachStore \/ StoreValuesExamined
           \/ PartlyCoveredHandled \/ AddState \/ StatesAdded \/ RemoveState \/ StatesRemoved
  <2>1. /\ step' \in {"retarget", "reach", "crashed", "store", "partly", "examine", "add", "remove", "commit"}
        /\ UNCHANGED <<execVars, targetVars, branchInfos>>
    BY <1>1, Zenon DEF Rotate, FullyCoveredHandled, ReachStore, StoreValuesExamined,
       PartlyCoveredHandled, AddState, StatesAdded, RemoveState, StatesRemoved, stateVars
  <2>2. UNCHANGED <<addedStates, execStates, removedStates>> /\ Listed' = Listed
    BY <2>1 DEF execVars, targetVars, Listed
  <2> QED BY <1>0, <2>1, <2>2, NamesOutside, ZenonT(40)
<1>2. CASE UNCHANGED vars
  <2>1. UNCHANGED <<step, idx, target, branch_states, TB, FCB, branchInfos>>
    BY <1>2, ZenonT(40) DEF vars, loopVars, queueVars, targetVars, stateVars
  <2>2. UNCHANGED <<addedStates, execStates, removedStates>>
    BY <1>2 DEF vars, execVars
  <2> QED BY <2>1, <2>2, ZenonT(40) DEF NamedInv, Named, Listed
<1> QED BY <1>1, <1>2, ExecutorNames, ErasureNames, PartlyNames, RetargetNames, ZenonT(40)
    DEF Next, Ended, UpdateNext

(***************************************************************************)
(* If the program does not fork, whenever a state is selected the          *)
(* branchInfos of all states name current targets, or branches that have   *)
(* been fully covered since.                                               *)
(***************************************************************************)
THEOREM InfosFollowTargets == ASSUME "fork" \notin Allowed PROVE Spec => []InfosNameTargets
<1> DEFINE Inv == BaseInv /\ ListInv /\ CurrentInv /\ FirstInv /\ NamedInv
<1>1. Init => Inv
  <2>1. Init => NamedInv
    <3>1. Range(<<>>) = {}
      BY EmptySeq, EmptyRange, Zenon
    <3> SUFFICES ASSUME Init PROVE NamedInv
      BY ZenonT(40)
    <3>2. /\ addedStates = <<>> /\ step = "select" /\ execStates \subseteq State
          /\ branchInfos = [s \in State |-> <<>>]
      BY DEF Init
    <3>3. \A s \in State : Named(s)
      BY <3>1, <3>2, ZenonT(40) DEF Named
    <3> QED BY <3>2, <3>3, ZenonT(40) DEF NamedInv
  <2> QED BY <2>1, InitBase, InitLists, InitCurrent, InitFirst, ZenonT(40)
<1>2. Inv /\ [Next]_vars => Inv'
  BY NextBase, NextLists, NextCurrent, NextFirst, NextNames, ZenonT(40)
<1>3. Inv => InfosNameTargets
  <2> SUFFICES ASSUME BaseInv, NamedInv, step = "select", NEW s \in execStates,
                      NEW i \in DOMAIN branchInfos[s]
               PROVE  branchInfos[s][i].bid \in Range(TB) \cup Range(FCB)
    BY ZenonT(40) DEF InfosNameTargets
  <2>1. removedStates = {}
    BY DEF BaseInv, QInv, PoolFollows, Idle
  <2>2. branchInfos[s][i] \in Range(branchInfos[s])
    BY Zenon DEF Range
  <2> QED BY <2>1, <2>2, ZenonT(40) DEF NamedInv, Named, Listed
<1> QED BY <1>1, <1>2, <1>3, PTL DEF Spec
=============================================================================
