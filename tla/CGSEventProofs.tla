--------------------------- MODULE CGSEventProofs ---------------------------
(***************************************************************************)
(* The executor's lists of target, partly and fully covered branches, what *)
(* it records for a br, and the dependencies of the branches, for any      *)
(* number of branches, stores and values and any TargetBranchNum; then the *)
(* messages between the executor and update: the events of a state, its    *)
(* branchInfos and where it waits.                                         *)
(***************************************************************************)
EXTENDS CGSQueueProofs

(***************************************************************************)
(* There may be room for a waiting branch only while re-targeting empties  *)
(* the list of targets and fills it again; the handler called for a branch *)
(* that just became a target does not count.                               *)
(***************************************************************************)
Open ==
  \/ step \in {"clear", "refill", "crashed"}
  \/ step \in {"claim", "pick", "find"} /\ ret # "partlyDone"
Room == PCB # <<>> /\ ~Open => Len(TB) = TargetBranchNum
ListInv == BranchListsExclusive /\ Room

\* Coverage only grows.
Grows == \A b \in Branch : seen[b] \subseteq seen'[b]
-----------------------------------------------------------------------------
\* A step that leaves the lists alone, and does not end a re-targeting.
LEMMA ListsSame ==
  ASSUME TypeOK, ListInv, UNCHANGED targetVars, Grows, Open => Open'
  PROVE  ListInv'
<1>1. TB' = TB /\ PCB' = PCB /\ FCB' = FCB
  BY Zenon DEF targetVars
<1>2. Range(FCB) \subseteq Branch
  BY RangeType DEF TypeOK, TargetType
<1>3. \A b \in Range(FCB) : FullyCovered(b)'
  BY <1>2, Zenon DEF ListInv, BranchListsExclusive, FullyCovered, Grows
<1>4. BranchListsExclusive'
  BY <1>1, <1>3, Zenon DEF ListInv, BranchListsExclusive
<1>5. Room'
  BY <1>1, Zenon DEF ListInv, Room
<1> QED BY <1>4, <1>5, Zenon DEF ListInv

\* A branch becomes a target, or waits for room.
LEMMA NewTargetLists ==
  ASSUME TypeOK, ListInv, ~Open, Grows, NEW b \in Branch, NewTarget(b),
         b \notin Range(TB), b \notin Range(PCB), b \notin Range(FCB)
  PROVE  ListInv'
<1>0. /\ TB \in Seq(Branch) /\ PCB \in Seq(Branch) /\ FCB \in Seq(Branch)
      /\ Len(TB) \in Nat /\ TargetBranchNum \in Nat /\ Len(TB) <= TargetBranchNum
      /\ IsInjective(TB) /\ IsInjective(PCB) /\ IsInjective(FCB)
      /\ Range(TB) \cap Range(PCB) = {} /\ Range(FCB) \cap (Range(TB) \cup Range(PCB)) = {}
      /\ Range(FCB) \subseteq Branch
  BY LenProperties, RangeType, BoundAssumption, ZenonT(40)
  DEF TypeOK, TargetType, ListInv, BranchListsExclusive
<1>1. FCB' = FCB
  BY Zenon DEF NewTarget
<1>2. \A a \in Range(FCB') : FullyCovered(a)'
  BY <1>0, <1>1, Zenon DEF ListInv, BranchListsExclusive, FullyCovered, Grows
<1>3. CASE Len(TB) < TargetBranchNum
  <2>1. TB' = Append(TB, b) /\ PCB' = PCB
    BY <1>3, Zenon DEF NewTarget
  <2>2. PCB = <<>>
    BY <1>0, <1>3 DEF ListInv, Room
  <2>3. Len(TB') = Len(TB) + 1 /\ Range(TB') = Range(TB) \cup {b} /\ IsInjective(TB')
    BY <1>0, <2>1, AppendProperties, AppendRange, ZenonT(40)
  <2>4. Len(TB') <= TargetBranchNum
    BY <1>0, <1>3, <2>3
  <2>5. /\ Range(TB') \cap Range(PCB') = {}
        /\ Range(FCB') \cap (Range(TB') \cup Range(PCB')) = {}
    BY <1>0, <1>1, <2>1, <2>3, Zenon
  <2> QED BY <1>0, <1>1, <1>2, <2>1, <2>2, <2>3, <2>4, <2>5, Zenon
      DEF ListInv, BranchListsExclusive, Room
<1>4. CASE ~(Len(TB) < TargetBranchNum)
  <2>1. PCB' = Append(PCB, b) /\ TB' = TB
    BY <1>4, Zenon DEF NewTarget
  <2>2. Len(TB) = TargetBranchNum
    BY <1>0, <1>4
  <2>3. Range(PCB') = Range(PCB) \cup {b} /\ IsInjective(PCB')
    BY <1>0, <2>1, AppendRange, ZenonT(40)
  <2>5. /\ Range(TB') \cap Range(PCB') = {}
        /\ Range(FCB') \cap (Range(TB') \cup Range(PCB')) = {}
    BY <1>0, <1>1, <2>1, <2>3, Zenon
  <2> QED BY <1>0, <1>1, <1>2, <2>1, <2>2, <2>3, <2>5, Zenon
      DEF ListInv, BranchListsExclusive, Room
<1> QED BY <1>3, <1>4, Zenon

\* A covered branch leaves its list, and a waiting one takes the place of a target.
LEMMA NewlyCoveredLists ==
  ASSUME TypeOK, ListInv, ~Open, Grows, NEW b \in Branch, NewlyCovered(b),
         b \notin Range(FCB), FullyCovered(b)'
  PROVE  ListInv'
<1>0. /\ TB \in Seq(Branch) /\ PCB \in Seq(Branch) /\ FCB \in Seq(Branch)
      /\ Len(TB) \in Nat /\ TargetBranchNum \in Nat /\ Len(TB) <= TargetBranchNum
      /\ IsInjective(TB) /\ IsInjective(PCB) /\ IsInjective(FCB)
      /\ Range(TB) \cap Range(PCB) = {} /\ Range(FCB) \cap (Range(TB) \cup Range(PCB)) = {}
      /\ Range(FCB) \subseteq Branch
  BY LenProperties, RangeType, BoundAssumption, ZenonT(40)
  DEF TypeOK, TargetType, ListInv, BranchListsExclusive
<1>1. Range(FCB') = Range(FCB) \cup {b} /\ IsInjective(FCB')
  BY <1>0, AppendRange DEF NewlyCovered
<1>2. \A a \in Range(FCB') : FullyCovered(a)'
  BY <1>0, <1>1, Zenon DEF ListInv, BranchListsExclusive, FullyCovered, Grows
<1> DEFINE rest == Without(TB, b)
<1>3. /\ rest \in Seq(Branch) /\ IsInjective(rest) /\ Range(rest) = Range(TB) \ {b}
      /\ b \notin Range(TB) => rest = TB
      /\ b \in Range(TB) => Len(rest) = Len(TB) - 1
  BY <1>0, WithoutType, WithoutRange, WithoutLen, ZenonT(40)
<1>4. CASE b \in Range(TB) /\ PCB # <<>>
  <2>1. TB' = Append(rest, back(PCB)) /\ PCB' = pop_back(PCB)
    BY <1>4, Zenon DEF NewlyCovered
  <2> HIDE DEF rest
  <2>2. /\ back(PCB) \in Branch /\ back(PCB) \in Range(PCB)
        /\ Range(PCB') = Range(PCB) \ {back(PCB)} /\ IsInjective(PCB')
    BY <1>0, <1>4, <2>1, BackInRange, PopBackRange, Zenon
  <2>3. back(PCB) \notin Range(rest)
    BY <1>0, <1>3, <2>2, Zenon
  <2>4. Len(TB') = Len(rest) + 1 /\ Range(TB') = Range(rest) \cup {back(PCB)} /\ IsInjective(TB')
    BY <1>3, <2>1, <2>2, <2>3, AppendProperties, AppendRange
  <2>5. Len(TB') = TargetBranchNum /\ Len(TB') <= TargetBranchNum
    BY <1>0, <1>3, <1>4, <2>4 DEF ListInv, Room
  <2>6. /\ Range(TB') \cap Range(PCB') = {}
        /\ Range(FCB') \cap (Range(TB') \cup Range(PCB')) = {}
    BY <1>0, <1>1, <1>3, <1>4, <2>2, <2>4
  <2> QED BY <1>1, <1>2, <2>2, <2>4, <2>5, <2>6, Zenon DEF ListInv, BranchListsExclusive, Room
<1>5. CASE ~(b \in Range(TB) /\ PCB # <<>>)
  <2>1. TB' = rest /\ PCB' = IF b \in Range(TB) THEN PCB ELSE Without(PCB, b)
    BY <1>5, Zenon DEF NewlyCovered
  <2> HIDE DEF rest
  <2>2. IsInjective(PCB') /\ Range(PCB') = Range(PCB) \ {b}
    BY <1>0, <2>1, WithoutRange, ZenonT(40)
  <2>3. PCB' # <<>> => b \notin Range(TB) /\ PCB # <<>>
    <3>1. PCB = <<>> => Without(PCB, b) = PCB
      BY <1>0, EmptyRange, WithoutLen, Zenon
    <3> QED BY <1>5, <2>1, <3>1, Zenon
  <2>4. Room'
    <3>1. PCB' # <<>> => TB' = TB /\ Len(TB) = TargetBranchNum
      BY <1>3, <2>1, <2>3, Zenon DEF ListInv, Room
    <3> QED BY <3>1, Zenon DEF Room
  <2>5. Len(TB') <= TargetBranchNum
    BY <1>0, <1>3, <2>1
  <2>6. /\ Range(TB') \cap Range(PCB') = {}
        /\ Range(FCB') \cap (Range(TB') \cup Range(PCB')) = {}
    BY <1>0, <1>1, <1>3, <2>1, <2>2, Zenon
  <2> QED BY <1>1, <1>2, <1>3, <2>1, <2>2, <2>4, <2>5, <2>6, Zenon
      DEF ListInv, BranchListsExclusive
<1> QED BY <1>4, <1>5, ZenonT(40)

\* The part the br and switch handlers share.
LEMMA FollowLists ==
  ASSUME TypeOK, ListInv, ~Open, Grows, step' = "rotate", NEW b \in Branch, NEW o, NEW c,
         FollowBranch(b, o, c)
  PROVE  ListInv'
<1>1. \/ /\ NewTarget(b) /\ b \notin Range(TB) \cup Range(PCB)
         /\ ~(Outcome[b] \subseteq seen'[b])
      \/ NewlyCovered(b) /\ b \notin Range(FCB) /\ Outcome[b] \subseteq seen'[b]
      \/ UNCHANGED <<targetVars, newFullyCoveredBranch, newPartlyCoveredBranch>>
  BY Zenon DEF FollowBranch
<1>2. CASE /\ NewTarget(b) /\ b \notin Range(TB) \cup Range(PCB)
           /\ ~(Outcome[b] \subseteq seen'[b])
  <2>1. b \notin Range(FCB)
    BY <1>2 DEF Grows, ListInv, BranchListsExclusive, FullyCovered
  <2> QED BY <1>2, <2>1, NewTargetLists, Zenon
<1>3. CASE NewlyCovered(b) /\ b \notin Range(FCB) /\ Outcome[b] \subseteq seen'[b]
  <2>1. FullyCovered(b)'
    BY <1>3, Zenon DEF FullyCovered
  <2> QED BY <1>3, <2>1, NewlyCoveredLists, Zenon
<1>4. CASE UNCHANGED <<targetVars, newFullyCoveredBranch, newPartlyCoveredBranch>>
  BY <1>4, ListsSame
<1> QED BY <1>1, <1>2, <1>3, <1>4, Zenon

\* Re-targeting: the list of targets is emptied, then filled from the waiting branches.
LEMMA RefillLists ==
  ASSUME TypeOK, ListInv, StatesCleared \/ Refill
  PROVE  ListInv'
<1>0. /\ TB \in Seq(Branch) /\ PCB \in Seq(Branch) /\ FCB \in Seq(Branch)
      /\ Len(TB) \in Nat /\ TargetBranchNum \in Nat /\ Len(TB) <= TargetBranchNum
      /\ IsInjective(TB) /\ IsInjective(PCB) /\ IsInjective(FCB)
      /\ Range(TB) \cap Range(PCB) = {} /\ Range(FCB) \cap (Range(TB) \cup Range(PCB)) = {}
      /\ \A b \in Range(FCB) : FullyCovered(b)
  BY LenProperties, BoundAssumption, ZenonT(40) DEF TypeOK, TargetType, ListInv, BranchListsExclusive
<1>1. FCB' = FCB /\ \A b \in Range(FCB') : FullyCovered(b)'
  BY <1>0, Zenon DEF StatesCleared, Refill, coverVars, FullyCovered
<1>2. CASE StatesCleared
  <2>1. TB' = <<>> /\ PCB' = PCB /\ step' = "refill"
    BY <1>2, Zenon DEF StatesCleared
  <2>2. TB' \in Seq(Branch) /\ Len(TB') = 0
    BY <2>1, EmptySeq
  <2>3. Len(TB') <= TargetBranchNum /\ Range(TB') = {} /\ IsInjective(TB')
    <3>1. Range(TB') = {} /\ IsInjective(TB')
      BY <2>1, <2>2, EmptyRange, Zenon
    <3> QED BY <1>0, <2>2, <3>1
  <2>4. Room'
    BY <2>1, ZenonT(40) DEF Room, Open
  <2> QED BY <1>0, <1>1, <2>1, <2>3, <2>4, Zenon DEF ListInv, BranchListsExclusive
<1>3. CASE Refill /\ Len(TB) < TargetBranchNum /\ PCB # <<>>
  <2>1. /\ TB' = Append(TB, back(PCB)) /\ PCB' = pop_back(PCB) /\ ret' = "refill"
        /\ step' = "crashed" \/ step' = "claim"
    BY <1>3, Zenon DEF Refill
  <2>2. /\ back(PCB) \in Branch /\ back(PCB) \in Range(PCB)
        /\ Range(PCB') = Range(PCB) \ {back(PCB)} /\ IsInjective(PCB')
    BY <1>0, <1>3, <2>1, BackInRange, PopBackRange, ZenonT(40)
  <2>3. back(PCB) \notin Range(TB)
    BY <1>0, <2>2, Zenon
  <2>4. Len(TB') = Len(TB) + 1 /\ Range(TB') = Range(TB) \cup {back(PCB)} /\ IsInjective(TB')
    BY <1>0, <2>1, <2>2, <2>3, AppendProperties, AppendRange, SMTT(30)
  <2>5. Len(TB') <= TargetBranchNum
    BY <1>0, <1>3, <2>4
  <2>6. Room'
    BY <2>1, Zenon DEF Room, Open
  <2>7. /\ Range(TB') \cap Range(PCB') = {}
        /\ Range(FCB') \cap (Range(TB') \cup Range(PCB')) = {}
    BY <1>0, <1>1, <2>2, <2>4, Zenon
  <2> QED BY <1>0, <1>1, <2>2, <2>4, <2>5, <2>6, <2>7, Zenon DEF ListInv, BranchListsExclusive
<1>4. CASE Refill /\ ~(Len(TB) < TargetBranchNum /\ PCB # <<>>)
  <2>1. TB' = TB /\ PCB' = PCB
    BY <1>4, Zenon DEF Refill
  <2>2. PCB # <<>> => Len(TB) = TargetBranchNum
    BY <1>0, <1>4
  <2> QED BY <1>0, <1>1, <2>1, <2>2, Zenon DEF ListInv, BranchListsExclusive, Room
<1> QED BY <1>2, <1>3, <1>4, Zenon

(***************************************************************************)
(* All other steps of the executor and of update leave the lists and the   *)
(* coverage alone, and none of them ends a re-targeting.                   *)
(***************************************************************************)
Handlers ==
  \/ \E b \in BrBranch : \E o \in Outcome[b], c \in {TRUE, "mixed" \notin Allowed} :
        ConcreteBr(b, o, c)
  \/ \E b \in BrBranch : \E o \in Outcome[b] : SymbolicBr(b, o)
  \/ \E b \in SwitchBranch : \E o \in Outcome[b] \cup {Default} : ConcreteSwitch(b, o)

\* The steps of the executor, apart from the br and switch handlers and the end of the loop.
LEMMA ExecutorLeavesLists ==
  ASSUME ExecutorNext
  PROVE  \/ Handlers
         \/ /\ UNCHANGED <<targetVars, seen, unCoveredPred, BI2ID, invalidBranches>>
            /\ UNCHANGED <<validStoreValues, depVars>>
            /\ ~Open
<1>1. CASE SelectState \/ Halt
  BY <1>1, ZenonT(40) DEF SelectState, Halt, coverVars, cacheVars, Open
<1>2. CASE Fork \/ TerminateCurrent \/ TerminateAdded
  BY <1>2 DEF Fork, TerminateCurrent, TerminateAdded, coverVars, cacheVars, Open
<1>3. CASE \E s \in Store, v \in Value : StoreInst(s, v)
  <2>1. PICK s \in Store, v \in Value : StoreInst(s, v)
    BY <1>3, Zenon
  <2>2. step = "exec" /\ UNCHANGED <<coverVars, targetVars, cacheVars, depVars>>
    BY <2>1, Zenon DEF StoreInst
  <2> QED BY <2>2 DEF coverVars, cacheVars, Open
<1>4. CASE StoreLoop
  <2>1. step = "storeLoop" /\ UNCHANGED <<coverVars, targetVars, validStoreValues, depVars>>
    BY <1>4, Zenon DEF StoreLoop
  <2> QED BY <2>1 DEF coverVars, Open
<1>5. CASE OtherInst \/ UpdateStates \/ CheckMemoryUsage \/ Tick
  BY <1>5 DEF OtherInst, UpdateStates, CheckMemoryUsage, Tick, coverVars, cacheVars, Open
<1> QED BY <1>1, <1>2, <1>3, <1>4, <1>5, Zenon DEF ExecutorNext, Handlers

\* The steps of update, apart from re-targeting.
LEMMA UpdateLeavesLists ==
  ASSUME QInv, UpdateNext
  PROVE  /\ UNCHANGED <<seen, unCoveredPred, FCB>>
         /\ \/ StatesCleared \/ Refill
            \/ UNCHANGED targetVars /\ (Open => Open')
<1>1. CASE Rotate \/ ReachBranch \/ HandleFullyCovered \/ FullyCoveredHandled
  <2>1. /\ step \in {"rotate", "reach", "fully"}
        /\ UNCHANGED <<coverVars, targetVars>>
    BY <1>1, Zenon DEF Rotate, ReachBranch, HandleFullyCovered, FullyCoveredHandled
  <2> QED BY <2>1 DEF coverVars, targetVars, Open
<1>2. CASE ReachStore \/ ExamineStoreValue \/ StoreValuesExamined
  <2>1. /\ step \in {"store", "examine"}
        /\ UNCHANGED <<coverVars, targetVars>>
    BY <1>2, Zenon DEF ReachStore, ExamineStoreValue, StoreValuesExamined
  <2> QED BY <2>1 DEF coverVars, targetVars, Open
<1>3. CASE NewPartlyCovered \/ PartlyCoveredHandled \/ Retarget
  <2>1. /\ step \in {"partly", "partlyDone", "retarget"}
        /\ UNCHANGED <<coverVars, targetVars>>
    BY <1>3, Zenon DEF NewPartlyCovered, PartlyCoveredHandled, Retarget
  <2> QED BY <2>1 DEF coverVars, targetVars, Open
<1>4. CASE ClaimStore \/ Claimed \/ FindState \/ StatesFound
  <2>1. /\ step' \in {"claim", "pick", "find"} /\ step \in {"claim", "pick", "find"}
        /\ ret' = ret /\ UNCHANGED <<coverVars, targetVars>>
    BY <1>4, Zenon DEF ClaimStore, Claimed, FindState, StatesFound
  <2> QED BY <2>1 DEF coverVars, targetVars, Open
<1>5. CASE PickStore
  <2>1. /\ step = "pick" /\ (step' = ret \/ step' = "find")
        /\ ret' = ret /\ UNCHANGED <<coverVars, targetVars>>
    BY <1>5, Zenon DEF PickStore
  <2> QED BY <2>1 DEF coverVars, targetVars, Open, QInv, Positions
<1>6. CASE ClearState
  <2>1. step' = "clear" /\ UNCHANGED <<coverVars, targetVars>>
    BY <1>6, Zenon DEF ClearState
  <2> QED BY <2>1 DEF coverVars, targetVars, Open
<1>7. CASE StatesCleared \/ Refill
  BY <1>7, Zenon DEF StatesCleared, Refill, coverVars
<1>8. CASE AddState \/ StatesAdded \/ RemoveState \/ StatesRemoved
  <2>1. step \in {"add", "remove"} /\ UNCHANGED <<coverVars, targetVars>>
    BY <1>8, Zenon DEF AddState, StatesAdded, RemoveState, StatesRemoved
  <2> QED BY <2>1, ZenonT(40) DEF coverVars, targetVars, Open
<1> QED BY <1>1, <1>2, <1>3, <1>4, <1>5, <1>6, <1>7, <1>8, Zenon DEF UpdateNext

\* The handlers follow branch b, and its outcome is covered.
Followed(b) ==
  \E o, c : FollowBranch(b, o, c) /\ (b \notin SwitchBranch => o \in Outcome[b] /\ o \in seen'[b])

\* The br and switch handlers: coverage grows, and a branch they follow changes lists.
LEMMA HandlerFacts ==
  ASSUME BaseInv, Handlers
  PROVE  /\ Grows /\ ~Open /\ step' = "rotate" /\ UNCHANGED <<cacheVars, depVars>>
         /\ \/ UNCHANGED <<targetVars, unCoveredPred>>
            \/ \E b \in Branch : Followed(b)
<1>0. seen \in [Branch -> SUBSET AnyOutcome]
  BY Zenon DEF BaseInv, TInv, TypeOK, CoverType
<1>1. CASE \E b \in BrBranch : \E o \in Outcome[b], c \in {TRUE, "mixed" \notin Allowed} :
              ConcreteBr(b, o, c)
  <2>1. PICK b \in BrBranch : \E o \in Outcome[b], c \in {TRUE, "mixed" \notin Allowed} :
              ConcreteBr(b, o, c)
    BY <1>1, Zenon
  <2>2. PICK o \in Outcome[b], c \in {TRUE, "mixed" \notin Allowed} : ConcreteBr(b, o, c)
    BY <2>1, Zenon
  <2>3. /\ step = "exec" /\ step' = "rotate" /\ UNCHANGED <<cacheVars, depVars>>
        /\ seen' = [seen EXCEPT ![b] = seen[b] \cup {o}]
        /\ FollowBranch(b, o, c) \/ UNCHANGED <<targetVars, unCoveredPred>>
    BY <2>2, Zenon DEF ConcreteBr
  <2>4. b \in Branch
    BY <2>1, Zenon DEF BrBranch
  <2>5. Grows /\ o \in seen'[b]
    BY <1>0, <2>3, <2>4, Zenon DEF Grows
  <2>6. ~Open
    BY <2>3 DEF Open
  <2> QED BY <2>2, <2>3, <2>4, <2>5, <2>6, Zenon DEF Followed
<1>2. CASE \E b \in BrBranch : \E o \in Outcome[b] : SymbolicBr(b, o)
  <2>1. PICK b \in BrBranch : \E o \in Outcome[b] : SymbolicBr(b, o)
    BY <1>2, Zenon
  <2>2. PICK o \in Outcome[b] : SymbolicBr(b, o)
    BY <2>1, Zenon
  <2>3. /\ step = "exec" /\ step' = "rotate" /\ UNCHANGED <<cacheVars, depVars>>
        /\ \E x, y : seen' = [seen EXCEPT ![b] = seen[b] \cup x \cup y]
        /\ UNCHANGED <<targetVars, unCoveredPred>>
    BY <2>2, Zenon DEF SymbolicBr
  <2>4. b \in Branch
    BY <2>1, Zenon DEF BrBranch
  <2>5. Grows
    BY <1>0, <2>3, <2>4, Zenon DEF Grows
  <2>6. ~Open
    BY <2>3 DEF Open
  <2> QED BY <2>3, <2>5, <2>6, Zenon
<1>3. CASE \E b \in SwitchBranch : \E o \in Outcome[b] \cup {Default} : ConcreteSwitch(b, o)
  <2>1. PICK b \in SwitchBranch : \E o : ConcreteSwitch(b, o)
    BY <1>3, Zenon
  <2>2. PICK o : ConcreteSwitch(b, o)
    BY <2>1, Zenon
  <2>3. /\ step = "exec" /\ step' = "rotate" /\ UNCHANGED <<cacheVars, depVars>>
        /\ seen' = [seen EXCEPT ![b] = seen[b] \cup ({o} \cap Outcome[b])]
        /\ FollowBranch(b, o, TRUE)
    BY <2>2, Zenon DEF ConcreteSwitch
  <2>4. b \in Branch
    BY <2>1, BranchAssumption, Zenon
  <2>5. Grows
    BY <1>0, <2>3, <2>4, Zenon DEF Grows
  <2>6. ~Open
    BY <2>3 DEF Open
  <2> QED BY <2>1, <2>3, <2>4, <2>5, <2>6, Zenon DEF Followed
<1> QED BY <1>1, <1>2, <1>3, Zenon DEF Handlers

\* Every step keeps the lists.
LEMMA NextLists == ASSUME BaseInv, ListInv, [Next]_vars PROVE ListInv'
<1>0. TypeOK /\ QInv
  BY Zenon DEF BaseInv, TInv
<1>1. CASE Handlers
  <2>1. CASE UNCHANGED <<targetVars, unCoveredPred>>
    BY <1>0, <1>1, <2>1, HandlerFacts, ListsSame, Zenon
  <2>2. CASE \E b \in Branch : Followed(b)
    BY <1>0, <1>1, <2>2, HandlerFacts, FollowLists, Zenon DEF Followed
  <2> QED BY <1>1, <2>1, <2>2, HandlerFacts, Zenon
<1>2. CASE ExecutorNext /\ ~Handlers
  <2>1. UNCHANGED targetVars /\ seen' = seen /\ ~Open
    BY <1>2, ExecutorLeavesLists, Zenon
  <2>2. Grows
    BY <2>1, Zenon DEF Grows
  <2> QED BY <1>0, <2>1, <2>2, ListsSame, Zenon
<1>3. CASE UpdateNext
  <2>1. CASE StatesCleared \/ Refill
    BY <1>0, <2>1, RefillLists, Zenon
  <2>2. CASE ~(StatesCleared \/ Refill)
    <3>1. UNCHANGED targetVars /\ seen' = seen /\ (Open => Open')
      BY <1>0, <1>3, <2>2, UpdateLeavesLists, Zenon
    <3>2. Grows
      BY <3>1, Zenon DEF Grows
    <3> QED BY <1>0, <3>1, <3>2, ListsSame, Zenon
  <2> QED BY <2>1, <2>2, Zenon
<1>4. CASE UNCHANGED vars
  <2>1. UNCHANGED targetVars /\ seen' = seen /\ step' = step /\ ret' = ret
    BY <1>4 DEF vars, coverVars, loopVars
  <2>2. Grows /\ (Open => Open')
    BY <2>1, Zenon DEF Grows, Open
  <2> QED BY <1>0, <2>1, <2>2, ListsSame, Zenon
<1> QED BY <1>1, <1>2, <1>3, <1>4, Zenon DEF Next, Ended

\* At the start the lists are empty.
LEMMA InitLists == Init => ListInv
<1> SUFFICES ASSUME Init PROVE ListInv
  OBVIOUS
<1>1. TB = <<>> /\ PCB = <<>> /\ FCB = <<>>
  BY Zenon DEF Init
<1>2. <<>> \in Seq(Branch) /\ Len(TB) = 0
  BY <1>1, EmptySeq
<1>3. Range(<<>>) = {} /\ IsInjective(<<>>)
  BY <1>2, EmptyRange, Zenon
<1>4. Len(TB) <= TargetBranchNum
  BY <1>2, BoundAssumption
<1> QED BY <1>1, <1>3, <1>4, Zenon DEF ListInv, BranchListsExclusive, Room

(***************************************************************************)
(* The br and switch handlers and re-targeting keep a branch in at most    *)
(* one list, the list of targets within --target-branch-num, and only      *)
(* fully covered branches in the last list.                                *)
(***************************************************************************)
THEOREM ListsExclusive == Spec => []BranchListsExclusive
<1>1. BaseInv /\ ListInv /\ [Next]_vars => BaseInv' /\ ListInv'
  BY NextBase, NextLists
<1>2. ListInv => BranchListsExclusive
  BY DEF ListInv
<1> QED BY InitBase, InitLists, <1>1, <1>2, PTL DEF Spec

(***************************************************************************)
(* Neither the promotion after a covered target nor re-targeting leaves a  *)
(* partly covered branch waiting while there is room for a target.         *)
(***************************************************************************)
THEOREM PromotionComplete == Spec => []NoBranchWaitsForRoom
<1>1. BaseInv /\ ListInv /\ [Next]_vars => BaseInv' /\ ListInv'
  BY NextBase, NextLists
<1>2. ListInv => NoBranchWaitsForRoom
  BY DEF ListInv, Room, Open, NoBranchWaitsForRoom
<1> QED BY InitBase, InitLists, <1>1, <1>2, PTL DEF Spec
-----------------------------------------------------------------------------
(***************************************************************************)
(* What is recorded for a br: the predicate is the outcome that was not    *)
(* taken when the br became a target, and the valid values lead there.  A  *)
(* br that becomes a target again gets the same predicate.                 *)
(***************************************************************************)
Recorded(b) ==
  /\ unCoveredPred[b] \in Outcome[b] \cup {Default}
  /\ unCoveredPred[b] # Default => \E o \in seen[b] : o # unCoveredPred[b]
  /\ \A v \in validStoreValues[b] :
        FullyCovered(b) \/ Takes[b][Arith[b][v]] = unCoveredPred[b]
PredInv == \A b \in BrBranch : Recorded(b)

\* More coverage, with the same predicate and the same values.
LEMMA RecordedKept ==
  ASSUME NEW b \in BrBranch, Recorded(b), Grows, unCoveredPred'[b] = unCoveredPred[b],
         validStoreValues'[b] = validStoreValues[b]
  PROVE  Recorded(b)'
<1>1. seen[b] \subseteq seen'[b]
  BY Zenon DEF Grows, BrBranch
<1>2. FullyCovered(b) => FullyCovered(b)'
  BY <1>1, Zenon DEF FullyCovered
<1>3. unCoveredPred'[b] # Default => \E o \in seen'[b] : o # unCoveredPred'[b]
  BY <1>1, Zenon DEF Recorded
<1>4. \A v \in validStoreValues'[b] :
        FullyCovered(b)' \/ Takes[b][Arith[b][v]] = unCoveredPred'[b]
  BY <1>2, Zenon DEF Recorded
<1> QED BY <1>3, <1>4, Zenon DEF Recorded

\* A br that becomes a target, maybe not for the first time.
LEMMA RecordedAdmitted ==
  ASSUME TypeOK, NEW b \in BrBranch, Recorded(b), Grows, NEW o \in Outcome[b], o \in seen'[b],
         unCoveredPred'[b] = CHOOSE x \in Outcome[b] : x # o,
         validStoreValues'[b] = validStoreValues[b], ~(Outcome[b] \subseteq seen'[b])
  PROVE  Recorded(b)'
<1> DEFINE other == CHOOSE x \in Outcome[b] : x # o
<1>1. other \in Outcome[b] /\ other # o /\ Outcome[b] = {o, other}
  BY OtherOutcome DEF BrBranch
<1>2. unCoveredPred'[b] = other
  OBVIOUS
<1> HIDE DEF other
<1>3. b \in Branch /\ seen[b] \subseteq seen'[b] /\ seen[b] \subseteq Outcome[b]
  BY Zenon DEF BrBranch, Grows, TypeOK, CoverType
<1>4. other \notin seen[b] /\ ~FullyCovered(b)
  BY <1>1, <1>3, Zenon DEF FullyCovered
<1>5. ASSUME NEW v \in validStoreValues[b] PROVE Takes[b][Arith[b][v]] = other
  <2>1. v \in Value /\ Arith[b][v] \in Value
    BY <1>3, ValueAssumption DEF TypeOK, CacheType
  <2>2. Takes[b][Arith[b][v]] \in Outcome[b] /\ Default \notin Outcome[b]
    BY <1>3, <2>1, ValueAssumption, BranchAssumption, Zenon DEF BrBranch
  <2>3. Takes[b][Arith[b][v]] = unCoveredPred[b] /\ unCoveredPred[b] # Default
    BY <1>4, <2>2, Zenon DEF Recorded
  <2>4. PICK x \in seen[b] : x # unCoveredPred[b]
    BY <2>3, Zenon DEF Recorded
  <2> QED BY <1>1, <1>3, <1>4, <2>2, <2>3, <2>4, Zenon
<1> QED BY <1>1, <1>2, <1>5, Zenon DEF Recorded

\* isNewStoreValue caches a value as valid only if it leads to the recorded outcome.
LEMMA RecordedRemembered ==
  ASSUME TypeOK, PredInv, UNCHANGED <<seen, unCoveredPred>>,
         NEW s \in State, NEW d \in Branch, NEW t \in Store, RememberValue(s, d, t)
  PROVE  PredInv'
<1> SUFFICES ASSUME NEW b \in BrBranch PROVE Recorded(b)'
  BY DEF PredInv
<1>1. Recorded(b) /\ b \in Branch /\ b \notin SwitchBranch
  BY Zenon DEF PredInv, BrBranch
<1>2. Grows /\ seen'[b] = seen[b] /\ unCoveredPred'[b] = unCoveredPred[b]
  BY Zenon DEF Grows
<1> DEFINE u == Loaded(s, t)
           v == Compared(d, u)
<1>3. validStoreValues \in [Branch -> SUBSET Value]
  BY Zenon DEF TypeOK, CacheType
<1>4. CASE validStoreValues'[b] = validStoreValues[b]
  BY <1>1, <1>2, <1>4, RecordedKept, Zenon
<1>5. CASE validStoreValues'[b] # validStoreValues[b]
  <2>1. \/ validStoreValues' = validStoreValues
        \/ /\ validStoreValues' = [validStoreValues EXCEPT ![d] = validStoreValues[d] \cup {v}]
           /\ isNewStoreValue(s, d, t) /\ d \in invalidKeys
    BY Zenon DEF RememberValue
  <2>2. d = b /\ validStoreValues'[b] = validStoreValues[b] \cup {v} /\ v \notin validStoreValues[b]
    BY <1>1, <1>3, <1>5, <2>1, Zenon
  <2>3. /\ isNewStoreValue(s, b, t) /\ b \in invalidKeys
    BY <1>5, <2>1, <2>2, Zenon
  <2>4. u \notin invalidStoreValues[b] /\ (u \in validStoreValues[b] \/ Uncovered(b, Compared(b, u)))
    BY <2>3, Zenon DEF isNewStoreValue
  <2>5. ~Cached(b, u)
    BY <2>2, <2>4, Zenon DEF Compared, Cached
  <2>6. v = Arith[b][u] /\ Takes[b][v] = unCoveredPred[b]
    BY <1>1, <2>2, <2>3, <2>4, <2>5, Zenon DEF Compared, Cached, Uncovered
  <2>7. u \in Value
    BY <1>1, ValueAssumption DEF TypeOK, StateType, Loaded
  <2>8. Arith[b][v] = v
    BY <1>1, <2>6, <2>7, ValueAssumption, Zenon
  <2> HIDE DEF u, v
  <2>9. \A w \in validStoreValues'[b] :
           FullyCovered(b)' \/ Takes[b][Arith[b][w]] = unCoveredPred'[b]
    BY <1>1, <1>2, <2>2, <2>6, <2>8, Zenon DEF Recorded, FullyCovered
  <2> QED BY <1>1, <1>2, <2>9, Zenon DEF Recorded
<1> QED BY <1>4, <1>5, ZenonT(40)

\* The steps that neither cover anything nor cache a value as valid.
LEMMA RecordedSame ==
  ASSUME PredInv, UNCHANGED <<seen, unCoveredPred, validStoreValues>>
  PROVE  PredInv'
BY Zenon DEF PredInv, Recorded, FullyCovered

\* Which steps of update look values up.
LEMMA UpdateRemembers ==
  ASSUME TypeOK, Relied, UpdateNext
  PROVE  \/ UNCHANGED cacheVars
         \/ \E s \in State, b \in Branch, t \in Store : RememberValue(s, b, t)
<1>1. CASE Rotate \/ ReachBranch \/ HandleFullyCovered \/ FullyCoveredHandled
  BY <1>1, Zenon DEF Rotate, ReachBranch, HandleFullyCovered, FullyCoveredHandled
<1>2. CASE ExamineStoreValue
  <2> DEFINE bi == branchInfos[current][idx]
  <2>1. step = "examine" /\ idx <= Len(branchInfos[current]) /\ RememberValue(current, bi.bid, bi.sid)
    BY <1>2, Zenon DEF ExamineStoreValue
  <2>2. current \in State /\ idx \in Nat \ {0}
    BY <2>1 DEF Relied, TypeOK, ControlType
  <2>3. branchInfos[current] \in Seq(BranchInfo) /\ Len(branchInfos[current]) \in Nat
    BY <2>2, BranchInfoSeq, ZenonT(40)
  <2>4. idx \in 1 .. Len(branchInfos[current])
    BY <2>1, <2>2, <2>3
  <2>5. bi \in BranchInfo
    BY <2>3, <2>4, ElementOfSeq, ZenonT(40)
  <2>6. bi.bid \in Branch /\ bi.sid \in Store
    BY <2>5 DEF BranchInfo
  <2> HIDE DEF bi
  <2> QED BY <2>1, <2>2, <2>6, Zenon
<1>3. CASE ReachStore \/ StoreValuesExamined \/ NewPartlyCovered \/ PartlyCoveredHandled
  BY <1>3, Zenon DEF ReachStore, StoreValuesExamined, NewPartlyCovered, PartlyCoveredHandled
<1>4. CASE ClaimStore
  <2>1. step = "claim" /\ \E t \in sids : RememberValue(current, target, t) \/ UNCHANGED cacheVars
    BY <1>4, Zenon DEF ClaimStore
  <2>2. current \in State /\ target \in Branch /\ sids \subseteq Store
    BY <2>1 DEF Relied, TypeOK, ControlType
  <2> QED BY <2>1, <2>2, Zenon
<1>5. CASE FindState
  <2>1. /\ step = "find" /\ idx <= Len(states)
        /\ RememberValue(states[idx], target, sid) \/ UNCHANGED cacheVars
    BY <1>5, Zenon DEF FindState
  <2>2. target \in Branch /\ sid \in Store /\ idx \in Nat \ {0} /\ states \in Seq(State)
    BY <2>1, ZenonT(40) DEF Relied, TypeOK, ControlType, QueueType
  <2>3. idx \in 1 .. Len(states)
    BY <2>1, <2>2, LenProperties
  <2>4. states[idx] \in State
    BY <2>2, <2>3, ElementOfSeq, Zenon
  <2> QED BY <2>1, <2>2, <2>4, Zenon
<1>6. CASE Claimed \/ PickStore \/ StatesFound \/ Retarget \/ ClearState
  BY <1>6, Zenon DEF Claimed, PickStore, StatesFound, Retarget, ClearState
<1>7. CASE StatesCleared \/ Refill \/ AddState \/ StatesAdded \/ RemoveState \/ StatesRemoved
  BY <1>7, Zenon DEF StatesCleared, Refill, AddState, StatesAdded, RemoveState, StatesRemoved
<1> QED BY <1>1, <1>2, <1>3, <1>4, <1>5, <1>6, <1>7, Zenon DEF UpdateNext

\* Every step keeps what is recorded.
LEMMA NextRecorded == ASSUME BaseInv, PredInv, [Next]_vars PROVE PredInv'
<1>0. TypeOK /\ Relied /\ QInv
  BY Zenon DEF BaseInv, TInv
<1>1. CASE Handlers
  <2>0. Grows /\ validStoreValues' = validStoreValues
    BY <1>1, HandlerFacts, Zenon DEF cacheVars
  <2>1. CASE UNCHANGED unCoveredPred
    BY <2>0, <2>1, RecordedKept, Zenon DEF PredInv
  <2>2. CASE \E b \in Branch : Followed(b)
    <3>0. PICK b \in Branch : Followed(b)
      BY <2>2, Zenon
    <3>1. PICK o, c : /\ FollowBranch(b, o, c)
                      /\ b \notin SwitchBranch => o \in Outcome[b] /\ o \in seen'[b]
      BY <3>0, Zenon DEF Followed
    <3>2. \/ UNCHANGED unCoveredPred
          \/ /\ b \notin SwitchBranch /\ ~(Outcome[b] \subseteq seen'[b])
             /\ unCoveredPred' = [unCoveredPred EXCEPT ![b] = CHOOSE x \in Outcome[b] : x # o]
      BY <3>1, Zenon DEF FollowBranch
    <3>3. ASSUME NEW a \in BrBranch, unCoveredPred' # unCoveredPred PROVE Recorded(a)'
      <4>0. Recorded(a) /\ unCoveredPred \in [Branch -> AnyOutcome \cup {Default}] /\ a \in Branch
        BY <1>0, Zenon DEF PredInv, BrBranch, TypeOK, CoverType
      <4>1. CASE a = b
        <5>1. unCoveredPred'[a] = CHOOSE x \in Outcome[a] : x # o
          BY <3>2, <3>3, <4>0, <4>1, ZenonT(40)
        <5> QED BY <1>0, <2>0, <3>1, <3>2, <3>3, <4>0, <4>1, <5>1, RecordedAdmitted, ZenonT(40)
      <4>2. CASE a # b
        BY <2>0, <3>2, <3>3, <4>0, <4>2, RecordedKept, ZenonT(40)
      <4> QED BY <4>1, <4>2
    <3> QED BY <2>1, <3>3, Zenon DEF PredInv
  <2> QED BY <1>1, <2>1, <2>2, HandlerFacts, Zenon
<1>2. CASE ExecutorNext /\ ~Handlers
  BY <1>2, ExecutorLeavesLists, RecordedSame, Zenon
<1>3. CASE UpdateNext
  <2>1. UNCHANGED <<seen, unCoveredPred>>
    BY <1>0, <1>3, UpdateLeavesLists, Zenon
  <2>2. CASE UNCHANGED cacheVars
    BY <2>1, <2>2, RecordedSame, Zenon DEF cacheVars
  <2>3. CASE \E s \in State, b \in Branch, t \in Store : RememberValue(s, b, t)
    BY <1>0, <2>1, <2>3, RecordedRemembered, Zenon
  <2> QED BY <1>0, <1>3, <2>2, <2>3, UpdateRemembers, Zenon
<1>4. CASE UNCHANGED vars
  <2>1. UNCHANGED <<seen, unCoveredPred, validStoreValues>>
    BY <1>4 DEF vars, coverVars, cacheVars
  <2> QED BY <2>1, RecordedSame, Zenon
<1> QED BY <1>1, <1>2, <1>3, <1>4, Zenon DEF Next, Ended

(***************************************************************************)
(* A value isNewStoreValue caches as valid for a br that is not yet fully  *)
(* covered takes it to the outcome that was never seen, whatever happens   *)
(* between the visits that recorded the predicate and the value.           *)
(***************************************************************************)
THEOREM ValidValuesLead == Spec => []ValidValuesUncover
<1>1. Init => PredInv
  BY Zenon DEF Init, PredInv, Recorded, BrBranch
<1>2. BaseInv /\ PredInv /\ [Next]_vars => BaseInv' /\ PredInv'
  BY NextBase, NextRecorded, SMTT(30)
<1>3. BaseInv /\ PredInv => ValidValuesUncover
  <2> SUFFICES ASSUME BaseInv, PredInv, NEW b \in BrBranch, NEW v \in validStoreValues[b],
                      ~FullyCovered(b)
               PROVE  Takes[b][Arith[b][v]] \notin seen[b]
    BY Zenon DEF ValidValuesUncover
  <2>1. b \in Branch /\ b \notin SwitchBranch
    BY Zenon DEF BrBranch
  <2>2. seen[b] \subseteq Outcome[b] /\ v \in Value
    BY <2>1, ZenonT(40) DEF BaseInv, TInv, TypeOK, CoverType, CacheType
  <2>3. Arith[b][v] \in Value
    BY <2>1, <2>2, ValueAssumption, ZenonT(40)
  <2> DEFINE p == Takes[b][Arith[b][v]]
  <2>4. p \in Outcome[b] /\ p # Default /\ p = unCoveredPred[b]
    <3>1. p \in Outcome[b] /\ p # Default
      <4>1. b \in Branch \ SwitchBranch /\ Default \notin Outcome[b]
        BY <2>1, BranchAssumption, Zenon
      <4>2. p \in Outcome[b]
        BY <2>3, <4>1, ValueAssumption, ZenonT(40)
      <4> QED BY <4>1, <4>2, Zenon
    <3>2. Recorded(b)
      BY Zenon DEF PredInv
    <3> QED BY <3>1, <3>2, Zenon DEF Recorded
  <2> HIDE DEF p
  <2>5. PICK o \in seen[b] : o # p
    BY <2>4, Zenon DEF PredInv, Recorded
  <2>6. PICK x \in Outcome[b], y \in Outcome[b] : Outcome[b] = {x, y}
    BY <2>1, BranchAssumption, Zenon
  <2>7. p \notin seen[b]
    BY <2>2, <2>4, <2>5, <2>6, Zenon DEF FullyCovered
  <2> QED BY <2>7 DEF p
<1> QED BY InitBase, <1>1, <1>2, <1>3, PTL DEF Spec
-----------------------------------------------------------------------------
\* A branch that is not in the list of covered ones is not the one just handled.
LEMMA DependenciesKept ==
  ASSUME TypeOK, Relied, NeededStoresKept, ReachBranch
  PROVE  NeededStoresKept'
<1>0. /\ storeToBranches \in [Store -> SUBSET Branch] /\ funcStores \in [Function -> SUBSET Store]
      /\ FCB \in Seq(Branch) /\ FuncOf \in [Branch -> Function] /\ Dep \in [Branch -> SUBSET Store]
  BY BranchAssumption, StoreAssumption, ZenonT(40) DEF TypeOK, DepType, TargetType
<1>1. FCB' = FCB
  BY Zenon DEF ReachBranch, targetVars
<1>2. CASE UNCHANGED depVars
  BY <1>1, <1>2, Zenon DEF NeededStoresKept, depVars
<1>3. CASE ~UNCHANGED depVars
  <2> DEFINE d == back(FCB)
  <2>1. /\ newFullyCoveredBranch
        /\ storeToBranches' = [t \in Store |-> IF t \in Dep[d] THEN storeToBranches[t] \ {d}
                                               ELSE storeToBranches[t]]
        /\ funcStores' = [funcStores EXCEPT ![FuncOf[d]] = funcStores[FuncOf[d]] \ remove_sv(d)]
    BY <1>3, Zenon DEF ReachBranch
  <2>2. d \in Branch /\ d \in Range(FCB)
    BY <1>0, <2>1, BackInRange, ZenonT(40) DEF Relied
  <2> HIDE DEF d
  <2> SUFFICES ASSUME NEW b \in Branch \ Range(FCB), NEW t \in Dep[b]
               PROVE  b \in storeToBranches'[t] /\ t \in funcStores'[FuncOf[b]]
    BY <1>1, Zenon DEF NeededStoresKept
  <2>3. /\ b \in storeToBranches[t] /\ t \in funcStores[FuncOf[b]] /\ b # d /\ t \in Store
        /\ FuncOf[b] \in Function
    BY <1>0, <2>2 DEF NeededStoresKept
  <2>4. b \in storeToBranches'[t]
    BY <2>1, <2>3, Zenon
  <2>5. t \notin remove_sv(d)
    BY <2>3, Zenon DEF remove_sv
  <2>6. t \in funcStores'[FuncOf[b]]
    BY <1>0, <2>1, <2>3, <2>5, Zenon
  <2> QED BY <2>4, <2>6, ZenonT(40)
<1> QED BY <1>2, <1>3, ZenonT(40)

(***************************************************************************)
(* What handleFullyCoveredBranch removes for a covered branch is still     *)
(* there for every other branch that depends on the store.                 *)
(***************************************************************************)
THEOREM NeededStoresStay == Spec => []NeededStoresKept
<1>1. Init => NeededStoresKept
  <2> SUFFICES ASSUME Init, NEW b \in Branch, NEW t \in Dep[b]
               PROVE  b \in storeToBranches[t] /\ t \in funcStores[FuncOf[b]]
    BY Zenon DEF NeededStoresKept
  <2>1. t \in Store /\ FuncOf[b] \in Function
    BY StoreAssumption, BranchAssumption
  <2>2. storeToBranches = InitStoreToBranches /\ funcStores = InitFuncStores
    BY Zenon DEF Init
  <2> QED BY <2>1, <2>2, Zenon DEF InitStoreToBranches, InitFuncStores
<1>2. BaseInv /\ NeededStoresKept /\ [Next]_vars => BaseInv' /\ NeededStoresKept'
  <2> SUFFICES ASSUME BaseInv, NeededStoresKept, [Next]_vars PROVE NeededStoresKept'
    BY NextBase
  <2>0. TypeOK /\ Relied /\ QInv
    BY Zenon DEF BaseInv, TInv
  <2>1. ASSUME Range(FCB) \subseteq Range(FCB'), UNCHANGED depVars PROVE NeededStoresKept'
    BY <2>1, Zenon DEF NeededStoresKept, depVars
  <2>2. CASE Handlers
    <3>1. UNCHANGED depVars
      BY <2>2, HandlerFacts, Zenon
    <3>2. CASE UNCHANGED <<targetVars, unCoveredPred>>
      BY <2>1, <3>1, <3>2, Zenon DEF targetVars
    <3>3. CASE \E b \in Branch : Followed(b)
      <4>0. PICK b \in Branch : \E o, c : FollowBranch(b, o, c)
        BY <3>3, Zenon DEF Followed
      <4>1. FCB' = FCB \/ FCB' = Append(FCB, b)
        BY <4>0, Zenon DEF FollowBranch, NewTarget, NewlyCovered, targetVars
      <4>2. FCB \in Seq(Branch)
        BY <2>0, Zenon DEF TypeOK, TargetType
      <4>3. Range(FCB) \subseteq Range(FCB')
        <5>1. Range(Append(FCB, b)) = Range(FCB) \cup {b}
          BY <4>2, AppendRange
        <5> QED BY <4>1, <5>1, Zenon
      <4> QED BY <2>1, <3>1, <4>3, Zenon
    <3> QED BY <2>2, <3>2, <3>3, HandlerFacts, Zenon
  <2>3. CASE ExecutorNext /\ ~Handlers
    BY <2>1, <2>3, ExecutorLeavesLists, Zenon DEF targetVars
  <2>4. CASE UpdateNext
    <3>1. FCB' = FCB
      BY <2>0, <2>4, UpdateLeavesLists, Zenon
    <3>2. CASE ReachBranch
      BY <2>0, <3>2, DependenciesKept, Zenon
    <3>3. CASE UpdateNext /\ ~ReachBranch
      <4>1. UNCHANGED depVars
        BY <3>3, Zenon DEF UpdateNext, Rotate, HandleFullyCovered, FullyCoveredHandled, ReachStore,
           ExamineStoreValue, StoreValuesExamined, NewPartlyCovered, PartlyCoveredHandled,
           ClaimStore, Claimed, PickStore, FindState, StatesFound, Retarget, ClearState,
           StatesCleared, Refill, AddState, StatesAdded, RemoveState, StatesRemoved
      <4> QED BY <2>1, <3>1, <4>1, Zenon
    <3> QED BY <2>4, <3>2, <3>3, Zenon
  <2>5. CASE UNCHANGED vars
    <3>1. UNCHANGED <<FCB, depVars>>
      BY <2>5, Zenon DEF vars, targetVars
    <3> QED BY <2>1, <3>1, Zenon
  <2> QED BY <2>2, <2>3, <2>4, <2>5, Zenon DEF Next, Ended
<1> QED BY InitBase, <1>1, <1>2, PTL DEF Spec
-----------------------------------------------------------------------------
(* The messages between the executor and update.                           *)

(***************************************************************************)
(* Between two instructions no event is pending.  Within one, only the     *)
(* selected state has one, until the section of update that consumes it;   *)
(* a state terminated by its instruction keeps its events to the end.      *)
(***************************************************************************)
Settled == {"select", "exec", "memory", "tick", "done"}
Hooked == {"storeLoop", "rotate", "reach", "fully", "store", "examine", "crashed"}

\* The sections of update that are skipped for a null or terminated current.
Handling ==
  \/ step \in {"reach", "fully", "store", "examine", "partly", "partlyDone"}
  \/ step \in {"claim", "pick", "find"} /\ ret = "partlyDone"

EventInv ==
  /\ Handling => Alive
  /\ \A s \in State : reachStore[s] \/ reachBranch[s] =>
       /\ s = current /\ step \notin Settled
       /\ step \in Hooked \/ s \in removedStates
       /\ step \in {"storeLoop", "store", "examine"} => ~reachBranch[s]
  /\ newPartlyCoveredBranch =>
       /\ TB # <<>>
       /\ step \in {"rotate", "crashed"} \/ Handling
       /\ step = "rotate" => Alive
-----------------------------------------------------------------------------
\* selectState, the end of the loop, and the forks and terminations.
LEMMA SelectEvents ==
  ASSUME TypeOK, Relied, EventInv,
         SelectState \/ Halt \/ Fork \/ TerminateCurrent \/ TerminateAdded
  PROVE  EventInv'
<1> USE DEF EventInv, Handling, Alive, Settled, Hooked
<1>0. reachStore \in [State -> BOOLEAN] /\ reachBranch \in [State -> BOOLEAN]
  BY Zenon DEF TypeOK, StateType
<1>1. CASE SelectState
  <2>1. /\ step = "select" /\ step' \in {"exec", "crashed"}
        /\ UNCHANGED <<reachStore, reachBranch, newPartlyCoveredBranch>>
    BY <1>1, Zenon DEF SelectState, messageVars
  <2> QED BY <2>1
<1>2. CASE Halt
  <2>1. /\ step = "select" /\ step' = "done" /\ newPartlyCoveredBranch' = newPartlyCoveredBranch
        /\ \A s \in State : (reachStore'[s] => reachStore[s]) /\ (reachBranch'[s] => reachBranch[s])
    BY <1>2, Zenon DEF Halt, messageVars, Deleted
  <2> QED BY <2>1
<1>3. CASE Fork
  <2>1. /\ step = "exec" /\ step' = "exec" /\ newPartlyCoveredBranch' = newPartlyCoveredBranch
        /\ \E c \in State : /\ reachStore' = [reachStore EXCEPT ![c] = reachStore[current]]
                            /\ reachBranch' = [reachBranch EXCEPT ![c] = reachBranch[current]]
    BY <1>3, Zenon DEF Fork, messageVars, Fresh
  <2>2. current \in State
    BY <2>1, Zenon DEF Relied
  <2> QED BY <1>0, <2>1, <2>2, ZenonT(40)
<1>4. CASE TerminateCurrent
  <2>1. /\ step = "exec" /\ step' = "exec"
        /\ UNCHANGED <<reachStore, reachBranch, newPartlyCoveredBranch>>
    BY <1>4, Zenon DEF TerminateCurrent, messageVars, stateVars
  <2> QED BY <2>1
<1>5. CASE TerminateAdded
  <2>1. /\ step = "exec" /\ step' = "exec" /\ newPartlyCoveredBranch' = newPartlyCoveredBranch
        /\ \A s \in State : (reachStore'[s] => reachStore[s]) /\ (reachBranch'[s] => reachBranch[s])
    BY <1>5, Zenon DEF TerminateAdded, messageVars, Deleted
  <2> QED BY <2>1
<1> QED BY <1>1, <1>2, <1>3, <1>4, <1>5, ZenonT(40)

\* The br and switch handlers: only the selected state reaches its target.
LEMMA BranchEvents ==
  ASSUME TypeOK, Relied, EventInv, Handlers
  PROVE  EventInv'
<1> USE DEF EventInv, Handling, Alive, Settled, Hooked
<1>0. reachStore \in [State -> BOOLEAN] /\ reachBranch \in [State -> BOOLEAN]
  BY DEF TypeOK, StateType
<1>1. /\ step = "exec" /\ step' = "rotate" /\ UNCHANGED <<execVars, reachStore>>
      /\ \/ UNCHANGED <<reachBranch, targetVars, newPartlyCoveredBranch>>
         \/ Alive /\ \E b \in Branch : \E o, c : FollowBranch(b, o, c)
  <2>1. CASE \E b \in BrBranch : \E o \in Outcome[b] : SymbolicBr(b, o)
    BY <2>1, Zenon DEF SymbolicBr, messageVars
  <2>2. CASE \E b \in BrBranch : \E o \in Outcome[b], c \in {TRUE, "mixed" \notin Allowed} :
                ConcreteBr(b, o, c)
    BY <2>2, ZenonT(40) DEF ConcreteBr, BrBranch
  <2>3. CASE \E b \in SwitchBranch : \E o \in Outcome[b] \cup {Default} : ConcreteSwitch(b, o)
    BY <2>3, BranchAssumption, Zenon DEF ConcreteSwitch
  <2> QED BY <2>1, <2>2, <2>3, Zenon DEF Handlers
<1>2. CASE UNCHANGED <<reachBranch, targetVars, newPartlyCoveredBranch>>
  BY <1>1, <1>2, Zenon DEF execVars
<1>3. CASE Alive /\ \E b \in Branch : \E o, c : FollowBranch(b, o, c)
  <2>1. PICK b \in Branch : \E o, c : FollowBranch(b, o, c)
    BY <1>3, Zenon
  <2>2. \E r : reachBranch' = [reachBranch EXCEPT ![current] = reachBranch[current] \/ r]
    BY <2>1, Zenon DEF FollowBranch
  <2>3. \/ newPartlyCoveredBranch' = newPartlyCoveredBranch
        \/ TB' = Append(TB, b)
        \/ PCB # <<>> /\ TB' = Append(Without(TB, b), back(PCB))
    BY <2>1, Zenon DEF FollowBranch, NewTarget, NewlyCovered
  <2>4. newPartlyCoveredBranch' => TB' # <<>>
    <3>1. TB \in Seq(Branch) /\ PCB \in Seq(Branch)
      BY Zenon DEF TypeOK, TargetType
    <3>2. Without(TB, b) \in Seq(Branch) /\ (PCB # <<>> => back(PCB) \in Branch)
      BY <3>1, WithoutType, BackInRange, ZenonT(40)
    <3>3. Append(TB, b) # <<>> /\ (PCB # <<>> => Append(Without(TB, b), back(PCB)) # <<>>)
      BY <3>1, <3>2, AppendProperties, SMTT(30)
    <3>4. ~newPartlyCoveredBranch
      BY <1>1
    <3> QED BY <2>3, <3>3, <3>4, Zenon
  <2>5. \A s \in State : s # current => reachBranch'[s] = reachBranch[s]
    BY <1>0, <2>2, ZenonT(40)
  <2> QED BY <1>1, <1>3, <2>4, <2>5, ZenonT(40) DEF execVars
<1> QED BY <1>1, <1>2, <1>3, ZenonT(40)

\* The store handler, every other instruction, and the end of the loop body.
LEMMA LoopEvents ==
  ASSUME TypeOK, Relied, EventInv,
         \/ \E s \in Store, v \in Value : StoreInst(s, v)
         \/ StoreLoop \/ OtherInst \/ UpdateStates \/ CheckMemoryUsage \/ Tick
  PROVE  EventInv'
<1> USE DEF EventInv, Handling, Alive, Settled, Hooked
<1>0. reachStore \in [State -> BOOLEAN] /\ reachBranch \in [State -> BOOLEAN]
  BY ZenonT(40) DEF TypeOK, StateType
<1>1. CASE OtherInst \/ \E s \in Store, v \in Value : StoreInst(s, v)
  <2>1. /\ step = "exec" /\ step' \in {"rotate", "storeLoop"}
        /\ UNCHANGED <<reachStore, reachBranch, newPartlyCoveredBranch>>
    BY <1>1, Zenon DEF OtherInst, StoreInst, messageVars, stateVars
  <2> QED BY <2>1
<1>2. CASE StoreLoop
  <2>1. /\ step = "storeLoop" /\ step' \in {"rotate", "storeLoop"}
        /\ UNCHANGED <<execVars, newPartlyCoveredBranch>>
        /\ \/ UNCHANGED <<reachStore, reachBranch>>
           \/ /\ reachStore' = [reachStore EXCEPT ![current] = TRUE]
              /\ reachBranch' = [reachBranch EXCEPT ![current] = FALSE]
    BY <1>2, Zenon DEF StoreLoop
  <2>2. current \in State
    BY <2>1 DEF Relied
  <2>3. \A s \in State : reachBranch'[s] => reachBranch[s]
    BY <1>0, <2>1, <2>2, Zenon
  <2>4. \A s \in State : reachStore'[s] => reachStore[s] \/ s = current
    BY <1>0, <2>1, <2>2, Zenon
  <2> QED BY <2>1, <2>3, <2>4, ZenonT(40) DEF execVars
<1>3. CASE UpdateStates
  <2>1. /\ step = "commit" /\ step' \in {"tick", "memory"}
        /\ newPartlyCoveredBranch' = newPartlyCoveredBranch
        /\ \A s \in State : /\ reachStore'[s] => reachStore[s] /\ s \notin removedStates
                            /\ reachBranch'[s] => reachBranch[s] /\ s \notin removedStates
    BY <1>3, Zenon DEF UpdateStates, messageVars, Deleted
  <2> QED BY <2>1
<1>4. CASE CheckMemoryUsage \/ Tick
  <2>1. /\ step \in {"memory", "tick"} /\ step' \in {"rotate", "tick", "select"}
        /\ UNCHANGED <<reachStore, reachBranch, newPartlyCoveredBranch>>
    BY <1>4, ZenonT(40) DEF CheckMemoryUsage, Tick, messageVars, stateVars
  <2> QED BY <2>1
<1> QED BY <1>1, <1>2, <1>3, <1>4, Zenon

\* update, up to the examined store values: the sections that consume the events.
LEMMA ConsumedEvents ==
  ASSUME TypeOK, Relied, EventInv,
         \/ Rotate \/ ReachBranch \/ HandleFullyCovered \/ FullyCoveredHandled
         \/ ReachStore \/ ExamineStoreValue \/ StoreValuesExamined
  PROVE  EventInv'
<1> USE DEF EventInv, Handling, Alive, Settled, Hooked
<1>0. /\ reachStore \in [State -> BOOLEAN] /\ reachBranch \in [State -> BOOLEAN]
      /\ NULL \notin State
  BY StateAssumption, ZenonT(40) DEF TypeOK, StateType
<1>1. CASE Rotate
  <2>1. /\ step = "rotate" /\ UNCHANGED <<execVars, targetVars, messageVars, stateVars>>
        /\ IF ~Alive THEN step' = "retarget" ELSE step' \in {"reach", "crashed"}
    BY <1>1, Zenon DEF Rotate
  <2> QED BY <1>0, <2>1 DEF execVars, targetVars, messageVars, stateVars
<1>2. CASE ReachBranch
  <2>1. /\ step = "reach" /\ UNCHANGED <<execVars, targetVars, messageVars, reachStore>>
        /\ \/ ~reachBranch[current] /\ step' = "store" /\ reachBranch' = reachBranch
           \/ step' = "fully" /\ reachBranch' = reachBranch
           \/ step' = "store" /\ reachBranch' = [reachBranch EXCEPT ![current] = FALSE]
    BY <1>2, Zenon DEF ReachBranch
  <2>2. current \in State
    BY <2>1, ZenonT(40) DEF Relied
  <2>3. /\ \A s \in State : reachBranch'[s] => reachBranch[s]
        /\ step' = "store" => ~reachBranch'[current]
    BY <1>0, <2>1, <2>2, ZenonT(40)
  <2> QED BY <2>1, <2>2, <2>3, ZenonT(40) DEF execVars, targetVars, messageVars
<1>3. CASE HandleFullyCovered \/ ExamineStoreValue
  <2>1. /\ step \in {"fully", "examine"} /\ step' = step
        /\ UNCHANGED <<execVars, targetVars, messageVars, reachStore, reachBranch>>
    BY <1>3, Zenon DEF HandleFullyCovered, ExamineStoreValue
  <2> QED BY <2>1 DEF execVars, targetVars, messageVars
<1>4. CASE FullyCoveredHandled
  <2>1. /\ step = "fully" /\ step' = "store"
        /\ UNCHANGED <<execVars, targetVars, newPartlyCoveredBranch, reachStore>>
        /\ reachBranch' = [reachBranch EXCEPT ![current] = FALSE]
    BY <1>4, Zenon DEF FullyCoveredHandled
  <2>2. current \in State
    BY <2>1, ZenonT(40) DEF Relied
  <2>3. ~reachBranch'[current] /\ \A s \in State : reachBranch'[s] => reachBranch[s]
    BY <1>0, <2>1, <2>2, ZenonT(40)
  <2> QED BY <2>1, <2>2, <2>3, ZenonT(40) DEF execVars, targetVars
<1>5. CASE ReachStore
  <2>1. /\ step = "store" /\ UNCHANGED <<execVars, targetVars, messageVars, stateVars>>
        /\ \/ ~reachStore[current] /\ step' = "partly"
           \/ step' \in {"examine", "crashed"}
    BY <1>5, Zenon DEF ReachStore
  <2> QED BY <2>1 DEF execVars, targetVars, messageVars, stateVars
<1>6. CASE StoreValuesExamined
  <2>1. /\ step = "examine" /\ step' = "partly"
        /\ UNCHANGED <<execVars, targetVars, newPartlyCoveredBranch, reachBranch>>
        /\ reachStore' = [reachStore EXCEPT ![current] = FALSE]
    BY <1>6, Zenon DEF StoreValuesExamined
  <2>2. current \in State
    BY <2>1, ZenonT(40) DEF Relied
  <2>3. ~reachStore'[current] /\ \A s \in State : reachStore'[s] => reachStore[s]
    BY <1>0, <2>1, <2>2, ZenonT(40)
  <2> QED BY <2>1, <2>2, <2>3, ZenonT(40) DEF execVars, targetVars
<1> QED BY <1>1, <1>2, <1>3, <1>4, <1>5, <1>6, Zenon

\* update, from the new partly covered branch on.
LEMMA LaterEvents ==
  ASSUME TypeOK, Relied, QInv, EventInv,
         \/ NewPartlyCovered \/ PartlyCoveredHandled
         \/ ClaimStore \/ Claimed \/ PickStore \/ FindState \/ StatesFound
         \/ Retarget \/ ClearState \/ StatesCleared \/ Refill
         \/ AddState \/ StatesAdded \/ RemoveState \/ StatesRemoved
  PROVE  EventInv'
<1> USE DEF EventInv, Handling, Alive, Settled, Hooked
<1>0. /\ reachStore \in [State -> BOOLEAN] /\ reachBranch \in [State -> BOOLEAN]
  BY StateAssumption, ZenonT(40) DEF TypeOK, StateType
<1>1. CASE NewPartlyCovered
  <2>1. /\ step = "partly" /\ UNCHANGED <<execVars, targetVars, messageVars, stateVars>>
        /\ \/ step' = "claim" /\ ret' = "partlyDone"
           \/ step' = "retarget" /\ ~(TB # <<>> /\ newPartlyCoveredBranch)
    BY <1>1, Zenon DEF NewPartlyCovered
  <2> QED BY <2>1 DEF execVars, targetVars, messageVars, stateVars
<1>2. CASE PartlyCoveredHandled
  <2>1. /\ step = "partlyDone" /\ step' = "retarget" /\ ~newPartlyCoveredBranch'
        /\ UNCHANGED <<execVars, stateVars>>
    BY <1>2, Zenon DEF PartlyCoveredHandled
  <2> QED BY <2>1 DEF execVars, stateVars
<1>3. CASE ClaimStore \/ Claimed \/ StatesFound
  <2>1. /\ step \in {"claim", "pick", "find"} /\ step' \in {"claim", "pick", "find"} /\ ret' = ret
        /\ UNCHANGED <<execVars, targetVars, messageVars, reachStore, reachBranch>>
    BY <1>3, Zenon DEF ClaimStore, Claimed, StatesFound, stateVars
  <2> QED BY <2>1 DEF execVars, targetVars, messageVars
<1>4. CASE PickStore
  <2>1. /\ step = "pick" /\ (step' = "find" \/ step' = ret) /\ ret' = ret
        /\ UNCHANGED <<execVars, targetVars, messageVars, stateVars>>
    BY <1>4, Zenon DEF PickStore
  <2>2. ret \in {"partlyDone", "refill"}
    BY <2>1, ZenonT(40) DEF QInv, Positions
  <2> QED BY <2>1, <2>2, ZenonT(40) DEF execVars, targetVars, messageVars, stateVars
<1>5. CASE FindState
  <2>1. /\ step = "find" /\ step' = step /\ ret' = ret
        /\ UNCHANGED <<execVars, targetVars, messageVars>>
        /\ \/ UNCHANGED <<reachStore, reachBranch>>
           \/ \E s : /\ reachBranch' = [reachBranch EXCEPT ![s] = FALSE]
                     /\ reachStore' = [reachStore EXCEPT ![s] = FALSE]
    BY <1>5, Zenon DEF FindState
  <2>2. \A s \in State : (reachStore'[s] => reachStore[s]) /\ (reachBranch'[s] => reachBranch[s])
    BY <1>0, <2>1, ZenonT(40)
  <2> QED BY <2>1, <2>2, ZenonT(40) DEF execVars, targetVars, messageVars
<1>6. CASE Retarget \/ ClearState
  <2>1. /\ step \in {"retarget", "clear"} /\ step' \in {"clear", "add"}
        /\ UNCHANGED <<execVars, targetVars, messageVars, reachStore, reachBranch>>
    BY <1>6, ZenonT(40) DEF Retarget, ClearState, stateVars
  <2> QED BY <2>1, ZenonT(40) DEF execVars, targetVars, messageVars
<1>7. CASE StatesCleared \/ Refill
  <2>1. /\ step \in {"clear", "refill"} /\ step' \in {"refill", "claim", "crashed", "add"}
        /\ step' = "claim" => ret' = "refill"
        /\ UNCHANGED <<execVars, newPartlyCoveredBranch, stateVars>>
    BY <1>7, ZenonT(40) DEF StatesCleared, Refill, messageVars
  <2> QED BY <2>1 DEF execVars, stateVars
<1>8. CASE AddState \/ StatesAdded \/ RemoveState \/ StatesRemoved
  <2>1. /\ step \in {"add", "remove"} /\ step' \in {"add", "remove", "commit"}
        /\ UNCHANGED <<execVars, targetVars, messageVars, stateVars>>
    BY <1>8, Zenon DEF AddState, StatesAdded, RemoveState, StatesRemoved
  <2> QED BY <2>1 DEF execVars, targetVars, messageVars, stateVars
<1> QED BY <1>1, <1>2, <1>3, <1>4, <1>5, <1>6, <1>7, <1>8, ZenonT(40)

\* Every step keeps the account of the events.
LEMMA NextEvents == ASSUME BaseInv, EventInv, [Next]_vars PROVE EventInv'
<1>0. TypeOK /\ Relied /\ QInv
  BY Zenon DEF BaseInv, TInv
<1>1. CASE ExecutorNext
  BY <1>0, <1>1, SelectEvents, BranchEvents, LoopEvents, Zenon DEF ExecutorNext, Handlers
<1>2. CASE UpdateNext
  BY <1>0, <1>2, ConsumedEvents, LaterEvents, Zenon DEF UpdateNext
<1>3. CASE UNCHANGED vars
  <2>1. UNCHANGED <<reachStore, reachBranch, current, removedStates, step, ret, TB,
                    newPartlyCoveredBranch>>
    BY <1>3, ZenonT(40) DEF vars, stateVars, execVars, loopVars, targetVars, messageVars
  <2> QED BY <2>1, Zenon DEF EventInv, Handling, Alive
<1> QED BY <1>1, <1>2, <1>3, Zenon DEF Next, Ended

\* Initially no event is pending.
LEMMA InitEvents == Init => EventInv
BY DEF Init, EventInv, Handling

(***************************************************************************)
(* When the next state is selected, the update after the last instruction  *)
(* has consumed its events: no live state has reached a store or a target, *)
(* and no new partly covered branch is left to handle.                     *)
(***************************************************************************)
THEOREM AllEventsConsumed == Spec => []EventsConsumed
<1>1. BaseInv /\ EventInv /\ [Next]_vars => BaseInv' /\ EventInv'
  BY NextBase, NextEvents, ZenonT(40)
<1>2. BaseInv /\ EventInv => EventsConsumed
  BY DEF BaseInv, QInv, PoolType, EventInv, Settled, Handling, EventsConsumed
<1> QED BY InitBase, InitEvents, <1>1, <1>2, PTL DEF Spec
-----------------------------------------------------------------------------
(***************************************************************************)
(* The selected state: until update rotates the queues it is in the queue  *)
(* it was selected from, only an instruction of a state adds states, and   *)
(* the periodic request for new targets, made after an instruction, waits  *)
(* for the update of the next one, never for update(nullptr).              *)
(***************************************************************************)
Selected == IF branch_states = <<>> THEN Range(states) ELSE Range(branch_states)
CurrentInv ==
  /\ current = NULL => addedStates = <<>>
  /\ step \in {"exec", "storeLoop", "rotate"} /\ current # NULL => current \in Selected
  /\ updateTargetBranch =>
       \/ step \in {"select", "done", "crashed"}
       \/ current # NULL /\ step \notin {"add", "remove", "commit", "memory", "tick"}
  /\ step \in {"clear", "refill"} => current # NULL

\* The executor's steps.
LEMMA ExecutorCurrent ==
  ASSUME TypeOK, Relied, QInv, CurrentInv, ExecutorNext
  PROVE  CurrentInv'
<1> USE DEF CurrentInv
<1>0. states \in Seq(State) /\ branch_states \in Seq(State) /\ NULL \notin State
  BY StateAssumption, ZenonT(40) DEF TypeOK, QueueType
<1>1. CASE SelectState
  <2>1. /\ step = "select" /\ UNCHANGED <<addedStates, queueVars, updateTargetBranch>>
        /\ \/ step' = "crashed" /\ current' = current
           \/ /\ step' = "exec" /\ ~(branch_states = <<>> /\ states = <<>>)
              /\ current' = IF branch_states # <<>> THEN Head(branch_states) ELSE Head(states)
    BY <1>1, Zenon DEF SelectState, messageVars
  <2>2. step' = "exec" => current' \in Selected /\ current' \in State
    BY <1>0, <2>1, HeadInRange, ZenonT(40) DEF Selected
  <2>3. Selected' = Selected
    BY <2>1, Zenon DEF Selected, queueVars
  <2>4. addedStates = <<>>
    BY <2>1, ZenonT(40) DEF QInv, PoolFollows, Idle
  <2> QED BY <1>0, <2>1, <2>2, <2>3, <2>4, ZenonT(40)
<1>2. CASE Halt
  <2>1. step = "select" /\ step' = "done" /\ UNCHANGED <<addedStates, current, updateTargetBranch>>
    BY <1>2, Zenon DEF Halt, messageVars
  <2> QED BY <2>1
<1>3. CASE Fork \/ TerminateCurrent \/ TerminateAdded
  <2>1. /\ step = "exec" /\ step' = "exec" /\ UNCHANGED <<current, queueVars, updateTargetBranch>>
    BY <1>3, Zenon DEF Fork, TerminateCurrent, TerminateAdded, messageVars
  <2>2. current \in State
    BY <2>1 DEF Relied
  <2>3. Selected' = Selected
    BY <2>1, Zenon DEF Selected, queueVars
  <2> QED BY <1>0, <2>1, <2>2, <2>3, ZenonT(40)
<1>4. CASE Handlers \/ OtherInst \/ StoreLoop \/ \E s \in Store, v \in Value : StoreInst(s, v)
  <2>1. /\ step \in {"exec", "storeLoop"} /\ step' \in {"storeLoop", "rotate"}
        /\ UNCHANGED <<execVars, queueVars, updateTargetBranch>>
    <3>1. CASE Handlers
      BY <3>1, Zenon DEF Handlers, ConcreteBr, ConcreteSwitch, SymbolicBr, messageVars
    <3>2. CASE OtherInst \/ StoreLoop
      BY <3>2, Zenon DEF OtherInst, StoreLoop, messageVars
    <3>3. CASE \E s \in Store, v \in Value : StoreInst(s, v)
      BY <3>3, Zenon DEF StoreInst, messageVars
    <3> QED BY <1>4, <3>1, <3>2, <3>3, Zenon
  <2>2. Selected' = Selected
    BY <2>1, Zenon DEF Selected, queueVars
  <2> QED BY <2>1, <2>2, ZenonT(40) DEF execVars
<1>5. CASE UpdateStates
  <2>1. /\ step = "commit" /\ step' \in {"tick", "memory"} /\ addedStates' = <<>>
        /\ UNCHANGED <<current, updateTargetBranch>>
    BY <1>5, Zenon DEF UpdateStates, messageVars
  <2> QED BY <2>1
<1>6. CASE CheckMemoryUsage
  <2>1. /\ step = "memory" /\ step' \in {"tick", "rotate"} /\ current' = NULL
        /\ UNCHANGED <<addedStates, updateTargetBranch>>
    BY <1>6, Zenon DEF CheckMemoryUsage, messageVars
  <2>2. addedStates = <<>>
    BY <2>1, ZenonT(40) DEF QInv, PoolFollows, Idle
  <2> QED BY <2>1, <2>2
<1>7. CASE Tick
  <2>1. step = "tick" /\ step' = "select" /\ UNCHANGED execVars
    BY <1>7, Zenon DEF Tick
  <2> QED BY <2>1 DEF execVars
<1> QED BY <1>1, <1>2, <1>3, <1>4, <1>5, <1>6, <1>7, Zenon DEF ExecutorNext, Handlers

\* The sections of update.
LEMMA UpdateCurrent ==
  ASSUME TypeOK, Relied, QInv, CurrentInv, UpdateNext
  PROVE  CurrentInv'
<1> USE DEF CurrentInv
<1>0. NULL \notin State
  BY StateAssumption
<1>1. /\ UNCHANGED execVars
      /\ step \notin {"exec", "storeLoop", "select", "commit", "memory", "tick", "done", "crashed"}
      /\ step' \notin {"exec", "storeLoop", "rotate", "select", "memory", "tick", "done"}
      /\ updateTargetBranch' => updateTargetBranch
      /\ updateTargetBranch /\ updateTargetBranch' =>
           step' \notin {"add", "remove", "commit"} \/ step \in {"add", "remove"}
      /\ step' = "clear" => step = "clear" \/ updateTargetBranch
      /\ step' = "refill" => step \in {"clear", "pick"}
  <2>1. CASE Rotate \/ ReachBranch \/ HandleFullyCovered \/ FullyCoveredHandled
    <3>1. /\ step \in {"rotate", "reach", "fully"} /\ UNCHANGED <<execVars, updateTargetBranch>>
          /\ step' \in {"retarget", "reach", "crashed", "fully", "store"}
      BY <2>1, Zenon DEF Rotate, ReachBranch, HandleFullyCovered, FullyCoveredHandled, messageVars
    <3> QED BY <3>1, ZenonT(40)
  <2>2. CASE ReachStore \/ ExamineStoreValue \/ StoreValuesExamined
    <3>1. /\ step \in {"store", "examine"} /\ UNCHANGED <<execVars, updateTargetBranch>>
          /\ step' \in {"partly", "crashed", "examine"}
      BY <2>2, Zenon DEF ReachStore, ExamineStoreValue, StoreValuesExamined, messageVars
    <3> QED BY <3>1
  <2>3. CASE NewPartlyCovered \/ PartlyCoveredHandled
    <3>1. /\ step \in {"partly", "partlyDone"} /\ UNCHANGED <<execVars, updateTargetBranch>>
          /\ step' \in {"claim", "retarget"}
      BY <2>3, Zenon DEF NewPartlyCovered, PartlyCoveredHandled, messageVars
    <3> QED BY <3>1
  <2>4. CASE ClaimStore \/ Claimed \/ FindState \/ StatesFound
    <3>1. /\ step \in {"claim", "find"} /\ UNCHANGED <<execVars, updateTargetBranch>>
          /\ step' \in {"claim", "pick", "find"}
      BY <2>4, Zenon DEF ClaimStore, Claimed, FindState, StatesFound, messageVars
    <3> QED BY <3>1
  <2>5. CASE PickStore
    <3>1. /\ step = "pick" /\ UNCHANGED <<execVars, updateTargetBranch>>
          /\ step' = ret \/ step' = "find"
      BY <2>5, Zenon DEF PickStore, messageVars
    <3> QED BY <3>1 DEF QInv, Positions
  <2>6. CASE Retarget \/ ClearState \/ StatesCleared
    <3>1. /\ UNCHANGED <<execVars, updateTargetBranch>>
          /\ \/ step = "retarget" /\ step' = IF updateTargetBranch THEN "clear" ELSE "add"
             \/ step = "clear" /\ step' \in {"clear", "refill"}
      BY <2>6, Zenon DEF Retarget, ClearState, StatesCleared, messageVars
    <3> QED BY <3>1
  <2>7. CASE Refill
    <3>1. /\ step = "refill" /\ UNCHANGED execVars
          /\ \/ step' \in {"crashed", "claim"} /\ updateTargetBranch' = updateTargetBranch
             \/ step' = "add" /\ ~updateTargetBranch'
      BY <2>7, Zenon DEF Refill
    <3> QED BY <3>1
  <2>8. CASE AddState \/ StatesAdded \/ RemoveState \/ StatesRemoved
    <3>1. /\ step \in {"add", "remove"} /\ UNCHANGED <<execVars, updateTargetBranch>>
          /\ step' \in {"add", "remove", "commit"}
      BY <2>8, Zenon DEF AddState, StatesAdded, RemoveState, StatesRemoved, messageVars
    <3> QED BY <3>1
  <2> QED BY <2>1, <2>2, <2>3, <2>4, <2>5, <2>6, <2>7, <2>8, ZenonT(40) DEF UpdateNext
<1>2. step = "pick" => current # NULL
  BY <1>0, ZenonT(40) DEF Relied
<1> QED BY <1>1, <1>2, ZenonT(40) DEF execVars

\* Initially there is no selected state, and no request for new targets.
LEMMA InitCurrent == Init => CurrentInv
BY DEF Init, CurrentInv

\* Every step keeps this.
LEMMA NextCurrent == ASSUME BaseInv, CurrentInv, [Next]_vars PROVE CurrentInv'
<1>0. TypeOK /\ Relied /\ QInv
  BY Zenon DEF BaseInv, TInv
<1>1. CASE UNCHANGED vars
  <2>1. UNCHANGED <<current, addedStates, step, updateTargetBranch, states, branch_states>>
    BY <1>1 DEF vars, execVars, messageVars, queueVars
  <2> QED BY <2>1, Zenon DEF CurrentInv, Selected
<1> QED BY <1>0, <1>1, ExecutorCurrent, UpdateCurrent, Zenon DEF Next, Ended
-----------------------------------------------------------------------------
(***************************************************************************)
(* A state with a target may wait in the ordinary queue only if it is the  *)
(* selected one and update is still to move or remove it: all its infos    *)
(* come from the store just executed, or it is being given some, or it was *)
(* terminated.                                                             *)
(***************************************************************************)
Waits(s) == s \in Range(states) /\ branchInfos[s] # <<>>
Excused ==
  \/ /\ step \in {"storeLoop", "rotate", "reach", "fully", "store"}
     /\ reachStore[current] /\ newBranchNumFromStore >= Len(branchInfos[current])
  \/ step = "examine" /\ idx = 1
  \/ step \in {"claim", "crashed"}
  \/ step \in {"retarget", "clear", "refill", "add", "remove"} /\ current \in removedStates
FirstInv == \A s \in State : Waits(s) => s = current /\ Excused

\* A step after which no other state waits, and whoever did is still excused.
LEMMA FirstKept ==
  ASSUME FirstInv, \A s \in State : Waits(s)' => Waits(s),
         Excused => current' = current /\ Excused'
  PROVE  FirstInv'
BY Zenon DEF FirstInv

\* The same when the queues and the infos are left alone.
LEMMA FirstSame ==
  ASSUME FirstInv, UNCHANGED <<states, branchInfos>>,
         Excused => current' = current /\ Excused'
  PROVE  FirstInv'
<1>1. \A s \in State : Waits(s)' => Waits(s)
  BY Zenon DEF Waits
<1> QED BY <1>1, FirstKept

\* Erasing from no branchInfos leaves none.
LEMMA NothingToErase ==
  ASSUME NEW at, at \subseteq DOMAIN <<>>
  PROVE  EraseFirst(<<>>, at) = <<>>
<1>1. at = {}
  BY EmptySeq, LenProperties
<1> QED BY <1>1 DEF EraseFirst

\* The executor: at an instruction nobody waits.
LEMMA ExecutorFirst ==
  ASSUME TypeOK, Relied, QInv, FirstInv, ExecutorNext
  PROVE  FirstInv'
<1>0. branchInfos \in [State -> Seq(BranchInfo)] /\ states \in Seq(State)
  BY DEF TypeOK, StateType, QueueType
<1>1. CASE SelectState \/ OtherInst \/ CheckMemoryUsage \/ Tick \/ TerminateCurrent
  <2>1. /\ step \in {"select", "exec", "memory", "tick"} /\ UNCHANGED <<states, branchInfos>>
    BY <1>1, Zenon DEF SelectState, OtherInst, CheckMemoryUsage, Tick, TerminateCurrent,
       queueVars, stateVars
  <2>2. ~Excused
    BY <2>1, Zenon DEF Excused
  <2> QED BY <2>1, <2>2, FirstSame, ZenonT(40)
<1>2. CASE Halt \/ TerminateAdded \/ UpdateStates
  <2>1. /\ step \in {"select", "exec", "commit"}
        /\ states' = <<>> \/ states' = states
        /\ \A s \in State : branchInfos'[s] = <<>> \/ branchInfos'[s] = branchInfos[s]
    BY <1>2, Zenon DEF Halt, TerminateAdded, UpdateStates, queueVars, Deleted
  <2>2. ~Excused
    BY <2>1 DEF Excused
  <2>3. Range(states') \subseteq Range(states)
    <3>1. Range(<<>>) = {}
      BY EmptySeq, EmptyRange, Zenon
    <3> QED BY <2>1, <3>1, Zenon
  <2>4. \A s \in State : Waits(s)' => Waits(s)
    BY <2>1, <2>3, Zenon DEF Waits
  <2> QED BY <2>2, <2>4, FirstKept, ZenonT(40)
<1>3. CASE Fork
  <2>1. PICK c \in State \ execStates :
          /\ step = "exec" /\ states' = states
          /\ branchInfos' = [branchInfos EXCEPT ![c] = branchInfos[current]]
    BY <1>3, Zenon DEF Fork, Fresh, queueVars
  <2>2. c \notin Range(states)
    BY <2>1 DEF QInv, PoolFollows, Running, pool
  <2>3. \A s \in State : Waits(s)' => Waits(s)
    BY <1>0, <2>1, <2>2, Zenon DEF Waits
  <2>4. ~Excused
    BY <2>1, ZenonT(40) DEF Excused
  <2> QED BY <2>3, <2>4, FirstKept, ZenonT(40)
<1>4. CASE Handlers
  <2>1. step = "exec" /\ UNCHANGED <<states, branchInfos>>
    BY <1>4, Zenon DEF Handlers, ConcreteBr, ConcreteSwitch, SymbolicBr, queueVars
  <2>2. ~Excused
    BY <2>1 DEF Excused
  <2> QED BY <2>1, <2>2, FirstSame, ZenonT(40)
<1>5. CASE \E s \in Store, v \in Value : StoreInst(s, v)
  <2>1. /\ step = "exec" /\ states' = states
        /\ \/ branchInfos' = branchInfos
           \/ \E t : branchInfos' = [branchInfos EXCEPT ![current] =
                EraseFirst(branchInfos[current],
                   {i \in DOMAIN branchInfos[current] : branchInfos[current][i].sid = t})]
    BY <1>5, ZenonT(40) DEF StoreInst, queueVars
  <2>2. current \in State
    BY <2>1 DEF Relied
  <2>3. branchInfos[current] = <<>> => branchInfos'[current] = <<>>
    BY <1>0, <2>1, <2>2, NothingToErase
  <2>4. \A s \in State : s # current => branchInfos'[s] = branchInfos[s]
    BY <1>0, <2>1, Zenon
  <2>5. \A s \in State : Waits(s)' => Waits(s)
    BY <2>1, <2>3, <2>4, Zenon DEF Waits
  <2>6. ~Excused
    BY <2>1 DEF Excused
  <2> QED BY <2>5, <2>6, FirstKept, ZenonT(40)
<1>6. CASE StoreLoop
  <2>1. /\ step = "storeLoop" /\ step' \in {"storeLoop", "rotate"} /\ states' = states
        /\ current' = current
        /\ \/ UNCHANGED <<reachStore, branchInfos, newBranchNumFromStore>>
           \/ /\ reachStore' = [reachStore EXCEPT ![current] = TRUE]
              /\ branchInfos' = [branchInfos EXCEPT ![current] =
                                   Append(branchInfos[current], [sid |-> sid, bid |-> TB[idx]])]
              /\ newBranchNumFromStore' = newBranchNumFromStore + 1
    BY <1>6, Zenon DEF StoreLoop, execVars, queueVars
  <2>2. /\ current \in State /\ sid \in Store /\ idx \in 1 .. Len(TB) /\ TB \in Seq(Branch)
        /\ newBranchNumFromStore \in Nat /\ reachStore \in [State -> BOOLEAN]
    BY <2>1, ZenonT(40) DEF Relied, TypeOK, TargetType, MessageType, StateType
  <2>3. CASE UNCHANGED <<reachStore, branchInfos, newBranchNumFromStore>>
    <3>1. Excused => Excused'
      BY <2>1, <2>3 DEF Excused
    <3> QED BY <2>1, <2>3, <3>1, FirstSame, ZenonT(40)
  <2>4. CASE ~UNCHANGED <<reachStore, branchInfos, newBranchNumFromStore>>
    <3>1. [sid |-> sid, bid |-> TB[idx]] \in BranchInfo
      BY <2>2, ElementOfSeq, ZenonT(40) DEF BranchInfo
    <3>2. branchInfos[current] \in Seq(BranchInfo) /\ Len(branchInfos[current]) \in Nat
      BY <2>2, BranchInfoSeq, ZenonT(40)
    <3>3. Len(branchInfos'[current]) = Len(branchInfos[current]) + 1 /\ reachStore'[current]
      <4>1. /\ reachStore' = [reachStore EXCEPT ![current] = TRUE]
            /\ branchInfos' = [branchInfos EXCEPT ![current] =
                                 Append(branchInfos[current], [sid |-> sid, bid |-> TB[idx]])]
        BY <2>1, <2>4, Zenon
      <4>2. /\ branchInfos'[current] = Append(branchInfos[current], [sid |-> sid, bid |-> TB[idx]])
            /\ reachStore'[current]
        BY <1>0, <2>2, <4>1, Zenon
      <4> DEFINE infos == branchInfos[current]
                 info == [sid |-> sid, bid |-> TB[idx]]
      <4>3. Len(Append(infos, info)) = Len(infos) + 1
        <5>1. infos \in Seq(BranchInfo) /\ info \in BranchInfo
          BY <3>1, <3>2, Zenon
        <5> HIDE DEF infos, info
        <5> QED BY <5>1, SMTT(30)
      <4> QED BY <4>2, <4>3, Zenon
    <3>4. \A s \in State : s # current => (Waits(s)' => Waits(s))
      BY <1>0, <2>1, <2>2, <2>4, Zenon DEF Waits
    <3>5. ASSUME current \in Range(states) PROVE Excused'
      <4>1. branchInfos[current] = <<>> => Len(branchInfos[current]) = 0
        BY EmptySeq, ZenonT(40)
      <4>2. newBranchNumFromStore >= Len(branchInfos[current])
        BY <2>1, <2>2, <3>2, <3>5, <4>1, SMTT(30) DEF FirstInv, Waits, Excused
      <4>3. newBranchNumFromStore' >= Len(branchInfos'[current])
        BY <2>1, <2>2, <2>4, <3>2, <3>3, <4>2, SMTT(30)
      <4> QED BY <2>1, <3>3, <4>3, ZenonT(40) DEF Excused
    <3>6. ASSUME NEW s \in State, Waits(s)' PROVE s = current /\ Excused'
      <4>1. s = current
        BY <3>4, <3>6, Zenon DEF FirstInv
      <4>2. current \in Range(states)
        BY <2>1, <3>6, <4>1, Zenon DEF Waits
      <4> QED BY <3>5, <4>1, <4>2, Zenon
    <3> QED BY <2>1, <3>6, Zenon DEF FirstInv
  <2> QED BY <2>3, <2>4, ZenonT(40)
<1> QED BY <1>1, <1>2, <1>3, <1>4, <1>5, <1>6, ZenonT(40) DEF ExecutorNext, Handlers

\* The sections of update for a state that reached a target or a store.
LEMMA ReachedFirst ==
  ASSUME TypeOK, Relied, QInv, FirstInv,
         \/ Rotate \/ ReachBranch \/ HandleFullyCovered \/ FullyCoveredHandled
         \/ ReachStore \/ ExamineStoreValue \/ StoreValuesExamined
  PROVE  FirstInv'
<1>0. /\ branchInfos \in [State -> Seq(BranchInfo)] /\ NULL \notin State
      /\ states \in Seq(State) /\ branch_states \in Seq(State)
      /\ IsInjective(states) /\ IsInjective(branch_states)
      /\ Range(states) \cap Range(branch_states) = {}
      /\ newBranchNumFromStore \in Nat /\ reachStore \in [State -> BOOLEAN]
  BY StateAssumption DEF TypeOK, StateType, QueueType, MessageType, QInv, Apart
<1>1. CASE Rotate
  <2>1. /\ step = "rotate" /\ UNCHANGED <<current, removedStates, branchInfos, reachStore>>
        /\ newBranchNumFromStore' = newBranchNumFromStore
        /\ (step' = "retarget" /\ ~Alive) \/ step' \in {"reach", "crashed"}
        /\ \/ states' = states
           \/ current \in Range(states) /\ states' = Append(Without(states, current), current)
    BY <1>1, Zenon DEF Rotate, execVars, queueVars, stateVars, messageVars
  <2>2. Range(states') = Range(states)
    <3>1. current \in Range(states) => Range(Append(Without(states, current), current)) = Range(states)
      BY <1>0, RotateToBack
    <3> QED BY <2>1, <3>1, Zenon
  <2>3. \A s \in State : Waits(s)' => Waits(s)
    BY <2>1, <2>2, Zenon DEF Waits
  <2>4. (\E s \in State : Waits(s)) /\ Excused => Excused'
    BY <1>0, <2>1, ZenonT(40) DEF Excused, Alive, FirstInv
  <2> QED BY <2>1, <2>3, <2>4, Zenon DEF FirstInv
<1>2. CASE ReachBranch
  <2> DEFINE mine == branchInfos[current]
             at == {i \in DOMAIN mine : mine[i].bid = pastBID}
  <2>1. /\ step = "reach" /\ step' \in {"fully", "store"}
        /\ UNCHANGED <<current, reachStore, newBranchNumFromStore>>
        /\ \/ UNCHANGED <<branchInfos, states>>
           \/ /\ branchInfos' = [branchInfos EXCEPT ![current] = EraseFirst(mine, at)]
              /\ states' = states \/ (branchInfos'[current] = <<>> /\ states' = Append(states, current))
    BY <1>2, Zenon DEF ReachBranch, execVars, queueVars, messageVars
  <2>2. current \in State /\ mine \in Seq(BranchInfo) /\ Len(mine) \in Nat
    BY <2>1, BranchInfoSeq, ZenonT(40) DEF Relied
  <2>3. CASE UNCHANGED <<branchInfos, states>>
    <3>1. Excused => Excused'
      BY <2>1, <2>3, ZenonT(40) DEF Excused
    <3> QED BY <2>1, <2>3, <3>1, FirstSame, ZenonT(40)
  <2>4. CASE ~UNCHANGED <<branchInfos, states>>
    <3>1. at \subseteq DOMAIN mine
      OBVIOUS
    <3> HIDE DEF at, mine
    <3>2. Len(EraseFirst(mine, at)) <= Len(mine) /\ (mine = <<>> => EraseFirst(mine, at) = <<>>)
      BY <2>2, <3>1, EraseFirstLen, NothingToErase, SMTT(30)
    <3>3. branchInfos'[current] = EraseFirst(mine, at)
      BY <1>0, <2>1, <2>2, <2>4, ZenonT(40)
    <3>4. \A s \in State : s # current => branchInfos'[s] = branchInfos[s]
      BY <1>0, <2>1, <2>4, Zenon
    <3>5. \A s \in Range(states') : s \in Range(states) \/ branchInfos'[s] = <<>>
      <4>1. Range(Append(states, current)) = Range(states) \cup {current}
        BY <1>0, <2>2, AppendRange
      <4> QED BY <2>1, <2>4, <4>1, Zenon
    <3>6. \A s \in State : Waits(s)' => Waits(s)
      BY <3>2, <3>3, <3>4, <3>5, Zenon DEF Waits, mine
    <3>7. Len(branchInfos'[current]) <= Len(branchInfos[current]) /\ Len(branchInfos'[current]) \in Nat
      <4>1. EraseFirst(mine, at) \in Seq(BranchInfo)
        BY <2>2, <3>1, EraseFirstType, ZenonT(40)
      <4>2. Len(EraseFirst(mine, at)) \in Nat
        BY <4>1, LenProperties, ZenonT(40)
      <4> QED BY <3>2, <3>3, <4>2, Zenon DEF mine
    <3>8. Excused => Excused'
      BY <1>0, <2>1, <2>2, <3>7, SMTT(30) DEF Excused, mine
    <3> QED BY <2>1, <3>6, <3>8, FirstKept, ZenonT(40)
  <2> QED BY <2>3, <2>4, ZenonT(40)
<1>3. CASE HandleFullyCovered
  <2> DEFINE s == branch_states[idx]
  <2>1. /\ step = "fully" /\ step' = "fully" /\ idx <= Len(branch_states)
        /\ UNCHANGED <<current, reachStore, newBranchNumFromStore>>
        /\ \E new : branchInfos' = [branchInfos EXCEPT ![s] = new]
        /\ states' = states \/ (branchInfos'[s] = <<>> /\ states' = Append(states, s))
    BY <1>3, Zenon DEF HandleFullyCovered, execVars, queueVars, messageVars
  <2>2. s \in State /\ s \in Range(branch_states)
    <3>1. idx \in 1 .. Len(branch_states)
      BY <1>0, <2>1, LenProperties, SMTT(30) DEF TypeOK, ControlType
    <3> QED BY <1>0, <3>1, ElementInRange, Zenon
  <2> HIDE DEF s
  <2>3. \A r \in State : r # s => branchInfos'[r] = branchInfos[r]
    BY <1>0, <2>1, Zenon
  <2>4. \A r \in Range(states') : r \in Range(states) \/ (r = s /\ branchInfos'[r] = <<>>)
    <3>1. Range(Append(states, s)) = Range(states) \cup {s}
      BY <1>0, <2>2, AppendRange
    <3> QED BY <2>1, <3>1, Zenon
  <2>5. s \notin Range(states)
    BY <1>0, <2>2, Zenon
  <2>6. \A r \in State : Waits(r)' => Waits(r)
    BY <2>3, <2>4, <2>5, ZenonT(40) DEF Waits
  <2>7. \A r \in State : Waits(r) /\ Excused => Excused'
    <3> SUFFICES ASSUME NEW r \in State, Waits(r), Excused PROVE Excused'
      OBVIOUS
    <3>1. r = current /\ r # s
      BY <2>5, Zenon DEF FirstInv, Waits
    <3>2. branchInfos'[current] = branchInfos[current]
      BY <2>3, <3>1, ZenonT(40)
    <3> QED BY <2>1, <3>2, Zenon DEF Excused
  <2> QED BY <2>1, <2>6, <2>7, Zenon DEF FirstInv
<1>4. CASE FullyCoveredHandled
  <2>1. /\ step = "fully" /\ step' = "store"
        /\ UNCHANGED <<current, branchInfos, reachStore, newBranchNumFromStore>>
        /\ states' = states \/ (branchInfos[current] = <<>> /\ states' = <<current>> \o states)
    BY <1>4, ZenonT(40) DEF FullyCoveredHandled, execVars, queueVars
  <2>2. current \in State
    BY <2>1, ZenonT(40) DEF Relied
  <2>3. Range(<<current>> \o states) = Range(states) \cup {current}
    BY <1>0, <2>2, PrependRange
  <2>4. \A s \in State : Waits(s)' => Waits(s)
    BY <2>1, <2>3, Zenon DEF Waits
  <2>5. Excused => Excused'
    BY <2>1, Zenon DEF Excused
  <2> QED BY <2>1, <2>4, <2>5, FirstKept, ZenonT(40)
<1>5. CASE ReachStore
  <2>1. /\ step = "store" /\ UNCHANGED <<current, states, branchInfos>>
        /\ \/ ~reachStore[current] /\ step' = "partly"
           \/ step' = "crashed"
           \/ /\ step' = "examine" /\ ~(newBranchNumFromStore > Len(branchInfos[current]))
              /\ idx' = Len(branchInfos[current]) - newBranchNumFromStore + 1
    BY <1>5, Zenon DEF ReachStore, execVars, queueVars, stateVars
  <2>2. Len(branchInfos[current]) \in Nat
    BY <2>1, BranchInfoSeq, ZenonT(40) DEF Relied
  <2>3. Excused /\ step' = "examine" => idx' = 1
    <3>1. Excused => newBranchNumFromStore >= Len(branchInfos[current])
      BY <2>1, Zenon DEF Excused
    <3> QED BY <1>0, <2>1, <2>2, <3>1, SMTT(30)
  <2>4. Excused => Excused'
    BY <2>1, <2>3, Zenon DEF Excused
  <2> QED BY <2>1, <2>4, FirstSame, Zenon
<1>6. CASE ExamineStoreValue
  <2>1. /\ step = "examine" /\ step' = "examine" /\ idx <= Len(branchInfos[current])
        /\ current' = current
        /\ \/ branchInfos' = branchInfos /\ states' = Without(states, current)
           \/ /\ branchInfos' = [branchInfos EXCEPT ![current] = erase(branchInfos[current], idx)]
              /\ states' = states /\ idx' = idx
    BY <1>6, Zenon DEF ExamineStoreValue, Prioritise, execVars, queueVars
  <2>2. current \in State /\ Len(branchInfos[current]) \in Nat /\ idx \in Nat \ {0}
    BY <2>1, BranchInfoSeq, ZenonT(40) DEF Relied, TypeOK, ControlType
  <2>3. CASE branchInfos' = branchInfos /\ states' = Without(states, current)
    <3>1. Range(states') = Range(states) \ {current}
      BY <1>0, <2>3, WithoutRange, ZenonT(40)
    <3> QED BY <2>3, <3>1, Zenon DEF FirstInv, Waits
  <2>4. CASE /\ branchInfos' = [branchInfos EXCEPT ![current] = erase(branchInfos[current], idx)]
             /\ states' = states /\ idx' = idx
    <3>1. branchInfos[current] # <<>>
      BY <2>1, <2>2, EmptySeq
    <3>2. \A s \in State : Waits(s)' => Waits(s)
      BY <1>0, <2>4, <3>1, ZenonT(40) DEF Waits
    <3>3. Excused => Excused'
      BY <2>1, <2>4, Zenon DEF Excused
    <3> QED BY <2>1, <3>2, <3>3, FirstKept, ZenonT(40)
  <2> QED BY <2>1, <2>3, <2>4, Zenon
<1>7. CASE StoreValuesExamined
  <2>1. step = "examine" /\ idx > Len(branchInfos[current]) /\ UNCHANGED <<states, branchInfos>>
    BY <1>7, Zenon DEF StoreValuesExamined, queueVars
  <2>2. branchInfos[current] \in Seq(BranchInfo) /\ Len(branchInfos[current]) \in Nat
    BY <2>1, BranchInfoSeq, ZenonT(40) DEF Relied
  <2>3. ASSUME NEW s \in State, Waits(s) PROVE FALSE
    <3>1. s = current /\ idx = 1
      BY <2>1, <2>3, ZenonT(40) DEF FirstInv, Excused
    <3>2. branchInfos[current] # <<>>
      BY <2>3, <3>1, Zenon DEF Waits
    <3>3. Len(branchInfos[current]) # 0
      BY <2>2, <3>2, EmptySeq, ZenonT(40)
    <3> QED BY <2>1, <2>2, <3>1, <3>3, SMTT(30)
  <2> QED BY <2>1, <2>3, Zenon DEF FirstInv, Waits
<1> QED BY <1>1, <1>2, <1>3, <1>4, <1>5, <1>6, <1>7, ZenonT(40)

\* The handler of a partly covered branch: current is moved once it has its infos.
LEMMA ClaimedFirst ==
  ASSUME TypeOK, Relied, QInv, FirstInv,
         \/ NewPartlyCovered \/ PartlyCoveredHandled
         \/ ClaimStore \/ Claimed \/ PickStore \/ FindState \/ StatesFound
  PROVE  FirstInv'
<1>0. /\ branchInfos \in [State -> Seq(BranchInfo)]
      /\ states \in Seq(State) /\ IsInjective(states)
  BY DEF TypeOK, StateType, QueueType, QInv, Apart
<1>1. CASE NewPartlyCovered \/ PartlyCoveredHandled \/ PickStore \/ StatesFound
  <2>1. /\ step \in {"partly", "partlyDone", "pick", "find"} /\ UNCHANGED <<states, branchInfos>>
    BY <1>1, Zenon DEF NewPartlyCovered, PartlyCoveredHandled, PickStore, StatesFound,
       queueVars, stateVars
  <2>2. ~Excused
    BY <2>1 DEF Excused
  <2> QED BY <2>1, <2>2, FirstSame, ZenonT(40)
<1>2. CASE ClaimStore
  <2>1. /\ step = "claim" /\ step' = "claim" /\ current' = current /\ states' = states
        /\ \E new : branchInfos' = [branchInfos EXCEPT ![current] = new]
    BY <1>2, Zenon DEF ClaimStore, execVars, queueVars
  <2>2. Excused'
    BY <2>1 DEF Excused
  <2>3. \A s \in State : s # current => (Waits(s)' => Waits(s))
    BY <1>0, <2>1, Zenon DEF Waits
  <2> QED BY <2>1, <2>2, <2>3, Zenon DEF FirstInv
<1>3. CASE Claimed
  <2>1. states' = Without(states, current) /\ branchInfos' = branchInfos
    BY <1>3, Zenon DEF Claimed, Prioritise, stateVars
  <2>2. Range(states') = Range(states) \ {current}
    BY <1>0, <2>1, WithoutRange, ZenonT(40)
  <2> QED BY <2>1, <2>2, Zenon DEF FirstInv, Waits
<1>4. CASE FindState
  <2>1. /\ step = "find" /\ idx <= Len(states)
        /\ \/ UNCHANGED <<branchInfos, states>>
           \/ /\ \E new : branchInfos' = [branchInfos EXCEPT ![states[idx]] = new]
              /\ states' = erase(states, idx)
    BY <1>4, Zenon DEF FindState, queueVars
  <2>2. idx \in 1 .. Len(states)
    BY <1>0, <2>1, LenProperties, SMTT(30) DEF TypeOK, ControlType
  <2>3. Range(erase(states, idx)) = Range(states) \ {states[idx]}
    BY <1>0, <2>2, EraseRange, Zenon
  <2>4. \A s \in State : Waits(s)' => Waits(s)
    BY <1>0, <2>1, <2>3, Zenon DEF Waits
  <2>5. ~Excused
    BY <2>1 DEF Excused
  <2> QED BY <2>4, <2>5, FirstKept, ZenonT(40)
<1> QED BY <1>1, <1>2, <1>3, <1>4, ZenonT(40)

\* Re-targeting, and the added and removed states.
LEMMA RetargetFirst ==
  ASSUME TypeOK, Relied, QInv, CurrentInv, FirstInv,
         \/ Retarget \/ ClearState \/ StatesCleared \/ Refill
         \/ AddState \/ StatesAdded \/ RemoveState \/ StatesRemoved
  PROVE  FirstInv'
<1>0. /\ branchInfos \in [State -> Seq(BranchInfo)]
      /\ states \in Seq(State) /\ IsInjective(states) /\ branch_states \in Seq(State)
      /\ addedStates \in Seq(State)
  BY DEF TypeOK, StateType, QueueType, ExecType, QInv, Apart
<1>1. CASE Retarget \/ StatesCleared \/ Refill \/ StatesAdded
  <2>1. /\ step \in {"retarget", "clear", "refill", "add"}
        /\ step' \in {"clear", "add", "refill", "crashed", "claim", "remove"}
        /\ UNCHANGED <<current, removedStates, states, branchInfos>>
    BY <1>1, Zenon DEF Retarget, StatesCleared, Refill, StatesAdded, execVars, queueVars, stateVars
  <2>2. Excused => Excused'
    BY <2>1, ZenonT(40) DEF Excused
  <2> QED BY <2>1, <2>2, FirstSame, ZenonT(40)
<1>2. CASE ClearState
  <2> DEFINE s == branch_states[idx]
  <2>1. /\ step = "clear" /\ step' = "clear" /\ idx <= Len(branch_states)
        /\ UNCHANGED <<current, removedStates>>
        /\ branchInfos' = [branchInfos EXCEPT ![s] = <<>>]
        /\ states' = states \/ states' = Append(states, s)
    BY <1>2, Zenon DEF ClearState, execVars, queueVars
  <2>2. idx \in 1 .. Len(branch_states)
    BY <1>0, <2>1, LenProperties, SMTT(30) DEF TypeOK, ControlType
  <2>3. s \in State
    BY <1>0, <2>2, ElementOfSeq, Zenon
  <2> HIDE DEF s
  <2>4. Range(Append(states, s)) = Range(states) \cup {s}
    BY <1>0, <2>3, AppendRange
  <2>5. branchInfos'[s] = <<>> /\ \A r \in State : r # s => branchInfos'[r] = branchInfos[r]
    BY <1>0, <2>1, <2>3, Zenon
  <2>6. \A r \in State : Waits(r)' => Waits(r)
    BY <2>1, <2>4, <2>5, Zenon DEF Waits
  <2>7. Excused => Excused'
    BY <2>1, ZenonT(40) DEF Excused
  <2> QED BY <2>1, <2>6, <2>7, FirstKept, ZenonT(40)
<1>3. CASE AddState
  <2> DEFINE s == addedStates[idx]
  <2>1. /\ step = "add" /\ step' = "add" /\ idx <= Len(addedStates)
        /\ UNCHANGED <<current, removedStates, branchInfos>>
        /\ \/ states' = states
           \/ (current = NULL \/ branchInfos[s] = <<>>) /\ states' = Append(states, s)
    BY <1>3, Zenon DEF AddState, execVars, stateVars
  <2>2. idx \in 1 .. Len(addedStates) /\ Len(addedStates) # 0
    BY <1>0, <2>1, LenProperties, SMTT(30) DEF TypeOK, ControlType
  <2>3. s \in State
    BY <1>0, <2>2, ElementOfSeq, Zenon
  <2>4. current # NULL
    BY <2>2, EmptySeq, Zenon DEF CurrentInv
  <2> HIDE DEF s
  <2>5. Range(Append(states, s)) = Range(states) \cup {s}
    BY <1>0, <2>3, AppendRange
  <2>6. \A r \in State : Waits(r)' => Waits(r)
    BY <2>1, <2>4, <2>5, ZenonT(40) DEF Waits
  <2>7. Excused => Excused'
    BY <2>1, Zenon DEF Excused
  <2> QED BY <2>1, <2>6, <2>7, FirstKept, ZenonT(40)
<1>4. CASE RemoveState
  <2>1. /\ step = "remove" /\ step' = "remove"
        /\ UNCHANGED <<current, removedStates, branchInfos>>
        /\ states' = states \/ \E s : states' = Without(states, s)
    BY <1>4, Zenon DEF RemoveState, execVars, stateVars
  <2>2. \A s : Range(Without(states, s)) \subseteq Range(states)
    BY <1>0, WithoutRange, ZenonT(40)
  <2>3. \A r \in State : Waits(r)' => Waits(r)
    BY <2>1, <2>2, Zenon DEF Waits
  <2>4. Excused => Excused'
    BY <2>1 DEF Excused
  <2> QED BY <2>1, <2>3, <2>4, FirstKept, Zenon
<1>5. CASE StatesRemoved
  <2>1. /\ step = "remove" /\ removedStates \cap (Range(branch_states) \cup Range(states)) = {}
        /\ UNCHANGED <<states, branchInfos>>
    BY <1>5, Zenon DEF StatesRemoved, queueVars, stateVars
  <2>2. Excused => current \in removedStates
    BY <2>1 DEF Excused
  <2>3. \A s \in State : ~Waits(s)
    BY <2>1, <2>2, Zenon DEF FirstInv, Waits
  <2> QED BY <2>1, <2>3, Zenon DEF FirstInv, Waits
<1> QED BY <1>1, <1>2, <1>3, <1>4, <1>5, ZenonT(40)

\* Every step keeps the order of the queues.
LEMMA NextFirst == ASSUME BaseInv, CurrentInv, FirstInv, [Next]_vars PROVE FirstInv'
<1>0. TypeOK /\ Relied /\ QInv
  BY Zenon DEF BaseInv, TInv
<1>1. CASE UNCHANGED vars
  <2>1. UNCHANGED <<states, branchInfos, current, step, reachStore, newBranchNumFromStore, idx,
                    removedStates>>
    BY <1>1 DEF vars, queueVars, stateVars, execVars, messageVars, loopVars
  <2>2. Excused => Excused'
    BY <2>1, Zenon DEF Excused
  <2> QED BY <2>1, <2>2, FirstSame, Zenon
<1>2. CASE UpdateNext
  BY <1>0, <1>2, ReachedFirst, ClaimedFirst, RetargetFirst, Zenon DEF UpdateNext
<1> QED BY <1>0, <1>1, <1>2, ExecutorFirst, Zenon DEF Next, Ended

\* Initially no state has a target.
LEMMA InitFirst == Init => FirstInv
BY Zenon DEF Init, FirstInv, Waits

(***************************************************************************)
(* When a state is selected, no state with a target branch waits in the    *)
(* ordinary queue: update moves every state it gives a branchInfo, and     *)
(* fork's copies follow their infos.                                       *)
(***************************************************************************)
THEOREM TargetedFirst == Spec => []TargetedStatesFirst
<1>1. BaseInv /\ CurrentInv /\ FirstInv /\ [Next]_vars => BaseInv' /\ CurrentInv' /\ FirstInv'
  BY NextBase, NextCurrent, NextFirst, ZenonT(40)
<1>2. BaseInv /\ FirstInv => TargetedStatesFirst
  <2> SUFFICES ASSUME BaseInv, FirstInv, step = "select", NEW s \in Range(states)
               PROVE  branchInfos[s] = <<>>
    BY DEF TargetedStatesFirst
  <2>1. ~Excused
    BY DEF Excused
  <2>2. s \in State
    BY RangeType DEF BaseInv, TInv, TypeOK, QueueType
  <2> QED BY <2>1, <2>2, Zenon DEF FirstInv, Waits
<1> QED BY InitBase, InitCurrent, InitFirst, <1>1, <1>2, PTL DEF Spec
=============================================================================
