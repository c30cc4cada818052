-------------------------- MODULE BranchingProofs --------------------------
(***************************************************************************)
(* Two sides of a branch.  Forking splits the inputs: no input follows the *)
(* path of two states, and every input follows the path of one, unless it  *)
(* was given up by a limit, a seed, klee_assume or a concretization.       *)
(* PredicateExact holds for every width of int and operands: the inductive *)
(* invariant says which predicate BDDep.pred holds, the instruction's, or  *)
(* its reverse once a br with a leading constant was recorded.             *)
(***************************************************************************)
EXTENDS Forking, BranchPredicate, TLAPS

-----------------------------------------------------------------------------
(* The executor forks *)

\* The inductive invariant: the constraints of the states that are kept, and the inputs that were
\* given up, are the inputs there are.
SplitInv ==
  /\ program \in Programs
  /\ status \in [State -> {"unborn", "live", "done", "dropped"}]
  /\ constraints \in [State -> SUBSET AllInputs]
  /\ lost \subseteq AllInputs
  /\ PathsDisjoint
  /\ \A x \in AllInputs : x \in lost \/ \E s \in Kept : x \in constraints[s]

\* A state that only ends, or whose constraints only grow, gives up what it says it does.
LEMMA Narrowed ==
  ASSUME SplitInv, NEW s \in State, NEW d, status[s] = "live",
         constraints' = [constraints EXCEPT ![s] = @ \cap d],
         status' = status, lost' = lost \cup (constraints[s] \ d), program' = program
  PROVE  SplitInv'
<1> USE DEF SplitInv
<1>1. constraints' \in [State -> SUBSET AllInputs] /\ lost' \subseteq AllInputs
  OBVIOUS
<1>2. Kept' = Kept /\ s \in Kept /\ Kept \subseteq State
  BY DEF Kept
<1>3. \A t \in State : constraints'[t] = IF t = s THEN constraints[s] \cap d ELSE constraints[t]
  OBVIOUS
<1>4. PathsDisjoint'
  BY <1>2, <1>3, ZenonT(40) DEF PathsDisjoint
<1>5. \A x \in AllInputs' : x \in lost' \/ \E t \in Kept' : x \in constraints'[t]
  BY <1>2, <1>3, ZenonT(40) DEF AllInputs, Position
<1> QED BY <1>1, <1>4, <1>5, ZenonT(40) DEF AllInputs, Position

\* terminateState keeps the path of the state.
LEMMA EndedSplit ==
  ASSUME SplitInv, NEW s \in State, status[s] = "live", status' = Ended({s}),
         UNCHANGED <<program, constraints, lost>>
  PROVE  SplitInv'
<1> USE DEF SplitInv
<1>1. \A t \in State : status'[t] = IF t = s THEN "done" ELSE status[t]
  BY DEF Ended
<1>2. status' \in [State -> {"unborn", "live", "done", "dropped"}]
  BY DEF Ended
<1>3. Kept' = Kept
  BY <1>1, ZenonT(40) DEF Kept
<1> QED BY <1>2, <1>3, Zenon DEF PathsDisjoint, AllInputs, Position

\* fork: s takes the inputs that satisfy the condition, the new state t the others.
LEMMA ForkSplit ==
  ASSUME SplitInv, NEW s \in State, NEW t \in State, NEW c, status[s] = "live", status[t] = "unborn",
         constraints' = [constraints EXCEPT ![s] = constraints[s] \cap c, ![t] = constraints[s] \ c],
         \/ status' = Ended({s, t})
         \/ status' = [status EXCEPT ![t] = "live"],
         UNCHANGED <<program, lost>>
  PROVE  SplitInv'
<1> USE DEF SplitInv
<1>1. s # t
  OBVIOUS
<1>2. \A u \in State : constraints'[u] = IF u = s THEN constraints[s] \cap c
                                         ELSE IF u = t THEN constraints[s] \ c ELSE constraints[u]
  BY <1>1, Zenon
<1>3. constraints' \in [State -> SUBSET AllInputs]
  BY <1>1, ZenonT(40)
<1>4. status' \in [State -> {"unborn", "live", "done", "dropped"}]
  BY DEF Ended
<1>5. Kept' = Kept \cup {t} /\ s \in Kept /\ t \notin Kept /\ Kept \subseteq State
  BY <1>1, ZenonT(40) DEF Kept, Ended
<1>6. PathsDisjoint'
  <2> SUFFICES ASSUME NEW u \in Kept', NEW v \in Kept', u # v
               PROVE  constraints'[u] \cap constraints'[v] = {}
    BY Zenon DEF PathsDisjoint
  <2>1. ASSUME NEW a \in Kept, NEW b \in Kept, a # b PROVE constraints[a] \cap constraints[b] = {}
    BY <2>1, Zenon DEF PathsDisjoint
  <2> QED BY <1>1, <1>2, <1>5, <2>1
<1>7. \A x \in AllInputs : x \in lost' \/ \E u \in Kept' : x \in constraints'[u]
  BY <1>1, <1>2, <1>5, SMTT(30)
<1> QED BY <1>3, <1>4, <1>6, <1>7, Zenon DEF AllInputs, Position

\* branch: each condition that keeps a state takes its inputs there, the inputs of the others
\* are given up.  The states of the conditions are s and states that did not exist before.
LEMMA DistributeSplit ==
  ASSUME SplitInv, NEW s \in State, status[s] = "live", NEW conds, Exclusive(conds),
         NEW rest, rest \subseteq AllInputs,
         \A x \in constraints[s] : x \in rest \/ \E i \in DOMAIN conds : x \in conds[i],
         NEW D, D \subseteq DOMAIN conds, NEW result \in [D -> State],
         \E i \in D : result[i] = s,
         \A i \in D : result[i] = s \/ status[result[i]] = "unborn",
         \A i, j \in D : result[i] = result[j] => i = j,
         NEW copy, Distribute(s, conds, rest, result, copy)
  PROVE  SplitInv'
<1> DEFINE index(t) == Index(result, t)
<1> USE DEF SplitInv
<1>1. PICK keep \in SUBSET D :
        /\ status' = [t \in State |-> IF t \notin Range(result) THEN status[t]
                                      ELSE IF index(t) \in keep THEN "live" ELSE "dropped"]
        /\ constraints' = [t \in State |-> IF t \notin Range(result) THEN constraints[t]
                             ELSE IF index(t) \in keep THEN constraints[s] \cap conds[index(t)] ELSE constraints[s]]
        /\ lost' = lost \cup rest \cup (constraints[s] \cap UNION {conds[i] : i \in DOMAIN conds \ keep})
        /\ program' = program
  <2>1. PICK f \in Targets(SeedsOf(s), conds) :
          LET keep == Keeps(s, f, result)
          IN /\ status' = [t \in State |-> IF t \notin Range(result) THEN status[t]
                                      ELSE IF index(t) \in keep THEN "live" ELSE "dropped"]
             /\ constraints' = [t \in State |-> IF t \notin Range(result) THEN constraints[t]
                             ELSE IF index(t) \in keep THEN constraints[s] \cap conds[index(t)] ELSE constraints[s]]
             /\ lost' = lost \cup rest \cup (constraints[s] \cap UNION {conds[i] : i \in DOMAIN conds \ keep})
             /\ program' = program
    BY Zenon DEF Distribute, Branching
  <2>2. Keeps(s, f, result) \in SUBSET D
    BY DEF Keeps
  <2> HIDE DEF index
  <2> QED BY <2>1, <2>2, Zenon
<1>2. \A t \in State : t \in Range(result) <=> \E i \in D : result[i] = t
  BY DEF Range
<1>3. \A i \in D : result[i] \in Range(result) /\ index(result[i]) = i
  BY <1>2, ZenonT(40) DEF Index
<1> HIDE DEF index
<1>4. \A i \in D : /\ status'[result[i]] = IF i \in keep THEN "live" ELSE "dropped"
                   /\ i \in keep => constraints'[result[i]] = constraints[s] \cap conds[i]
  BY <1>1, <1>3, ZenonT(40)
<1>5. \A t \in State : t \notin Range(result) => status'[t] = status[t] /\ constraints'[t] = constraints[t]
  BY <1>1, ZenonT(40)
<1>6. status' \in [State -> {"unborn", "live", "done", "dropped"}]
  BY <1>1, ZenonT(40)
<1>7. constraints' \in [State -> SUBSET AllInputs] /\ lost' \subseteq AllInputs
  BY <1>1, ZenonT(40)
<1>8. \A t \in State : t \in Kept' <=> IF t \in Range(result) THEN \E i \in keep : result[i] = t ELSE t \in Kept
  BY <1>2, <1>4, <1>5, SMTT(30) DEF Kept
<1>9. s \in Kept /\ Kept \subseteq State /\ Kept' \subseteq State /\ s \in Range(result)
  BY <1>2, Zenon DEF Kept
<1>10. \A t \in Kept : t \in Range(result) => t = s
  BY <1>2, ZenonT(40) DEF Kept
<1>11. PathsDisjoint'
  <2> SUFFICES ASSUME NEW u \in Kept', NEW v \in Kept', u # v
               PROVE  constraints'[u] \cap constraints'[v] = {}
    BY Zenon DEF PathsDisjoint
  <2>0. \A a, b \in Kept : a # b => constraints[a] \cap constraints[b] = {}
    BY Zenon DEF PathsDisjoint
  <2>1. ASSUME NEW t \in Kept', t \in Range(result)
        PROVE  \E i \in keep : result[i] = t /\ constraints'[t] = constraints[s] \cap conds[i]
    BY <1>4, <1>8, <1>9, <2>1, ZenonT(40)
  <2>2. ASSUME NEW t \in Kept', t \notin Range(result)
        PROVE  t \in Kept /\ t # s /\ constraints'[t] = constraints[t]
    BY <1>5, <1>8, <1>9, <2>2, ZenonT(40)
  <2>3. CASE u \in Range(result) /\ v \in Range(result)
    BY <2>1, <2>3, SMTT(30) DEF Exclusive
  <2>4. CASE u \in Range(result) /\ v \notin Range(result)
    BY <1>9, <2>0, <2>1, <2>2, <2>4, SMTT(30)
  <2>5. CASE u \notin Range(result) /\ v \in Range(result)
    BY <1>9, <2>0, <2>1, <2>2, <2>5, SMTT(30)
  <2>6. CASE u \notin Range(result) /\ v \notin Range(result)
    BY <2>0, <2>2, <2>6, Zenon
  <2> QED BY <2>3, <2>4, <2>5, <2>6, ZenonT(40)
<1>12. ASSUME NEW x \in AllInputs PROVE x \in lost' \/ \E t \in Kept' : x \in constraints'[t]
  <2>1. CASE x \in lost
    BY <1>1, <2>1, ZenonT(40)
  <2>2. ASSUME NEW t \in Kept, x \in constraints[t], t \notin Range(result)
        PROVE  t \in Kept' /\ x \in constraints'[t]
    BY <1>5, <1>8, <1>9, <2>2, ZenonT(40)
  <2>3. CASE x \in constraints[s]
    <3>1. CASE x \in rest
      BY <1>1, <3>1, ZenonT(40)
    <3>2. ASSUME NEW i \in keep, x \in conds[i] PROVE result[i] \in Kept' /\ x \in constraints'[result[i]]
      BY <1>3, <1>4, <1>8, <2>3, <3>2, ZenonT(40)
    <3>3. ASSUME NEW i \in DOMAIN conds, i \notin keep, x \in conds[i] PROVE x \in lost'
      BY <1>1, <2>3, <3>3, ZenonT(40)
    <3> QED BY <2>3, <3>1, <3>2, <3>3, ZenonT(40)
  <2> QED BY <1>10, <2>1, <2>2, <2>3, ZenonT(40)
<1> QED BY <1>1, <1>6, <1>7, <1>11, <1>12, Zenon DEF AllInputs, Position

\* Executor::branch splits the inputs of s, if the conditions exclude each other and the
\* caller gives up the inputs that satisfy none.
LEMMA BranchSplit ==
  ASSUME SplitInv, NEW s \in State, status[s] = "live", NEW conds, Exclusive(conds),
         DOMAIN conds \subseteq Int, State \subseteq Int,
         NEW rest, rest \subseteq AllInputs,
         \A x \in constraints[s] : x \in rest \/ \E i \in DOMAIN conds : x \in conds[i],
         Branch(s, conds, rest)
  PROVE  SplitInv'
<1>1. ASSUME NEW i \in DOMAIN conds, NEW copy, Distribute(s, conds, rest, [j \in {i} |-> s], copy)
      PROVE  SplitInv'
  <2> DEFINE result == [j \in {i} |-> s]
  <2>1. result \in [{i} -> State] /\ result[i] = s
    OBVIOUS
  <2> HIDE DEF result
  <2>2. Distribute(s, conds, rest, result, copy)
    BY <1>1, Zenon DEF result
  <2> QED BY <2>1, <2>2, DistributeSplit, ZenonT(40)
<1>2. ASSUME NEW r \in Results(s, conds), NEW copy, Distribute(s, conds, rest, r, copy)
      PROVE  SplitInv'
  <2>1. /\ r \in [DOMAIN conds -> {s} \cup Unused] /\ s \in Range(r)
        /\ \A i, j \in DOMAIN conds : i < j => r[j] # s /\ (r[i] = s \/ r[i] < r[j])
    BY ZenonT(40) DEF Results
  <2>2. r \in [DOMAIN conds -> State]
    BY <2>1, ZenonT(40) DEF Unused
  <2>3. \A i \in DOMAIN conds : r[i] = s \/ status[r[i]] = "unborn"
    BY <2>1, ZenonT(40) DEF Unused
  <2>4. \E i \in DOMAIN conds : r[i] = s
    BY <2>1, ZenonT(40) DEF Range
  <2>5. \A i, j \in DOMAIN conds : r[i] = r[j] => i = j
    <3> SUFFICES ASSUME NEW i \in DOMAIN conds, NEW j \in DOMAIN conds, i < j PROVE r[i] # r[j]
      OBVIOUS
    <3>1. r[j] # s /\ (r[i] = s \/ r[i] < r[j]) /\ r[i] \in Int /\ r[j] \in Int
      BY <2>1, <2>2, Zenon
    <3> QED BY <3>1
  <2> QED BY <1>2, <2>2, <2>3, <2>4, <2>5, DistributeSplit, ZenonT(40)
<1> QED BY <1>1, <1>2, Zenon DEF Branch

\* Every step of a state splits its inputs or gives some up.
LEMMA SplitStep ==
  ASSUME SwitchesSplit, State \subseteq Int, Byte \subseteq Int, SplitInv, [ForkNext]_forkVars
  PROVE  SplitInv'
<1> SUFFICES ASSUME NEW s \in State, status[s] = "live", Steps(s) PROVE SplitInv'
  <2>1. CASE UNCHANGED forkVars
    BY <2>1 DEF forkVars, SplitInv, PathsDisjoint, Kept, AllInputs, Position
  <2> QED BY <2>1, Zenon DEF ForkNext, Live
<1>1. ASSUME EndsOnError(s), Branching, UNCHANGED lost PROVE SplitInv'
  BY <1>1, EndedSplit, Zenon DEF EndsOnError, Branching
<1>2. ASSUME NEW c, NEW side, NEW added, Follow(s, c, side, added) PROVE SplitInv'
  BY <1>2, Narrowed, Zenon DEF Follow, Branching
<1>3. ASSUME NEW c, Assumed(s, c) PROVE SplitInv'
  BY <1>3, Narrowed, Zenon DEF Assumed, Branching
<1>4. CASE Exit(s)
  BY <1>4, EndedSplit, Zenon DEF Exit, Branching
<1>5. CASE ForkTimesOut(s)
  BY <1>1, <1>5, Zenon DEF ForkTimesOut
<1>6. CASE ForkDecided(s) \/ ForkInhibited(s) \/ ForkSeedFixed(s)
  BY <1>2, <1>6, Zenon DEF ForkDecided, ForkInhibited, ForkSeedFixed
<1>7. CASE ForkBoth(s)
  <2>1. PICK t \in Unused : ForkInto(s, t)
    BY <1>7, Zenon DEF ForkBoth, Fresh
  <2>2. t \in State /\ status[t] = "unborn"
    BY Zenon DEF Unused
  <2>3. PICK c : /\ constraints' = [constraints EXCEPT ![s] = constraints[s] \cap c, ![t] = constraints[s] \ c]
                 /\ status' = Ended({s, t}) \/ status' = [status EXCEPT ![t] = "live"]
                 /\ UNCHANGED <<program, lost>>
    BY <2>1, Zenon DEF ForkInto, Branching
  <2> QED BY <2>2, <2>3, ForkSplit, Zenon
<1>8. CASE Switch(s)
  <2> DEFINE cases == Inst(s).cases
             conds == Feasible(constraints[s], cases)
  <2>1. /\ cases \in Seq(SUBSET AllInputs) /\ Exclusive(cases)
        /\ \A x \in AllInputs : \E i \in DOMAIN cases : x \in cases[i]
    BY <1>8, Zenon DEF Switch, AtOp, Inst, SwitchesSplit, SplitInv
  <2>2. Branch(s, conds, {})
    BY <1>8, Zenon DEF Switch
  <2>3. constraints[s] \subseteq AllInputs
    BY DEF SplitInv
  <2> HIDE DEF cases
  <2>4. /\ DOMAIN conds = {i \in DOMAIN cases : cases[i] \cap constraints[s] # {}}
        /\ \A i \in DOMAIN conds : conds[i] = cases[i]
    BY Zenon DEF Feasible, Restrict
  <2> HIDE DEF conds
  <2>5. DOMAIN conds \subseteq Int /\ Exclusive(conds)
    BY <2>1, <2>4, SMTT(30) DEF Exclusive
  <2>6. \A x \in constraints[s] : \E i \in DOMAIN conds : x \in conds[i]
    BY <2>1, <2>3, <2>4, Zenon
  <2> QED BY <2>2, <2>5, <2>6, BranchSplit
<1>9. CASE GetValue(s)
  <2> DEFINE values == {v \in Byte : \E k \in DOMAIN SeedsOf(s) : SeedsOf(s)[k].val[Inst(s).byte] = v}
             conds == [v \in values |-> At(Inst(s).byte, v)]
             rest == constraints[s] \ UNION Range(conds)
  <2>1. UNCHANGED <<program, status, constraints, lost>> \/ Branch(s, conds, rest)
    BY <1>9, Zenon DEF GetValue, Branching
  <2>2. CASE UNCHANGED <<program, status, constraints, lost>>
    BY <2>2, ZenonT(40) DEF SplitInv, PathsDisjoint, Kept, AllInputs, Position
  <2>3. CASE Branch(s, conds, rest)
    <3>1. rest \subseteq AllInputs
      BY Zenon DEF SplitInv
    <3>2. values \subseteq Int
      BY Zenon
    <3> HIDE DEF values
    <3>3. \A v, w \in values : v # w => At(Inst(s).byte, v) \cap At(Inst(s).byte, w) = {}
      BY Zenon DEF At
    <3>4. DOMAIN conds = values /\ \A v \in values : conds[v] = At(Inst(s).byte, v)
      OBVIOUS
    <3>5. \A x \in constraints[s] : x \in rest \/ \E v \in values : x \in conds[v]
      BY DEF Range
    <3> HIDE DEF conds, rest
    <3>6. Exclusive(conds)
      BY <3>3, <3>4, ZenonT(40) DEF Exclusive
    <3> QED BY <2>3, <3>1, <3>2, <3>4, <3>5, <3>6, BranchSplit, Zenon
  <2> QED BY <2>1, <2>2, <2>3, Zenon
<1>10. CASE Assume(s) \/ ToConstant(s)
  BY <1>3, <1>10, Zenon DEF Assume, ToConstant
<1>11. CASE AssumeFails(s)
  BY <1>1, <1>11, Zenon DEF AssumeFails
<1>12. CASE SetForking(s)
  BY <1>12, ZenonT(40) DEF SetForking, Branching, SplitInv, PathsDisjoint, Kept, AllInputs, Position
<1> QED BY <1>4, <1>5, <1>6, <1>7, <1>8, <1>9, <1>10, <1>11, <1>12, Zenon DEF Steps

\* For every program, every seed, every limit and any number of states: the paths of the
\* states share no input, and no input is lost but those a limit, a seed, klee_assume or a
\* concretization gave up (fork, branch, addConstraint, executeGetValue, toConstant).
THEOREM PathsSplitInputs ==
  ASSUME SwitchesSplit, State \subseteq Int, 1 \in State, Byte \subseteq Int
  PROVE  ForkSpec => [](PathsDisjoint /\ NoInputLost)
<1>1. ForkInit => SplitInv
  <2> SUFFICES ASSUME ForkInit PROVE SplitInv
    OBVIOUS
  <2>1. /\ program \in Programs /\ lost = {}
        /\ status = [s \in State |-> IF s = 1 THEN "live" ELSE "unborn"]
        /\ constraints = [s \in State |-> IF s = 1 THEN AllInputs ELSE {}]
    BY Zenon DEF ForkInit
  <2>2. Kept = {1} /\ constraints[1] = AllInputs
    BY <2>1, ZenonT(40) DEF Kept
  <2> QED BY <2>1, <2>2, ZenonT(40) DEF SplitInv, PathsDisjoint
<1>2. SplitInv /\ [ForkNext]_forkVars => SplitInv'
  BY SplitStep, ZenonT(40)
<1>3. SplitInv => PathsDisjoint /\ NoInputLost
  BY Zenon DEF SplitInv, NoInputLost, Kept
<1> QED BY <1>1, <1>2, <1>3, PTL DEF ForkSpec

-----------------------------------------------------------------------------
(* The analysis records a branch *)

PredRecorded ==
  /\ ~inst.constFirst \/ admitted = 0 => pred = getUnsignedPredicate[inst.pred]
  /\ inst.constFirst /\ admitted = 1 => pred = Reversed[getUnsignedPredicate[inst.pred]]
ListedVisited == listed => seen # {} /\ admitted # 0
IInv == TypeOK /\ PredRecorded /\ ListedVisited /\ PredicateExact

(***************************************************************************)
(* The two tables of the br handler: a predicate and its opposite exclude  *)
(* each other and leave no third case, and exchanging the operands is      *)
(* undone by the reversed predicate.                                       *)
(***************************************************************************)
LEMMA OppositeExcludes ==
  ASSUME NEW p \in Equality \cup Unsigned, NEW a \in Int, NEW b \in Int
  PROVE  /\ Opposite[p] \in Equality \cup Unsigned
         /\ Compare(Opposite[p], a, b) <=> ~Compare(p, a, b)
  BY DEF Equality, Unsigned, Opposite, Compare

\* Exchanging the operands is undone by the reversed predicate.
LEMMA ReversedExchanges ==
  ASSUME NEW p \in Equality \cup Unsigned, NEW a \in Int, NEW b \in Int
  PROVE  /\ Reversed[p] \in Equality \cup Unsigned
         /\ Compare(Reversed[p], a, b) <=> Compare(p, b, a)
  BY DEF Equality, Unsigned, Reversed, Compare

\* What setModule records is a predicate the handlers' switch statements know.
LEMMA UnsignedPredicate ==
  ASSUME NEW p \in Predicate
  PROVE  getUnsignedPredicate[p] \in Equality \cup Unsigned
  BY DEF Predicate, Equality, Unsigned, Signed, getUnsignedPredicate

(***************************************************************************)
(* The conversion to int: the value itself below Half, two's complement    *)
(* for operands as wide as int.                                            *)
(***************************************************************************)
LEMMA ToIntSmall ==
  ASSUME NEW z \in Nat, z < 2 * Half
  PROVE  ToInt(z) = IF z >= Half THEN z - 2 * Half ELSE z
<1>1. z % (2 * Half) = z
  BY HalfAssumption
<1> QED BY <1>1, ZenonT(40) DEF ToInt

\* The conversion of an operand gives an int.
LEMMA ToIntType ==
  ASSUME NEW z \in Nat
  PROVE  ToInt(z) \in Int
<1>1. z % (2 * Half) \in Nat
  BY HalfAssumption
<1> QED BY <1>1, HalfAssumption DEF ToInt

(***************************************************************************)
(* The predicate that RecordPredicate leaves in BDDep.pred the first time. *)
(***************************************************************************)
Recorded ==
  IF inst.constFirst THEN Reversed[getUnsignedPredicate[inst.pred]]
  ELSE getUnsignedPredicate[inst.pred]

\* The fields of an icmp with a constant operand.
LEMMA InstructionFields ==
  ASSUME inst \in Instruction
  PROVE  /\ inst.pred \in Predicate /\ inst.size \in Nat \ {0} /\ inst.constFirst \in BOOLEAN
         /\ inst.constant \in 0 .. inst.size - 1
BY SizesAssumption DEF Instruction

(***************************************************************************)
(* Where Representable holds, comparing ints with the recorded predicate   *)
(* decides the icmp as the program does.                                   *)
(***************************************************************************)
LEMMA RecordedAgrees ==
  ASSUME inst \in Instruction, Representable, NEW v \in 0 .. inst.size - 1
  PROVE  /\ Recorded \in Equality \cup Unsigned
         /\ Compare(Recorded, ToInt(v), ToInt(inst.constant)) <=> Holds(v)
<1> DEFINE q == getUnsignedPredicate[inst.pred]
           c == inst.constant
<1>1. /\ inst.pred \in Predicate /\ inst.size \in Nat \ {0} /\ inst.constFirst \in BOOLEAN
      /\ c \in 0 .. inst.size - 1
  BY InstructionFields, ZenonT(40)
<1>2. v \in Nat /\ c \in Nat /\ ToInt(v) \in Int /\ ToInt(c) \in Int
  BY <1>1, ToIntType, SMTT(30)
<1>3. q \in Equality \cup Unsigned
  BY <1>1, UnsignedPredicate, Zenon
<1>4. Recorded \in Equality \cup Unsigned
  BY <1>2, <1>3, ReversedExchanges, Zenon DEF Recorded
<1>5. Compare(Recorded, ToInt(v), ToInt(c)) <=>
         IF inst.constFirst THEN Compare(q, ToInt(c), ToInt(v)) ELSE Compare(q, ToInt(v), ToInt(c))
  BY <1>2, <1>3, ReversedExchanges, Zenon DEF Recorded
<1>6. v < 2 * Half /\ c < 2 * Half
  BY <1>1, HalfAssumption DEF Representable
<1>7. /\ ToInt(v) = IF v >= Half THEN v - 2 * Half ELSE v
      /\ ToInt(c) = IF c >= Half THEN c - 2 * Half ELSE c
  BY <1>2, <1>6, ToIntSmall, ZenonT(40)
<1> HIDE DEF q, c
<1>8. ASSUME NEW a \in {v, c}, NEW b \in {v, c}
      PROVE  Compare(q, ToInt(a), ToInt(b)) <=>
               IF inst.pred \in Signed
               THEN Compare(inst.pred, AsSigned(a, inst.size), AsSigned(b, inst.size))
               ELSE Compare(inst.pred, a, b)
  <2>1. CASE inst.size <= Half /\ inst.pred \notin Signed
    <3>1. ToInt(a) = a /\ ToInt(b) = b
      BY <2>1, <1>1, <1>2, <1>7, HalfAssumption, SMTT(30)
    <3>2. q = inst.pred
      BY <2>1, <1>1, SMTT(30) DEF q, getUnsignedPredicate, Predicate, Signed, Unsigned, Equality
    <3> QED BY <2>1, <3>1, <3>2, ZenonT(40)
  <2>2. CASE inst.pred \in Equality
    <3>1. q = inst.pred /\ inst.pred \notin Signed
      BY <2>2 DEF q, getUnsignedPredicate, Equality, Signed
    <3>2. ToInt(a) = ToInt(b) <=> a = b
      BY <1>2, <1>6, <1>7, HalfAssumption, SMTT(30)
    <3> QED BY <2>2, <3>1, <3>2, Zenon DEF Equality, Compare
  <2>3. CASE inst.size = 2 * Half /\ inst.pred \in Signed
    <3>1. AsSigned(a, inst.size) = ToInt(a) /\ AsSigned(b, inst.size) = ToInt(b)
      BY <2>3, <1>1, <1>2, <1>7, HalfAssumption, SMTT(30) DEF AsSigned
    <3>2. Compare(q, ToInt(a), ToInt(b)) <=> Compare(inst.pred, ToInt(a), ToInt(b))
      BY <2>3, <1>2, SMTT(30) DEF q, getUnsignedPredicate, Signed, Compare
    <3> QED BY <2>3, <3>1, <3>2, ZenonT(40)
  <2> QED BY <1>1, <2>1, <2>2, <2>3, ZenonT(40) DEF Representable, Predicate
<1>9. Compare(Recorded, ToInt(v), ToInt(c)) <=> Holds(v)
  BY <1>5, <1>8, ZenonT(40) DEF Holds, c
<1> QED BY <1>4, <1>9, ZenonT(40) DEF c

\* The icmp of the program is true or false.
LEMMA HoldsType ==
  ASSUME NEW v
  PROVE  Holds(v) \in BOOLEAN
BY Zenon DEF Holds, Compare

(***************************************************************************)
(* A first recording leaves exactly the values of the other outcome.       *)
(***************************************************************************)
LEMMA RecordedExact ==
  ASSUME inst \in Instruction, Representable, NEW x \in 0 .. inst.size - 1,
         NEW u, u = IF Compare(Recorded, ToInt(x), ToInt(inst.constant))
                    THEN Opposite[Recorded] ELSE Recorded
  PROVE  \A v \in 0 .. inst.size - 1 :
            Compare(u, ToInt(v), ToInt(inst.constant)) <=> ~(Holds(v) <=> Holds(x))
<1>1. inst.constant \in Nat /\ ToInt(inst.constant) \in Int /\ inst.size \in Nat
  BY InstructionFields, ToIntType, SMTT(30)
<1>2. Recorded \in Equality \cup Unsigned
  BY RecordedAgrees, ZenonT(40)
<1>3. ASSUME NEW v \in 0 .. inst.size - 1
      PROVE  Compare(u, ToInt(v), ToInt(inst.constant)) <=> ~(Holds(v) <=> Holds(x))
  <2>1. ToInt(v) \in Int
    BY <1>1, ToIntType, SMTT(30)
  <2>2. /\ Compare(Recorded, ToInt(v), ToInt(inst.constant)) <=> Holds(v)
        /\ Compare(Recorded, ToInt(x), ToInt(inst.constant)) <=> Holds(x)
    BY RecordedAgrees, ZenonT(40)
  <2>3. Compare(Opposite[Recorded], ToInt(v), ToInt(inst.constant)) <=> ~Holds(v)
    BY <1>1, <1>2, <2>1, <2>2, OppositeExcludes, ZenonT(40)
  <2> QED BY <2>2, <2>3, ZenonT(40)
<1> QED BY <1>3, ZenonT(40)

\* The invariant holds of what setModule records.
LEMMA InitIInv == Init => IInv
<1> SUFFICES ASSUME Init PROVE IInv
  OBVIOUS
<1>1. inst.pred \in Predicate
  BY InstructionFields, ZenonT(40) DEF Init
<1>2. pred \in Equality \cup Unsigned
  BY <1>1, UnsignedPredicate, ZenonT(40) DEF Init
<1>3. admitted \in 0 .. MaxReach
  BY ReachAssumption DEF Init
<1>4. TypeOK
  BY <1>2, <1>3, Zenon DEF Init, TypeOK
<1> QED BY <1>4 DEF Init, IInv, PredRecorded, ListedVisited, PredicateExact, Exact

\* A visit of the br and a re-targeting keep the invariant.
LEMMA NextIInv == IInv /\ [Next]_vars => IInv'
<1> SUFFICES ASSUME IInv, [Next]_vars PROVE IInv'
  OBVIOUS
<1> USE DEF IInv
<1>0. inst.pred \in Predicate /\ inst.size \in Nat /\ inst.constFirst \in BOOLEAN
  BY InstructionFields, ZenonT(40) DEF TypeOK
<1>1. CASE Retarget
  BY <1>1, Zenon DEF Retarget, TypeOK, PredRecorded, ListedVisited, PredicateExact, Exact, Representable
<1>2. ASSUME NEW x \in 0 .. inst.size - 1, Visit(x) PROVE IInv'
  <2>1. inst' = inst /\ Holds(x) \in BOOLEAN /\ seen' = seen \cup {Holds(x)}
    BY <1>2, HoldsType, ZenonT(40) DEF Visit
  <2>2. Representable' <=> Representable
    BY <2>1, ZenonT(40) DEF Representable
  <2>3. \A v : Holds(v)' <=> Holds(v)
    BY <2>1, ZenonT(40) DEF Holds
  <2>4. seen' \subseteq BOOLEAN /\ seen' # {}
    BY <2>1, ZenonT(40) DEF TypeOK
  <2>5. CASE UNCHANGED <<pred, unCoveredPred, listed, admitted>>
    <3>1. TypeOK' /\ PredRecorded' /\ ListedVisited'
      BY <2>1, <2>4, <2>5, ZenonT(40) DEF TypeOK, PredRecorded, ListedVisited
    <3>2. ASSUME Exact PROVE Exact'
      <4> SUFFICES ASSUME listed, seen' # BOOLEAN, NEW v \in 0 .. inst.size - 1
                   PROVE  find_new(v)' <=> Holds(v) \notin seen'
        BY <2>1, <2>3, <2>5, ZenonT(40) DEF Exact
      <4>1. seen # {} /\ seen # BOOLEAN
        BY <2>1, <2>4, ZenonT(40) DEF ListedVisited
      <4>2. seen' = seen
        BY <2>1, <2>4, <4>1, ZenonT(40) DEF TypeOK
      <4> QED BY <3>2, <2>1, <2>5, <4>1, <4>2, ZenonT(40) DEF Exact, find_new
    <3> QED BY <2>1, <2>2, <2>5, <3>1, <3>2, ZenonT(40) DEF PredicateExact
  <2>6. CASE /\ seen' # BOOLEAN /\ ~listed /\ admitted < MaxReach
             /\ RecordPredicate(x) /\ listed' = TRUE /\ admitted' = admitted + 1
    <3> DEFINE p == IF inst.constFirst THEN Reversed[pred] ELSE pred
    <3>1. /\ pred' = p
          /\ unCoveredPred' = IF Compare(p, ToInt(x), ToInt(inst.constant)) THEN Opposite[p] ELSE p
      BY <2>6, ZenonT(40) DEF RecordPredicate
    <3>2. p \in Equality \cup Unsigned /\ Opposite[p] \in Equality \cup Unsigned
      <4>1. Reversed[pred] \in Equality \cup Unsigned
        BY ReversedExchanges DEF TypeOK
      <4>2. p \in Equality \cup Unsigned
        BY <4>1, ZenonT(40) DEF TypeOK
      <4> QED BY <4>2, OppositeExcludes, SMTT(30)
    <3> HIDE DEF p
    <3>3. TypeOK'
      BY <2>1, <2>4, <2>6, <3>1, <3>2, ReachAssumption, SMTT(30) DEF TypeOK, Predicate
    <3>4. (inst.constFirst => admitted = 0) => p = Recorded
      BY <1>0, Zenon DEF PredRecorded, Recorded, p
    <3>5. PredRecorded'
      BY <2>1, <2>6, <3>1, <3>4, <1>0, SMTT(30) DEF PredRecorded, Recorded, TypeOK
    <3>6. ListedVisited'
      BY <2>4, <2>6 DEF ListedVisited, TypeOK
    <3>7. ASSUME Representable, inst.constFirst => admitted' <= 1 PROVE Exact'
      <4>1. p = Recorded
        BY <3>4, <3>7, <2>6, SMTT(30) DEF TypeOK
      <4>2. \A v \in 0 .. inst.size - 1 :
              Compare(unCoveredPred', ToInt(v), ToInt(inst.constant)) <=> ~(Holds(v) <=> Holds(x))
        BY <3>1, <3>7, <4>1, RecordedExact, Zenon DEF TypeOK
      <4>3. seen' = {Holds(x)}
        BY <2>1, <2>4, <2>6, Zenon
      <4>4. \A v : Holds(v) \notin seen' <=> ~(Holds(v) <=> Holds(x))
        BY <4>3, HoldsType, ZenonT(40)
      <4> QED BY <2>1, <2>3, <4>2, <4>4, ZenonT(40) DEF Exact, find_new
    <3>8. PredicateExact'
      BY <2>1, <2>2, <3>7, ZenonT(40) DEF PredicateExact
    <3> QED BY <3>3, <3>5, <3>6, <3>8, ZenonT(40)
  <2> QED BY <1>2, <2>5, <2>6, ZenonT(40) DEF Visit
<1>3. CASE UNCHANGED vars
  BY <1>3, ZenonT(40) DEF vars, TypeOK, PredRecorded, ListedVisited, PredicateExact, Exact, Representable,
              find_new, Holds
<1> QED BY <1>1, <1>2, <1>3, ZenonT(40) DEF Next

(***************************************************************************)
(* For every width of int and of operands and every bound on admissions:   *)
(* isNewStoreValue answers yes for exactly the values of the outcome not   *)
(* yet seen (Searcher.cpp 995-1044), and pred and unCoveredPred always are *)
(* predicates that its switch statements know.                             *)
(***************************************************************************)
THEOREM PredicateCorrect == Spec => [](TypeOK /\ PredicateExact)
<1>1. IInv => TypeOK /\ PredicateExact
  BY DEF IInv
<1> QED BY <1>1, InitIInv, NextIInv, PTL DEF Spec
-----------------------------------------------------------------------------
\* An operand type with no more values than int: the conversion keeps its values apart.
LEMMA ToIntInjective ==
  ASSUME NEW n \in Nat, n <= 2 * Half, NEW y \in 0 .. n - 1, NEW z \in 0 .. n - 1,
         ToInt(y) = ToInt(z)
  PROVE  y = z
<1>1. y \in Nat /\ y < 2 * Half /\ z \in Nat /\ z < 2 * Half
  BY HalfAssumption
<1>2. /\ ToInt(y) = IF y >= Half THEN y - 2 * Half ELSE y
      /\ ToInt(z) = IF z >= Half THEN z - 2 * Half ELSE z
  BY <1>1, ToIntSmall, ZenonT(40)
<1>3. (IF y >= Half THEN y - 2 * Half ELSE y) = (IF z >= Half THEN z - 2 * Half ELSE z)
  BY <1>2, Zenon
<1> QED BY <1>1, <1>3, HalfAssumption, SMTT(30)

\* What is left of the recorded values is what the values taken did not erase.
SwitchInv ==
  /\ switch.size \in Nat
  /\ switch.cases \subseteq 0 .. switch.size - 1
  /\ taken \subseteq 0 .. switch.size - 1
  /\ unCovered = InitialValues(switch.cases, switch.size) \ {ToInt(z) : z \in taken}

\* The values left are those of the cases not taken: int tells the values of the type apart.
LEMMA LeftAreUntaken ==
  ASSUME SwitchInv
  PROVE  SwitchCasesExact
<1> DEFINE cases == switch.cases
           n == switch.size
<1> SUFFICES ASSUME CasesRepresentable(cases, n)
             PROVE  /\ unCovered = {} <=> cases \subseteq taken
                    /\ \A z \in 0 .. n - 1 : ToInt(z) \in unCovered <=> z \in cases \ taken
  BY Zenon DEF SwitchCasesExact
<1>0. n \in Nat /\ cases \subseteq 0 .. n - 1 /\ taken \subseteq 0 .. n - 1
  BY Zenon DEF SwitchInv
<1>1. n <= 2 * Half
  BY Zenon DEF CasesRepresentable
<1>2. InitialValues(cases, n) = {ToInt(c) : c \in cases}
  BY ZenonT(40) DEF CasesRepresentable, InitialValues
<1>3. unCovered = {ToInt(c) : c \in cases} \ {ToInt(z) : z \in taken}
  BY <1>2, ZenonT(40) DEF SwitchInv
<1>4. \A y, z \in 0 .. n - 1 : ToInt(y) = ToInt(z) => y = z
  BY <1>0, <1>1, ToIntInjective, ZenonT(40)
<1> HIDE DEF cases, n
<1>5. ASSUME NEW z \in 0 .. n - 1 PROVE ToInt(z) \in unCovered <=> z \in cases \ taken
  BY <1>0, <1>3, <1>4, <1>5, ZenonT(40)
<1>6. unCovered = {} <=> cases \subseteq taken
  <2>1. ASSUME unCovered = {}, NEW c \in cases PROVE c \in taken
    BY <1>0, <1>5, <2>1, ZenonT(40)
  <2>2. ASSUME cases \subseteq taken, NEW v \in unCovered PROVE FALSE
    BY <1>3, <2>2, ZenonT(40)
  <2> QED BY <2>1, <2>2, ZenonT(40)
<1> QED BY <1>5, <1>6, ZenonT(40)

\* A switch seeks exactly the cases it has not taken, for every width of int and of the
\* switch, any cases and in whatever order values are taken (setModule, the handler of
\* switch, isNewStoreValue).
THEOREM SwitchCorrect == SwitchSpec => []SwitchCasesExact
<1>1. SwitchInit => SwitchInv
  <2> SUFFICES ASSUME SwitchInit PROVE SwitchInv
    OBVIOUS
  <2>1. PICK n \in CaseSizes : switch \in [size : {n}, cases : SUBSET (0 .. n - 1)]
    BY Zenon DEF SwitchInit, Switches
  <2>2. switch.size = n /\ switch.cases \subseteq 0 .. n - 1 /\ n \in Nat
    BY <2>1, SizesAssumption, ZenonT(40)
  <2>3. taken = {} /\ unCovered = InitialValues(switch.cases, switch.size)
    BY DEF SwitchInit
  <2> QED BY <2>2, <2>3, Zenon DEF SwitchInv
<1>2. SwitchInv /\ [SwitchNext]_switchVars => SwitchInv'
  <2> SUFFICES ASSUME SwitchInv, [SwitchNext]_switchVars PROVE SwitchInv'
    OBVIOUS
  <2>1. CASE SwitchNext
    <3>1. PICK z \in 0 .. switch.size - 1 : TakeCase(z)
      BY <2>1, ZenonT(40) DEF SwitchNext
    <3>2. switch' = switch /\ taken' = taken \cup {z} /\ unCovered' = unCovered \ {ToInt(z)}
      BY <3>1, ZenonT(40) DEF TakeCase, Erased
    <3>3. {ToInt(y) : y \in taken \cup {z}} = {ToInt(y) : y \in taken} \cup {ToInt(z)}
      BY Zenon
    <3>4. unCovered' = InitialValues(switch.cases, switch.size) \ {ToInt(y) : y \in taken'}
      BY <3>2, <3>3, Zenon DEF SwitchInv
    <3>5. taken' \subseteq 0 .. switch.size - 1
      BY <3>2, Zenon DEF SwitchInv
    <3> QED BY <3>2, <3>4, <3>5, Zenon DEF SwitchInv
  <2>2. CASE UNCHANGED switchVars
    BY <2>2, Zenon DEF SwitchInv, switchVars
  <2> QED BY <2>1, <2>2, ZenonT(40)
<1>3. SwitchInv => SwitchCasesExact
  BY LeftAreUntaken
<1> QED BY <1>1, <1>2, <1>3, PTL DEF SwitchSpec
=============================================================================
