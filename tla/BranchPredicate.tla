-------------------------- MODULE BranchPredicate --------------------------
(***************************************************************************)
(* What the br handler records of a concrete "icmp" the first time it sees *)
(* it, and what isNewStoreValue later compares a stored value with: the    *)
(* part of CGS that CGSExecutor abstracts to "the outcome not yet seen"    *)
(* (Executor.cpp 2505-2761, Searcher.cpp 995-1044).                        *)
(*                                                                         *)
(* An operand of the program is an unsigned number below its size.  The    *)
(* handlers convert it to a C++ int, which has 2 * Half values.            *)
(***************************************************************************)
EXTENDS Integers

CONSTANTS Half,     \* the number of non-negative ints
          Sizes,    \* the numbers of values of the operands' types
          CaseSizes,\* the numbers of values of the switches' types
          MaxReach  \* --target-branch-reach-max

ASSUME HalfAssumption == Half \in Nat \ {0}
ASSUME SizesAssumption == Sizes \cup CaseSizes \subseteq Nat \ {0}
ASSUME ReachAssumption == MaxReach \in Nat \ {0}

Equality == {"EQ", "NE"}
Unsigned == {"UGT", "ULT", "UGE", "ULE"}
Signed   == {"SGT", "SLT", "SGE", "SLE"}
Predicate == Equality \cup Unsigned \cup Signed

\* CmpInst::getUnsignedPredicate
getUnsignedPredicate ==
  [EQ |-> "EQ", NE |-> "NE", UGT |-> "UGT", ULT |-> "ULT", UGE |-> "UGE", ULE |-> "ULE",
   SGT |-> "UGT", SLT |-> "ULT", SGE |-> "UGE", SLE |-> "ULE"]

\* The handlers compare ints: signed and unsigned predicates alike.
Compare(p, a, b) ==
  \/ p = "EQ" /\ a = b
  \/ p = "NE" /\ a # b
  \/ p \in {"UGT", "SGT"} /\ a > b
  \/ p \in {"ULT", "SLT"} /\ a < b
  \/ p \in {"UGE", "SGE"} /\ a >= b
  \/ p \in {"ULE", "SLE"} /\ a <= b

\* Slip: the opposite of "greater" is "less".
OppositeStrict ==
  [EQ |-> "NE", NE |-> "EQ", UGT |-> "ULT", ULE |-> "UGT", ULT |-> "UGE", UGE |-> "ULT",
   SGT |-> "SLE", SLE |-> "SGT", SLT |-> "SGE", SGE |-> "SLT"]
\* The predicate that holds when p does not, and p with its operands exchanged.
Opposite ==
  [EQ |-> "NE", NE |-> "EQ", UGT |-> "ULE", ULE |-> "UGT", ULT |-> "UGE", UGE |-> "ULT",
   SGT |-> "SLE", SLE |-> "SGT", SLT |-> "SGE", SGE |-> "SLT"]
Reversed ==
  [EQ |-> "EQ", NE |-> "NE", UGT |-> "ULT", ULT |-> "UGT", UGE |-> "ULE", ULE |-> "UGE",
   SGT |-> "SLT", SLT |-> "SGT", SGE |-> "SLE", SLE |-> "SGE"]

\* (signed) of a zero-extended operand.
ToInt(z) == LET r == z % (2 * Half) IN IF r >= Half THEN r - 2 * Half ELSE r

VARIABLES
  inst,           \* the instruction: predicate, operand size, its constant and where it is
  pred,           \* BDDep.pred
  unCoveredPred,  \* BDDep.unCoveredPred
  listed,         \* the branch is in targetBranches or partlyCoveredBranches
  seen,           \* the outcomes of the branch so far
  admitted        \* how often the branch was listed

vars == <<inst, pred, unCoveredPred, listed, seen, admitted>>

Instruction ==
  UNION {[pred : Predicate, size : {n}, constant : 0 .. n - 1, constFirst : BOOLEAN] : n \in Sizes}

\* What the program does: the icmp on operands of its own width.
AsSigned(z, n) == IF 2 * z >= n THEN z - n ELSE z
Holds(x) ==
  LET a == IF inst.constFirst THEN inst.constant ELSE x
      b == IF inst.constFirst THEN x ELSE inst.constant
  IN  IF inst.pred \in Signed
      THEN Compare(inst.pred, AsSigned(a, inst.size), AsSigned(b, inst.size))
      ELSE Compare(inst.pred, a, b)

\* setModule records the predicate of the instruction.
Init ==
  /\ inst \in Instruction
  /\ pred = getUnsignedPredicate[inst.pred]
  /\ unCoveredPred = "NONE" /\ listed = FALSE /\ seen = {} /\ admitted = 0

\* The uncovered predicate, and BDDep.pred, after a visit with value x.
RecordPredicate(x) ==
  LET p == IF inst.constFirst THEN Reversed[pred] ELSE pred
  IN  /\ pred' = p
      /\ unCoveredPred' = IF Compare(p, ToInt(x), ToInt(inst.constant)) THEN Opposite[p] ELSE p

\* The branch is taken with value x; it is listed unless it is, or is covered.
Visit(x) ==
  /\ seen' = seen \cup {Holds(x)}
  /\ IF seen' # BOOLEAN /\ ~listed /\ admitted < MaxReach
     THEN RecordPredicate(x) /\ listed' = TRUE /\ admitted' = admitted + 1
     ELSE UNCHANGED <<pred, unCoveredPred, listed, admitted>>
  /\ UNCHANGED inst

\* Re-targeting empties the list of targets.
Retarget ==
  /\ listed /\ listed' = FALSE
  /\ UNCHANGED <<inst, pred, unCoveredPred, seen, admitted>>

Next == Retarget \/ \E x \in 0 .. inst.size - 1 : Visit(x)
Spec == Init /\ [][Next]_vars

\* isNewStoreValue, for a value neither cache knows.
find_new(v) == Compare(unCoveredPred, ToInt(v), ToInt(inst.constant))
-----------------------------------------------------------------------------
(* A switch of a type with n values.  setModule records its cases          *)
(* sign-extended; the handler of the instruction, which erases the one it  *)
(* takes, and isNewStoreValue look them up zero-extended.                  *)
VARIABLES
  switch,     \* the instruction: the size of its type and its cases
  unCovered,  \* BDDep.unCoveredValues
  taken       \* history: the values it was executed with

switchVars == <<switch, unCovered, taken>>

Switches == UNION {[size : {n}, cases : SUBSET (0 .. n - 1)] : n \in CaseSizes}

InitialValues(cases, n) == {ToInt(AsSigned(c, n)) : c \in cases}

SwitchInit ==
  /\ switch \in Switches
  /\ unCovered = InitialValues(switch.cases, switch.size)
  /\ taken = {}

\* Slip: the value taken is looked up as it is.
ErasedUnsigned(values, z) == values \ {z}

\* The case of a concrete value is covered.
Erased(values, z) == values \ {ToInt(z)}

TakeCase(z) ==
  /\ unCovered' = Erased(unCovered, z)
  /\ taken' = taken \cup {z}
  /\ UNCHANGED switch

SwitchNext == \E z \in 0 .. switch.size - 1 : TakeCase(z)
SwitchSpec == SwitchInit /\ [][SwitchNext]_switchVars

\* No two values of the type are one int, and both extensions of a case are.
CasesRepresentable(cases, n) ==
  n <= 2 * Half /\ \A c \in cases : ToInt(AsSigned(c, n)) = ToInt(c)

(***************************************************************************)
(* While a switch is a target, isNewStoreValue answers yes for exactly the *)
(* case values it has not taken, and the switch is fully covered once it   *)
(* has taken all: if no case of a type narrower than int is negative.      *)
(***************************************************************************)
SwitchCasesExact ==
  CasesRepresentable(switch.cases, switch.size) =>
    /\ unCovered = {} <=> switch.cases \subseteq taken
    /\ \A z \in 0 .. switch.size - 1 : ToInt(z) \in unCovered <=> z \in switch.cases \ taken
-----------------------------------------------------------------------------
(***************************************************************************)
(* Type invariant: BDDep.pred and unCoveredPred are predicates the switch  *)
(* statements know, and a branch is admitted at most MaxReach times.       *)
(***************************************************************************)
TypeOK ==
  /\ inst \in Instruction /\ pred \in Equality \cup Unsigned
  /\ unCoveredPred \in Predicate \cup {"NONE"}
  /\ listed \in BOOLEAN /\ seen \subseteq BOOLEAN /\ admitted \in 0 .. MaxReach

Exact ==
  listed /\ seen # BOOLEAN =>
     \A v \in 0 .. inst.size - 1 : find_new(v) <=> Holds(v) \notin seen

\* The comparison of ints agrees with the program's.
Representable ==
  \/ inst.size <= Half /\ inst.pred \notin Signed
  \/ inst.size = 2 * Half /\ inst.pred \notin Unsigned
  \/ inst.size <= 2 * Half /\ inst.pred \in Equality

(***************************************************************************)
(* While a partly covered br is a target, isNewStoreValue answers yes for  *)
(* exactly the values that take the outcome not yet seen, although the     *)
(* predicate went through getUnsignedPredicate, was reversed when the      *)
(* constant comes first and is compared as int: if the int comparison      *)
(* agrees with the program's, and a reversed br was recorded only once.    *)
(***************************************************************************)
PredicateExact == Representable /\ (inst.constFirst => admitted <= 1) => Exact

(***************************************************************************)
(* Executor.cpp:2648, of a br whose constant comes first: "reverse         *)
(* predicate: if icmp 4 > a, change to a < 4", however often the branch    *)
(* becomes a target again.                                                 *)
(***************************************************************************)
ReversedExact == Representable => Exact
=============================================================================
