---------------------------- MODULE MCAlgorithms ----------------------------
(***************************************************************************)
(* BranchPredicate, and the pure algorithms on bounded inputs.  A          *)
(* behaviour is one of BranchPredicate, or starts with the name of an      *)
(* algorithm and picks one input for it.                                   *)
(***************************************************************************)
EXTENDS BranchPredicate, Sequences

CONSTANTS ConstArrayOpt, Word, optimizeDivides, maxInstCount, BB_THRESHOLD, maxDistance, Wide, ByteBits

VARIABLE case

X == INSTANCE ExprCases
P == INSTANCE ProgramCases
Q == INSTANCE QueryCases
S == INSTANCE StateCases

\* 3-bit ints and operands of 2, 3 and 4 bits.
ThreeWidths == {4, 8, 16}

Seeds ==
  [alg : {"create", "construct"}, op : X!BinaryOps, on : {"bit", "byte", "word"}]
  \cup [alg : {"unary"}, on : {"byte"}]
  \cup [alg : {"read"}, on : {X!Sym, X!Tab}]
  \cup [alg : {"branch"}, cut : {2, 3}, first : P!Prologue]
  \cup [alg : {"query"}, first : Q!First]
  \cup [alg : {"distances", "merge", "range", "varargs", "pointer", "prepare", "checks", "aliases"}]

NoCase == [seed |-> [alg |-> "predicate"]]
SwitchCase == [seed |-> [alg |-> "switch"]]
OneInstruction == CHOOSE i \in Instruction : TRUE

\* A switch without cases, for the behaviours that are not about one.
NoSwitch == switch = [size |-> 1, cases |-> {}] /\ unCovered = {} /\ taken = {}

AlgInit ==
  /\ Init
  /\ \/ case = NoCase /\ NoSwitch
     \/ inst = OneInstruction /\ case \in [seed : Seeds] /\ NoSwitch
     \/ inst = OneInstruction /\ case = SwitchCase /\ SwitchInit

Seed(algs) == "seed" \in DOMAIN case /\ case.seed.alg \in algs

\* Two operands for an operator; for a solver's term, the right one is simple.
PickOperands ==
  /\ Seed({"create", "construct"})
  /\ \E l, r \in X!Operands(case.seed.on) :
       /\ X!Sensible(case.seed.op, r)
       /\ case.seed.alg = "construct" => r \in X!Leaves \cup X!Bits1 \cup X!Words
       /\ case' = [alg |-> case.seed.alg, op |-> case.seed.op, l |-> l, r |-> r]

\* Two operands and a condition for the other constructors.
PickUnary ==
  /\ Seed({"unary"})
  /\ \E e \in X!Bytes, f \in X!Leaves, b \in X!Bits1 :
       case' = [alg |-> "unary", e |-> e, f |-> f, b |-> b]

\* A read of an array after two writes.
PickRead ==
  /\ Seed({"read"})
  /\ \E ups \in X!Updates, i \in X!Indexes :
       case' = [alg |-> "read", root |-> case.seed.on, ups |-> ups, i |-> i]

\* A program.
PickProgram ==
  /\ Seed({"branch"})
  /\ \E s \in P!Bodies({case.seed.first}) \cup P!Sums({case.seed.first}), caller \in P!Callers :
       case' = [alg |-> "branch", prog |-> <<P!Branching(s, case.seed.cut), caller>>]

\* A constraint, and a second one it does not exclude.
PickQuery ==
  /\ Seed({"query"})
  /\ \E e \in Q!Second :
       /\ Q!Models(<<case.seed.first, e>>) # {}
       /\ case' = [alg |-> "query", cs |-> <<case.seed.first, e>>]

\* An input of one of the other algorithms.
InputsOf(alg) ==
  CASE alg = "distances" -> S!Shapes
    [] alg = "merge" -> S!FirstStates
    [] alg = "range" -> S!Ranges
    [] alg = "varargs" -> S!Calling
    [] alg = "pointer" -> S!Pointers
    [] alg = "prepare" -> S!Loops
    [] alg = "checks" -> S!Checked
    [] alg = "aliases" -> S!Aliasing
    [] OTHER -> {}
PickInput == "seed" \in DOMAIN case /\ \E x \in InputsOf(case.seed.alg) : case' = [alg |-> case.seed.alg, x |-> x]

AlgNext ==
  \/ case = NoCase /\ Next /\ UNCHANGED <<case, switchVars>>
  \/ case = SwitchCase /\ SwitchNext /\ UNCHANGED <<case, vars>>
  \/ /\ PickQuery \/ PickOperands \/ PickUnary \/ PickRead \/ PickProgram \/ PickInput
     /\ UNCHANGED <<vars, switchVars>>

AlgSpec == AlgInit /\ [][AlgNext]_<<vars, switchVars, case>>

\* BranchPredicate alone.
PredicateSpec ==
  Init /\ NoSwitch /\ case = NoCase /\ [][Next /\ UNCHANGED <<case, switchVars>>]_<<vars, switchVars, case>>

Picked(alg) == "seed" \notin DOMAIN case /\ case.alg = alg
-----------------------------------------------------------------------------
\* What XExpr::create builds, with all its rewriting and folding, has the width and, for every
\* content of the symbolic array, the value of the term it was asked for.
CreatePreservesValue ==
  /\ Picked("create") =>
       X!SameValue(X!Created(case.op, case.l, case.r), X!Alloc(case.op, case.l, case.r), case.op, case.r)
  /\ Picked("unary") => \A p \in X!Pairs(case.e, case.f, case.b) : X!SameValue(p[1], p[2], "", case.e)
  /\ Picked("read") =>
       X!SameValue(X!CreateRead(case.root, case.ups, case.i, 2),
                   X!AllocRead(case.root, case.ups, case.i, 2), "", case.i)

\* The folding and the simplifying ExprBuilder agree with the default one, which builds the
\* term as it is: on sums that carry constants, comparisons, negations and reads.
BuildersPreserveValue ==
  /\ Picked("create") => \A l \in X!Levels :
       X!SameValue(X!Built(l, case.op, case.l, case.r), X!Alloc(case.op, case.l, case.r), case.op, case.r)
  /\ Picked("read") => \A l \in X!Levels :
       X!SameValue(X!BuiltRead(l, case.root, case.ups, case.i, 2),
                   X!AllocRead(case.root, case.ups, case.i, 2), "", case.i)

\* The terms Z3Builder, STPBuilder and MetaSMTBuilder construct are well sorted and have the
\* expression's value: through the expansion of shifts by a variable amount, division and
\* multiplication by a constant without dividing or multiplying, and chains of array updates.
ConstructPreservesValue ==
  /\ Picked("construct") =>
       X!Constructed(X!Created(case.op, case.l, case.r), case.op, case.l, case.r)
  /\ Picked("read") => X!Constructed(X!CreateRead(case.root, case.ups, case.i, 2), "", case.i, case.i)

\* The constraint set that ConstraintManager::addConstraint keeps, simplified and rewritten by
\* every equality, has the models of the constraints it was given, and a constraint a model
\* satisfies never becomes false in it.
ConstraintsKeepModels ==
  Picked("query") => Q!PathKeeps(case.cs)

\* FastCexSolver calls a query valid only if every model of the constraints satisfies it, and
\* invalid only if some model does not; the ranges it works with contain the values.
FastAnswersSound ==
  /\ Picked("query") => Q!FastAnswer(<<case.cs[1]>>, case.cs[2])
  /\ Seed({"query"}) => Q!InRange(case.seed.first)

\* Assignment::evaluate leaves of an expression, where the assignment has no value for a byte,
\* what agrees with the expression for every value of that byte.
EvaluationAgrees == Seed({"query"}) => Q!Agrees(case.seed.first)

\* The values ImpliedValue::getImpliedValues finds for the reads of an expression are the only
\* ones these reads have when the expression has its value.
ImpliedValuesHold == Seed({"query"}) => Q!Implied(case.seed.first)

\* A dependency that BranchDependencyAnalysis reports is a variable or an argument the branch
\* condition is computed from; a local variable that only keeps an argument is not one.
SourcesInSlice ==
  Picked("branch") =>
    LET f == case.prog[1]  i == P!TheBranch(case.prog)
    IN P!AllInSlice(f, i, P!BranchDeps(f, i))

\* A store that InterproceduralDependencyAnalysis attaches to a branch, in the branch's
\* function or in a caller, writes a variable of the slice of its condition across calls.
StoresWriteSources ==
  Picked("branch") =>
    P!AllWriteSources(case.prog, P!VarDeps(case.prog, 1, P!TheBranch(case.prog)))

\* Executor::setModule reads from a branch's metadata the stores setInstMetaData wrote there:
\* never another one, and all of them when the variables' numbers leave no gap.
MetadataRoundTrip ==
  Picked("branch") =>
    P!RoundTrip(P!VarDeps(case.prog, 1, P!TheBranch(case.prog)))

\* The distance to a return which StatsTracker computes is the length of the shortest way
\* there, through the functions called; one to uncovered code, of an instruction or of a
\* state with its stack, is the length of a way that exists.
DistancesExact == Picked("distances") => S!DistancesRight(case.x)

\* A state that ExecutionState::merge keeps stands for the inputs of both states, and each
\* input finds in memory and in the locals what it had in its own state.
MergeKeepsStates == Picked("merge") => S!MergesBoth(case.x)

\* Solver::getRange finds the smallest and the largest value of an expression.
RangeIsExact == Picked("range") => S!RangeExact(case.x)

\* The variable arguments executeCall lays out in memory are where the va_arg code of the
\* callee looks for them, aligned ones and ones passed by value too.
VarargsReadBack == Picked("varargs") => S!ArgumentsRead(case.x)

\* A call through a symbolic function pointer calls, for each input, the function the pointer
\* has for it, if only the first value the solver gives may be something else.
PointerCallsExact == Picked("pointer") => S!PointerCalls(case.x)

\* A function that went through LowerSwitch and PhiCleaner, with the registers and constants
\* KFunction numbers, is interpreted one phi after the other as LLVM defines it: the same
\* blocks in the same order with the same values.
PreparedRunsAlike == Picked("prepare") => S!Alike(case.x)

\* The checks DivCheckPass and OvershiftCheckPass put in, once even if they run twice, report
\* every division by zero and shift by too much before it happens, and nothing else.
ChecksExact == Picked("checks") => S!Guarded(case.x)

\* After FunctionAliasPass, a call reaches the function the last option for its name gives,
\* through earlier aliases; getTargetFunction gives up only where the options go round.
AliasesFollowOptions == Picked("aliases") => S!Redirected(case.x)
-----------------------------------------------------------------------------
\* An expression keeps its value on its way to the solver: as Expr creates it, as the
\* ExprBuilders do, and as the term the solver is given.
ExpressionsKeepValue == CreatePreservesValue /\ BuildersPreserveValue /\ ConstructPreservesValue

\* What is concluded about constraints without asking the solver agrees with their models:
\* the simplified set, the fast answers, the evaluation under an assignment, the implied
\* values, and the ranges found with several queries.
QueriesExact ==
  ConstraintsKeepModels /\ FastAnswersSound /\ EvaluationAgrees /\ ImpliedValuesHold /\ RangeIsExact

\* What the IDA pass attaches to a branch, and the executor reads back, are variables its
\* condition depends on and stores that write them.
DependenciesSound == SourcesInSlice /\ StoresWriteSources /\ MetadataRoundTrip

\* ExecutionState::merge and the calls of executeCall act, for each input of a state, as the
\* program would on that input.
StateOperationsExact == MergeKeepsStates /\ VarargsReadBack /\ PointerCallsExact

\* The passes that prepare the module leave the program's behaviour alone, except for the
\* checks and the aliases they are to put in.
PassesKeepPrograms == PreparedRunsAlike /\ ChecksExact /\ AliasesFollowOptions
=============================================================================
