----------------------------- MODULE SolverChain -----------------------------
(***************************************************************************)
(* The chain of solvers between the executor and the core solver: it       *)
(* drops independent constraints, caches validity and counterexamples, and *)
(* asks an incomplete solver first.                                        *)
(*                                                                         *)
(* A formula is a number, its negation the negative number, False is 0.    *)
(* The core solver may give any solution and may fail, so a solver maps a  *)
(* query to the set of its outcomes [st, ok, r]: the caches afterwards,    *)
(* whether it succeeded, and the result.                                   *)
(***************************************************************************)
EXTENDS Integers, Sequences, SequencesExt

(***************************************************************************)
(* klee/ADT/MapOfSets.h: a map from sets to values, kept as a tree (a      *)
(* UBTree).  A set is the ascending sequence of its elements; a node of    *)
(* the tree is the path that leads to it.                                  *)
(***************************************************************************)

Ascending(S) == SetToSortSeq(S, <)

Inner == [end |-> FALSE]
EmptyMap == [n \in {<< >>} |-> Inner]

insert(t, set, value) ==
  LET prefixes == {SubSeq(set, 1, k) : k \in 0 .. Len(set)}
  IN [n \in DOMAIN t \cup prefixes |->
        IF n = set THEN [end |-> TRUE, value |-> value]
        ELSE IF n \in DOMAIN t THEN t[n] ELSE Inner]

\* A result is a set with the value found, or empty.
lookup(t, set) == IF set \in DOMAIN t /\ t[set].end THEN {t[set].value} ELSE {}

\* The nodes whose value a search accepts.
Accepting(t, p(_)) == {n \in DOMAIN t : t[n].end /\ p(t[n].value)}

Children(t, n) == Ascending({m[Len(m)] : m \in {m \in DOMAIN t : m # << >> /\ Front(m) = n}})

\* Follows the set's remaining elements that label a child, the smaller ones first.
RECURSIVE findSubset(_, _, _, _)
findSubset(t, n, rest, accepting) ==
  IF n \in accepting THEN {t[n].value}
  ELSE IF rest = << >> THEN {}
  ELSE LET child == Append(n, Head(rest))
           under == IF child \in DOMAIN t THEN findSubset(t, child, Tail(rest), accepting) ELSE {}
       IN IF under # {} THEN under ELSE findSubset(t, n, Tail(rest), accepting)

\* Every child with the same remaining elements, then the child of the next element.
RECURSIVE findSuperset(_, _, _, _)
findSuperset(t, n, rest, accepting) ==
  LET below == FoldLeft(LAMBDA found, k :
                 IF found # {} THEN found ELSE findSuperset(t, Append(n, k), rest, accepting),
                 {}, Children(t, n))
  IN IF rest = << >>
       THEN IF n \in accepting THEN {t[n].value} ELSE below
     ELSE IF below # {} \/ Append(n, Head(rest)) \notin DOMAIN t THEN below
     ELSE findSuperset(t, Append(n, Head(rest)), Tail(rest), accepting)

\* The sets with a value, as the iterator visits them.
Entries(t) == {n \in DOMAIN t : t[n].end}
-----------------------------------------------------------------------------
CONSTANTS NULL,
          Array, Size, \* the arrays and how many bytes they have
          Byte,
          Formula,     \* the formulas that are not negations
          Reads,       \* the reads of a formula: pairs of array and index, or Symbolic
          Symbolic,
          Sat,         \* the contents a formula holds for
          Chains,      \* solver chains, outermost first
          Paths,       \* constraints of the states that ask
          Asked,       \* formulas asked for
          MaxQueries   \* bound: queries of a behaviour

Index == 0 .. Max({Size[x] : x \in Array}) - 1
Content == {c \in [Array -> [Index -> Byte]] : \A x \in Array, i \in Index : i >= Size[x] => c[x][i] = 0}
Query == Formula \cup {-f : f \in Formula}
Abs(f) == IF f < 0 THEN -f ELSE f
Holds(f, c) == IF f > 0 THEN c \in Sat[f] ELSE c \notin Sat[-f]
Models(fs) == {c \in Content : \A f \in fs : Holds(f, c)}

VARIABLES
  chain,    \* the solvers of this run of the program
  caches,   \* [trie, table]: CexCachingSolver, [branch]: CachingSolver
  asked,    \* queries so far
  answer    \* the last answer, with its query

chainVars == <<chain, caches, asked, answer>>

NoCaches == [trie |-> EmptyMap, table |-> {}, branch |-> << >>]
-----------------------------------------------------------------------------
(* Assignments                                                              *)
Zero == [i \in Index |-> 0]
Filled(a) == [x \in Array |-> IF x \in DOMAIN a THEN a[x] ELSE Zero]
evaluate(a, f) == Holds(f, Filled(a))
satisfies(a, fs) == \A f \in fs : evaluate(a, f)
Objects(fs) == {x \in Array : \E f \in fs : \E r \in Reads[Abs(f)] : r[1] = x}
ValuesOf(a, objects) == [x \in objects |-> Filled(a)[x]]
-----------------------------------------------------------------------------
(* IndependentElementSet                                                    *)
Whole(f) == {x \in Array : <<x, Symbolic>> \in Reads[Abs(f)]}
Elements(f) == [elements |-> {r \in Reads[Abs(f)] : r[1] \notin Whole(f)},
                whole |-> Whole(f), exprs |-> <<f>>]

intersects(a, b) ==
  \/ a.whole \cap b.whole # {}
  \/ \E r \in b.elements : r[1] \in a.whole
  \/ \E r \in a.elements : r[1] \in b.whole
  \/ a.elements \cap b.elements # {}

add(a, b) ==
  LET whole == a.whole \cup b.whole
  IN [elements |-> {r \in a.elements \cup b.elements : r[1] \notin whole}, whole |-> whole,
      exprs |-> a.exprs \o b.exprs]
Grows(a, b) == add(a, b).whole # a.whole \/ add(a, b).elements # a.elements

\* One pass of getAllIndependentConstraintsSets: the first factor takes in, one after the
\* other, those that intersect it.
Absorb(current, others) ==
  FoldLeft(LAMBDA acc, c : IF intersects(acc.cur, c)
                             THEN [acc EXCEPT !.cur = add(acc.cur, c), !.grew = @ \/ Grows(acc.cur, c)]
                             ELSE [acc EXCEPT !.keep = Append(@, c)],
           [cur |-> current, keep |-> << >>, grew |-> FALSE], others)
RECURSIVE FactorPass(_)
FactorPass(factors) ==
  IF factors = << >> THEN [done |-> << >>, grew |-> FALSE]
  ELSE LET first == Absorb(Head(factors), Tail(factors))
           rest  == FactorPass(first.keep)
       IN [done |-> <<first.cur>> \o rest.done, grew |-> first.grew \/ rest.grew]
RECURSIVE Factors(_)
Factors(factors) ==
  LET pass == FactorPass(factors) IN IF pass.grew THEN Factors(pass.done) ELSE pass.done
getAllIndependentConstraintsSets(cs, q) ==
  Factors([n \in DOMAIN (IF q = 0 THEN cs ELSE <<-q>> \o cs) |->
             Elements((IF q = 0 THEN cs ELSE <<-q>> \o cs)[n])])

\* getIndependentConstraints: the constraints connected with the query, in the order found.
RECURSIVE Required(_, _, _)
Required(worklist, closure, result) ==
  LET pass == FoldLeft(LAMBDA acc, c :
                IF intersects(Elements(c), acc.closure)
                  THEN [acc EXCEPT !.closure = add(acc.closure, Elements(c)), !.result = Append(@, c),
                                   !.grew = @ \/ Grows(acc.closure, Elements(c))]
                  ELSE [acc EXCEPT !.keep = Append(@, c)],
                [closure |-> closure, result |-> result, keep |-> << >>, grew |-> FALSE], worklist)
  IN IF pass.grew THEN Required(pass.keep, pass.closure, pass.result) ELSE pass.result
getIndependentConstraints(cs, q) == Required(cs, Elements(q), << >>)
-----------------------------------------------------------------------------
(* The core solver, as Z3SolverImpl and STPSolverImpl give its answers      *)
Outcome(st, ok, r) == [st |-> st, ok |-> ok, r |-> r]

\* A solution of the constraints and the negated query, or none; or a failure.  The solution
\* is one of two (a bound).
Core(st, cs, q, objects) ==
  LET sat == Models(Range(cs) \cup (IF q = 0 THEN {} ELSE {-q}))
      one == CHOOSE c \in sat : TRUE
      two == IF sat = {one} THEN one ELSE CHOOSE c \in sat : c # one
  IN {Outcome(st, FALSE, NULL)}
     \cup IF sat = {} THEN {Outcome(st, TRUE, NULL)}
          ELSE {Outcome(st, TRUE, [x \in objects |-> c[x]]) : c \in {one, two}}
-----------------------------------------------------------------------------
(* CexCachingSolver                                                         *)
CexKey(cs, q) == Range(cs) \cup IF q = 0 THEN {} ELSE {-q}

\* An unsatisfiable subset; without --cex-cache-try-all, also a solved subset whose solution
\* satisfies the query.
SubsetFound(st, key) ==
  findSubset(st.trie, << >>, key, Accepting(st.trie, LAMBDA a : a = NULL \/ satisfies(a, Range(key))))
UnsatSubset(st, key) == findSubset(st.trie, << >>, key, Accepting(st.trie, LAMBDA a : a = NULL))

\* searchForAssignment, with --cex-cache-superset; the table is searched in an order left open.
searchForAssignment(st, key, tryAll) ==
  LET above  == findSuperset(st.trie, << >>, key, Accepting(st.trie, LAMBDA a : a # NULL))
      stored == {a \in st.table : satisfies(a, Range(key))}
  IN IF lookup(st.trie, key) # {} THEN lookup(st.trie, key)
     ELSE IF above # {} THEN above
     ELSE IF ~tryAll THEN SubsetFound(st, key)
     ELSE IF UnsatSubset(st, key) # {} THEN UnsatSubset(st, key) ELSE stored

\* Mutant: a failure of the core solver is cached as an unsatisfiable query.
MemoizedFailure(o, key) ==
  Outcome([o.st EXCEPT !.trie = insert(@, key, o.r),
                       !.table = @ \cup IF o.r = NULL THEN {} ELSE {o.r}], o.ok, o.r)

Memoized(o, key) ==
  IF ~o.ok THEN o
  ELSE Outcome([o.st EXCEPT !.trie = insert(@, key, o.r),
                            !.table = @ \cup IF o.r = NULL THEN {} ELSE {o.r}], TRUE, o.r)

RECURSIVE InitialValues(_, _, _, _, _)
getAssignment(st, ch, cs, q) ==
  LET key   == Ascending(CexKey(cs, q))
      found == searchForAssignment(st, key, Head(ch) = "cex-try-all")
  IN IF found # {} THEN {Outcome(st, TRUE, a) : a \in found}
     ELSE {Memoized(o, key) : o \in InitialValues(st, Tail(ch), cs, q, Objects(Range(key)))}

\* What next gives for each successful outcome; a failure is passed on.
Then(outcomes, next(_)) == UNION {IF o.ok THEN next(o) ELSE {o} : o \in outcomes}
Mapped(outcomes, f(_)) == Then(outcomes, LAMBDA o : {Outcome(o.st, TRUE, f(o.r))})

CexTruth(st, ch, cs, q) == Mapped(getAssignment(st, ch, cs, q), LAMBDA a : a = NULL)
CexValidity(st, ch, cs, q) ==
  Then(getAssignment(st, ch, cs, 0), LAMBDA o :
    IF o.r = NULL THEN {Outcome(o.st, TRUE, "abort")}
    ELSE IF evaluate(o.r, q)
      THEN Mapped(getAssignment(o.st, ch, cs, q), LAMBDA a : IF a = NULL THEN "True" ELSE "Unknown")
      ELSE Mapped(getAssignment(o.st, ch, cs, -q), LAMBDA a : IF a = NULL THEN "False" ELSE "Unknown"))
CexValue(st, ch, cs, q) ==
  Mapped(getAssignment(st, ch, cs, 0), LAMBDA a : IF a = NULL THEN "abort" ELSE evaluate(a, q))
CexInitialValues(st, ch, cs, q, objects) ==
  Mapped(getAssignment(st, ch, cs, q), LAMBDA a : IF a = NULL THEN NULL ELSE ValuesOf(a, objects))
-----------------------------------------------------------------------------
(* IndependentSolver::computeInitialValues: the factors one after the other. *)
(* An array of several factors keeps the first one's values, but for the    *)
(* elements the others read.                                                *)
Merged(ret, values, f) ==
  [x \in DOMAIN ret \cup DOMAIN values |->
     IF x \notin DOMAIN ret THEN values[x]
     ELSE IF x \notin DOMAIN values THEN ret[x]
     ELSE [i \in Index |-> IF <<x, i>> \in f.elements THEN values[x][i] ELSE ret[x][i]]]
FactorArrays(f) == {r[1] : r \in f.elements} \cup f.whole
RECURSIVE FactorValues(_, _, _, _)
FactorValues(st, ch, factors, ret) ==
  IF factors = << >> THEN {Outcome(st, TRUE, ret)}
  ELSE IF FactorArrays(Head(factors)) = {} THEN FactorValues(st, ch, Tail(factors), ret)
  ELSE Then(InitialValues(st, ch, Head(factors).exprs, 0, FactorArrays(Head(factors))), LAMBDA o :
         IF o.r = NULL THEN {o}
         ELSE FactorValues(o.st, ch, Tail(factors), Merged(ret, o.r, Head(factors))))
IndependentInitialValues(st, ch, cs, q, objects) ==
  Mapped(FactorValues(st, Tail(ch), getAllIndependentConstraintsSets(cs, q), << >>),
         LAMBDA ret : IF ret = NULL THEN NULL ELSE ValuesOf(ret, objects))

\* The first stage of a staged solver may answer itself, as the second could.
Staged(st, first, second) == {Outcome(st, TRUE, o.r) : o \in {o \in first : o.ok}} \cup second

\* computeInitialValues of the chain.  CachingSolver passes the query on.
InitialValues(st, ch, cs, q, objects) ==
  CASE Head(ch) = "core" -> Core(st, cs, q, objects)
    [] Head(ch) = "staged" -> Staged(st, Core(st, cs, q, objects), InitialValues(st, Tail(ch), cs, q, objects))
    [] Head(ch) = "caching" -> InitialValues(st, Tail(ch), cs, q, objects)
    [] Head(ch) \in {"cex", "cex-try-all"} -> CexInitialValues(st, ch, cs, q, objects)
    [] Head(ch) = "independent" -> IndependentInitialValues(st, ch, cs, q, objects)
-----------------------------------------------------------------------------
(* Truth, validity and value of the chain                                   *)
RECURSIVE Truth(_, _, _, _)
RECURSIVE Validity(_, _, _, _)
Verdict(t, yes, no) == IF t THEN yes ELSE no

\* IncompleteSolver: what the first stage may know of a query, None included.
PartialTruth(cs, q) ==
  {"None", IF Models(Range(cs) \cup {-q}) = {} THEN "MustBeTrue" ELSE "MayBeFalse"}
PartialValidity(cs, q) ==
  LET combine(t, f) == IF t = "MustBeTrue" THEN t
                       ELSE IF f = "MustBeTrue" THEN "MustBeFalse"
                       ELSE IF t # "None" /\ f # "None" THEN "TrueOrFalse"
                       ELSE IF t # "None" THEN "MayBeFalse"
                       ELSE IF f # "None" THEN "MayBeTrue" ELSE "None"
  IN {combine(t, f) : t \in PartialTruth(cs, q), f \in PartialTruth(cs, -q)}

\* StagedSolverImpl
StagedTruth(st, ch, cs, q) ==
  UNION {IF p # "None" THEN {Outcome(st, TRUE, p = "MustBeTrue")} ELSE Truth(st, Tail(ch), cs, q)
           : p \in PartialTruth(cs, q)}
StagedCase(st, ch, cs, q, p) ==
  CASE p = "MustBeTrue" -> {Outcome(st, TRUE, "True")}
    [] p = "MustBeFalse" -> {Outcome(st, TRUE, "False")}
    [] p = "TrueOrFalse" -> {Outcome(st, TRUE, "Unknown")}
    [] p = "MayBeTrue" -> Mapped(Truth(st, ch, cs, q), LAMBDA t : Verdict(t, "True", "Unknown"))
    [] p = "MayBeFalse" -> Mapped(Truth(st, ch, cs, -q), LAMBDA t : Verdict(t, "False", "Unknown"))
    [] p = "None" -> Validity(st, ch, cs, q)
StagedValidity(st, ch, cs, q) ==
  UNION {StagedCase(st, Tail(ch), cs, q, p) : p \in PartialValidity(cs, q)}
-----------------------------------------------------------------------------
(* CachingSolver: the cache has one entry for a query and its negation.      *)
negatePartialValidity(p) ==
  CASE p = "MustBeTrue" -> "MustBeFalse" [] p = "MustBeFalse" -> "MustBeTrue"
    [] p = "MayBeTrue" -> "MayBeFalse" [] p = "MayBeFalse" -> "MayBeTrue"
    [] p = "TrueOrFalse" -> p
Canonical(q) == IF q < -q THEN q ELSE -q
Oriented(q, p) == IF q = Canonical(q) THEN p ELSE negatePartialValidity(p)
cacheLookup(st, cs, q) ==
  LET e == <<cs, Canonical(q)>> IN IF e \in DOMAIN st.branch THEN {Oriented(q, st.branch[e])} ELSE {}

\* unordered_map::insert leaves an entry that is there.
cacheInsert(st, cs, q, p) ==
  LET e == <<cs, Canonical(q)>>
  IN IF e \in DOMAIN st.branch THEN st
     ELSE [st EXCEPT !.branch = [x \in DOMAIN @ \cup {e} |-> IF x = e THEN Oriented(q, p) ELSE @[x]]]

\* An entry that leaves the validity open is settled by one more truth query.
Settled(st, ch, cs, q, mayBeTrue) ==
  Then(Truth(st, ch, cs, IF mayBeTrue THEN q ELSE -q), LAMBDA o :
    {Outcome(cacheInsert(o.st, cs, q, IF ~o.r THEN "TrueOrFalse"
                                      ELSE IF mayBeTrue THEN "MustBeTrue" ELSE "MustBeFalse"), TRUE,
             IF ~o.r THEN "Unknown" ELSE IF mayBeTrue THEN "True" ELSE "False")})
Remembered(r) == CASE r = "True" -> "MustBeTrue" [] r = "False" -> "MustBeFalse"
                   [] OTHER -> "TrueOrFalse"
CachingValidity(st, ch, cs, q) ==
  LET hit == cacheLookup(st, cs, q)
      missed == Then(Validity(st, Tail(ch), cs, q), LAMBDA o :
                  {Outcome(cacheInsert(o.st, cs, q, Remembered(o.r)), TRUE, o.r)})
      found(p) == CASE p = "MustBeTrue" -> {Outcome(st, TRUE, "True")}
                    [] p = "MustBeFalse" -> {Outcome(st, TRUE, "False")}
                    [] p = "TrueOrFalse" -> {Outcome(st, TRUE, "Unknown")}
                    [] OTHER -> Settled(st, Tail(ch), cs, q, p = "MayBeTrue")
  IN IF hit = {} THEN missed ELSE UNION {found(p) : p \in hit}

CachingTruth(st, ch, cs, q) ==
  LET hit == cacheLookup(st, cs, q)
      known(t) == IF t THEN "MustBeTrue" ELSE IF hit # {} THEN "TrueOrFalse" ELSE "MayBeFalse"
  IN IF hit # {} /\ hit # {"MayBeTrue"} THEN {Outcome(st, TRUE, hit = {"MustBeTrue"})}
     ELSE Then(Truth(st, Tail(ch), cs, q), LAMBDA o :
            {Outcome(cacheInsert(o.st, cs, q, known(o.r)), TRUE, o.r)})
-----------------------------------------------------------------------------
\* computeTruth of the core solver, from its solution.
CoreTruth(st, cs, q) == Mapped(Core(st, cs, q, {}), LAMBDA a : a = NULL)

Truth(st, ch, cs, q) ==
  CASE Head(ch) = "core" -> CoreTruth(st, cs, q)
    [] Head(ch) = "staged" -> StagedTruth(st, ch, cs, q)
    [] Head(ch) = "caching" -> CachingTruth(st, ch, cs, q)
    [] Head(ch) \in {"cex", "cex-try-all"} -> CexTruth(st, ch, cs, q)
    [] Head(ch) = "independent" -> Truth(st, Tail(ch), getIndependentConstraints(cs, q), q)

\* SolverImpl::computeValidity, of a core solver: two truth queries.
CoreValidity(st, cs, q) ==
  Then(CoreTruth(st, cs, q), LAMBDA o :
    IF o.r THEN {Outcome(o.st, TRUE, "True")}
    ELSE Mapped(CoreTruth(o.st, cs, -q), LAMBDA t : Verdict(t, "False", "Unknown")))

Validity(st, ch, cs, q) ==
  CASE Head(ch) = "core" -> CoreValidity(st, cs, q)
    [] Head(ch) = "staged" -> StagedValidity(st, ch, cs, q)
    [] Head(ch) = "caching" -> CachingValidity(st, ch, cs, q)
    [] Head(ch) \in {"cex", "cex-try-all"} -> CexValidity(st, ch, cs, q)
    [] Head(ch) = "independent" -> Validity(st, Tail(ch), getIndependentConstraints(cs, q), q)

\* computeValue of the core: a solution of the constraints, for the arrays of the expression.
CoreValue(st, cs, q) ==
  Mapped(Core(st, cs, 0, Objects({q})), LAMBDA a : IF a = NULL THEN "abort" ELSE evaluate(a, q))

RECURSIVE FindValue(_, _, _, _)
FindValue(st, ch, cs, q) ==
  CASE Head(ch) = "core" -> CoreValue(st, cs, q)
    [] Head(ch) = "staged" -> Staged(st, CoreValue(st, cs, q), FindValue(st, Tail(ch), cs, q))
    [] Head(ch) = "caching" -> FindValue(st, Tail(ch), cs, q)
    [] Head(ch) \in {"cex", "cex-try-all"} -> CexValue(st, ch, cs, q)
    [] Head(ch) = "independent" -> FindValue(st, Tail(ch), getIndependentConstraints(cs, q), q)
-----------------------------------------------------------------------------
(* The executor's queries, through TimingSolver and Solver                   *)
ChainInit ==
  /\ chain \in Chains /\ caches = NoCaches
  /\ asked = 0 /\ answer = NULL

Answered(kind, cs, q, outcomes) ==
  /\ asked < MaxQueries /\ asked' = asked + 1
  /\ \E o \in outcomes :
       /\ caches' = o.st
       /\ answer' = [kind |-> kind, cs |-> cs, q |-> q, ok |-> o.ok, r |-> o.r]
  /\ UNCHANGED chain

AskValidity(cs, q) == Answered("evaluate", cs, q, Validity(caches, chain, cs, q))
AskTruth(cs, q) == Answered("mustBeTrue", cs, q, Truth(caches, chain, cs, q))
AskValue(cs, q) == Answered("getValue", cs, q, FindValue(caches, chain, cs, q))
\* getInitialValues of the arrays of a test case, with False for a query.
AskInitialValues(cs) == Answered("getInitialValues", cs, 0, InitialValues(caches, chain, cs, 0, Array))

ChainNext ==
  \E cs \in Paths :
    \/ \E f \in Asked : AskValidity(cs, f) \/ AskTruth(cs, f) \/ AskValue(cs, f)
    \/ AskInitialValues(cs)

ChainSpec == ChainInit /\ [][ChainNext]_chainVars
-----------------------------------------------------------------------------
Valid(cs, q) == Models(Range(cs) \cup {-q}) = {}

\* Whatever was asked before, by this state or another, and however often the core solver
\* failed, an answer of the chain is the one the constraints of the path determine: cached
\* results, dropped constraints and merged solutions of factors included.
AnswersExact ==
  answer # NULL /\ answer.ok =>
    LET cs == answer.cs  q == answer.q  r == answer.r IN
    CASE answer.kind = "evaluate" ->
           r = (IF Valid(cs, q) THEN "True" ELSE IF Valid(cs, -q) THEN "False" ELSE "Unknown")
      [] answer.kind = "mustBeTrue" -> r = Valid(cs, q)
      [] answer.kind = "getValue" -> r \in BOOLEAN /\ ~Valid(cs, IF r THEN -q ELSE q)
      [] answer.kind = "getInitialValues" -> r \in Models(Range(cs))

\* CexCachingSolver has a null assignment exactly for unsatisfiable sets of constraints, and
\* for every other set an assignment that satisfies it.
CexCacheExact ==
  \A key \in Entries(caches.trie) :
    LET a == caches.trie[key].value IN
    IF a = NULL THEN Models(Range(key)) = {} ELSE satisfies(a, Range(key))

\* An entry of CachingSolver holds for its constraints, whichever of a query and its negation
\* it was entered for.
BranchCacheSound ==
  \A e \in DOMAIN caches.branch :
    LET sat(q) == Models(Range(e[1]) \cup {q}) # {}
        p == caches.branch[e]
    IN /\ p \in {"MustBeTrue"} => ~sat(-e[2])
       /\ p \in {"MustBeFalse"} => ~sat(e[2])
       /\ p \in {"MayBeTrue", "TrueOrFalse"} => sat(e[2])
       /\ p \in {"MayBeFalse", "TrueOrFalse"} => sat(-e[2])

\* The tree searches of MapOfSets find a subset or a superset whenever one is stored, and
\* only then.
SearchesComplete ==
  \A cs \in Paths, f \in Query : LET S == Range(cs) \cup {f}  key == Ascending(S)  t == caches.trie IN
    /\ findSubset(t, << >>, key, Accepting(t, LAMBDA a : a = NULL)) # {}
         <=> \E n \in Entries(t) : Range(n) \subseteq S /\ t[n].value = NULL
    /\ findSuperset(t, << >>, key, Accepting(t, LAMBDA a : a # NULL)) # {}
         <=> \E n \in Entries(t) : S \subseteq Range(n) /\ t[n].value # NULL
=============================================================================
