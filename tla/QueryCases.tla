----------------------------- MODULE QueryCases -----------------------------
(***************************************************************************)
(* Small constraints and queries over the bytes x, y and z of a symbolic   *)
(* array, read directly and after writes.                                  *)
(***************************************************************************)
EXTENDS ValueRanges

Sym == [sym |-> TRUE, vals |-> <<0, 0, 0, 0>>]
Tab == [sym |-> FALSE, vals |-> <<2, 1, 2, 0>>]
Byte(v) == Constant(v, 2)
x == AllocRead(Sym, << >>, Byte(0), 2)
y == AllocRead(Sym, << >>, Byte(1), 2)
z == AllocRead(Sym, << >>, Byte(2), 2)

\* The fourth byte is read at a symbolic index only, and has the value that Guess gives it.
Contents == {A \in [0 .. 3 -> 0 .. 3] : A[3] = 1}

Terms == {x, y, z, Create("Add", Byte(1), x), Create("Sub", Byte(2), y), Create("Xor", Byte(3), z),
          Create("And", x, Byte(1)), Create("Or", x, z), Create("Mul", x, y),
          CreateSelect(Create("Ult", x, y), Byte(1), Byte(2)),
          CreateSelect(Create("Eq", Byte(1), y), x, z),
          CreateCast("ZExt", Create("Ult", y, z), 2), CreateCast("SExt", CreateExtract(x, 1, 1), 2),
          CreateRead(Tab, << >>, x, 2), CreateRead(Sym, << <<x, z>> >>, Byte(1), 2),
          CreateRead(Sym, << <<Byte(2), x>>, <<x, Byte(3)>> >>, y, 2),
          CreateRead(Sym, << <<x, Byte(3)>>, <<Byte(2), Byte(0)>> >>, Byte(2), 2)}
WideTerms == {CreateConcat(x, y), CreateCast("ZExt", x, 4), CreateCast("SExt", z, 4)}
Compared == {"Eq", "Ne", "Ult", "Ule", "Slt", "Ugt"}
Atoms == {Create(op, t, Byte(v)) : op \in Compared, t \in Terms, v \in {1, 2, 3}}
  \cup {Create(op, t, u) : op \in {"Eq", "Ult", "Sle"}, t \in {x, y}, u \in {y, z}}
  \cup {Create(op, t, Constant(v, 4)) : op \in {"Eq", "Ult"}, t \in WideTerms, v \in {1, 6, 13}}
Small == {Create(op, t, Byte(1)) : op \in {"Eq", "Ult"}, t \in {x, y, Create("And", x, Byte(1))}}
Conditions == {c \in Atoms : ~IsConst(c)}
Formulas == Small \cup {Create(op, a, b) : op \in {"And", "Or", "Eq"}, a \in Small, b \in Small}

\* Constraints to be combined, and the constraints added to them.
Some == {c \in Conditions : c.k = "Eq" \/ ~IsConst(c.l)}
First == {c \in Some \cup Formulas : ~IsConst(c) /\ \E A \in Contents : Eval(c, A) = 1}
Second == {Create(op, t, Byte(2)) : op \in {"Eq", "Ult"}, t \in Terms}
  \cup {Create("Eq", CreateConcat(x, y), Constant(6, 4)), Create("Ult", x, y),
        Create("And", Create("Eq", x, Byte(1)), Create("Ult", y, z))}

Models(cs) == {A \in Contents : \A n \in DOMAIN cs : Eval(cs[n], A) = 1}

\* Partial assignments and their completions.
Partials == {P \in [0 .. 3 -> {Free, 1, 2}] : P[3] = Free}
Completes(A, P) == \A i \in DOMAIN P : P[i] # Free => A[i] = P[i]

\* Every value of e lies in the range computed for it.
InRange(e) == LET r == RangeOf(e) IN \A A \in Contents : Eval(e, A) \in r[1] .. r[2]

\* What is left of e under a partial assignment has e's value in each completion.
Agrees(e) ==
  \A P \in Partials : \A f \in {Evaluate(e, P)} :
    \A A \in Contents : Completes(A, P) => Eval(f, A) = Eval(e, A)

\* The reads have the values that the value of e implies.
Implied(e) ==
  \A v \in {0, 1} : \A p \in getImpliedValues(e, Constant(v, 1)) :
    p[2] # NoValue => \A A \in Contents : Eval(e, A) = v => Eval(p[1], A) = p[2].v

\* The constraints of a path after adding cs have the models of cs, and none is false.
Keeps(path, cs) == Models(path) = Models(cs) /\ False \notin Range(path)
PathKeeps(cs) == Keeps(FoldLeft(addConstraint, << >>, cs), cs)

\* What propagateValues says of a query is so.
AnswerHolds(r, cs, e) ==
  /\ r = "valid" => \A A \in Models(cs) : Eval(e, A) = 1
  /\ r = "invalid" => \E A \in Models(cs) : Eval(e, A) = 0
FastAnswer(cs, e) == AnswerHolds(propagateValues(cs, e, TRUE, 4), cs, e)
=============================================================================
