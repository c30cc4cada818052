----------------------------- MODULE ExprCases -----------------------------
(***************************************************************************)
(* Small expressions over two bytes x and y of a symbolic array and a      *)
(* constant array, and what is asked of the constructors on them.  A byte  *)
(* has two bits, a word four.                                              *)
(***************************************************************************)
EXTENDS SolverBuilders, ExprBuilders

Sym == [sym |-> TRUE, vals |-> <<0, 0, 0, 0>>]
Tab == [sym |-> FALSE, vals |-> <<1, 0, 1, 2>>]
Byte(v) == Constant(v, 2)
x == AllocRead(Sym, << >>, Byte(0), 2)
y == AllocRead(Sym, << >>, Byte(1), 2)

\* Contents of the symbolic array: every pair of the bytes the expressions read.
Contents == {[i \in 0 .. 3 |-> IF i = 0 THEN a ELSE IF i = 1 THEN b ELSE i] : a \in 0 .. 3, b \in 0 .. 3}

Leaves == {x, y} \cup {Byte(v) : v \in {0, 1, 3}}
Bits1 == {CreateExtract(x, 1, 1), Create("Ult", x, y), True, False}
Bytes == Leaves
  \cup {Alloc(op, a, b) : op \in {"Add", "Sub"}, a \in {x, Byte(1), Byte(3)}, b \in {y, Byte(1)}}
  \cup {Create(op, a, b) : op \in {"Or", "Mul", "Sub"}, a \in {x, Byte(3)}, b \in {x, y}}
  \cup {AllocCast(c, b, 2) : c \in {"ZExt", "SExt"}, b \in Bits1 \ {True, False}}
  \cup {AllocRead(Tab, << >>, x, 2), CreateSelect(Create("Ult", x, y), x, y)}
Booleans == Bits1 \cup {AllocCast("Not", Create("Ult", x, y), 1)}
  \cup {Create(op, a, b) : op \in {"Or", "Eq", "And"}, a \in Bits1, b \in Bits1}
Words == {Constant(v, 4) : v \in 0 .. 15}
  \cup {CreateConcat(x, y), CreateCast("SExt", x, 4), CreateCast("ZExt", Create("Ult", x, y), 4)}
Operands(name) ==
  CASE name = "bit" -> Booleans [] name = "byte" -> Bytes [] name = "word" -> Words

\* Reads after two writes.
Indexes == {x, Byte(1), Byte(2)}
Updates == {<< <<i, v>>, <<j, u>> >> : i \in Indexes, j \in Indexes, v \in {x, Byte(2)}, u \in {y, Byte(1)}}

\* A division by zero is guarded by the executor (--check-div-zero) before it is built.
Sensible(op, r) == ~(op \in Divisions /\ IsConst(r) /\ IsZero(r))
Defined(op, r, A) == op \in Divisions => Eval(r, A) # 0

SameValue(e, a, op, r) ==
  e.w = a.w /\ (e = a \/ \A A \in Contents : Defined(op, r, A) => Eval(e, A) = Eval(a, A))
Levels == {"fold", "simplify"}

\* The other constructors on one operand, next to the terms they stand for.
Pairs(e, f, b) ==
  {<<CreateExtract(e, o, w), AllocExtract(e, o, w)>> : <<o, w>> \in {p \in (0 .. 3) \X (1 .. 4) : p[1] + p[2] <= e.w}}
  \cup {<<CreateExtract(CreateConcat(e, f), o, 2), AllocExtract(AllocConcat(e, f), o, 2)>> : o \in 0 .. 2}
  \cup {<<CreateConcat(CreateExtract(e, 1, 1), CreateExtract(f, 0, 1)),
          AllocConcat(AllocExtract(e, 1, 1), AllocExtract(f, 0, 1))>>}
  \cup {<<CreateCast(c, e, w), IF w <= e.w THEN AllocExtract(e, 0, w) ELSE AllocCast(c, e, w)>> :
          c \in {"ZExt", "SExt"}, w \in {1, 2, 4}}
  \cup {<<CreateNot(e), AllocCast("Not", e, e.w)>>, <<CreateSelect(b, e, f), AllocSelect(b, e, f)>>}
  \cup {<<BuildNot(l, e), AllocCast("Not", e, e.w)>> : l \in Levels}
  \cup {<<BuildSelect(l, b, e, f), AllocSelect(b, e, f)>> : l \in Levels}

\* What XExpr::create and the builders make of an operator, and of a read.
Created(op, l, r) == Create(op, l, r)
Built(level, op, l, r) == Build(level, op, l, r)
BuiltRead(level, root, ups, i, w) == BuildRead(level, root, ups, i, w)

\* The term a builder constructs has the sort and the value of the expression.  (An AShr by
\* the width or more is left out: the solvers fill with zeros, APInt with the sign.)
Constructed(e, op, l, r) ==
  \A b \in Builders, A \in Contents :
    Defined(op, r, A) /\ (op = "AShr" /\ l.w > 1 => (IsConst(l) /\ IsConst(r)) \/ Eval(r, A) < l.w)
      => Construct(b, e, A) = IF e.w = 1 THEN Bool(Eval(e, A) = 1) ELSE BV(e.w, Eval(e, A))
=============================================================================
