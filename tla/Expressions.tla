---------------------------- MODULE Expressions ----------------------------
(***************************************************************************)
(* Expr: the terms of the constraint language and the constructors         *)
(* XExpr::create, which simplify while they build.                         *)
(*                                                                         *)
(* A term is a record with its kind k and width w: a Constant has v; a     *)
(* Read has its array root [sym, vals], the updates ups, most recent first *)
(* and each <<index, value>>, and the index l; Extract has off; the others *)
(* have kids l and r, and Select its condition c.  A constant array's      *)
(* elements are vals, a symbolic one's come from an assignment.            *)
(***************************************************************************)
EXTENDS Integers, Bitwise, Sequences, SequencesExt

(***************************************************************************)
(* Fixed-width integers as llvm's APInt has them: the value of an operator *)
(* on two numbers of w bits, each in 0 .. 2^w - 1.  A shift by the width   *)
(* or more gives 0, or the sign for AShr; a comparison gives 0 or 1.       *)
(***************************************************************************)

Bit(b) == IF b THEN 1 ELSE 0
Signed(w, a) == IF 2 * a >= 2^w THEN a - 2^w ELSE a
Magnitude(x) == IF x < 0 THEN -x ELSE x
Quotient(x, y) ==
  LET q == Magnitude(x) \div Magnitude(y) IN IF (x < 0) = (y < 0) THEN q ELSE -q

Arithmetic == {"Add", "Sub", "Mul", "UDiv", "SDiv", "URem", "SRem"}
Bitwise1 == {"And", "Or", "Xor"}
Shifts == {"Shl", "LShr", "AShr"}
Comparisons == {"Eq", "Ne", "Ult", "Ule", "Ugt", "Uge", "Slt", "Sle", "Sgt", "Sge"}
BinaryOps == Arithmetic \cup Bitwise1 \cup Shifts \cup Comparisons
Divisions == {"UDiv", "SDiv", "URem", "SRem"}
SignedOps == {"SDiv", "SRem", "Slt", "Sle", "Sgt", "Sge"}

\* An operator on numbers of w bits: one that takes them for signed numbers, a shift by the
\* factor of a power of two, or another.
ApplySigned(op, w, a, b) ==
  CASE op = "SDiv" -> Quotient(a, b) % 2^w
    [] op = "SRem" -> (a - b * Quotient(a, b)) % 2^w
    [] op = "Slt"  -> Bit(a < b)
    [] op = "Sle"  -> Bit(a <= b)
    [] op = "Sgt"  -> Bit(a > b)
    [] op = "Sge"  -> Bit(a >= b)
ApplyShift(op, w, a, factor) ==
  CASE op = "Shl"  -> (a * factor) % 2^w
    [] op = "LShr" -> a \div factor
    [] op = "AShr" -> (Signed(w, a) \div factor) % 2^w
Apply(op, w, a, b) ==
  CASE op \in SignedOps -> ApplySigned(op, w, Signed(w, a), Signed(w, b))
    [] op \in Shifts -> ApplyShift(op, w, a, IF b < w THEN 2^b ELSE 2^w)
    [] op = "Add"  -> (a + b) % 2^w
    [] op = "Sub"  -> (a - b) % 2^w
    [] op = "Mul"  -> (a * b) % 2^w
    [] op = "UDiv" -> a \div b
    [] op = "URem" -> a % b
    [] op = "And"  -> a & b
    [] op = "Or"   -> a | b
    [] op = "Xor"  -> a ^^ b
    [] op = "Eq"   -> Bit(a = b)
    [] op = "Ne"   -> Bit(a # b)
    [] op = "Ult"  -> Bit(a < b)
    [] op = "Ule"  -> Bit(a <= b)
    [] op = "Ugt"  -> Bit(a > b)
    [] op = "Uge"  -> Bit(a >= b)

\* A number of w bits extended, or cut, to another width; bits off .. off + to - 1 of it.
ZExtend(a, to) == a % 2^to
SExtend(w, a, to) == Signed(w, a) % 2^to
Bits(a, off, to) == (a \div 2^off) % 2^to
-----------------------------------------------------------------------------
CONSTANT ConstArrayOpt   \* --const-array-opt

Constant(v, w) == [k |-> "Constant", w |-> w, v |-> v % 2^w]
IsConst(e) == e.k = "Constant"
IsZero(e) == e.v = 0
IsAllOnes(e) == e.v = 2^e.w - 1
True == Constant(1, 1)
False == Constant(0, 1)

\* XExpr::alloc: the term itself.
Alloc(op, l, r) ==
  [k |-> op, w |-> IF op \in Comparisons THEN 1 ELSE l.w, l |-> l, r |-> r]
AllocRead(root, ups, i, w) == [k |-> "Read", w |-> w, root |-> root, ups |-> ups, l |-> i]
AllocCast(op, e, w) == [k |-> op, w |-> w, l |-> e]
AllocExtract(e, off, w) == [k |-> "Extract", w |-> w, l |-> e, off |-> off]
AllocConcat(l, r) == [k |-> "Concat", w |-> l.w + r.w, l |-> l, r |-> r]
AllocSelect(c, t, f) == [k |-> "Select", w |-> t.w, c |-> c, l |-> t, r |-> f]

\* cl->_op(cr): constants are folded by APInt.
Fold(op, l, r) == Constant(Apply(op, l.w, l.v, r.v), IF op \in Comparisons THEN 1 ELSE l.w)
Plus(l, r) == Constant(l.v + r.v, l.w)
Minus(l, r) == Constant(l.v - r.v, l.w)

\* What a term means: its value for the contents of the symbolic array.
RECURSIVE Eval(_, _)
Eval(e, A) ==
  CASE e.k = "Constant" -> e.v
    [] e.k \in BinaryOps -> Apply(e.k, e.l.w, Eval(e.l, A), Eval(e.r, A))
    [] e.k = "Not" -> 2^e.w - 1 - Eval(e.l, A)
    [] e.k = "ZExt" -> ZExtend(Eval(e.l, A), e.w)
    [] e.k = "SExt" -> SExtend(e.l.w, Eval(e.l, A), e.w)
    [] e.k = "Extract" -> Bits(Eval(e.l, A), e.off, e.w)
    [] e.k = "Concat" -> Eval(e.l, A) * 2^e.r.w + Eval(e.r, A)
    [] e.k = "Select" -> IF Eval(e.c, A) = 1 THEN Eval(e.l, A) ELSE Eval(e.r, A)
    [] e.k = "Read" ->
         LET i == Eval(e.l, A)
             hits == SelectSeq(e.ups, LAMBDA u : Eval(u[1], A) = i)
         IN IF hits # << >> THEN Eval(hits[1][2], A)
            ELSE IF e.root.sym THEN A[i] ELSE e.root.vals[i + 1]
-----------------------------------------------------------------------------
RECURSIVE Create(_, _, _)
RECURSIVE CreateExtract(_, _, _)
RECURSIVE EqR(_, _)
CreateIsZero(e) == Create("Eq", e, Constant(0, e.w))
ConstLeft(e, op) == e.k = op /\ IsConst(e.l)

CreateConcat(l, r) ==
  IF IsConst(l) /\ IsConst(r) THEN Constant(l.v * 2^r.w + r.v, l.w + r.w)
  ELSE IF l.k = "Extract" /\ r.k = "Extract" /\ l.l = r.l /\ r.off + r.w = l.off
    THEN CreateExtract(l.l, r.off, l.w + r.w)
  ELSE AllocConcat(l, r)

\* An extract over both sides of a concat.
ExtractBoth(e, off, w) ==
  CreateConcat(CreateExtract(e.l, 0, w - e.r.w + off), CreateExtract(e.r, off, e.r.w - off))
CreateExtract(e, off, w) ==
  IF w = e.w THEN e
  ELSE IF IsConst(e) THEN Constant(Bits(e.v, off, w), w)
  ELSE IF e.k # "Concat" THEN AllocExtract(e, off, w)
  ELSE IF off >= e.r.w THEN CreateExtract(e.l, off - e.r.w, w)
  ELSE IF off + w <= e.r.w THEN CreateExtract(e.r, off, w)
  ELSE ExtractBoth(e, off, w)

CreateNot(e) == IF IsConst(e) THEN Constant(2^e.w - 1 - e.v, e.w) ELSE AllocCast("Not", e, e.w)

\* ZExtExpr::create and SExtExpr::create also truncate.
CreateCast(op, e, w) ==
  IF w = e.w THEN e
  ELSE IF w < e.w THEN CreateExtract(e, 0, w)
  ELSE IF ~IsConst(e) THEN AllocCast(op, e, w)
  ELSE Constant(IF op = "ZExt" THEN ZExtend(e.v, w) ELSE SExtend(e.w, e.v, w), w)

\* A Boolean choice with one constant: a conjunction if that is false, else a disjunction.
SelectBool(k, c, e, negated) ==
  Create(IF IsZero(k) THEN "And" ELSE "Or", IF negated THEN CreateIsZero(c) ELSE c, e)
CreateSelect(c, t, f) ==
  IF IsConst(c) THEN IF IsZero(c) THEN f ELSE t
  ELSE IF t = f THEN t
  ELSE IF t.w = 1 /\ IsConst(t) THEN SelectBool(t, c, f, IsZero(t))
  ELSE IF t.w = 1 /\ IsConst(f) THEN SelectBool(f, c, t, ~IsZero(f))
  ELSE AllocSelect(c, t, f)

\* ReadExpr::create: the updates from the first that may be at the index.
Rollback(ups, i) ==
  LET near == {m \in DOMAIN ups : Create("Eq", i, ups[m][1]) # False}
  IN SubSeq(ups, Min(near \cup {Len(ups) + 1}), Len(ups))
ReadAfter(root, ups, rest, i, w) ==
  IF rest # << >> /\ Create("Eq", i, rest[1][1]) = True THEN rest[1][2]
  ELSE IF ~IsConst(i) \/ i.v >= Len(root.vals) THEN AllocRead(root, ups, i, w)
  ELSE IF ~root.sym /\ rest = << >> THEN Constant(root.vals[i.v + 1], w)
  ELSE AllocRead(root, rest, i, w)
CreateRead(root, ups, i, w) == ReadAfter(root, ups, Rollback(ups, i), i, w)
-----------------------------------------------------------------------------
(* XExpr_createPartialR(cl, r): a constant on the left; the commutative      *)
(* operators swap a constant on the right over.                             *)
XorR(cl, r) == IF IsZero(cl) THEN r ELSE Alloc("Xor", cl, r)
AndR(cl, r) ==
  IF IsAllOnes(cl) THEN r ELSE IF IsZero(cl) THEN cl ELSE Alloc("And", r, cl)
OrR(cl, r) ==
  IF IsAllOnes(cl) THEN cl ELSE IF IsZero(cl) THEN r ELSE Alloc("Or", r, cl)
MulR(cl, r) ==
  IF cl.v = 1 THEN r ELSE IF IsZero(cl) THEN cl ELSE Alloc("Mul", cl, r)
AddR(cl, r) ==
  IF IsZero(cl) THEN r
  ELSE IF ConstLeft(r, "Add") THEN Create("Add", Plus(cl, r.l), r.r)
  ELSE IF ConstLeft(r, "Sub") THEN Create("Sub", Plus(cl, r.l), r.r)
  ELSE Alloc("Add", cl, r)
SubR(cl, r) ==
  IF ConstLeft(r, "Add") THEN Create("Sub", Minus(cl, r.l), r.r)
  ELSE IF ConstLeft(r, "Sub") THEN Create("Add", Minus(cl, r.l), r.r)
  ELSE Alloc("Sub", cl, r)

\* XExpr_create(l, r): no constant.  A constant inside is moved out.
AddNoConst(l, r) ==
  IF l.w = 1 THEN Alloc("Xor", l, r)
  ELSE IF ConstLeft(l, "Add") THEN Create("Add", l.l, Create("Add", l.r, r))
  ELSE IF ConstLeft(l, "Sub") THEN Create("Add", l.l, Create("Sub", r, l.r))
  ELSE IF ConstLeft(r, "Add") THEN Create("Add", r.l, Create("Add", l, r.r))
  ELSE IF ConstLeft(r, "Sub") THEN Create("Add", r.l, Create("Sub", l, r.r))
  ELSE Alloc("Add", l, r)
SubNoConst(l, r) ==
  IF l.w = 1 THEN Alloc("Xor", l, r)
  ELSE IF l = r THEN Constant(0, l.w)
  ELSE IF ConstLeft(l, "Add") THEN Create("Add", l.l, Create("Sub", l.r, r))
  ELSE IF ConstLeft(l, "Sub") THEN Create("Sub", l.l, Create("Add", l.r, r))
  ELSE IF ConstLeft(r, "Add") THEN Create("Sub", Create("Sub", l, r.r), r.l)
  ELSE IF ConstLeft(r, "Sub") THEN Create("Sub", Create("Add", l, r.r), r.l)
  ELSE Alloc("Sub", l, r)
MulNoConst(l, r) == Alloc(IF l.w = 1 THEN "And" ELSE "Mul", l, r)
EqNoConst(l, r) == IF l = r THEN True ELSE Alloc("Eq", l, r)

\* TryConstArrayOpt: an equation with a read of a constant array, as one on the index.
TryConstArrayOpt(cl, rd) ==
  IF rd.root.sym \/ rd.ups # << >> THEN EqNoConst(cl, rd)
  ELSE FoldLeft(LAMBDA res, i : IF rd.root.vals[i] # cl.v THEN res
                                 ELSE Create("Or", res, Create("Eq", rd.l, Constant(i - 1, rd.l.w))),
                False, [i \in DOMAIN rd.root.vals |-> i])

\* cl == an extension: an equation in the narrow width, if the constant has a counterpart there.
EqExtended(cl, r) ==
  LET trunc == Constant(cl.v, r.l.w) IN
  IF cl = CreateCast(r.k, trunc, cl.w) THEN Create("Eq", r.l, trunc) ELSE False
EqR(cl, r) ==
  IF cl.w = 1 /\ ~IsZero(cl) THEN r
  ELSE IF cl.w = 1 /\ r.k = "Eq" /\ r.l = False THEN r.r
  ELSE IF cl.w = 1 /\ r.k = "Or" THEN Create("And", CreateIsZero(r.l), CreateIsZero(r.r))
  ELSE IF cl.w > 1 /\ r.k \in {"SExt", "ZExt"} THEN EqExtended(cl, r)
  ELSE IF cl.w > 1 /\ ConstLeft(r, "Add") THEN EqR(Minus(cl, r.l), r.r)
  ELSE IF cl.w > 1 /\ ConstLeft(r, "Sub") THEN EqR(Minus(r.l, cl), r.r)
  ELSE IF cl.w > 1 /\ r.k = "Read" /\ ConstArrayOpt THEN TryConstArrayOpt(cl, r)
  ELSE EqNoConst(cl, r)

\* On Booleans: divisors are 1, and a comparison is a formula.
CreateBool(op, l, r) ==
  CASE op \in {"UDiv", "SDiv", "AShr"} -> l
    [] op \in {"URem", "SRem"} -> False
    [] op \in {"Shl", "LShr"} -> Create("And", l, CreateIsZero(r))
    [] op = "Ult" -> Create("And", CreateIsZero(l), r)
    [] op = "Ule" -> Create("Or", CreateIsZero(l), r)
    [] op = "Slt" -> Create("And", l, CreateIsZero(r))
    [] op = "Sle" -> Create("Or", l, CreateIsZero(r))

Mirrored == [Ugt |-> "Ult", Uge |-> "Ule", Sgt |-> "Slt", Sge |-> "Sle"]
\* Booleans are added and subtracted by Xor and multiplied by And; Xor with true negates.
OnBool(op, cl) ==
  IF cl.w > 1 THEN op
  ELSE CASE op = "Mul" -> "And"
         [] op \in {"Add", "Sub", "Xor"} -> IF IsZero(cl) THEN "Xor" ELSE "Not"
         [] OTHER -> op
PartialR(op, cl, r) ==
  CASE op = "Add" -> AddR(cl, r)
    [] op = "Sub" -> SubR(cl, r)
    [] op = "Mul" -> MulR(cl, r)
    [] op = "And" -> AndR(cl, r)
    [] op = "Or"  -> OrR(cl, r)
    [] op = "Xor" -> XorR(cl, r)
    [] op \in {"Eq", "Not"} -> EqR(IF op = "Eq" THEN cl ELSE False, r)
NoConst(op, l, r) ==
  CASE op = "Add" -> AddNoConst(l, r)
    [] op = "Sub" -> SubNoConst(l, r)
    [] op = "Mul" -> MulNoConst(l, r)
    [] op = "Eq"  -> EqNoConst(l, r)
    [] OTHER -> Alloc(op, l, r)

\* XExpr_createPartial(l, cr): a constant on the right is moved to the left, negated by Sub.
Swapped(op, l, r) ==
  IF IsConst(l) THEN <<op, l, r>>
  ELSE IF op = "Sub" THEN <<"Add", Minus(Constant(0, r.w), r), l>> ELSE <<op, r, l>>
CreatePartial(t) == PartialR(OnBool(t[1], t[2]), t[2], t[3])

\* XExpr::create(l, r), for operands of one width.
Create(op, l, r) ==
  IF op = "Ne" THEN Create("Eq", False, Create("Eq", l, r))
  ELSE IF op \in DOMAIN Mirrored THEN Create(Mirrored[op], r, l)
  ELSE IF IsConst(l) /\ IsConst(r) THEN Fold(op, l, r)
  ELSE IF op \notin {"Add", "Sub", "Mul", "And", "Or", "Xor", "Eq"}
    THEN IF l.w = 1 THEN CreateBool(op, l, r) ELSE Alloc(op, l, r)
  ELSE IF IsConst(l) \/ IsConst(r) THEN CreatePartial(Swapped(op, l, r))
  ELSE NoConst(op, l, r)
=============================================================================
