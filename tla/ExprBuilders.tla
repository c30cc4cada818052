---------------------------- MODULE ExprBuilders ----------------------------
(***************************************************************************)
(* ExprBuilder: the chain of builders kleaver and the parser use, the      *)
(* simplifying one on the folding one on the default one.  A builder is    *)
(* named by its level; each but the default wraps its rules in a           *)
(* ConstantSpecializedExprBuilder, which folds constants, and hands what   *)
(* it does not rewrite to its base.                                        *)
(***************************************************************************)
EXTENDS Expressions

Base == [fold |-> "default", simplify |-> "fold"]

RECURSIVE Build(_, _, _, _)
RECURSIVE BuildNot(_, _)
Neg(c) == Constant(-c.v, c.w)

\* The constant kid of a sum or a difference and the other kid, if there is one.
ConstRight(e, op) == e.k = op /\ IsConst(e.r) /\ ~IsConst(e.l)

\* ConstantFoldingBuilder::Add.
FoldAddConst(l, r) ==
  IF IsZero(l) THEN r
  ELSE IF ConstLeft(r, "Add") THEN Build("fold", "Add", Plus(l, r.l), r.r)
  ELSE IF ConstRight(r, "Add") THEN Build("fold", "Add", Plus(l, r.r), r.l)
  ELSE IF ConstLeft(r, "Sub") THEN Build("fold", "Sub", Plus(l, r.l), r.r)
  ELSE IF ConstRight(r, "Sub") THEN Build("fold", "Add", Minus(l, r.r), r.l)
  ELSE Alloc("Add", l, r)
FoldAdd(l, r) ==
  IF l.k = "Add" THEN Build("fold", "Add", l.l, Build("fold", "Add", l.r, r))
  ELSE IF l.k = "Sub" THEN Build("fold", "Add", l.l, Build("fold", "Sub", r, l.r))
  ELSE IF ConstLeft(r, "Add") THEN Build("fold", "Add", r.l, Build("fold", "Add", l, r.r))
  ELSE IF ConstRight(r, "Add") THEN Build("fold", "Add", r.r, Build("fold", "Add", l, r.l))
  ELSE IF ConstLeft(r, "Sub") THEN Build("fold", "Add", r.l, Build("fold", "Sub", l, r.r))
  ELSE IF ConstRight(r, "Sub") THEN Build("fold", "Add", Neg(r.r), Build("fold", "Add", l, r.l))
  ELSE Alloc("Add", l, r)

\* ConstantFoldingBuilder::Sub.
FoldSubConst(l, r) ==
  IF ConstLeft(r, "Add") THEN Build("fold", "Sub", Minus(l, r.l), r.r)
  ELSE IF ConstRight(r, "Add") THEN Build("fold", "Sub", Minus(l, r.r), r.l)
  ELSE IF ConstLeft(r, "Sub") THEN Build("fold", "Add", Minus(l, r.l), r.r)
  ELSE IF ConstRight(r, "Sub") THEN Build("fold", "Sub", Plus(l, r.r), r.l)
  ELSE Alloc("Sub", l, r)
SubSum(l, r, c, x) == Build("fold", "Add", Neg(c), Build("fold", "Sub", l, x))
FoldSub(l, r) ==
  IF l.k = "Add" THEN Build("fold", "Add", l.l, Build("fold", "Sub", l.r, r))
  ELSE IF l.k = "Sub" THEN Build("fold", "Sub", l.l, Build("fold", "Add", l.r, r))
  ELSE IF ConstLeft(r, "Add") THEN SubSum(l, r, r.l, r.r)
  ELSE IF ConstRight(r, "Add") THEN SubSum(l, r, r.r, r.l)
  ELSE IF ConstLeft(r, "Sub") THEN Build("fold", "Add", Neg(r.l), Build("fold", "Add", l, r.r))
  ELSE IF ConstRight(r, "Sub") THEN Build("fold", "Add", r.r, Build("fold", "Sub", l, r.l))
  ELSE Alloc("Sub", l, r)

\* ConstantFoldingBuilder::Mul, And, Or, Xor, Eq with a constant; false == X is Not X.
FoldConst(op, l, r) ==
  CASE op = "Mul" -> IF IsZero(l) THEN l ELSE IF l.v = 1 THEN r ELSE Alloc("Mul", l, r)
    [] op = "And" -> IF IsZero(l) THEN l ELSE IF IsAllOnes(l) THEN r ELSE Alloc("And", l, r)
    [] op = "Or"  -> IF IsZero(l) THEN r ELSE IF IsAllOnes(l) THEN l ELSE Alloc("Or", l, r)
    [] op = "Xor" -> IF IsZero(l) THEN r ELSE Alloc("Xor", l, r)
    [] op = "Eq"  -> IF l.w > 1 THEN Alloc("Eq", l, r)
                     ELSE IF IsZero(l) THEN BuildNot("default", r) ELSE r
FoldRules(op, l, r) ==
  LET c == IF IsConst(l) THEN l ELSE r  x == IF IsConst(l) THEN r ELSE l IN
  CASE op = "Add" -> IF IsConst(c) THEN FoldAddConst(c, x) ELSE FoldAdd(l, r)
    [] op = "Sub" -> IF IsConst(l) THEN FoldSubConst(l, r)
                     ELSE IF IsConst(r) THEN FoldAddConst(Neg(r), l) ELSE FoldSub(l, r)
    [] op \in {"Mul", "And", "Or", "Xor", "Eq"} ->
         IF IsConst(c) THEN FoldConst(op, c, x) ELSE Alloc(op, l, r)
    [] OTHER -> Alloc(op, l, r)

\* SimplifyingBuilder: X == X, and the comparisons without mirrored counterparts.
SimplifyEq(l, r) ==
  LET c == IF IsConst(l) THEN l ELSE r  x == IF IsConst(l) THEN r ELSE l IN
  IF IsConst(c) /\ c.w = 1 THEN IF IsZero(c) THEN BuildNot("fold", x) ELSE x
  ELSE IF ~IsConst(c) /\ l = r THEN True
  ELSE Build("fold", "Eq", c, x)
SimplifyRules(op, l, r) ==
  CASE op = "Eq" -> SimplifyEq(l, r)
    [] op = "Ne" -> BuildNot("simplify", Build("simplify", "Eq", l, r))
    [] op \in DOMAIN Mirrored -> Build("simplify", Mirrored[op], r, l)
    [] OTHER -> Build("fold", op, l, r)
SimplifyNot(e) ==
  IF e.k = "Or" THEN Build("simplify", "And", BuildNot("simplify", e.l), BuildNot("simplify", e.r))
  ELSE BuildNot("fold", e)

\* ConstantSpecializedExprBuilder: constants are folded before the rules are asked.
Build(level, op, l, r) ==
  IF level = "default" THEN Alloc(op, l, r)
  ELSE IF IsConst(l) /\ IsConst(r) THEN Fold(op, l, r)
  ELSE IF level = "fold" THEN FoldRules(op, l, r) ELSE SimplifyRules(op, l, r)
BuildNot(level, e) ==
  IF level = "default" THEN AllocCast("Not", e, e.w)
  ELSE IF e.k = "Not" THEN e.l
  ELSE IF IsConst(e) THEN Constant(2^e.w - 1 - e.v, e.w)
  ELSE IF level = "fold" THEN AllocCast("Not", e, e.w) ELSE SimplifyNot(e)
BuildSelect(level, c, t, f) ==
  IF level # "default" /\ IsConst(c) THEN IF IsZero(c) THEN f ELSE t ELSE AllocSelect(c, t, f)

\* Writes at an index known to differ are rolled back.
RECURSIVE BuildRead(_, _, _, _, _)
BuildRead(level, root, ups, i, w) ==
  IF level = "default" THEN AllocRead(root, ups, i, w)
  ELSE LET near == {m \in DOMAIN ups : Build(level, "Eq", i, ups[m][1]) # False}
       IN BuildRead(Base[level], root, SubSeq(ups, Min(near \cup {Len(ups) + 1}), Len(ups)), i, w)
=============================================================================
