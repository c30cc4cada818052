---------------------------- MODULE Constraints ----------------------------
(***************************************************************************)
(* What is computed from expressions by visiting them: evaluation under a  *)
(* partial assignment, the constraint set of a path with its rewriting by  *)
(* equalities, and the values an equation implies.                         *)
(*                                                                         *)
(* A partial assignment maps an index of the symbolic array to its value,  *)
(* or to Free.                                                             *)
(***************************************************************************)
EXTENDS Expressions, FiniteSetsExt

Free == -1

\* Expr::rebuild: the same kind of expression over new kids.
Rebuild(e, l, r, c) ==
  CASE e.k \in BinaryOps -> Create(e.k, l, r)
    [] e.k = "Read" -> CreateRead(e.root, e.ups, l, e.w)
    [] e.k = "Select" -> CreateSelect(c, l, r)
    [] e.k = "Concat" -> CreateConcat(l, r)
    [] e.k = "Extract" -> CreateExtract(l, e.off, e.w)
    [] e.k = "Not" -> CreateNot(l)
    [] e.k \in {"ZExt", "SExt"} -> CreateCast(e.k, l, e.w)
Right(e) == IF "r" \in DOMAIN e THEN e.r ELSE e.l
Cond(e) == IF "c" \in DOMAIN e THEN e.c ELSE e.l
Kids(e) == {e.l, Right(e), Cond(e)}
\* ExprVisitor: an expression is rebuilt if a kid changed.
Rebuilt(e, l, r, c) == IF l = e.l /\ r = Right(e) /\ c = Cond(e) THEN e ELSE Rebuild(e, l, r, c)
-----------------------------------------------------------------------------
(* ExprEvaluator, and Assignment::evaluate                                  *)
RECURSIVE Evaluate(_, _)

\* The newest write at the index; from a write at an unknown index on, the read remains.
evalRead(root, ups, index, A) ==
  LET at == [n \in DOMAIN ups |-> Evaluate(ups[n][1], A)]
      n  == Min({Len(ups) + 1} \cup {m \in DOMAIN ups : ~IsConst(at[m]) \/ at[m].v = index})
  IN IF n <= Len(ups) /\ IsConst(at[n]) THEN Evaluate(ups[n][2], A)
     ELSE IF n > Len(ups) /\ ~root.sym /\ index < Len(root.vals) THEN Constant(root.vals[index + 1], 2)
     ELSE IF n > Len(ups) /\ index < Len(root.vals) /\ A[index] # Free THEN Constant(A[index], 2)
     ELSE CreateRead(root, SubSeq(ups, n, Len(ups)), Constant(index, 2), 2)

\* protectedDivOperation: a divisor that evaluates to zero stays as it is.
Divisor(e, r) == IF e.k \in Divisions /\ IsConst(r) /\ IsZero(r) THEN e.r ELSE r
Evaluate(e, A) ==
  IF IsConst(e) THEN e
  ELSE IF e.k = "Read"
    THEN LET i == Evaluate(e.l, A) IN
         IF IsConst(i) THEN evalRead(e.root, e.ups, i.v, A)
         ELSE IF i = e.l THEN e ELSE CreateRead(e.root, e.ups, i, e.w)
  ELSE IF \A kid \in Kids(e) : IsConst(kid) THEN Rebuild(e, e.l, Right(e), Cond(e))
  ELSE Rebuilt(e, Evaluate(e.l, A), Divisor(e, Evaluate(Right(e), A)), Evaluate(Cond(e), A))
-----------------------------------------------------------------------------
(* ConstraintManager                                                        *)

\* ExprReplaceVisitor: src becomes dst, also where rebuilding gives src.
RECURSIVE Replace(_, _, _)
Exchange(e, src, dst) == IF e = src THEN dst ELSE e
Replace(e, src, dst) ==
  IF IsConst(e) THEN e
  ELSE IF e = src THEN dst
  ELSE Exchange(Rebuilt(e, Replace(e.l, src, dst), Replace(Right(e), src, dst),
                        Replace(Cond(e), src, dst)), src, dst)

\* ExprReplaceVisitor2: a rebuilt expression is visited again; equalities are looked up last.
RECURSIVE Simplified(_, _)
Lookup(e, eqs) == IF e \in DOMAIN eqs THEN eqs[e] ELSE e
Revisited(e, new, eqs) == IF new = e THEN e ELSE Simplified(new, eqs)
Simplified(e, eqs) ==
  IF IsConst(e) THEN e
  ELSE Lookup(Revisited(e, Rebuilt(e, Simplified(e.l, eqs), Simplified(Right(e), eqs),
                                   Simplified(Cond(e), eqs)), eqs), eqs)

\* The first equality for an expression counts; other constraints are true.
Left(c) == IF c.k = "Eq" /\ IsConst(c.l) THEN c.r ELSE c
Known(c) == IF c.k = "Eq" /\ IsConst(c.l) THEN c.l ELSE True
simplifyExpr(cs, e) ==
  Simplified(e, [x \in {Left(cs[n]) : n \in DOMAIN cs} |->
                   Known(cs[Min({n \in DOMAIN cs : Left(cs[n]) = x})])])

\* Mutant: an equality replaces a constraint it rewrites.
AddEqualityDropping(cs, e) ==
  LET keep == SelectSeq(cs, LAMBDA c : Replace(c, e.r, e.l) = c) IN Append(keep, e)

\* rewriteConstraints: what a new equality changes is added again.
RECURSIVE AddInternal(_, _)
AddAgain(acc, c, new) == IF new = c THEN Append(acc, c) ELSE AddInternal(acc, new)
AddEquality(cs, e) ==
  Append(FoldLeft(LAMBDA acc, c : AddAgain(acc, c, Replace(c, e.r, e.l)), << >>, cs), e)
\* addConstraintInternal: a conjunction is split.  A false constraint is an assertion failure,
\* kept here as the constraint itself.
AddInternal(cs, e) ==
  IF e = True THEN cs
  ELSE IF e.k = "And" THEN AddInternal(AddInternal(cs, e.l), e.r)
  ELSE IF e.k = "Eq" /\ IsConst(e.l) THEN AddEquality(cs, e)
  ELSE Append(cs, e)
addConstraint(cs, e) == AddInternal(cs, simplifyExpr(cs, e))
-----------------------------------------------------------------------------
(* ImpliedValue                                                             *)
NoValue == [k |-> "null"]

ConcatParts(e, v) == <<Constant(Bits(v.v, e.r.w, e.l.w), e.l.w), Constant(v.v, e.r.w)>>

\* The reads with a value when e has value v.  The kids of an Or that is 0 get a null pointer
\* for their value, which only a read passes on.
RECURSIVE getImpliedValues(_, _)
getImpliedValues(e, v) ==
  CASE e.k = "Read" -> {<<e, v>>}
    [] v = NoValue -> {}
    [] e.k = "Select" ->
         IF ~IsConst(e.l) \/ ~IsConst(e.r) \/ e.l = e.r THEN {}
         ELSE getImpliedValues(e.c, IF v = e.l THEN True ELSE False)
    [] e.k = "Concat" ->
         getImpliedValues(e.l, ConcatParts(e, v)[1]) \cup getImpliedValues(e.r, ConcatParts(e, v)[2])
    [] e.k \in {"ZExt", "SExt"} -> getImpliedValues(e.l, Constant(v.v, e.l.w))
    [] e.k = "Add" /\ IsConst(e.l) -> getImpliedValues(e.r, Fold("Sub", v, e.l))
    [] e.k = "Sub" /\ IsConst(e.l) -> getImpliedValues(e.r, Fold("Sub", e.l, v))
    [] e.k = "Xor" /\ IsConst(e.l) -> getImpliedValues(e.r, Fold("Xor", v, e.l))
    [] e.k = "And" /\ e.w = 1 /\ v = True -> getImpliedValues(e.l, v) \cup getImpliedValues(e.r, v)
    [] e.k = "Or" /\ IsZero(v) -> getImpliedValues(e.l, NoValue) \cup getImpliedValues(e.r, NoValue)
    [] e.k = "Eq" /\ IsConst(e.l) /\ v = True -> getImpliedValues(e.r, e.l)
    [] e.k = "Eq" /\ IsConst(e.l) /\ v = False /\ e.l.w = 1 ->
         getImpliedValues(e.r, IF e.l = True THEN False ELSE True)
    [] OTHER -> {}

\* findReads and SymbolicObjectFinder: the reads of an expression, and of the writes they see.
RECURSIVE findReads(_, _)
findReads(e, visitUpdates) ==
  IF IsConst(e) THEN {}
  ELSE IF e.k = "Read"
    THEN {e} \cup findReads(e.l, visitUpdates)
         \cup IF visitUpdates THEN UNION {findReads(u[1], TRUE) \cup findReads(u[2], TRUE) : u \in Range(e.ups)}
              ELSE {}
  ELSE UNION {findReads(kid, visitUpdates) : kid \in Kids(e)}
=============================================================================
