---------------------------- MODULE ValueRanges ----------------------------
(***************************************************************************)
(* FastCexSolver: intervals for the bytes of symbolic arrays, propagated   *)
(* from the constraints of a query, which may decide it without a solver.  *)
(*                                                                         *)
(* A range is <<min, max>>, empty if min > max.  The code has 64-bit       *)
(* numbers and bytes of 8 bits; here they have Wide and ByteBits.          *)
(***************************************************************************)
EXTENDS Constraints

CONSTANTS Wide, ByteBits

maxValueOfNBits(n) == 2^n - 1
Full(w) == <<0, maxValueOfNBits(w)>>
Fixed(v) == <<v, v>>
NoRange == <<1, 0>>
isEmpty(r) == r[1] > r[2]
isFixed(r) == r[1] = r[2]
Not1(v) == IF v = 0 THEN 1 ELSE 0
set_intersection(a, b) == <<Max({a[1], b[1]}), Min({a[2], b[2]})>>
set_union(a, b) == <<Min({a[1], b[1]}), Max({a[2], b[2]})>>
set_difference(a, b) ==
  IF isEmpty(b) \/ b[1] > a[2] \/ b[2] < a[1] THEN a
  ELSE IF b[1] <= a[1] /\ b[2] >= a[2] THEN NoRange
  ELSE IF b[1] <= a[1] THEN <<b[2] + 1, a[2]>> ELSE <<a[1], b[1] - 1>>
mustEqual(a, b) == isFixed(a) /\ a = b
mayEqual(a, b) == ~isEmpty(set_intersection(a, b))

\* The bounds of Hacker's Delight: at the first bit m, from the top, where the limit of the
\* left or else the right operand may give way, it is raised to a multiple of m, or lowered
\* to one below a multiple.
TopDown == [n \in 1 .. Wide |-> 2^(Wide - n)]
Has(v, m) == (v \div m) % 2 = 1
Raised(v, m) == (v \div m + 1) * m
Lowered(v, m) == (v \div m) * m - 1
FirstBit(test(_)) == LET hits == {n \in DOMAIN TopDown : test(TopDown[n])}
                     IN IF hits = {} THEN 0 ELSE TopDown[Min(hits)]
Limits(x, y, left(_), right(_), moved(_, _)) ==
  LET at(m) == IF m = 0 THEN <<x, y>> ELSE IF left(m) THEN <<moved(x, m), y>> ELSE <<x, moved(y, m)>>
  IN at(FirstBit(LAMBDA m : left(m) \/ right(m)))
AndBoth(p) == p[1] & p[2]
OrBoth(p) == p[1] | p[2]
minOR(a, b, c, d) ==
  LET left(m)  == ~Has(a, m) /\ Has(c, m) /\ Raised(a, m) <= b
      right(m) == Has(a, m) /\ ~Has(c, m) /\ Raised(c, m) <= d
  IN OrBoth(Limits(a, c, left, right, Raised))
maxOR(a, b, c, d) ==
  LET left(m)  == Has(b, m) /\ Has(d, m) /\ Lowered(b, m) >= a
      right(m) == Has(b, m) /\ Has(d, m) /\ Lowered(d, m) >= c
  IN OrBoth(Limits(b, d, left, right, Lowered))
minAND(a, b, c, d) ==
  LET left(m)  == ~Has(a, m) /\ ~Has(c, m) /\ Raised(a, m) <= b
      right(m) == ~Has(a, m) /\ ~Has(c, m) /\ Raised(c, m) <= d
  IN AndBoth(Limits(a, c, left, right, Raised))
maxAND(a, b, c, d) ==
  LET left(m)  == Has(b, m) /\ ~Has(d, m) /\ Lowered(b, m) >= a
      right(m) == ~Has(b, m) /\ Has(d, m) /\ Lowered(d, m) >= c
  IN AndBoth(Limits(b, d, left, right, Lowered))
binaryAnd(a, b) ==
  IF isFixed(a) /\ isFixed(b) THEN Fixed(a[1] & b[1])
  ELSE <<minAND(a[1], a[2], b[1], b[2]), maxAND(a[1], a[2], b[1], b[2])>>
binaryOr(a, b) ==
  IF isFixed(a) /\ isFixed(b) THEN Fixed(a[1] | b[1])
  ELSE <<minOR(a[1], a[2], b[1], b[2]), maxOR(a[1], a[2], b[1], b[2])>>
binaryXor(a, b) ==
  IF isFixed(a) /\ isFixed(b) THEN Fixed(a[1] ^^ b[1])
  ELSE LET t == a[2] | b[2] IN <<0, 2 * Max({m \in Range(TopDown) : m <= t}) - 1>>
concat(a, b, bits) == binaryOr(<<(a[1] * 2^bits) % 2^Wide, (a[2] * 2^bits) % 2^Wide>>, b)
extract(a, low, high) ==
  binaryAnd(<<a[1] \div 2^low, a[2] \div 2^low>>, Fixed(maxValueOfNBits(high - low)))
minSigned(a, bits) == IF a[2] >= 2^(bits - 1) THEN -(2^(bits - 1)) ELSE a[1]
maxSigned(a, bits) ==
  IF a[1] < 2^(bits - 1) /\ a[2] >= 2^(bits - 1) THEN 2^(bits - 1) - 1 ELSE Signed(bits, a[2])
-----------------------------------------------------------------------------
(* ExprRangeEvaluator                                                       *)
RECURSIVE RangeOf(_)

\* Writes that may be at the index join the range, up to one that must be.
RECURSIVE RangeRead(_, _, _, _)
RangeRead(root, ups, index, res) ==
  IF ups = << >>
    THEN set_union(res, IF ~root.sym /\ isFixed(index) /\ index[1] < Len(root.vals)
                          THEN Fixed(root.vals[index[1] + 1]) ELSE Full(ByteBits))
  ELSE LET ui == RangeOf(ups[1][1])
           joined == set_union(res, RangeOf(ups[1][2]))
       IN IF mustEqual(ui, index) THEN joined
          ELSE IF ~mayEqual(ui, index) THEN RangeRead(root, Tail(ups), index, res)
          ELSE IF joined = Full(ByteBits) THEN joined
          ELSE RangeRead(root, Tail(ups), index, joined)

RangeCompare(op, a, b, bits) ==
  LET lo(x) == IF op \in {"Slt", "Sle"} THEN minSigned(x, bits) ELSE x[1]
      hi(x) == IF op \in {"Slt", "Sle"} THEN maxSigned(x, bits) ELSE x[2]
      strict == op \in {"Ult", "Slt"}
  IN IF (strict /\ hi(a) < lo(b)) \/ (~strict /\ hi(a) <= lo(b)) THEN Fixed(1)
     ELSE IF (strict /\ lo(a) >= hi(b)) \/ (~strict /\ lo(a) > hi(b)) THEN Fixed(0)
     ELSE Full(1)

\* A concatenation takes its right kid for one byte.
RangeConcat(e) == concat(concat(Fixed(0), RangeOf(e.l), ByteBits), RangeOf(e.r), ByteBits)
RangeOf(e) ==
  CASE e.k = "Constant" -> Fixed(e.v)
    [] e.k = "Read" -> RangeRead(e.root, e.ups, RangeOf(e.l), NoRange)
    [] e.k = "Select" ->
         LET c == RangeOf(e.c) IN
         IF c = Fixed(1) THEN RangeOf(e.l) ELSE IF c = Fixed(0) THEN RangeOf(e.r)
         ELSE set_union(RangeOf(e.l), RangeOf(e.r))
    [] e.k = "Concat" -> RangeConcat(e)
    [] e.k = "And" -> binaryAnd(RangeOf(e.l), RangeOf(e.r))
    [] e.k = "Or" -> binaryOr(RangeOf(e.l), RangeOf(e.r))
    [] e.k = "Xor" -> binaryXor(RangeOf(e.l), RangeOf(e.r))
    [] e.k = "Eq" -> IF mustEqual(RangeOf(e.l), RangeOf(e.r)) THEN Fixed(1)
                     ELSE IF ~mayEqual(RangeOf(e.l), RangeOf(e.r)) THEN Fixed(0) ELSE Full(1)
    [] e.k \in {"Ult", "Ule", "Slt", "Sle"} -> RangeCompare(e.k, RangeOf(e.l), RangeOf(e.r), e.l.w)
    [] OTHER -> Full(e.w)
-----------------------------------------------------------------------------
(* CexData: the possible contents are a guess, the exact ones must hold.    *)
RECURSIVE Possible(_, _, _)

PossibleRead(cd, e, r) ==
  LET i == e.l.v  old == cd.possible[i]  both == set_intersection(old, r) IN
  IF ~IsConst(e.l) \/ ~e.root.sym THEN cd
  ELSE IF i \notin DOMAIN cd.possible THEN cd
  ELSE IF isFixed(r) THEN [cd EXCEPT !.possible[i] = r]
  ELSE IF isEmpty(both) THEN cd ELSE [cd EXCEPT !.possible[i] = both]

PossibleSelect(cd, e, r, c) ==
  IF isFixed(c) THEN Possible(cd, IF c[1] = 1 THEN e.l ELSE e.r, r)
  ELSE Possible(Possible(cd, e.l, r), e.r, r)

\* And is forced to 0 by one kid, and to 1 by both; Or the other way round.
PossibleLogic(cd, e, want, unit, l, r) ==
  LET one  == Possible(cd, e.l, Fixed(want))
      both == IF l = Fixed(want) THEN cd ELSE one
  IN IF want # unit
       THEN IF l = Fixed(want) \/ r = Fixed(want) THEN cd
            ELSE IF l = Fixed(1) THEN one ELSE Possible(one, e.r, Fixed(want))
       ELSE IF r = Fixed(want) THEN both ELSE Possible(both, e.r, Fixed(want))

PossibleCompare(cd, e, want, l, r) ==
  LET top == maxValueOfNBits(e.r.w)
      strict == Bit(e.k = "Ult")
  IN IF isFixed(l)
       THEN Possible(cd, e.r, IF want = 1 THEN <<l[1] + strict, top>> ELSE <<0, (l[1] - (1 - strict)) % 2^Wide>>)
     ELSE IF isFixed(r)
       THEN Possible(cd, e.l, IF want = 1 THEN <<0, (r[1] - strict) % 2^Wide>> ELSE <<r[1] + (1 - strict), top>>)
     ELSE cd

\* propagatePossibleValues
Possible(cd, e, r) ==
  CASE e.k = "Read" -> PossibleRead(cd, e, r)
    [] e.k = "Select" -> PossibleSelect(cd, e, r, RangeOf(e.c))
    [] e.k = "Concat" ->
         Possible(Possible(cd, e.l, extract(r, e.r.w, e.r.w + e.r.w)), e.r, extract(r, 0, e.r.w))
    [] e.k = "ZExt" -> Possible(cd, e.l, set_intersection(r, Full(e.l.w)))
    [] e.k = "SExt" ->
         LET out == set_difference(r, <<2^(e.l.w - 1), maxValueOfNBits(e.w) - maxValueOfNBits(e.l.w - 1) - 1>>)
         IN Possible(cd, e.l, binaryAnd(out, Fixed(maxValueOfNBits(e.l.w))))
    [] e.k = "Add" /\ IsConst(e.l) /\ ~isEmpty(r) ->
         LET n == <<(r[1] - e.l.v) % 2^e.w, (r[2] - e.l.v) % 2^e.w>>
         IN IF isEmpty(n) THEN cd ELSE Possible(cd, e.r, n)
    [] e.k \in {"And", "Or"} /\ e.w = 1 /\ isFixed(r) ->
         PossibleLogic(cd, e, r[1], IF e.k = "And" THEN 1 ELSE 0, RangeOf(e.l), RangeOf(e.r))
    [] e.k = "Eq" /\ isFixed(r) /\ IsConst(e.l) ->
         Possible(cd, e.r, IF r[1] = 1 THEN Fixed(e.l.v)
                           ELSE IF e.l.v = 0 THEN <<1, maxValueOfNBits(e.l.w)>> ELSE <<0, e.l.v - 1>>)
    [] e.k = "Not" /\ e.w = 1 /\ isFixed(r) -> Possible(cd, e.l, Fixed(Not1(r[1])))
    [] e.k \in {"Ult", "Ule"} /\ isFixed(r) -> PossibleCompare(cd, e, r[1], RangeOf(e.l), RangeOf(e.r))
    [] OTHER -> cd

\* propagateExactValues: into the newest write that may be at the index, if it must be.
ExactAlias(ups, index) == SelectSeq(ups, LAMBDA u : mayEqual(RangeOf(u[1]), index))
RECURSIVE Exact(_, _, _)
ExactRead(cd, e, r, index, hits) ==
  IF hits # << >>
    THEN IF mustEqual(RangeOf(hits[1][1]), index) \/ e.l = hits[1][1]
           THEN Exact(cd, hits[1][2], r) ELSE cd
  ELSE IF ~isFixed(index) \/ ~e.root.sym THEN cd
  ELSE [cd EXCEPT !.exact[index[1]] = set_intersection(@, r)]
Exact(cd, e, r) ==
  CASE e.k = "Read" -> ExactRead(cd, e, r, RangeOf(e.l), ExactAlias(e.ups, RangeOf(e.l)))
    [] e.k = "Eq" /\ isFixed(r) /\ IsConst(e.l) /\ r[1] = 1 -> Exact(cd, e.r, Fixed(e.l.v))
    [] e.k = "Eq" /\ isFixed(r) /\ IsConst(e.l) /\ r[1] = 0 /\ e.r.w = 1 ->
         Exact(cd, e.r, Fixed(Not1(e.l.v)))
    [] e.k = "Not" /\ e.w = 1 /\ isFixed(r) -> Exact(cd, e.l, Fixed(Not1(r[1])))
    [] OTHER -> cd
-----------------------------------------------------------------------------
(* The query: constraints => expr                                           *)
Middle(r) == r[1] + (r[2] - r[1]) \div 2
Guess(cd) == [i \in DOMAIN cd.possible |-> Middle(cd.possible[i])]
ExactPart(cd) == [i \in DOMAIN cd.exact |-> IF isFixed(cd.exact[i]) THEN cd.exact[i][1] ELSE Free]

\* propagateValues: "valid", "invalid" or "none", and the ranges.
NewData(size) == [possible |-> [i \in 0 .. size - 1 |-> Full(ByteBits)],
                  exact |-> [i \in 0 .. size - 1 |-> Full(ByteBits)]]
Propagate(cd, e, v) == Exact(Possible(cd, e, Fixed(v)), e, Fixed(v))
Denied(cd, expr, checkExpr) == IF checkExpr THEN Propagate(cd, expr, 0) ELSE cd
Propagated(cs, expr, checkExpr, size) ==
  Denied(FoldLeft(LAMBDA d, c : Propagate(d, c, 1), NewData(size), cs), expr, checkExpr)
\* From the constraints and the expression, evaluated under the guess and the exact part.
Answer(checkExpr, guessedCs, guessed, exactCs, exact) ==
  IF checkExpr /\ exact = True THEN "valid"
  ELSE IF False \in Range(exactCs) THEN "valid"
  ELSE IF (checkExpr => guessed = False) /\ Range(guessedCs) \subseteq {True} THEN "invalid"
  ELSE "none"
EvaluateAll(cs, A) == [n \in DOMAIN cs |-> Evaluate(cs[n], A)]
AnswerFrom(cs, expr, checkExpr, cd) ==
  Answer(checkExpr, EvaluateAll(cs, Guess(cd)), Evaluate(expr, Guess(cd)),
         EvaluateAll(cs, ExactPart(cd)), Evaluate(expr, ExactPart(cd)))
propagateValues(cs, expr, checkExpr, size) ==
  AnswerFrom(cs, expr, checkExpr, Propagated(cs, expr, checkExpr, size))
=============================================================================
