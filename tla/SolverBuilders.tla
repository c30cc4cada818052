--------------------------- MODULE SolverBuilders ---------------------------
(***************************************************************************)
(* Z3Builder, STPBuilder and MetaSMTBuilder: an expression as a term of    *)
(* the solver.  An expression of width 1 is a Boolean, any other a bit     *)
(* vector.  Each builder has its own way to divide and to shift.           *)
(***************************************************************************)
EXTENDS Expressions, FiniteSetsExt

(***************************************************************************)
(* The bit-vector language of the solvers Z3, STP and those behind         *)
(* metaSMT, as far as the builders use it.  A term stands for its value    *)
(* under one assignment, with its sort: a Boolean or a bit vector of some  *)
(* width.  A term a solver rejects as ill sorted is Ill.                   *)
(***************************************************************************)

BV(w, v) == [s |-> "bv", w |-> w, v |-> v % 2^w]
Bool(b) == [s |-> "bool", w |-> 1, v |-> Bit(b)]
Ill == [s |-> "ill", w |-> 0, v |-> 0]
IsBV(x) == x.s = "bv"
SameSort(x, y) == x.s # "ill" /\ x.s = y.s /\ x.w = y.w

bvOp(op, x, y) ==
  IF ~IsBV(x) \/ ~SameSort(x, y) THEN Ill
  ELSE IF op \in Divisions /\ y.v = 0 THEN BV(x.w, 2^x.w - 1)
  ELSE BV(x.w, Apply(op, x.w, x.v, y.v))
bvAdd(x, y) == IF IsBV(x) /\ SameSort(x, y) THEN BV(x.w, x.v + y.v) ELSE Ill
bvSub(x, y) == IF IsBV(x) /\ SameSort(x, y) THEN BV(x.w, x.v - y.v) ELSE Ill
bvCompare(op, x, y) ==
  IF ~IsBV(x) \/ ~SameSort(x, y) THEN Ill ELSE Bool(Apply(op, x.w, x.v, y.v) = 1)
bvConcat(x, y) == IF IsBV(x) /\ IsBV(y) THEN BV(x.w + y.w, x.v * 2^y.w + y.v) ELSE Ill
bvExtract(x, top, bottom) ==
  IF IsBV(x) /\ bottom \in 0 .. top /\ top < x.w THEN BV(top - bottom + 1, x.v \div 2^bottom) ELSE Ill
bvNot(x) == IF IsBV(x) THEN BV(x.w, 2^x.w - 1 - x.v) ELSE Ill
bvSignExtend(x, w) == IF IsBV(x) /\ x.w <= w THEN BV(w, Signed(x.w, x.v)) ELSE Ill
eqTerm(x, y) == IF SameSort(x, y) THEN Bool(x.v = y.v) ELSE Ill
boolOp(op, x, y) ==
  IF SameSort(x, y) /\ x.s = "bool" THEN Bool(Apply(op, 1, x.v, y.v) = 1) ELSE Ill
notTerm(x) == IF x.s = "bool" THEN Bool(x.v = 0) ELSE Ill
ite(c, x, y) == IF c.s = "bool" /\ SameSort(x, y) THEN IF c.v = 1 THEN x ELSE y ELSE Ill
bvZero(w) == BV(w, 0)
bvMinusOne(w) == BV(w, -1)
boolExtract(x, b) == eqTerm(bvExtract(x, b, b), BV(1, 1))

\* An array stands for its contents; an element outside the symbolic array has any value.
select(a, i) == IF IsBV(i) /\ i.v \in DOMAIN a THEN a[i.v] ELSE Ill
store(a, i, x) == IF IsBV(i) /\ IsBV(x) THEN [a EXCEPT ![i.v] = x] ELSE a

\* A case for each amount, the later ones tried first; otherwise the default.
Cases(amounts, amount, case(_), default) ==
  LET hits == {i \in amounts : eqTerm(amount, BV(amount.w, i)).v = 1} IN
  IF hits = {} THEN default ELSE case(Min(hits))

\* bvLeftShift, bvRightShift, constructAShrByConstant: a shift by a known amount.
ShlBy(x, n) ==
  IF n = 0 THEN x ELSE IF n >= x.w THEN bvZero(x.w)
  ELSE bvConcat(bvExtract(x, x.w - n - 1, 0), bvZero(n))
LShrBy(x, n) ==
  IF n = 0 THEN x ELSE IF n >= x.w THEN bvZero(x.w)
  ELSE bvConcat(bvZero(n), bvExtract(x, x.w - 1, n))
AShrBy(x, n, sign) ==
  IF n = 0 THEN x ELSE IF n >= x.w THEN bvZero(x.w)
  ELSE ite(sign, bvConcat(bvMinusOne(n), bvExtract(x, x.w - 1, n)), LShrBy(x, n))
ShiftBy(op, x, n) ==
  CASE op = "Shl" -> ShlBy(x, n)
    [] op = "LShr" -> LShrBy(x, n)
    [] op = "AShr" -> AShrBy(x, n, boolExtract(x, x.w - 1))

\* bvVarLeftShift, bvVarRightShift, bvVarArithRightShift: to zero from the width on.
Z3VarShift(op, x, n) ==
  LET last == IF op = "AShr" THEN ShiftBy(op, x, x.w - 1) ELSE bvZero(x.w)
      res  == Cases(0 .. x.w - 1, n, LAMBDA i : ShiftBy(op, x, i), last)
  IN ite(bvCompare("Ult", n, BV(n.w, x.w)), res, bvZero(x.w))
\* STP looks at the bits that hold an amount up to the width.
shiftBits(w) == CHOOSE k \in 1 .. w : 2^k > w /\ 2^(k - 1) <= w
STPVarShift(op, x, n) ==
  LET part == bvExtract(n, shiftBits(x.w) - 1, 0)
      last == IF op = "AShr" THEN ShiftBy(op, x, x.w - 1) ELSE bvZero(x.w)
      res  == Cases(0 .. x.w - 1, part, LAMBDA i : ShiftBy(op, x, i), last)
  IN ite(bvCompare("Ult", n, BV(n.w, x.w)), res, bvZero(x.w))
MetaVarShift(op, x, n) ==
  ite(bvCompare("Ult", n, BV(x.w, x.w)), bvOp(op, x, n), bvZero(x.w))
varLShr(b, x, n) == IF b = "stp" THEN STPVarShift("LShr", x, n) ELSE MetaVarShift("LShr", x, n)

\* bits64::isPowerOfTwo and indexOfSingleBit.
isPowerOfTwo(d) == d # 0 /\ \E n \in 0 .. d : 2^n = d
indexOfSingleBit(d) == CHOOSE n \in 0 .. d : 2^n = d
-----------------------------------------------------------------------------
(***************************************************************************)
(* ConstantDivision: multiplication and division by a constant without     *)
(* multiplying or dividing, after Hacker's Delight, and the way the STP    *)
(* and metaSMT builders use the constants.  The code has words of 32 bits, *)
(* and 64 for products; here a word has Word bits.                         *)
(***************************************************************************)
CONSTANT Word   \* 32
Double == 2 * Word

\* ldz and LOG2_CEIL: 0 for d = 1, Word for d above 2^(Word - 1).
Log2Ceil(d) == CHOOSE l \in 0 .. Word : 2^l >= d /\ (l = 0 \/ 2^(l - 1) < d)
\* exp_base_2: 0 when the bit does not fit.
exp_base_2(n) == 2^n % 2^Word

\* One run of ones, bits low .. high - 1, as 2^high - 2^low, or as the single bit.  A bit just
\* below that was going to be added is subtracted instead.
Run(x, low, add, sub) ==
  LET high == CHOOSE h \in low + 1 .. Double : Bits(x, h, 1) = 0 /\ \A k \in low .. h - 1 : Bits(x, k, 1) = 1
      top  == IF high = Double THEN {} ELSE {high}
  IN IF high = low + 1 THEN [add |-> add \cup {low}, sub |-> sub]
     ELSE IF low - 1 \in add THEN [add |-> (add \ {low - 1}) \cup top, sub |-> sub \cup {low - 1}]
     ELSE [add |-> add \cup top, sub |-> sub \cup {low}]
RECURSIVE MultConstants(_, _, _)
MultConstants(x, low, c) ==
  IF low = Double THEN c
  ELSE IF Bits(x, low, 1) = 1 /\ (low = 0 \/ Bits(x, low - 1, 1) = 0)
    THEN MultConstants(x, low + 1, Run(x, low, c.add, c.sub))
  ELSE MultConstants(x, low + 1, c)
ComputeMultConstants64(x) == MultConstants(x, 0, [add |-> {}, sub |-> {}])

\* constructMulByConstant: the sum and difference of shifts, from the highest bit.
constructMulByConstant(e, x) ==
  LET c == ComputeMultConstants64(x)
      term(res, j) == IF j \in c.add THEN bvAdd(res, ShlBy(e, j))
                      ELSE IF j \in c.sub THEN bvSub(res, ShlBy(e, j)) ELSE res
  IN FoldLeft(term, bvZero(e.w), [k \in 1 .. e.w |-> e.w - k])

ComputeUDivConstants32(d) ==
  LET l == Log2Ceil(d)
      mid == (exp_base_2(l) - d) % 2^Word
  IN [mprime |-> ((2^Word * mid) \div d + 1) % 2^Word, sh1 |-> Min({l, 1}), sh2 |-> Max({l - 1, 0})]
UDivShifts(b, n, t1, c) ==
  varLShr(b, bvAdd(varLShr(b, bvSub(n, t1), BV(Word, c.sh1)), t1), BV(Word, c.sh2))
UDivFrom(b, n, c) ==
  UDivShifts(b, n, bvExtract(constructMulByConstant(bvConcat(bvZero(Word), n), c.mprime), Double - 1, Word), c)
constructUDivByConstant(b, n, d) == UDivFrom(b, n, ComputeUDivConstants32(d))

ComputeSDivConstants32(d) ==
  LET sd    == Signed(Word, d)
      abs_d == Magnitude(sd)
      l     == IF abs_d = 2^(Word - 1) THEN Word - 1 ELSE Max({1, Log2Ceil(abs_d)})
      m     == (2^Word * exp_base_2(l - 1)) \div abs_d + 1
  IN [mprime |-> Signed(Word, (m - 2^Word) % 2^Word), dsign |-> IF sd < 0 THEN -1 ELSE 0,
      shpost |-> l - 1]
\* The amount of the shift is a word for STP, a double word for metaSMT.
SDivFrom(b, n, c) ==
  LET amount == IF b = "stp" THEN Word ELSE Double
      mulsh == bvExtract(constructMulByConstant(bvSignExtend(n, Double), c.mprime % 2^Double),
                         Double - 1, Word)
      npm   == bvSignExtend(bvAdd(n, mulsh), Double)
      post  == bvExtract(varLShr(b, npm, BV(amount, c.shpost)), Word - 1, 0)
      xsign == ite(boolExtract(n, Word - 1), bvMinusOne(Word), bvZero(Word))
  IN bvSub(bvOp("Xor", bvSub(post, xsign), BV(Word, c.dsign)), BV(Word, c.dsign))
constructSDivByConstant(b, n, d) == SDivFrom(b, n, ComputeSDivConstants32(d))
-----------------------------------------------------------------------------
CONSTANT optimizeDivides   \* --solver-optimize-divides
Builders == {"z3", "stp", "metasmt"}

RECURSIVE Construct(_, _, _)

\* getInitialArray and getArrayForUpdate: the contents, then the writes from the oldest.
Z3InitialArray(root, A) ==
  [i \in 0 .. Len(root.vals) - 1 |-> BV(2, IF root.sym THEN A[i] ELSE root.vals[i + 1])]
STPInitialArray(root, A) ==
  LET any == [i \in 0 .. Len(root.vals) - 1 |-> BV(2, IF root.sym THEN A[i] ELSE 0)]
  IN IF root.sym THEN any
     ELSE FoldLeft(LAMBDA a, i : store(a, BV(2, i - 1), BV(2, root.vals[i])), any,
                   [i \in DOMAIN root.vals |-> i])
\* Mutant: the oldest write is made last.
ArrayNewestFirst(b, e, A) ==
  FoldLeft(LAMBDA a, u : store(a, Construct(b, u[1], A), Construct(b, u[2], A)),
           IF b = "z3" THEN Z3InitialArray(e.root, A) ELSE STPInitialArray(e.root, A), e.ups)
getArrayForUpdate(b, e, A) ==
  FoldLeft(LAMBDA a, u : store(a, Construct(b, u[1], A), Construct(b, u[2], A)),
           IF b = "z3" THEN Z3InitialArray(e.root, A) ELSE STPInitialArray(e.root, A), Reverse(e.ups))

\* A remainder of a power of two: the low bits.
LowBits(x, n) == IF n = 0 THEN bvZero(x.w) ELSE bvConcat(bvZero(x.w - n), bvExtract(x, n - 1, 0))

\* UDiv, SDiv, URem, SRem.  r is the divisor's expression.
Z3Divide(op, x, r, A) ==
  IF op = "UDiv" /\ IsConst(r) /\ isPowerOfTwo(r.v) THEN LShrBy(x, indexOfSingleBit(r.v))
  ELSE IF op = "URem" /\ IsConst(r) /\ isPowerOfTwo(r.v) THEN LowBits(x, indexOfSingleBit(r.v))
  ELSE bvOp(op, x, Construct("z3", r, A))
STPDivide(op, x, r, A) ==
  LET quotient == constructUDivByConstant("stp", x, r.v)
  IN IF ~IsConst(r) \/ op = "SRem" THEN bvOp(op, x, Construct("stp", r, A))
     ELSE IF op = "UDiv" /\ isPowerOfTwo(r.v) THEN LShrBy(x, indexOfSingleBit(r.v))
     ELSE IF op = "URem" /\ isPowerOfTwo(r.v) THEN LowBits(x, indexOfSingleBit(r.v))
     ELSE IF ~optimizeDivides \/ x.w # Word \/ (op = "SDiv" /\ r.v \in {1, 2^Word - 1})
       THEN bvOp(op, x, Construct("stp", r, A))
     ELSE CASE op = "UDiv" -> quotient
            [] op = "URem" -> bvOp("Sub", x, constructMulByConstant(quotient, r.v))
            [] op = "SDiv" -> constructSDivByConstant("stp", x, r.v)
\* metaSMT computes a remainder by a constant word over the low bits, too.
MetaDivide(op, x, r, A) ==
  LET quotient == constructUDivByConstant("metasmt", x, r.v)
      fast == optimizeDivides /\ x.w = Word
  IN CASE op = "UDiv" /\ IsConst(r) /\ isPowerOfTwo(r.v) -> LShrBy(x, indexOfSingleBit(r.v))
       [] op = "UDiv" /\ IsConst(r) /\ ~isPowerOfTwo(r.v) /\ fast -> quotient
       [] op = "URem" /\ IsConst(r) /\ fast -> bvOp("Sub", x, constructMulByConstant(quotient, r.v))
       [] op = "URem" /\ IsConst(r) /\ isPowerOfTwo(r.v) /\ ~fast -> LowBits(x, indexOfSingleBit(r.v))
       [] op = "SDiv" /\ IsConst(r) /\ fast /\ r.v \notin {1, 2^Word - 1} ->
            constructSDivByConstant("metasmt", x, r.v)
       [] OTHER -> bvOp(op, x, Construct("metasmt", r, A))
-----------------------------------------------------------------------------
(* constructActual, by the kind of the expression.                           *)
(* No Boolean reaches the arithmetic.                                        *)
StructureTerm(b, e, A) ==
  LET C(x) == Construct(b, x, A) IN
  CASE e.k = "Constant" -> IF e.w = 1 THEN Bool(e.v = 1) ELSE BV(e.w, e.v)
    [] e.k = "Read" -> select(getArrayForUpdate(b, e, A), C(e.l))
    [] e.k = "Select" -> ite(C(e.c), C(e.l), C(e.r))
    [] e.k = "Concat" -> bvConcat(C(e.l), C(e.r))
    [] e.k = "Extract" -> IF e.w = 1 THEN boolExtract(C(e.l), e.off)
                          ELSE bvExtract(C(e.l), e.off + e.w - 1, e.off)
CastTerm(b, e, A) ==
  LET C(x) == Construct(b, x, A) IN
  CASE e.k = "ZExt" -> IF e.l.w = 1 THEN ite(C(e.l), BV(e.w, 1), bvZero(e.w))
                       ELSE bvConcat(bvZero(e.w - e.l.w), C(e.l))
    [] e.k = "SExt" -> IF e.l.w = 1 THEN ite(C(e.l), bvMinusOne(e.w), bvZero(e.w))
                       ELSE bvSignExtend(C(e.l), e.w)
BitsTerm(b, e, A) ==
  LET C(x) == Construct(b, x, A) IN
  IF e.k = "Not" THEN IF e.w = 1 THEN notTerm(C(e.l)) ELSE bvNot(C(e.l))
  ELSE IF e.w > 1 THEN bvOp(e.k, C(e.l), C(e.r))
  ELSE IF e.k = "Xor" THEN ite(C(e.l), notTerm(C(e.r)), C(e.r))
  ELSE boolOp(e.k, C(e.l), C(e.r))
CompareTerm(b, e, A) ==
  LET C(x) == Construct(b, x, A) IN
  IF e.k # "Eq" THEN bvCompare(e.k, C(e.l), C(e.r))
  ELSE IF e.l.w > 1 \/ ~IsConst(e.l) THEN eqTerm(C(e.l), C(e.r))
  ELSE IF IsZero(e.l) THEN notTerm(C(e.r)) ELSE C(e.r)

Structural == {"Constant", "Read", "Select", "Concat", "Extract"}
Casts == {"ZExt", "SExt"}
Logical == Bitwise1 \cup {"Not"}

Z3Arith(e, x, A) ==
  IF e.k \in Divisions THEN Z3Divide(e.k, x, e.r, A) ELSE bvOp(e.k, x, Construct("z3", e.r, A))
Z3Shift(e, x, A) ==
  IF IsConst(e.r) THEN ShiftBy(e.k, x, e.r.v) ELSE Z3VarShift(e.k, x, Construct("z3", e.r, A))
Z3Actual(e, A) ==
  LET C(x) == Construct("z3", x, A) IN
  CASE e.k \in Structural -> StructureTerm("z3", e, A)
    [] e.k \in Casts -> CastTerm("z3", e, A)
    [] e.k \in Arithmetic -> Z3Arith(e, C(e.l), A)
    [] e.k \in Logical -> BitsTerm("z3", e, A)
    [] e.k \in Shifts -> Z3Shift(e, C(e.l), A)
    [] e.k \in Comparisons -> CompareTerm("z3", e, A)

\* A constant factor is decomposed.
STPArith(e, x, A) ==
  IF e.k \in Divisions THEN STPDivide(e.k, x, e.r, A)
  ELSE IF e.k = "Mul" /\ IsConst(e.l) THEN constructMulByConstant(Construct("stp", e.r, A), e.l.v)
  ELSE bvOp(e.k, x, Construct("stp", e.r, A))
STPBitsCompare(e, A) ==
  LET C(x) == Construct("stp", x, A) IN
  IF e.k \in Comparisons THEN CompareTerm("stp", e, A)
  ELSE IF e.k \in Logical THEN BitsTerm("stp", e, A)
  ELSE IF IsConst(e.r) THEN ShiftBy(e.k, C(e.l), e.r.v) ELSE STPVarShift(e.k, C(e.l), C(e.r))
STPActual(e, A) ==
  LET C(x) == Construct("stp", x, A) IN
  CASE e.k \in Structural -> StructureTerm("stp", e, A)
    [] e.k \in Casts -> CastTerm("stp", e, A)
    [] e.k \in Arithmetic -> STPArith(e, C(e.l), A)
    [] OTHER -> STPBitsCompare(e, A)

MetaArith(e, x, A) ==
  IF e.k \in Divisions THEN MetaDivide(e.k, x, e.r, A)
  ELSE IF e.k = "Mul" /\ IsConst(e.l) THEN constructMulByConstant(Construct("metasmt", e.r, A), e.l.v)
  ELSE bvOp(e.k, x, Construct("metasmt", e.r, A))
MetaBits(e, A) ==
  LET C(x) == Construct("metasmt", x, A) IN
  IF e.k \in Logical /\ ~(e.k = "Xor" /\ e.w = 1) THEN BitsTerm("metasmt", e, A) ELSE boolOp("Xor", C(e.l), C(e.r))
MetaShiftCompare(e, A) ==
  LET C(x) == Construct("metasmt", x, A) IN
  IF e.k \in Comparisons THEN CompareTerm("metasmt", e, A)
  ELSE IF IsConst(e.r) THEN ShiftBy(e.k, C(e.l), e.r.v) ELSE MetaVarShift(e.k, C(e.l), C(e.r))
MetaActual(e, A) ==
  LET C(x) == Construct("metasmt", x, A) IN
  CASE e.k \in Structural -> StructureTerm("metasmt", e, A)
    [] e.k \in Casts -> CastTerm("metasmt", e, A)
    [] e.k \in Arithmetic -> MetaArith(e, C(e.l), A)
    [] e.k \in Logical -> MetaBits(e, A)
    [] OTHER -> MetaShiftCompare(e, A)

Construct(b, e, A) ==
  CASE b = "z3" -> Z3Actual(e, A)
    [] b = "stp" -> STPActual(e, A)
    [] b = "metasmt" -> MetaActual(e, A)
=============================================================================
