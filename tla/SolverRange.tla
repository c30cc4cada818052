----------------------------- MODULE SolverRange -----------------------------
(***************************************************************************)
(* The smallest and the largest value of an expression (Solver::getRange), *)
(* by binary search with queries.  V is the set of the values which the    *)
(* expression, of some width, has under the constraints.                   *)
(***************************************************************************)
EXTENDS Integers, FiniteSets

\* What the queries of the searches answer.
mustBeShifted(V, bits) == \A v \in V : v \div 2^bits = 0
mayBeUpTo(V, x) == \E v \in V : v <= x
mustBeUpTo(V, x) == \A v \in V : v <= x

\* Each search keeps what it looks for in lo .. hi.
RECURSIVE UsefulBits(_, _, _)
UsefulBits(V, lo, hi) ==
  LET mid == lo + (hi - lo) \div 2
  IN IF lo >= hi THEN lo
     ELSE IF mustBeShifted(V, mid) THEN UsefulBits(V, lo, mid) ELSE UsefulBits(V, mid + 1, hi)

RECURSIVE Smallest(_, _, _)
Smallest(V, lo, hi) ==
  LET mid == lo + (hi - lo) \div 2
  IN IF lo >= hi THEN lo
     ELSE IF mayBeUpTo(V, mid) THEN Smallest(V, lo, mid) ELSE Smallest(V, mid + 1, hi)

RECURSIVE Largest(_, _, _)
Largest(V, lo, hi) ==
  LET mid == lo + (hi - lo) \div 2
  IN IF lo >= hi THEN lo
     ELSE IF mustBeUpTo(V, mid) THEN Largest(V, lo, mid) ELSE Largest(V, mid + 1, hi)

maxValueOfNBits(n) == 2^n - 1

Searched(V, width) ==
  LET top == maxValueOfNBits(UsefulBits(V, 0, width))
      min == IF 0 \in V THEN 0 ELSE Smallest(V, 0, top)
  IN <<min, Largest(V, min, top)>>

getRange(V, width) ==
  IF width = 1 THEN IF V = {1} THEN <<1, 1>> ELSE IF V = {0} THEN <<0, 0>> ELSE <<0, 1>>
  ELSE Searched(V, width)
=============================================================================
