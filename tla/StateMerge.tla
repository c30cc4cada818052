------------------------------ MODULE StateMerge ------------------------------
(***************************************************************************)
(* Merging state b into state a (ExecutionState::merge).  A condition is   *)
(* the set of inputs it is true of, a value a function from inputs.  A     *)
(* local without a value is NULL.                                          *)
(***************************************************************************)
EXTENDS Sequences

CONSTANTS Input, NULL

Inputs(s) == {i \in Input : \A c \in s.constraints : i \in c}

\* AND of conditions, and SelectExpr::create.
All(conditions) == {i \in Input : \A c \in conditions : i \in c}
Select(c, v, w) == [i \in Input |-> IF i \in c THEN v[i] ELSE w[i]]

\* The states are at one place: instruction, symbolic arrays, frames and objects agree.
Mergeable(a, b) ==
  /\ a.pc = b.pc
  /\ a.symbolics = b.symbolics
  /\ [n \in DOMAIN a.stack |-> <<a.stack[n].caller, a.stack[n].kf>>]
       = [n \in DOMAIN b.stack |-> <<b.stack[n].caller, b.stack[n].kf>>]
  /\ DOMAIN a.objects = DOMAIN b.objects

MergedLocals(inA, a, b) ==
  [n \in DOMAIN a.stack |->
    [a.stack[n] EXCEPT !.locals = [r \in DOMAIN @ |->
       LET v == @[r]  w == b.stack[n].locals[r]
       IN IF v = NULL \/ w = NULL THEN v ELSE Select(inA, v, w)]]]

\* The objects with a state of their own in a and b, byte by byte.
MergedObjects(inA, a, b) ==
  [mo \in DOMAIN a.objects |->
    IF a.objects[mo] = b.objects[mo] THEN a.objects[mo]
    ELSE [n \in DOMAIN a.objects[mo] |-> Select(inA, a.objects[mo][n], b.objects[mo][n])]]

Merged(common, inA, inB, a, b) ==
  [a EXCEPT !.stack = MergedLocals(inA, a, b),
            !.objects = MergedObjects(inA, a, b),
            !.constraints = common \cup {inA \cup inB}]

\* A slip: the values are told apart by the constraints both states have.
mergeOnCommon(a, b) ==
  LET common == a.constraints \cap b.constraints
  IN IF ~Mergeable(a, b) THEN NULL
     ELSE Merged(common, All(common), All(b.constraints \ common), a, b)

\* What a is after merge, or NULL if the states are not merged.
merge(a, b) ==
  LET common == a.constraints \cap b.constraints
  IN IF ~Mergeable(a, b) THEN NULL
     ELSE Merged(common, All(a.constraints \ common), All(b.constraints \ common), a, b)
-----------------------------------------------------------------------------
\* Every input of s finds in the merged state t the values it has in s, in memory and in the
\* locals which both merged states have.
Sees(s, other, t) ==
  \A i \in Inputs(s) :
    /\ \A mo \in DOMAIN s.objects : \A n \in DOMAIN s.objects[mo] : t.objects[mo][n][i] = s.objects[mo][n][i]
    /\ \A n \in DOMAIN s.stack : \A r \in DOMAIN s.stack[n].locals :
         s.stack[n].locals[r] # NULL /\ other.stack[n].locals[r] # NULL
           => t.stack[n].locals[r][i] = s.stack[n].locals[r][i]
=============================================================================
