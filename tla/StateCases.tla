------------------------------ MODULE StateCases ------------------------------
(***************************************************************************)
(* Bounded inputs for StateMerge, SolverRange, CallFrames, Preparation and *)
(* Distances.                                                              *)
(***************************************************************************)
EXTENDS Integers, Sequences, FiniteSets, SequencesExt, FiniteSetsExt

\* Two states that went apart at a condition; both may have decided another one since.
Input == 0 .. 3
NULL == << >>
M == INSTANCE StateMerge

Low == {0, 1}
Even == {0, 2}
Values == {[i \in Input |-> 0], [i \in Input |-> i], [i \in Input |-> 3 - i]}
Locals == {<<v, w>> : v \in Values, w \in {NULL, [i \in Input |-> i]}}
Merging(constraints) ==
  [pc : {1}, symbolics : {1}, constraints : constraints,
   stack : {<<[caller |-> 0, kf |-> 1, locals |-> l]>> : l \in Locals},
   objects : [1 .. 2 -> {<<v>> : v \in Values}]]
FirstStates == Merging({{Low}, {Low, Even}, {Low, {0, 1, 2}}})
SecondStates == Merging({{Input \ Low}, {Input \ Low, Even}, {Input \ Low, {0, 1, 2}}})
             \cup {[s EXCEPT !.pc = 2] : s \in Merging({{Input \ Low}})}

MergesBoth(a) ==
  \A b \in SecondStates : LET t == M!merge(a, b) IN
  /\ t = NULL <=> a.pc # b.pc
  /\ t # NULL => /\ M!Inputs(t) = M!Inputs(a) \cup M!Inputs(b)
                 /\ M!Sees(a, b, t) /\ M!Sees(b, a, t)
-----------------------------------------------------------------------------
R == INSTANCE SolverRange
Ranges == UNION {[width : {w}, values : SUBSET (0 .. 2^w - 1) \ {{}}] : w \in 1 .. 3}
RangeExact(r) == R!getRange(r.values, r.width) = <<Min(r.values), Max(r.values)>>
-----------------------------------------------------------------------------
C == INSTANCE CallFrames
Arg(width, byval) == [width |-> width, byval |-> byval, align |-> IF byval THEN 8 ELSE 0]
Arguments(word) ==
  {Arg(32, FALSE), Arg(64, FALSE)}
  \cup (IF word = 64 THEN {Arg(80, FALSE), Arg(128, FALSE), Arg(192, TRUE), Arg(24, TRUE)} ELSE {})
Calling == UNION {[word : {w}, args : UNION {[1 .. n -> Arguments(w)] : n \in 1 .. 3}] : w \in {32, 64}}
ArgumentsRead(call) == \A base \in {16, 24} : C!ReadBack(call.word, call.args, base)

Pointers == [1 .. 4 -> 1 .. 3]
PointerCalls(p) ==
  \A legal \in SUBSET (1 .. 3), order \in {<<1, 2, 3>>, <<3, 2, 1>>, <<2, 1, 3>>} : C!CallsExact(p, legal, order)
-----------------------------------------------------------------------------
LongLong == 3
FunctionType == <<"f", "f", "f", "g">>
P == INSTANCE Preparation WITH NULL <- 0
Reg(n) == P!Value("reg", n)
Const(n) == P!Value("const", n)

\* A loop of the blocks 2 and 3 after block 1; block 2 has registers 1 and 2 and a switch,
\* block 3 has register 3, block 4 is the exit and has register 4.
Cases == {<< <<0, 3>> >>, << <<0, 3>>, <<1, 3>> >>, << <<1, 2>>, <<0, 3>> >>, << <<2, 4>>, <<1, 3>> >>,
          << <<1, 2>>, <<2, 2>>, <<0, 3>> >>}
Edges(cases, b) == Cardinality({n \in DOMAIN cases : cases[n][2] = b})
Twice(b, n, v) == [k \in 1 .. n |-> <<b, v>>]
InBlock2(order, cases, start, back, self) ==
  LET here == Twice(2, Edges(cases, 2), self)
  IN IF order THEN << <<1, start>> >> \o here \o << <<3, back>> >> ELSE << <<3, back>>, <<1, start>> >> \o here
Function(order, cases, first, second) ==
  LET Br(b) == P!Branch(b)
      Block(phis, term) == [phis |-> phis, moves |-> << >>, term |-> term]
      Phi(reg, in) == [reg |-> reg, in |-> in]
  IN [order |-> <<1, 2, 4, 3>>,
      at |-> <<Block(<< >>, Br(2)),
               Block(<<Phi(1, InBlock2(TRUE, cases, P!Value("arg", 0), first, Reg(2))),
                       Phi(2, InBlock2(order, cases, Const(1), second, Reg(1)))>>,
                     [switch |-> TRUE, on |-> Reg(1), cases |-> cases, default |-> 4]),
               Block(<<Phi(3, Twice(2, Edges(cases, 3), Reg(2)))>>, Br(2)),
               Block(<<Phi(4, Twice(2, 1 + Edges(cases, 4), Reg(1)))>>, Br(0))>>]
Loops == {Function(order, cases, first, second) : order \in BOOLEAN, cases \in Cases,
            first \in {Reg(1), Reg(2), Reg(3), Const(2)}, second \in {Reg(1), Reg(2), Reg(3), Const(0)}}
Alike(f) == \A simple \in BOOLEAN, a \in 0 .. 2 : P!RunsAlike(f, [x \in {0} |-> a], simple, 24)
-----------------------------------------------------------------------------
Checked == UNION {[op : {"UDiv", "SRem", "Shl", "AShr", "Add"}, width : {w}, operand : 0 .. 2^w - 1,
                   constant : BOOLEAN, notes : {{}}] : w \in 1 .. LongLong}
Guarded(inst) ==
  \A next \in Checked, passes \in {<<"div", "shift">>, <<"div", "shift", "div", "shift">>} :
    P!Guarded(<<inst, next>>, passes)
-----------------------------------------------------------------------------
AliasOptions == [names : {{1}, {2}, {3}, {1, 2}, {1, 2, 3, 4}}, replacement : 1 .. 4]
Aliasing == [module : {<<1, 2, 3, 4>>, <<2, 2, 3, 4>>}, first : AliasOptions]
Redirected(a) == \A o, q \in AliasOptions : P!Redirects(a.module, <<a.first, o, q>>)
-----------------------------------------------------------------------------
\* Function 1 (1 .. 4, with a branch and a call) calls function 2 (5 .. 6) or one without a
\* body, of which 4 returns; function 2 may call function 1.
G == INSTANCE Distances
Callees == {{2}, {3}, {4}, {2, 4}, {}}
Endings == {"plain", "ret", "loop", "stop"}

\* Instruction i of a function: kinds gives what the last ones do.
Calls(targets, back, kinds) ==
  LET Ends(i) == kinds[i] IN
  [n |-> 6, fn |-> [i \in 1 .. 6 |-> IF i <= 4 THEN 1 ELSE 2],
   entry |-> <<1, 5>>, functions |-> 4, returning |-> {4},
   rets |-> {i \in {3, 4, 6} : Ends(i) = "ret"},
   calls |-> [i \in {2} \cup (IF back THEN {5} ELSE {}) |-> IF i = 2 THEN targets ELSE {1}],
   succs |-> [i \in 1 .. 6 |->
                IF i = 1 THEN {2, 3} ELSE IF i \in {2, 5} THEN {i + 1}
                ELSE CASE Ends(i) = "plain" -> IF i = 3 THEN {4} ELSE {}
                       [] Ends(i) = "loop" -> {IF i = 6 THEN 5 ELSE 1}
                       [] OTHER -> {}]]

Shapes == [targets : Callees, back : BOOLEAN, kinds : [{3, 4, 6} -> Endings]]
CallsOf(shape) == Calls(shape.targets, shape.back, shape.kinds)

Longest == 12
Least(Is(_)) == LET ns == {n \in 1 .. Longest : Is(n)} IN IF ns = {} THEN 0 ELSE Min(ns)

ReturnsExact(p) ==
  LET dist == G!minDistToReturn(p)
  IN \A i \in 1 .. p.n : dist[i] = Least(LAMBDA n : G!ReturnsIn(p, i, n))

DistancesSound(p, uncovered) ==
  /\ LET dist == G!minDistToUncovered(p, uncovered)
     IN \A i \in 1 .. p.n : dist[i] # 0 => G!ReachesIn(p, uncovered, i, dist[i])
  /\ \A where \in {<<3, 5>>, <<3, 6>>, <<3, 5, 1>>, <<3, 6, 2>>} :
       LET d == G!StateDistance(p, uncovered, where, 0)
       IN d # 0 => G!StackReachesIn(p, uncovered, where, d)

DistancesRight(shape) ==
  LET p == CallsOf(shape)
  IN ReturnsExact(p) /\ \A uncovered \in {{4}, {6}, {5}, {1}, {3, 6}} : DistancesSound(p, uncovered)
=============================================================================
