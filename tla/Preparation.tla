----------------------------- MODULE Preparation -----------------------------
(***************************************************************************)
(* What KModule makes of a program before it is interpreted: aliases take  *)
(* the place of functions, checks are put in, LowerSwitch and PhiCleaner   *)
(* rewrite each function, KFunction numbers its registers and constants,   *)
(* and the executor runs the result.                                       *)
(*                                                                         *)
(* A function f has its blocks in order and, for each, the phis [reg, in], *)
(* where in is a sequence of <<block, value>>, the moves [reg, of] and the *)
(* terminator [switch, on, cases, default], a switch or a branch.  A       *)
(* branch with one case compares and jumps, one to 0 returns.  A value is  *)
(* a register, an argument or a constant.                                  *)
(***************************************************************************)
EXTENDS Sequences, FiniteSets, SequencesExt, Integers, FiniteSetsExt

(***************************************************************************)
(* Replacing functions by aliases (FunctionAliasPass) and finding the      *)
(* function a call reaches (Executor::getTargetFunction).  A module maps   *)
(* each name to itself, a function, or to the name of the aliasee; an      *)
(* option has the names its pattern matches and the replacement.           *)
(***************************************************************************)

CONSTANTS NULL, FunctionType

IsAlias(module, name) == module[name] # name
Failed == << >>

\* The name of a function refers to what has it now: an alias takes over the name, and with
\* it all uses of the replaced value, of earlier aliases too.
tryToReplace(module, match, replacement) == [module EXCEPT ![match] = replacement]

checkType(match, replacement) == FunctionType[match] = FunctionType[replacement]

\* The names a pattern replaces; a pattern that is a name replaces it or fails.
Matched(option) == {n \in option.names : n # option.replacement /\ checkType(n, option.replacement)}

\* The end of the run is an error if a pattern replaces nothing.
RunOption(module, option) ==
  IF module = Failed \/ Matched(option) = {} THEN Failed
  ELSE [n \in DOMAIN module |-> IF n \in Matched(option) THEN tryToReplace(module, n, option.replacement)[n]
                                ELSE module[n]]

RECURSIVE runOnModule(_, _)
runOnModule(module, options) ==
  IF options = << >> THEN module ELSE runOnModule(RunOption(module, Head(options)), Tail(options))

RECURSIVE TargetFrom(_, _, _)
TargetFrom(module, name, visited) ==
  IF name \in visited THEN NULL
  ELSE IF IsAlias(module, name) THEN TargetFrom(module, module[name], visited \cup {name}) ELSE name

getTargetFunction(module, name) == TargetFrom(module, name, {})
-----------------------------------------------------------------------------
\* The function that a call of name should reach: that of the last option for the name.
RECURSIVE Reference(_, _, _, _)
Reference(module, options, name, fuel) ==
  LET mine == SelectSeq(options, LAMBDA o : name \in Matched(o)) IN
  IF fuel = 0 THEN NULL
  ELSE IF mine # << >> THEN Reference(module, options, Last(mine).replacement, fuel - 1)
  ELSE IF IsAlias(module, name) THEN Reference(module, options, module[name], fuel - 1)
  ELSE name

Redirects(module, options) ==
  LET after == runOnModule(module, options) IN
  after # Failed => \A n \in DOMAIN module :
    getTargetFunction(after, n) = Reference(module, options, n, Cardinality(DOMAIN module))
-----------------------------------------------------------------------------
(***************************************************************************)
(* The checks put before divisions and shifts (Checks.cpp, with            *)
(* klee_div_zero_check and klee_overshift_check).  An instruction has an   *)
(* operator, a width, an amount or denominator that is constant or not,    *)
(* and the annotations of the passes.  LongLong is the width of the        *)
(* argument of a check.                                                    *)
(***************************************************************************)
CONSTANT LongLong

Divisions == {"SDiv", "UDiv", "SRem", "URem"}
Shifts == {"Shl", "LShr", "AShr"}

IsNegative(v, width) == v >= 2^(width - 1)
CreateIntCast(v) == v % 2^LongLong

\* Does DivCheckPass, or OvershiftCheckPass, put a check before the instruction?
NeedsDivCheck(inst) ==
  /\ inst.op \in Divisions
  /\ ~(inst.constant /\ inst.operand # 0)
  /\ "klee.check.div" \notin inst.notes

NeedsShiftCheck(inst) ==
  /\ inst.op \in Shifts
  /\ ~(inst.constant /\ ~IsNegative(inst.operand, inst.width) /\ inst.operand < inst.width)
  /\ "klee.check.shift" \notin inst.notes

DivCheck(code) ==
  FlattenSeq([n \in DOMAIN code |->
    IF ~NeedsDivCheck(code[n]) THEN <<code[n]>>
    ELSE <<[op |-> "klee_div_zero_check", width |-> LongLong, operand |-> CreateIntCast(code[n].operand),
            constant |-> code[n].constant, notes |-> {}],
           [code[n] EXCEPT !.notes = @ \cup {"klee.check.div"}]>>])

OvershiftCheck(code) ==
  FlattenSeq([n \in DOMAIN code |->
    IF ~NeedsShiftCheck(code[n]) THEN <<code[n]>>
    ELSE <<[op |-> "klee_overshift_check", width |-> code[n].width, operand |-> CreateIntCast(code[n].operand),
            constant |-> code[n].constant, notes |-> {}],
           [code[n] EXCEPT !.notes = @ \cup {"klee.check.shift"}]>>])

\* The checks at run time.
klee_div_zero_check(inst) == inst.operand = 0
klee_overshift_check(inst) == inst.operand >= inst.width

Reports(inst) ==
  \/ inst.op = "klee_div_zero_check" /\ klee_div_zero_check(inst)
  \/ inst.op = "klee_overshift_check" /\ klee_overshift_check(inst)
-----------------------------------------------------------------------------
\* A division or a shift that is undefined.
Undefined(inst) ==
  \/ inst.op \in Divisions /\ inst.operand = 0
  \/ inst.op \in Shifts /\ inst.operand >= inst.width

\* After any runs of the passes, the code stops with a report before the first instruction
\* that is undefined, and otherwise does not.
Guarded(code, passes) ==
  LET after == FoldLeft(LAMBDA c, p : IF p = "div" THEN DivCheck(c) ELSE OvershiftCheck(c), code, passes)
      bad(c) == {n \in DOMAIN c : Undefined(c[n])}
      reports == {n \in DOMAIN after : Reports(after[n])}
  IN {"div", "shift"} \subseteq {passes[n] : n \in DOMAIN passes} =>
       /\ (reports = {}) = (bad(code) = {})
       /\ \A n \in bad(after) : \E m \in 1 .. n - 1 : m \in reports
       /\ Len(after) <= 2 * Len(code)
-----------------------------------------------------------------------------
Value(of, n) == [of |-> of, n |-> n]
Phis(f, b) == f.at[b].phis
Branch(b) == [switch |-> FALSE, on |-> Value("const", 0), cases |-> << >>, default |-> b]

\* A new block before place p of the function's list, and its number.
FreshBlock(f) == Max(DOMAIN f.at) + 1
WithBlock(f, p, term) ==
  [order |-> InsertAt(f.order, p, FreshBlock(f)),
   at |-> [b \in DOMAIN f.at \cup {FreshBlock(f)} |->
             IF b \in DOMAIN f.at THEN f.at[b] ELSE [phis |-> << >>, moves |-> << >>, term |-> term]]]
PlaceOf(f, b) == CHOOSE p \in DOMAIN f.order : f.order[p] = b

\* getBasicBlockIndex: the first entry of a phi for a block.
getBasicBlockIndex(in, b) == Min({n \in DOMAIN in : in[n][1] = b})

\* The first entry for the edge from one block becomes one for the edge from another.
Redirected(f, b, from, to) ==
  LET Entry(k) == getBasicBlockIndex(Phis(f, b)[k].in, from)
  IN [f EXCEPT !.at[b].phis = [k \in DOMAIN @ |-> [@[k] EXCEPT !.in[Entry(k)] = <<to, @[2]>>]]]

\* The chain of comparisons grows at its front; head is the block it starts with.
RECURSIVE switchConvert(_, _, _, _, _)
switchConvert(f, on, cases, orig, head) ==
  IF cases = << >> THEN [f EXCEPT !.at[orig].term = Branch(head)]
  ELSE LET new == FreshBlock(f)
           compare == [switch |-> FALSE, on |-> on, cases |-> <<cases[1]>>, default |-> head]
           g == WithBlock(f, PlaceOf(f, orig) + 1, compare)
       IN switchConvert(Redirected(g, cases[1][2], orig, new), on, Tail(cases), orig, new)

processSwitchInst(f, orig) ==
  LET term == f.at[orig].term
      new == FreshBlock(f)
      g == WithBlock(f, PlaceOf(f, term.default), Branch(term.default))
  IN switchConvert(Redirected(g, term.default, orig, new), term.on, Reverse(term.cases), orig, new)

\* LowerSwitchPass::runOnFunction.
RECURSIVE LowerSwitch(_, _)
LowerSwitch(f, blocks) ==
  IF blocks = << >> THEN f
  ELSE LowerSwitch(IF f.at[blocks[1]].term.switch THEN processSwitchInst(f, blocks[1]) ELSE f, Tail(blocks))
-----------------------------------------------------------------------------
\* The entries of a phi in the order of the first phi of its block.
Ordered(in, reference) ==
  [n \in DOMAIN in |-> <<reference[n][1], in[getBasicBlockIndex(in, reference[n][1])][2]>>]

Registers(f) == UNION {{Phis(f, b)[k].reg : k \in DOMAIN Phis(f, b)}
                       \cup {f.at[b].moves[k].reg : k \in DOMAIN f.at[b].moves} : b \in DOMAIN f.at}

\* A slip: the use of an earlier phi is left as it is.
MovedNever(f, b, k, n) == f

\* The n-th entry of the k-th phi uses an earlier phi of the block: the incoming block keeps
\* its value in a new register.
Moved(f, b, k, n) ==
  LET in == Phis(f, b)[k].in[n]
      earlier == {Phis(f, b)[j].reg : j \in 1 .. k - 1}
      new == Max(Registers(f)) + 1
  IN IF in[2].of = "reg" /\ in[2].n \in earlier
     THEN [f EXCEPT !.at[in[1]].moves = Append(@, [reg |-> new, of |-> in[2]]),
                    !.at[b].phis[k].in[n] = <<in[1], Value("reg", new)>>]
     ELSE f

RECURSIVE MovedFrom(_, _, _, _)
MovedFrom(f, b, k, n) ==
  IF n > Len(Phis(f, b)[k].in) THEN f ELSE MovedFrom(Moved(f, b, k, n), b, k, n + 1)

RECURSIVE CleanedFrom(_, _, _)
CleanedFrom(f, b, k) ==
  IF k > Len(Phis(f, b)) THEN f
  ELSE CleanedFrom(MovedFrom([f EXCEPT !.at[b].phis[k].in = Ordered(@, Phis(f, b)[1].in)], b, k, 1), b, k + 1)

\* PhiCleanerPass::runOnFunction.
RECURSIVE PhiCleaner(_, _)
PhiCleaner(f, blocks) == IF blocks = << >> THEN f ELSE PhiCleaner(CleanedFrom(f, blocks[1], 2), Tail(blocks))

optimiseAndPrepare(f, simple) ==
  LET g == IF simple THEN LowerSwitch(f, f.order) ELSE f IN PhiCleaner(g, g.order)
-----------------------------------------------------------------------------
\* The instructions of a block and their operands.
InstructionsOf(f, b) ==
  [k \in DOMAIN Phis(f, b) |->
     [block |-> b, reg |-> Phis(f, b)[k].reg, phi |-> TRUE, blocks |-> Phis(f, b)[k].in,
      uses |-> [n \in DOMAIN Phis(f, b)[k].in |-> Phis(f, b)[k].in[n][2]]]]
  \o [k \in DOMAIN f.at[b].moves |->
        [block |-> b, reg |-> f.at[b].moves[k].reg, phi |-> FALSE, blocks |-> << >>, uses |-> <<f.at[b].moves[k].of>>]]
  \o <<[block |-> b, reg |-> 0, phi |-> FALSE, blocks |-> << >>, uses |-> <<f.at[b].term.on>>]>>

Instructions(f) == FlattenSeq([p \in DOMAIN f.order |-> InstructionsOf(f, f.order[p])])

\* KModule::getConstantID: constants are numbered as they are met.
Constants(code) ==
  LET used == FlattenSeq([i \in DOMAIN code |-> SelectSeq(code[i].uses, LAMBDA v : v.of = "const")])
      firsts == {n \in DOMAIN used : \A m \in 1 .. n - 1 : used[m] # used[n]}
  IN [n \in 1 .. Cardinality(firsts) |-> used[SetToSortSeq(firsts, <)[n]].n]

\* The arguments have the first registers, the instructions one each after them.
registerMap(code, numArgs, reg) == numArgs + (CHOOSE i \in DOMAIN code : code[i].reg = reg) - 1

getOperandNum(code, constants, numArgs, v) ==
  CASE v.of = "reg" -> registerMap(code, numArgs, v.n)
    [] v.of = "arg" -> v.n
    [] OTHER -> -((CHOOSE n \in DOMAIN constants : constants[n] = v.n) - 1 + 2)

KFunction(f, numArgs) ==
  LET code == Instructions(f)  constants == Constants(code) IN
  [instructions |-> [i \in DOMAIN code |->
     [block |-> code[i].block, phi |-> code[i].phi, dest |-> numArgs + i - 1, reg |-> code[i].reg,
      blocks |-> code[i].blocks,
      operands |-> [n \in DOMAIN code[i].uses |-> getOperandNum(code, constants, numArgs, code[i].uses[n])]]],
   basicBlockEntry |-> [b \in DOMAIN f.at |-> Min({i \in DOMAIN code : code[i].block = b})],
   constants |-> constants, numRegisters |-> numArgs + Len(code)]

\* Executor::eval: the cell of an operand.
eval(kf, locals, operand) == IF operand < 0 THEN kf.constants[-operand - 2 + 1] ELSE locals[operand]

\* Executor::transferToBasicBlock.
transferToBasicBlock(kf, s, dst, src) ==
  LET pc == kf.basicBlockEntry[dst]  first == kf.instructions[pc]
  IN [s EXCEPT !.pc = pc, !.incomingBBIndex = IF first.phi THEN getBasicBlockIndex(first.blocks, src) ELSE @]

\* Where a terminator goes on a value.
Target(term, v) ==
  LET hits == SelectSeq(term.cases, LAMBDA c : c[1] = v) IN IF hits = << >> THEN term.default ELSE hits[1][2]

\* One instruction; the trace has the block of each terminator and the locals there.
Step(f, kf, s) ==
  LET ki == kf.instructions[s.pc]
      v == eval(kf, s.locals, ki.operands[IF ki.phi THEN s.incomingBBIndex ELSE 1])
  IN IF ki.reg # 0 THEN [s EXCEPT !.locals[ki.dest] = v, !.pc = @ + 1]
     ELSE LET t == [s EXCEPT !.trace = Append(@, <<ki.block, s.locals>>)]
              dst == Target(f.at[ki.block].term, v)
          IN IF dst = 0 THEN [t EXCEPT !.pc = 0] ELSE transferToBasicBlock(kf, t, dst, ki.block)

RECURSIVE Run(_, _, _, _)
Run(f, kf, s, fuel) == IF fuel = 0 \/ s.pc = 0 THEN s.trace ELSE Run(f, kf, Step(f, kf, s), fuel - 1)
-----------------------------------------------------------------------------
\* The function as LLVM defines it: the phis of a block all read the values before it.
ValueOf(v, regs, args) == CASE v.of = "reg" -> regs[v.n] [] v.of = "arg" -> args[v.n] [] OTHER -> v.n

RECURSIVE Means(_, _, _, _, _, _)
Means(f, regs, args, from, b, fuel) ==
  LET InOf(k) == Phis(f, b)[k].in
      Defines(r) == {k \in DOMAIN Phis(f, b) : Phis(f, b)[k].reg = r}
      next == [r \in DOMAIN regs |->
                 IF Defines(r) = {} THEN regs[r]
                 ELSE LET k == Min(Defines(r)) IN ValueOf(InOf(k)[getBasicBlockIndex(InOf(k), from)][2], regs, args)]
  IN <<<<b, next>>>> \o
     LET dst == Target(f.at[b].term, ValueOf(f.at[b].term.on, next, args))
     IN IF fuel = 0 \/ dst = 0 THEN << >> ELSE Means(f, next, args, b, dst, fuel - 1)

\* The interpreted function goes through the same blocks as f, with the same values.
SameRun(f, trace, source, Cell(_)) ==
  \A n \in 1 .. Min({Len(trace), Len(source)}) :
    trace[n][1] = source[n][1] /\ \A r \in Registers(f) : trace[n][2][Cell(r)] = source[n][2][r]
Interpreted(f, g, kf, args, fuel) ==
  LET locals == [r \in 0 .. kf.numRegisters - 1 |-> IF r \in DOMAIN args THEN args[r] ELSE 0]
      start == [pc |-> kf.basicBlockEntry[1], locals |-> locals, incomingBBIndex |-> 0, trace |-> << >>]
  IN SelectSeq(Run(g, kf, start, fuel), LAMBDA t : t[1] \in DOMAIN f.at)
PreparedRun(f, g, args, fuel) ==
  LET Cell(r) == registerMap(Instructions(g), Cardinality(DOMAIN args), r)
  IN SameRun(f, Interpreted(f, g, KFunction(g, Cardinality(DOMAIN args)), args, fuel),
             Means(f, [r \in Registers(f) |-> 0], args, 0, 1, fuel), Cell)
RunsAlike(f, args, simple, fuel) == PreparedRun(f, optimiseAndPrepare(f, simple), args, fuel)
=============================================================================
