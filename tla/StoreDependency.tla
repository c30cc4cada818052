-------------------------- MODULE StoreDependency --------------------------
(***************************************************************************)
(* The IDA pass, between functions: which stores can change the variables  *)
(* a branch depends on, how they are written into the bitcode's metadata,  *)
(* and what the executor reads back from it.                               *)
(*                                                                         *)
(* A program is a sequence of functions; a call has the index of its       *)
(* callee.  A store or a branch is <<function, instruction>>.              *)
(***************************************************************************)
EXTENDS Integers, Sequences, SequencesExt, FiniteSetsExt

(***************************************************************************)
(* The IDA pass, inside one function: which variables a branch condition,  *)
(* or the address of a store, comes from.                                  *)
(*                                                                         *)
(* A function has inst, a sequence of instructions [op, args, bb]; label,  *)
(* the labels of its blocks, and back, its back edges; and the types of    *)
(* its local variables, of the globals and of its arguments ("int", "sp"   *)
(* for a pointer to a struct, "other").  A value is <<kind, n>>; a GEP     *)
(* that selects a field also has sp = [type, off, elem].  A dependency is  *)
(* <<node_type, v>>, v a variable, an argument's index or a list of struct *)
(* pointers; dependencies form a sequence, as equal ones stay apart.       *)
(***************************************************************************)

CONSTANTS maxInstCount,   \* visits of an instruction, 10
          BB_THRESHOLD,   \* candidate stores considered, 32
          maxDistance     \* larger than any distance of labels, 0xffff

Inst(v) == v[1] = "inst"
Distance(x, y) == IF x < y THEN y - x ELSE x - y
\* getBBLabel: the number of a block, but 0 for one with a name.
getBBLabel(f, i) == f.label[f.inst[i].bb]
Without(deps, d) ==
  IF Contains(deps, d) THEN RemoveAt(deps, Min({i \in DOMAIN deps : deps[i] = d})) ELSE deps

\* llvm's isPotentiallyReachable: later in the block, or through blocks not excluded.
\* Blocks follow each other, and f.back holds the back edges.
Succ(f, b) == {c \in DOMAIN f.label : c = b + 1 \/ <<b, c>> \in f.back}
RECURSIVE ReachBlocks(_, _, _)
ReachBlocks(f, S, excluded) ==
  LET more == (UNION {Succ(f, b) : b \in S \ excluded}) \ S
  IN IF more = {} THEN S ELSE ReachBlocks(f, S \cup more, excluded)
isPotentiallyReachable(f, from, to, excluded) ==
  LET b == f.inst[from].bb  c == f.inst[to].bb
  IN \/ b = c /\ from < to
     \/ c \in ReachBlocks(f, Succ(f, b), excluded)
-----------------------------------------------------------------------------
\* selectStoreInst: of the stores that reach the instruction without passing the block of
\* another, the nearest by block label; 0 when there is none.
Nearest(f, froms, reach, to) ==
  LET dist(k) == Distance(getBBLabel(f, froms[k]), getBBLabel(f, to))
      near == {k \in Range(reach) : dist(k) < maxDistance
                                     /\ \A j \in Range(reach) : dist(k) <= dist(j)}
  IN IF reach = << >> THEN 0
     ELSE IF Len(reach) = 1 THEN froms[reach[1]] ELSE froms[Min(near)]
selectStoreInst(f, froms, to) ==
  LET n == Min({Len(froms), BB_THRESHOLD})
      last == SubSeq(Reverse(froms), 1, n)
      others(k) == {f.inst[last[j]].bb : j \in DOMAIN last} \ {f.inst[froms[k]].bb}
  IN Nearest(f, froms, SelectSeq([k \in 1 .. n |-> k],
               LAMBDA k : isPotentiallyReachable(f, froms[k], to, others(k))), to)

\* The stores to a local variable, latest first: the order of AI->users().
UserStores(f, a) ==
  Reverse(SelectSeq([i \in DOMAIN f.inst |-> i],
            LAMBDA i : f.inst[i].op = "store" /\ <<"alloca", a>> \in Range(f.inst[i].args)))

\* Case 3 of a definition: a local variable.  An argument stored to it ends the trace;
\* otherwise the trace goes on at one of the non-constant stores to it.
Argument(f, st, arg) ==
  LET deps == IF st.last = 0 THEN st.deps ELSE Without(st.deps, <<"local", st.last>>)
      last == IF deps = st.deps THEN st.last ELSE 0
      dep  == CASE f.arg[arg] = "int" -> << <<"param", arg>> >>
                [] f.arg[arg] = "sp" /\ st.sp # << >> -> << <<"sp", st.sp>> >>
                [] OTHER -> << >>
  IN [st EXCEPT !.deps = IF dep = << >> \/ Contains(deps, dep[1]) THEN deps ELSE deps \o dep,
                !.last = last, !.sp = << >>, !.traced = {}]
Saved(st, a) ==
  IF Contains(st.deps, <<"local", a>>) THEN st
  ELSE [st EXCEPT !.deps = Append(@, <<"local", a>>), !.last = a]
CutLast(st) ==
  IF st.last = 0 \/ ~Contains(st.deps, <<"local", st.last>>) THEN st
  ELSE [st EXCEPT !.deps = Without(@, <<"local", st.last>>), !.last = 0]
NextStore(f, cur, stores) ==
  IF Len(stores) > 1 THEN selectStoreInst(f, stores, cur)
  ELSE IF stores # << >> /\ isPotentiallyReachable(f, stores[1], cur, {}) THEN stores[1] ELSE 0
Followed(st, stores, next) ==
  IF stores = << >> THEN st
  ELSE IF next = 0 \/ next \in st.traced THEN CutLast(st)
  ELSE [CutLast(st) EXCEPT !.todo = Append(@, next)]
FromStores(f, st, cur, stores) == Followed(st, stores, NextStore(f, cur, stores))
FromUsers(f, start, st, cur, users) ==
  LET params == {k \in DOMAIN users : f.inst[users[k]].args[1][1] = "arg"} IN
  IF params # {} THEN Argument(f, st, f.inst[users[Min(params)]].args[1][2])
  ELSE FromStores(f, st, cur, SelectSeq(users, LAMBDA i : /\ f.inst[i].args[1][1] # "const"
                                                          /\ getBBLabel(f, start) >= getBBLabel(f, i)))
Local(f, start, st, cur, a) == FromUsers(f, start, Saved(st, a), cur, UserStores(f, a))

\* The operands of an instruction, in order, up to a global variable.
RECURSIVE Operands(_, _, _, _, _)
Operands(f, start, st, cur, k) ==
  IF k > Len(f.inst[cur].args) THEN st
  ELSE LET v == f.inst[cur].args[k] IN
    CASE v[1] = "global" ->
           [st EXCEPT !.deps = Append(@, <<"global", v[2]>>), !.sp = << >>, !.traced = {}]
      [] v[1] = "alloca" -> Operands(f, start, Local(f, start, st, cur, v[2]), cur, k + 1)
      [] Inst(v) /\ v[2] \notin st.traced ->
           Operands(f, start, [st EXCEPT !.todo = Append(@, v[2])], cur, k + 1)
      [] OTHER -> Operands(f, start, st, cur, k + 1)

\* One instruction, taken off the trace.
Visit(f, start, st, cur) ==
  LET i == f.inst[cur] IN
  CASE i.op = "store" ->
         IF Inst(i.args[1]) /\ i.args[1][2] \notin st.traced
           THEN [st EXCEPT !.todo = Append(@, i.args[1][2])] ELSE st
    [] i.op = "ptradd" ->
         IF Inst(i.args[1]) THEN [st EXCEPT !.todo = Append(@, i.args[1][2])] ELSE st
    [] OTHER -> Operands(f, start, IF i.op = "gep" THEN [st EXCEPT !.sp = Append(@, i.sp)] ELSE st, cur, 1)

\* The loop of extractDataDependency: depth first, until the trace is empty, meets a call, a
\* switch, another comparison or one instruction too often, or a store has its one source.
RECURSIVE Trace(_, _, _, _)
Ends(f, start, st, cur) ==
  \/ st.count[cur] >= maxInstCount
  \/ f.inst[cur].op \in {"call", "switch"}
  \/ f.inst[cur].op = "icmp" /\ cur # start
Taken(st, cur) ==
  [st EXCEPT !.count[cur] = @ + 1, !.todo = Front(@), !.traced = @ \cup {cur}]
TraceOn(f, start, st, cur, isStoreInst) ==
  IF isStoreInst /\ Len(st.deps) = 1 /\ f.inst[cur].op # "ptradd" THEN st
  ELSE Trace(f, start, st, isStoreInst)
TraceAt(f, start, st, cur, isStoreInst) ==
  IF Ends(f, start, st, cur) THEN st
  ELSE TraceOn(f, start, Visit(f, start, Taken(st, cur), cur), cur, isStoreInst)
Trace(f, start, st, isStoreInst) ==
  IF st.todo = << >> THEN st ELSE TraceAt(f, start, st, Last(st.todo), isStoreInst)
extractDataDependency(f, start, isStoreInst) ==
  Trace(f, start, [deps |-> << >>, todo |-> <<start>>, traced |-> {}, sp |-> << >>, last |-> 0,
                   count |-> [i \in DOMAIN f.inst |-> 0]], isStoreInst).deps
-----------------------------------------------------------------------------
(* runOnModule: the branches with a dependency                              *)

\* A comparison of one integer constant with a value, or a switch; its condition otherwise.
Condition(f, i) ==
  LET c == f.inst[i].args[1]
      operands == f.inst[c[2]].args
  IN IF ~Inst(c) THEN 0
     ELSE IF f.inst[i].op = "switch" THEN c[2]
     ELSE IF f.inst[i].op = "br" /\ f.inst[c[2]].op = "icmp"
             /\ (operands[1][1] = "const") # (operands[2][1] = "const") THEN c[2]
     ELSE 0

\* Rule 2: the source is an integer.
Integral(f, d) ==
  CASE d[1] = "global" -> f.global[d[2]] = "int"
    [] d[1] = "local" -> f.alloca[d[2]] = "int"
    [] d[1] = "sp" -> d[2][1].elem = "int"
    [] OTHER -> TRUE

\* Rule 1: at most one source that is not local.
OneSource(f, deps) ==
  IF Cardinality({k \in DOMAIN deps : deps[k][1] # "local"}) > 1 THEN << >>
  ELSE SelectSeq(deps, LAMBDA d : Integral(f, d))
BranchDeps(f, i) ==
  IF Condition(f, i) = 0 THEN << >>
  ELSE OneSource(f, extractDataDependency(f, Condition(f, i), FALSE))
-----------------------------------------------------------------------------
(* What the analysis approximates: the values a condition is computed from. *)
RECURSIVE Slice(_, _)
Slice(f, S) ==
  LET uses(v) == CASE Inst(v) /\ f.inst[v[2]].op = "store" -> {f.inst[v[2]].args[1]}
                   [] Inst(v) -> Range(f.inst[v[2]].args)
                   [] v[1] = "alloca" -> {<<"inst", i>> : i \in Range(UserStores(f, v[2]))}
                   [] OTHER -> {}
      more == (UNION {uses(v) : v \in S}) \ S
  IN IF more = {} THEN S ELSE Slice(f, S \cup more)

\* A dependency of a branch is a variable or an argument its condition is computed from, and
\* a local variable is one only if no argument is stored to it.
InSlice(f, i, d) ==
  LET slice == Slice(f, {<<"inst", Condition(f, i)>>}) IN
  CASE d[1] = "global" -> <<"global", d[2]>> \in slice
    [] d[1] = "local"  -> /\ <<"alloca", d[2]>> \in slice
                          /\ \A s \in Range(UserStores(f, d[2])) : f.inst[s].args[1][1] # "arg"
    [] d[1] = "param"  -> <<"arg", d[2]>> \in slice
    [] d[1] = "sp"     -> \E v \in slice : v[1] = "arg" /\ f.arg[v[2]] = "sp"
-----------------------------------------------------------------------------
\* The stores considered, and the variable each one writes, from its address.
StoreInsts(p, F) ==
  {i \in DOMAIN p[F].inst : p[F].inst[i].op = "store" /\ p[F].inst[i].args[1][1] # "arg"}
StoreDeps(p, F, i) ==
  LET addr == p[F].inst[i].args[2] IN
  CASE Inst(addr) -> extractDataDependency(p[F], addr[2], TRUE)
    [] addr[1] = "alloca" -> << <<"local", addr[2]>> >>
    [] OTHER -> << <<"global", addr[2]>> >>
SDMap(p, F) == {<<F, i>> : i \in {j \in StoreInsts(p, F) : StoreDeps(p, F, j) # << >>}}
DepOf(p, s) == StoreDeps(p, s[1], s[2])[1]
AllStores(p) == UNION {SDMap(p, F) : F \in DOMAIN p}

\* findStoresForBranch: by the variable itself, or by the chain of struct types.
isContainStructPointerList(l1, l2) == IsSuffix(l2, l1)

\* Mutant: a store to any local variable of the function is taken for one to the branch's.
findStoresForAnyLocal(p, F, i, d) ==
  {s \in SDMap(p, F) : DepOf(p, s)[1] = d[1] /\ isPotentiallyReachable(p[F], s[2], i, {})}

Matches(p, F, i, d, s, dep) ==
  CASE d[1] = "local"  -> s[1] = F /\ dep = d /\ isPotentiallyReachable(p[F], s[2], i, {})
    [] d[1] = "global" -> dep = d
    [] d[1] = "sp"     -> dep[1] = "sp" /\ isContainStructPointerList(dep[2], d[2])
    [] OTHER -> FALSE
findStoresForBranch(p, F, i, d) == {s \in AllStores(p) : Matches(p, F, i, d, s, DepOf(p, s))}

\* CallGraph: the call sites of a function, <<caller, instruction>>, in the order of its edges.
InEdges(p, F) ==
  SelectSeq(FlattenSeq([G \in DOMAIN p |-> [i \in DOMAIN p[G].inst |-> <<G, i>>]]),
            LAMBDA c : p[c[1]].inst[c[2]].op = "call" /\ p[c[1]].inst[c[2]].callee = F)

\* The callers not traced yet are traced, one call each.
PushCallers(p, st, F, param) ==
  FoldLeft(LAMBDA s, c : IF c[1] \in s.traced THEN s
                         ELSE [s EXCEPT !.todo = Append(@, <<c, param>>), !.traced = @ \cup {c[1]}],
           st, InEdges(p, F))

\* findStoresForBranchOnCG: an argument is followed through the callers until it comes from a
\* variable.  A caller may be traced again then, for another parameter.
Sourced(p, F, i, st, G, deps) ==
  IF deps = << >> THEN st
  ELSE IF deps[1][1] = "param" THEN PushCallers(p, st, G, deps[1][2])
  ELSE [st EXCEPT !.traced = @ \ {G},
                  !.stores = @ \cup IF deps[1][1] = "local" THEN {s \in SDMap(p, G) : DepOf(p, s) = deps[1]}
                                    ELSE findStoresForBranch(p, F, i, deps[1])]
TraceCall(p, F, i, st, call, param) ==
  LET v == p[call[1]].inst[call[2]].args[param] IN
  IF Inst(v) THEN Sourced(p, F, i, st, call[1], extractDataDependency(p[call[1]], v[2], TRUE)) ELSE st
RECURSIVE TraceCalls(_, _, _, _)
TraceCalls(p, F, i, st) ==
  IF st.todo = << >> THEN st
  ELSE TraceCalls(p, F, i,
         TraceCall(p, F, i, [st EXCEPT !.todo = Front(@)], Last(st.todo)[1], Last(st.todo)[2]))
findStoresForBranchOnCG(p, F, i, d) ==
  TraceCalls(p, F, i,
             PushCallers(p, [todo |-> << >>, traced |-> {F}, stores |-> {}], F, d[2])).stores

\* runOnModule, for one branch: its variables with their numbers and stores.  A parameter has
\* number 0 and does not count.
VarsOf(p, F, i, deps) ==
  SelectSeq([k \in DOMAIN deps |->
               IF deps[k][1] = "param"
                 THEN [id |-> 0, stores |-> findStoresForBranchOnCG(p, F, i, deps[k])]
                 ELSE [id |-> Cardinality({j \in 1 .. k - 1 : deps[j][1] # "param"}),
                       stores |-> findStoresForBranch(p, F, i, deps[k])]],
            LAMBDA v : v.stores # {})
VarDeps(p, F, i) == VarsOf(p, F, i, BranchDeps(p[F], i))
-----------------------------------------------------------------------------
\* setInstMetaData: labels v_<vid>_s_num, s_<vid>_<n> and v_num; a label written twice keeps the
\* later value.  Variables without stores are left out.
setInstMetaData(vars) ==
  LET write(k) == [n \in 0 .. Cardinality(vars[k].stores) - 1 |-> SetToSeq(vars[k].stores)[n + 1]]
      later(v, n) == Max({k \in DOMAIN vars : vars[k].id = v /\ n \in DOMAIN write(k)})
  IN [nums |-> [v \in {vars[k].id : k \in DOMAIN vars} |->
                  Cardinality(vars[Max({j \in DOMAIN vars : vars[j].id = v})].stores)],
      ids |-> [l \in UNION {{vars[k].id} \X DOMAIN write(k) : k \in DOMAIN vars} |->
                 write(later(l[1], l[2]))[l[2]]],
      v_num |-> Len(vars)]

\* Executor::setModule: the stores of the variables 0 .. v_num - 1.
LoadStores(md) ==
  {md.ids[<<v, n>>] : <<v, n>> \in {l \in DOMAIN md.ids :
      l[1] < md.v_num /\ l[1] \in DOMAIN md.nums /\ l[2] < md.nums[l[1]]}}

\* The numbers of the variables with stores leave no gap and are not used twice.
Numbered(vars) == {vars[k].id : k \in DOMAIN vars} = 0 .. Len(vars) - 1
-----------------------------------------------------------------------------
(* What the matching approximates: the slice of a condition across calls.   *)
RECURSIVE ProgramSlice(_, _)
ProgramSlice(p, S) ==
  LET local(F) == {v \in {x[2] : x \in {y \in S : y[1] = F}} : TRUE}
      inside == UNION {{F} \X Slice(p[F], local(F)) : F \in DOMAIN p}
      calls  == UNION {{<<c[1], p[c[1]].inst[c[2]].args[x[2][2]]>> : c \in Range(InEdges(p, x[1]))} :
                         x \in {y \in inside : y[2][1] = "arg"}}
  IN IF inside \cup calls = S THEN S ELSE ProgramSlice(p, inside \cup calls)
=============================================================================
