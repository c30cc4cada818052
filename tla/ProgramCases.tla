---------------------------- MODULE ProgramCases ----------------------------
(***************************************************************************)
(* Small bitcode programs for the IDA pass: a function with a branch, two  *)
(* local variables, a global and two arguments, and a function that calls  *)
(* it.                                                                     *)
(***************************************************************************)
EXTENDS StoreDependency, TLC

Value(kind, n) == <<kind, n>>
Zero == Value("const", 0)
Load(a) == [op |-> "load", args |-> <<a>>]
Store(v, a) == [op |-> "store", args |-> <<v, a>>]
Bin(v, w) == [op |-> "bin", args |-> <<v, w>>]
Gep(v) == [op |-> "gep", args |-> <<v, Zero, Zero>>, sp |-> [type |-> "T", off |-> 0, elem |-> "int"]]
Variables == {Value("alloca", 1), Value("alloca", 2), Value("global", 1)}

\* A function may begin by keeping an argument in a local variable.
Prologue == {<< >>} \cup {<<Store(Value("arg", n), Value("alloca", 1))>> : n \in 1 .. 2}
Results(s) == {Value("inst", j) : j \in {k \in DOMAIN s : s[k].op # "store"}}
Menu(s) ==
  LET addr == Variables \cup Results(s) IN
  {Load(a) : a \in addr} \cup {Store(v, a) : v \in Results(s) \cup {Zero}, a \in addr}
  \cup {Bin(v, w) : v \in Results(s), w \in Results(s) \cup {Zero}} \cup {Gep(v) : v \in Results(s)}
Extended(S) == UNION {{Append(s, i) : i \in Menu(s)} : s \in S}
Bodies(S) == {s \in Extended(Extended(S)) : Last(s).op # "store"}
Sums(S) == {s \o <<Load(u), Load(v), Bin(Value("inst", Len(s) + 1), Value("inst", Len(s) + 2))>> :
              s \in Extended(S), u \in Variables, v \in Variables}

Function(s, cut) ==
  [inst |-> [i \in DOMAIN s |-> [bb |-> IF i <= cut THEN 1 ELSE 2] @@ s[i]], label |-> <<1, 2>>,
   back |-> {}, alloca |-> <<"int", "int">>, global |-> <<"int">>, arg |-> <<"int", "sp">>]
Branching(s, cut) ==
  Function(s \o <<[op |-> "icmp", args |-> <<Value("inst", Len(s)), Zero>>],
                  [op |-> "br", args |-> <<Value("inst", Len(s) + 1)>>]>>, cut)
Calling(s) ==
  Function(Append(s, [op |-> "call", callee |-> 1,
                      args |-> <<Value("inst", Len(s)), Value("inst", Len(s))>>]), 2)
Callers == {Calling(s) : s \in Bodies(Prologue)}

TheBranch(p) == Len(p[1].inst)
WritesSource(p, s) ==
  LET d     == DepOf(p, s)
      slice == ProgramSlice(p, {<<1, <<"inst", TheBranch(p)>>>>})
  IN CASE d[1] = "local"  -> <<s[1], <<"alloca", d[2]>>>> \in slice
       [] d[1] = "global" -> \E v \in slice : v[2] = <<"global", d[2]>>
       [] d[1] = "sp"     -> \E v \in slice : v[2][1] = "arg"
       [] OTHER -> FALSE

\* What is asked of the dependencies of a branch, of its variables with their stores, and of
\* the metadata they are kept in.
AllInSlice(f, i, deps) == \A k \in DOMAIN deps : InSlice(f, i, deps[k])
AllWriteSources(p, vars) == \A k \in DOMAIN vars : \A s \in vars[k].stores : WritesSource(p, s)
ReadBack(vars, read) ==
  LET all == UNION {vars[k].stores : k \in DOMAIN vars}
  IN vars # << >> => read \subseteq all /\ (Numbered(vars) => read = all)
RoundTrip(vars) == ReadBack(vars, LoadStores(setInstMetaData(vars)))
=============================================================================
