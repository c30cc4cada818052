---------------------------- MODULE MCEnvironment ----------------------------
(***************************************************************************)
(* What surrounds the searchers, on small instances: a behaviour is one of *)
(* one machine, chosen at the start, and the others rest.                  *)
(***************************************************************************)
EXTENDS Memory, ForkedSolver, PosixFiles

CONSTANTS
  ChainArray, ChainSize, Formula, Reads, Symbolic, Sat, Chains, Paths, Asked, MaxQueries,
  NumBytes, PathState, Programs, ForkOptions, bufferSize,
  AddrBits, HeapInput, Ops, Layouts, HeapOptions, DefaultAlign, SmallSize, HugeSize,
  SpaceStart, SpaceEnd,
  Type, Address, Derived, Pads, RuntimeMaxStackFrames, MaxThrows,
  Key, Value, Trees, TreeStarts, MaxNodes, MaxTreeOps,
  Weights

VARIABLES
  machine,
  chain, caches, asked, answer,
  program, forkOptions, states, status, constraints, seedMap, pathWriter, forks, tests, lost,
  op, heapOptions, layout, boundObjects, nextFreeSlot, todo, result,
  stack, bound, pc, info, eh_typeids, thrown, expected, visited, throws, nested,
  nodes, node, contents, treeOps,
  pdf, weights

Chain == INSTANCE SolverChain WITH Array <- ChainArray, Size <- ChainSize
Fork == INSTANCE Forking WITH State <- PathState, Options <- ForkOptions, options <- forkOptions
Heap == INSTANCE HeapOps WITH Input <- HeapInput, Options <- HeapOptions,
                              options <- heapOptions, bound <- boundObjects
Unwind == INSTANCE Unwinding
Tree == INSTANCE ImmutableTree WITH Starts <- TreeStarts, MaxOps <- MaxTreeOps, heap <- nodes
PDF == INSTANCE DiscretePDF
-----------------------------------------------------------------------------
\* Memory: two states, one object of two bytes, constant and symbolic offsets and values.
MCIndexes == {Constant(0), Constant(1), [x \in Input |-> x - 1]}
MCStores ==
  LET one == Constant(1)
      symbolic == [x \in Input |-> x - 1]
  IN {<<one>>, <<symbolic>>, <<one, symbolic>>}
MCArray == [i \in Offset |-> [x \in Input |-> 2 - x]]

\* Solvers: formulas about one byte, about two arrays, and with a symbolic index.
MCChainSize == [x \in ChainArray |-> IF x = "a" THEN 2 ELSE 1]
MCReads == <<{<<"a", 0>>}, {<<"a", 1>>, <<"b", 0>>}, {<<"a", Symbolic>>, <<"b", 0>>}>>
Contents == {c \in [ChainArray -> [0 .. 1 -> Byte]] : c["b"][1] = 0}
MCSat == <<{c \in Contents : c["a"][0] = 1},
           {c \in Contents : c["a"][1] = c["b"][0]},
           {c \in Contents : c["a"][c["b"][0]] = 1}>>
MCChains == {<<"independent", "caching", "cex", "core">>,
             <<"independent", "cex-try-all", "staged", "core">>,
             <<"caching", "staged", "core">>}
MCPaths == {<<>>, <<3>>, <<2, 1>>, <<1, -3>>, <<-2, 3>>}
MCAsked == {1, 2, -3}

\* Files: a regular file, a terminal and a directory, each with calls that fail.
MCFileStarts ==
  LET failing(kind) == [k \in {"read", "write", "close", "ftruncate", "getcwd"} |-> IF k = kind THEN 1 ELSE 2]
      system == -1
  IN {[type |-> "reg", perm |-> {"ur", "uw"}, mine |-> TRUE,
       stdin |-> system, stdout |-> SymFiles + 1, fail |-> failing("close")],
      [type |-> "chr", perm |-> {"ur"}, mine |-> FALSE,
       stdin |-> SymFiles, stdout |-> system, fail |-> failing("getcwd")],
      [type |-> "dir", perm |-> {}, mine |-> TRUE,
       stdin |-> system, stdout |-> system, fail |-> failing("read")]}

\* Forks: programs of branches, switches and klee_ calls over two bytes of input.
Same == {x \in [1 .. NumBytes -> Byte] : x[1] = x[2]}
At(i, v) == {x \in [1 .. NumBytes -> Byte] : x[i] = v}
Br(c) == [op |-> "br", cond |-> c]
Assume(c) == [op |-> "assume", cond |-> c]
Switch(cs) == [op |-> "switch", cases |-> cs]
MCPrograms ==
  {<<Br(At(1, 1)), Br(Same), Br(At(2, 1))>>,
   <<Br(Same), Switch(<<At(1, 0), At(1, 1)>>), Br(At(2, 0))>>,
   <<Assume(Same), Br(At(1, 1)), [op |-> "getvalue", byte |-> 2], Br(At(2, 1))>>,
   <<Br(Same), [op |-> "setforking", off |-> TRUE], Br(At(1, 1)), [op |-> "concretize", byte |-> 2]>>,
   <<Br(At(1, 1)), Assume(At(1, 1)), Switch(<<At(2, 0), At(2, 1)>>)>>,
   <<Switch(<<At(1, 1), Same \ At(1, 1), At(1, 0) \ Same>>), Br(At(2, 1))>>}
ASSUME SwitchesAssumption == Fork!SwitchesSplit
MCForkOptions ==
  LET plain == [maxForks |-> 10, maxDepth |-> 0, timeouts |-> FALSE, seeds |-> <<>>,
                onlyReplaySeeds |-> FALSE, onlyCoveringNew |-> FALSE,
                prefer |-> <<At(2, 1), At(1, 1)>>]
  IN {plain,
      [plain EXCEPT !.maxForks = 1, !.onlyCoveringNew = TRUE],
      [plain EXCEPT !.maxDepth = 2, !.timeouts = TRUE],
      [plain EXCEPT !.maxForks = 1, !.seeds = <<<<1, 1>>, <<0, 1>>>>],
      [plain EXCEPT !.seeds = <<<<0, 1>>, <<1, 1>>, <<1, 0>>>>, !.onlyReplaySeeds = TRUE]}

\* Heap operations: every monotone pointer into layouts with gaps, read-only, local and
\* empty objects; sizes around the limits of executeAlloc.
Monotone(S) == {p \in [HeapInput -> S] : p[1] <= p[2] /\ p[2] <= p[3]}
Everywhere(n) == [x \in HeapInput |-> n]
Operation(kinds, ptrs, sizes, widths, aligns, writes) ==
  [kind : kinds, ptr : ptrs, size : sizes, bytes : widths, align : aligns, write : writes]
MCOps ==
  LET ptrs == Monotone(0 .. 7)
      none == {Everywhere(0)}
      some == {p \in ptrs : p[1] \in {0, 4} /\ p[2] \in {0, 1, 4} /\ p[3] \in {0, 1, 4, 5}}
      sizes == Monotone({0, 1, 2, 5})
      no == {FALSE}
  IN UNION {
       Operation({"access"}, ptrs, none, {1, 2}, none, BOOLEAN),
       Operation({"free", "sized", "marked"}, ptrs, none, {1}, none, no),
       Operation({"malloc", "alloca", "calloc"}, none, sizes, {2}, none, no),
       Operation({"memalign"}, none, sizes, {1}, {<<4, 4, 4>>, <<2, 4, 4>>}, no),
       Operation({"realloc", "symbolic"}, some, {<<0, 2, 2>>, <<2, 2, 2>>, <<1, 2, 5>>}, {1}, none, no),
       Operation({"check", "fixed"}, {Everywhere(n) : n \in 1 .. 7}, {Everywhere(1), Everywhere(2)}, {1}, none, no),
       Operation({"check"}, {<<1, 1, 4>>}, {Everywhere(1)}, {1}, none, no)}
Object(a, n, readOnly, isLocal, isGlobal) ==
  [address |-> a, size |-> n, readOnly |-> readOnly, isLocal |-> isLocal, isGlobal |-> isGlobal]
MCLayouts ==
  {{Object(1, 2, FALSE, FALSE, FALSE), Object(4, 2, TRUE, FALSE, TRUE)},
   {Object(1, 3, FALSE, TRUE, FALSE), Object(4, 0, FALSE, FALSE, FALSE), Object(5, 2, FALSE, FALSE, FALSE)}}
MCHeapOptions ==
  LET plain == [timeouts |-> FALSE, limits |-> FALSE, maxSymArraySize |-> 0, redzone |-> 0,
                deterministic |-> TRUE, nullOnZero |-> FALSE]
  IN {plain,
      [plain EXCEPT !.timeouts = TRUE, !.redzone = 2],
      [plain EXCEPT !.limits = TRUE, !.maxSymArraySize = 2, !.deterministic = FALSE]}

\* Exceptions: an exception of type B is one of type A; pads of every shape.
Pad(cleanup, clauses) == [cleanup |-> cleanup, clauses |-> clauses]
MCPads ==
  {Pad(TRUE, <<>>), Pad(FALSE, <<<<"catch", "A">>>>),
   Pad(TRUE, <<<<"filter", <<"B">>>>, <<"catch", "B">>>>),
   Pad(FALSE, <<<<"catch", "B">>, <<"catch", NULL>>>>), Pad(TRUE, <<<<"catch", "B">>>>)}
MCAddress == [A |-> <<2, 1>>, B |-> <<2, 2>>]
MCDerived == {<<"A", "B">>}

\* Trees: insertion orders that need every rotation.
MCTreeStarts == {<<>>, <<1, 2, 3, 6, 5, 4>>, <<6, 5, 4, 1, 2, 3>>}
MCWeights == [i \in 1 .. 5 |-> IF i = 2 THEN {0, 2} ELSE {1}]
-----------------------------------------------------------------------------
chainVars == <<chain, caches, asked, answer>>
pathVars == <<program, forkOptions, states, status, constraints, seedMap, pathWriter, forks, tests, lost>>
heapVars == <<op, heapOptions, layout, boundObjects, nextFreeSlot, todo, result>>
unwindVars == <<stack, bound, pc, info, eh_typeids, thrown, expected, visited, throws, nested>>
treeVars == <<nodes, node, contents, treeOps>>
pdfVars == <<pdf, weights>>
allVars == <<machine, memVars, chainVars, forkVars, fileVars, pathVars, heapVars, unwindVars,
             treeVars, pdfVars>>

\* A machine that rests: nothing alive, nothing done.
MemoryRests ==
  /\ live = {} /\ cowKey = [t \in Space |-> 1] /\ objects = [t \in Space |-> Unbound]
  /\ heap = [o \in Obj |-> NoObject] /\ owner = [o \in Obj |-> 0]
  /\ ops = 0 /\ mem = << >> /\ stale = << >>
ChainRests == chain = << >> /\ caches = {} /\ asked = 0 /\ answer = NULL
FilesRest ==
  /\ running = {} /\ env = [t \in State |-> [injected |-> 0]] /\ osoff = << >>
  /\ ret = NoCall /\ calls = 0
ForkRests ==
  /\ program = << >> /\ forkOptions = << >> /\ states = << >> /\ status = << >>
  /\ constraints = << >> /\ seedMap = << >>
  /\ pathWriter = << >> /\ forks = 0 /\ tests = {} /\ lost = {}
HeapRests ==
  /\ op = << >> /\ heapOptions = << >> /\ layout = {} /\ boundObjects = << >>
  /\ nextFreeSlot = 0 /\ todo = << >> /\ result = << >>
TreeRests == nodes = << >> /\ node = << >> /\ contents = << >> /\ treeOps = 0

EnvInit ==
  /\ machine \in {"memory", "chain", "forked", "files", "fork", "heap", "unwind", "tree", "pdf"}
  /\ IF machine = "memory" THEN MemInit ELSE MemoryRests
  /\ IF machine = "chain" THEN Chain!ChainInit ELSE ChainRests
  /\ ForkInit
  /\ IF machine = "files" THEN FileInit ELSE FilesRest
  /\ IF machine = "fork" THEN Fork!ForkInit ELSE ForkRests
  /\ IF machine = "heap" THEN Heap!HeapInit ELSE HeapRests
  /\ Unwind!UnwindInit
  /\ IF machine = "tree" THEN Tree!TreeInit ELSE TreeRests
  /\ PDF!PDFInit

MemoryStep == /\ machine = "memory" /\ MemNext
              /\ UNCHANGED <<machine, chainVars, forkVars, fileVars, pathVars, heapVars, unwindVars, treeVars, pdfVars>>
ChainStep == /\ machine = "chain" /\ Chain!ChainNext
             /\ UNCHANGED <<machine, memVars, forkVars, fileVars, pathVars, heapVars, unwindVars, treeVars, pdfVars>>
AtQuery(A) == /\ machine = "forked" /\ A
              /\ UNCHANGED <<machine, memVars, chainVars, fileVars, pathVars, heapVars, unwindVars, treeVars, pdfVars>>
ForkedStep == AtQuery(ForkNext)
FileStep == /\ machine = "files" /\ FileNext
            /\ UNCHANGED <<machine, memVars, chainVars, forkVars, pathVars, heapVars, unwindVars, treeVars, pdfVars>>
ForkStep == /\ machine = "fork" /\ Fork!ForkNext
            /\ UNCHANGED <<machine, memVars, chainVars, forkVars, fileVars, heapVars, unwindVars, treeVars, pdfVars>>
HeapStep == /\ machine = "heap" /\ Heap!HeapNext
            /\ UNCHANGED <<machine, memVars, chainVars, forkVars, fileVars, pathVars, unwindVars, treeVars, pdfVars>>
UnwindStep == /\ machine = "unwind" /\ Unwind!UnwindNext
              /\ UNCHANGED <<machine, memVars, chainVars, forkVars, fileVars, pathVars, heapVars, treeVars, pdfVars>>
TreeStep == /\ machine = "tree" /\ Tree!TreeNext
            /\ UNCHANGED <<machine, memVars, chainVars, forkVars, fileVars, pathVars, heapVars, unwindVars, pdfVars>>
PDFStep == /\ machine = "pdf" /\ PDF!PDFNext
           /\ UNCHANGED <<machine, memVars, chainVars, forkVars, fileVars, pathVars, heapVars, unwindVars, treeVars>>

EnvNext ==
  \/ MemoryStep \/ ChainStep \/ ForkedStep \/ FileStep \/ ForkStep \/ HeapStep
  \/ UnwindStep \/ TreeStep \/ PDFStep

\* The child of a query runs on, and waitpid returns once it has ended.
EnvSpec == EnvInit /\ [][EnvNext]_allVars
           /\ WF_forkVars(AtQuery(Solved)) /\ WF_forkVars(AtQuery(WriteByte))
           /\ WF_forkVars(AtQuery(ExitSolved)) /\ WF_forkVars(AtQuery(Wait))

\* Exceptions alone.
RaiseSpec == machine = "unwind" /\ EnvInit /\ [][UnwindStep]_allVars
-----------------------------------------------------------------------------
\* Solvers: whatever was asked before and however often the core solver failed, a chain's
\* answer is the one the constraints determine; its caches hold only what is so, and their
\* searches miss nothing (IndependentSolver, CachingSolver, CexCachingSolver, MapOfSets).
ChainExact ==
  machine = "chain" => /\ Chain!AnswersExact /\ Chain!CexCacheExact
                       /\ Chain!BranchCacheSound /\ Chain!SearchesComplete

\* Forks: every input follows the path of exactly one state, unless a limit, a seed,
\* klee_assume or a concretization gave it up, and takes the branches as the path and its
\* file record them; seeds and tests follow the path of their state (Executor::fork, branch).
PathsExact ==
  machine = "fork" =>
    /\ Fork!PathsDisjoint /\ Fork!PathsFeasible /\ Fork!NoInputLost /\ Fork!PathsDecided
    /\ Fork!PathsRecorded /\ Fork!SeedsFollowPaths /\ Fork!TestsFollowPaths

\* Heap: each input accesses, frees or reallocates the object its pointer is in, or has the
\* error that says there is none; a new object has the size and the alignment asked for and
\* overlaps no other (executeMemoryOperation, AddressSpace::resolve, executeFree, executeAlloc).
HeapExact == machine = "heap" => Heap!AccessesExact /\ Heap!FreesExact /\ Heap!AllocationsFit

\* Exceptions: an exception visits the landing pads up to the innermost handler in order,
\* with the right selectors, is uncaught only if there is none, and takes the locals of the
\* frames it leaves along (unwindToNextLandingpad, klee_eh_cxx.cpp, popFrame).
UnwindingExact == machine = "unwind" => Unwind!UnwindsToHandler /\ Unwind!LocalsOfStack

\* Trees: whatever trees share nodes, each holds its own entries in order, balanced, freed
\* when the last one goes, and iterated without a gap (ImmutableTree.h); the weighted tree
\* chooses the item that covers a point of the line of weights (DiscretePDF.inc).
TreesExact ==
  /\ machine = "tree" => Tree!TreesKeepContents /\ Tree!ReferencesExact /\ Tree!IteratorsExact
  /\ machine = "pdf" => PDF!ChoosesByWeight /\ PDF!TreeLinksAgree

\* Executor.cpp:1808, of a search that finds no handler: "this will return control flow back
\* to _Unwind_RaiseException, which will return the correct error".
SearchReturnsToRaise == machine = "unwind" => Unwind!SearchReturnsToRaise
=============================================================================
