------------------------------- MODULE Forking -------------------------------
(***************************************************************************)
(* How the executor splits a state at symbolic conditions (Executor::fork, *)
(* branch, addConstraint, executeGetValue, klee_assume), distributes and   *)
(* patches seeds, records paths and writes tests.  A condition is the set  *)
(* of inputs that satisfy it, a state's path condition the set of inputs   *)
(* that follow its path.                                                   *)
(***************************************************************************)
EXTENDS Integers, Sequences, SequencesExt, FiniteSets, Functions

(***************************************************************************)
(* The file format of recorded paths (lib/Support/TreeStream.cpp): many    *)
(* streams share one file, and a stream opened from another begins with    *)
(* what the other held at that moment.  A file is a sequence of records: a *)
(* block of one stream's data, or the opening of a child stream.           *)
(***************************************************************************)

CONSTANT bufferSize

Block(id, data) == [id |-> id, child |-> 0, data |-> data]
Opening(id, child) == [id |-> id, child |-> child, data |-> <<>>]

NewWriter == [output |-> <<>>, buffer |-> <<>>, lastID |-> 0, ids |-> 1]

flushBuffer(w) ==
  IF w.buffer = <<>> THEN w
  ELSE [w EXCEPT !.output = Append(@, Block(w.lastID, w.buffer)), !.buffer = <<>>]

\* open: the new stream is number w.ids.
open(w, id) ==
  LET f == flushBuffer(w)
  IN [f EXCEPT !.output = Append(@, Opening(id, w.ids)), !.ids = @ + 1]

\* write
write(w, id, data) ==
  LET full == id # w.lastID \/ Len(data) + Len(w.buffer) > bufferSize
      f == IF w.buffer # <<>> /\ full THEN flushBuffer(w) ELSE w
  IN IF f.buffer # <<>> THEN [f EXCEPT !.buffer = @ \o data]
     ELSE IF Len(data) < bufferSize THEN [f EXCEPT !.lastID = id, !.buffer = data]
     ELSE [f EXCEPT !.output = Append(@, Block(id, data))]

\* readStream, first pass: the stream and its ancestors.
Parent(out, id) == LET n == CHOOSE n \in DOMAIN out : out[n].child = id IN out[n].id
Roots(w, id) ==
  LET up[k \in 0 .. w.ids] ==
        IF k = 0 THEN {id} ELSE up[k - 1] \cup {Parent(w.output, r) : r \in up[k - 1] \ {0}}
  IN up[w.ids] \ {0}

\* Second pass: the data of the oldest ancestor up to the opening of the next one, and so
\* on down to the stream.
readStream(w0, id) ==
  LET w == flushBuffer(w0)
      roots == Roots(w, id)
      wanted(n) == /\ w.output[n].id \in roots
                   /\ w.output[n].child = 0
                   /\ w.output[n].id = id \/ \E m \in n .. Len(w.output) :
                        w.output[m].id = w.output[n].id /\ w.output[m].child \in roots
      blocks == [n \in DOMAIN w.output |-> IF wanted(n) THEN w.output[n].data ELSE <<>>]
  IN FlattenSeq(blocks)
-----------------------------------------------------------------------------
CONSTANTS Byte,       \* values of an input byte
          NumBytes,   \* bytes of the input
          State,      \* 1..n: execution states, in the order they are created
          Programs,   \* sequences of instructions
          Options     \* command lines

VARIABLES program, options,
          states,     \* the execution states: program counter, depth, path stream and flags
          status,     \* "live" until terminateState, "dropped" without a test
          constraints,\* ExecutionState::constraints, as the inputs that satisfy them
          seedMap,    \* the seeds of the states that have some
          pathWriter, \* the recorded paths
          forks,      \* stats::forks
          tests,      \* test cases written
          lost        \* history: inputs given up by a limit, a seed or klee_assume

forkVars == <<program, options, states, status, constraints, seedMap, pathWriter, forks, tests, lost>>

Position == 1 .. NumBytes
AllInputs == [Position -> Byte]
At(i, v) == {x \in AllInputs : x[i] = v}

\* Expr::createIsZero, of a condition.
Not(c) == AllInputs \ c
ReadBytes(c) == {i \in Position : \E x \in c, v \in Byte : [x EXCEPT ![i] = v] \notin c}

Unborn == [pc |-> 1, depth |-> 0, forkDisabled |-> FALSE, pathOS |-> 0, bits |-> <<>>,
           coveredNew |-> FALSE]
Live == {s \in State : status[s] = "live"}
Unused == {s \in State : status[s] = "unborn"}
\* The next state that is created, if the bound on states allows one.
Fresh == {s \in Unused : \A t \in Unused : s <= t}

-----------------------------------------------------------------------------
(* Seeds *)

\* patchSeed, one byte: keep the seed's value if the constraints allow it, else take one
\* they allow, and constrain the byte to it.
PatchByte(acc, i) ==
  LET kept == acc.required \cap At(i, acc.val[i])
      v == CHOOSE v \in Byte : acc.required \cap At(i, v) # {}
  IN IF kept # {} THEN [acc EXCEPT !.required = kept]
     ELSE [required |-> acc.required \cap At(i, v), val |-> [acc.val EXCEPT ![i] = v]]

\* patchSeed: the bytes the condition reads first, then, if it still fails, all of them.
\* Only the condition is tested, not the constraints.
patchSeed(P, c, seed) ==
  LET ascending(S) == SetToSortSeq(S, <)
      direct == FoldLeft(PatchByte, [required |-> P \cap c, val |-> seed.val], ascending(ReadBytes(c)))
      all == FoldLeft(PatchByte, direct, ascending(Position))
  IN [val |-> IF direct.val \in c THEN direct.val ELSE all.val, patched |-> TRUE]

\* addConstraint: the seeds that violate the condition are patched.
Patched(P, c, seeds) ==
  [i \in DOMAIN seeds |-> IF seeds[i].val \in c THEN seeds[i] ELSE patchSeed(P, c, seeds[i])]
SeedsOf(s) == IF s \in DOMAIN seedMap THEN seedMap[s] ELSE <<>>

\* seedMap with the seeds of the states in M; a state without seeds is not in the map.
Reseeded(M) ==
  LET new == [s \in DOMAIN seedMap \cup DOMAIN M |-> IF s \in DOMAIN M THEN M[s] ELSE seedMap[s]]
  IN Restrict(new, {s \in DOMAIN new : new[s] # <<>>})

-----------------------------------------------------------------------------
(* Ends of states *)

\* getSymbolicSolution: each preference is added if it can hold.
getSymbolicSolution(P, prefs) ==
  LET prefer(Q, c) == IF Q \cap c = {} THEN Q ELSE Q \cap c
      Q == FoldLeft(prefer, P, prefs)
  IN CHOOSE x \in Q : TRUE

\* terminateState and updateStates: the states of S leave, with their seeds.
Ended(S) == [s \in State |-> IF s \in S THEN "done" ELSE status[s]]

\* shouldWriteTest, --always-output-seeds: the states of S that write a test as they end.
Test(s, P, err) == [state |-> s, input |-> getSymbolicSolution(P, options.prefer), err |-> err]
TestsFor(S, sts, cs, M) ==
  {Test(s, cs[s], 0) : s \in {t \in S : ~options.onlyCoveringNew \/ sts[t].coveredNew \/ t \in DOMAIN M}}

\* terminateStateOnError: one test for an error at an instruction.
EndsOnError(s) ==
  LET pc == states[s].pc
  IN /\ status' = Ended({s})
     /\ tests' = IF \E t \in tests : t.err = pc THEN tests ELSE tests \cup {Test(s, constraints[s], pc)}
     /\ seedMap' = Reseeded(s :> <<>>)
     /\ UNCHANGED <<states, constraints>>

Branching == UNCHANGED <<program, options>>

\* The program ends: terminateStateOnExit.
Exit(s) ==
  /\ states[s].pc > Len(program)
  /\ status' = Ended({s})
  /\ tests' = tests \cup TestsFor({s}, states, constraints, seedMap)
  /\ seedMap' = Reseeded(s :> <<>>)
  /\ Branching /\ UNCHANGED <<states, constraints, pathWriter, forks, lost>>

-----------------------------------------------------------------------------
(* Executor::fork *)
branchingPermitted(s) == ~states[s].forkDisabled /\ forks < options.maxForks

Validity(P, c) == IF P \subseteq c THEN "True" ELSE IF P \cap c = {} THEN "False" ELSE "Unknown"
Inst(s) == program[states[s].pc]
AtOp(s, op) == states[s].pc \in DOMAIN program /\ Inst(s).op = op

\* One side is taken by s alone; the condition is added unless it is implied.
Follow(s, c, side, added) ==
  LET d == IF ~added THEN AllInputs ELSE IF side THEN c ELSE Not(c)
  IN /\ states' = [states EXCEPT ![s] = [@ EXCEPT !.pc = @ + 1, !.bits = Append(@, side)]]
     /\ constraints' = [constraints EXCEPT ![s] = @ \cap d]
     /\ pathWriter' = write(pathWriter, states[s].pathOS, <<side>>)
     /\ seedMap' = Reseeded(s :> Patched(constraints[s], d, SeedsOf(s)))
     /\ lost' = lost \cup (constraints[s] \ d)
     /\ Branching /\ UNCHANGED <<status, forks, tests>>

\* Query timed out (fork).
ForkTimesOut(s) ==
  /\ AtOp(s, "br")
  /\ options.timeouts
  /\ EndsOnError(s)
  /\ Branching /\ UNCHANGED <<pathWriter, forks, lost>>

ForkDecided(s) ==
  LET res == Validity(constraints[s], Inst(s).cond)
  IN /\ AtOp(s, "br")
     /\ res # "Unknown"
     /\ Follow(s, Inst(s).cond, res = "True", FALSE)

\* No fork is permitted: a side is taken at random.  Seeding is not held to the limits.
ForkInhibited(s) ==
  /\ AtOp(s, "br")
  /\ s \notin DOMAIN seedMap
  /\ Validity(constraints[s], Inst(s).cond) = "Unknown"
  /\ ~branchingPermitted(s)
  /\ \E side \in BOOLEAN : Follow(s, Inst(s).cond, side, TRUE)

\* The seeds agree on a side, and only seeds are replayed.
SeedsFix(s) == s \in DOMAIN seedMap /\ (states[s].forkDisabled \/ options.onlyReplaySeeds)
SideSeeds(s, c) == SelectSeq(SeedsOf(s), LAMBDA x : x.val \in c)
ForkSeedFixed(s) ==
  LET c == Inst(s).cond
  IN /\ AtOp(s, "br")
     /\ Validity(constraints[s], c) = "Unknown"
     /\ SeedsFix(s)
     /\ \E side \in BOOLEAN : /\ SideSeeds(s, IF side THEN Not(c) ELSE c) = <<>>
                              /\ Follow(s, c, side, TRUE)

\* The new state's path is a stream of its own, opened from the old one's.
ForkStream(w, id) == [w |-> open(w, id), id |-> w.ids]

ForkSeeds(s, t, c) == (s :> SideSeeds(s, c)) @@ (t :> SideSeeds(s, Not(c)))

\* Both sides: s takes the true one, t the false one.  The state that keeps the seeds keeps
\* the coverage; both end at the depth limit.
ForkInto(s, t) ==
  LET c == Inst(s).cond
      st == states[s]
      P == constraints[s]
      new == ForkStream(pathWriter, st.pathOS)
      seeds == ForkSeeds(s, t, c)
      swap == s \in DOMAIN seedMap /\ seeds[s] = <<>>
      next == [st EXCEPT !.pc = @ + 1, !.depth = @ + 1]
      a == [next EXCEPT !.bits = Append(@, TRUE), !.coveredNew = @ /\ ~swap]
      b == [next EXCEPT !.bits = Append(@, FALSE), !.pathOS = new.id, !.coveredNew = @ /\ swap]
      deep == options.maxDepth # 0 /\ options.maxDepth <= next.depth
      M == Reseeded((s :> Patched(P, c, seeds[s])) @@ (t :> Patched(P, Not(c), seeds[t])))
      sts == [states EXCEPT ![s] = a, ![t] = b]
      cs == [constraints EXCEPT ![s] = P \cap c, ![t] = P \ c]
  IN /\ AtOp(s, "br")
     /\ Validity(P, c) = "Unknown"
     /\ s \in DOMAIN seedMap \/ branchingPermitted(s)
     /\ SeedsFix(s) => SideSeeds(s, c) # <<>> /\ SideSeeds(s, Not(c)) # <<>>
     /\ forks' = forks + 1
     /\ states' = sts /\ constraints' = cs
     /\ status' = IF deep THEN Ended({s, t}) ELSE [status EXCEPT ![t] = "live"]
     /\ pathWriter' = write(write(new.w, st.pathOS, <<TRUE>>), new.id, <<FALSE>>)
     /\ seedMap' = IF deep THEN Reseeded((s :> <<>>) @@ (t :> <<>>))
                   ELSE M
     /\ tests' = IF deep THEN tests \cup TestsFor({s, t}, sts, cs, M) ELSE tests
     /\ Branching /\ UNCHANGED lost
ForkBoth(s) == \E t \in Fresh : ForkInto(s, t)

-----------------------------------------------------------------------------
(* Executor::branch *)

\* The seeds of each of the N results: a seed goes with the first condition it satisfies,
\* or with one at random, and is dropped if that one has no state.
Targets(seeds, conds) ==
  {f \in [DOMAIN seeds -> DOMAIN conds] :
     \A k \in DOMAIN seeds :
       LET sat == {i \in DOMAIN conds : seeds[k].val \in conds[i]}
       IN sat # {} => f[k] = CHOOSE i \in sat : \A j \in sat : i <= j}
Share(seeds, f, i) ==
  LET to == SelectSeq([k \in DOMAIN seeds |-> <<seeds[k], f[k]>>], LAMBDA x : x[2] = i)
  IN [k \in DOMAIN to |-> to[k][1]]

\* The conditions whose result state stays: --only-replay-seeds ends those without a seed.
Keeps(s, f, result) ==
  {i \in DOMAIN result : s \in DOMAIN seedMap /\ options.onlyReplaySeeds => Share(SeedsOf(s), f, i) # <<>>}
Index(result, t) == CHOOSE i \in DOMAIN result : result[i] = t

\* The seeds of s go to the states of result, and every state gets its condition; rest are the
\* inputs that satisfy none.  copy: the results, copied from s.
Distribute(s, conds, rest, result, copy) ==
  \E f \in Targets(SeedsOf(s), conds) :
    LET keep == Keeps(s, f, result)
        index(t) == Index(result, t)
    IN /\ states' = [t \in State |-> IF t \notin Range(result) THEN states[t]
                                     ELSE IF index(t) \in keep THEN [copy[index(t)] EXCEPT !.pc = @ + 1]
                                     ELSE copy[index(t)]]
       /\ status' = [t \in State |-> IF t \notin Range(result) THEN status[t]
                                     ELSE IF index(t) \in keep THEN "live" ELSE "dropped"]
       /\ constraints' = [t \in State |-> IF t \notin Range(result) THEN constraints[t]
                             ELSE IF index(t) \in keep THEN constraints[s] \cap conds[index(t)] ELSE constraints[s]]
       /\ seedMap' = Reseeded((s :> <<>>) @@ [t \in Range(result) |->
             IF index(t) \in keep THEN Patched(constraints[s], conds[index(t)], Share(SeedsOf(s), f, index(t))) ELSE <<>>])
       /\ lost' = lost \cup rest \cup (constraints[s] \cap UNION {conds[i] : i \in DOMAIN conds \ keep})
       /\ Branching /\ UNCHANGED <<pathWriter, tests>>

\* The result states: s for the first condition, and new states in the order of the others.
Results(s, conds) ==
  {r \in [DOMAIN conds -> {s} \cup Unused] :
     /\ s \in Range(r)
     /\ \A i, j \in DOMAIN conds : i < j => r[j] # s /\ (r[i] = s \/ r[i] < r[j])
     /\ \A i \in DOMAIN conds, t \in Unused \ Range(r) : r[i] < t}

\* result[i] is copied from a result state before it, result[es[i]], and both are one deeper.
\* It keeps the stream of its parent.
Sources(s, result) ==
  {e \in [{i \in DOMAIN result : result[i] # s} -> DOMAIN result] : \A i \in DOMAIN e : e[i] < i}
Copies(s, result, es) ==
  LET children(i, j) == Cardinality({k \in DOMAIN es : es[k] = i /\ k <= j})
      depth[i \in DOMAIN result] ==
        IF result[i] = s THEN states[s].depth ELSE depth[es[i]] + children(es[i], i)
  IN [i \in DOMAIN result |->
        [states[s] EXCEPT !.depth = depth[i] + Cardinality({k \in DOMAIN es : es[k] = i}),
                          !.coveredNew = @ /\ result[i] = s]]

\* If no fork is permitted, s goes on alone, for one condition at random.
Branch(s, conds, rest) ==
  IF ~branchingPermitted(s)
  THEN /\ \E i \in DOMAIN conds : Distribute(s, conds, rest, [j \in {i} |-> s], [j \in {i} |-> states[s]])
       /\ UNCHANGED forks
  ELSE /\ \E result \in Results(s, conds) : \E es \in Sources(s, result) :
            Distribute(s, conds, rest, result, Copies(s, result, es))
       /\ forks' = forks + Cardinality(DOMAIN conds) - 1

\* What the code assumes of a switch (Executor.cpp 3083): "each case value is mutual exclusive
\* to all other values", and the default case takes what the others leave.
Exclusive(conds) == \A i, j \in DOMAIN conds : i # j => conds[i] \cap conds[j] = {}
SwitchesSplit ==
  \A p \in Programs : \A k \in DOMAIN p : p[k].op = "switch" =>
    /\ p[k].cases \in Seq(SUBSET AllInputs) /\ Exclusive(p[k].cases)
    /\ \A x \in AllInputs : \E i \in DOMAIN p[k].cases : x \in p[k].cases[i]

\* Mutant: a case that must hold is wanted.
FeasibleSurely(P, cases) ==
  LET sure == {i \in DOMAIN cases : P \subseteq cases[i]}
  IN Restrict(cases, IF sure = {} THEN {1} ELSE sure)

\* A switch: the cases that may hold.
Feasible(P, cases) == Restrict(cases, {i \in DOMAIN cases : cases[i] \cap P # {}})
Switch(s) == AtOp(s, "switch") /\ Branch(s, Feasible(constraints[s], Inst(s).cases), {})

\* executeGetValue: a seeding state splits on the values the seeds give.
GetValue(s) ==
  LET i == Inst(s).byte
      values == {v \in Byte : \E k \in DOMAIN SeedsOf(s) : SeedsOf(s)[k].val[i] = v}
      conds == [v \in values |-> At(i, v)]
  IN /\ AtOp(s, "getvalue")
     /\ IF s \notin DOMAIN seedMap
        THEN /\ states' = [states EXCEPT ![s].pc = @ + 1]
             /\ Branching /\ UNCHANGED <<status, constraints, seedMap, pathWriter, forks, tests, lost>>
        ELSE Branch(s, conds, constraints[s] \ UNION Range(conds))

-----------------------------------------------------------------------------
(* Other constraints *)
Assumed(s, c) ==
  /\ states' = [states EXCEPT ![s].pc = @ + 1]
  /\ constraints' = [constraints EXCEPT ![s] = @ \cap c]
  /\ seedMap' = Reseeded(s :> Patched(constraints[s], c, SeedsOf(s)))
  /\ lost' = lost \cup (constraints[s] \ c)
  /\ Branching /\ UNCHANGED <<status, pathWriter, forks, tests>>

\* handleAssume
Assume(s) ==
  /\ AtOp(s, "assume")
  /\ constraints[s] \cap Inst(s).cond # {}
  /\ Assumed(s, Inst(s).cond)
AssumeFails(s) ==
  /\ AtOp(s, "assume")
  /\ constraints[s] \cap Inst(s).cond = {}
  /\ EndsOnError(s)
  /\ Branching /\ UNCHANGED <<pathWriter, forks, lost>>

\* toConstant: a byte is fixed to a value it may have.
ToConstant(s) ==
  /\ AtOp(s, "concretize")
  /\ \E v \in Byte : /\ At(Inst(s).byte, v) \cap constraints[s] # {}
                     /\ Assumed(s, At(Inst(s).byte, v))

\* handleSetForking
SetForking(s) ==
  /\ AtOp(s, "setforking")
  /\ states' = [states EXCEPT ![s] = [@ EXCEPT !.forkDisabled = Inst(s).off, !.pc = @ + 1]]
  /\ Branching /\ UNCHANGED <<status, constraints, seedMap, pathWriter, forks, tests, lost>>

ForkInit ==
  /\ program \in Programs /\ options \in Options
  /\ pathWriter = open(NewWriter, 0)
  /\ states = [s \in State |-> IF s = 1 THEN [Unborn EXCEPT !.pathOS = 1, !.coveredNew = TRUE] ELSE Unborn]
  /\ status = [s \in State |-> IF s = 1 THEN "live" ELSE "unborn"]
  /\ constraints = [s \in State |-> IF s = 1 THEN AllInputs ELSE {}]
  /\ seedMap = IF options.seeds = <<>> THEN <<>>
               ELSE 1 :> [k \in DOMAIN options.seeds |-> [val |-> options.seeds[k], patched |-> FALSE]]
  /\ forks = 0 /\ tests = {} /\ lost = {}

\* run: while there are seeds only the states that have some are stepped.
Steps(s) ==
  \/ Exit(s) \/ ForkTimesOut(s) \/ ForkDecided(s) \/ ForkInhibited(s) \/ ForkSeedFixed(s) \/ ForkBoth(s)
  \/ Switch(s) \/ GetValue(s) \/ Assume(s) \/ AssumeFails(s) \/ ToConstant(s) \/ SetForking(s)
ForkNext == \E s \in Live : (DOMAIN seedMap # {} => s \in DOMAIN seedMap) /\ Steps(s)
ForkSpec == ForkInit /\ [][ForkNext]_forkVars

-----------------------------------------------------------------------------
Kept == {s \in State : status[s] \in {"live", "done"}}

\* No input follows the path of two states: fork and branch split a state's inputs
\* (Executor.cpp 1047-1375).
PathsDisjoint == \A s, t \in Kept : s # t => constraints[s] \cap constraints[t] = {}

\* As long as no seed was patched, every path is followed by an input.
PathsFeasible ==
  (\A s \in DOMAIN seedMap : \A k \in DOMAIN seedMap[s] : ~seedMap[s][k].patched)
    => \A s \in Kept : constraints[s] # {}

\* Every input follows the path of some state, unless a limit, a seed, klee_assume or
\* a concretization gave it up.
NoInputLost == AllInputs = lost \cup UNION {constraints[s] : s \in Kept}

Brs == SelectSeq(program, LAMBDA i : i.op = "br")

\* Every input that follows a state's path takes the branches as the state did.
PathsDecided == \A s \in Kept : \A x \in constraints[s], k \in DOMAIN states[s].bits :
  states[s].bits[k] <=> x \in Brs[k].cond

\* A seed that was not patched follows the path of its state, so that replaying the seed
\* reaches what the state covers; seeds are not patched by branches alone.
SeedsFollowPaths == \A s \in DOMAIN seedMap : \A k \in DOMAIN seedMap[s] :
  IF seedMap[s][k].patched THEN Brs # program ELSE seedMap[s][k].val \in constraints[s]

StreamsDistinct == \A s, t \in State :
  s # t /\ status[s] # "unborn" /\ status[t] # "unborn"
    => states[s].pathOS # states[t].pathOS
\* As long as no two states share a stream, a state's stream holds the decisions of its
\* path, those before it was forked included (fork, 1337-1353).
PathsRecorded == StreamsDistinct =>
  \A s \in Kept : readStream(pathWriter, states[s].pathOS) = states[s].bits

\* A test case follows the path of its state and of no other.
TestsFollowPaths == \A t \in tests, s \in Kept :
  t.input \in constraints[s] <=> s = t.state
=============================================================================
