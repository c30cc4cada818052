----------------------------- MODULE Searchers -----------------------------
(***************************************************************************)
(* The searchers other than CGSSearcher, stacked the way                   *)
(* constructUserSearcher stacks them: one or more core searchers, in an    *)
(* InterleavedSearcher when there are several, then optionally batching,   *)
(* iterative deepening and merging around them.                            *)
(*                                                                         *)
(* A stack is a record: opt holds the options; cores the core searchers;   *)
(* index the interleaver's position; last the state the batcher keeps;     *)
(* deepPaused and mergePaused the states two wrappers hold back; tree the  *)
(* process tree; ok is FALSE once an assertion failed.  The merge handlers *)
(* are groups (their order), open and closed (their states) and            *)
(* openMergeStack (who refers to them), see Path merging below.            *)
(***************************************************************************)
EXTENDS Naturals, Sequences, Functions, ProcessTree

CONSTANTS NULL,
          MaxStates,    \* bound: the execution states there are at a time
          Handler,      \* addresses of merge handlers
          MergePoints   \* number of klee_close_merge instructions

\* Addresses of execution states: numbers, for their order.
State == 1 .. MaxStates

ASSUME StatesAssumption == MaxStates \in Nat \ {0} /\ NULL \notin State /\ MergePoints \in Nat

\* A loop over a sequence, and the states of a set in the order of std::set.
ForEach(op(_, _), x, q) ==
  LET after[k \in 0 .. Len(q)] == IF k = 0 THEN x ELSE op(after[k - 1], q[k])
  IN after[Len(q)]
InOrder(S) ==
  CHOOSE q \in UNION {[1 .. n -> S] : n \in 0 .. MaxStates} :
    (\A s \in S : \E k \in DOMAIN q : q[k] = s) /\ \A j, k \in DOMAIN q : j < k => q[j] < q[k]

\* The core searchers to choose from, and the options that matter here.
Kinds == {"DFS", "BFS", "RandomState", "RandomPath", "CoveringNew", "Depth"}
CommandLine ==
  [cores : Seq(Kinds) \ {<< >>}, batching : BOOLEAN, deepening : BOOLEAN, merging : BOOLEAN,
   incomplete : BOOLEAN, compress : BOOLEAN, maxMemory : BOOLEAN, seeds : BOOLEAN]

\* getNewSearcher: the n-th core searcher.  A random path searcher takes the next tag bit,
\* and keeps no container.
NewCore(kinds, n) ==
  [kind |-> kinds[n], id |-> n, states |-> << >>]

\* constructUserSearcher; mergingSearcher is set only with --use-merge.
NewStack(options, t) ==
  [opt |-> options, cores |-> [n \in DOMAIN options.cores |-> NewCore(options.cores, n)],
   index |-> 1, last |-> NULL, deepPaused |-> {}, mergePaused |-> {}, tree |-> t, ok |-> TRUE,
   groups |-> << >>, open |-> [h \in Handler |-> << >>],
   closed |-> [h \in Handler |-> [p \in 1 .. MergePoints |-> << >>]],
   openMergeStack |-> [s \in State |-> << >>], inCloseMerge |-> {}]
-----------------------------------------------------------------------------
\* The states a core searcher can select from.
CoreStates(c, t) ==
  IF c.kind = "RandomPath" THEN WalkEnds(t, c.id, NULL) ELSE Range(c.states)

Erase(q, gone) ==
  ForEach(LAMBDA kept, s : IF s \in gone THEN kept ELSE Append(kept, s), << >>, q)

\* Mutant: removed states stay.
ListUpdateKeeps(c, added, removed) == [c EXCEPT !.states = @ \o added]

\* DFSSearcher and RandomSearcher keep insertion order.
ListUpdate(c, added, removed) == [c EXCEPT !.states = Erase(@ \o added, removed)]

\* BFSSearcher: a state that forked moves behind the states of its level.
BFSUpdate(c, current, added, removed) ==
  LET evolved == added # << >> /\ current # NULL /\ current \notin removed
      moved   == IF evolved THEN Append(Erase(c.states, {current}), current) ELSE c.states
  IN [c EXCEPT !.states = Erase(moved \o added, removed)]

\* WeightedRandomSearcher: the weights decide how often a state is chosen, never whether it
\* may be; the order of insertion means nothing.  Weights by depth are never updated.
WeightedKinds == {"CoveringNew", "Depth"}
WeightedUpdate(c, added, removed) ==
  [c EXCEPT !.states = InOrder((Range(@) \cup Range(added)) \ removed)]

\* RandomPathSearcher
MarkEach(t, id, q) == ForEach(LAMBDA u, s : Mark(u, NodeOf(u, s), id), t, q)
UnmarkEach(t, id, q) == ForEach(LAMBDA u, s : Unmark(u, NodeOf(u, s), id), t, q)
PathUpdate(t, id, added, removed) ==
  UnmarkEach(MarkEach(t, id, added), id, InOrder(removed))

\* The assertions of the update methods: what is removed is there, what is re-weighted or
\* moved is there, what is inserted into the weighted tree is not.
UpdateAsserts(c, t, current, added, removed) ==
  LET known == CoreStates(c, t)
      stays == current # NULL /\ current \notin removed
  IN /\ removed \subseteq known \cup Range(added)
     /\ (c.kind = "BFS" /\ added # << >> /\ stays) => current \in known
     /\ (c.kind = "CoveringNew" /\ stays) => current \in known
     /\ c.kind \in WeightedKinds => Range(added) \cap known = {}

\* One core searcher's update.
CoreUpdate(S, n, current, added, removed) ==
  LET c == S.cores[n]
      checked == [S EXCEPT !.ok = @ /\ UpdateAsserts(c, S.tree, current, added, removed)]
  IN IF ~checked.ok THEN checked
     ELSE IF c.kind = "RandomPath"
       THEN [checked EXCEPT !.tree = PathUpdate(@, c.id, added, removed)]
       ELSE [checked EXCEPT !.cores[n] =
               IF c.kind = "BFS" THEN BFSUpdate(@, current, added, removed)
               ELSE IF c.kind \in WeightedKinds THEN WeightedUpdate(@, added, removed)
               ELSE ListUpdate(@, added, removed)]

InterleavedUpdate(S, current, added, removed) ==
  ForEach(LAMBDA T, n : CoreUpdate(T, n, current, added, removed), S,
           [n \in DOMAIN S.cores |-> n])

\* Mutant: the kept state survives its removal.
BatchingKeepsState(S, current, added, removed) == InterleavedUpdate(S, current, added, removed)

\* BatchingSearcher drops the state it keeps when that is removed.
BatchingUpdate(S, current, added, removed) ==
  InterleavedUpdate([S EXCEPT !.last = IF @ \in removed THEN NULL ELSE @],
                    current, added, removed)

\* InterleavedSearcher asks its first searcher.
BaseEmpty(S) == CoreStates(S.cores[1], S.tree) = {}

\* IterativeDeepeningTimeSearcher: removed states that are paused are unknown below; a
\* state over its time is paused; when nothing is left below, the paused states return.
PauseCurrent(S, current) ==
  BatchingUpdate([S EXCEPT !.deepPaused = @ \cup {current}], NULL, << >>, {current})
Revive(S) ==
  BatchingUpdate([S EXCEPT !.deepPaused = {}], NULL, InOrder(S.deepPaused), {})
\* Mutants: paused states are not filtered out; the paused states never return.
DeepeningUnfiltered(S, current, added, removed, elapsed) ==
  LET below   == BatchingUpdate([S EXCEPT !.deepPaused = @ \ removed], current, added, removed)
      expired == current # NULL /\ current \notin removed /\ elapsed
      after   == IF expired THEN PauseCurrent(below, current) ELSE below
  IN IF ~S.opt.deepening THEN BatchingUpdate(S, current, added, removed)
     ELSE IF BaseEmpty(after) THEN Revive(after) ELSE after
DeepeningNoRevival(S, current, added, removed, elapsed) ==
  LET below   == BatchingUpdate([S EXCEPT !.deepPaused = @ \ removed],
                                current, added, removed \ S.deepPaused)
      expired == current # NULL /\ current \notin removed /\ elapsed
  IN IF ~S.opt.deepening THEN BatchingUpdate(S, current, added, removed)
     ELSE IF expired THEN PauseCurrent(below, current) ELSE below

DeepeningUpdate(S, current, added, removed, elapsed) ==
  LET below   == BatchingUpdate([S EXCEPT !.deepPaused = @ \ removed],
                                current, added, removed \ S.deepPaused)
      expired == current # NULL /\ current \notin removed /\ elapsed
      after   == IF expired THEN PauseCurrent(below, current) ELSE below
  IN IF ~S.opt.deepening THEN BatchingUpdate(S, current, added, removed)
     ELSE IF BaseEmpty(after) THEN Revive(after) ELSE after

\* MergingSearcher: an update for a state that was paused by this very instruction is not
\* passed on.
SearcherUpdate(S, current, added, removed, elapsed) ==
  IF current \in S.mergePaused THEN S
  ELSE DeepeningUpdate(S, current, added, removed, elapsed)

pauseState(S, s) ==
  DeepeningUpdate([S EXCEPT !.mergePaused = @ \cup {s}, !.ok = @ /\ s \notin S.mergePaused],
                  NULL, << >>, {s}, FALSE)
continueState(S, s) ==
  DeepeningUpdate([S EXCEPT !.mergePaused = @ \ {s}, !.ok = @ /\ s \in S.mergePaused],
                  NULL, <<s>>, {}, FALSE)
-----------------------------------------------------------------------------
\* What the core searchers' selectState may return.
CoreSelects(c, t) ==
  IF c.kind = "DFS" THEN {c.states[Len(c.states)]}
  ELSE IF c.kind = "BFS" THEN {Head(c.states)}
  ELSE CoreStates(c, t)

\* selectState needs a state to return, and a random walk that ends in one.
SelectAsserts(c, t) ==
  CoreStates(c, t) # {} /\ (c.kind = "RandomPath" => ~WalkLost(t, c.id, NULL))

\* The interleaver takes its searchers in turn, the batcher keeps its state until its
\* budget is used up.
SelectBase(S, budgetUsed) ==
  LET c    == S.cores[S.index]
      turn == [S EXCEPT !.index = IF @ = 1 THEN Len(S.cores) ELSE @ - 1,
                        !.ok = @ /\ SelectAsserts(c, S.tree)]
      kept(s) == [turn EXCEPT !.last = IF S.opt.batching THEN s ELSE NULL]
  IN IF S.opt.batching /\ S.last # NULL /\ ~budgetUsed THEN {<<S.last, S>>}
     ELSE IF ~turn.ok THEN {<<NULL, turn>>}
     ELSE {<<s, kept(s)>> : s \in CoreSelects(c, S.tree)}

\* The states some layer of the stack holds: below, paused for their time, paused to merge.
Known(S) ==
  (UNION {CoreStates(S.cores[n], S.tree) : n \in DOMAIN S.cores})
    \cup S.deepPaused \cup S.mergePaused
-----------------------------------------------------------------------------
(***************************************************************************)
(* Path merging: MergeHandler, the part of MergingSearcher it drives, and  *)
(* the calls that reach it from the special functions and from the copies  *)
(* and the destruction of execution states.  A handler lives as long as a  *)
(* state refers to it from its openMergeStack.                             *)
(***************************************************************************)
\* std::swap with the back, and pop_back.
SwapErase(q, e) ==
  LET i == CHOOSE j \in DOMAIN q : q[j] = e
  IN SubSeq([q EXCEPT ![i] = q[Len(q)]], 1, Len(q) - 1)

\* reachedCloseMerge, in the order releaseStates walks it.
Waiting(S, h) == ForEach(LAMBDA q, waiting : q \o waiting, << >>, S.closed[h])
hasMergedStates(S, h) == Waiting(S, h) # << >>

releaseStates(S, h) ==
  LET continued == ForEach(LAMBDA T, s : continueState(T, s), S, Waiting(S, h))
  IN [continued EXCEPT !.inCloseMerge = @ \ Range(Waiting(S, h)),
                       !.closed[h] = [p \in 1 .. MergePoints |-> << >>]]

\* ~MergeHandler, through executor->mergingSearcher: there must still be one.
DestroyHandler(S, h, hasSearcher) ==
  IF ~hasSearcher THEN [S EXCEPT !.ok = FALSE]
  ELSE releaseStates([S EXCEPT !.groups = SwapErase(@, h), !.open[h] = << >>], h)

\* The references to handlers that a state drops, in order: the last one to a handler
\* destroys it.
Referenced(S, h) == \E s \in State : h \in Range(S.openMergeStack[s])
DropReferences(S, refs, hasSearcher) ==
  ForEach(LAMBDA T, h : IF Referenced(T, h) THEN T ELSE DestroyHandler(T, h, hasSearcher), S, refs)

removeOpenState(S, h, s) ==
  [S EXCEPT !.ok = @ /\ s \in Range(S.open[h]),
            !.open[h] = IF s \in Range(@) THEN SwapErase(@, s) ELSE @]

\* Mutant: the copy is not entered.
CopyNotEntered(S, s, copy) == [S EXCEPT !.openMergeStack[copy] = S.openMergeStack[s]]

\* The copy constructor of ExecutionState enters the copy into the handlers of the original.
CopyMerges(S, s, copy) ==
  [S EXCEPT !.openMergeStack[copy] = S.openMergeStack[s],
            !.open = [h \in Handler |-> IF h \in Range(S.openMergeStack[s])
                                          THEN Append(@[h], copy) ELSE @[h]]]

\* A state forks: the new one enters the process tree on its left, and its handlers.
AddState(S, s, new) ==
  CopyMerges([S EXCEPT !.tree = Attach(@, NodeOf(@, s), new, s, NULL)], s, new)

\* ~ExecutionState leaves them, and drops its references.
DeleteState(S, s, hasSearcher) ==
  LET left == ForEach(LAMBDA T, h : removeOpenState(T, h, s), S, S.openMergeStack[s])
  IN DropReferences([left EXCEPT !.openMergeStack[s] = << >>], S.openMergeStack[s], hasSearcher)

\* A state leaves the process tree and is deleted.
RemoveState(S, s, hasSearcher) ==
  DeleteState([S EXCEPT !.tree = RemoveNode(@, NodeOf(@, s), S.opt.compress)], s, hasSearcher)
RemoveEach(S, q, hasSearcher) == ForEach(LAMBDA T, s : RemoveState(T, s, hasSearcher), S, q)

handleOpenMerge(S, s, h) ==
  [S EXCEPT !.groups = Append(@, h), !.open[h] = <<s>>,
            !.openMergeStack[s] = Append(@, h)]

\* addClosedState: the state waits at the close, unless it merges into one that does
\* (ExecutionState::merge succeeds on mate) and is terminated.
addClosedState(S, s, p, mate) ==
  LET h == S.openMergeStack[s][Len(S.openMergeStack[s])]
      left == removeOpenState(S, h, s)
  IN IF mate = NULL
       THEN pauseState([left EXCEPT !.closed[h][p] = Append(@, s)], s)
       ELSE [left EXCEPT !.inCloseMerge = @ \ {s}]

handleCloseMerge(S, s, p, mate) ==
  LET entered == [S EXCEPT !.ok = @ /\ s \notin S.inCloseMerge,
                           !.inCloseMerge = @ \cup {s}]
      closed  == addClosedState(entered, s, p, mate)
      refs    == closed.openMergeStack[s]
  IN DropReferences([closed EXCEPT !.openMergeStack[s] = SubSeq(refs, 1, Len(refs) - 1)],
                    <<refs[Len(refs)]>>, TRUE)
-----------------------------------------------------------------------------
\* getPrioritizeState: the first open state that is not closing and not late, that is, less
\* than twice the mean number of instructions away from the open.
Prioritized(S, h, late) ==
  SelectSeq(S.open[h], LAMBDA s : s \notin S.inCloseMerge \cup late)

\* MergingSearcher::selectState.  With --use-incomplete-merge, the first handler that has
\* closed states and one to prioritize decides; the ones before it release their states.
SelectState(S, budgetUsed, late) ==
  LET merged  == SelectSeq(S.groups, LAMBDA h : hasMergedStates(S, h))
      prefers == {i \in DOMAIN merged : Prioritized(S, merged[i], late) # << >>}
      first   == IF prefers = {} THEN Len(merged) + 1
                 ELSE CHOOSE i \in prefers : \A j \in prefers : i <= j
      released == ForEach(LAMBDA T, h : releaseStates(T, h), S, SubSeq(merged, 1, first - 1))
  IN IF S.opt.merging /\ BaseEmpty(S) THEN {<<NULL, [S EXCEPT !.ok = FALSE]>>}
     ELSE IF ~(S.opt.merging /\ S.opt.incomplete) THEN SelectBase(S, budgetUsed)
     ELSE IF prefers # {}
       THEN {<<Prioritized(S, merged[first], late)[1], released>>}
       ELSE SelectBase(released, budgetUsed)
=============================================================================
