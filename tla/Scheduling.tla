----------------------------- MODULE Scheduling -----------------------------
(***************************************************************************)
(* Executor::run with the searchers of module Searchers: the seeding loop, *)
(* the main loop, forks and terminations with the process tree, path       *)
(* merging, the memory limit, and the end of the run.                      *)
(***************************************************************************)
EXTENDS Searchers, FiniteSetsExt

CONSTANTS Options,     \* command lines: how searchers are stacked, and which options are on
          TreeDepth    \* bound: the depth of the process tree

ASSUME OptionsAssumption == Options \subseteq CommandLine

VARIABLES
  states,         \* the executor's live states
  addedStates,    \* made by the running instruction, in order
  removedStates,  \* ended by it, or by the memory limit
  current,        \* the running state, or NULL
  seedMap,        \* states that have seeds
  hasSearcher,    \* the searcher exists
  stack,          \* the stacked searchers, the process tree and the merge handlers
  haltExecution,  \* set by signals and timers
  step            \* where Executor::run is

loopVars  == <<states, addedStates, removedStates, current, seedMap>>
schedVars == <<loopVars, hasSearcher, stack, haltExecution, step>>

SchedInit ==
  /\ states = {1} /\ addedStates = << >> /\ removedStates = {} /\ current = NULL
  /\ \E o \in Options :
       /\ stack = NewStack(o, NewTree(1))
       /\ seedMap = IF o.seeds THEN {1} ELSE {}
  /\ hasSearcher = FALSE /\ haltExecution = FALSE /\ step = "seeding"

\* An assertion failed: nothing more is said.
Goto(where) == step' = IF stack'.ok THEN where ELSE "aborted"
-----------------------------------------------------------------------------
\* seedMap.upper_bound: the seeding loop runs the seeded states in turn.
SeedStep ==
  /\ step = "seeding" /\ seedMap # {} /\ ~haltExecution
  /\ current' \in seedMap /\ step' = "exec"
  /\ UNCHANGED <<states, addedStates, removedStates, seedMap, hasSearcher, stack,
                 haltExecution>>

\* Seeding is over, or its time is: the searcher is built and told of the live states.
StartSearch ==
  /\ step = "seeding" /\ (haltExecution => seedMap = {})
  /\ hasSearcher' = TRUE
  /\ stack' = SearcherUpdate(stack, NULL, InOrder(states), {}, FALSE)
  /\ Goto("select")
  /\ UNCHANGED <<loopVars, haltExecution>>

\* --only-seed, or a halt while seeding.
EndSeeding ==
  /\ step = "seeding" /\ stack.opt.seeds /\ (haltExecution \/ seedMap = {})
  /\ step' = "dump"
  /\ UNCHANGED <<loopVars, hasSearcher, stack, haltExecution>>

Select ==
  /\ step = "select" /\ states # {} /\ ~haltExecution
  /\ \E used \in BOOLEAN, late \in SUBSET states :
       /\ ~stack.opt.batching => ~used
       /\ ~stack.opt.incomplete => late = {}
       /\ \E r \in SelectState(stack, used, late) : current' = r[1] /\ stack' = r[2]
  /\ Goto("exec")
  /\ UNCHANGED <<states, addedStates, removedStates, seedMap, hasSearcher, haltExecution>>

\* run leaves the loop and deletes the searcher.
EndSearch ==
  /\ step = "select" /\ (states = {} \/ haltExecution)
  /\ hasSearcher' = FALSE /\ step' = "dump"
  /\ UNCHANGED <<loopVars, stack, haltExecution>>
-----------------------------------------------------------------------------
(* What one instruction does.                                              *)

\* Where the allocator puts a new state matters only for the order of std::set: it takes
\* the first free address.
Free == State \ (states \cup Range(addedStates))
Running == ({current} \cup Range(addedStates)) \ removedStates

\* fork, and each round of branch: the new state joins addedStates, the merge handlers of
\* its original, and the process tree on its left; seeds are divided between the two.
Fork(s) ==
  /\ step = "exec" /\ s \in Running /\ Free # {}
  /\ Len(NodeOf(stack.tree, s)) < TreeDepth
  /\ LET new == Min(Free) IN
     /\ addedStates' = Append(addedStates, new)
     /\ stack' = AddState(stack, s, new)
     /\ \E heirs \in SUBSET {s, new} \ {{}} :
          seedMap' = IF s \in seedMap THEN (seedMap \ {s}) \cup heirs ELSE seedMap
  /\ UNCHANGED <<states, removedStates, current, hasSearcher, haltExecution, step>>

\* terminateState: a state the searcher never saw is deleted at once.
Terminate(s) ==
  /\ step = "exec" /\ s \in Running
  /\ IF s \in Range(addedStates)
       THEN /\ addedStates' = Erase(addedStates, {s}) /\ UNCHANGED removedStates
            /\ stack' = RemoveState(stack, s, hasSearcher)
            /\ seedMap' = seedMap \ {s}
       ELSE /\ removedStates' = removedStates \cup {s}
            /\ UNCHANGED <<addedStates, stack, seedMap>>
  /\ Goto("exec")
  /\ UNCHANGED <<states, current, hasSearcher, haltExecution>>

\* klee_open_merge and klee_close_merge are instructions of their own.
CanMerge ==
  step = "exec" /\ stack.opt.merging /\ addedStates = << >> /\ removedStates = {}

\* The new handler enters itself into the merging searcher, which does not exist while
\* seeding.
OpenMerge ==
  /\ CanMerge /\ Handler \ Range(stack.groups) # {}
  /\ stack' = IF hasSearcher
                THEN handleOpenMerge(stack, current, Min(Handler \ Range(stack.groups)))
              ELSE [stack EXCEPT !.ok = FALSE]
  /\ Goto("update")
  /\ UNCHANGED <<loopVars, hasSearcher, haltExecution>>

\* mate is the waiting state the current one merges into, or NULL.
CloseMerge(p, mate) ==
  /\ CanMerge /\ stack.openMergeStack[current] # << >>
  /\ LET refs == stack.openMergeStack[current]
     IN mate = NULL \/ mate \in Range(stack.closed[refs[Len(refs)]][p])
  /\ removedStates' = IF mate = NULL THEN {} ELSE {current}
  /\ stack' = handleCloseMerge(stack, current, p, mate)
  /\ Goto("update")
  /\ UNCHANGED <<states, addedStates, current, seedMap, hasSearcher, haltExecution>>

\* The instruction is done.
Done ==
  /\ step = "exec" /\ step' = "update"
  /\ UNCHANGED <<loopVars, hasSearcher, stack, haltExecution>>
-----------------------------------------------------------------------------
\* updateStates, the searcher's half; without a searcher there is none.  elapsed: the time
\* of the iterative deepening is over.
Update ==
  /\ step = "update"
  /\ \E elapsed \in BOOLEAN :
       /\ ~stack.opt.deepening => ~elapsed
       /\ stack' = IF hasSearcher
                     THEN SearcherUpdate(stack, current, addedStates, removedStates, elapsed)
                     ELSE stack
  /\ Goto("commit")
  /\ UNCHANGED <<loopVars, hasSearcher, haltExecution>>

\* updateStates, the executor's half: removed states leave the process tree and are deleted.
Commit ==
  /\ step = "commit"
  /\ states' = (states \cup Range(addedStates)) \ removedStates
  /\ seedMap' = seedMap \ removedStates
  /\ stack' = RemoveEach(stack, InOrder(removedStates), hasSearcher)
  /\ addedStates' = << >> /\ removedStates' = {}
  /\ current' = IF current \in removedStates THEN NULL ELSE current
  /\ IF ~hasSearcher
       THEN Goto(IF current = NULL THEN "done" ELSE "seeding")
       ELSE Goto(IF current = NULL THEN "select" ELSE "memory")
  /\ UNCHANGED <<hasSearcher, haltExecution>>

\* checkMemoryUsage, over the limit: some states are terminated, whatever they wait for.
KillForMemory ==
  /\ step = "memory" /\ stack.opt.maxMemory
  /\ removedStates' \in SUBSET states /\ (states # {} => removedStates' # {})
  /\ current' = NULL /\ step' = "update"
  /\ UNCHANGED <<states, addedStates, seedMap, hasSearcher, stack, haltExecution>>
NoMemoryKill ==
  /\ step = "memory" /\ step' = "select"
  /\ UNCHANGED <<loopVars, hasSearcher, stack, haltExecution>>

\* doDumpStates: the states left are terminated, and updateStates deletes them.
DumpStates ==
  /\ step = "dump"
  /\ removedStates' = states /\ current' = NULL /\ step' = "update"
  /\ UNCHANGED <<states, addedStates, seedMap, hasSearcher, stack, haltExecution>>

\* A signal or the time limit; the loops look at the flag only before they pick a state.
Halt ==
  /\ step \in {"seeding", "select"} /\ ~haltExecution /\ haltExecution' = TRUE
  /\ UNCHANGED <<loopVars, hasSearcher, stack, step>>

Over == step \in {"done", "aborted"} /\ UNCHANGED schedVars

SchedNext ==
  \/ SeedStep \/ StartSearch \/ EndSeeding \/ Select \/ EndSearch \/ Done \/ Update \/ Commit
  \/ KillForMemory \/ NoMemoryKill \/ DumpStates \/ OpenMerge \/ Halt \/ Over
  \/ \E s \in State : Fork(s) \/ Terminate(s)
  \/ \E p \in 1 .. MergePoints, mate \in State \cup {NULL} : CloseMerge(p, mate)
SchedSpec == SchedInit /\ [][SchedNext]_schedVars
-----------------------------------------------------------------------------
Paused == stack.deepPaused \cup stack.mergePaused

(***************************************************************************)
(* No assertion of the searchers, the merge handlers or the merging        *)
(* special functions fails, however the options stack the searchers:       *)
(* states that fork, end, are paused for their time or to merge are always *)
(* in the containers update and selectState expect.  The combinations that *)
(* do fail all involve merging: with the memory limit (a waiting state is  *)
(* killed), with seeds (there is no merging searcher yet), when the run is *)
(* halted inside a merge (there is none anymore), and incomplete merging   *)
(* over iterative deepening (a state paused for its time is prioritized).  *)
(***************************************************************************)
SearchersDoNotAbort ==
  step = "aborted" =>
    /\ stack.opt.merging
    /\ \/ stack.opt.maxMemory \/ stack.opt.seeds \/ haltExecution
       \/ stack.opt.incomplete /\ stack.opt.deepening

(***************************************************************************)
(* Whenever a state is to be selected, every core searcher holds exactly   *)
(* the live states that no wrapper holds back, and no two wrappers hold    *)
(* back the same state: pausing, reviving, merging and releasing lose no   *)
(* state and duplicate none.                                               *)
(***************************************************************************)
EveryStateHeldOnce ==
  step = "select" =>
    /\ \A n \in DOMAIN stack.cores :
         /\ CoreStates(stack.cores[n], stack.tree) = states \ Paused
         /\ IsInjective(stack.cores[n].states)
    /\ stack.deepPaused \cap stack.mergePaused = {} /\ Paused \subseteq states
    /\ stack.last \in (states \ Paused) \cup {NULL}

(***************************************************************************)
(* A node of the process tree is tagged for a random path searcher exactly *)
(* when a state below it is: the walk of selectState never enters a        *)
(* subtree it cannot leave with a state, through forks that add untagged   *)
(* nodes, removals, pauses and the compression of the tree.                *)
(***************************************************************************)
TagsExact ==
  \A n \in DOMAIN stack.cores : \A m \in DOMAIN stack.tree :
     Ours(stack.tree, m, n) <=>
       \E leaf \in Subtree(stack.tree, m) :
          stack.tree[leaf].state # NULL /\ Ours(stack.tree, leaf, n)

(***************************************************************************)
(* As long as states are live, one of them can be selected: not all of     *)
(* them wait for their time or for a merge, nested merges included.        *)
(***************************************************************************)
SomeStateRuns == step = "select" /\ states # {} => ~BaseEmpty(stack)

(***************************************************************************)
(* The handlers know the states that refer to them, across the copies and  *)
(* the deletion of states inside a merge; a state is in inCloseMerge       *)
(* exactly while it waits, paused, at a close.                             *)
(***************************************************************************)
HandlersMatchStates ==
  step = "select" =>
    /\ IsInjective(stack.groups)
    /\ \A h \in Handler :
         /\ Range(stack.open[h]) = {s \in states : h \in Range(stack.openMergeStack[s])}
         /\ h \in Range(stack.groups) <=> stack.open[h] # << >>
         /\ hasMergedStates(stack, h) => stack.open[h] # << >>
    /\ stack.inCloseMerge = UNION {Range(Waiting(stack, h)) : h \in Handler}
    /\ stack.inCloseMerge = stack.mergePaused

(***************************************************************************)
(* When the run is over, halted (with --dump-states-on-halt, the default)  *)
(* or not, every state has been terminated and deleted, with its node of   *)
(* the process tree and its merge handlers.                                *)
(***************************************************************************)
RunLeavesNothing ==
  step = "done" => states = {} /\ DOMAIN stack.tree = {} /\ stack.groups = << >>

(***************************************************************************)
(* Every stack of searchers is a searcher: however its layers pass states  *)
(* on, hold them back and give them out again, the stack as a whole learns *)
(* of and forgets states only as the executor asked, and agrees with the   *)
(* executor whenever a state is picked.  The seeding loop and the final    *)
(* dump, which have no searcher, create and end states by the same rules.  *)
(***************************************************************************)
Pool == INSTANCE StatePool WITH
          live <- states, created <- Range(addedStates), killed <- removedStates,
          picked <- current,
          pool <- IF hasSearcher THEN Known(stack)
                  ELSE IF step = "commit" THEN (states \cup Range(addedStates)) \ removedStates
                  ELSE states
SearchersAreStatePool == Pool!PoolSpec
=============================================================================
