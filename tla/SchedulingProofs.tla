-------------------------- MODULE SchedulingProofs --------------------------
(***************************************************************************)
(* Executor::run and its searchers on a command line without --use-merge,  *)
(* for any number of states, any core searchers and wrappers, any seeds and *)
(* any process tree: the theorems about the properties of Scheduling, and  *)
(* that the executor and its stack of searchers implement StatePool.       *)
(***************************************************************************)
EXTENDS Scheduling, SearcherProofs

\* What the searchers know of: nothing before there are any, and after an update the
\* states that will be live.
Knows ==
  IF ~hasSearcher THEN {}
  ELSE IF step = "commit" THEN (states \cup Range(addedStates)) \ removedStates ELSE states

\* The searcher is gone and the states left are being terminated.
Ending ==
  /\ ~hasSearcher
  /\ step \in {"dump", "done"} \/ (step \in {"update", "commit"} /\ current = NULL)

\* The executor's containers.
Lists ==
  /\ states \subseteq State /\ addedStates \in Seq(State) /\ IsInjective(addedStates)
  /\ Range(addedStates) \cap states = {} /\ removedStates \subseteq states
  /\ current \in states \cup {NULL} /\ seedMap \subseteq states \cup Range(addedStates)
  /\ hasSearcher \in BOOLEAN

\* What is known at each place of Executor::run.
Places ==
  /\ step \in {"seeding", "select", "exec", "update", "commit", "memory", "dump", "done"}
  /\ step \notin {"exec", "update", "commit"} => addedStates = << >> /\ removedStates = {}
  /\ step = "exec" => current # NULL
  /\ step \in {"select", "memory"} => hasSearcher
  /\ step \in {"seeding", "dump", "done"} => ~hasSearcher
  /\ Ending /\ step \in {"update", "commit"} => addedStates = << >> /\ removedStates = states
  /\ step = "done" => states = {}

\* The searchers and the process tree.
Stacks ==
  /\ ~stack.opt.merging /\ stack \in Stack /\ stack.ok /\ Idle(stack) /\ WellTagged(stack.tree)
  /\ InTree(stack.tree) = states \cup Range(addedStates)
  /\ ~Ending => Holds(stack, Knows)
  /\ hasSearcher /\ step \in {"exec", "update"} => current \notin stack.deepPaused

SchedInv == Lists /\ Places /\ Stacks

\* The first state.
LEMMA InitInv == SchedInit /\ ~stack.opt.merging => SchedInv
<1> SUFFICES ASSUME SchedInit, ~stack.opt.merging PROVE SchedInv
  OBVIOUS
<1>1. PICK o \in Options : stack = NewStack(o, NewTree(1)) /\ seedMap = IF o.seeds THEN {1} ELSE {}
  BY Zenon DEF SchedInit
<1>2. /\ states = {1} /\ addedStates = << >> /\ removedStates = {} /\ current = NULL
      /\ hasSearcher = FALSE /\ step = "seeding"
  BY Zenon DEF SchedInit
<1>3. o \in CommandLine /\ 1 \in State
  BY OptionsAssumption, StatesAssumption DEF State
<1>4. Holds(stack, {}) /\ Idle(stack) /\ InTree(stack.tree) = {1}
  BY <1>1, <1>3, NewStackIs
<1>5. Lists
  BY <1>1, <1>2, <1>3, NothingAdded, Zenon DEF Lists
<1>6. Places
  BY <1>2 DEF Places, Ending
<1>7. Stacks
  <2>1. Knows = {} /\ ~hasSearcher
    BY <1>2 DEF Knows
  <2>2. stack \in Stack /\ stack.ok /\ WellTagged(stack.tree)
    BY <1>4, Zenon DEF Holds, Within, Kept, HeldBy
  <2>3. InTree(stack.tree) = states \cup Range(addedStates)
    BY <1>2, <1>4, NothingAdded
  <2> QED BY <1>4, <2>1, <2>2, <2>3, Zenon DEF Stacks
<1> QED BY <1>5, <1>6, <1>7, Zenon DEF SchedInv

\* The searchers' stack after a step that keeps what they know.
LEMMA StackSame ==
  ASSUME SchedInv, UNCHANGED stack, (states \cup Range(addedStates))' = states \cup Range(addedStates),
         ~Ending' => ~Ending /\ Knows' = Knows,
         hasSearcher' /\ step' \in {"exec", "update"} => current' \notin stack.deepPaused
  PROVE  Stacks'
<1>1. /\ ~stack.opt.merging /\ stack \in Stack /\ stack.ok /\ Idle(stack) /\ WellTagged(stack.tree)
      /\ InTree(stack.tree) = states \cup Range(addedStates) /\ (~Ending => Holds(stack, Knows))
  BY Zenon DEF SchedInv, Stacks
<1>2. ~Ending' => Holds(stack, Knows')
  BY <1>1, Zenon
<1> QED BY <1>1, <1>2, Zenon DEF Stacks

\* Stuttering.
LEMMA StutterInv == SchedInv /\ UNCHANGED schedVars => SchedInv'
<1> SUFFICES ASSUME SchedInv, UNCHANGED schedVars PROVE SchedInv'
  OBVIOUS
<1>1. UNCHANGED <<states, addedStates, removedStates, current, seedMap, hasSearcher, stack, step>>
  BY DEF schedVars, loopVars
<1>2. Lists'
  BY <1>1, Zenon DEF SchedInv, Lists
<1>3. Places'
  BY <1>1, Zenon DEF SchedInv, Places, Ending
<1>4. Stacks'
  BY <1>1, Zenon DEF SchedInv, Stacks, Ending, Knows
<1> QED BY <1>2, <1>3, <1>4, Zenon DEF SchedInv

\* The seeding loop.
LEMMA SeedStepInv == SchedInv /\ SeedStep => SchedInv'
<1> SUFFICES ASSUME SchedInv, SeedStep PROVE SchedInv'
  OBVIOUS
<1>1. /\ step = "seeding" /\ current' \in seedMap /\ step' = "exec"
      /\ UNCHANGED <<states, addedStates, removedStates, seedMap, hasSearcher, stack>>
  BY DEF SeedStep
<1>2. Lists /\ Places
  BY Zenon DEF SchedInv
<1>3. ~hasSearcher /\ addedStates = << >> /\ removedStates = {} /\ current' \in states /\ current' # NULL
  <2>1. ~hasSearcher /\ addedStates = << >> /\ removedStates = {}
    BY <1>1, <1>2 DEF Places
  <2>2. current' \in states /\ states \subseteq State
    BY <1>1, <1>2, <2>1, NothingAdded, ZenonT(40) DEF Lists
  <2> QED BY <2>1, <2>2, StatesAssumption, Zenon
<1>4. Lists'
  BY <1>1, <1>2, <1>3, Zenon DEF Lists
<1>5. Places'
  BY <1>1, <1>2, <1>3 DEF Places, Ending
<1>6. Stacks'
  <2>1. ~Ending /\ Knows = {} /\ Knows' = {} /\ ~hasSearcher'
    BY <1>1, <1>3 DEF Ending, Knows
  <2>2. (states \cup Range(addedStates))' = states \cup Range(addedStates)
    BY <1>1, Zenon
  <2> QED BY <1>1, <2>1, <2>2, StackSame, Zenon
<1> QED BY <1>4, <1>5, <1>6, Zenon DEF SchedInv

\* The searcher is built and told of the live states.
LEMMA StartSearchInv == SchedInv /\ StartSearch => SchedInv'
<1> SUFFICES ASSUME SchedInv, StartSearch PROVE SchedInv'
  OBVIOUS
<1> DEFINE q == InOrder(states)
<1>1. /\ step = "seeding" /\ hasSearcher' = TRUE /\ stack' = SearcherUpdate(stack, NULL, q, {}, FALSE)
      /\ step' = (IF stack'.ok THEN "select" ELSE "aborted")
      /\ UNCHANGED <<states, addedStates, removedStates, current, seedMap>>
  BY DEF StartSearch, Goto, loopVars
<1>2. Lists /\ Places /\ Stacks
  BY Zenon DEF SchedInv
<1>3. ~hasSearcher /\ addedStates = << >> /\ removedStates = {}
  BY <1>1, <1>2 DEF Places
<1>4. ~Ending /\ Knows = {}
  BY <1>1, <1>3 DEF Ending, Knows
<1>5. Holds(stack, {}) /\ Idle(stack) /\ ~stack.opt.merging /\ InTree(stack.tree) = states
  <2>1. states \cup Range(addedStates) = states
    BY <1>3, NothingAdded
  <2> QED BY <1>2, <1>4, <2>1, Zenon DEF Stacks
<1>6. q \in Seq(State) /\ Range(q) = states /\ IsInjective(q)
  BY <1>2, InOrderIs, Zenon DEF Lists
<1> HIDE DEF q
<1>7. Request(stack, {}, NULL, q, {})
  BY <1>5, <1>6, Zenon DEF Request
<1>8. Holds(stack', states) /\ Same(stack, stack') /\ Idle(stack')
  <2>1. ({} \cup Range(q)) \ {} = states
    BY <1>6, Zenon
  <2>2. Holds(stack', ({} \cup Range(q)) \ {}) /\ Same(stack, stack') /\ Idle(stack')
    BY <1>1, <1>5, <1>7, SearcherKeeps, Zenon
  <2> QED BY <2>1, <2>2, Zenon
<1>9. stack' \in Stack /\ stack'.ok /\ WellTagged(stack'.tree)
  BY <1>8, Zenon DEF Holds, Within, Kept, HeldBy
<1>10. step' = "select"
  BY <1>1, <1>9, Zenon
<1>11. Lists'
  BY <1>1, <1>2, Zenon DEF Lists
<1>12. Places'
  BY <1>1, <1>3, <1>10, Zenon DEF Places, Ending
<1>13. Stacks'
  <2>1. Knows' = states /\ (step' \notin {"exec", "update"})
    BY <1>1, <1>10 DEF Knows
  <2>2. ~stack'.opt.merging
    BY <1>5, <1>8, RestIs, Zenon DEF Same
  <2>3. InTree(stack'.tree) = states' \cup Range(addedStates')
    <3>1. InTree(stack'.tree) = states
      BY <1>5, <1>8, Zenon DEF Same
    <3> QED BY <1>1, <1>3, <3>1, NothingAdded, Zenon
  <2> QED BY <1>8, <1>9, <2>1, <2>2, <2>3, Zenon DEF Stacks
<1> QED BY <1>11, <1>12, <1>13, Zenon DEF SchedInv

\* Steps that only move on: the end of seeding and of the search, an instruction that is
\* done, and a memory limit that is not reached.
LEMMA MoveInv == SchedInv /\ (EndSeeding \/ EndSearch \/ Done \/ NoMemoryKill) => SchedInv'
<1> SUFFICES ASSUME SchedInv, EndSeeding \/ EndSearch \/ Done \/ NoMemoryKill PROVE SchedInv'
  OBVIOUS
<1>1. /\ UNCHANGED <<states, addedStates, removedStates, current, seedMap, stack>>
      /\ \/ step = "seeding" /\ step' = "dump" /\ hasSearcher' = hasSearcher
         \/ step = "select" /\ step' = "dump" /\ hasSearcher' = FALSE
         \/ step = "exec" /\ step' = "update" /\ hasSearcher' = hasSearcher
         \/ step = "memory" /\ step' = "select" /\ hasSearcher' = hasSearcher
  BY DEF EndSeeding, EndSearch, Done, NoMemoryKill, loopVars
<1>2. Lists /\ Places /\ Stacks
  BY Zenon DEF SchedInv
<1>3. Lists'
  BY <1>1, <1>2, Zenon DEF Lists
<1>4. Places'
  BY <1>1, <1>2 DEF Places, Ending
<1>5. Stacks'
  <2>1. ~Ending' => ~Ending /\ Knows' = Knows
    BY <1>1, <1>2 DEF Ending, Knows, Places
  <2>2. (states \cup Range(addedStates))' = states \cup Range(addedStates)
    BY <1>1, Zenon
  <2>3. hasSearcher' /\ step' \in {"exec", "update"} => current' \notin stack.deepPaused
    BY <1>1, <1>2, Zenon DEF Stacks
  <2> QED BY <1>1, <2>1, <2>2, <2>3, StackSame, Zenon
<1> QED BY <1>3, <1>4, <1>5, Zenon DEF SchedInv

\* A state is selected.
LEMMA SelectInv == SchedInv /\ Select => SchedInv'
<1> SUFFICES ASSUME SchedInv, Select PROVE SchedInv'
  OBVIOUS
<1>1. /\ step = "select" /\ states # {}
      /\ step' = (IF stack'.ok THEN "exec" ELSE "aborted")
      /\ UNCHANGED <<states, addedStates, removedStates, seedMap, hasSearcher>>
  BY DEF Select, Goto
<1>2. PICK used \in BOOLEAN, late \in SUBSET states :
        \E r \in SelectState(stack, used, late) : current' = r[1] /\ stack' = r[2]
  BY Zenon DEF Select
<1>3. PICK r \in SelectState(stack, used, late) : current' = r[1] /\ stack' = r[2]
  BY <1>2, Zenon
<1>4. Lists /\ Places /\ Stacks
  BY Zenon DEF SchedInv
<1>5. hasSearcher /\ addedStates = << >> /\ removedStates = {}
  BY <1>1, <1>4, ZenonT(40) DEF Places
<1>6. ~Ending /\ Knows = states
  BY <1>1, <1>5, ZenonT(40) DEF Ending, Knows
<1>7. Holds(stack, states) /\ Idle(stack) /\ ~stack.opt.merging
  BY <1>4, <1>6, Zenon DEF Stacks
<1>8. /\ r[1] \in states \ stack.deepPaused
      /\ Selected(stack, r[2]) /\ Holds(r[2], states) /\ Idle(r[2])
  BY <1>1, <1>7, SelectKeeps, ZenonT(40)
<1>9. /\ current' \in states \ stack.deepPaused
      /\ Selected(stack, stack') /\ Holds(stack', states) /\ Idle(stack')
  BY <1>3, <1>8, Zenon
<1>10. stack' \in Stack /\ stack'.ok /\ WellTagged(stack'.tree)
  BY <1>9, Zenon DEF Holds, Within, Kept, HeldBy
<1>11. step' = "exec"
  BY <1>1, <1>10, Zenon
<1>12. current' \in states /\ current' # NULL
  BY <1>4, <1>9, StatesAssumption, Zenon DEF Lists
<1>13. Lists'
  BY <1>1, <1>4, <1>12, Zenon DEF Lists
<1>14. Places'
  BY <1>1, <1>5, <1>11, <1>12, ZenonT(40) DEF Places, Ending
<1>15. Stacks'
  <2>1. Knows' = states
    BY <1>1, <1>5, <1>11, ZenonT(40) DEF Knows
  <2>2. ~stack'.opt.merging /\ current' \notin stack'.deepPaused
    BY <1>7, <1>9, Zenon DEF Selected
  <2>3. InTree(stack'.tree) = states' \cup Range(addedStates')
    <3>1. stack'.tree = stack.tree
      BY <1>9, Zenon DEF Selected
    <3> QED BY <1>1, <1>4, <3>1, Zenon DEF Stacks
  <2> QED BY <1>9, <1>10, <2>1, <2>2, <2>3, Zenon DEF Stacks
<1> QED BY <1>13, <1>14, <1>15, Zenon DEF SchedInv

\* The first free address is free.
LEMMA FreshState ==
  ASSUME Lists, Free # {}
  PROVE  Min(Free) \in State /\ Min(Free) \notin states \cup Range(addedStates)
<1>1. Free \subseteq Nat
  BY StatesAssumption DEF Free, State
<1>2. \E x \in Free : \A y \in Free : x <= y
  BY <1>1, LeastNat, Zenon
<1>3. Min(Free) \in Free
  BY <1>2, Zenon DEF Min
<1> QED BY <1>3, Zenon DEF Free

\* A fork.
LEMMA ForkInv == ASSUME SchedInv, NEW s \in State, Fork(s) PROVE SchedInv'
<1> DEFINE new == Min(Free)
<1>1. /\ step = "exec" /\ s \in Running /\ Free # {} /\ addedStates' = Append(addedStates, new)
      /\ stack' = AddState(stack, s, new)
      /\ UNCHANGED <<states, removedStates, current, hasSearcher, step>>
  BY Zenon DEF Fork
<1>2. \E heirs \in SUBSET {s, new} \ {{}} :
         seedMap' = IF s \in seedMap THEN (seedMap \ {s}) \cup heirs ELSE seedMap
  BY Zenon DEF Fork
<1>3. Lists /\ Places /\ Stacks
  BY Zenon DEF SchedInv
<1>4. new \in State /\ new \notin states \cup Range(addedStates)
  BY <1>1, <1>3, FreshState, Zenon
<1>5. current # NULL /\ current \in states
  BY <1>1, <1>3 DEF Places, Lists
<1>6. s \in states \cup Range(addedStates)
  BY <1>1, <1>5, Zenon DEF Running
<1>7. ~Ending /\ ~Ending' /\ Knows' = Knows
  BY <1>1, <1>5, ZenonT(40) DEF Ending, Knows
<1> HIDE DEF new
<1>8. addedStates' \in Seq(State) /\ Range(addedStates') = Range(addedStates) \cup {new} /\ IsInjective(addedStates')
  BY <1>1, <1>3, <1>4, AppendIs, ZenonT(40) DEF Lists
<1>9. Lists'
  <2>1. seedMap' \subseteq states \cup Range(addedStates')
    BY <1>2, <1>3, <1>6, <1>8, Zenon DEF Lists
  <2>2. Range(addedStates') \cap states = {}
    BY <1>3, <1>4, <1>8, Zenon DEF Lists
  <2> QED BY <1>1, <1>3, <1>8, <2>1, <2>2, Zenon DEF Lists
<1>10. Places'
  BY <1>1, <1>3, <1>5, ZenonT(40) DEF Places, Ending
<1>11. Holds(stack, Knows) /\ Idle(stack) /\ InTree(stack.tree) = states \cup Range(addedStates) /\ ~stack.opt.merging
  BY <1>3, <1>7, Zenon DEF Stacks
<1>12. /\ Holds(stack', Knows) /\ Idle(stack') /\ stack'.opt = stack.opt /\ stack'.deepPaused = stack.deepPaused
       /\ InTree(stack'.tree) = InTree(stack.tree) \cup {new}
  <2>1. s \in InTree(stack.tree) /\ new \notin InTree(stack.tree)
    BY <1>4, <1>6, <1>11, Zenon
  <2>2. Grown(stack, stack', Knows, new)
    BY <1>1, <1>4, <1>11, <2>1, ForkKeeps, ZenonT(40)
  <2> QED BY <2>2, Zenon DEF Grown
<1>13. Stacks'
  <2>1. stack' \in Stack /\ stack'.ok /\ WellTagged(stack'.tree)
    BY <1>12, Zenon DEF Holds, Within, Kept, HeldBy
  <2>2. InTree(stack'.tree) = states' \cup Range(addedStates')
    BY <1>1, <1>8, <1>11, <1>12, ZenonT(40)
  <2>3. hasSearcher' /\ step' \in {"exec", "update"} => current' \notin stack'.deepPaused
    BY <1>1, <1>3, <1>12, Zenon DEF Stacks
  <2> QED BY <1>7, <1>11, <1>12, <2>1, <2>2, <2>3, Zenon DEF Stacks
<1> QED BY <1>9, <1>10, <1>13, Zenon DEF SchedInv

\* A termination: a state of this instruction is deleted, another one is marked.
LEMMA TerminateInv == ASSUME SchedInv, NEW s \in State, Terminate(s) PROVE SchedInv'
<1>1. /\ step = "exec" /\ s \in Running /\ step' = (IF stack'.ok THEN "exec" ELSE "aborted")
      /\ UNCHANGED <<states, current, hasSearcher>>
  BY Zenon DEF Terminate, Goto
<1>3. Lists /\ Places /\ Stacks
  BY Zenon DEF SchedInv
<1>5. current # NULL /\ current \in states
  BY <1>1, <1>3, ZenonT(40) DEF Places, Lists
<1>7. ~Ending
  BY <1>1 DEF Ending
<1>11. Holds(stack, Knows) /\ Idle(stack) /\ InTree(stack.tree) = states \cup Range(addedStates) /\ ~stack.opt.merging
  BY <1>3, <1>7, Zenon DEF Stacks
<1>12. Knows = IF hasSearcher THEN states ELSE {}
  BY <1>1 DEF Knows
<1>20. CASE s \in Range(addedStates)
  <2>1. /\ addedStates' = Erase(addedStates, {s}) /\ UNCHANGED removedStates
        /\ stack' = RemoveState(stack, s, hasSearcher) /\ seedMap' = seedMap \ {s}
    BY <1>20, Zenon DEF Terminate
  <2>2. /\ addedStates' \in Seq(State) /\ Range(addedStates') = Range(addedStates) \ {s}
        /\ IsInjective(addedStates')
    BY <1>3, <2>1, EraseIs, ZenonT(40) DEF Lists
  <2>3. s \notin states /\ s \in InTree(stack.tree) /\ s \notin Knows
    BY <1>3, <1>11, <1>12, <1>20, Zenon DEF Lists
  <2>4. stack \in Stack /\ IsTree(stack.tree)
    BY <1>3, Zenon DEF Stacks, WellTagged
  <2>5. Shrunk(stack, stack', s)
    BY <1>11, <2>1, <2>3, <2>4, RemoveStateIs, ZenonT(40)
  <2>6. Holds(stack', Knows)
    BY <1>11, <2>3, <2>5, ShrunkHolds, Zenon
  <2>7. stack' \in Stack /\ stack'.ok /\ WellTagged(stack'.tree)
    BY <2>6, Zenon DEF Holds, Within, Kept, HeldBy
  <2>8. step' = "exec"
    BY <1>1, <2>7, Zenon
  <2>9. Lists'
    <3>1. seedMap' \subseteq states \cup Range(addedStates')
      BY <1>3, <2>1, <2>2, Zenon DEF Lists
    <3>2. Range(addedStates') \cap states = {}
      BY <1>3, <2>2, Zenon DEF Lists
    <3> QED BY <1>1, <1>3, <2>1, <2>2, <3>1, <3>2, Zenon DEF Lists
  <2>10. Places'
    BY <1>1, <1>3, <1>5, <2>8, ZenonT(40) DEF Places, Ending
  <2>11. Stacks'
    <3>1. Knows' = Knows
      BY <1>1, <2>8, <1>12, ZenonT(40) DEF Knows
    <3>2. Rest(stack') = Rest(stack) /\ stack'.deepPaused = stack.deepPaused /\ InTree(stack'.tree) = InTree(stack.tree) \ {s}
      BY <2>5, Zenon DEF Shrunk
    <3>3. Idle(stack') /\ ~stack'.opt.merging
      BY <1>11, <3>2, IdleSame, RestIs, Zenon
    <3>4. InTree(stack'.tree) = states' \cup Range(addedStates')
      BY <1>1, <1>11, <2>2, <2>3, <3>2, ZenonT(40)
    <3>5. hasSearcher' /\ step' \in {"exec", "update"} => current' \notin stack'.deepPaused
      BY <1>1, <1>3, <3>2, Zenon DEF Stacks
    <3> QED BY <2>6, <2>7, <3>1, <3>3, <3>4, <3>5, Zenon DEF Stacks
  <2> QED BY <2>9, <2>10, <2>11, Zenon DEF SchedInv
<1>21. CASE s \notin Range(addedStates)
  <2>1. removedStates' = removedStates \cup {s} /\ UNCHANGED <<addedStates, stack, seedMap>>
    BY <1>21, Zenon DEF Terminate
  <2>2. s \in states
    BY <1>1, <1>5, <1>21, Zenon DEF Running
  <2>3. step' = "exec"
    <3>1. stack'.ok
      BY <1>3, <2>1, Zenon DEF Stacks
    <3> QED BY <1>1, <3>1, Zenon
  <2>4. Lists'
    BY <1>1, <1>3, <2>1, <2>2, Zenon DEF Lists
  <2>5. Places'
    BY <1>1, <1>3, <1>5, <2>3, ZenonT(40) DEF Places, Ending
  <2>6. Stacks'
    <3>1. Knows' = Knows
      BY <1>1, <1>12, <2>3, ZenonT(40) DEF Knows
    <3>2. (states \cup Range(addedStates))' = states \cup Range(addedStates)
      BY <1>1, <2>1, Zenon
    <3>3. hasSearcher' /\ step' \in {"exec", "update"} => current' \notin stack.deepPaused
      BY <1>1, <1>3, Zenon DEF Stacks
    <3> QED BY <1>7, <2>1, <3>1, <3>2, <3>3, StackSame, Zenon
  <2> QED BY <2>4, <2>5, <2>6, Zenon DEF SchedInv
<1> QED BY <1>20, <1>21, Zenon

\* The searcher's half of updateStates.
LEMMA UpdateInv == SchedInv /\ Update => SchedInv'
<1> SUFFICES ASSUME SchedInv, Update PROVE SchedInv'
  OBVIOUS
<1>1. /\ step = "update" /\ step' = (IF stack'.ok THEN "commit" ELSE "aborted")
      /\ UNCHANGED <<states, addedStates, removedStates, current, seedMap, hasSearcher>>
  BY DEF Update, Goto, loopVars
<1>2. PICK elapsed \in BOOLEAN :
        stack' = IF hasSearcher THEN SearcherUpdate(stack, current, addedStates, removedStates, elapsed) ELSE stack
  BY Zenon DEF Update
<1>3. Lists /\ Places /\ Stacks
  BY Zenon DEF SchedInv
<1>4. CASE hasSearcher
  <2> DEFINE L2 == (states \cup Range(addedStates)) \ removedStates
  <2>1. ~Ending /\ Knows = states
    BY <1>1, <1>4 DEF Ending, Knows
  <2>2. /\ Holds(stack, states) /\ Idle(stack) /\ InTree(stack.tree) = states \cup Range(addedStates)
        /\ ~stack.opt.merging /\ current \notin stack.deepPaused
    <3>1. step \in {"exec", "update"}
      BY <1>1
    <3> QED BY <1>3, <1>4, <2>1, <3>1, Zenon DEF Stacks
  <2>3. Request(stack, states, current, addedStates, removedStates)
    <3>1. Range(addedStates) \subseteq InTree(stack.tree)
      BY <2>2, Zenon
    <3>2. current \in (states \ stack.deepPaused) \cup {NULL}
      BY <1>3, <2>2, Zenon DEF Lists
    <3> QED BY <1>3, <3>1, <3>2, Zenon DEF Lists, Request
  <2>4. stack' = SearcherUpdate(stack, current, addedStates, removedStates, elapsed)
    BY <1>2, <1>4, Zenon
  <2>5. Holds(stack', L2) /\ Same(stack, stack') /\ Idle(stack')
    BY <2>2, <2>3, <2>4, SearcherKeeps, ZenonT(40)
  <2> HIDE DEF L2
  <2>6. stack' \in Stack /\ stack'.ok /\ WellTagged(stack'.tree)
    BY <2>5, Zenon DEF Holds, Within, Kept, HeldBy
  <2>7. step' = "commit"
    BY <1>1, <2>6, Zenon
  <2>8. Lists'
    BY <1>1, <1>3, Zenon DEF Lists
  <2>9. Places'
    BY <1>1, <1>3, <1>4, <2>7, ZenonT(40) DEF Places, Ending
  <2>10. Stacks'
    <3>1. Knows' = L2 /\ step' \notin {"exec", "update"}
      BY <1>1, <1>4, <2>7, ZenonT(40) DEF Knows, L2
    <3>2. ~stack'.opt.merging
      BY <2>2, <2>5, RestIs, Zenon DEF Same
    <3>3. InTree(stack'.tree) = states' \cup Range(addedStates')
      BY <1>1, <2>2, <2>5, Zenon DEF Same
    <3> QED BY <2>5, <2>6, <3>1, <3>2, <3>3, Zenon DEF Stacks
  <2> QED BY <2>8, <2>9, <2>10, Zenon DEF SchedInv
<1>5. CASE ~hasSearcher
  <2>1. stack' = stack
    BY <1>2, <1>5, Zenon
  <2>2. step' = "commit"
    <3>1. stack'.ok
      BY <1>3, <2>1, Zenon DEF Stacks
    <3> QED BY <1>1, <3>1, Zenon
  <2>3. Lists'
    BY <1>1, <1>3, Zenon DEF Lists
  <2>4. Places'
    BY <1>1, <1>3, <1>5, <2>2, ZenonT(40) DEF Places, Ending
  <2>5. Stacks'
    <3>1. (Ending' <=> Ending) /\ Knows' = Knows /\ ~hasSearcher'
      BY <1>1, <1>5, <2>2, ZenonT(40) DEF Knows, Ending
    <3>2. (states \cup Range(addedStates))' = states \cup Range(addedStates)
      BY <1>1, Zenon
    <3> QED BY <2>1, <3>1, <3>2, StackSame, Zenon
  <2> QED BY <2>3, <2>4, <2>5, Zenon DEF SchedInv
<1> QED BY <1>4, <1>5, Zenon

\* The executor's half of updateStates.
LEMMA CommitInv == SchedInv /\ Commit => SchedInv'
<1> SUFFICES ASSUME SchedInv, Commit PROVE SchedInv'
  OBVIOUS
<1> DEFINE q == InOrder(removedStates)
           L2 == (states \cup Range(addedStates)) \ removedStates
<1>1. /\ step = "commit" /\ states' = L2 /\ seedMap' = seedMap \ removedStates
      /\ stack' = RemoveEach(stack, q, hasSearcher)
      /\ addedStates' = << >> /\ removedStates' = {}
      /\ current' = (IF current \in removedStates THEN NULL ELSE current)
      /\ hasSearcher' = hasSearcher
  BY DEF Commit
<1>2. /\ ~hasSearcher => step' = (IF stack'.ok THEN (IF current = NULL THEN "done" ELSE "seeding") ELSE "aborted")
      /\ hasSearcher => step' = (IF stack'.ok THEN (IF current = NULL THEN "select" ELSE "memory") ELSE "aborted")
  BY DEF Commit, Goto
<1>3. Lists /\ Places /\ Stacks
  BY Zenon DEF SchedInv
<1>4. removedStates \subseteq State /\ removedStates \subseteq InTree(stack.tree)
  BY <1>3, Zenon DEF Lists, Stacks
<1>5. q \in Seq(State) /\ Range(q) = removedStates /\ IsInjective(q)
  BY <1>4, InOrderIs, ZenonT(40)
<1> HIDE DEF q
<1>6. stack \in Stack /\ Idle(stack) /\ IsTree(stack.tree) /\ stack.ok /\ ~stack.opt.merging
      /\ InTree(stack.tree) = states \cup Range(addedStates)
  BY <1>3, Zenon DEF Stacks, WellTagged
<1>7. Emptied(stack, stack', removedStates) /\ Idle(stack')
  <2>1. Range(q) \subseteq InTree(stack.tree)
    BY <1>4, <1>5, Zenon
  <2>2. Emptied(stack, stack', Range(q)) /\ Idle(stack')
    BY <1>1, <1>5, <1>6, <2>1, RemoveEachKeeps, ZenonT(40)
  <2> QED BY <1>5, <2>2, Zenon
<1>8. /\ stack' \in Stack /\ stack'.ok /\ Rest(stack') = Rest(stack) /\ IsTree(stack'.tree)
      /\ InTree(stack'.tree) = L2
      /\ \A L : Holds(stack, L) /\ removedStates \cap L = {} => Holds(stack', L)
  BY <1>6, <1>7, Zenon DEF Emptied
<1>9. ~stack'.opt.merging
  BY <1>6, <1>8, RestIs, Zenon
<1>10. InTree(stack'.tree) = states' \cup Range(addedStates')
  BY <1>1, <1>8, NothingAdded, ZenonT(40)
<1>11. Lists'
  <2>1. L2 \subseteq State
    <3>1. Range(addedStates) \subseteq State
      <4>1. \A k \in DOMAIN addedStates : addedStates[k] \in State
        BY <1>3 DEF Lists
      <4> QED BY <4>1, Zenon DEF Range
    <3> QED BY <1>3, <3>1, Zenon DEF Lists
  <2>2. /\ L2 \subseteq State /\ << >> \in Seq(State) /\ IsInjective(<< >>) /\ Range(<< >>) = {}
        /\ Range(<< >>) \cap L2 = {} /\ {} \subseteq L2
    BY <2>1, NothingAdded, Zenon
  <2>3. current' \in L2 \cup {NULL} /\ seedMap' \subseteq L2 \cup Range(<< >>)
    BY <1>1, <1>3, Zenon DEF Lists
  <2> HIDE DEF L2
  <2> QED BY <1>1, <1>3, <2>2, <2>3, Zenon DEF Lists
<1> HIDE DEF L2
<1>12. CASE hasSearcher
  <2>1. step' \in {"select", "memory"}
    BY <1>2, <1>8, <1>12, ZenonT(40)
  <2>2. Places'
    BY <1>1, <1>12, <2>1, ZenonT(40) DEF Places, Ending
  <2>3. ~Ending /\ Knows = L2 /\ Knows' = L2 /\ step' \notin {"exec", "update"}
    BY <1>1, <1>12, <2>1, ZenonT(40) DEF Ending, Knows, L2
  <2>4. Holds(stack, L2) /\ removedStates \cap L2 = {}
    BY <1>3, <2>3, Zenon DEF Stacks, L2
  <2>5. Holds(stack', L2)
    BY <1>8, <2>4, Zenon
  <2>6. WellTagged(stack'.tree)
    BY <2>5, Zenon DEF Holds, Within, Kept, HeldBy
  <2>7. Stacks'
    BY <1>7, <1>8, <1>9, <1>10, <2>3, <2>5, <2>6, Zenon DEF Stacks
  <2> QED BY <1>11, <2>2, <2>7, Zenon DEF SchedInv
<1>13. CASE ~hasSearcher /\ current # NULL
  <2>1. step' = "seeding"
    BY <1>2, <1>8, <1>13, ZenonT(40)
  <2>2. Places'
    BY <1>1, <1>13, <2>1, ZenonT(40) DEF Places, Ending
  <2>3. ~Ending /\ Knows = {} /\ Knows' = {} /\ ~hasSearcher'
    BY <1>1, <1>13, <2>1, ZenonT(40) DEF Ending, Knows
  <2>4. Holds(stack', {})
    BY <1>3, <1>8, <2>3, Zenon DEF Stacks
  <2>6. WellTagged(stack'.tree)
    BY <2>4, Zenon DEF Holds, Within, Kept, HeldBy
  <2>7. Stacks'
    BY <1>7, <1>8, <1>9, <1>10, <2>3, <2>4, <2>6, Zenon DEF Stacks
  <2> QED BY <1>11, <2>2, <2>7, Zenon DEF SchedInv
<1>14. CASE ~hasSearcher /\ current = NULL
  <2>1. step' = "done"
    BY <1>2, <1>8, <1>14, ZenonT(40)
  <2>2. addedStates = << >> /\ removedStates = states
    BY <1>1, <1>3, <1>14, ZenonT(40) DEF Places, Ending
  <2>3. L2 = {}
    BY <2>2, NothingAdded, ZenonT(40) DEF L2
  <2>4. Places'
    BY <1>1, <1>14, <2>1, <2>3, ZenonT(40) DEF Places, Ending
  <2>5. Ending' /\ ~hasSearcher'
    BY <1>1, <1>14, <2>1, ZenonT(40) DEF Ending
  <2>6. WellTagged(stack'.tree)
    BY <1>8, <2>3, NoStatesNoNodes, Zenon
  <2>7. Stacks'
    BY <1>7, <1>8, <1>9, <1>10, <2>5, <2>6, Zenon DEF Stacks
  <2> QED BY <1>11, <2>4, <2>7, Zenon DEF SchedInv
<1> QED BY <1>12, <1>13, <1>14, Zenon

\* States are terminated for their memory, or at the end of the run.
LEMMA KillInv == SchedInv /\ (KillForMemory \/ DumpStates) => SchedInv'
<1> SUFFICES ASSUME SchedInv, KillForMemory \/ DumpStates PROVE SchedInv'
  OBVIOUS
<1>1. /\ \/ step = "memory" /\ removedStates' \subseteq states
         \/ step = "dump" /\ removedStates' = states
      /\ current' = NULL /\ step' = "update"
      /\ UNCHANGED <<states, addedStates, seedMap, hasSearcher, stack>>
  BY DEF KillForMemory, DumpStates
<1>2. Lists /\ Places /\ Stacks
  BY Zenon DEF SchedInv
<1>3. Lists'
  BY <1>1, <1>2, Zenon DEF Lists
<1>4. Places'
  BY <1>1, <1>2, ZenonT(40) DEF Places, Ending
<1>5. Stacks'
  <2>1. ~Ending' => ~Ending /\ Knows' = Knows
    BY <1>1, <1>2, ZenonT(40) DEF Ending, Knows, Places
  <2>2. (states \cup Range(addedStates))' = states \cup Range(addedStates)
    BY <1>1, Zenon
  <2>3. current' \notin stack.deepPaused
    <3>1. stack.deepPaused \subseteq State
      BY <1>2 DEF Stacks, Stack
    <3> QED BY <1>1, <3>1, StatesAssumption, Zenon
  <2> QED BY <1>1, <2>1, <2>2, <2>3, StackSame, Zenon
<1> QED BY <1>3, <1>4, <1>5, Zenon DEF SchedInv

\* Every step keeps the invariant.
LEMMA NextInv == SchedInv /\ [SchedNext]_schedVars => SchedInv'
<1> SUFFICES ASSUME SchedInv, [SchedNext]_schedVars PROVE SchedInv'
  OBVIOUS
<1>1. ASSUME Halt \/ Over PROVE SchedInv'
  <2>1. UNCHANGED <<states, addedStates, removedStates, current, seedMap, hasSearcher, stack, step>>
    BY <1>1 DEF Halt, Over, schedVars, loopVars
  <2>2. Lists' /\ Places'
    BY <2>1, Zenon DEF SchedInv, Lists, Places, Ending
  <2>3. Stacks'
    BY <2>1, Zenon DEF SchedInv, Stacks, Ending, Knows
  <2> QED BY <2>2, <2>3, Zenon DEF SchedInv
<1>2. ASSUME OpenMerge \/ \E p \in 1 .. MergePoints, mate \in State \cup {NULL} : CloseMerge(p, mate) PROVE FALSE
  BY <1>2, Zenon DEF OpenMerge, CloseMerge, CanMerge, SchedInv, Stacks
<1>3. CASE UNCHANGED schedVars
  BY <1>3, StutterInv, ZenonT(40)
<1>4. CASE SchedNext
  BY <1>1, <1>2, <1>4, SeedStepInv, StartSearchInv, MoveInv, SelectInv, UpdateInv, CommitInv, KillInv,
     ForkInv, TerminateInv, ZenonT(40) DEF SchedNext
<1> QED BY <1>3, <1>4, ZenonT(40)

\* The invariant of runs without merging.
LEMMA SchedInvariant == SchedSpec /\ ~stack.opt.merging => []SchedInv
BY InitInv, NextInv, PTL DEF SchedSpec

\* SearchersDoNotAbort, for every command line without --use-merge.
THEOREM SearchersNeverAbort == SchedSpec /\ ~stack.opt.merging => []SearchersDoNotAbort
<1>1. SchedInv => SearchersDoNotAbort
  BY DEF SchedInv, Places, SearchersDoNotAbort
<1> QED BY <1>1, SchedInvariant, PTL

\* EveryStateHeldOnce, for every command line without --use-merge.
THEOREM StatesAreHeldOnce == SchedSpec /\ ~stack.opt.merging => []EveryStateHeldOnce
<1>1. ASSUME SchedInv, step = "select" PROVE EveryStateHeldOnce
  <2> DEFINE B == states \ stack.deepPaused
  <2>1. Lists /\ Places /\ Stacks
    BY <1>1, Zenon DEF SchedInv
  <2>2. ~Ending /\ Knows = states
    BY <1>1, <2>1, ZenonT(40) DEF Ending, Knows, Places
  <2>3. Holds(stack, states) /\ stack.mergePaused = {}
    BY <2>1, <2>2, Zenon DEF Stacks, Idle
  <2>4. Paused = stack.deepPaused /\ stack.deepPaused \cap stack.mergePaused = {}
    BY <2>3 DEF Paused
  <2>5. /\ Kept(stack, B) /\ stack.deepPaused \subseteq states
    BY <2>3, Zenon DEF Holds, Within
  <2> HIDE DEF B
  <2>6. /\ HeldBy(stack, B) /\ stack.last \in B \cup {NULL}
    BY <2>5, Zenon DEF Kept
  <2>7. /\ stack \in Stack /\ WellTagged(stack.tree)
        /\ \A n \in DOMAIN stack.cores : CoreHolds(stack.cores[n], n, stack.tree, B)
    BY <2>6, Zenon DEF HeldBy
  <2>8. \A n \in DOMAIN stack.cores : n \in Nat
    BY <2>7 DEF Stack
  <2>9. ASSUME NEW n \in DOMAIN stack.cores
        PROVE  CoreStates(stack.cores[n], stack.tree) = B /\ IsInjective(stack.cores[n].states)
    <3>1. CoreHolds(stack.cores[n], n, stack.tree, B) /\ n \in Nat
      BY <2>7, <2>8, Zenon
    <3>2. CoreStates(stack.cores[n], stack.tree) = B
      BY <2>7, <3>1, CoreStatesIs, Zenon
    <3> QED BY <3>1, <3>2, Zenon DEF CoreHolds
  <2> QED BY <2>4, <2>5, <2>6, <2>9, Zenon DEF EveryStateHeldOnce, B
<1>2. SchedInv => EveryStateHeldOnce
  BY <1>1, Zenon DEF EveryStateHeldOnce
<1> QED BY <1>2, SchedInvariant, PTL

\* TagsExact, for every command line without --use-merge.
THEOREM TagsAreExact == SchedSpec /\ ~stack.opt.merging => []TagsExact
<1>1. ASSUME SchedInv PROVE TagsExact
  <2>1. WellTagged(stack.tree) /\ stack \in Stack
    BY <1>1, Zenon DEF SchedInv, Stacks
  <2>2. \A n \in DOMAIN stack.cores : n \in Nat
    BY <2>1 DEF Stack
  <2>3. \A n \in DOMAIN stack.cores : TagExact(stack.tree, n)
    BY <2>1, <2>2, Zenon DEF WellTagged
  <2> QED BY <2>3, Zenon DEF TagExact, TagsExact, Ours, Subtree
<1> QED BY <1>1, SchedInvariant, PTL

\* SomeStateRuns, for every command line without --use-merge.
THEOREM SomeStateAlwaysRuns == SchedSpec /\ ~stack.opt.merging => []SomeStateRuns
<1>1. ASSUME SchedInv, step = "select", states # {} PROVE ~BaseEmpty(stack)
  <2>1. Lists /\ Places /\ Stacks
    BY <1>1, Zenon DEF SchedInv
  <2>2. ~Ending /\ Knows = states
    BY <1>1, <2>1, ZenonT(40) DEF Ending, Knows, Places
  <2>3. Holds(stack, states)
    BY <2>1, <2>2, Zenon DEF Stacks
  <2>4. Kept(stack, states \ stack.deepPaused) /\ states \ stack.deepPaused # {}
    BY <1>1, <2>3, Zenon DEF Holds, Within
  <2> QED BY <2>4, BaseEmptyIs, Zenon
<1>2. SchedInv => SomeStateRuns
  BY <1>1, Zenon DEF SomeStateRuns
<1> QED BY <1>2, SchedInvariant, PTL

\* RunLeavesNothing, for every command line without --use-merge.
THEOREM RunsLeaveNothing == SchedSpec /\ ~stack.opt.merging => []RunLeavesNothing
<1>1. ASSUME SchedInv, step = "done" PROVE states = {} /\ DOMAIN stack.tree = {} /\ stack.groups = << >>
  <2>1. Places /\ Stacks
    BY <1>1, Zenon DEF SchedInv
  <2>2. states = {} /\ addedStates = << >>
    BY <1>1, <2>1, ZenonT(40) DEF Places
  <2>3. IsTree(stack.tree) /\ InTree(stack.tree) = states \cup Range(addedStates) /\ stack.groups = << >>
    BY <2>1, Zenon DEF Stacks, WellTagged, Idle
  <2>4. InTree(stack.tree) = {}
    BY <2>2, <2>3, NothingAdded, ZenonT(40)
  <2> QED BY <2>2, <2>3, <2>4, NoStatesNoNodes, Zenon
<1>2. SchedInv => RunLeavesNothing
  BY <1>1, Zenon DEF RunLeavesNothing
<1> QED BY <1>2, SchedInvariant, PTL

\* The states some layer of a stack holds are those it should.
LEMMA KnownIs ==
  ASSUME NEW S, NEW L, Holds(S, L), Idle(S)
  PROVE  Known(S) = L
<1> DEFINE B == L \ S.deepPaused
<1>1. Kept(S, B) /\ S.deepPaused \subseteq L /\ S.mergePaused = {}
  BY Zenon DEF Holds, Within, Idle
<1>2. B \cup S.deepPaused \cup {} = L
  BY <1>1
<1> HIDE DEF B
<1>3. /\ S \in Stack /\ WellTagged(S.tree) /\ 1 \in DOMAIN S.cores
      /\ \A n \in DOMAIN S.cores : CoreHolds(S.cores[n], n, S.tree, B)
  BY <1>1, Zenon DEF Kept, HeldBy
<1>4. \A n \in DOMAIN S.cores : n \in Nat
  BY <1>3 DEF Stack
<1>5. \A n \in DOMAIN S.cores : CoreStates(S.cores[n], S.tree) = B
  BY <1>3, <1>4, CoreStatesIs, Zenon
<1> DEFINE U == UNION {CoreStates(S.cores[n], S.tree) : n \in DOMAIN S.cores}
<1>6. U = B
  BY <1>3, <1>5, Zenon
<1>7. Known(S) = U \cup S.deepPaused \cup S.mergePaused
  BY Zenon DEF Known
<1> HIDE DEF U
<1>8. Known(S) = B \cup S.deepPaused \cup {}
  BY <1>1, <1>6, <1>7, Zenon
<1> QED BY <1>2, <1>8, Zenon

\* What the abstract searcher sees.
PoolNow ==
  IF hasSearcher THEN Known(stack)
  ELSE IF step = "commit" THEN (states \cup Range(addedStates)) \ removedStates
  ELSE states
Survivors == (states \cup Range(addedStates)) \ removedStates

\* It is the live states, and between the halves of updateStates those that will be.
LEMMA PoolIs == SchedInv => PoolNow = IF step = "commit" THEN Survivors ELSE states
<1> SUFFICES ASSUME SchedInv PROVE PoolNow = IF step = "commit" THEN Survivors ELSE states
  OBVIOUS
<1>1. CASE hasSearcher
  <2>1. ~Ending /\ Knows = IF step = "commit" THEN Survivors ELSE states
    BY <1>1 DEF Ending, Knows, Survivors
  <2>2. Holds(stack, Knows) /\ Idle(stack)
    BY <2>1, Zenon DEF SchedInv, Stacks
  <2>3. Known(stack) = Knows
    BY <2>2, KnownIs, Zenon
  <2> QED BY <1>1, <2>1, <2>3, Zenon DEF PoolNow
<1>2. CASE ~hasSearcher
  BY <1>2, Zenon DEF PoolNow, Survivors
<1> QED BY <1>1, <1>2, Zenon

\* Every step is a step of StatePool, or none.
LEMMA StepMaps == SchedInv /\ SchedInv' /\ [SchedNext]_schedVars => [Pool!PoolNext]_(Pool!poolVars)
<1> SUFFICES ASSUME SchedInv, SchedInv', [SchedNext]_schedVars PROVE [Pool!PoolNext]_(Pool!poolVars)
  OBVIOUS
<1>1. PoolNow = IF step = "commit" THEN Survivors ELSE states
  BY PoolIs
<1>2. PoolNow' = IF step' = "commit" THEN Survivors' ELSE states'
  <2>1. SchedInv' => (PoolNow = IF step = "commit" THEN Survivors ELSE states)'
    BY PoolIs, PTL
  <2> QED BY <2>1
<1>3. Lists /\ Places /\ Lists' /\ Places'
  BY Zenon DEF SchedInv
<1>4. ASSUME UNCHANGED <<states, addedStates, removedStates, current>>, step # "commit", step' # "commit"
      PROVE  UNCHANGED Pool!poolVars
  <2>1. PoolNow' = PoolNow
    BY <1>1, <1>2, <1>4, Zenon
  <2> QED BY <1>4, <2>1, Zenon DEF Pool!poolVars, PoolNow
<1>5. ASSUME EndSeeding \/ EndSearch \/ Done \/ NoMemoryKill \/ Halt \/ StartSearch PROVE UNCHANGED Pool!poolVars
  <2>1. UNCHANGED <<states, addedStates, removedStates, current>> /\ step # "commit"
    BY <1>5, Zenon DEF EndSeeding, EndSearch, Done, NoMemoryKill, Halt, StartSearch, loopVars
  <2>2. step' # "commit"
    BY <1>5, Zenon DEF EndSeeding, EndSearch, Done, NoMemoryKill, Halt, StartSearch, Goto, loopVars
  <2> QED BY <1>4, <2>1, <2>2, ZenonT(40)
<1>6. ASSUME UNCHANGED schedVars PROVE UNCHANGED Pool!poolVars
  <2>1. UNCHANGED <<states, addedStates, removedStates, current, stack, step, hasSearcher>>
    BY <1>6 DEF schedVars, loopVars
  <2>2. PoolNow' = PoolNow
    BY <2>1, Zenon DEF PoolNow
  <2> QED BY <2>1, <2>2, Zenon DEF Pool!poolVars, PoolNow
<1>7. ASSUME SeedStep \/ Select PROVE Pool!Pick
  <2>1. /\ UNCHANGED <<states, addedStates, removedStates>> /\ step \in {"seeding", "select"} /\ step' # "commit"
    BY <1>7, ZenonT(40) DEF SeedStep, Select, Goto
  <2>2. addedStates = << >> /\ removedStates = {} /\ Range(addedStates) = {}
    BY <1>3, <2>1, NothingAdded, ZenonT(40) DEF Places
  <2>3. PoolNow = states /\ PoolNow' = states
    BY <1>1, <1>2, <2>1, ZenonT(40)
  <2>4. step' = "exec"
    BY <1>3, <1>7, ZenonT(40) DEF SeedStep, Select, Goto, Places
  <2>5. current' \in states
    BY <1>3, <2>1, <2>4, ZenonT(40) DEF Places, Lists
  <2> QED BY <2>1, <2>2, <2>3, <2>5, Zenon DEF Pool!Pick, PoolNow
<1>8. ASSUME NEW s \in State, Fork(s) PROVE Pool!Create(Min(Free)) /\ Min(Free) \in State
  <2> DEFINE new == Min(Free)
  <2>1. /\ step = "exec" /\ Free # {} /\ addedStates' = Append(addedStates, new)
        /\ UNCHANGED <<states, removedStates, current, step>>
    BY <1>8, Zenon DEF Fork
  <2>2. new \in State /\ new \notin states \cup Range(addedStates)
    BY <1>3, <2>1, FreshState, Zenon
  <2> HIDE DEF new
  <2>3. Range(addedStates') = Range(addedStates) \cup {new}
    BY <1>3, <2>1, <2>2, AppendIs, ZenonT(40) DEF Lists
  <2>4. PoolNow = states /\ PoolNow' = states /\ current # NULL
    BY <1>1, <1>2, <1>3, <2>1, ZenonT(40) DEF Places
  <2>5. Pool!Create(new)
    BY <2>1, <2>2, <2>3, <2>4, Zenon DEF Pool!Create, PoolNow
  <2> QED BY <2>2, <2>5, ZenonT(40) DEF new
<1>9. ASSUME NEW s \in State, Terminate(s) PROVE Pool!Kill \/ Pool!Discard(s)
  <2>1. /\ step = "exec" /\ s \in Running /\ step' \in {"exec", "aborted"} /\ UNCHANGED <<states, current>>
    BY <1>9, ZenonT(40) DEF Terminate, Goto
  <2>2. PoolNow = states /\ PoolNow' = states /\ current \in states
    BY <1>1, <1>2, <1>3, <2>1, ZenonT(40) DEF Places, Lists
  <2>3. CASE s \in Range(addedStates)
    <3>1. addedStates' = Erase(addedStates, {s}) /\ UNCHANGED removedStates
      BY <1>9, <2>3, Zenon DEF Terminate
    <3>2. Range(addedStates') = Range(addedStates) \ {s}
      BY <1>3, <3>1, EraseIs, ZenonT(40) DEF Lists
    <3>3. s \notin states
      BY <1>3, <2>3, Zenon DEF Lists
    <3>4. Pool!Discard(s)
      BY <2>1, <2>2, <2>3, <3>1, <3>2, <3>3, Zenon DEF Pool!Discard, PoolNow
    <3> QED BY <3>4
  <2>4. CASE s \notin Range(addedStates)
    <3>1. removedStates' = removedStates \cup {s} /\ UNCHANGED addedStates /\ s = current
      BY <1>9, <2>1, <2>4, Zenon DEF Terminate, Running
    <3>2. Pool!Kill
      BY <2>1, <2>2, <3>1, Zenon DEF Pool!Kill, PoolNow
    <3> QED BY <3>2
  <2> QED BY <2>3, <2>4, ZenonT(40)
<1>10. ASSUME Update PROVE Pool!Update
  <2>1. /\ step = "update" /\ step' \in {"commit", "aborted"}
        /\ UNCHANGED <<states, addedStates, removedStates, current>>
    BY <1>10, ZenonT(40) DEF Update, Goto, loopVars
  <2>2. step' = "commit"
    BY <1>3, <2>1, ZenonT(40) DEF Places
  <2>3. PoolNow = states /\ PoolNow' = Survivors
    BY <1>1, <1>2, <2>1, <2>2, ZenonT(40) DEF Survivors
  <2>4. PoolNow' = (PoolNow \cup Range(addedStates)) \ removedStates
    BY <2>3, Zenon DEF Survivors
  <2> QED BY <2>1, <2>4, Zenon DEF Pool!Update, PoolNow
<1>11. ASSUME Commit PROVE Pool!Commit
  <2>1. /\ step = "commit" /\ states' = Survivors /\ addedStates' = << >> /\ removedStates' = {}
        /\ current' \in {current, NULL} /\ step' # "commit"
    BY <1>11, ZenonT(40) DEF Commit, Goto, Survivors
  <2>2. PoolNow = Survivors /\ PoolNow' = Survivors /\ Range(addedStates') = {}
    BY <1>1, <1>2, <2>1, NothingAdded, ZenonT(40)
  <2> QED BY <2>1, <2>2, Zenon DEF Pool!Commit, PoolNow, Survivors
<1>12. ASSUME KillForMemory \/ DumpStates PROVE Pool!Kill
  <2>1. /\ step \in {"memory", "dump"} /\ step' = "update" /\ removedStates' \subseteq states
        /\ current' = NULL /\ UNCHANGED <<states, addedStates>>
    BY <1>12, ZenonT(40) DEF KillForMemory, DumpStates
  <2>2. removedStates = {} /\ PoolNow = states /\ PoolNow' = states
    BY <1>1, <1>2, <1>3, <2>1, ZenonT(40) DEF Places
  <2> QED BY <2>1, <2>2, Zenon DEF Pool!Kill, PoolNow
<1>13. ASSUME OpenMerge \/ \E p \in 1 .. MergePoints, mate \in State \cup {NULL} : CloseMerge(p, mate) PROVE FALSE
  BY <1>13, Zenon DEF OpenMerge, CloseMerge, CanMerge, SchedInv, Stacks
<1>14. CASE UNCHANGED schedVars
  BY <1>6, <1>14, ZenonT(40)
<1>15. CASE \E s \in State : Fork(s) \/ Terminate(s)
  <2>1. PICK s \in State : Fork(s) \/ Terminate(s)
    BY <1>15, Zenon
  <2>2. Pool!PoolNext
    BY <1>8, <1>9, <2>1, Zenon DEF Pool!PoolNext
  <2> QED BY <2>2
<1>16. CASE SeedStep \/ Select \/ Update \/ Commit \/ KillForMemory \/ DumpStates
  <2>1. Pool!PoolNext
    BY <1>7, <1>10, <1>11, <1>12, <1>16, Zenon DEF Pool!PoolNext
  <2> QED BY <2>1
<1>17. CASE SchedNext
  BY <1>5, <1>6, <1>13, <1>15, <1>16, <1>17, Zenon DEF SchedNext, Over
<1> QED BY <1>14, <1>17, ZenonT(40)

\* Without --use-merge, the executor and its searchers implement StatePool: however the
\* layers of the stack pass states on and hold them back.
THEOREM SearchersImplementPool == SchedSpec /\ ~stack.opt.merging => SearchersAreStatePool
<1>1. SchedInit /\ SchedInv => Pool!PoolInit
  <2> SUFFICES ASSUME SchedInit, SchedInv PROVE Pool!PoolInit
    OBVIOUS
  <2>1. /\ states = {1} /\ addedStates = << >> /\ removedStates = {} /\ current = NULL
        /\ hasSearcher = FALSE /\ step = "seeding" /\ Range(addedStates) = {} /\ 1 \in State
    BY NothingAdded, StatesAssumption DEF SchedInit, State
  <2>2. PoolNow = states
    BY <2>1 DEF PoolNow
  <2> QED BY <2>1, <2>2, Zenon DEF Pool!PoolInit, PoolNow
<1> QED BY <1>1, SchedInvariant, StepMaps, PTL DEF SchedSpec, SearchersAreStatePool, Pool!PoolSpec
=============================================================================
