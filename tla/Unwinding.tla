------------------------------ MODULE Unwinding ------------------------------
(***************************************************************************)
(* The call stack of a state and the unwinding of C++ exceptions in it:    *)
(* calls and returns, the search phase that runs the personality function  *)
(* on serialized landing pads, the cleanup phase that pops frames, landing *)
(* pads and resume (Executor.cpp, runtime/klee-eh-cxx).  A frame carries   *)
(* the instruction that called it: an invoke also has a landing pad.       *)
(***************************************************************************)
EXTENDS Integers, Sequences, FiniteSets, SequencesExt, FiniteSetsExt

CONSTANTS
  NULL,
  Type,                   \* the types of exceptions
  Address,                \* the address of each type's type_info, a sequence of bytes
  Derived,                \* pairs: an exception of the second type is one of the first
  Pads,                   \* landing pads: cleanup, clauses (<<"catch", t>>, <<"filter", ts>>)
  RuntimeMaxStackFrames,
  MaxThrows

VARIABLES
  stack,        \* the frames: fn, caller
  bound,        \* the local objects and serialized landing pads in the address space
  pc,           \* where the function on top of the stack is
  info,         \* unwindingInformation
  eh_typeids,
  thrown,       \* the type of the current exception
  expected,     \* the landing pads the last exception thrown has to visit: frame, clause taken
  visited,      \* those it has visited: frame, selector
  throws, nested

unwindVars == <<stack, bound, pc, info, eh_typeids, thrown, expected, visited, throws, nested>>

Site(kind, pad) == [kind |-> kind, pad |-> pad, at |-> pc]
Frame(fn, caller) == [fn |-> fn, caller |-> caller]
Top == stack[Len(stack)]

WordBytes == Len(Address[CHOOSE t \in Type : TRUE])
Word(t) == IF t = NULL THEN [k \in 1 .. WordBytes |-> 0] ELSE Address[t]
TypeAt(word) == CHOOSE t \in Type \cup {NULL} : Word(t) = word

\* __shim_type_info::can_catch of libcxxabi.
can_catch(catcher, t) == catcher = t \/ <<catcher, t>> \in Derived
-----------------------------------------------------------------------------
\* serializeLandingpad: a catch clause is a 0 and its type, a filter clause the number of its
\* types plus one and the types, and the filter of no types has one null pointer after it.
Serialized(clause) ==
  IF clause[1] = "catch" THEN <<0>> \o Word(clause[2])
  ELSE IF clause[2] = << >> THEN <<1>> \o Word(NULL)
  ELSE <<Len(clause[2]) + 1>> \o FlattenSeq([k \in DOMAIN clause[2] |-> Word(clause[2][k])])

serializeLandingpad(pad) == FlattenSeq([k \in DOMAIN pad.clauses |-> Serialized(pad.clauses[k])])

\* getEhTypeidFor: the position of a type in the list of those asked for, from 1.
Typeids(t) == IF t \in Range(eh_typeids) THEN eh_typeids ELSE Append(eh_typeids, t)
TypeidIn(ids, t) == CHOOSE k \in DOMAIN ids : ids[k] = t

\* The word at a position; a read past the end is an error of the program.
Known(w) == \E t \in Type \cup {NULL} : Word(t) = w
At(bytes, pos) == SubSeq(bytes, pos, pos + WordBytes - 1)

\* The types of a filter clause: where the loop over them stops, and how many are left there.
RECURSIVE Filtered(_, _, _, _)
Filtered(bytes, pos, n, t) ==
  IF n = 0 THEN [pos |-> pos, left |-> 0, all |-> FALSE]
  ELSE IF pos + WordBytes - 1 > Len(bytes) \/ ~Known(At(bytes, pos)) THEN [pos |-> 0, left |-> n, all |-> FALSE]
  ELSE IF TypeAt(At(bytes, pos)) = NULL THEN [pos |-> pos, left |-> n, all |-> TRUE]
  ELSE IF can_catch(TypeAt(At(bytes, pos)), t) THEN [pos |-> pos + WordBytes, left |-> n, all |-> FALSE]
  ELSE Filtered(bytes, pos + WordBytes, n - 1, t)

\* A slip in the order of the tests: a filter the exception passes is taken.
RECURSIVE PersonalityFilters(_, _, _)
PersonalityFilters(t, bytes, pos) ==
  IF pos > Len(bytes) THEN <<"none">>
  ELSE IF bytes[pos] # 0 THEN <<"filter">>
  ELSE LET c == TypeAt(At(bytes, pos + 1))
       IN IF c = NULL \/ can_catch(c, t) THEN <<"catch", c>>
          ELSE PersonalityFilters(t, bytes, pos + 1 + WordBytes)

\* _klee_eh_cxx_personality: the first clause that takes the exception.
RECURSIVE Personality(_, _, _)
Personality(t, bytes, pos) ==
  IF pos > Len(bytes) THEN <<"none">>
  ELSE IF bytes[pos] = 0
  THEN IF pos + WordBytes > Len(bytes) \/ ~Known(At(bytes, pos + 1)) THEN <<"error">>
       ELSE LET c == TypeAt(At(bytes, pos + 1))
            IN IF c = NULL \/ can_catch(c, t) THEN <<"catch", c>>
               ELSE Personality(t, bytes, pos + 1 + WordBytes)
  ELSE LET f == Filtered(bytes, pos + 1, bytes[pos] - 1, t)
       IN IF f.pos = 0 THEN <<"error">>
          ELSE IF f.all \/ f.left = 0 THEN <<"filter">>
          ELSE Personality(t, bytes, f.pos)
-----------------------------------------------------------------------------
NoInfo == [phase |-> "none"]
Locals(frames) == {<<"local", k>> : k \in DOMAIN frames}
Clauses == {o \in bound : o[1] = "clauses"}
Handles(pad) == ~(pad.cleanup /\ pad.clauses = << >>)

\* The search phase: the personality function is called for the next invoke that may handle
\* the exception.  prev is the instruction that is being executed, which becomes the caller;
\* back is where the state goes on if there is no such invoke.
SearchNext(frames, objects, progress, prev, back) ==
  LET js == {j \in 2 .. progress : frames[j].caller.kind = "invoke" /\ Handles(frames[j].caller.pad)}
      j  == Max(js)
  IN IF js = {}
     THEN /\ info' = NoInfo
          /\ stack' = frames /\ bound' = objects
          /\ pc' = back
     ELSE LET bytes == serializeLandingpad(frames[j].caller.pad)
          IN /\ info' = [phase |-> "search", progress |-> j - 1, bytes |-> bytes]
             /\ stack' = Append(frames, Frame("personality", Site(prev, NULL)))
             /\ bound' = objects \cup {<<"clauses", j - 1>>, <<"local", Len(frames) + 1>>}
             /\ pc' = "personality"

\* The cleanup phase: frames are popped down to the next invoke, whose landing pad runs.
CleanupNext(frames, objects, catching, selector) ==
  LET js == {j \in catching + 1 .. Len(frames) : frames[j].caller.kind = "invoke"}
      left == SubSeq(frames, 1, IF js = {} THEN catching ELSE Max(js) - 1)
  IN /\ stack' = left
     /\ bound' = objects \ (Locals(frames) \ Locals(left))
     /\ info' = [phase |-> "cleanup", catching |-> catching, selector |-> selector]
     /\ pc' = IF js = {} THEN "error" ELSE "pad"

\* executeCall of a function of the program.
Call(kind, pad) ==
  /\ pc \in {"body", "cleanup"}
  /\ IF Len(stack) > RuntimeMaxStackFrames
     THEN pc' = "too deep" /\ UNCHANGED <<stack, bound>>
     ELSE /\ stack' = Append(stack, Frame("f", Site(kind, pad)))
          /\ bound' = bound \cup {<<"local", Len(stack) + 1>>}
          /\ pc' = "body"
  /\ UNCHANGED <<info, eh_typeids, thrown, expected, visited, throws, nested>>

\* The return from it, to the normal destination of an invoke or past the call.
Ret ==
  /\ pc = "body" /\ Top.fn = "f" /\ Len(stack) > 1
  /\ stack' = Front(stack)
  /\ bound' = bound \ {<<"local", Len(stack)>>}
  /\ pc' = Top.caller.at
  /\ UNCHANGED <<info, eh_typeids, thrown, expected, visited, throws, nested>>
-----------------------------------------------------------------------------
\* What C++ asks for: of the clauses of a landing pad in their order, the first that catches
\* the exception or, a filter, does not list it.
Takes(clause, t) ==
  IF clause[1] = "catch" THEN clause[2] = NULL \/ can_catch(clause[2], t)
  ELSE \A k \in DOMAIN clause[2] : ~can_catch(clause[2][k], t)

Taking(pad, t) == {k \in DOMAIN pad.clauses : Takes(pad.clauses[k], t)}

\* The innermost handler, and the landing pads on the way to it.
HandlersOf(t) == {j \in 2 .. Len(stack) : stack[j].caller.kind = "invoke"
                                          /\ Taking(stack[j].caller.pad, t) # {}}

Expected(t) ==
  IF HandlersOf(t) = {} THEN << >>
  ELSE LET h   == Max(HandlersOf(t))
           way == {j \in h .. Len(stack) : stack[j].caller.kind = "invoke"}
           js  == Reverse(SetToSortSeq(way, LAMBDA j, k : j < k))
       IN [k \in DOMAIN js |->
             <<js[k] - 1, IF js[k] # h THEN "cleanup"
                          ELSE stack[h].caller.pad.clauses[Min(Taking(stack[h].caller.pad, t))]>>]

\* _Unwind_RaiseException and handleEhUnwindRaiseExceptionImpl.
Throw(t) ==
  /\ pc \in {"body", "cleanup"} /\ throws < MaxThrows
  /\ thrown' = t /\ expected' = Expected(t) /\ visited' = << >>
  /\ throws' = throws + 1
  /\ nested' = (nested \/ info.phase # "none")
  /\ LET frames == Append(stack, Frame("raise", Site("call", NULL)))
     IN SearchNext(frames, bound \cup {<<"local", Len(frames)>>}, Len(frames), "raise", "raised")
  /\ UNCHANGED eh_typeids

\* The personality function returns: the search goes on, or the cleanup phase starts.
PersonalityRet ==
  /\ pc = "personality"
  /\ LET r == Personality(thrown, info.bytes, 1)
         frames == Front(stack)
         objects == bound \ (Clauses \cup {<<"local", Len(stack)>>})
         ids == IF r[1] = "catch" THEN Typeids(r[2]) ELSE eh_typeids
     IN /\ eh_typeids' = ids
        /\ CASE r[1] = "error" -> pc' = "error" /\ UNCHANGED <<stack, bound, info>>
             [] r[1] = "none" ->
                  SearchNext(frames, objects, info.progress, "ret",
                             IF Top.caller.kind = "raise" THEN "raised" ELSE "past a ret")
             [] r[1] = "catch" -> CleanupNext(frames, objects, info.progress, TypeidIn(ids, r[2]))
             [] r[1] = "filter" -> CleanupNext(frames, objects, info.progress, -1)
  /\ UNCHANGED <<thrown, expected, visited, throws, nested>>

\* The landing pad of the frame that catches gets the selector and ends the unwinding.
LandingPad ==
  /\ pc = "pad"
  /\ LET caught == Len(stack) = info.catching
     IN IF info.phase # "cleanup"
        THEN pc' = "error" /\ UNCHANGED <<info, visited>>
        ELSE /\ visited' = Append(visited, <<Len(stack), IF caught THEN info.selector ELSE 0>>)
             /\ info' = IF caught THEN NoInfo ELSE info
             /\ pc' = IF caught THEN "body" ELSE "cleanup"
  /\ UNCHANGED <<stack, bound, eh_typeids, thrown, expected, throws, nested>>

\* The resume instruction at the end of a landing pad that does not catch.
Resume ==
  /\ pc = "cleanup"
  /\ IF info.phase = "cleanup" THEN CleanupNext(stack, bound, info.catching, info.selector)
     ELSE pc' = "error" /\ UNCHANGED <<stack, bound, info>>
  /\ UNCHANGED <<eh_typeids, thrown, expected, visited, throws, nested>>

UnwindInit ==
  /\ stack = <<Frame("f", [kind |-> "none", pad |-> NULL, at |-> "none"])>>
  /\ bound = {<<"local", 1>>}
  /\ pc = "body" /\ info = NoInfo
  /\ eh_typeids = << >>
  /\ thrown = NULL /\ expected = << >> /\ visited = << >>
  /\ throws = 0 /\ nested = FALSE

UnwindNext ==
  \/ Call("call", NULL)
  \/ \E pad \in Pads : Call("invoke", pad)
  \/ Ret
  \/ \E t \in Type : Throw(t)
  \/ PersonalityRet \/ LandingPad \/ Resume

UnwindSpec == UnwindInit /\ [][UnwindNext]_unwindVars
-----------------------------------------------------------------------------
\* The selector of a landing pad stands for the clause that took the exception.
Selects(selector, clause) ==
  CASE clause = "cleanup" -> selector = 0
    [] clause[1] = "catch" -> selector \in DOMAIN eh_typeids /\ eh_typeids[selector] = clause[2]
    [] clause[1] = "filter" -> selector = -1

\* An exception visits the landing pads between the throw and the innermost handler, in that
\* order, each cleanup with selector 0 and the handler with the selector of its first clause
\* that takes the exception; it is uncaught only if there is no handler.  (An exception that
\* a cleanup throws takes the place of the one that is being unwound.)
UnwindsToHandler ==
  /\ Len(visited) <= Len(expected)
  /\ \A k \in DOMAIN visited :
       visited[k][1] = expected[k][1] /\ Selects(visited[k][2], expected[k][2])
  /\ pc = "raised" => expected = << >>
  /\ pc = "error" => nested

\* The locals in the address space are those of the frames on the stack, and a serialized
\* landing pad is there exactly while the personality function reads it.
LocalsOfStack ==
  /\ bound \ Clauses = Locals(stack)
  /\ pc # "error" => (Clauses # {} <=> Top.fn = "personality")
  /\ Cardinality(Clauses) <= 1

\* "this will return control flow back to _Unwind_RaiseException, which will return the correct
\* error": a search that finds no handler goes on after the call that raised the exception.
SearchReturnsToRaise == info.phase = "none" /\ Top.fn = "raise" => pc = "raised"
=============================================================================
