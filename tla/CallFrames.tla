------------------------------ MODULE CallFrames ------------------------------
(***************************************************************************)
(* Calls (Executor::executeCall, the Call instruction): where the variable *)
(* arguments of a call are put and where va_arg looks for them, and which  *)
(* functions are called through a symbolic pointer.  An argument has a     *)
(* width in bits, may be passed by value and may have an align attribute   *)
(* (0 is none).                                                            *)
(***************************************************************************)
EXTENDS Integers, Sequences, SequencesExt

alignTo(n, a) == ((n + a - 1) \div a) * a
getMinBytesForWidth(w) == (w + 7) \div 8

\* The alignment of an argument on x86-64.
AlignmentOf(arg) ==
  IF arg.align # 0 THEN arg.align ELSE IF arg.width > 64 THEN 16 ELSE 8

Needs16(args) == \E k \in DOMAIN args : args[k].align = 0 /\ args[k].width > 64

\* One argument more after those that are laid out.
Placed(word, laid, arg) ==
  LET at == IF word = 32 THEN laid.size ELSE alignTo(laid.size, AlignmentOf(arg))
      bytes == IF word = 32 THEN getMinBytesForWidth(arg.width) ELSE alignTo(arg.width, word) \div 8
  IN [offsets |-> Append(laid.offsets, at), size |-> at + bytes]

RECURSIVE LaidOut(_, _)
LaidOut(word, args) ==
  IF args = << >> THEN [offsets |-> << >>, size |-> 0] ELSE Placed(word, LaidOut(word, Front(args)), Last(args))

\* The alignment asked of MemoryManager::allocate for the object of the arguments.
ObjectAlignment(word, args) == IF word = 64 /\ Needs16(args) THEN 16 ELSE 8

\* The va_list which va_start writes: the registers are used up, the next argument is in memory.
vastart(word, base) ==
  IF word = 32 THEN [overflow_arg_area |-> base]
  ELSE [gp_offset |-> 48, fp_offset |-> 304, overflow_arg_area |-> base, reg_save_area |-> 0]

\* The code compiled for va_arg: where it finds an argument, and where it goes on.
va_arg(word, list, arg) ==
  LET here == list.overflow_arg_area
      at == IF word = 64 /\ arg.width > 64 /\ ~arg.byval THEN alignTo(here, 16) ELSE here
      inMemory == word = 32 \/ (list.gp_offset = 48 /\ list.fp_offset >= 176)
  IN [at |-> IF inMemory THEN at ELSE list.reg_save_area,
      list |-> [list EXCEPT !.overflow_arg_area = at + alignTo(getMinBytesForWidth(arg.width), word \div 8)]]

RECURSIVE FoundAt(_, _, _)
FoundAt(word, list, args) ==
  IF args = << >> THEN << >>
  ELSE LET r == va_arg(word, list, Head(args)) IN <<r.at>> \o FoundAt(word, r.list, Tail(args))

\* va_arg finds every argument where executeCall put it, in the object.
ReadBack(word, args, base) ==
  LET laid == LaidOut(word, args)
      found == FoundAt(word, vastart(word, base), args)
  IN base % ObjectAlignment(word, args) = 0 =>
       \A k \in DOMAIN args : /\ found[k] = base + laid.offsets[k]
                              /\ laid.offsets[k] + getMinBytesForWidth(args[k].width) <= laid.size
-----------------------------------------------------------------------------
\* The states of a call through pointer p, a function from inputs to addresses, in the order
\* in which the solver gives its values: the inputs of each, and what it calls, 0 for nothing.
\* A state that is terminated has -1.  The first state is the one that makes the call.
Terminated(states) == [states EXCEPT ![1].calls = -1]

RECURSIVE CallThrough(_, _, _, _, _, _)
CallValues(p, path, legal, order, states, hasInvalid) ==
  LET value == SelectSeq(order, LAMBDA a : \E i \in path : p[i] = a)[1]
      taken == {i \in path : p[i] = value}
      isLegal == value \in legal
      next == Append(states, [on |-> taken, calls |-> IF isLegal THEN value ELSE 0])
  IN CallThrough(p, path \ taken, legal, order,
                 IF isLegal \/ hasInvalid THEN next ELSE Terminated(next), hasInvalid \/ ~isLegal)

CallThrough(p, path, legal, order, states, hasInvalid) ==
  IF path = {} THEN states ELSE CallValues(p, path, legal, order, states, hasInvalid)

\* Every input calls the function its pointer has.  One value may be no function, if it is
\* the first the solver gives.
CallsExact(p, legal, order) ==
  LET used == SelectSeq(order, LAMBDA a : \E i \in DOMAIN p : p[i] = a)
      states == CallThrough(p, DOMAIN p, legal, order, << >>, FALSE)
  IN (\A n \in 2 .. Len(used) : used[n] \in legal) =>
       \A i \in DOMAIN p : \E n \in DOMAIN states :
         i \in states[n].on /\ states[n].calls = (IF p[i] \in legal THEN p[i] ELSE -1)
=============================================================================
