------------------------------- MODULE HeapOps -------------------------------
(***************************************************************************)
(* What the executor does with pointers and sizes: loads and stores        *)
(* (executeMemoryOperation), malloc, calloc, memalign, realloc, free, and  *)
(* the klee_ functions that name an object.  The states into which an      *)
(* operation splits share out the inputs, so the address space and the     *)
(* outcome are given per input; todo is what is left to do, a stack of     *)
(* tasks for sets of inputs.                                               *)
(***************************************************************************)
EXTENDS Integers, Sequences, FiniteSets, SequencesExt, FiniteSetsExt

(***************************************************************************)
(* Which objects of an address space a pointer may refer to                *)
(* (AddressSpace::resolveOne, resolve).  A symbolic pointer is a function  *)
(* from inputs to addresses; path is the set of inputs of the state.  A    *)
(* query may be answered late: the result is the set of everything the     *)
(* function may return, over the solver's examples and timeouts.           *)
(***************************************************************************)

CONSTANT AddrBits

Addr == 0 .. 2^AddrBits - 1

\* MemoryObject::getOffsetExpr and the bounds checks of a pointer and of an access of n bytes.
Offset(o, a) == (a - o.address) % 2^AddrBits

Holds(o, a) == IF o.size = 0 THEN Offset(o, a) = 0 ELSE Offset(o, a) < o.size

HoldsBytes(o, a, n) == n <= o.size /\ Offset(o, a) < o.size - n + 1

\* The memory map, in the order of addresses; the objects up to an address come first.
Sorted(objects) == SetToSortSeq(objects, LAMBDA o, q : o.address < q.address)

UpTo(map, a) == Cardinality({i \in DOMAIN map : map[i].address <= a})

\* The object a constant pointer is in.
resolveConstant(map, a) ==
  LET i == UpTo(map, a)
  IN IF i > 0 /\ ((map[i].size = 0 /\ a = map[i].address) \/ Offset(map[i], a) < map[i].size)
     THEN {map[i]} ELSE {}

IsConstant(p) == \A x, y \in DOMAIN p : p[x] = p[y]
-----------------------------------------------------------------------------
Late == [answered |-> FALSE, found |-> {}]
Found(os) == [answered |-> TRUE, found |-> os]

RECURSIVE OneForward(_, _, _, _)
OneForward(map, path, p, i) ==
  IF i > Len(map) \/ (\A x \in path : p[x] < map[i].address) THEN {}
  ELSE IF \E x \in path : Holds(map[i], p[x]) THEN {map[i]}
  ELSE OneForward(map, path, p, i + 1)

RECURSIVE OneBackward(_, _, _, _)
OneBackward(map, path, p, i) ==
  IF i = 0 THEN {}
  ELSE IF \E x \in path : Holds(map[i], p[x]) THEN {map[i]}
  ELSE IF \A x \in path : p[x] >= map[i].address THEN {}
  ELSE OneBackward(map, path, p, i - 1)

\* AddressSpace::resolveOne: the object of an example, else the first one the pointer may be
\* in, searching down from the example and then up.
resolveOne(map, path, p, mayTimeOut) ==
  IF IsConstant(p) THEN {Found(resolveConstant(map, p[x])) : x \in path}
  ELSE
    LET One(a) ==
          LET i == UpTo(map, a)
              down == OneBackward(map, path, p, i)
          IN IF i > 0 /\ Offset(map[i], a) < map[i].size THEN {map[i]}
             ELSE IF down # {} THEN down
             ELSE OneForward(map, path, p, i + 1)
    IN {Found(One(p[x])) : x \in path} \cup (IF mayTimeOut THEN {Late} ELSE {})
-----------------------------------------------------------------------------
Resolved(rl) == {[rl |-> rl, incomplete |-> FALSE]}
Incomplete(rl, mayTimeOut) == IF mayTimeOut THEN {[rl |-> rl, incomplete |-> TRUE]} ELSE {}

\* A forgotten second candidate: the search ends with the first object found.
ListedFirst(map, path, p, i, rl) ==
  IF rl = << >> /\ \E x \in path : Holds(map[i], p[x]) THEN <<map[i]>> ELSE rl

\* AddressSpace::checkPointerInObject: the object joins the list if the pointer may be in it.
Listed(map, path, p, i, rl) ==
  IF \E x \in path : Holds(map[i], p[x]) THEN Append(rl, map[i]) ELSE rl

\* The only object found so far holds the pointer for every input.
Settled(path, p, rl, old) == rl # old /\ Len(rl) = 1 /\ \A x \in path : Holds(rl[1], p[x])

\* The search upwards ends at an object the pointer is always below.
RECURSIVE Forward(_, _, _, _, _, _)
Forward(map, path, p, i, rl, t) ==
  IF i > Len(map) THEN Resolved(rl)
  ELSE
    LET new == Listed(map, path, p, i, rl)
    IN Incomplete(rl, t) \cup
       (IF \A x \in path : p[x] < map[i].address THEN Resolved(rl)
        ELSE (IF rl # new /\ Len(new) = 1 THEN Incomplete(new, t) ELSE {})
             \cup (IF Settled(path, p, new, rl) THEN Resolved(new)
                   ELSE Forward(map, path, p, i + 1, new, t)))

\* The search downwards ends at an object the pointer is never below.
RECURSIVE Backward(_, _, _, _, _, _, _)
Backward(map, path, p, i, rl, start, t) ==
  IF i = 0 THEN Forward(map, path, p, start + 1, rl, t)
  ELSE
    LET new == Listed(map, path, p, i, rl)
    IN Incomplete(rl, t) \cup
       (IF Settled(path, p, new, rl) THEN Resolved(new) \cup Incomplete(new, t)
        ELSE Incomplete(new, t)
             \cup (IF \A x \in path : p[x] >= map[i].address
                   THEN Forward(map, path, p, start + 1, new, t)
                   ELSE Backward(map, path, p, i - 1, new, start, t)))

\* AddressSpace::resolve, without a limit on the number of objects (no caller gives one): the
\* list of the objects the pointer may be in, from an example down and then up.
resolve(map, path, p, mayTimeOut) ==
  IF IsConstant(p) THEN UNION {Resolved(SetToSeq(resolveConstant(map, p[x]))) : x \in path}
  ELSE Incomplete(<< >>, mayTimeOut)
       \cup UNION {LET i == UpTo(map, p[x])
                   IN Backward(map, path, p, i, << >>, i, mayTimeOut) : x \in path}
-----------------------------------------------------------------------------
CONSTANTS
  Input,                \* the inputs of the program
  Ops,                  \* the operations: records kind, ptr, size, bytes, align, write
  Layouts,              \* the sets of objects there may be when the operation starts
  Options,              \* records timeouts, limits, maxSymArraySize, redzone,
                        \* deterministic, nullOnZero
  DefaultAlign,         \* getAllocationAlignment of a call
  SmallSize, HugeSize,  \* the 128 and 2^31 of executeAlloc
  SpaceStart, SpaceEnd  \* the deterministic space

VARIABLES
  op, options,
  layout,         \* the objects there are when the operation starts
  bound,          \* the objects of each input's state
  nextFreeSlot,
  todo, result

heapVars == <<op, options, layout, bound, nextFreeSlot, todo, result>>

None == [what |-> "none"]
Is(what) == [what |-> what]
With(what, o) == [what |-> what, obj |-> o]

Task(do, path) == [do |-> do, path |-> path, ptr |-> op.ptr]
Now == Head(todo)
Push(tasks) == todo' = SelectSeq(tasks, LAMBDA t : t.path # {}) \o Tail(todo)

\* The outcome of a set of inputs.
Decide(path, r) == result' = [x \in Input |-> IF x \in path THEN r ELSE result[x]]
Decide2(p1, r1, p2, r2) ==
  result' = [x \in Input |-> IF x \in p1 THEN r1 ELSE IF x \in p2 THEN r2 ELSE result[x]]

Map(path) == Sorted(bound[CHOOSE x \in path : TRUE])

\* Executor::fork on a condition over e: both sides, one side at the limit on forks, or none
\* when the solver is late.
fork(path, e, c) ==
  LET t == path \cap c  f == path \ c
  IN {[t |-> t, f |-> f, lost |-> {}, late |-> {}]}
     \cup (IF options.limits /\ t # {} /\ f # {}
           THEN {[t |-> t, f |-> {}, lost |-> f, late |-> {}],
                 [t |-> {}, f |-> f, lost |-> t, late |-> {}]} ELSE {})
     \cup (IF options.timeouts /\ ~IsConstant(e)
           THEN {[t |-> {}, f |-> {}, lost |-> {}, late |-> path]} ELSE {})
-----------------------------------------------------------------------------
\* Executor::toConstant: the state keeps the inputs with the value of one of them.
Concretized(path, p) ==
  {[path |-> {x \in path : p[x] = v}, ptr |-> [x \in Input |-> v]] : v \in {p[x] : x \in path}}

\* executeMemoryOperation: one object that holds the pointer, if there is one.
Access ==
  /\ todo # << >> /\ Now.do = "access"
  /\ \E one \in resolveOne(Map(Now.path), Now.path, Now.ptr, options.timeouts) :
     \E c \in IF one.answered THEN {[path |-> Now.path, ptr |-> Now.ptr]}
              ELSE Concretized(Now.path, Now.ptr) :
       LET found == IF one.answered THEN one.found
                    ELSE resolveConstant(Map(Now.path), c.ptr[CHOOSE x \in Input : TRUE])
       IN /\ Push(<<[do |-> IF found = {} THEN "resolve" ELSE "bounds", path |-> c.path,
                     ptr |-> c.ptr, found |-> found]>>)
          /\ Decide(Now.path \ c.path, Is("concretized"))
  /\ UNCHANGED <<op, options, layout, bound, nextFreeSlot>>

Done(o) == IF op.write /\ o.readOnly THEN With("readonly", o) ELSE With("access", o)

\* The check that the whole access is in that object, for every input.
Bounds ==
  /\ todo # << >> /\ Now.do = "bounds"
  /\ \E o \in Now.found :
     \E c \in IF options.maxSymArraySize > 0 /\ o.size >= options.maxSymArraySize
              THEN Concretized(Now.path, Now.ptr) ELSE {[path |-> Now.path, ptr |-> Now.ptr]} :
       \/ /\ options.timeouts /\ ~IsConstant(c.ptr)
          /\ Decide2(c.path, Is("late"), Now.path \ c.path, Is("concretized"))
          /\ todo' = Tail(todo)
       \/ /\ \A x \in c.path : HoldsBytes(o, c.ptr[x], op.bytes)
          /\ Decide2(c.path, Done(o), Now.path \ c.path, Is("concretized"))
          /\ todo' = Tail(todo)
       \/ /\ \E x \in c.path : ~HoldsBytes(o, c.ptr[x], op.bytes)
          /\ Decide(Now.path \ c.path, Is("concretized"))
          /\ Push(<<[do |-> "resolve", path |-> c.path, ptr |-> c.ptr]>>)
  /\ UNCHANGED <<op, options, layout, bound, nextFreeSlot>>

\* The error path: all the objects the pointer may be in.
Resolve ==
  /\ todo # << >> /\ Now.do = "resolve"
  /\ \E r \in resolve(Map(Now.path), Now.path, Now.ptr, options.timeouts) :
       Push(<<[do |-> "bind", path |-> Now.path, ptr |-> Now.ptr, rl |-> r.rl,
               incomplete |-> r.incomplete]>>)
  /\ UNCHANGED <<op, options, layout, bound, nextFreeSlot, result>>

\* One state for each of them; the rest is out of bounds, unless the search was cut short.
Bind ==
  /\ todo # << >> /\ Now.do = "bind"
  /\ \/ /\ Now.rl = << >>
        /\ Decide(Now.path, IF Now.incomplete THEN Is("late") ELSE Is("out of bounds"))
        /\ todo' = Tail(todo)
     \/ /\ Now.rl # << >>
        /\ \E k \in fork(Now.path, Now.ptr,
                         {x \in Input : HoldsBytes(Head(Now.rl), Now.ptr[x], op.bytes)}) :
             /\ result' = [x \in Input |-> IF x \in k.t THEN Done(Head(Now.rl))
                                           ELSE IF x \in k.lost THEN Is("lost")
                                           ELSE IF x \in k.late THEN Is("late") ELSE result[x]]
             /\ Push(<<[Now EXCEPT !.path = k.f, !.rl = Tail(@)]>>)
  /\ UNCHANGED <<op, options, layout, bound, nextFreeSlot>>
-----------------------------------------------------------------------------
\* Executor::resolveExact: the objects that start at the pointer, each with its state.
Exact(path, then) == [do |-> "exact", path |-> path, ptr |-> op.ptr, then |-> then]

ResolveExact ==
  /\ todo # << >> /\ Now.do = "exact"
  /\ \E r \in resolve(Map(Now.path), Now.path, Now.ptr, FALSE) :
       Push(<<[do |-> "match", path |-> Now.path, ptr |-> Now.ptr, rl |-> r.rl,
               then |-> Now.then, results |-> << >>]>>)
  /\ UNCHANGED <<op, options, layout, bound, nextFreeSlot, result>>

Continue(t, results) ==
  todo' = (IF results = << >> THEN << >>
           ELSE <<[do |-> t.then, path |-> UNION {r.path : r \in Range(results)},
                   ptr |-> t.ptr, results |-> results]>>) \o Tail(todo)

MatchExact ==
  /\ todo # << >> /\ Now.do = "match"
  /\ \/ /\ Now.rl = << >>
        /\ Decide(Now.path, Is("invalid pointer"))
        /\ Continue(Now, Now.results)
     \/ /\ Now.rl # << >>
        /\ \E k \in fork(Now.path, Now.ptr,
                         {x \in Input : Now.ptr[x] = Head(Now.rl).address}) :
             LET results == IF k.t = {} THEN Now.results
                            ELSE Append(Now.results, [obj |-> Head(Now.rl), path |-> k.t])
             IN /\ Decide2(k.lost, Is("lost"), k.late, Is("late"))
                /\ IF k.f = {} THEN Continue(Now, results)
                   ELSE Push(<<[Now EXCEPT !.path = k.f, !.rl = Tail(@), !.results = results]>>)
  /\ UNCHANGED <<op, options, layout, bound, nextFreeSlot>>

\* executeFree: a null pointer is left alone.
Free ==
  /\ todo # << >> /\ Now.do = "free"
  /\ \E k \in fork(Now.path, Now.ptr, {x \in Input : Now.ptr[x] = 0}) :
       /\ result' = [x \in Input |-> IF x \in k.t THEN Is("null")
                                     ELSE IF x \in k.lost THEN Is("lost")
                                     ELSE IF x \in k.late THEN Is("late") ELSE result[x]]
       /\ Push(<<Exact(k.f, "freed")>>)
  /\ UNCHANGED <<op, options, layout, bound, nextFreeSlot>>

Unbound(path, o) == [x \in Input |-> IF x \in path THEN bound[x] \ {o} ELSE bound[x]]

\* The next state of a list of exactly resolved ones.
One == Head(Now.results)
Others == (IF Tail(Now.results) = << >> THEN << >>
           ELSE <<[Now EXCEPT !.results = Tail(@), !.path = @ \ One.path]>>) \o Tail(todo)

FreedObject ==
  /\ Decide(One.path, IF One.obj.isLocal THEN Is("free of alloca")
                      ELSE IF One.obj.isGlobal THEN Is("free of global")
                      ELSE With("freed", One.obj))
  /\ bound' = IF One.obj.isLocal \/ One.obj.isGlobal THEN bound ELSE Unbound(One.path, One.obj)

Freed ==
  /\ todo # << >> /\ Now.do = "freed"
  /\ FreedObject
  /\ todo' = Others
  /\ UNCHANGED <<op, options, layout, nextFreeSlot>>
-----------------------------------------------------------------------------
AllObjects == UNION {bound[x] : x \in Input}
Apart(o, q) == o.address + o.size <= q.address \/ q.address + q.size <= o.address
IsPowerOfTwo(n) == \E k \in 0 .. AddrBits : n = 2^k

\* A 0-sized object takes one byte, to be between red zones of its own.
Taken(size) == Max({size, 1})

\* The C library's malloc and posix_memalign: a free place, or none.
malloc(size, align) ==
  LET fits == {a \in Addr \ {0} : a % align = 0 /\ a + Taken(size) <= SpaceEnd
                 /\ \A q \in AllObjects : Apart([address |-> a, size |-> Taken(size)],
                                               [q EXCEPT !.size = Taken(@)])}
  IN IF fits = {} THEN 0 ELSE Min(fits)

\* MemoryManager::allocate: the address, 0 for none, and the next free slot.
allocate(size, align) ==
  LET slot == (nextFreeSlot + align - 1 + align - 1) \div align
      a    == slot * align
  IN IF (options.nullOnZero /\ size = 0) \/ ~IsPowerOfTwo(align) THEN <<0, nextFreeSlot>>
     ELSE IF ~options.deterministic THEN <<malloc(size, align), nextFreeSlot>>
     ELSE IF a + Taken(size) < SpaceEnd THEN <<a, a + Taken(size) + options.redzone>>
     ELSE <<0, nextFreeSlot>>

NewObject(address, size, local) ==
  [address |-> address, size |-> size, readOnly |-> FALSE, isLocal |-> local, isGlobal |-> FALSE]

AllocTask(path, size, align, from) ==
  [do |-> "alloc", path |-> path, ptr |-> op.ptr, size |-> size, align |-> align, from |-> from]

Unique(path, e) == \A x, y \in path : e[x] = e[y]
Always(n) == [x \in Input |-> n]

\* executeAlloc of a size that is known: a new object in place of the one it is realloc'ed from.
AllocKnown ==
  /\ todo # << >> /\ Now.do = "alloc"
  /\ Unique(Now.path, Now.size)
  /\ LET n == Now.size[CHOOSE x \in Now.path : TRUE]
         got == allocate(n, IF Now.align = 0 THEN DefaultAlign ELSE Now.align)
         o == NewObject(got[1], n, op.kind = "alloca")
     IN /\ nextFreeSlot' = got[2]
        /\ Decide(Now.path, IF got[1] = 0 THEN Is("null") ELSE With("object", o))
        /\ bound' = IF got[1] = 0 THEN bound
                    ELSE [x \in Input |-> IF x \in Now.path THEN (bound[x] \ Now.from) \cup {o}
                                                            ELSE bound[x]]
  /\ todo' = Tail(todo)
  /\ UNCHANGED <<op, options, layout>>

\* A small example: halved as long as it is large and the half is possible too.
RECURSIVE Shrunk(_, _)
Shrunk(n, sizes) ==
  IF n > SmallSize /\ n \div 2 \in sizes THEN Shrunk(n \div 2, sizes) ELSE n

\* executeAlloc of a symbolic size: one example, and what is left if it is a single value too.
AllocSymbolic ==
  /\ todo # << >> /\ Now.do = "alloc"
  /\ ~Unique(Now.path, Now.size) \/ (options.timeouts /\ ~IsConstant(Now.size))
  /\ \E y \in Now.path :
       LET n == Shrunk(Now.size[y], {Now.size[x] : x \in Now.path})
       IN \E k \in fork(Now.path, Now.size, {x \in Input : Now.size[x] = n}) :
            /\ Decide2(k.lost, Is("lost"), k.late, Is("late"))
            /\ Push(<<IF Unique(k.f, Now.size)
                      THEN AllocTask(k.f, [x \in Input |-> IF k.f = {} THEN 0 ELSE
                                            Now.size[CHOOSE z \in k.f : TRUE]], 0, Now.from)
                      ELSE [do |-> "huge", path |-> k.f, ptr |-> op.ptr, size |-> Now.size],
                      AllocTask(k.t, Always(n), 0, Now.from)>>)
  /\ UNCHANGED <<op, options, layout, bound, nextFreeSlot>>

\* Of the other sizes, the huge ones fail and the rest is an error of the model.
AllocHuge ==
  /\ todo # << >> /\ Now.do = "huge"
  /\ \E k \in fork(Now.path, Now.size, {x \in Input : HugeSize < Now.size[x]}) :
       result' = [x \in Input |-> IF x \in k.t THEN Is("null")
                                  ELSE IF x \in k.f THEN Is("model")
                                  ELSE IF x \in k.lost THEN Is("lost")
                                  ELSE IF x \in k.late THEN Is("late") ELSE result[x]]
  /\ todo' = Tail(todo)
  /\ UNCHANGED <<op, options, layout, bound, nextFreeSlot>>
-----------------------------------------------------------------------------
\* handleRealloc: free for size 0, malloc for a null pointer, else a new object that takes
\* over the contents of the one that starts at the pointer.
Realloc ==
  /\ todo # << >> /\ Now.do = "realloc"
  /\ \E k \in fork(Now.path, op.size, {x \in Input : op.size[x] = 0}) :
       /\ Decide2(k.lost, Is("lost"), k.late, Is("late"))
       /\ Push(<<Task("free", k.t), Task("resize", k.f)>>)
  /\ UNCHANGED <<op, options, layout, bound, nextFreeSlot>>

Resize ==
  /\ todo # << >> /\ Now.do = "resize"
  /\ \E k \in fork(Now.path, Now.ptr, {x \in Input : Now.ptr[x] = 0}) :
       /\ Decide2(k.lost, Is("lost"), k.late, Is("late"))
       /\ Push(<<AllocTask(k.t, op.size, 0, {}), Exact(k.f, "moved")>>)
  /\ UNCHANGED <<op, options, layout, bound, nextFreeSlot>>

Moved ==
  /\ todo # << >> /\ Now.do = "moved"
  /\ todo' = <<AllocTask(One.path, op.size, 0, {One.obj})>> \o Others
  /\ UNCHANGED <<op, options, layout, bound, nextFreeSlot, result>>

\* handleGetObjSize.
Sized ==
  /\ todo # << >> /\ Now.do = "sized"
  /\ Decide(One.path, With("size", One.obj))
  /\ todo' = Others
  /\ UNCHANGED <<op, options, layout, bound, nextFreeSlot>>

\* handleMarkGlobal: the memory object is the same in all states.
MarkGlobal ==
  /\ todo # << >> /\ Now.do = "marked"
  /\ IF One.obj.isLocal THEN Decide(Input, Is("abort")) /\ todo' = << >> /\ UNCHANGED bound
     ELSE /\ Decide(One.path, With("marked", One.obj))
          /\ todo' = Others
          /\ bound' = [x \in Input |-> {IF o = One.obj THEN [o EXCEPT !.isGlobal = TRUE] ELSE o
                                          : o \in bound[x]}]
  /\ UNCHANGED <<op, options, layout, nextFreeSlot>>

\* handleMakeSymbolic: a read-only object ends its state and the whole call.
MakeSymbolic ==
  /\ todo # << >> /\ Now.do = "symbolic"
  /\ IF One.obj.readOnly
     THEN Decide2(One.path, With("readonly", One.obj), Now.path, Is("unchanged")) /\ todo' = Tail(todo)
     ELSE /\ Decide(One.path, IF \A x \in One.path : op.size[x] = One.obj.size
                              THEN With("symbolic", One.obj) ELSE Is("wrong size"))
          /\ todo' = Others
  /\ UNCHANGED <<op, options, layout, bound, nextFreeSlot>>

\* handleCheckMemoryAccess: a known pointer and size, in one object.
CheckMemoryAccess ==
  /\ todo # << >> /\ Now.do = "check"
  /\ \/ /\ ~Unique(Input, op.ptr) \/ ~Unique(Input, op.size)
        /\ Decide(Now.path, Is("user"))
     \/ /\ Unique(Input, op.ptr) /\ Unique(Input, op.size)
        /\ LET x == CHOOSE x \in Input : TRUE
               in == {o \in resolveConstant(Map(Now.path), op.ptr[x]) :
                        HoldsBytes(o, op.ptr[x], op.size[x])}
           IN Decide(Now.path, IF in = {} THEN Is("out of bounds")
                               ELSE With("access", CHOOSE o \in in : TRUE))
  /\ todo' = Tail(todo)
  /\ UNCHANGED <<op, options, layout, bound, nextFreeSlot>>

\* The memory map has one object per address.
Rebound(objects, o) == {q \in objects : q.address # o.address} \cup {o}

\* handleDefineFixedObject and MemoryManager::allocateFixed, which ends the run on an overlap.
DefineFixedObject ==
  /\ todo # << >> /\ Now.do = "fixed"
  /\ LET x == CHOOSE x \in Input : TRUE
         o == [NewObject(op.ptr[x], op.size[x], FALSE) EXCEPT !.isGlobal = TRUE]
     IN IF \E q \in AllObjects : o.address + o.size > q.address /\ o.address < q.address + q.size
        THEN Decide(Input, Is("abort")) /\ UNCHANGED bound
        ELSE Decide(Input, With("fixed", o)) /\ bound' = [y \in Input |-> Rebound(bound[y], o)]
  /\ todo' = Tail(todo)
  /\ UNCHANGED <<op, options, layout, nextFreeSlot>>
-----------------------------------------------------------------------------
\* The size calloc is asked for is a product in the width of a pointer.
SizeAsked(x) == IF op.kind = "calloc" THEN (op.size[x] * op.bytes) % 2^AddrBits ELSE op.size[x]
Sizes == [x \in Input |-> SizeAsked(x)]

\* What the instruction, or the handler of the function called, starts with; memalign takes
\* the smallest alignment.
First ==
  CASE op.kind = "access" -> Task("access", Input)
    [] op.kind \in {"malloc", "new", "alloca", "calloc"} -> AllocTask(Input, Sizes, 0, {})
    [] op.kind = "memalign" -> AllocTask(Input, Sizes, Min(Range(op.align)), {})
    [] op.kind \in {"realloc", "free", "check", "fixed"} -> Task(op.kind, Input)
    [] op.kind \in {"sized", "marked", "symbolic"} -> Exact(Input, op.kind)

HeapInit ==
  /\ op \in Ops /\ options \in Options /\ layout \in Layouts
  /\ bound = [x \in Input |-> layout]
  /\ nextFreeSlot = SpaceStart
  /\ todo = <<First>>
  /\ result = [x \in Input |-> None]

HeapNext ==
  \/ Access \/ Bounds \/ Resolve \/ Bind \/ ResolveExact \/ MatchExact \/ Free \/ Freed
  \/ AllocKnown \/ AllocSymbolic \/ AllocHuge \/ Realloc \/ Resize \/ Moved
  \/ Sized \/ MarkGlobal \/ MakeSymbolic \/ CheckMemoryAccess \/ DefineFixedObject

HeapSpec == HeapInit /\ [][HeapNext]_heapVars
-----------------------------------------------------------------------------
Bytes(x) == IF op.kind = "check" THEN op.size[x] ELSE op.bytes

\* All the bytes of an access are the object's.
Within(o, x) == o.address <= op.ptr[x] /\ op.ptr[x] + Bytes(x) <= o.address + o.size

\* However a pointer is resolved, with whatever examples, timeouts and limits: a state accesses
\* an object only for inputs whose access lies in it, one that ends with a pointer error has
\* no input whose access lies in an object, and every input is dealt with.
AccessesExact ==
  \A x \in Input :
    LET r == result[x] IN
      /\ r.what \in {"access", "readonly"} /\ op.kind # "symbolic" =>
           /\ r.obj \in bound[x] /\ Within(r.obj, x)
           /\ r.what = "readonly" <=> r.obj.readOnly /\ op.write
      /\ r.what = "out of bounds" => ~ \E o \in bound[x] : Within(o, x)
      /\ todo = << >> => r # None

\* free and realloc take away only the object that starts at the pointer, never a local or
\* (free) a global one, and only if they succeed; a pointer is called invalid, or sized,
\* only as it is.
FreesExact ==
  \A x \in Input :
    LET r == result[x]
        here == {o \in layout : o.address = op.ptr[x]}
        gone == {o \in layout : \A q \in bound[x] : q.address # o.address}
    IN /\ r.what = "invalid pointer" => here = {}
       /\ r.what \in {"size", "symbolic", "marked"} => r.obj \in here
       /\ r.what = "freed" => gone = here /\ \A o \in here : ~o.isLocal /\ ~o.isGlobal
       /\ op.kind = "realloc" /\ r.what = "object" => gone = here
       /\ r.what \notin {"freed", "object", "fixed"} => gone = {}

\* A new object has the size asked for in that input and the alignment, lies within the space,
\* and no two objects of any states overlap or share an address.
AllocationsFit ==
  /\ \A x \in Input :
       LET r == result[x] IN
         /\ r.what = "object" =>
              /\ r.obj \in bound[x] /\ r.obj.size = SizeAsked(x) /\ r.obj.address + SizeAsked(x) <= SpaceEnd
              /\ r.obj.address % DefaultAlign = 0
              /\ op.kind = "memalign" /\ IsConstant(op.size) => r.obj.address % Min(Range(op.align)) = 0
         /\ r.what = "model" => SizeAsked(x) <= HugeSize
  /\ \A o, q \in AllObjects : o.address = q.address \/ Apart(o, q)
  /\ \A x \in Input : \A o, q \in bound[x] : o.address = q.address => o = q
  /\ options.deterministic => \A o \in AllObjects \ layout : o.address >= SpaceStart \/ op.kind \in {"fixed", "marked"}
=============================================================================
