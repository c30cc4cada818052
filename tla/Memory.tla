------------------------------- MODULE Memory -------------------------------
(***************************************************************************)
(* The address spaces of execution states: forks share object states, a    *)
(* write copies one it does not own (copy on write), reads flush caches of *)
(* shared object states in place, and external calls pass the concrete     *)
(* bytes through native memory, which all states share.                    *)
(***************************************************************************)
EXTENDS Naturals, Sequences, FiniteSetsExt

(***************************************************************************)
(* ObjectState: the bytes of a memory object in a state, cached in three   *)
(* places: concreteStore, knownSymbolics and the list of array updates.    *)
(*                                                                         *)
(* An expression is what it evaluates to for each value of the program's   *)
(* symbolic input; a ConstantExpr is one that does not depend on it.  A    *)
(* mask that is not allocated is the mask its readers take it for.         *)
(***************************************************************************)

CONSTANTS Size,   \* bytes of an object
          Byte,   \* values of a byte
          Input   \* values of the program's symbolic input

ASSUME SizesAssumption == Size \in Nat \ {0} /\ 0 \in Byte /\ Input # {}

Offset == 0 .. Size - 1
Expr == [Input -> Byte]
Index == [Input -> Offset]
NoExpr == << >>

Constant(v) == [a \in Input |-> v]
IsConstant(e) == \A a, b \in Input : e[a] = e[b]
ValueOf(e) == e[CHOOSE a \in Input : TRUE]

\* new ObjectState(mo): concrete, and nothing is flushed.
NewObject(v) ==
  [store |-> [i \in Offset |-> v], concrete |-> [i \in Offset |-> TRUE],
   known |-> [i \in Offset |-> NoExpr], unflushed |-> [i \in Offset |-> TRUE],
   root |-> NoExpr, updates |-> << >>]

\* new ObjectState(mo, array), through makeSymbolic.
NewSymbolic(array) ==
  [NewObject(0) EXCEPT !.concrete = [i \in Offset |-> FALSE],
                       !.unflushed = [i \in Offset |-> FALSE], !.root = array]
-----------------------------------------------------------------------------
\* ReadExpr: the latest update at the index, or the array below.
ReadExpr(o, index) ==
  [a \in Input |->
     LET hits == {k \in DOMAIN o.updates : o.updates[k].index[a] = index[a]}
     IN IF hits = {} THEN o.root[index[a]][a] ELSE o.updates[Max(hits)].value[a]]

\* getUpdates: an object without an array gets a constant one, of zeros and of the oldest
\* updates as long as those are constant; the others are applied again.
ConstantWrites(ups) ==
  {n \in DOMAIN ups : \A k \in 1 .. n : IsConstant(ups[k].index) /\ IsConstant(ups[k].value)}
getUpdates(o) ==
  LET n == IF ConstantWrites(o.updates) = {} THEN 0 ELSE Max(ConstantWrites(o.updates))
      zeros == [o EXCEPT !.root = [i \in Offset |-> Constant(0)],
                         !.updates = SubSeq(@, 1, n)]
  IN IF o.root # NoExpr THEN o
     ELSE [o EXCEPT !.root = [i \in Offset |-> ReadExpr(zeros, Constant(i))],
                    !.updates = SubSeq(@, n + 1, Len(@))]

\* The cached value of a byte, if there is one.
Cached(o, i) == IF o.concrete[i] THEN Constant(o.store[i]) ELSE o.known[i]

\* The offsets of a set, in ascending order.
InOrder(S) ==
  CHOOSE q \in UNION {[1 .. n -> S] : n \in 0 .. Size} :
    /\ \A i \in S : \E k \in DOMAIN q : q[k] = i
    /\ \A j, k \in DOMAIN q : j < k => q[j] < q[k]

\* The updates a flush appends: one per unflushed byte, in the order of offsets.
Flushed(o) ==
  LET pending == InOrder({i \in Offset : o.unflushed[i]})
  IN [k \in DOMAIN pending |-> [index |-> Constant(pending[k]), value |-> Cached(o, pending[k])]]

\* fastRangeCheckOffset makes every range the whole object.
flushRangeForRead(o) ==
  [o EXCEPT !.updates = @ \o Flushed(o), !.unflushed = [i \in Offset |-> FALSE]]

flushRangeForWrite(o) ==
  [flushRangeForRead(o) EXCEPT !.concrete = [i \in Offset |-> FALSE],
                               !.known = [i \in Offset |-> NoExpr]]

\* What read8 returns, and what it leaves of a const object.
read8(o, index) ==
  IF ~IsConstant(index) THEN ReadExpr(getUpdates(flushRangeForRead(o)), index)
  ELSE LET i == ValueOf(index)
       IN IF Cached(o, i) # NoExpr THEN Cached(o, i) ELSE ReadExpr(getUpdates(o), index)
AfterRead8(o, index) ==
  IF ~IsConstant(index) THEN getUpdates(flushRangeForRead(o))
  ELSE IF Cached(o, ValueOf(index)) # NoExpr THEN o ELSE getUpdates(o)

\* write8, for each kind of offset and value.
write8(o, index, value) ==
  LET i == ValueOf(index) IN
  CASE ~IsConstant(index) ->
         [flushRangeForWrite(o) EXCEPT !.updates = Append(@, [index |-> index, value |-> value])]
    [] IsConstant(index) /\ IsConstant(value) ->
         [o EXCEPT !.store[i] = ValueOf(value), !.known[i] = NoExpr,
                   !.concrete[i] = TRUE, !.unflushed[i] = TRUE]
    [] OTHER -> [o EXCEPT !.known[i] = value, !.concrete[i] = FALSE, !.unflushed[i] = TRUE]

\* write: the bytes of a value, least significant first, at consecutive offsets.
write(o, index, bytes) ==
  LET after[k \in 0 .. Len(bytes)] ==
        IF k = 0 THEN o
        ELSE write8(after[k - 1], [a \in Input |-> index[a] + k - 1], bytes[k])
  IN after[Len(bytes)]

\* flushToConcreteStore: symbolic bytes that are cached get the value of one solution.
flushToConcreteStore(o, solution) ==
  [o EXCEPT !.store = [i \in Offset |-> IF o.known[i] # NoExpr THEN o.known[i][solution]
                                        ELSE @[i]]]
-----------------------------------------------------------------------------
CONSTANTS NULL,
          Space,      \* address spaces, one per execution state
          MO,         \* memory objects that are not read-only
          Obj,        \* addresses of object states
          Array,      \* the contents of a symbolic array
          Indexes,    \* offsets instructions access
          Stores,     \* values instructions store, as sequences of bytes
          MaxOps      \* bound: operations of a behaviour

ASSUME MemoryAssumption ==
  /\ NULL \notin Obj /\ Array \in [Offset -> Expr]
  /\ Indexes \subseteq Index /\ Stores \subseteq Seq(Expr) \ {<< >>}

VARIABLES
  live,     \* states that have not ended
  cowKey,   \* AddressSpace::cowKey
  objects,  \* AddressSpace::objects: the object state bound to a memory object, or NULL
  heap,     \* the object states
  owner,    \* ObjectState::copyOnWriteOwner of each of them
  ops,      \* operations so far
  mem,      \* history: the bytes a state's own writes leave in each object
  stale     \* history: bytes that external calls changed behind the update list

memVars == <<live, cowKey, objects, heap, owner, ops, mem, stale>>

NoObject == << >>
Unbound == [m \in MO |-> NULL]
Blank(v) == [i \in Offset |-> Constant(v)]

Bound(s) == {m \in MO : objects[s][m] # NULL}
os(s, m) == heap[objects[s][m]]

\* An object state lives as long as an address space refers to it.
Referenced(objs) == {objs[s][m] : s \in Space, m \in MO} \ {NULL}
Collect(h, objs) == [o \in Obj |-> IF o \in Referenced(objs) THEN h[o] ELSE NoObject]
Owners(own, objs) == [o \in Obj |-> IF o \in Referenced(objs) THEN own[o] ELSE 0]
Unused == Obj \ Referenced(objects)
Fresh == CHOOSE o \in Unused : TRUE
-----------------------------------------------------------------------------
\* One state, with nothing allocated.
MemInit ==
  \E s \in Space :
    /\ live = {s} /\ cowKey = [t \in Space |-> 1] /\ objects = [t \in Space |-> Unbound]
    /\ heap = [o \in Obj |-> NoObject] /\ owner = [o \in Obj |-> 0]
    /\ ops = 0
    /\ mem = [t \in Space |-> [m \in MO |-> Blank(0)]] /\ stale = [t \in Space |-> {}]

\* AddressSpace's copy constructor: the original's key grows too.
ForkSpace(s, t) ==
  /\ s \in live /\ t \in Space \ live
  /\ live' = live \cup {t}
  /\ cowKey' = [cowKey EXCEPT ![s] = @ + 1, ![t] = cowKey[s] + 1]
  /\ objects' = [objects EXCEPT ![t] = objects[s]]
  /\ mem' = [mem EXCEPT ![t] = mem[s]] /\ stale' = [stale EXCEPT ![t] = stale[s]]
  /\ UNCHANGED <<heap, owner>>

\* bindObject, of a new object state; a former binding is replaced.
Bind(s, m, content) ==
  /\ Unused # {}
  /\ objects' = [objects EXCEPT ![s][m] = Fresh]
  /\ heap' = Collect([heap EXCEPT ![Fresh] = content], objects')
  /\ owner' = Owners([owner EXCEPT ![Fresh] = cowKey[s]], objects')
  /\ stale' = [stale EXCEPT ![s] = @ \ ({m} \X Offset)]
  /\ UNCHANGED <<live, cowKey>>

\* executeAlloc, of a fresh memory object.
Alloc(s, m, v) ==
  /\ s \in live /\ \A t \in live : m \notin Bound(t)
  /\ Bind(s, m, NewObject(v))
  /\ mem' = [mem EXCEPT ![s][m] = Blank(v)]

\* executeMakeSymbolic
MakeSymbolic(s, m) ==
  /\ s \in live /\ m \in Bound(s)
  /\ Bind(s, m, NewSymbolic(Array))
  /\ mem' = [mem EXCEPT ![s][m] = Array]

\* executeFree, and popFrame for allocas.
FreeObject(s, m) ==
  /\ s \in live /\ m \in Bound(s)
  /\ objects' = [objects EXCEPT ![s][m] = NULL]
  /\ heap' = Collect(heap, objects') /\ owner' = Owners(owner, objects')
  /\ mem' = [mem EXCEPT ![s][m] = Blank(0)] /\ stale' = [stale EXCEPT ![s] = @ \ ({m} \X Offset)]
  /\ UNCHANGED <<live, cowKey>>

\* The state ends: also when an external call raises a signal or changes a read-only object.
EndSpace(s) ==
  /\ s \in live /\ live' = live \ {s}
  /\ objects' = [objects EXCEPT ![s] = Unbound]
  /\ heap' = Collect(heap, objects') /\ owner' = Owners(owner, objects')
  /\ cowKey' = [cowKey EXCEPT ![s] = 1]
  /\ mem' = [mem EXCEPT ![s] = [m \in MO |-> Blank(0)]] /\ stale' = [stale EXCEPT ![s] = {}]
-----------------------------------------------------------------------------
\* Mutant: an object state of the time before the fork counts as owned.
WriteableInherited(s, m, h, changed) ==
  IF owner[objects[s][m]] >= cowKey[s] - 1
    THEN heap' = [h EXCEPT ![objects[s][m]] = changed] /\ UNCHANGED <<objects, owner>>
    ELSE /\ Unused # {} /\ objects' = [objects EXCEPT ![s][m] = Fresh]
         /\ heap' = Collect([h EXCEPT ![Fresh] = changed], objects')
         /\ owner' = Owners([owner EXCEPT ![Fresh] = cowKey[s]], objects')

\* getWriteable, of the object states h: in place if this address space owns the one of m,
\* else in a copy.
Writeable(s, m, h, changed) ==
  IF cowKey[s] = owner[objects[s][m]]
    THEN heap' = [h EXCEPT ![objects[s][m]] = changed] /\ UNCHANGED <<objects, owner>>
    ELSE /\ Unused # {} /\ objects' = [objects EXCEPT ![s][m] = Fresh]
         /\ heap' = Collect([h EXCEPT ![Fresh] = changed], objects')
         /\ owner' = Owners([owner EXCEPT ![Fresh] = cowKey[s]], objects')

\* executeMemoryOperation, once the address is resolved and in bounds.
StoreBytes(s, m, index, bytes) ==
  /\ s \in live /\ m \in Bound(s)
  /\ \A a \in Input : index[a] < Size - Len(bytes) + 1
  /\ Writeable(s, m, heap, write(os(s, m), index, bytes))
  /\ mem' = [mem EXCEPT ![s][m] = [i \in Offset |-> [a \in Input |->
              IF \E k \in DOMAIN bytes : index[a] + k - 1 = i
                THEN bytes[i - index[a] + 1][a] ELSE @[i][a]]]]
  /\ stale' = [stale EXCEPT ![s] = IF IsConstant(index)
                 THEN @ \ {<<m, ValueOf(index) + k - 1>> : k \in DOMAIN bytes} ELSE @]
  /\ UNCHANGED <<live, cowKey>>

LoadByte(s, m, index) ==
  /\ s \in live /\ m \in Bound(s)
  /\ heap' = [heap EXCEPT ![objects[s][m]] = AfterRead8(@, index)]
  /\ UNCHANGED <<live, cowKey, objects, owner, mem, stale>>
-----------------------------------------------------------------------------
(* callExternalFunction                                                    *)

\* copyInConcrete, when the bytes in native memory differ from the store.
CopyIn(s, m, h, bytes) ==
  LET before  == h[objects[s][m]]
      changed == [before EXCEPT !.store = bytes]
      hidden  == {i \in Offset : before.concrete[i] /\ ~before.unflushed[i]
                                   /\ bytes[i] # before.store[i]}
  IN /\ Writeable(s, m, h, changed)
     /\ mem' = [mem EXCEPT ![s][m] = [i \in Offset |->
                  IF before.concrete[i] THEN Constant(bytes[i]) ELSE @[i]]]
     /\ stale' = [stale EXCEPT ![s] = @ \cup ({m} \X hidden)]

\* The objects an argument points to get values of a solution for their symbolic bytes,
\* in place (--external-calls=all); arg is NULL for the other policies.
ArgumentFlushed(s, arg, solution) ==
  IF arg = NULL THEN heap
  ELSE [heap EXCEPT ![objects[s][arg]] = flushToConcreteStore(@, solution)]

\* copyOutConcretes gives the external function every store; it changes byte i of m to v, and
\* copyInConcretes takes that back.
ExternalCall(s, arg, solution, m, i, v) ==
  LET h     == ArgumentFlushed(s, arg, solution)
      bytes == [h[objects[s][m]].store EXCEPT ![i] = v]
  IN /\ s \in live /\ m \in Bound(s) /\ arg \in Bound(s) \cup {NULL}
     /\ IF bytes = h[objects[s][m]].store
          THEN heap' = h /\ UNCHANGED <<objects, owner, mem, stale>>
          ELSE CopyIn(s, m, h, bytes)
     /\ UNCHANGED <<live, cowKey>>

-----------------------------------------------------------------------------
MemNext ==
  /\ ops < MaxOps /\ ops' = ops + 1
  /\ \E s \in Space :
       \/ \E t \in Space : ForkSpace(s, t)
       \/ EndSpace(s)
       \/ \E m \in MO :
            \/ FreeObject(s, m)
            \/ MakeSymbolic(s, m)
            \/ \E v \in Byte : Alloc(s, m, v)
            \/ \E index \in Indexes : LoadByte(s, m, index)
            \/ \E index \in Indexes, bytes \in Stores : StoreBytes(s, m, index, bytes)
            \/ \E arg \in MO \cup {NULL}, solution \in Input, i \in Offset, v \in Byte :
                 ExternalCall(s, arg, solution, m, i, v)

MemSpec == MemInit /\ [][MemNext]_memVars
-----------------------------------------------------------------------------
\* Whatever the caches, the update list and the sharing, a load gives the bytes the state's
\* own stores left, at a constant and at a symbolic offset.  (A byte an external call changed
\* after it was flushed is the exception: copyInConcrete does not mark it unflushed.)
ReadsSeeWrites ==
  \A s \in live : \A m \in Bound(s) : \A index \in Index :
    LET byte == read8(os(s, m), index)
    IN \A a \in Input : <<m, index[a]>> \notin stale[s] => byte[a] = mem[s][m][index[a]][a]

\* The cache invariants written above flushRangeForRead, whose assertions rest on them.
CacheInvariants ==
  \A o \in Referenced(objects) : \A i \in Offset :
    /\ ~(heap[o].concrete[i] /\ heap[o].known[i] # NoExpr)
    /\ heap[o].unflushed[i] => heap[o].concrete[i] \/ heap[o].known[i] # NoExpr
    /\ heap[o].root = NoExpr => Cached(heap[o], i) # NoExpr \/ Len(heap[o].updates) > 0

\* An address space owns an object state only if no other refers to it (the comment on
\* cowKey): what getWriteable changes in place is seen by one state.
OwnedIsUnshared ==
  \A s \in live, m \in MO : objects[s][m] # NULL =>
    /\ owner[objects[s][m]] <= cowKey[s]
    /\ owner[objects[s][m]] = cowKey[s] =>
         \A t \in live, n \in MO : objects[t][n] = objects[s][m] => t = s /\ n = m

\* A read sees the last write through the same state whatever was cached, flushed or shared
\* meanwhile, and a state writes to an object in place only if no other state sees it
\* (ObjectState::read8, write8, AddressSpace::getWriteable).
MemoryExact == ReadsSeeWrites /\ CacheInvariants /\ OwnedIsUnshared
=============================================================================
