------------------------- MODULE EnvironmentProofs -------------------------
(***************************************************************************)
(* Theorems about two parts of the environment of the executor: the child  *)
(* process a query is solved in (ForkedSolver), and the memory of states:  *)
(* the copy-on-write sharing of object states between address spaces, and  *)
(* the bytes a load finds in their caches and update lists (Memory).       *)
(***************************************************************************)
EXTENDS Memory, ForkedSolver, WellFoundedInduction, TLAPS

-----------------------------------------------------------------------------
(* The forked solver *)

\* What the shared memory and the two processes are while a query runs: the child writes
\* the bytes of its own counterexample in order, and exits with 0 after the last of them.
WholeCex == cex \in [1 .. size -> Word8] /\ \A i \in 1 .. written : shm[i] = cex[i]
ChildInv ==
  /\ DOMAIN shm = 1 .. MaxSize
  /\ size \in Nat /\ size <= MaxSize /\ written \in 0 .. size
  /\ parent = "waiting" <=> child # "none"
  /\ child = "solving" => cex \in [1 .. size -> Word8] \cup {NoCex}
  /\ child = "solving" => written = 0
  /\ child = "writing" => WholeCex
  /\ child = "0" => WholeCex /\ written = size
  /\ child = "1" => cex = NoCex
  /\ ValuesAreTheChilds

\* The shared memory is as large as the largest query (shared_memory_size).
LEMMA LargestSize ==
  ASSUME NEW m \in SmallSizes, SmallSizes \subseteq Nat, \A k \in SmallSizes : k <= m
  PROVE  MaxSize \in Nat /\ \A k \in SmallSizes : k <= MaxSize
BY Zenon DEF MaxSize

\* Each step of the child, of the alarm and of the parent keeps ChildInv.
LEMMA ChildStep ==
  ASSUME NEW m \in SmallSizes, SmallSizes \subseteq Nat, \A k \in SmallSizes : k <= m,
         ChildInv, [ForkNext]_forkVars
  PROVE  ChildInv'
<1> USE DEF ChildInv, WholeCex, ValuesAreTheChilds, NoCex
<1>0. MaxSize' = MaxSize /\ MaxSize \in Nat /\ \A k \in SmallSizes : k <= MaxSize
  BY LargestSize, Zenon DEF MaxSize
<1>1. ASSUME NEW n \in SmallSizes, StartQuery(n) PROVE ChildInv'
  BY <1>0, <1>1, SMTT(30) DEF StartQuery
<1>2. CASE Solved
  BY <1>0, <1>2, SMTT(30) DEF Solved
<1>3. CASE WriteByte
  BY <1>0, <1>3, SMTT(30) DEF WriteByte
<1>4. CASE ExitSolved
  BY <1>0, <1>4, Zenon DEF ExitSolved
<1>5. CASE Alarm
  BY <1>0, <1>5, Zenon DEF Alarm, TimeoutCode
<1>6. CASE Crash
  BY <1>0, <1>6, Zenon DEF Crash
<1>7. CASE Wait
  <2>1. /\ child # "none" /\ child' = "none"
        /\ UNCHANGED <<shm, size, cex, written>>
        /\ parent' \in {StatusOf(child), "WAITPID_FAILED"}
        /\ parent' = StatusOf(child) /\ parent' # "WAITPID_FAILED" =>
             values' = IF parent' = "SUCCESS_SOLVABLE" THEN SubSeq(shm, 1, size) ELSE NoCex
    BY <1>7, Zenon DEF Wait
  <2>2. parent' # "waiting"
    BY <2>1, Zenon DEF StatusOf
  <2>3. ASSUME parent' = "SUCCESS_SOLVABLE" PROVE values' = cex
    <3>1. child = "0" /\ values' = SubSeq(shm, 1, size)
      BY <2>1, <2>3, Zenon DEF StatusOf
    <3>2. cex = [i \in 1 .. size |-> cex[i]] /\ \A i \in 1 .. size : shm[i] = cex[i]
      BY <3>1, Zenon
    <3>3. SubSeq(shm, 1, size) = [i \in 1 .. size |-> shm[i]]
      BY <1>0
    <3> QED BY <3>1, <3>2, <3>3, Zenon
  <2>4. ASSUME parent' = "SUCCESS_UNSOLVABLE" PROVE values' = cex
    BY <2>1, <2>4, Zenon DEF StatusOf
  <2>5. DOMAIN shm' = 1 .. MaxSize /\ ValuesAreTheChilds'
    BY <2>1, <2>3, <2>4, Zenon
  <2> QED BY <1>0, <2>1, <2>2, <2>5, Zenon
<1>8. CASE UNCHANGED forkVars
  BY <1>0, <1>8, Zenon DEF forkVars
<1> QED BY <1>1, <1>2, <1>3, <1>4, <1>5, <1>6, <1>7, <1>8, Zenon DEF ForkNext

\* The values runAndGetCexForked gives its caller are the counterexample of the query's own
\* child, whole, whatever the sizes of the queries and wherever the alarm ends a child.
THEOREM ChildsValues ==
  ASSUME NEW m \in SmallSizes, SmallSizes \subseteq Nat, \A k \in SmallSizes : k <= m
  PROVE  ForkSpec => []ValuesAreTheChilds
<1>1. ForkInit => ChildInv
  BY LargestSize DEF ForkInit, ChildInv, WholeCex, ValuesAreTheChilds, NoCex
<1>2. ChildInv /\ [ForkNext]_forkVars => ChildInv'
  BY ChildStep, Zenon
<1>3. ChildInv => ValuesAreTheChilds
  BY DEF ChildInv
<1> QED BY <1>1, <1>2, <1>3, PTL DEF ForkSpec

-----------------------------------------------------------------------------
(* Copy-on-write sharing of object states *)

\* A state that has ended refers to nothing, and object states have owners that are keys.
SharingInv ==
  /\ live \subseteq Space
  /\ cowKey \in [Space -> Nat]
  /\ objects \in [Space -> [MO -> Obj \cup {NULL}]]
  /\ owner \in [Obj -> Nat]
  /\ \A t \in Space \ live : objects[t] = Unbound
  /\ OwnedIsUnshared

\* A new object state is one no address space refers to.
LEMMA FreshIsUnused ==
  ASSUME Unused # {}
  PROVE  /\ Fresh \in Obj /\ Fresh # NULL
         /\ \A t \in Space, n \in MO : objects[t][n] # Fresh
<1>1. Fresh \in Unused
  BY Zenon DEF Fresh
<1>2. Fresh \in Obj /\ Fresh # NULL /\ Fresh \notin Referenced(objects)
  BY <1>1, MemoryAssumption, Zenon DEF Unused
<1> HIDE DEF Fresh
<1>3. ASSUME NEW t \in Space, NEW n \in MO, objects[t][n] = Fresh PROVE FALSE
  BY <1>2, <1>3 DEF Referenced
<1> QED BY <1>2, <1>3, Zenon

\* Binding a new object state to m in s, as bindObject and getWriteable do.
Rebound(s, m) ==
  /\ Unused # {} /\ s \in live /\ m \in MO
  /\ objects' = [objects EXCEPT ![s][m] = Fresh]
  /\ owner' = Owners([owner EXCEPT ![Fresh] = cowKey[s]], objects')
  /\ UNCHANGED <<live, cowKey>>

\* It belongs to the address space that asked for it, and to that one alone.
LEMMA ReboundSharing ==
  ASSUME SharingInv, NEW s \in Space, NEW m \in MO, Rebound(s, m)
  PROVE  SharingInv'
<1> DEFINE f == Fresh
<1>1. f \in Obj /\ f # NULL /\ \A t \in Space, n \in MO : objects[t][n] # f
  BY FreshIsUnused DEF Rebound
<1>2. /\ s \in live /\ live' = live /\ cowKey' = cowKey
      /\ objects' = [objects EXCEPT ![s][m] = f]
      /\ owner' = Owners([owner EXCEPT ![f] = cowKey[s]], objects')
  BY Zenon DEF Rebound
<1> HIDE DEF f
<1> USE DEF SharingInv
<1>3. objects' \in [Space -> [MO -> Obj \cup {NULL}]]
  BY <1>1, <1>2, Zenon
<1>4. \A t \in Space, n \in MO : objects'[t][n] = IF t = s /\ n = m THEN f ELSE objects[t][n]
  BY <1>2, Zenon
<1>5. owner' \in [Obj -> Nat]
  BY <1>1, <1>2, Zenon DEF Owners
<1>6. \A o \in Obj : o \in Referenced(objects') => owner'[o] = IF o = f THEN cowKey[s] ELSE owner[o]
  BY <1>1, <1>2, Zenon DEF Owners
<1>7. \A t \in Space, n \in MO : objects'[t][n] # NULL =>
        owner'[objects'[t][n]] = IF t = s /\ n = m THEN cowKey[s] ELSE owner[objects[t][n]]
  <2> SUFFICES ASSUME NEW t \in Space, NEW n \in MO, objects'[t][n] # NULL
               PROVE  owner'[objects'[t][n]] = IF t = s /\ n = m THEN cowKey[s] ELSE owner[objects[t][n]]
    OBVIOUS
  <2>1. objects'[t][n] \in Referenced(objects') /\ objects'[t][n] \in Obj
    BY <1>3 DEF Referenced
  <2> QED BY <1>1, <1>4, <1>6, <2>1, ZenonT(40)
<1>8. \A t \in Space \ live' : objects'[t] = Unbound
  BY <1>2, Zenon
<1>9. OwnedIsUnshared'
  <2> SUFFICES \A u \in live', k \in MO : objects'[u][k] # NULL =>
                 /\ owner'[objects'[u][k]] <= cowKey'[u]
                 /\ owner'[objects'[u][k]] = cowKey'[u] =>
                      \A v \in live', n \in MO : objects'[v][n] = objects'[u][k] => v = u /\ n = k
    BY Zenon DEF OwnedIsUnshared
  <2> SUFFICES ASSUME NEW u \in live', NEW k \in MO, objects'[u][k] # NULL
               PROVE  /\ owner'[objects'[u][k]] <= cowKey'[u]
                      /\ owner'[objects'[u][k]] = cowKey'[u] =>
                           \A v \in live', n \in MO : objects'[v][n] = objects'[u][k] => v = u /\ n = k
    OBVIOUS
  <2>0. live' = live /\ cowKey'[u] = cowKey[u] /\ u \in live
    BY <1>2, Zenon
  <2>1. CASE u = s /\ k = m
    <3>1. objects'[u][k] = f /\ owner'[objects'[u][k]] = cowKey[u] /\ cowKey[u] \in Nat
      BY <1>4, <1>7, <2>0, <2>1, Zenon
    <3>2. ASSUME NEW v \in live, NEW n \in MO, objects'[v][n] = objects'[u][k] PROVE v = u /\ n = k
      BY <1>1, <1>4, <2>1, <3>1, <3>2
    <3> QED BY <2>0, <3>1, <3>2
  <2>2. CASE ~(u = s /\ k = m)
    <3>1. objects'[u][k] = objects[u][k] /\ owner'[objects'[u][k]] = owner[objects[u][k]]
      BY <1>4, <1>7, <2>0, <2>2, Zenon
    <3>2. owner[objects[u][k]] <= cowKey[u]
      BY <2>0, <3>1, Zenon DEF OwnedIsUnshared
    <3>3. ASSUME owner[objects[u][k]] = cowKey[u], NEW v \in live, NEW n \in MO,
                 objects'[v][n] = objects[u][k]
          PROVE  v = u /\ n = k
      <4>1. objects[v][n] = objects[u][k]
        BY <1>1, <1>4, <2>0, <3>3
      <4> QED BY <2>0, <3>1, <3>3, <4>1 DEF OwnedIsUnshared
    <3> QED BY <2>0, <3>1, <3>2, <3>3, ZenonT(40)
  <2> QED BY <2>1, <2>2, Zenon
<1> QED BY <1>2, <1>3, <1>5, <1>8, <1>9, Zenon

\* Dropping references shares nothing more.
LEMMA DroppedSharing ==
  ASSUME SharingInv, NEW objs \in [Space -> [MO -> Obj \cup {NULL}]],
         objects' = objs, live' \subseteq live, cowKey' \in [Space -> Nat],
         \A t \in live' : cowKey'[t] = cowKey[t],
         \A t \in Space, n \in MO : objs[t][n] \in {NULL, objects[t][n]},
         \A t \in Space \ live' : objs[t] = Unbound,
         owner' = Owners(owner, objects')
  PROVE  SharingInv'
<1> USE DEF SharingInv
<1>1. owner' \in [Obj -> Nat]
  BY Zenon DEF Owners
<1>2. \A t \in Space, n \in MO : objs[t][n] # NULL =>
        objs[t][n] = objects[t][n] /\ owner'[objs[t][n]] = owner[objects[t][n]]
  BY DEF Owners, Referenced
<1>3. OwnedIsUnshared'
  BY <1>2 DEF OwnedIsUnshared
<1> QED BY <1>1, <1>3, Zenon

\* What getWriteable does to the sharing: nothing, or a new binding.
LEMMA WriteableSharing ==
  ASSUME SharingInv, NEW s \in Space, NEW m \in MO, s \in live, NEW h, NEW changed,
         Writeable(s, m, h, changed), UNCHANGED <<live, cowKey>>
  PROVE  SharingInv'
<1>1. CASE UNCHANGED <<objects, owner>>
  BY <1>1 DEF SharingInv, OwnedIsUnshared, Unbound
<1>2. CASE Rebound(s, m)
  BY <1>2, ReboundSharing, Zenon
<1> QED BY <1>1, <1>2, Zenon DEF Writeable, Rebound

\* The copy constructor gives both address spaces a key nothing is owned by.
LEMMA ForkSharing ==
  ASSUME SharingInv, NEW s \in Space, NEW t \in Space, ForkSpace(s, t)
  PROVE  SharingInv'
<1>1. /\ s \in live /\ t \in Space \ live /\ live' = live \cup {t} /\ owner' = owner
      /\ cowKey' = [cowKey EXCEPT ![s] = @ + 1, ![t] = cowKey[s] + 1]
      /\ objects' = [objects EXCEPT ![t] = objects[s]]
  BY Zenon DEF ForkSpace
<1> USE DEF SharingInv
<1>2. s # t /\ cowKey' \in [Space -> Nat] /\ objects' \in [Space -> [MO -> Obj \cup {NULL}]]
  BY <1>1
<1>3. /\ cowKey'[s] = cowKey[s] + 1 /\ cowKey'[t] = cowKey[s] + 1
      /\ \A u \in Space \ {s, t} : cowKey'[u] = cowKey[u]
  BY <1>1, <1>2, Zenon
<1>4. \A u \in Space : objects'[u] = IF u = t THEN objects[s] ELSE objects[u]
  BY <1>1, Zenon
<1>5. \A u \in live, m \in MO : objects[u][m] # NULL =>
        objects[u][m] \in Obj /\ owner[objects[u][m]] \in Nat /\ cowKey[u] \in Nat
  BY <1>2
<1>6. OwnedIsUnshared'
  <2> SUFFICES \A u \in live', k \in MO : objects'[u][k] # NULL =>
                 /\ owner'[objects'[u][k]] <= cowKey'[u]
                 /\ owner'[objects'[u][k]] = cowKey'[u] =>
                      \A v \in live', n \in MO : objects'[v][n] = objects'[u][k] => v = u /\ n = k
    BY Zenon DEF OwnedIsUnshared
  <2> SUFFICES ASSUME NEW u \in live', NEW m \in MO, objects'[u][m] # NULL
               PROVE  /\ owner[objects'[u][m]] <= cowKey'[u]
                      /\ owner[objects'[u][m]] = cowKey'[u] =>
                           \A v \in live', n \in MO : objects'[v][n] = objects'[u][m] => v = u /\ n = m
    BY <1>1
  <2>1. CASE u \in {s, t}
    BY <1>1, <1>3, <1>4, <1>5, <2>1 DEF OwnedIsUnshared
  <2>2. CASE u \notin {s, t}
    <3>1. u \in live /\ objects'[u] = objects[u] /\ cowKey'[u] = cowKey[u]
      BY <1>1, <1>3, <1>4, <2>2, Zenon
    <3>2. owner[objects[u][m]] <= cowKey[u]
      BY <3>1, Zenon DEF OwnedIsUnshared
    <3>3. ASSUME owner[objects[u][m]] = cowKey[u], NEW v \in live', NEW n \in MO,
                 objects'[v][n] = objects[u][m]
          PROVE  v = u /\ n = m
      <4> DEFINE w == IF v = t THEN s ELSE v
      <4>1. w \in live /\ objects[w][n] = objects[u][m]
        BY <1>1, <1>4, <3>3, Zenon
      <4>2. w = u /\ n = m
        BY <3>1, <3>3, <4>1 DEF OwnedIsUnshared
      <4> QED BY <2>2, <4>2, Zenon
    <3> QED BY <3>1, <3>2, <3>3, Zenon
  <2> QED BY <2>1, <2>2, Zenon
<1> QED BY <1>1, <1>2, <1>4, <1>6, Zenon

\* Every operation on the address spaces keeps SharingInv.
LEMMA SharingStep ==
  ASSUME SharingInv, [MemNext]_memVars
  PROVE  SharingInv'
<1>1. ASSUME NEW s \in Space, NEW t \in Space, ForkSpace(s, t) PROVE SharingInv'
  BY <1>1, ForkSharing
<1>2. ASSUME NEW s \in Space, EndSpace(s) PROVE SharingInv'
  <2>1. /\ s \in live /\ live' = live \ {s} /\ objects' = [objects EXCEPT ![s] = Unbound]
        /\ cowKey' = [cowKey EXCEPT ![s] = 1] /\ owner' = Owners(owner, objects')
    BY <1>2, Zenon DEF EndSpace
  <2> DEFINE objs == [objects EXCEPT ![s] = Unbound]
  <2>2. objs \in [Space -> [MO -> Obj \cup {NULL}]]
    BY DEF SharingInv, Unbound
  <2>3. cowKey' \in [Space -> Nat] /\ \A t \in live' : cowKey'[t] = cowKey[t]
    BY <2>1, Zenon DEF SharingInv
  <2>4. \A t \in Space, n \in MO : objs[t][n] \in {NULL, objects[t][n]}
    BY Zenon DEF SharingInv, Unbound
  <2>5. \A t \in Space \ live' : objs[t] = Unbound
    BY <2>1 DEF SharingInv
  <2> HIDE DEF objs
  <2>6. objects' = objs /\ live' \subseteq live
    BY <2>1, Zenon DEF objs
  <2> QED BY <2>1, <2>2, <2>3, <2>4, <2>5, <2>6, DroppedSharing
<1>3. ASSUME NEW s \in Space, NEW m \in MO, FreeObject(s, m) PROVE SharingInv'
  <2>1. /\ s \in live /\ live' = live /\ cowKey' = cowKey /\ owner' = Owners(owner, objects')
        /\ objects' = [objects EXCEPT ![s][m] = NULL]
    BY <1>3, Zenon DEF FreeObject
  <2> DEFINE objs == [objects EXCEPT ![s][m] = NULL]
  <2>2. /\ objs \in [Space -> [MO -> Obj \cup {NULL}]]
        /\ \A t \in Space, n \in MO : objs[t][n] \in {NULL, objects[t][n]}
        /\ \A t \in Space \ live' : objs[t] = Unbound
    BY <2>1 DEF SharingInv
  <2> HIDE DEF objs
  <2>3. /\ objects' = objs /\ live' \subseteq live /\ cowKey' \in [Space -> Nat]
        /\ \A t \in live' : cowKey'[t] = cowKey[t]
    BY <2>1, Zenon DEF objs, SharingInv
  <2> QED BY <2>1, <2>2, <2>3, DroppedSharing, Zenon
<1>4. ASSUME NEW s \in Space, NEW m \in MO, s \in live, NEW c, Bind(s, m, c) PROVE SharingInv'
  BY <1>4, ReboundSharing, Zenon DEF Bind, Rebound
<1>5. ASSUME NEW s \in Space, NEW m \in MO, NEW index \in Indexes, LoadByte(s, m, index)
      PROVE  SharingInv'
  BY <1>5 DEF LoadByte, SharingInv, OwnedIsUnshared, Unbound
<1>6. ASSUME NEW s \in Space, NEW m \in MO, NEW index \in Indexes, NEW bytes \in Stores,
             StoreBytes(s, m, index, bytes)
      PROVE  SharingInv'
  BY <1>6, WriteableSharing, Zenon DEF StoreBytes
<1>7. ASSUME NEW s \in Space, NEW m \in MO, NEW arg \in MO \cup {NULL}, NEW solution \in Input,
             NEW i \in Offset, NEW v \in Byte, ExternalCall(s, arg, solution, m, i, v)
      PROVE  SharingInv'
  <2>1. s \in live /\ UNCHANGED <<live, cowKey>>
    BY <1>7, Zenon DEF ExternalCall
  <2>2. \/ UNCHANGED <<objects, owner>>
        \/ \E h, changed : Writeable(s, m, h, changed)
    BY <1>7, Zenon DEF ExternalCall, CopyIn
  <2>3. CASE UNCHANGED <<objects, owner>>
    BY <2>1, <2>3 DEF SharingInv, OwnedIsUnshared, Unbound
  <2> QED BY <2>1, <2>2, <2>3, WriteableSharing, Zenon
<1>8. CASE UNCHANGED memVars
  BY <1>8 DEF memVars, SharingInv, OwnedIsUnshared, Unbound
<1> QED BY <1>1, <1>2, <1>3, <1>4, <1>5, <1>6, <1>7, <1>8, Zenon DEF MemNext, MakeSymbolic, Alloc

\* What getWriteable changes in place is seen by one state only: an address space owns an
\* object state only if no other address space, and no other memory object, refers to it,
\* for every number of states, memory objects and object states.
THEOREM OwnersShareNothing == MemSpec => []OwnedIsUnshared
<1>1. MemInit => SharingInv
  BY DEF MemInit, SharingInv, OwnedIsUnshared, Unbound
<1>2. SharingInv /\ [MemNext]_memVars => SharingInv'
  BY SharingStep, Zenon
<1>3. SharingInv => OwnedIsUnshared
  BY DEF SharingInv
<1> QED BY <1>1, <1>2, <1>3, PTL DEF MemSpec
-----------------------------------------------------------------------------
(* The bytes of object states *)

\* A set of numbers has a least one.
LEMMA LeastNat ==
  ASSUME NEW S, S \subseteq Nat, S # {}
  PROVE  \E x \in S : \A y \in S : x <= y
<1>1. PICK x \in S : \A y \in S : ~ (<<y, x>> \in OpToRel(<, Nat))
  BY NatLessThanWellFounded, WFMin, Zenon
<1>2. ASSUME NEW y \in S PROVE ~(y < x)
  <2>1. <<y, x>> \in Nat \X Nat
    BY Zenon
  <2>2. ~ (<<y, x>> \in OpToRel(<, Nat))
    BY <1>1, Zenon
  <2> QED BY <2>1, <2>2, Zenon DEF OpToRel
<1>3. \A y \in S : x \in Int /\ y \in Int /\ ~(y < x)
  BY <1>2, SMT
<1> QED BY <1>3, SMT

\* A set that holds 0, and with each number the next, holds all.
LEMMA SetInduction ==
  ASSUME NEW S, 0 \in S, \A n \in Nat : n \in S => n + 1 \in S
  PROVE  \A n \in Nat : n \in S
<1> SUFFICES ASSUME Nat \ S # {} PROVE FALSE
  OBVIOUS
<1>1. PICK n \in Nat \ S : \A y \in Nat \ S : n <= y
  BY LeastNat, Zenon
<1>2. n # 0 /\ n - 1 \in Nat /\ n - 1 < n
  BY <1>1
<1>3. n - 1 \in S
  BY <1>1, <1>2
<1> QED BY <1>1, <1>2, <1>3

\* The greatest of some positions is one.
LEMMA GreatestOf ==
  ASSUME NEW n \in Nat, NEW S, S \subseteq 1 .. n, S # {}
  PROVE  /\ Max(S) \in S
         /\ \A y \in S : y <= Max(S)
<1> DEFINE T == {n - x : x \in S}
<1>1. T \subseteq Nat /\ T # {}
  <2>1. PICK x \in S : TRUE
    BY Zenon
  <2>2. n - x \in T
    OBVIOUS
  <2> QED BY <2>2
<1>2. PICK d \in T : \A y \in T : d <= y
  BY <1>1, LeastNat, Zenon
<1>3. PICK x \in S : d = n - x
  BY <1>2
<1>4. \A y \in S : n - x <= n - y
  BY <1>2, <1>3, Zenon
<1>5. ASSUME NEW y \in S PROVE x >= y
  <2>1. x \in Int /\ y \in Int /\ n \in Int /\ n - x <= n - y
    <3> HIDE DEF T
    <3> QED BY <1>4
  <2> QED BY <2>1
<1>6. Max(S) \in S /\ \A y \in S : Max(S) >= y
  BY <1>5, Zenon DEF Max
<1> QED BY <1>6, Zenon

\* An update of the list, the updates at an offset, and what the list gives of a byte.
Update == [index : Index, value : Expr]
Hits(ups, i, a) == {k \in DOMAIN ups : ups[k].index[a] = i}
Latest(root, ups, i, a) ==
  IF Hits(ups, i, a) # {} THEN ups[Max(Hits(ups, i, a))].value[a]
  ELSE IF root = NoExpr THEN 0 ELSE root[i][a]

\* The last update at an offset gives its value.
LEMMA LatestHit ==
  ASSUME NEW ups \in Seq(Update), NEW i, NEW a, NEW root, NEW v,
         Hits(ups, i, a) # {}, NEW n \in Nat,
         \A k \in Hits(ups, i, a) : k > n => ups[k].value[a] = v,
         \E k \in Hits(ups, i, a) : k > n
  PROVE  Latest(root, ups, i, a) = v
<1> DEFINE S == Hits(ups, i, a)
<1>1. S \subseteq 1 .. Len(ups) /\ Len(ups) \in Nat
  BY DEF Hits
<1>2. Max(S) \in S /\ \A y \in S : y <= Max(S)
  BY <1>1, GreatestOf, Zenon
<1>3. \A k \in S : k \in Nat
  BY <1>1
<1> HIDE DEF S
<1>4. Max(S) > n
  BY <1>2, <1>3 DEF S
<1>5. Max(S) \in S /\ S # {} /\ ups[Max(S)].value[a] = v
  BY <1>2, <1>4, Zenon DEF S
<1> QED BY <1>5, Zenon DEF S, Latest

\* Two lists whose last updates at an offset correspond give the same value.
LEMMA LatestSame ==
  ASSUME NEW ups \in Seq(Update), NEW root, NEW i, NEW a, NEW more \in Seq(Update),
         \A k \in DOMAIN more : more[k].index[a] # i
  PROVE  Latest(root, ups \o more, i, a) = Latest(root, ups, i, a)
<1>1. Hits(ups \o more, i, a) = Hits(ups, i, a)
  BY DEF Hits
<1>2. \A k \in Hits(ups, i, a) : (ups \o more)[k] = ups[k]
  BY DEF Hits
<1>3. Hits(ups, i, a) # {} => Max(Hits(ups, i, a)) \in Hits(ups, i, a)
  <2>1. Hits(ups, i, a) \subseteq 1 .. Len(ups) /\ Len(ups) \in Nat
    BY DEF Hits
  <2> QED BY <2>1, GreatestOf, Zenon
<1> QED BY <1>1, <1>2, <1>3, Zenon DEF Latest

\* Further updates that all give v at an offset, and one of them is at it.
LEMMA LatestNew ==
  ASSUME NEW ups \in Seq(Update), NEW root, NEW i, NEW a, NEW more \in Seq(Update),
         NEW j \in DOMAIN more, more[j].index[a] = i,
         \A k \in DOMAIN more : more[k].index[a] = i => more[k].value[a] = more[j].value[a]
  PROVE  Latest(root, ups \o more, i, a) = more[j].value[a]
<1> DEFINE all == ups \o more
           n == Len(ups)
           v == more[j].value[a]
<1>1. all \in Seq(Update) /\ n \in Nat
  OBVIOUS
<1>2. \A k \in DOMAIN more : n + k \in DOMAIN all /\ all[n + k] = more[k] /\ k \in Nat /\ k > 0
  OBVIOUS
<1>3. \A k \in DOMAIN all : k > n => k - n \in DOMAIN more /\ all[k] = more[k - n]
  OBVIOUS
<1>0. \A k \in DOMAIN more : more[k].index[a] = i => more[k].value[a] = v
  OBVIOUS
<1> HIDE DEF all, n, v
<1>4. \E k \in Hits(all, i, a) : k > n
  <2>2. n + j \in DOMAIN all /\ all[n + j].index[a] = i /\ n + j > n
    BY <1>1, <1>2
  <2> QED BY <2>2, Zenon DEF Hits
<1>5. \A k \in Hits(all, i, a) : k > n => all[k].value[a] = v
  BY <1>0, <1>3, ZenonT(40) DEF Hits
<1>6. Latest(root, all, i, a) = v
  BY <1>1, <1>4, <1>5, LatestHit, Zenon
<1> QED BY <1>6, Zenon DEF all, v

\* The parts of an object state, and what its masks say of its caches.
IsObject(o) ==
  o \in [store : [Offset -> Byte], concrete : [Offset -> BOOLEAN],
         known : [Offset -> Expr \cup {NoExpr}], unflushed : [Offset -> BOOLEAN],
         root : [Offset -> Expr] \cup {NoExpr}, updates : Seq(Update)]
CachesAgree(o) ==
  \A i \in Offset :
    /\ ~(o.concrete[i] /\ o.known[i] # NoExpr)
    /\ o.unflushed[i] => o.concrete[i] \/ o.known[i] # NoExpr
    /\ o.root = NoExpr => Cached(o, i) # NoExpr \/ Len(o.updates) > 0
Valid(o) == IsObject(o) /\ CachesAgree(o)

\* The object state holds the bytes c, but for those at the offsets in st.
Holds(o, c, st) ==
  \A i \in Offset \ st : \A a \in Input :
    /\ Cached(o, i) # NoExpr => Cached(o, i)[a] = c[i][a]
    /\ ~o.unflushed[i] => Latest(o.root, o.updates, i, a) = c[i][a]

\* A null expression, and a null array, are not ones.
LEMMA ExprIsSome ==
  /\ NoExpr \notin Expr
  /\ NoExpr \notin [Offset -> Expr]
<1>1. ASSUME NEW S, NEW T, NoExpr \in [S -> T] PROVE S = {}
  BY <1>1 DEF NoExpr
<1>2. Offset # {}
  BY SizesAssumption DEF Offset
<1> QED BY <1>1, <1>2, SizesAssumption, Zenon DEF Expr

\* A ConstantExpr has its value whatever the input.
LEMMA ConstantIs ==
  ASSUME NEW v
  PROVE  /\ v \in Byte => Constant(v) \in Expr
         /\ v \in Offset => Constant(v) \in Index
         /\ \A a \in Input : Constant(v)[a] = v
BY DEF Constant, Expr, Index

\* The value of an offset that is constant is the offset, whatever the input.
LEMMA ValueOfIs ==
  ASSUME NEW e, IsConstant(e)
  PROVE  \A a \in Input : e[a] = ValueOf(e)
<1> DEFINE c == CHOOSE a \in Input : TRUE
<1>1. c \in Input
  BY SizesAssumption, Zenon
<1> HIDE DEF c
<1>2. \A a \in Input : e[a] = e[c]
  BY <1>1, Zenon DEF IsConstant
<1> QED BY <1>2, Zenon DEF ValueOf, c

\* What the caches give of a byte: its concrete value, or the known symbolic one.
LEMMA CachedIs ==
  ASSUME NEW o, IsObject(o), NEW i \in Offset
  PROVE  /\ Cached(o, i) \in Expr \cup {NoExpr}
         /\ o.concrete[i] => Cached(o, i) = Constant(o.store[i]) /\ Cached(o, i) \in Expr
         /\ ~o.concrete[i] => Cached(o, i) = o.known[i]
<1>1. o.store[i] \in Byte /\ o.known[i] \in Expr \cup {NoExpr} /\ o.concrete[i] \in BOOLEAN
  BY Zenon DEF IsObject
<1>2. Constant(o.store[i]) \in Expr
  BY <1>1, ConstantIs, Zenon
<1> QED BY <1>1, <1>2, Zenon DEF Cached

\* The offsets a flush goes through are those of the set, each of them.
LEMMA InOrderIs ==
  ASSUME NEW S, S \subseteq Offset
  PROVE  /\ InOrder(S) \in Seq(S)
         /\ \A i \in S : \E k \in DOMAIN InOrder(S) : InOrder(S)[k] = i
<1> DEFINE Good(q, n) == /\ Len(q) \in 0 .. n
                         /\ \A k \in 1 .. Len(q) : q[k] < n
                         /\ \A i \in S : i < n => \E k \in 1 .. Len(q) : q[k] = i
                         /\ \A j, k \in 1 .. Len(q) : j < k => q[j] < q[k]
           Have == {n \in Nat : \E q \in Seq(S) : Good(q, n)}
<1>1. \A i \in S : i \in Nat /\ i < Size
  BY SizesAssumption DEF Offset
<1>2. 0 \in Have
  <2>1. << >> \in Seq(S) /\ Good(<< >>, 0)
    BY <1>1
  <2> HIDE DEF Good
  <2> QED BY <2>1, Zenon
<1>3. ASSUME NEW n \in Nat, n \in Have PROVE n + 1 \in Have
  <2>1. PICK q \in Seq(S) : Good(q, n)
    BY <1>3, Zenon
  <2>2. /\ Len(q) \in 0 .. n /\ \A k \in 1 .. Len(q) : q[k] < n /\ q[k] \in S
        /\ \A i \in S : i < n => \E k \in 1 .. Len(q) : q[k] = i
        /\ \A j, k \in 1 .. Len(q) : j < k => q[j] < q[k]
    BY <2>1
  <2>3. CASE n \notin S
    <3>0. \A i \in S : i < n + 1 => i < n
      BY <1>1, <2>3
    <3>1. Good(q, n + 1)
      BY <1>1, <2>2, <3>0
    <3> HIDE DEF Good
    <3> QED BY <3>1
  <2>4. CASE n \in S
    <3> DEFINE r == Append(q, n)
    <3>1. r \in Seq(S) /\ Len(r) = Len(q) + 1 /\ r[Len(q) + 1] = n
          /\ \A k \in 1 .. Len(q) : r[k] = q[k]
      BY <2>4
    <3> HIDE DEF r
    <3>2. \A k \in 1 .. Len(r) : k = Len(q) + 1 \/ k \in 1 .. Len(q)
      BY <2>2, <3>1
    <3>3. Len(r) \in 0 .. n + 1
      BY <2>2, <3>1
    <3>4. ASSUME NEW k \in 1 .. Len(r) PROVE r[k] < n + 1
      <4>1. CASE k = Len(q) + 1
        BY <3>1, <4>1
      <4>2. CASE k \in 1 .. Len(q)
        <5>1. q[k] \in Nat /\ q[k] < n /\ r[k] = q[k]
          BY <1>1, <2>2, <3>1, <4>2, Zenon
        <5> QED BY <5>1
      <4> QED BY <3>2, <4>1, <4>2, Zenon
    <3>5. ASSUME NEW i \in S, i < n + 1 PROVE \E k \in 1 .. Len(r) : r[k] = i
      <4>1. CASE i = n
        BY <2>2, <3>1, <4>1
      <4>2. CASE i # n
        <5>1. i < n
          BY <1>1, <3>5, <4>2
        <5>2. PICK k \in 1 .. Len(q) : q[k] = i
          BY <2>2, <5>1, Zenon
        <5> QED BY <2>2, <3>1, <5>2
      <4> QED BY <4>1, <4>2
    <3>6. ASSUME NEW j \in 1 .. Len(r), NEW k \in 1 .. Len(r), j < k PROVE r[j] < r[k]
      <4>1. j \in 1 .. Len(q)
        BY <2>2, <3>1, <3>6
      <4> QED BY <2>2, <3>1, <3>2, <3>6, <4>1, Zenon
    <3>7. Good(r, n + 1)
      BY <3>3, <3>4, <3>5, <3>6, Zenon
    <3> HIDE DEF Good
    <3> QED BY <3>1, <3>7
  <2> QED BY <2>3, <2>4, Zenon
<1>4. Size \in Have
  <2> HIDE DEF Have
  <2> QED BY <1>2, <1>3, SetInduction, SizesAssumption, Zenon
<1>5. PICK q \in Seq(S) : Good(q, Size)
  BY <1>4, Zenon
<1> DEFINE Seqs == UNION {[1 .. n -> S] : n \in 0 .. Size}
           P(r) == /\ \A i \in S : \E k \in DOMAIN r : r[k] = i
                   /\ \A j, k \in DOMAIN r : j < k => r[j] < r[k]
<1>6. q \in Seqs /\ P(q)
  <2>1. DOMAIN q = 1 .. Len(q) /\ q \in [1 .. Len(q) -> S] /\ Len(q) \in 0 .. Size
    BY <1>5
  <2> QED BY <1>1, <1>5, <2>1, Zenon
<1>7. InOrder(S) \in Seqs /\ P(InOrder(S))
  <2>1. InOrder(S) = CHOOSE r \in Seqs : P(r)
    BY Zenon DEF InOrder
  <2> HIDE DEF Seqs, P
  <2> QED BY <1>6, <2>1, Zenon
<1>8. \A r \in Seqs : r \in Seq(S)
  OBVIOUS
<1> QED BY <1>7, <1>8, Zenon

\* What a flush appends.
LEMMA FlushedIs ==
  ASSUME NEW o, Valid(o)
  PROVE  /\ Flushed(o) \in Seq(Update)
         /\ \A k \in DOMAIN Flushed(o) : \E i \in Offset :
              o.unflushed[i] /\ Flushed(o)[k] = [index |-> Constant(i), value |-> Cached(o, i)]
         /\ \A i \in Offset : o.unflushed[i] =>
              \E k \in DOMAIN Flushed(o) : Flushed(o)[k] = [index |-> Constant(i), value |-> Cached(o, i)]
<1> DEFINE S == {i \in Offset : o.unflushed[i]}
           q == InOrder(S)
           u(i) == [index |-> Constant(i), value |-> Cached(o, i)]
<1>1. q \in Seq(S) /\ \A i \in S : \E k \in DOMAIN q : q[k] = i
  <2>1. S \subseteq Offset
    OBVIOUS
  <2> HIDE DEF S
  <2> QED BY <2>1, InOrderIs
<1>2. \A i \in S : u(i) \in Update
  <2> SUFFICES ASSUME NEW i \in S PROVE u(i) \in Update
    OBVIOUS
  <2>1. i \in Offset /\ o.unflushed[i] /\ Cached(o, i) \in Expr \cup {NoExpr}
    BY CachedIs DEF Valid
  <2>2. Constant(i) \in Index
    BY <2>1, ConstantIs, Zenon
  <2>3. Cached(o, i) \in Expr
    <3>1. o.concrete[i] \/ o.known[i] # NoExpr
      BY <2>1 DEF Valid, CachesAgree
    <3> QED BY <2>1, <3>1, CachedIs, Zenon DEF Valid
  <2> QED BY <2>2, <2>3 DEF Update
<1>3. Flushed(o) = [k \in DOMAIN q |-> u(q[k])]
  BY Zenon DEF Flushed
<1> HIDE DEF q, u
<1>4. Flushed(o) \in Seq(Update)
  BY <1>1, <1>2, <1>3
<1>5. ASSUME NEW k \in DOMAIN Flushed(o) PROVE \E i \in Offset : o.unflushed[i] /\ Flushed(o)[k] = u(i)
  BY <1>1, <1>3
<1>6. ASSUME NEW i \in Offset, o.unflushed[i] PROVE \E k \in DOMAIN Flushed(o) : Flushed(o)[k] = u(i)
  BY <1>1, <1>3, <1>6
<1> QED BY <1>4, <1>5, <1>6, Zenon DEF u

\* flushRangeForRead keeps the bytes, and leaves nothing unflushed.
LEMMA FlushRead ==
  ASSUME NEW o, Valid(o), NEW c, NEW st, Holds(o, c, st)
  PROVE  /\ Valid(flushRangeForRead(o)) /\ Holds(flushRangeForRead(o), c, st)
         /\ \A i \in Offset : ~flushRangeForRead(o).unflushed[i]
<1> DEFINE p == flushRangeForRead(o)
           w == Flushed(o)
<1>1. IsObject(o) /\ CachesAgree(o)
  BY Zenon DEF Valid
<1>2. w \in Seq(Update)
  BY FlushedIs, Zenon
<1>3. /\ p = [o EXCEPT !.updates = @ \o w, !.unflushed = [i \in Offset |-> FALSE]]
  BY Zenon DEF flushRangeForRead
<1> HIDE DEF w, p
<1>4. /\ p.store = o.store /\ p.concrete = o.concrete /\ p.known = o.known /\ p.root = o.root
      /\ p.updates = o.updates \o w /\ p.unflushed = [i \in Offset |-> FALSE]
      /\ IsObject(p) /\ o.updates \in Seq(Update)
  <2> DEFINE all == o.updates \o w
             none == [i \in Offset |-> FALSE]
  <2>1. o.updates \in Seq(Update)
    BY <1>1, Zenon DEF IsObject
  <2>2. all \in Seq(Update) /\ none \in [Offset -> BOOLEAN]
    BY <1>2, <2>1
  <2>3. p = [o EXCEPT !.updates = all, !.unflushed = none]
    BY <1>3, Zenon
  <2> HIDE DEF all, none
  <2>4. /\ p.store = o.store /\ p.concrete = o.concrete /\ p.known = o.known /\ p.root = o.root
        /\ p.updates = all /\ p.unflushed = none /\ IsObject(p)
    BY <1>1, <2>2, <2>3, Zenon DEF IsObject
  <2> QED BY <2>1, <2>4, Zenon DEF all, none
<1>5. \A i \in Offset : Cached(p, i) = Cached(o, i) /\ ~p.unflushed[i]
  BY <1>4, Zenon DEF Cached
<1>6. Len(o.updates) > 0 => Len(p.updates) > 0
  BY <1>2, <1>4
<1>7. CachesAgree(p)
  BY <1>1, <1>4, <1>5, <1>6 DEF CachesAgree
<1>8. ASSUME NEW i \in Offset \ st, NEW a \in Input PROVE Latest(p.root, p.updates, i, a) = c[i][a]
  <2>1. CASE o.unflushed[i]
    <3>1. Cached(o, i) # NoExpr
      <4>1. o.concrete[i] \/ o.known[i] # NoExpr
        BY <1>1, <2>1, Zenon DEF CachesAgree
      <4> QED BY <1>1, <4>1, CachedIs, ExprIsSome, Zenon
    <3>2. Cached(o, i)[a] = c[i][a]
      BY <3>1, Zenon DEF Holds
    <3>3. \E k \in DOMAIN w : w[k].index[a] = i
      <4>1. PICK k \in DOMAIN w : w[k] = [index |-> Constant(i), value |-> Cached(o, i)]
        BY <2>1, FlushedIs, Zenon DEF w
      <4> QED BY <4>1, ConstantIs, SMTT(30)
    <3>4. ASSUME NEW k \in DOMAIN w, w[k].index[a] = i PROVE w[k].value[a] = c[i][a]
      <4>1. PICK j \in Offset : w[k] = [index |-> Constant(j), value |-> Cached(o, j)]
        BY FlushedIs, Zenon DEF w
      <4>2. j = i
        BY <3>4, <4>1, ConstantIs
      <4> QED BY <3>2, <4>1, <4>2
    <3>5. Latest(o.root, o.updates \o w, i, a) = c[i][a]
      <4>1. PICK j \in DOMAIN w : w[j].index[a] = i
        BY <3>3, Zenon
      <4>2. w[j].value[a] = c[i][a]
        BY <3>4, <4>1, Zenon
      <4>3. \A k \in DOMAIN w : w[k].index[a] = i => w[k].value[a] = w[j].value[a]
        BY <3>4, <4>2, Zenon
      <4>4. Latest(o.root, o.updates \o w, i, a) = w[j].value[a]
        BY <1>2, <1>4, <4>1, <4>3, LatestNew, SMTT(30)
      <4> QED BY <4>2, <4>4, Zenon
    <3> QED BY <1>4, <3>5, Zenon
  <2>2. CASE ~o.unflushed[i]
    <3>1. ASSUME NEW k \in DOMAIN w PROVE w[k].index[a] # i
      <4>1. PICK j \in Offset : o.unflushed[j] /\ w[k] = [index |-> Constant(j), value |-> Cached(o, j)]
        BY FlushedIs, Zenon DEF w
      <4> QED BY <2>2, <4>1, ConstantIs, SMTT(30)
    <3>2. Latest(o.root, o.updates \o w, i, a) = Latest(o.root, o.updates, i, a)
      BY <1>2, <1>4, <3>1, LatestSame, SMTT(30)
    <3>3. Latest(o.root, o.updates, i, a) = c[i][a]
      BY <2>2, Zenon DEF Holds
    <3> QED BY <1>4, <3>2, <3>3, Zenon
  <2> QED BY <2>1, <2>2, Zenon
<1>9. Holds(p, c, st)
  BY <1>5, <1>8, ZenonT(40) DEF Holds
<1> QED BY <1>4, <1>5, <1>7, <1>9, Zenon DEF Valid, p

\* flushRangeForWrite also empties the caches.
LEMMA FlushWrite ==
  ASSUME NEW o, Valid(o), NEW c, NEW st, Holds(o, c, st)
  PROVE  /\ IsObject(flushRangeForWrite(o)) /\ Holds(flushRangeForWrite(o), c, st)
         /\ \A i \in Offset : /\ ~flushRangeForWrite(o).unflushed[i]
                              /\ ~flushRangeForWrite(o).concrete[i]
                              /\ flushRangeForWrite(o).known[i] = NoExpr
<1> DEFINE p == flushRangeForRead(o)
           r == flushRangeForWrite(o)
<1>1. Valid(p) /\ Holds(p, c, st) /\ \A i \in Offset : ~p.unflushed[i]
  BY FlushRead, Zenon
<1>2. r = [p EXCEPT !.concrete = [i \in Offset |-> FALSE], !.known = [i \in Offset |-> NoExpr]]
  BY Zenon DEF flushRangeForWrite
<1> HIDE DEF p, r
<1>3. /\ r.root = p.root /\ r.updates = p.updates /\ r.unflushed = p.unflushed
      /\ r.concrete = [i \in Offset |-> FALSE] /\ r.known = [i \in Offset |-> NoExpr]
      /\ IsObject(r)
  BY <1>1, <1>2, Zenon DEF Valid, IsObject
<1>4. \A i \in Offset : ~r.unflushed[i] /\ ~r.concrete[i] /\ r.known[i] = NoExpr /\ Cached(r, i) = NoExpr
  BY <1>1, <1>3, Zenon DEF Cached
<1>5. Holds(r, c, st)
  BY <1>1, <1>3, <1>4 DEF Holds
<1> QED BY <1>3, <1>4, <1>5, Zenon DEF r

\* What getUpdates makes of the oldest updates is what they were.
LEMMA UpdatesSplit ==
  ASSUME NEW ups \in Seq(Update), NEW n \in 0 .. Len(ups), NEW base, NEW root, NEW i, NEW a,
         base # NoExpr, root # NoExpr, base[i][a] = 0,
         root[i][a] = Latest(base, SubSeq(ups, 1, n), i, a)
  PROVE  Latest(root, SubSeq(ups, n + 1, Len(ups)), i, a) = Latest(NoExpr, ups, i, a)
<1> DEFINE old == SubSeq(ups, 1, n)
           new == SubSeq(ups, n + 1, Len(ups))
<1>1. old \in Seq(Update) /\ new \in Seq(Update) /\ ups = old \o new
  <2>1. /\ old \in Seq(Update) /\ Len(old) = n
        /\ \A k \in 1 .. n : old[k] = ups[k]
    OBVIOUS
  <2>2. /\ new \in Seq(Update) /\ Len(new) = Len(ups) - n
        /\ \A k \in 1 .. Len(new) : new[k] = ups[n + k]
    OBVIOUS
  <2> HIDE DEF old, new
  <2>3. /\ old \o new \in Seq(Update) /\ Len(old \o new) = Len(ups)
        /\ \A k \in 1 .. Len(ups) : (old \o new)[k] = ups[k]
    <3>1. /\ old \o new \in Seq(Update) /\ Len(old \o new) = Len(ups)
          /\ Len(ups) \in Nat /\ Len(old) = n /\ Len(new) = Len(ups) - n
      <4>1. Len(ups) \in Nat /\ n \in Nat /\ n <= Len(ups)
        OBVIOUS
      <4>2. old \in Seq(Update) /\ new \in Seq(Update)
        BY <2>1, <2>2, Zenon
      <4>3. old \o new \in Seq(Update) /\ Len(old \o new) = Len(old) + Len(new)
        BY <4>2
      <4> QED BY <2>1, <2>2, <4>1, <4>3
    <3>2. ASSUME NEW k \in 1 .. Len(ups) PROVE (old \o new)[k] = ups[k]
      <4>1. (old \o new)[k] = IF k <= Len(old) THEN old[k] ELSE new[k - Len(old)]
        BY <2>1, <2>2, <3>1
      <4>2. CASE k <= n
        BY <2>1, <4>1, <4>2
      <4>3. CASE ~(k <= n)
        <5>1. k - n \in 1 .. Len(new) /\ n + (k - n) = k
          BY <3>1, <4>3
        <5>2. new[k - n] = ups[n + (k - n)]
          BY <2>2, <5>1, Zenon
        <5> QED BY <2>1, <4>1, <4>3, <5>1, <5>2, ZenonT(40)
      <4> QED BY <4>2, <4>3, Zenon
    <3> QED BY <3>1, <3>2, Zenon
  <2>4. \A q \in Seq(Update) : q = [k \in 1 .. Len(q) |-> q[k]]
    OBVIOUS
  <2>5. old \o new = [k \in 1 .. Len(ups) |-> (old \o new)[k]] /\ ups = [k \in 1 .. Len(ups) |-> ups[k]]
    BY <2>3, <2>4, Zenon
  <2>6. [k \in 1 .. Len(ups) |-> (old \o new)[k]] = [k \in 1 .. Len(ups) |-> ups[k]]
    BY <2>3, Zenon
  <2> QED BY <2>1, <2>2, <2>5, <2>6, Zenon
<1>2. DOMAIN new = 1 .. Len(new) /\ DOMAIN old = 1 .. Len(old)
  BY <1>1
<1> HIDE DEF old, new
<1>3. CASE \A k \in DOMAIN new : new[k].index[a] # i
  <2>1. Latest(NoExpr, old \o new, i, a) = Latest(NoExpr, old, i, a)
    BY <1>1, <1>3, LatestSame, SMTT(30)
  <2>2. Latest(root, new, i, a) = root[i][a]
    BY <1>3, Zenon DEF Latest, Hits
  <2>3. Latest(NoExpr, old, i, a) = Latest(base, old, i, a)
    BY Zenon DEF Latest
  <2> QED BY <1>1, <2>1, <2>2, <2>3, Zenon DEF old, new
<1>4. CASE \E k \in DOMAIN new : new[k].index[a] = i
  <2> DEFINE top == Max(Hits(new, i, a))
             v == new[top].value[a]
             n0 == Len(old)
  <2>1. Hits(new, i, a) # {} /\ Hits(new, i, a) \subseteq 1 .. Len(new) /\ Len(new) \in Nat
    BY <1>1, <1>4 DEF Hits
  <2>2. top \in Hits(new, i, a) /\ \A k \in Hits(new, i, a) : k <= top
    BY <2>1, GreatestOf, Zenon
  <2>3. top \in 1 .. Len(new) /\ new[top].index[a] = i
    BY <1>2, <2>2, Zenon DEF Hits
  <2> HIDE DEF top
  <2>4. Latest(root, new, i, a) = v
    BY <2>1, Zenon DEF Latest, top
  <2> HIDE DEF v
  <2>5. n0 \in Nat /\ \A k \in 1 .. Len(new) : n0 + k \in DOMAIN ups /\ ups[n0 + k] = new[k]
    BY <1>1
  <2>6. \A k \in DOMAIN ups : k > n0 => k - n0 \in 1 .. Len(new) /\ ups[k] = new[k - n0]
    BY <1>1
  <2> HIDE DEF n0
  <2> DEFINE m == n0 + top - 1
  <2>7. m \in Nat /\ m + 1 = n0 + top /\ m + 1 \in DOMAIN ups /\ ups[m + 1] = new[top]
    BY <2>3, <2>5
  <2>8. m + 1 \in Hits(ups, i, a) /\ m + 1 > m
    BY <2>3, <2>7 DEF Hits
  <2>9. ASSUME NEW k \in Hits(ups, i, a), k > m PROVE ups[k].value[a] = v
    <3>1. k \in DOMAIN ups /\ ups[k].index[a] = i /\ k \in Nat
      BY DEF Hits
    <3>2. k > n0
      BY <2>3, <2>5, <2>9, <3>1
    <3>3. k - n0 \in Hits(new, i, a) /\ ups[k] = new[k - n0]
      BY <1>2, <2>6, <3>1, <3>2, Zenon DEF Hits
    <3>4. k - n0 = top
      BY <2>2, <2>3, <2>5, <2>9, <3>1, <3>3
    <3> QED BY <3>3, <3>4, Zenon DEF v
  <2> HIDE DEF m
  <2>10. Latest(NoExpr, ups, i, a) = v
    BY <2>7, <2>8, <2>9, LatestHit, Zenon
  <2> QED BY <2>4, <2>10, Zenon DEF new
<1> QED BY <1>3, <1>4, Zenon

\* A value of the list is a byte.
LEMMA LatestByte ==
  ASSUME NEW root \in [Offset -> Expr], NEW ups \in Seq(Update), NEW i \in Offset, NEW a \in Input
  PROVE  Latest(root, ups, i, a) \in Byte
<1>1. CASE Hits(ups, i, a) # {}
  <2> DEFINE top == Max(Hits(ups, i, a))
  <2>1. Hits(ups, i, a) \subseteq 1 .. Len(ups) /\ Len(ups) \in Nat
    BY DEF Hits
  <2>2. top \in Hits(ups, i, a)
    BY <1>1, <2>1, GreatestOf, Zenon
  <2> HIDE DEF top
  <2>3. ups[top] \in Update
    BY <2>2 DEF Hits
  <2>4. ups[top].value[a] \in Byte
    BY <2>3, Zenon DEF Update, Expr
  <2> QED BY <1>1, <2>4, Zenon DEF Latest, top
<1>2. CASE Hits(ups, i, a) = {}
  <2>1. root[i][a] \in Byte
    BY DEF Expr
  <2> QED BY <1>2, <2>1, ExprIsSome, Zenon DEF Latest
<1> QED BY <1>1, <1>2, Zenon

\* ReadExpr is the latest value for each input.
LEMMA ReadExprIs ==
  ASSUME NEW o, o.root # NoExpr, NEW index
  PROVE  /\ DOMAIN ReadExpr(o, index) = Input
         /\ \A a \in Input : ReadExpr(o, index)[a] = Latest(o.root, o.updates, index[a], a)
<1>1. ASSUME NEW a \in Input PROVE ReadExpr(o, index)[a] = Latest(o.root, o.updates, index[a], a)
  <2>1. ReadExpr(o, index)[a] =
          LET hits == {k \in DOMAIN o.updates : o.updates[k].index[a] = index[a]}
          IN IF hits = {} THEN o.root[index[a]][a] ELSE o.updates[Max(hits)].value[a]
    BY Zenon DEF ReadExpr
  <2> QED BY <2>1, Zenon DEF Latest, Hits
<1>2. DOMAIN ReadExpr(o, index) = Input
  BY Zenon DEF ReadExpr
<1> QED BY <1>1, <1>2, Zenon

\* getUpdates gives an object without an array one, and no byte another value.
LEMMA UpdatesKeep ==
  ASSUME NEW o, Valid(o)
  PROVE  /\ Valid(getUpdates(o)) /\ getUpdates(o).root # NoExpr
         /\ getUpdates(o).unflushed = o.unflushed
         /\ \A i \in Offset : Cached(getUpdates(o), i) = Cached(o, i)
         /\ \A i \in Offset, a \in Input :
              Latest(getUpdates(o).root, getUpdates(o).updates, i, a) = Latest(o.root, o.updates, i, a)
<1>1. CASE o.root # NoExpr
  <2>1. getUpdates(o) = o
    BY <1>1, Zenon DEF getUpdates
  <2> QED BY <1>1, <2>1, Zenon
<1>2. CASE o.root = NoExpr
  <2> DEFINE ups == o.updates
             n == IF ConstantWrites(ups) = {} THEN 0 ELSE Max(ConstantWrites(ups))
             base == [i \in Offset |-> Constant(0)]
             old == SubSeq(ups, 1, n)
             zeros == [o EXCEPT !.root = base, !.updates = old]
             root == [i \in Offset |-> ReadExpr(zeros, Constant(i))]
             new == SubSeq(ups, n + 1, Len(ups))
             p == getUpdates(o)
  <2>1. IsObject(o) /\ CachesAgree(o) /\ ups \in Seq(Update)
    BY DEF Valid, IsObject
  <2>2. p = [o EXCEPT !.root = root, !.updates = new]
    BY <1>2, Zenon DEF getUpdates
  <2>3. n \in 0 .. Len(ups)
    <3>1. ConstantWrites(ups) \subseteq 1 .. Len(ups) /\ Len(ups) \in Nat
      BY <2>1 DEF ConstantWrites
    <3>2. ConstantWrites(ups) # {} => Max(ConstantWrites(ups)) \in 1 .. Len(ups)
      BY <3>1, GreatestOf, Zenon
    <3> QED BY <3>1, <3>2
  <2> HIDE DEF n
  <2>4. base \in [Offset -> Expr] /\ \A i \in Offset, a \in Input : base[i][a] = 0
    BY SizesAssumption, ConstantIs, Zenon
  <2>5. old \in Seq(Update) /\ new \in Seq(Update)
    BY <2>1, <2>3
  <2> HIDE DEF base, old, new
  <2>6. zeros.root = base /\ zeros.updates = old
    BY <2>1, Zenon DEF IsObject
  <2> HIDE DEF zeros
  <2>7. base # NoExpr
    BY <2>4, ExprIsSome, Zenon
  <2>8. ASSUME NEW i \in Offset PROVE
          /\ root[i] \in Expr
          /\ \A a \in Input : root[i][a] = Latest(base, old, i, a)
    <3>1. root[i] = ReadExpr(zeros, Constant(i))
      BY Zenon
    <3>2. /\ DOMAIN ReadExpr(zeros, Constant(i)) = Input
          /\ \A a \in Input : ReadExpr(zeros, Constant(i))[a] = Latest(base, old, Constant(i)[a], a)
      BY <2>6, <2>7, ReadExprIs, Zenon
    <3>3. \A a \in Input : ReadExpr(zeros, Constant(i))[a] = Latest(base, old, i, a)
      BY <3>2, ConstantIs, Zenon
    <3>4. \A a \in Input : Latest(base, old, i, a) \in Byte
      BY <2>4, <2>5, LatestByte, Zenon
    <3>5. ReadExpr(zeros, Constant(i)) = [a \in Input |-> ReadExpr(zeros, Constant(i))[a]]
      BY <3>2, Zenon DEF ReadExpr
    <3>6. ReadExpr(zeros, Constant(i)) \in Expr
      BY <3>3, <3>4, <3>5, Zenon DEF Expr
    <3> QED BY <3>1, <3>3, <3>6, Zenon
  <2>9. root \in [Offset -> Expr]
    BY <2>8, Zenon
  <2> HIDE DEF root, p
  <2>10. root # NoExpr
    BY <2>9, ExprIsSome, Zenon
  <2>11. /\ p.store = o.store /\ p.concrete = o.concrete /\ p.known = o.known
         /\ p.unflushed = o.unflushed /\ p.root = root /\ p.updates = new /\ IsObject(p)
    BY <2>1, <2>2, <2>5, <2>9, Zenon DEF IsObject
  <2>12. \A i \in Offset : Cached(p, i) = Cached(o, i)
    BY <2>11, Zenon DEF Cached
  <2>13. CachesAgree(p)
    BY <2>1, <2>10, <2>11, <2>12, ZenonT(40) DEF CachesAgree
  <2>14. ASSUME NEW i \in Offset, NEW a \in Input
         PROVE  Latest(p.root, p.updates, i, a) = Latest(o.root, o.updates, i, a)
    <3>1. base[i][a] = 0 /\ root[i][a] = Latest(base, SubSeq(ups, 1, n), i, a)
      BY <2>4, <2>8, Zenon DEF old
    <3>2. Latest(root, SubSeq(ups, n + 1, Len(ups)), i, a) = Latest(NoExpr, ups, i, a)
      BY <2>1, <2>3, <2>7, <2>10, <3>1, UpdatesSplit
    <3> QED BY <1>2, <2>11, <3>2, Zenon DEF new
  <2> QED BY <2>10, <2>11, <2>12, <2>13, <2>14, Zenon DEF Valid, p
<1> QED BY <1>1, <1>2, Zenon

\* What getUpdates leaves holds the same bytes.
LEMMA UpdatesHold ==
  ASSUME NEW o, Valid(o), NEW c, NEW st, Holds(o, c, st)
  PROVE  Holds(getUpdates(o), c, st)
<1> DEFINE p == getUpdates(o)
<1>1. /\ p.unflushed = o.unflushed
      /\ \A i \in Offset : Cached(p, i) = Cached(o, i)
      /\ \A i \in Offset, a \in Input :
           Latest(p.root, p.updates, i, a) = Latest(o.root, o.updates, i, a)
  BY UpdatesKeep, Zenon
<1> HIDE DEF p
<1>2. Holds(p, c, st)
  BY <1>1, ZenonT(40) DEF Holds
<1> QED BY <1>2, Zenon DEF p

\* What read8 leaves of a shared object state.
LEMMA ReadKeeps ==
  ASSUME NEW o, Valid(o), NEW index \in Index
  PROVE  /\ Valid(AfterRead8(o, index))
         /\ \A c, st : Holds(o, c, st) => Holds(AfterRead8(o, index), c, st)
<1> DEFINE f == flushRangeForRead(o)
<1>1. Holds(o, [i \in Offset |-> 0], Offset)
  BY Zenon DEF Holds
<1>2. Valid(f) /\ \A c, st : Holds(o, c, st) => Holds(f, c, st)
  BY <1>1, FlushRead, Zenon
<1>3. Valid(getUpdates(o)) /\ \A c, st : Holds(o, c, st) => Holds(getUpdates(o), c, st)
  BY UpdatesKeep, UpdatesHold, Zenon
<1> HIDE DEF f
<1>4. Valid(getUpdates(f)) /\ \A c, st : Holds(f, c, st) => Holds(getUpdates(f), c, st)
  BY <1>2, UpdatesKeep, UpdatesHold, Zenon
<1>5. AfterRead8(o, index) \in {o, getUpdates(o), getUpdates(f)}
  BY Zenon DEF AfterRead8, f
<1> QED BY <1>2, <1>3, <1>4, <1>5, Zenon

\* read8 gives the bytes the object state holds.
LEMMA ReadGives ==
  ASSUME NEW o, Valid(o), NEW c, NEW st, Holds(o, c, st), NEW index \in Index,
         NEW a \in Input, index[a] \notin st
  PROVE  read8(o, index)[a] = c[index[a]][a]
<1> DEFINE f == flushRangeForRead(o)
           i == index[a]
<1>0. i \in Offset \ st
  BY DEF Index
<1>1. CASE ~IsConstant(index)
  <2>1. Valid(f) /\ Holds(f, c, st) /\ \A j \in Offset : ~f.unflushed[j]
    BY FlushRead, Zenon
  <2> DEFINE p == getUpdates(f)
  <2>2. read8(o, index) = ReadExpr(p, index)
    BY <1>1, Zenon DEF read8
  <2> HIDE DEF f
  <2>3. p.root # NoExpr /\ Latest(p.root, p.updates, i, a) = Latest(f.root, f.updates, i, a)
    BY <1>0, <2>1, UpdatesKeep, Zenon
  <2> HIDE DEF p
  <2>4. ReadExpr(p, index)[a] = Latest(p.root, p.updates, i, a)
    BY <2>3, ReadExprIs, Zenon
  <2>5. Latest(f.root, f.updates, i, a) = c[i][a]
    BY <1>0, <2>1, Zenon DEF Holds
  <2> QED BY <2>2, <2>3, <2>4, <2>5, Zenon
<1>2. CASE IsConstant(index)
  <2>1. ValueOf(index) = i
    BY <1>2, ValueOfIs, Zenon
  <2>2. CASE Cached(o, i) # NoExpr
    <3>1. read8(o, index) = Cached(o, i)
      BY <1>2, <2>1, <2>2, Zenon DEF read8
    <3> QED BY <1>0, <2>2, <3>1, Zenon DEF Holds
  <2>3. CASE Cached(o, i) = NoExpr
    <3> DEFINE p == getUpdates(o)
    <3>1. read8(o, index) = ReadExpr(p, index)
      BY <1>2, <2>1, <2>3, Zenon DEF read8
    <3>2. p.root # NoExpr /\ Latest(p.root, p.updates, i, a) = Latest(o.root, o.updates, i, a)
      BY <1>0, UpdatesKeep, Zenon
    <3> HIDE DEF p
    <3>3. ReadExpr(p, index)[a] = Latest(p.root, p.updates, i, a)
      BY <3>2, ReadExprIs, Zenon
    <3>4. ~o.unflushed[i]
      <4>1. IsObject(o) /\ i \in Offset
        BY <1>0, Zenon DEF Valid
      <4>2. ~o.concrete[i] /\ o.known[i] = NoExpr
        BY <2>3, <4>1, CachedIs, ExprIsSome, Zenon
      <4> QED BY <4>1, <4>2, ZenonT(40) DEF Valid, CachesAgree
    <3>5. Latest(o.root, o.updates, i, a) = c[i][a]
      BY <1>0, <3>4, Zenon DEF Holds
    <3> QED BY <3>1, <3>2, <3>3, <3>5, Zenon
  <2> QED BY <2>2, <2>3, Zenon
<1> QED BY <1>1, <1>2, Zenon

\* The bytes after a store of one byte.
Stored(c, index, value) ==
  [i \in Offset |-> [a \in Input |-> IF index[a] = i THEN value[a] ELSE c[i][a]]]

\* write8 leaves those bytes.
LEMMA WriteByteHolds ==
  ASSUME NEW o, Valid(o), NEW c, NEW st, Holds(o, c, st), NEW index \in Index, NEW value \in Expr
  PROVE  /\ Valid(write8(o, index, value))
         /\ Holds(write8(o, index, value), Stored(c, index, value),
                  IF IsConstant(index) THEN st \ {ValueOf(index)} ELSE st)
<1> DEFINE r == write8(o, index, value)
           i0 == ValueOf(index)
           d == Stored(c, index, value)
<1>0. IsObject(o) /\ CachesAgree(o)
  BY Zenon DEF Valid
<1>d. \A i \in Offset, a \in Input : d[i][a] = IF index[a] = i THEN value[a] ELSE c[i][a]
  BY Zenon DEF Stored
<1> HIDE DEF d
<1>1. CASE ~IsConstant(index)
  <2> DEFINE p == flushRangeForWrite(o)
             u == [index |-> index, value |-> value]
  <2>1. /\ IsObject(p) /\ Holds(p, c, st)
        /\ \A i \in Offset : ~p.unflushed[i] /\ ~p.concrete[i] /\ p.known[i] = NoExpr
    BY FlushWrite, Zenon
  <2>2. r = [p EXCEPT !.updates = Append(@, u)]
    BY <1>1, Zenon DEF write8
  <2>3. u \in Update /\ p.updates \in Seq(Update)
    BY <2>1, Zenon DEF Update, IsObject
  <2> HIDE DEF p, r
  <2>4. /\ u.index = index /\ u.value = value
    OBVIOUS
  <2> HIDE DEF u
  <2>5. Append(p.updates, u) \in Seq(Update) /\ Append(p.updates, u) = p.updates \o <<u>>
        /\ <<u>> \in Seq(Update) /\ DOMAIN <<u>> = {1} /\ <<u>>[1] = u
        /\ Len(Append(p.updates, u)) > 0
    BY <2>3
  <2> DEFINE all == Append(p.updates, u)
  <2>6. r = [p EXCEPT !.updates = all]
    BY <2>2, Zenon
  <2> HIDE DEF all
  <2>7. /\ r.root = p.root /\ r.updates = all /\ r.unflushed = p.unflushed
        /\ r.concrete = p.concrete /\ r.known = p.known /\ IsObject(r)
    BY <2>1, <2>5, <2>6, Zenon DEF IsObject, all
  <2>8. \A i \in Offset : Cached(r, i) = NoExpr /\ ~r.unflushed[i]
    BY <2>1, <2>7, Zenon DEF Cached
  <2>9. CachesAgree(r)
    BY <2>1, <2>5, <2>7, <2>8, ZenonT(40) DEF CachesAgree, all
  <2>10. ASSUME NEW i \in Offset \ st, NEW a \in Input
         PROVE  Latest(r.root, r.updates, i, a) = d[i][a]
    <3>1. Latest(p.root, p.updates, i, a) = c[i][a]
      BY <2>1, Zenon DEF Holds
    <3>2. CASE index[a] = i
      <4> DEFINE w == <<u>>
      <4>1. w \in Seq(Update) /\ 1 \in DOMAIN w /\ w[1].index[a] = i /\ w[1].value[a] = value[a]
            /\ \A k \in DOMAIN w : w[k].value[a] = w[1].value[a]
        BY <2>4, <2>5, <3>2, ZenonT(40)
      <4> HIDE DEF w
      <4>2. Latest(p.root, p.updates \o w, i, a) = w[1].value[a]
        BY <2>3, <4>1, LatestNew
      <4>3. Latest(r.root, r.updates, i, a) = value[a]
        BY <2>5, <2>7, <4>1, <4>2, Zenon DEF all, w
      <4> QED BY <1>d, <3>2, <4>3, ZenonT(40)
    <3>3. CASE index[a] # i
      <4> DEFINE w == <<u>>
      <4>1. w \in Seq(Update) /\ \A k \in DOMAIN w : w[k].index[a] # i
        BY <2>4, <2>5, <3>3, Zenon
      <4> HIDE DEF w
      <4>2. Latest(p.root, p.updates \o w, i, a) = Latest(p.root, p.updates, i, a)
        BY <2>3, <4>1, LatestSame
      <4>3. Latest(r.root, r.updates, i, a) = c[i][a]
        BY <2>5, <2>7, <3>1, <4>2, Zenon DEF all, w
      <4> QED BY <1>d, <3>3, <4>3, Zenon
    <3> QED BY <3>2, <3>3, Zenon
  <2>11. Holds(r, d, st)
    BY <2>8, <2>10, Zenon DEF Holds
  <2> QED BY <1>1, <2>7, <2>9, <2>11, Zenon DEF Valid, r, d
<1>2. CASE IsConstant(index)
  <2>1. i0 \in Offset /\ \A a \in Input : index[a] = i0
    <3>1. \A a \in Input : index[a] = i0
      BY <1>2, ValueOfIs, Zenon
    <3>2. PICK a \in Input : TRUE
      BY SizesAssumption, Zenon
    <3> QED BY <3>1, <3>2, Zenon DEF Index
  <2> DEFINE st2 == st \ {i0}
  <2>2. SUFFICES /\ IsObject(r) /\ CachesAgree(r)
                 /\ Cached(r, i0) = value /\ r.unflushed[i0]
                 /\ r.root = o.root /\ r.updates = o.updates
                 /\ \A i \in Offset \ {i0} : Cached(r, i) = Cached(o, i) /\ r.unflushed[i] = o.unflushed[i]
    <3>1. ASSUME NEW i \in Offset \ st2, NEW a \in Input
          PROVE  /\ Cached(r, i) # NoExpr => Cached(r, i)[a] = d[i][a]
                 /\ ~r.unflushed[i] => Latest(r.root, r.updates, i, a) = d[i][a]
      <4>1. CASE i = i0
        <5>1. d[i][a] = value[a]
          BY <1>d, <2>1, <4>1, ZenonT(40)
        <5> QED BY <2>2, <4>1, <5>1, Zenon
      <4>2. CASE i # i0
        <5>1. d[i][a] = c[i][a] /\ i \in Offset \ st
          <6>1. index[a] # i
            BY <2>1, <4>2, Zenon
          <6> QED BY <1>d, <4>2, <6>1, Zenon
        <5> QED BY <2>2, <4>2, <5>1, Zenon DEF Holds
      <4> QED BY <4>1, <4>2, Zenon
    <3>2. Holds(r, d, st2)
      BY <3>1, Zenon DEF Holds
    <3> QED BY <1>2, <2>2, <3>2, Zenon DEF Valid, d
  <2> HIDE DEF i0
  <2>3. CASE IsConstant(value)
    <3> DEFINE v == ValueOf(value)
    <3>1. r = [o EXCEPT !.store[i0] = v, !.known[i0] = NoExpr, !.concrete[i0] = TRUE, !.unflushed[i0] = TRUE]
      BY <1>2, <2>3, Zenon DEF write8, i0
    <3>2. v \in Byte /\ value = Constant(v)
      <4>1. \A a \in Input : value[a] = v
        BY <2>3, ValueOfIs, Zenon
      <4>2. PICK b \in Input : TRUE
        BY SizesAssumption, Zenon
      <4>3. value = [a \in Input |-> value[a]] /\ v \in Byte
        BY <4>1, <4>2, Zenon DEF Expr
      <4> QED BY <4>1, <4>3, Zenon DEF Constant
    <3> HIDE DEF r, v
    <3>3. /\ IsObject(r) /\ r.root = o.root /\ r.updates = o.updates
          /\ r.store = [o.store EXCEPT ![i0] = v] /\ r.known = [o.known EXCEPT ![i0] = NoExpr]
          /\ r.concrete = [o.concrete EXCEPT ![i0] = TRUE] /\ r.unflushed = [o.unflushed EXCEPT ![i0] = TRUE]
      BY <1>0, <2>1, <3>1, <3>2, Zenon DEF IsObject
    <3>4. /\ r.store[i0] = v /\ r.known[i0] = NoExpr /\ r.concrete[i0] /\ r.unflushed[i0]
          /\ \A i \in Offset \ {i0} : /\ r.store[i] = o.store[i] /\ r.known[i] = o.known[i]
                                      /\ r.concrete[i] = o.concrete[i] /\ r.unflushed[i] = o.unflushed[i]
      BY <1>0, <2>1, <3>3 DEF IsObject
    <3>5. Cached(r, i0) = value /\ \A i \in Offset \ {i0} : Cached(r, i) = Cached(o, i)
      BY <3>2, <3>4, Zenon DEF Cached
    <3>6. CachesAgree(r)
      BY <1>0, <2>1, <3>3, <3>4, <3>5, ExprIsSome, SMTT(30) DEF CachesAgree
    <3> QED BY <3>3, <3>4, <3>5, <3>6, Zenon
  <2>4. CASE ~IsConstant(value)
    <3>1. r = [o EXCEPT !.known[i0] = value, !.concrete[i0] = FALSE, !.unflushed[i0] = TRUE]
      BY <1>2, <2>4, Zenon DEF write8, i0
    <3> HIDE DEF r
    <3>3. /\ IsObject(r) /\ r.root = o.root /\ r.updates = o.updates /\ r.store = o.store
          /\ r.known = [o.known EXCEPT ![i0] = value]
          /\ r.concrete = [o.concrete EXCEPT ![i0] = FALSE] /\ r.unflushed = [o.unflushed EXCEPT ![i0] = TRUE]
      BY <1>0, <2>1, <3>1, Zenon DEF IsObject
    <3>4. /\ r.known[i0] = value /\ ~r.concrete[i0] /\ r.unflushed[i0]
          /\ \A i \in Offset \ {i0} : /\ r.store[i] = o.store[i] /\ r.known[i] = o.known[i]
                                      /\ r.concrete[i] = o.concrete[i] /\ r.unflushed[i] = o.unflushed[i]
      BY <1>0, <2>1, <3>3, SMTT(30) DEF IsObject
    <3>5. Cached(r, i0) = value /\ \A i \in Offset \ {i0} : Cached(r, i) = Cached(o, i)
      BY <3>4, Zenon DEF Cached
    <3>6. CachesAgree(r)
      BY <1>0, <2>1, <3>3, <3>4, <3>5, ExprIsSome DEF CachesAgree
    <3> QED BY <3>3, <3>4, <3>5, <3>6, Zenon
  <2> QED BY <2>3, <2>4, Zenon
<1> QED BY <1>1, <1>2, Zenon

\* The offset of the k-th byte of a value.
ByteAt(index, k) == [a \in Input |-> index[a] + k - 1]

\* The object states that write goes through.
Writes(f, o, index, bytes) ==
  f = [k \in 0 .. Len(bytes) |-> IF k = 0 THEN o ELSE write8(f[k - 1], ByteAt(index, k), bytes[k])]

\* write is the last of them.
LEMMA WriteIs ==
  ASSUME NEW o, NEW index, NEW bytes, Len(bytes) \in Nat
  PROVE  \E f : Writes(f, o, index, bytes) /\ write(o, index, bytes) = f[Len(bytes)]
<1> DEFINE Step(f, n) == /\ f = [k \in 0 .. n |-> f[k]] /\ f[0] = o
                         /\ \A k \in 1 .. n : f[k] = write8(f[k - 1], ByteAt(index, k), bytes[k])
           Have == {n \in Nat : \E f : Step(f, n)}
<1>1. 0 \in Have
  <2> DEFINE f == [k \in 0 .. 0 |-> o]
  <2>1. Step(f, 0)
    OBVIOUS
  <2> HIDE DEF Step
  <2> QED BY <2>1, Zenon
<1>2. ASSUME NEW n \in Nat, n \in Have PROVE n + 1 \in Have
  <2>1. PICK f : Step(f, n)
    BY <1>2, Zenon
  <2> DEFINE v == write8(f[n], ByteAt(index, n + 1), bytes[n + 1])
             g == [k \in 0 .. n + 1 |-> IF k = n + 1 THEN v ELSE f[k]]
  <2>2. /\ g[n + 1] = v /\ g[0] = f[0] /\ \A k \in 0 .. n : g[k] = f[k]
    BY SMT
  <2>3. g = [k \in 0 .. n + 1 |-> g[k]]
    BY Zenon
  <2> HIDE DEF g
  <2>4. ASSUME NEW k \in 1 .. n + 1 PROVE g[k] = write8(g[k - 1], ByteAt(index, k), bytes[k])
    <3>1. CASE k = n + 1
      <4>1. g[k - 1] = f[n] /\ k - 1 = n
        BY <2>2, <3>1
      <4> QED BY <2>2, <3>1, <4>1, Zenon
    <3>2. CASE k # n + 1
      <4>1. k \in 1 .. n /\ k \in 0 .. n /\ k - 1 \in 0 .. n
        BY <3>2
      <4>2. g[k] = f[k] /\ g[k - 1] = f[k - 1]
        BY <2>2, <4>1, Zenon
      <4> QED BY <2>1, <4>1, <4>2, Zenon
    <3> QED BY <3>1, <3>2, Zenon
  <2>5. Step(g, n + 1)
    BY <2>1, <2>2, <2>3, <2>4, Zenon
  <2> HIDE DEF Step
  <2> QED BY <2>5
<1>3. PICK f : Step(f, Len(bytes))
  <2>1. Len(bytes) \in Have
    <3> HIDE DEF Have
    <3> QED BY <1>1, <1>2, SetInduction, Zenon
  <2> QED BY <2>1, Zenon
<1>4. Writes(f, o, index, bytes)
  <2>1. \A k \in 0 .. Len(bytes) :
          f[k] = IF k = 0 THEN o ELSE write8(f[k - 1], ByteAt(index, k), bytes[k])
    BY <1>3
  <2> QED BY <1>3, <2>1, Zenon DEF Writes
<1> DEFINE w == CHOOSE g : Writes(g, o, index, bytes)
<1>5. Writes(w, o, index, bytes)
  BY <1>4, Zenon
<1>6. write(o, index, bytes) = w[Len(bytes)]
  BY Zenon DEF write, Writes, ByteAt
<1> QED BY <1>5, <1>6, Zenon

\* The bytes after a store of a value, and the offsets that are still stale.
StoredAll(c, index, bytes, n) ==
  [i \in Offset |-> [a \in Input |->
     IF \E k \in 1 .. n : index[a] + k - 1 = i THEN bytes[i - index[a] + 1][a] ELSE c[i][a]]]
StaleAfter(st, index, n) ==
  IF IsConstant(index) THEN st \ {ValueOf(index) + k - 1 : k \in 1 .. n} ELSE st

\* One byte more.
LEMMA StoredOneMore ==
  ASSUME NEW c, NEW index \in Index, NEW bytes \in Seq(Expr), NEW n \in 1 .. Len(bytes), NEW st,
         NEW o, Holds(o, Stored(StoredAll(c, index, bytes, n - 1), ByteAt(index, n), bytes[n]),
                      IF IsConstant(ByteAt(index, n))
                        THEN StaleAfter(st, index, n - 1) \ {ValueOf(ByteAt(index, n))}
                        ELSE StaleAfter(st, index, n - 1))
  PROVE  Holds(o, StoredAll(c, index, bytes, n), StaleAfter(st, index, n))
<1> DEFINE d == StoredAll(c, index, bytes, n - 1)
           e == Stored(d, ByteAt(index, n), bytes[n])
           g == StoredAll(c, index, bytes, n)
<1>0. n \in Nat /\ n >= 1 /\ \A a \in Input : index[a] \in Nat
  BY SizesAssumption DEF Index, Offset
<1>1. \A a \in Input : ByteAt(index, n)[a] = index[a] + n - 1
  BY Zenon DEF ByteAt
<1>2. IsConstant(ByteAt(index, n)) <=> IsConstant(index)
  BY <1>0, <1>1, SMTT(30) DEF IsConstant
<1>3. ValueOf(ByteAt(index, n)) = ValueOf(index) + n - 1
  <2> DEFINE b == CHOOSE a \in Input : TRUE
  <2>1. b \in Input
    BY SizesAssumption, Zenon
  <2>2. ValueOf(index) = index[b] /\ ValueOf(ByteAt(index, n)) = ByteAt(index, n)[b]
    BY Zenon DEF ValueOf
  <2> HIDE DEF b
  <2> QED BY <1>1, <2>1, <2>2, Zenon
<1>4. ASSUME NEW i \in Offset, NEW a \in Input PROVE e[i][a] = g[i][a]
  <2> DEFINE j == index[a]
  <2>1. j \in Nat /\ i \in Nat
    BY <1>0, SizesAssumption, SMTT(30) DEF Offset
  <2>2. e[i][a] = IF j + n - 1 = i THEN bytes[n][a] ELSE d[i][a]
    BY <1>1, ZenonT(40) DEF Stored
  <2>3. d[i][a] = IF \E k \in 1 .. n - 1 : j + k - 1 = i THEN bytes[i - j + 1][a] ELSE c[i][a]
    BY Zenon DEF StoredAll
  <2>4. g[i][a] = IF \E k \in 1 .. n : j + k - 1 = i THEN bytes[i - j + 1][a] ELSE c[i][a]
    BY Zenon DEF StoredAll
  <2> HIDE DEF j, d, e, g
  <2>5. CASE j + n - 1 = i
    <3>1. i - j + 1 = n /\ \E k \in 1 .. n : j + k - 1 = i
      BY <1>0, <2>1, <2>5, SMTT(30)
    <3> QED BY <2>2, <2>4, <2>5, <3>1, ZenonT(40)
  <2>6. CASE j + n - 1 # i
    <3>1. (\E k \in 1 .. n : j + k - 1 = i) <=> (\E k \in 1 .. n - 1 : j + k - 1 = i)
      BY <1>0, <2>1, <2>6, SMTT(30)
    <3> QED BY <2>2, <2>3, <2>4, <2>6, <3>1, ZenonT(40)
  <2> QED BY <2>5, <2>6, Zenon
<1> DEFINE old == StaleAfter(st, index, n - 1)
           rest == IF IsConstant(ByteAt(index, n)) THEN old \ {ValueOf(ByteAt(index, n))} ELSE old
<1>5. rest \subseteq StaleAfter(st, index, n)
  <2>1. CASE IsConstant(index)
    <3>1. \A k \in 1 .. n : k = n \/ k \in 1 .. n - 1
      BY <1>0
    <3>2. /\ old = st \ {ValueOf(index) + k - 1 : k \in 1 .. n - 1}
          /\ rest = old \ {ValueOf(index) + n - 1}
          /\ StaleAfter(st, index, n) = st \ {ValueOf(index) + k - 1 : k \in 1 .. n}
      BY <1>2, <1>3, <2>1, Zenon DEF StaleAfter
    <3> HIDE DEF old, rest
    <3> QED BY <3>1, <3>2, Zenon
  <2>2. CASE ~IsConstant(index)
    BY <1>2, <2>2, Zenon DEF StaleAfter
  <2> QED BY <2>1, <2>2, Zenon
<1>6. Holds(o, e, rest)
  BY Zenon
<1> HIDE DEF e, g, rest
<1>7. Holds(o, g, StaleAfter(st, index, n))
  BY <1>4, <1>5, <1>6, ZenonT(40) DEF Holds
<1> QED BY <1>7, Zenon DEF g

\* write leaves the bytes of the value, at whatever offset, in an object state that held c.
LEMMA WriteHolds ==
  ASSUME NEW o, Valid(o), NEW c, NEW st, Holds(o, c, st), NEW index \in Index,
         NEW bytes \in Seq(Expr), \A a \in Input : index[a] < Size - Len(bytes) + 1
  PROVE  /\ Valid(write(o, index, bytes))
         /\ Holds(write(o, index, bytes), StoredAll(c, index, bytes, Len(bytes)),
                  StaleAfter(st, index, Len(bytes)))
<1>0. Len(bytes) \in Nat
  OBVIOUS
<1>1. PICK f : Writes(f, o, index, bytes) /\ write(o, index, bytes) = f[Len(bytes)]
  BY <1>0, WriteIs
<1>2. f[0] = o /\ \A k \in 1 .. Len(bytes) : f[k] = write8(f[k - 1], ByteAt(index, k), bytes[k])
  BY <1>0, <1>1 DEF Writes
<1> DEFINE Good(n) == Valid(f[n]) /\ Holds(f[n], StoredAll(c, index, bytes, n), StaleAfter(st, index, n))
           Have == {n \in Nat : n <= Len(bytes) => Good(n)}
<1>3. 0 \in Have
  <2>1. \A i \in Offset, a \in Input : StoredAll(c, index, bytes, 0)[i][a] = c[i][a]
    BY DEF StoredAll
  <2>2. st \subseteq StaleAfter(st, index, 0)
    BY DEF StaleAfter
  <2>3. Holds(o, StoredAll(c, index, bytes, 0), StaleAfter(st, index, 0))
    BY <2>1, <2>2, Zenon DEF Holds
  <2> QED BY <1>2, <2>3
<1>4. ASSUME NEW n \in Nat, n \in Have PROVE n + 1 \in Have
  <2> SUFFICES ASSUME n + 1 <= Len(bytes) PROVE Good(n + 1)
    <3>1. n + 1 \in Nat
      OBVIOUS
    <3> HIDE DEF Good
    <3> QED BY <3>1
  <2> DEFINE m == n + 1
             p == f[n]
             d == StoredAll(c, index, bytes, n)
             old == StaleAfter(st, index, n)
  <2>1. m \in 1 .. Len(bytes) /\ m - 1 = n /\ bytes[m] \in Expr
    BY <1>0
  <2>2. Valid(p) /\ Holds(p, d, old)
    BY <1>0, <1>4
  <2>3. ByteAt(index, m) \in Index
    BY <1>0, <2>1, SizesAssumption DEF ByteAt, Index, Offset
  <2>4. f[m] = write8(p, ByteAt(index, m), bytes[m])
    BY <1>2, <2>1, Zenon
  <2> HIDE DEF p, d, old
  <2>5. /\ Valid(f[m])
        /\ Holds(f[m], Stored(d, ByteAt(index, m), bytes[m]),
                 IF IsConstant(ByteAt(index, m)) THEN old \ {ValueOf(ByteAt(index, m))} ELSE old)
    <3> DEFINE x == ByteAt(index, m)
               b == bytes[m]
               r == write8(p, x, b)
    <3>1. x \in Index /\ b \in Expr
      BY <2>1, <2>3, Zenon
    <3> HIDE DEF x, b
    <3>2. /\ Valid(r)
          /\ Holds(r, Stored(d, x, b), IF IsConstant(x) THEN old \ {ValueOf(x)} ELSE old)
      BY <2>2, <3>1, WriteByteHolds, Zenon
    <3> HIDE DEF r
    <3>3. f[m] = r
      BY <2>4, Zenon DEF r, x, b
    <3> QED BY <3>2, <3>3, Zenon DEF x, b
  <2> HIDE DEF m
  <2>6. d = StoredAll(c, index, bytes, m - 1) /\ old = StaleAfter(st, index, m - 1)
    BY <2>1, Zenon DEF d, old
  <2>7. Holds(f[m], StoredAll(c, index, bytes, m), StaleAfter(st, index, m))
    BY <2>1, <2>5, <2>6, StoredOneMore, Zenon
  <2> QED BY <2>5, <2>7, Zenon DEF m
<1>5. Len(bytes) \in Have
  <2> HIDE DEF Have
  <2> QED BY <1>0, <1>3, <1>4, SetInduction, ZenonT(40)
<1> QED BY <1>0, <1>1, <1>5

\* flushToConcreteStore changes no byte a read gives.
LEMMA ToConcreteKeeps ==
  ASSUME NEW o, Valid(o), NEW solution \in Input
  PROVE  /\ Valid(flushToConcreteStore(o, solution))
         /\ \A c, st : Holds(o, c, st) => Holds(flushToConcreteStore(o, solution), c, st)
         /\ flushToConcreteStore(o, solution).store \in [Offset -> Byte]
<1> DEFINE r == flushToConcreteStore(o, solution)
           bytes == [i \in Offset |-> IF o.known[i] # NoExpr THEN o.known[i][solution] ELSE o.store[i]]
<1>0. IsObject(o) /\ CachesAgree(o)
  BY DEF Valid
<1>1. r = [o EXCEPT !.store = bytes]
  BY Zenon DEF flushToConcreteStore
<1>2. bytes \in [Offset -> Byte]
  <2>1. ASSUME NEW i \in Offset PROVE bytes[i] \in Byte
    <3>1. o.known[i] \in Expr \cup {NoExpr} /\ o.store[i] \in Byte
      BY <1>0, Zenon DEF IsObject
    <3> QED BY <3>1, Zenon DEF Expr
  <2> QED BY <2>1, Zenon
<1>3. \A i \in Offset : o.known[i] = NoExpr => bytes[i] = o.store[i]
  OBVIOUS
<1> HIDE DEF r, bytes
<1>4. /\ r.store = bytes /\ r.concrete = o.concrete /\ r.known = o.known /\ r.unflushed = o.unflushed
      /\ r.root = o.root /\ r.updates = o.updates /\ IsObject(r)
  BY <1>0, <1>1, <1>2, ZenonT(40) DEF IsObject
<1>5. ASSUME NEW i \in Offset PROVE Cached(r, i) = Cached(o, i)
  <2>1. o.concrete[i] => bytes[i] = o.store[i]
    BY <1>0, <1>3, ZenonT(40) DEF CachesAgree
  <2> QED BY <1>4, <2>1, ZenonT(40) DEF Cached
<1>6. CachesAgree(r)
  BY <1>0, <1>4, <1>5, SMTT(30) DEF CachesAgree
<1>7. ASSUME NEW c, NEW st, Holds(o, c, st) PROVE Holds(r, c, st)
  BY <1>4, <1>5, <1>7, ZenonT(40) DEF Holds
<1> QED BY <1>2, <1>4, <1>6, <1>7, Zenon DEF Valid, r

\* The bytes after copyInConcrete, and those it changes behind the update list.
CopiedBytes(o, c, bytes) == [i \in Offset |-> IF o.concrete[i] THEN Constant(bytes[i]) ELSE c[i]]
HiddenBytes(o, bytes) ==
  {i \in Offset : o.concrete[i] /\ ~o.unflushed[i] /\ bytes[i] # o.store[i]}

\* What copyInConcrete leaves: the concrete bytes have the new values, and those that were
\* flushed before and changed are stale.
LEMMA CopyInHolds ==
  ASSUME NEW o, Valid(o), NEW c, NEW st, Holds(o, c, st), NEW bytes \in [Offset -> Byte]
  PROVE  /\ Valid([o EXCEPT !.store = bytes])
         /\ Holds([o EXCEPT !.store = bytes], CopiedBytes(o, c, bytes), st \cup HiddenBytes(o, bytes))
<1> DEFINE r == [o EXCEPT !.store = bytes]
           d == [i \in Offset |-> IF o.concrete[i] THEN Constant(bytes[i]) ELSE c[i]]
           hidden == {i \in Offset : o.concrete[i] /\ ~o.unflushed[i] /\ bytes[i] # o.store[i]}
<1>0. IsObject(o) /\ CachesAgree(o)
  BY Zenon DEF Valid
<1>1. /\ r.store = bytes /\ r.concrete = o.concrete /\ r.known = o.known /\ r.unflushed = o.unflushed
      /\ r.root = o.root /\ r.updates = o.updates /\ IsObject(r)
  BY <1>0, ZenonT(40) DEF IsObject
<1> HIDE DEF r
<1>2. ASSUME NEW i \in Offset
      PROVE  /\ ~o.concrete[i] => Cached(r, i) = Cached(o, i)
             /\ o.concrete[i] => Cached(r, i) = Constant(bytes[i]) /\ Cached(r, i) # NoExpr
                                 /\ Cached(o, i) # NoExpr /\ Cached(o, i) = Constant(o.store[i])
  <2>1. ~o.concrete[i] => Cached(r, i) = r.known[i] /\ Cached(o, i) = o.known[i]
    <3>1. ~o.concrete[i] => Cached(o, i) = o.known[i]
      BY <1>0, CachedIs, Zenon
    <3>2. ~r.concrete[i] => Cached(r, i) = r.known[i]
      BY <1>1, CachedIs, Zenon
    <3> QED BY <1>1, <3>1, <3>2, Zenon
  <2>2. o.concrete[i] => Cached(r, i) = Constant(r.store[i]) /\ Cached(r, i) \in Expr
    BY <1>1, CachedIs, ZenonT(40)
  <2>3. o.concrete[i] => Cached(o, i) = Constant(o.store[i]) /\ Cached(o, i) \in Expr
    BY <1>0, CachedIs, Zenon
  <2> QED BY <1>1, <2>1, <2>2, <2>3, ExprIsSome
<1>3. CachesAgree(r)
  BY <1>0, <1>1, <1>2, ZenonT(40) DEF CachesAgree
<1>4. ASSUME NEW i \in Offset, i \notin st \cup hidden, NEW a \in Input
      PROVE  /\ Cached(r, i) # NoExpr => Cached(r, i)[a] = d[i][a]
             /\ ~r.unflushed[i] => Latest(r.root, r.updates, i, a) = d[i][a]
  <2>1. CASE ~o.concrete[i]
    <3>1. d[i] = c[i]
      BY <2>1, Zenon
    <3> QED BY <1>1, <1>2, <1>4, <2>1, <3>1, SMTT(30) DEF Holds
  <2>2. CASE o.concrete[i]
    <3>1. d[i] = Constant(bytes[i])
      BY <2>2, Zenon
    <3>2. Cached(r, i)[a] = d[i][a] /\ d[i][a] = bytes[i]
      BY <1>2, <2>2, <3>1, ConstantIs, Zenon
    <3>3. ASSUME ~o.unflushed[i] PROVE Latest(o.root, o.updates, i, a) = bytes[i]
      <4>1. bytes[i] = o.store[i]
        BY <1>4, <2>2, <3>3, Zenon
      <4>2. Cached(o, i)[a] = o.store[i] /\ Cached(o, i)[a] = c[i][a]
        BY <1>2, <1>4, <2>2, ConstantIs, SMTT(30) DEF Holds
      <4>3. Latest(o.root, o.updates, i, a) = c[i][a]
        BY <1>4, <3>3, Zenon DEF Holds
      <4> QED BY <4>1, <4>2, <4>3, ZenonT(40)
    <3> QED BY <1>1, <3>2, <3>3, Zenon
  <2> QED BY <2>1, <2>2, ZenonT(40)
<1> HIDE DEF d, hidden
<1>5. Holds(r, d, st \cup hidden)
  BY <1>4, Zenon DEF Holds
<1> QED BY <1>1, <1>3, <1>5, Zenon DEF Valid, r, d, hidden, CopiedBytes, HiddenBytes

\* New object states: of a value, and of an array.
LEMMA NewHolds ==
  ASSUME NEW v \in Byte
  PROVE  Valid(NewObject(v)) /\ Holds(NewObject(v), Blank(v), {})
<1> DEFINE o == NewObject(v)
<1>1. /\ o.store = [i \in Offset |-> v] /\ o.concrete = [i \in Offset |-> TRUE]
      /\ o.known = [i \in Offset |-> NoExpr] /\ o.unflushed = [i \in Offset |-> TRUE]
      /\ o.root = NoExpr /\ o.updates = << >>
  BY Zenon DEF NewObject
<1>2. IsObject(o)
  <2>1. << >> \in Seq(Update)
    OBVIOUS
  <2> QED BY <2>1, Zenon DEF NewObject, IsObject
<1> HIDE DEF o
<1>3. \A i \in Offset : Cached(o, i) = Constant(v) /\ o.concrete[i] /\ o.unflushed[i] /\ o.known[i] = NoExpr
  BY <1>1 DEF Cached
<1>4. Constant(v) # NoExpr
  BY ConstantIs, ExprIsSome, Zenon
<1>5. CachesAgree(o)
  BY <1>3, <1>4, Zenon DEF CachesAgree
<1>6. \A i \in Offset : Blank(v)[i] = Constant(v)
  BY Zenon DEF Blank
<1>7. Holds(o, Blank(v), {})
  BY <1>3, <1>6, Zenon DEF Holds
<1> QED BY <1>2, <1>5, <1>7, Zenon DEF o, Valid

\* A symbolic object holds the bytes of its array.
LEMMA SymbolicHolds == Valid(NewSymbolic(Array)) /\ Holds(NewSymbolic(Array), Array, {})
<1> DEFINE n == NewObject(0)
           o == NewSymbolic(Array)
<1>1. IsObject(n) /\ n.known = [i \in Offset |-> NoExpr] /\ n.updates = << >>
  BY SizesAssumption, NewHolds, Zenon DEF Valid, NewObject
<1>2. o = [n EXCEPT !.concrete = [i \in Offset |-> FALSE], !.unflushed = [i \in Offset |-> FALSE],
                    !.root = Array]
  BY Zenon DEF NewSymbolic
<1>3. Array \in [Offset -> Expr]
  BY MemoryAssumption, Zenon
<1> HIDE DEF n, o
<1>4. /\ IsObject(o) /\ o.concrete = [i \in Offset |-> FALSE] /\ o.unflushed = [i \in Offset |-> FALSE]
      /\ o.root = Array /\ o.known = [i \in Offset |-> NoExpr] /\ o.updates = << >>
  BY <1>1, <1>2, <1>3, Zenon DEF IsObject
<1>5. Array # NoExpr
  BY <1>3, ExprIsSome, Zenon
<1>6. \A i \in Offset : Cached(o, i) = NoExpr /\ ~o.concrete[i] /\ ~o.unflushed[i] /\ o.known[i] = NoExpr
  BY <1>4, ZenonT(40) DEF Cached
<1>7. CachesAgree(o)
  BY <1>4, <1>5, <1>6, Zenon DEF CachesAgree
<1>8. \A i \in Offset, a \in Input : Latest(o.root, o.updates, i, a) = Array[i][a]
  BY <1>4, <1>5, SMTT(30) DEF Latest, Hits
<1>9. Holds(o, Array, {})
  BY <1>6, <1>8, Zenon DEF Holds
<1> QED BY <1>4, <1>7, <1>9, Zenon DEF o, Valid

\* The stale offsets of an object.
StaleIn(st, m) == {i \in Offset : <<m, i>> \in st}

\* Each state holds, in the object states it refers to, the bytes its own writes left.
Keeps(objs, h, history, st) ==
  \A t \in Space, n \in MO : objs[t][n] # NULL =>
    Valid(h[objs[t][n]]) /\ Holds(h[objs[t][n]], history[t][n], StaleIn(st[t], n))
ContentInv ==
  /\ SharingInv
  /\ DOMAIN heap = Obj
  /\ mem \in [Space -> [MO -> [Offset -> Expr]]]
  /\ stale \in [Space -> SUBSET (MO \X Offset)]
  /\ Keeps(objects, heap, mem, stale)

\* The history of the bytes of m in s has changed, and no other.
Changed(s, m, c, st) ==
  /\ mem'[s][m] = c /\ StaleIn(stale'[s], m) = st
  /\ \A t \in Space, n \in MO : t # s \/ n # m =>
       mem'[t][n] = mem[t][n] /\ StaleIn(stale'[t], n) = StaleIn(stale[t], n)

\* What an address space refers to is referred to.
LEMMA ReferredTo ==
  ASSUME NEW objs, NEW t \in Space, NEW n \in MO, objs[t][n] # NULL
  PROVE  objs[t][n] \in Referenced(objs)
BY SMT DEF Referenced

\* A new object state for m in s: the others stay as they are.
LEMMA ReboundKeeps ==
  ASSUME SharingInv, NEW s \in Space, NEW m \in MO, Rebound(s, m), NEW h, DOMAIN h = Obj,
         Keeps(objects, h, mem, stale), NEW new, Valid(new), NEW c, NEW st, Holds(new, c, st),
         Changed(s, m, c, st), heap' = Collect([h EXCEPT ![Fresh] = new], objects')
  PROVE  Keeps(objects', heap', mem', stale')
<1> DEFINE f == Fresh
<1>1. f \in Obj /\ f # NULL /\ \A t \in Space, n \in MO : objects[t][n] # f
  BY FreshIsUnused, Zenon DEF Rebound
<1>2. /\ objects' = [objects EXCEPT ![s][m] = f]
      /\ heap' = Collect([h EXCEPT ![f] = new], objects')
      /\ objects \in [Space -> [MO -> Obj \cup {NULL}]]
  BY Zenon DEF Rebound, SharingInv
<1> HIDE DEF f
<1>3. \A t \in Space, n \in MO : objects'[t][n] = IF t = s /\ n = m THEN f ELSE objects[t][n]
  BY <1>2, Zenon
<1>4. ASSUME NEW t \in Space, NEW n \in MO, objects'[t][n] # NULL
      PROVE  /\ Valid(heap'[objects'[t][n]])
             /\ Holds(heap'[objects'[t][n]], mem'[t][n], StaleIn(stale'[t], n))
  <2>1. objects'[t][n] \in Obj /\ objects'[t][n] \in Referenced(objects')
    <3>1. objects'[t][n] \in Obj
      BY <1>1, <1>2, <1>3, <1>4, SMTT(30)
    <3> QED BY <1>4, <3>1, ReferredTo, Zenon
  <2>2. heap'[objects'[t][n]] = [h EXCEPT ![f] = new][objects'[t][n]]
    BY <1>2, <2>1, Zenon DEF Collect
  <2>3. CASE t = s /\ n = m
    <3>1. heap'[objects'[t][n]] = new
      BY <1>1, <1>3, <2>2, <2>3, Zenon
    <3> QED BY <2>3, <3>1, Zenon DEF Changed
  <2>4. CASE ~(t = s /\ n = m)
    <3>1. objects'[t][n] = objects[t][n] /\ objects[t][n] # f
      BY <1>1, <1>3, <2>4, Zenon
    <3>2. heap'[objects'[t][n]] = h[objects[t][n]]
      BY <2>1, <2>2, <3>1, Zenon
    <3>3. Valid(h[objects[t][n]]) /\ Holds(h[objects[t][n]], mem[t][n], StaleIn(stale[t], n))
      BY <1>4, <3>1, Zenon DEF Keeps
    <3>4. mem'[t][n] = mem[t][n] /\ StaleIn(stale'[t], n) = StaleIn(stale[t], n)
      BY <2>4, ZenonT(40) DEF Changed
    <3> QED BY <3>2, <3>3, <3>4, Zenon
  <2> QED BY <2>3, <2>4, ZenonT(40)
<1> QED BY <1>4, Zenon DEF Keeps

\* getWriteable, followed by the change: no other state or object sees it.
LEMMA WriteableKeeps ==
  ASSUME SharingInv, NEW s \in live, NEW m \in MO, objects[s][m] # NULL, NEW h, DOMAIN h = Obj,
         Keeps(objects, h, mem, stale), NEW new, Valid(new), NEW c, NEW st, Holds(new, c, st),
         Changed(s, m, c, st), Writeable(s, m, h, new), UNCHANGED <<live, cowKey>>
  PROVE  Keeps(objects', heap', mem', stale')
<1>0. s \in Space /\ objects[s][m] \in Obj
  BY DEF SharingInv
<1>1. CASE cowKey[s] = owner[objects[s][m]]
  <2> DEFINE o == objects[s][m]
  <2>1. heap' = [h EXCEPT ![o] = new] /\ objects' = objects
    BY <1>1, Zenon DEF Writeable
  <2>2. ASSUME NEW t \in Space, NEW n \in MO, objects[t][n] = o PROVE t = s /\ n = m
    <3>1. t \in live
      BY <2>2, Zenon DEF SharingInv, Unbound
    <3> QED BY <1>1, <2>2, <3>1, SMTT(30) DEF SharingInv, OwnedIsUnshared
  <2>3. ASSUME NEW t \in Space, NEW n \in MO, objects[t][n] # NULL
        PROVE  /\ Valid(heap'[objects[t][n]])
               /\ Holds(heap'[objects[t][n]], mem'[t][n], StaleIn(stale'[t], n))
    <3>1. CASE t = s /\ n = m
      <4>1. heap'[objects[t][n]] = new
        BY <1>0, <2>1, <3>1, Zenon
      <4> QED BY <3>1, <4>1, Zenon DEF Changed
    <3>2. CASE ~(t = s /\ n = m)
      <4>1. heap'[objects[t][n]] = h[objects[t][n]]
        BY <2>1, <2>2, <3>2, SMTT(30)
      <4>2. Valid(h[objects[t][n]]) /\ Holds(h[objects[t][n]], mem[t][n], StaleIn(stale[t], n))
        BY <2>3, Zenon DEF Keeps
      <4>3. mem'[t][n] = mem[t][n] /\ StaleIn(stale'[t], n) = StaleIn(stale[t], n)
        BY <3>2, Zenon DEF Changed
      <4> QED BY <4>1, <4>2, <4>3, Zenon
    <3> QED BY <3>1, <3>2, Zenon
  <2> QED BY <2>1, <2>3, Zenon DEF Keeps
<1>2. CASE cowKey[s] # owner[objects[s][m]]
  <2>1. Rebound(s, m) /\ heap' = Collect([h EXCEPT ![Fresh] = new], objects')
    BY <1>2, Zenon DEF Writeable, Rebound
  <2> QED BY <1>0, <2>1, ReboundKeeps, Zenon
<1> QED BY <1>1, <1>2, Zenon

\* The object states that are left are where they were.
LEMMA WriteableDomain ==
  ASSUME NEW s, NEW m, NEW h, DOMAIN h = Obj, NEW new, Writeable(s, m, h, new)
  PROVE  DOMAIN heap' = Obj
BY Zenon DEF Writeable, Collect

\* One object's history has changed.
LEMMA HistoryChanged ==
  ASSUME NEW s \in Space, NEW m \in MO, NEW c, mem'[s][m] = c,
         \A t \in Space, n \in MO : t # s \/ n # m => mem'[t][n] = mem[t][n],
         NEW new, stale'[s] = new, \A t \in Space : t # s => stale'[t] = stale[t],
         NEW st, StaleIn(new, m) = st,
         \A n \in MO \ {m} : StaleIn(new, n) = StaleIn(stale[s], n)
  PROVE  Changed(s, m, c, st)
<1>5. ASSUME NEW t \in Space, NEW n \in MO, t # s \/ n # m
      PROVE  StaleIn(stale'[t], n) = StaleIn(stale[t], n)
  BY <1>5, Zenon
<1> QED BY <1>5, Zenon DEF Changed

\* The copy constructor.
LEMMA ForkContents ==
  ASSUME ContentInv, NEW s \in Space, NEW t \in Space, ForkSpace(s, t)
  PROVE  ContentInv'
<1>1. SharingInv /\ SharingInv' /\ objects \in [Space -> [MO -> Obj \cup {NULL}]]
  BY ForkSharing, Zenon DEF ContentInv, SharingInv
<1>2. /\ objects' = [objects EXCEPT ![t] = objects[s]] /\ heap' = heap
      /\ mem' = [mem EXCEPT ![t] = mem[s]] /\ stale' = [stale EXCEPT ![t] = stale[s]]
  BY Zenon DEF ForkSpace
<1>3. /\ DOMAIN heap = Obj /\ mem \in [Space -> [MO -> [Offset -> Expr]]]
      /\ stale \in [Space -> SUBSET (MO \X Offset)] /\ Keeps(objects, heap, mem, stale)
  BY Zenon DEF ContentInv
<1>4. \A u \in Space : /\ objects'[u] = objects[IF u = t THEN s ELSE u]
                       /\ mem'[u] = mem[IF u = t THEN s ELSE u]
                       /\ stale'[u] = stale[IF u = t THEN s ELSE u]
  BY <1>1, <1>2, <1>3, Zenon
<1>5. Keeps(objects', heap', mem', stale')
  BY <1>2, <1>3, <1>4 DEF Keeps
<1>6. mem' \in [Space -> [MO -> [Offset -> Expr]]] /\ stale' \in [Space -> SUBSET (MO \X Offset)]
  BY <1>2, <1>3, Zenon
<1> QED BY <1>1, <1>2, <1>3, <1>5, <1>6, ZenonT(40) DEF ContentInv

\* References that are dropped.
LEMMA DroppedContents ==
  ASSUME ContentInv, SharingInv', heap' = Collect(heap, objects'),
         \A t \in Space, n \in MO : objects'[t][n] # NULL =>
           /\ objects'[t][n] = objects[t][n]
           /\ mem'[t][n] = mem[t][n] /\ StaleIn(stale'[t], n) = StaleIn(stale[t], n)
  PROVE  Keeps(objects', heap', mem', stale') /\ DOMAIN heap' = Obj
<1>1. objects' \in [Space -> [MO -> Obj \cup {NULL}]] /\ Keeps(objects, heap, mem, stale)
  BY Zenon DEF SharingInv, ContentInv
<1>2. DOMAIN heap' = Obj
  BY Zenon DEF Collect
<1>3. ASSUME NEW t \in Space, NEW n \in MO, objects'[t][n] # NULL
      PROVE  heap'[objects'[t][n]] = heap[objects[t][n]]
  <2>1. objects'[t][n] \in Obj /\ objects'[t][n] \in Referenced(objects')
    BY <1>1, <1>3, SMTT(30) DEF Referenced
  <2> QED BY <1>3, <2>1, Zenon DEF Collect
<1>4. Keeps(objects', heap', mem', stale')
  BY <1>1, <1>3, ZenonT(40) DEF Keeps
<1> QED BY <1>2, <1>4, Zenon

\* executeFree.
LEMMA FreeContents ==
  ASSUME ContentInv, SharingInv', NEW s \in Space, NEW m \in MO, FreeObject(s, m)
  PROVE  ContentInv'
<1>1. /\ objects' = [objects EXCEPT ![s][m] = NULL] /\ heap' = Collect(heap, objects')
      /\ mem' = [mem EXCEPT ![s][m] = Blank(0)]
      /\ stale' = [stale EXCEPT ![s] = @ \ ({m} \X Offset)]
  BY Zenon DEF FreeObject
<1>2. /\ mem \in [Space -> [MO -> [Offset -> Expr]]] /\ stale \in [Space -> SUBSET (MO \X Offset)]
      /\ objects \in [Space -> [MO -> Obj \cup {NULL}]]
  BY DEF ContentInv, SharingInv
<1>3. Blank(0) \in [Offset -> Expr]
  BY SizesAssumption, ConstantIs DEF Blank
<1>4. mem' \in [Space -> [MO -> [Offset -> Expr]]] /\ stale' \in [Space -> SUBSET (MO \X Offset)]
  BY <1>1, <1>2, <1>3, Zenon
<1>5. ASSUME NEW t \in Space, NEW n \in MO, objects'[t][n] # NULL
      PROVE  /\ objects'[t][n] = objects[t][n]
             /\ mem'[t][n] = mem[t][n] /\ StaleIn(stale'[t], n) = StaleIn(stale[t], n)
  <2>1. ~(t = s /\ n = m)
    BY <1>1, <1>2, <1>5, ZenonT(40)
  <2>2. objects'[t][n] = objects[t][n] /\ mem'[t][n] = mem[t][n]
    BY <1>1, <1>2, <2>1, ZenonT(40)
  <2>3. \A i \in Offset : <<n, i>> \in stale'[t] <=> <<n, i>> \in stale[t]
    BY <1>1, <1>2, <2>1, Zenon
  <2> QED BY <2>2, <2>3, Zenon DEF StaleIn
<1>6. Keeps(objects', heap', mem', stale') /\ DOMAIN heap' = Obj
  BY <1>1, <1>5, DroppedContents, Zenon
<1> QED BY <1>4, <1>6 DEF ContentInv

\* The end of a state.
LEMMA EndContents ==
  ASSUME ContentInv, SharingInv', NEW s \in Space, EndSpace(s)
  PROVE  ContentInv'
<1>1. /\ objects' = [objects EXCEPT ![s] = Unbound] /\ heap' = Collect(heap, objects')
      /\ mem' = [mem EXCEPT ![s] = [m \in MO |-> Blank(0)]] /\ stale' = [stale EXCEPT ![s] = {}]
  BY Zenon DEF EndSpace
<1>2. /\ mem \in [Space -> [MO -> [Offset -> Expr]]] /\ stale \in [Space -> SUBSET (MO \X Offset)]
      /\ objects \in [Space -> [MO -> Obj \cup {NULL}]]
  BY Zenon DEF ContentInv, SharingInv
<1>3. Blank(0) \in [Offset -> Expr]
  BY SizesAssumption, ConstantIs, Zenon DEF Blank
<1>4. mem' \in [Space -> [MO -> [Offset -> Expr]]] /\ stale' \in [Space -> SUBSET (MO \X Offset)]
  BY <1>1, <1>2, <1>3, Zenon
<1>5. ASSUME NEW t \in Space, NEW n \in MO, objects'[t][n] # NULL
      PROVE  /\ objects'[t][n] = objects[t][n]
             /\ mem'[t][n] = mem[t][n] /\ StaleIn(stale'[t], n) = StaleIn(stale[t], n)
  <2>1. t # s
    BY <1>1, <1>2, <1>5, Zenon DEF Unbound
  <2> QED BY <1>1, <1>2, <2>1, Zenon
<1>6. Keeps(objects', heap', mem', stale') /\ DOMAIN heap' = Obj
  BY <1>1, <1>5, DroppedContents, ZenonT(40)
<1> QED BY <1>4, <1>6, Zenon DEF ContentInv

\* bindObject of a new object state: Alloc and MakeSymbolic.
LEMMA BindContents ==
  ASSUME ContentInv, SharingInv', NEW s \in live, NEW m \in MO, NEW new, Valid(new),
         NEW c \in [Offset -> Expr], Holds(new, c, {}), Bind(s, m, new),
         mem' = [mem EXCEPT ![s][m] = c]
  PROVE  ContentInv'
<1>0. SharingInv /\ s \in Space /\ DOMAIN heap = Obj /\ Keeps(objects, heap, mem, stale)
      /\ mem \in [Space -> [MO -> [Offset -> Expr]]] /\ stale \in [Space -> SUBSET (MO \X Offset)]
  BY Zenon DEF ContentInv, SharingInv
<1>1. /\ Rebound(s, m) /\ heap' = Collect([heap EXCEPT ![Fresh] = new], objects')
      /\ stale' = [stale EXCEPT ![s] = @ \ ({m} \X Offset)]
  BY Zenon DEF Bind, Rebound
<1> DEFINE rest == stale[s] \ ({m} \X Offset)
<1>2. stale' = [stale EXCEPT ![s] = rest]
  BY <1>1, Zenon
<1>3. rest \in SUBSET (MO \X Offset)
  BY <1>0, Zenon DEF ContentInv
<1>4. StaleIn(rest, m) = {} /\ \A n \in MO \ {m} : StaleIn(rest, n) = StaleIn(stale[s], n)
  BY Zenon DEF StaleIn
<1> HIDE DEF rest
<1>5. /\ mem' \in [Space -> [MO -> [Offset -> Expr]]] /\ mem'[s][m] = c
      /\ \A t \in Space, n \in MO : t # s \/ n # m => mem'[t][n] = mem[t][n]
  BY <1>0, Zenon
<1>5a. /\ stale' \in [Space -> SUBSET (MO \X Offset)] /\ stale'[s] = rest
      /\ \A t \in Space : t # s => stale'[t] = stale[t]
  BY <1>0, <1>2, <1>3, Zenon
<1>6. Changed(s, m, c, {})
  BY <1>0, <1>4, <1>5, <1>5a, HistoryChanged, Zenon
<1>7. Keeps(objects', heap', mem', stale')
  BY <1>0, <1>1, <1>6, ReboundKeeps, Zenon
<1>8. DOMAIN heap' = Obj
  BY <1>1, Zenon DEF Collect
<1> QED BY <1>5, <1>5a, <1>7, <1>8, ZenonT(40) DEF ContentInv

\* Object states that hold what they held before are as good.
LEMMA SameBytes ==
  ASSUME Keeps(objects, heap, mem, stale), NEW h, NEW o, NEW new,
         DOMAIN heap = Obj, h = [heap EXCEPT ![o] = new], Valid(heap[o]) => Valid(new),
         \A c, st : Valid(heap[o]) /\ Holds(heap[o], c, st) => Holds(new, c, st)
  PROVE  Keeps(objects, h, mem, stale) /\ DOMAIN h = Obj
<1>1. DOMAIN h = Obj
  BY Zenon
<1>2. ASSUME NEW t \in Space, NEW n \in MO, objects[t][n] # NULL
      PROVE  Valid(h[objects[t][n]]) /\ Holds(h[objects[t][n]], mem[t][n], StaleIn(stale[t], n))
  <2>1. Valid(heap[objects[t][n]]) /\ Holds(heap[objects[t][n]], mem[t][n], StaleIn(stale[t], n))
    BY <1>2, Zenon DEF Keeps
  <2>2. CASE objects[t][n] = o /\ o \in Obj
    <3>1. h[objects[t][n]] = new
      BY <2>2, Zenon
    <3> QED BY <2>1, <2>2, <3>1, ZenonT(40)
  <2>3. CASE ~(objects[t][n] = o /\ o \in Obj)
    <3>1. h[objects[t][n]] = heap[objects[t][n]]
      BY <2>3
    <3> QED BY <2>1, <3>1, Zenon
  <2> QED BY <2>2, <2>3, Zenon
<1> QED BY <1>1, <1>2, Zenon DEF Keeps

\* A load flushes an object state in place, whoever shares it.
LEMMA LoadContents ==
  ASSUME ContentInv, SharingInv', NEW s \in Space, NEW m \in MO, NEW index \in Indexes,
         LoadByte(s, m, index)
  PROVE  ContentInv'
<1> DEFINE o == objects[s][m]
           new == AfterRead8(heap[o], index)
<1>1. heap' = [heap EXCEPT ![o] = new] /\ UNCHANGED <<objects, mem, stale>>
  BY Zenon DEF LoadByte
<1>2. index \in Index
  BY MemoryAssumption, Zenon
<1>3. /\ Valid(heap[o]) => Valid(new)
      /\ \A c, st : Valid(heap[o]) /\ Holds(heap[o], c, st) => Holds(new, c, st)
  BY <1>2, ReadKeeps, Zenon
<1>4. DOMAIN heap = Obj /\ Keeps(objects, heap, mem, stale)
  BY DEF ContentInv
<1> HIDE DEF o, new
<1>5. Keeps(objects, heap', mem, stale) /\ DOMAIN heap' = Obj
  BY <1>1, <1>3, <1>4, SameBytes, Zenon
<1> QED BY <1>1, <1>5, ZenonT(40) DEF ContentInv

\* A store.
LEMMA StoreContents ==
  ASSUME ContentInv, SharingInv', NEW s \in Space, NEW m \in MO, NEW index \in Indexes,
         NEW bytes \in Stores, StoreBytes(s, m, index, bytes)
  PROVE  ContentInv'
<1>0. SharingInv /\ DOMAIN heap = Obj /\ Keeps(objects, heap, mem, stale)
      /\ mem \in [Space -> [MO -> [Offset -> Expr]]] /\ stale \in [Space -> SUBSET (MO \X Offset)]
  BY Zenon DEF ContentInv
<1>1. index \in Index /\ bytes \in Seq(Expr)
  BY MemoryAssumption, Zenon
<1> DEFINE o == os(s, m)
           n == Len(bytes)
           new == write(o, index, bytes)
           old == mem[s][m]
           c == StoredAll(old, index, bytes, n)
           st == StaleIn(stale[s], m)
           rest == IF IsConstant(index) THEN stale[s] \ {<<m, ValueOf(index) + k - 1>> : k \in 1 .. n}
                   ELSE stale[s]
<1>2. /\ s \in live /\ objects[s][m] # NULL /\ \A a \in Input : index[a] < Size - n + 1
      /\ Writeable(s, m, heap, new) /\ UNCHANGED <<live, cowKey>>
  BY Zenon DEF StoreBytes, Bound
<1>3. n \in Nat /\ DOMAIN bytes = 1 .. n
  BY <1>1
<1>4. mem' = [mem EXCEPT ![s][m] = c]
  <2>1. mem' = [mem EXCEPT ![s][m] = [i \in Offset |-> [a \in Input |->
                  IF \E k \in DOMAIN bytes : index[a] + k - 1 = i
                    THEN bytes[i - index[a] + 1][a] ELSE @[i][a]]]]
    BY ZenonT(40) DEF StoreBytes
  <2>2. mem' = [mem EXCEPT ![s][m] = [i \in Offset |-> [a \in Input |->
                  IF \E k \in DOMAIN bytes : index[a] + k - 1 = i
                    THEN bytes[i - index[a] + 1][a] ELSE old[i][a]]]]
    BY <2>1, <1>0, Zenon
  <2>3. c = [i \in Offset |-> [a \in Input |->
                  IF \E k \in DOMAIN bytes : index[a] + k - 1 = i
                    THEN bytes[i - index[a] + 1][a] ELSE old[i][a]]]
    BY <1>3, Zenon DEF StoredAll
  <2> QED BY <2>2, <2>3, Zenon
<1>5. ValueOf(index) \in Offset /\ \A k \in 1 .. n : ValueOf(index) + k - 1 \in Offset
  <2> DEFINE b == CHOOSE a \in Input : TRUE
  <2>1. b \in Input
    BY SizesAssumption, Zenon
  <2>2. ValueOf(index) = index[b]
    BY Zenon DEF ValueOf
  <2> HIDE DEF b
  <2>3. index[b] \in Offset /\ index[b] < Size - n + 1
    BY <1>1, <1>2, <2>1, ZenonT(40) DEF Index
  <2> QED BY <1>3, <2>2, <2>3, SizesAssumption DEF Offset
<1>6. stale' = [stale EXCEPT ![s] = rest]
  BY <1>3, ZenonT(40) DEF StoreBytes
<1>7. rest \in SUBSET (MO \X Offset)
  BY <1>0, Zenon
<1>8. c \in [Offset -> Expr]
  <2>1. ASSUME NEW i \in Offset, NEW a \in Input,  NEW k \in 1 .. n, index[a] + k - 1 = i
        PROVE  bytes[i - index[a] + 1][a] \in Byte
    <3>1. index[a] \in Nat /\ i \in Nat
      BY <1>1, SizesAssumption DEF Index, Offset
    <3>2. i - index[a] + 1 = k /\ k \in 1 .. Len(bytes)
      BY <1>3, <2>1, <3>1
    <3>3. bytes[k] \in Expr
      BY <1>1, <3>2
    <3> QED BY <3>2, <3>3, ZenonT(40) DEF Expr
  <2>2. ASSUME NEW i \in Offset, NEW a \in Input PROVE old[i][a] \in Byte
    BY <1>0, SMTT(30) DEF Expr
  <2> HIDE DEF old
  <2> QED BY <2>1, <2>2, Zenon DEF StoredAll, Expr
<1>9. Valid(o) /\ Holds(o, old, st)
  BY <1>0, <1>2, Zenon DEF Keeps, os
<1>10. StaleIn(rest, m) = StaleAfter(st, index, n)
  <2>1. CASE IsConstant(index)
    <3>1. /\ rest = stale[s] \ {<<m, ValueOf(index) + k - 1>> : k \in 1 .. n}
          /\ StaleAfter(st, index, n) = st \ {ValueOf(index) + k - 1 : k \in 1 .. n}
      BY <2>1, Zenon DEF StaleAfter
    <3> HIDE DEF rest
    <3> QED BY <3>1, Zenon DEF StaleIn
  <2>2. CASE ~IsConstant(index)
    BY <2>2, Zenon DEF StaleAfter
  <2> QED BY <2>1, <2>2, ZenonT(40)
<1>11. \A k \in MO \ {m} : StaleIn(rest, k) = StaleIn(stale[s], k)
  <2>1. ASSUME NEW k \in MO \ {m}, NEW i \in Offset PROVE <<k, i>> \in rest <=> <<k, i>> \in stale[s]
    OBVIOUS
  <2> HIDE DEF rest
  <2> QED BY <2>1, Zenon DEF StaleIn
<1> HIDE DEF o, new, c, old, rest
<1> DEFINE after == StaleAfter(st, index, n)
<1>12. Valid(new) /\ Holds(new, c, after)
  BY <1>1, <1>2, <1>9, WriteHolds, Zenon DEF new, c
<1> HIDE DEF st, n, after
<1>13. StaleIn(rest, m) = after
  BY <1>10, Zenon DEF after
<1>17. /\ mem' \in [Space -> [MO -> [Offset -> Expr]]] /\ mem'[s][m] = c
      /\ \A t \in Space, k \in MO : t # s \/ k # m => mem'[t][k] = mem[t][k]
  BY <1>0, <1>4, <1>8, ZenonT(40)
<1>18. /\ stale' \in [Space -> SUBSET (MO \X Offset)] /\ stale'[s] = rest
      /\ \A t \in Space : t # s => stale'[t] = stale[t]
  BY <1>0, <1>6, <1>7, ZenonT(40)
<1>14. Changed(s, m, c, after)
  BY <1>11, <1>13, <1>17, <1>18, HistoryChanged, Zenon
<1>16. Keeps(objects', heap', mem', stale')
  BY <1>0, <1>2, <1>12, <1>14, WriteableKeeps, ZenonT(40)
<1>15. DOMAIN heap' = Obj
  BY <1>0, <1>2, WriteableDomain, Zenon
<1> QED BY <1>15, <1>16, <1>17, <1>18, ZenonT(40) DEF ContentInv

\* The object states before an external call runs.
LEMMA FlushedArgument ==
  ASSUME ContentInv, NEW s \in Space, NEW arg \in MO \cup {NULL}, NEW solution \in Input
  PROVE  /\ Keeps(objects, ArgumentFlushed(s, arg, solution), mem, stale)
         /\ DOMAIN ArgumentFlushed(s, arg, solution) = Obj
<1> DEFINE h == ArgumentFlushed(s, arg, solution)
           o == objects[s][arg]
           new == flushToConcreteStore(heap[o], solution)
<1>0. DOMAIN heap = Obj /\ Keeps(objects, heap, mem, stale)
  BY DEF ContentInv
<1>1. CASE arg = NULL
  <2>1. h = heap
    BY <1>1, Zenon DEF ArgumentFlushed
  <2> QED BY <1>0, <2>1, Zenon
<1>2. CASE arg # NULL
  <2>1. h = [heap EXCEPT ![o] = new]
    BY <1>2, Zenon DEF ArgumentFlushed
  <2>2. /\ Valid(heap[o]) => Valid(new)
        /\ \A c, st : Valid(heap[o]) /\ Holds(heap[o], c, st) => Holds(new, c, st)
    <3>1. ASSUME NEW q, Valid(q)
          PROVE  /\ Valid(flushToConcreteStore(q, solution))
                 /\ \A c, st : Holds(q, c, st) => Holds(flushToConcreteStore(q, solution), c, st)
      BY <3>1, ToConcreteKeeps, Zenon
    <3> QED BY <3>1, ZenonT(40)
  <2> HIDE DEF h, o, new
  <2>3. Keeps(objects, h, mem, stale) /\ DOMAIN h = Obj
    BY <1>0, <2>1, <2>2, SameBytes, Zenon
  <2> QED BY <2>3, Zenon DEF h
<1> QED BY <1>1, <1>2, Zenon

\* An external call.
LEMMA ExternalContents ==
  ASSUME ContentInv, SharingInv', NEW s \in Space, NEW m \in MO, NEW arg \in MO \cup {NULL},
         NEW solution \in Input, NEW i \in Offset, NEW v \in Byte,
         ExternalCall(s, arg, solution, m, i, v)
  PROVE  ContentInv'
<1> DEFINE h == ArgumentFlushed(s, arg, solution)
           before == h[objects[s][m]]
           bytes == [before.store EXCEPT ![i] = v]
<1>0. SharingInv /\ mem \in [Space -> [MO -> [Offset -> Expr]]]
      /\ stale \in [Space -> SUBSET (MO \X Offset)]
  BY Zenon DEF ContentInv
<1>1. Keeps(objects, h, mem, stale) /\ DOMAIN h = Obj
  BY FlushedArgument, Zenon
<1>2. /\ s \in live /\ objects[s][m] # NULL /\ UNCHANGED <<live, cowKey>>
      /\ IF bytes = before.store THEN heap' = h /\ UNCHANGED <<objects, owner, mem, stale>>
         ELSE CopyIn(s, m, h, bytes)
  BY Zenon DEF ExternalCall, Bound
<1> HIDE DEF h
<1>3. Valid(before) /\ Holds(before, mem[s][m], StaleIn(stale[s], m))
  BY <1>1, <1>2, Zenon DEF Keeps
<1> HIDE DEF before
<1>4. bytes \in [Offset -> Byte]
  BY <1>3, Zenon DEF Valid, IsObject
<1> HIDE DEF bytes
<1>5. CASE bytes = before.store
  <2>1. heap' = h /\ UNCHANGED <<objects, owner, mem, stale>>
    BY <1>2, <1>5, Zenon
  <2> QED BY <1>0, <1>1, <2>1, ZenonT(40) DEF ContentInv
<1>6. CASE bytes # before.store
  <2> DEFINE new == [before EXCEPT !.store = bytes]
             old == mem[s][m]
             c == [k \in Offset |-> IF before.concrete[k] THEN Constant(bytes[k]) ELSE old[k]]
             hidden == {k \in Offset : before.concrete[k] /\ ~before.unflushed[k]
                                         /\ bytes[k] # before.store[k]}
             was == StaleIn(stale[s], m)
             st == was \cup hidden
             rest == stale[s] \cup ({m} \X hidden)
  <2>1. CopyIn(s, m, h, bytes)
    BY <1>2, <1>6, Zenon
  <2>2. Writeable(s, m, h, new)
    BY <2>1, Zenon DEF CopyIn, before
  <2>3. mem' = [mem EXCEPT ![s][m] = c]
    <3>1. mem' = [mem EXCEPT ![s][m] = [k \in Offset |->
                    IF before.concrete[k] THEN Constant(bytes[k]) ELSE @[k]]]
      BY <2>1, Zenon DEF CopyIn, before
    <3> QED BY <1>0, <3>1, Zenon
  <2>4. stale' = [stale EXCEPT ![s] = rest]
    BY <2>1, Zenon DEF CopyIn, before
  <2>5. Valid(new) /\ Holds(new, c, st)
    <3>1. Valid(before) /\ Holds(before, old, was)
      BY <1>3, Zenon
    <3> HIDE DEF old, was
    <3>2. Valid(new)
      BY <1>4, <3>1, CopyInHolds, Zenon
    <3>3. Holds(new, CopiedBytes(before, old, bytes), was \cup HiddenBytes(before, bytes))
      BY <1>4, <3>1, CopyInHolds, Zenon
    <3>4. CopiedBytes(before, old, bytes) = c /\ HiddenBytes(before, bytes) = hidden
      BY Zenon DEF CopiedBytes, HiddenBytes
    <3> QED BY <3>2, <3>3, <3>4, Zenon
  <2>6. c \in [Offset -> Expr]
    <3>1. ASSUME NEW k \in Offset PROVE Constant(bytes[k]) \in Expr /\ old[k] \in Expr
      BY <1>0, <1>4, ConstantIs, SMTT(30)
    <3> HIDE DEF old
    <3> QED BY <3>1, Zenon
  <2>7. StaleIn(rest, m) = st /\ \A n \in MO \ {m} : StaleIn(rest, n) = StaleIn(stale[s], n)
    <3>1. hidden \subseteq Offset
      BY Zenon
    <3> HIDE DEF hidden
    <3> QED BY <3>1, Zenon DEF StaleIn
  <2>8. rest \in SUBSET (MO \X Offset)
    <3>1. hidden \subseteq Offset
      BY Zenon
    <3> HIDE DEF hidden
    <3> QED BY <1>0, <3>1, Zenon
  <2> HIDE DEF new, c, st, rest
  <2>9. /\ mem' \in [Space -> [MO -> [Offset -> Expr]]] /\ mem'[s][m] = c
        /\ \A t \in Space, n \in MO : t # s \/ n # m => mem'[t][n] = mem[t][n]
    BY <1>0, <2>3, <2>6, Zenon
  <2>10. /\ stale' \in [Space -> SUBSET (MO \X Offset)] /\ stale'[s] = rest
         /\ \A t \in Space : t # s => stale'[t] = stale[t]
    BY <1>0, <2>4, <2>8, Zenon
  <2>11. Changed(s, m, c, st)
    BY <2>7, <2>9, <2>10, HistoryChanged, Zenon
  <2>12. Keeps(objects', heap', mem', stale')
    BY <1>0, <1>1, <1>2, <2>2, <2>5, <2>11, WriteableKeeps, Zenon
  <2>13. DOMAIN heap' = Obj
    BY <1>1, <2>2, WriteableDomain, Zenon
  <2> QED BY <2>9, <2>10, <2>12, <2>13, ZenonT(40) DEF ContentInv
<1> QED BY <1>5, <1>6, Zenon

\* Every operation on the address spaces keeps ContentInv.
LEMMA ContentStep ==
  ASSUME ContentInv, [MemNext]_memVars
  PROVE  ContentInv'
<1>0. SharingInv'
  BY SharingStep, Zenon DEF ContentInv
<1>1. ASSUME NEW s \in Space, NEW m \in MO, NEW v \in Byte, Alloc(s, m, v) PROVE ContentInv'
  <2>1. s \in live /\ Bind(s, m, NewObject(v)) /\ mem' = [mem EXCEPT ![s][m] = Blank(v)]
    BY <1>1, Zenon DEF Alloc
  <2>2. Blank(v) \in [Offset -> Expr]
    BY ConstantIs, Zenon DEF Blank
  <2> DEFINE c == Blank(v)
             new == NewObject(v)
  <2>3. Valid(new) /\ Holds(new, c, {})
    BY NewHolds, Zenon
  <2> HIDE DEF c, new
  <2>4. s \in live /\ Bind(s, m, new) /\ mem' = [mem EXCEPT ![s][m] = c] /\ c \in [Offset -> Expr]
    BY <2>1, <2>2, Zenon DEF c, new
  <2> QED BY <1>0, <2>3, <2>4, BindContents, Zenon
<1>2. ASSUME NEW s \in Space, NEW m \in MO, MakeSymbolic(s, m) PROVE ContentInv'
  <2> DEFINE new == NewSymbolic(Array)
  <2>1. s \in live /\ Bind(s, m, new) /\ mem' = [mem EXCEPT ![s][m] = Array]
    BY <1>2, Zenon DEF MakeSymbolic
  <2>2. Valid(new) /\ Holds(new, Array, {}) /\ Array \in [Offset -> Expr]
    BY SymbolicHolds, MemoryAssumption, Zenon
  <2> HIDE DEF new
  <2> QED BY <1>0, <2>1, <2>2, BindContents, Zenon
<1>3. ASSUME NEW s \in Space, NEW t \in Space, ForkSpace(s, t) PROVE ContentInv'
  BY <1>3, ForkContents, Zenon
<1>4. ASSUME NEW s \in Space, EndSpace(s) PROVE ContentInv'
  BY <1>0, <1>4, EndContents, Zenon
<1>5. ASSUME NEW s \in Space, NEW m \in MO, FreeObject(s, m) PROVE ContentInv'
  BY <1>0, <1>5, FreeContents, ZenonT(40)
<1>6. ASSUME NEW s \in Space, NEW m \in MO, NEW index \in Indexes, LoadByte(s, m, index)
      PROVE  ContentInv'
  BY <1>0, <1>6, LoadContents, Zenon
<1>7. ASSUME NEW s \in Space, NEW m \in MO, NEW index \in Indexes, NEW bytes \in Stores,
             StoreBytes(s, m, index, bytes)
      PROVE  ContentInv'
  BY <1>0, <1>7, StoreContents, Zenon
<1>8. ASSUME NEW s \in Space, NEW m \in MO, NEW arg \in MO \cup {NULL}, NEW solution \in Input,
             NEW i \in Offset, NEW v \in Byte, ExternalCall(s, arg, solution, m, i, v)
      PROVE  ContentInv'
  BY <1>0, <1>8, ExternalContents, Zenon
<1>9. CASE UNCHANGED memVars
  BY <1>0, <1>9, Zenon DEF memVars, ContentInv
<1> QED BY <1>1, <1>2, <1>3, <1>4, <1>5, <1>6, <1>7, <1>8, <1>9, Zenon DEF MemNext

\* A load gives the bytes the state's own stores left, at a constant and at a symbolic offset,
\* whatever is cached, flushed, shared or copied meanwhile; the caches agree with their masks,
\* and what is written in place is seen by one state: for every size of an object, every
\* number of states, objects and operations, and stores of every width.
THEOREM MemoryIsExact == MemSpec => []MemoryExact
<1>1. MemInit => ContentInv
  <2> SUFFICES ASSUME MemInit PROVE ContentInv
    OBVIOUS
  <2>1. SharingInv
    BY DEF MemInit, SharingInv, OwnedIsUnshared, Unbound
  <2>2. Blank(0) \in [Offset -> Expr]
    BY SizesAssumption, ConstantIs, Zenon DEF Blank
  <2>3. /\ DOMAIN heap = Obj /\ mem \in [Space -> [MO -> [Offset -> Expr]]]
        /\ stale \in [Space -> SUBSET (MO \X Offset)]
    BY <2>2 DEF MemInit
  <2>4. Keeps(objects, heap, mem, stale)
    BY DEF MemInit, Keeps, Unbound
  <2> QED BY <2>1, <2>3, <2>4, Zenon DEF ContentInv
<1>2. ContentInv /\ [MemNext]_memVars => ContentInv'
  BY ContentStep, Zenon
<1>3. ContentInv => MemoryExact
  <2> SUFFICES ASSUME ContentInv PROVE MemoryExact
    OBVIOUS
  <2>1. OwnedIsUnshared /\ live \subseteq Space
    BY Zenon DEF ContentInv, SharingInv
  <2>2. CacheInvariants
    <3>1. ASSUME NEW o \in Referenced(objects) PROVE Valid(heap[o])
      <4>1. PICK s \in Space, m \in MO : o = objects[s][m] /\ objects[s][m] # NULL
        BY DEF Referenced
      <4> QED BY <4>1, Zenon DEF ContentInv, Keeps
    <3> QED BY <3>1, Zenon DEF CacheInvariants, Valid, CachesAgree
  <2>3. ReadsSeeWrites
    <3> SUFFICES ASSUME NEW s \in live, NEW m \in Bound(s), NEW index \in Index, NEW a \in Input,
                        <<m, index[a]>> \notin stale[s]
                 PROVE  read8(os(s, m), index)[a] = mem[s][m][index[a]][a]
      BY Zenon DEF ReadsSeeWrites
    <3> DEFINE o == os(s, m)
               c == mem[s][m]
               st == StaleIn(stale[s], m)
    <3>1. Valid(o) /\ Holds(o, c, st)
      BY <2>1, Zenon DEF ContentInv, Keeps, Bound, os
    <3>2. index[a] \notin st
      BY Zenon DEF StaleIn
    <3> HIDE DEF o, c, st
    <3>3. read8(o, index)[a] = c[index[a]][a]
      BY <3>1, <3>2, ReadGives, SMTT(30)
    <3> QED BY <3>3, Zenon DEF o, c
  <2> QED BY <2>1, <2>2, <2>3, Zenon DEF MemoryExact
<1> QED BY <1>1, <1>2, <1>3, PTL DEF MemSpec
=============================================================================
