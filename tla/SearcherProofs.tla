--------------------------- MODULE SearcherProofs ---------------------------
(***************************************************************************)
(* The process tree with its tags, and the searchers stacked over it, for  *)
(* any number of states and core searchers: what every operation of module *)
(* ProcessTree does to the tree and to who owns its states, and that an    *)
(* update or a selection leaves every core searcher of a stack with exactly *)
(* the states it should hold.  Merge handlers are idle throughout.         *)
(***************************************************************************)
EXTENDS Searchers, WellFoundedInduction, TLAPS

-----------------------------------------------------------------------------
(* The process tree.                                                       *)

Path == Seq({"left", "right"})
TreeNode == [state : State \cup {NULL}, tag : SUBSET Nat]

\* The shape of the process tree: closed under ancestors, a state at every leaf and nowhere
\* else, and no state twice.
IsTree(t) ==
  /\ t \in [DOMAIN t -> TreeNode] /\ DOMAIN t \subseteq Path
  /\ \A m \in DOMAIN t, p \in Path : p \in Ancestors(m) => p \in DOMAIN t
  /\ \A m, k \in DOMAIN t : t[m].state # NULL /\ m \in Ancestors(k) => k = m
  /\ \A m \in DOMAIN t : \E k \in DOMAIN t : m \in Ancestors(k) /\ t[k].state # NULL
  /\ \A m, k \in DOMAIN t : t[m].state # NULL /\ t[m].state = t[k].state => m = k

\* The states in it, and those a random path searcher owns.
InTree(t) == {t[m].state : m \in DOMAIN t} \ {NULL}
Tagged(t, id) == {t[m].state : m \in {k \in DOMAIN t : id \in t[k].tag}} \ {NULL}

TagExact(t, id) ==
  \A m \in DOMAIN t : id \in t[m].tag <=>
     \E k \in DOMAIN t : m \in Ancestors(k) /\ t[k].state # NULL /\ id \in t[k].tag

\* A node is above another if it is shorter and leads the same way.
LEMMA AncestorIs ==
  ASSUME NEW a \in Path, NEW b \in Path
  PROVE  a \in Ancestors(b) <=> Len(a) <= Len(b) /\ \A i \in 1 .. Len(a) : a[i] = b[i]
BY DEF Ancestors, Path

\* Being above is an order, and the ancestors of a node are a chain.
LEMMA AncestorOrder ==
  ASSUME NEW a \in Path
  PROVE  /\ a \in Ancestors(a)
         /\ \A b \in Path : a \in Ancestors(b) /\ b \in Ancestors(a) => a = b
         /\ \A b, c \in Path : a \in Ancestors(b) /\ b \in Ancestors(c) => a \in Ancestors(c)
         /\ \A b, c \in Path : a \in Ancestors(c) /\ b \in Ancestors(c)
                             => a \in Ancestors(b) \/ b \in Ancestors(a)
         /\ Ancestors(a) \subseteq Path
<1> USE AncestorIs DEF Path
<1>1. a \in Ancestors(a)
  OBVIOUS
<1>3. \A b \in Path : a \in Ancestors(b) /\ b \in Ancestors(a) => a = b
  OBVIOUS
<1>4. \A b, c \in Path : a \in Ancestors(b) /\ b \in Ancestors(c) => a \in Ancestors(c)
  OBVIOUS
<1>5. \A b, c \in Path : a \in Ancestors(c) /\ b \in Ancestors(c)
                        => a \in Ancestors(b) \/ b \in Ancestors(a)
  OBVIOUS
<1>6. Ancestors(a) \subseteq Path
  BY DEF Ancestors
<1> QED BY <1>1, <1>3, <1>4, <1>5, <1>6, Zenon

\* The children of a node, and the first step from it to a node below.
LEMMA ChildPaths ==
  ASSUME NEW n \in Path
  PROVE  /\ Left(n) \in Path /\ Right(n) \in Path /\ Left(n) # Right(n)
         /\ n \in Ancestors(Left(n)) /\ n \in Ancestors(Right(n)) /\ Left(n) # n /\ Right(n) # n
         /\ \A k \in Path : n \in Ancestors(k) /\ k # n
              => Left(n) \in Ancestors(k) \/ Right(n) \in Ancestors(k)
         /\ \A p \in Path : p \in Ancestors(Left(n)) => p = Left(n) \/ p \in Ancestors(n)
         /\ \A p \in Path : p \in Ancestors(Right(n)) => p = Right(n) \/ p \in Ancestors(n)
         /\ Left(n) \notin Ancestors(n) /\ Right(n) \notin Ancestors(n)
<1>1. /\ Left(n) \in Path /\ Right(n) \in Path /\ Left(n) # Right(n) /\ Left(n) # n /\ Right(n) # n
      /\ Len(Left(n)) = Len(n) + 1 /\ Left(n)[Len(n) + 1] = "left"
      /\ Len(Right(n)) = Len(n) + 1 /\ Right(n)[Len(n) + 1] = "right"
      /\ \A i \in 1 .. Len(n) : Left(n)[i] = n[i] /\ Right(n)[i] = n[i]
  BY DEF Path, Left, Right
<1>2. /\ n \in Ancestors(Left(n)) /\ n \in Ancestors(Right(n))
      /\ Left(n) \notin Ancestors(n) /\ Right(n) \notin Ancestors(n)
  BY <1>1, AncestorIs DEF Path
<1>3. ASSUME NEW k \in Path, n \in Ancestors(k), k # n
      PROVE Left(n) \in Ancestors(k) \/ Right(n) \in Ancestors(k)
  <2>1. Len(k) > Len(n) /\ \A i \in 1 .. Len(n) : k[i] = n[i]
    BY <1>3, AncestorIs DEF Path
  <2>2. k[Len(n) + 1] \in {"left", "right"} /\ Len(n) \in Nat /\ Len(k) \in Nat
    BY <2>1 DEF Path
  <2>3. \A i \in 1 .. Len(n) + 1 : i = Len(n) + 1 \/ i \in 1 .. Len(n)
    BY <2>2
  <2>4. k[Len(n) + 1] = "left" => Left(n) \in Ancestors(k)
    BY <1>1, <2>1, <2>2, <2>3, AncestorIs, SMTT(30)
  <2>5. k[Len(n) + 1] = "right" => Right(n) \in Ancestors(k)
    BY <1>1, <2>1, <2>2, <2>3, AncestorIs, SMTT(30)
  <2> QED BY <2>2, <2>4, <2>5
<1>4. ASSUME NEW p \in Path, NEW c \in {Left(n), Right(n)}, p \in Ancestors(c)
      PROVE  p = c \/ p \in Ancestors(n)
  <2>1. /\ Len(p) <= Len(c) /\ \A i \in 1 .. Len(p) : p[i] = c[i]
        /\ c \in Path /\ Len(c) = Len(n) + 1 /\ \A i \in 1 .. Len(n) : c[i] = n[i]
    BY <1>1, <1>4, AncestorIs
  <2>2. CASE Len(p) = Len(c)
    BY <2>1, <2>2 DEF Path
  <2>3. CASE Len(p) # Len(c)
    <3>1. Len(p) <= Len(n) /\ \A i \in 1 .. Len(p) : p[i] = n[i]
      BY <2>1, <2>3 DEF Path
    <3> QED BY <3>1, AncestorIs
  <2> QED BY <2>2, <2>3
<1> QED BY <1>1, <1>2, <1>3, <1>4, Zenon

\* The node of a state of the tree.
LEMMA NodeIs ==
  ASSUME NEW t, IsTree(t), NEW s \in InTree(t)
  PROVE  /\ NodeOf(t, s) \in DOMAIN t /\ NodeOf(t, s) \in Path /\ t[NodeOf(t, s)].state = s
         /\ s # NULL /\ s \in State
         /\ \A m \in DOMAIN t : t[m].state = s => m = NodeOf(t, s)
<1>1. \E m \in DOMAIN t : t[m].state = s
  BY Zenon DEF InTree
<1>2. NodeOf(t, s) \in DOMAIN t /\ t[NodeOf(t, s)].state = s
  BY <1>1, Zenon DEF NodeOf
<1>3. s # NULL
  BY Zenon DEF InTree
<1>4. t[NodeOf(t, s)] \in TreeNode
  BY <1>2, Zenon DEF IsTree
<1>5. s \in State
  BY <1>2, <1>3, <1>4 DEF TreeNode
<1> QED BY <1>2, <1>3, <1>5, Zenon DEF IsTree

\* A tree whose tags alone change is a tree of the same states.
LEMMA RetaggedTree ==
  ASSUME NEW t, IsTree(t), NEW u, DOMAIN u = DOMAIN t, u \in [DOMAIN t -> TreeNode],
         \A m \in DOMAIN t : u[m].state = t[m].state
  PROVE  IsTree(u) /\ InTree(u) = InTree(t)
<1>1. IsTree(u)
  <2> USE DEF IsTree
  <2>1. u \in [DOMAIN u -> TreeNode] /\ DOMAIN u \subseteq Path
    BY Zenon
  <2>2. \A m \in DOMAIN u, p \in Path : p \in Ancestors(m) => p \in DOMAIN u
    BY Zenon
  <2>3. \A m, k \in DOMAIN u : u[m].state # NULL /\ m \in Ancestors(k) => k = m
    BY Zenon
  <2>4. \A m \in DOMAIN u : \E k \in DOMAIN u : m \in Ancestors(k) /\ u[k].state # NULL
    BY Zenon
  <2>5. \A m, k \in DOMAIN u : u[m].state # NULL /\ u[m].state = u[k].state => m = k
    BY Zenon
  <2> QED BY <2>1, <2>2, <2>3, <2>4, <2>5, Zenon
<1>2. {u[m].state : m \in DOMAIN u} = {t[m].state : m \in DOMAIN t}
  BY Zenon
<1> QED BY <1>1, <1>2, Zenon DEF InTree

\* What Tagged holds, by nodes.
LEMMA TaggedIs ==
  ASSUME NEW t, NEW id, NEW s
  PROVE  s \in Tagged(t, id) <=> s # NULL /\ \E m \in DOMAIN t : t[m].state = s /\ id \in t[m].tag
BY Zenon DEF Tagged

\* A searcher whose tags do not change owns what it owned.
LEMMA UntouchedTags ==
  ASSUME NEW t, NEW u, DOMAIN u = DOMAIN t, \A m \in DOMAIN t : u[m].state = t[m].state,
         NEW j, \A m \in DOMAIN t : j \in u[m].tag <=> j \in t[m].tag
  PROVE  Tagged(u, j) = Tagged(t, j) /\ (TagExact(t, j) => TagExact(u, j))
<1>1. ASSUME NEW x PROVE x \in Tagged(u, j) <=> x \in Tagged(t, j)
  <2>1. x \in Tagged(u, j) <=> x # NULL /\ \E m \in DOMAIN u : u[m].state = x /\ j \in u[m].tag
    BY TaggedIs
  <2>2. x \in Tagged(t, j) <=> x # NULL /\ \E m \in DOMAIN t : t[m].state = x /\ j \in t[m].tag
    BY TaggedIs
  <2> QED BY <2>1, <2>2, Zenon
<1>2. ASSUME TagExact(t, j), NEW m \in DOMAIN u
      PROVE j \in u[m].tag <=> \E k \in DOMAIN u : m \in Ancestors(k) /\ u[k].state # NULL /\ j \in u[k].tag
  <2>1. j \in t[m].tag <=> \E k \in DOMAIN t : m \in Ancestors(k) /\ t[k].state # NULL /\ j \in t[k].tag
    BY <1>2, Zenon DEF TagExact
  <2> QED BY <2>1, Zenon
<1> QED BY <1>1, <1>2, Zenon DEF TagExact

\* Marking the node of a state and its ancestors up to the first of ours.
LEMMA MarkKeeps ==
  ASSUME NEW t, IsTree(t), NEW s \in InTree(t), NEW id \in Nat,
         \A j \in Nat : TagExact(t, j)
  PROVE  LET u == Mark(t, NodeOf(t, s), id)
         IN /\ IsTree(u) /\ InTree(u) = InTree(t)
            /\ \A j \in Nat : TagExact(u, j)
            /\ Tagged(u, id) = Tagged(t, id) \cup {s}
            /\ \A j \in Nat \ {id} : Tagged(u, j) = Tagged(t, j)
<1> DEFINE n == NodeOf(t, s)
           u == Mark(t, n, id)
           M == MarkedBy(t, n, id)
<1>1. /\ n \in DOMAIN t /\ n \in Path /\ t[n].state = s /\ s # NULL
      /\ \A m \in DOMAIN t : t[m].state = s => m = n
  BY NodeIs, Zenon
<1> HIDE DEF n
<1>2. \A m \in DOMAIN t : t[m] \in TreeNode /\ m \in Path
  BY Zenon DEF IsTree
<1>3. /\ DOMAIN u = DOMAIN t
      /\ \A m \in DOMAIN t : u[m] = IF m \in M THEN [t[m] EXCEPT !.tag = @ \cup {id}] ELSE t[m]
      /\ u = [m \in DOMAIN t |-> u[m]]
  BY Zenon DEF Mark
<1> HIDE DEF u
<1>4. \A m \in DOMAIN t : /\ u[m] \in TreeNode /\ u[m].state = t[m].state
                          /\ u[m].tag = IF m \in M THEN t[m].tag \cup {id} ELSE t[m].tag
  <2> HIDE DEF M
  <2> SUFFICES ASSUME NEW m \in DOMAIN t
               PROVE  /\ u[m] \in TreeNode /\ u[m].state = t[m].state
                      /\ u[m].tag = IF m \in M THEN t[m].tag \cup {id} ELSE t[m].tag
    OBVIOUS
  <2> DEFINE r == t[m]
  <2>1. r \in TreeNode
    BY <1>2, Zenon
  <2>2. u[m] = IF m \in M THEN [r EXCEPT !.tag = @ \cup {id}] ELSE r
    BY <1>3, Zenon
  <2> HIDE DEF r
  <2>3. /\ u[m] \in TreeNode /\ u[m].state = r.state
        /\ u[m].tag = IF m \in M THEN r.tag \cup {id} ELSE r.tag
    BY <2>1, <2>2, SMT DEF TreeNode
  <2> QED BY <2>3 DEF r
<1>5. u \in [DOMAIN t -> TreeNode] /\ \A m \in DOMAIN t : u[m].state = t[m].state
  BY <1>3, <1>4, Zenon
<1>6. IsTree(u) /\ InTree(u) = InTree(t)
  BY <1>3, <1>5, RetaggedTree, Zenon
<1>7. /\ \A p \in M : p \in Ancestors(n) /\ p \in Path /\ p \in DOMAIN t /\ id \notin t[n].tag
      /\ \A p \in Path : p \in Ancestors(n) /\ p \notin M =>
            \E q \in DOMAIN t : p \in Ancestors(q) /\ q \in Ancestors(n) /\ id \in t[q].tag
  <2>1. \A p \in Path : p \in Ancestors(n) <=> p \in Ancestors(n)
    BY <1>1, AncestorOrder
  <2>2. Ancestors(n) \subseteq Path
    BY <1>1, AncestorOrder
  <2>3. \A p \in Path : p \in Ancestors(n) => p \in DOMAIN t
    BY <1>1, Zenon DEF IsTree
  <2>4. n \in Ancestors(n)
    BY <1>1, AncestorOrder
  <2> QED BY <1>1, <2>1, <2>2, <2>3, <2>4, Zenon DEF MarkedBy, Ours
<1> HIDE DEF M
<1>8. n \in M \/ id \in t[n].tag
  <2>1. n \in Ancestors(n)
    BY <1>1, AncestorOrder
  <2>2. \A q \in DOMAIN t : n \in Ancestors(q) /\ q \in Ancestors(n) => q = n
    BY <1>1, <1>2, AncestorOrder
  <2> QED BY <1>1, <1>7, <2>1, <2>2, Zenon
<1>9. \A k \in M : t[k].state # NULL => k = n
  BY <1>1, <1>7, Zenon DEF IsTree
<1>10. ASSUME NEW j \in Nat, NEW m \in DOMAIN u PROVE
         j \in u[m].tag <=> \E k \in DOMAIN u : m \in Ancestors(k) /\ u[k].state # NULL /\ j \in u[k].tag
  <2>0. m \in DOMAIN t /\ m \in Path
    BY <1>2, <1>3, Zenon
  <2>1. TagExact(t, j)
    BY Zenon
  <2>2. CASE j # id
    <3>1. \A k \in DOMAIN t : j \in u[k].tag <=> j \in t[k].tag
      BY <1>4, <2>2, Zenon
    <3>2. TagExact(u, j)
      BY <1>3, <1>5, <2>1, <3>1, UntouchedTags
    <3> QED BY <3>2, Zenon DEF TagExact
  <2>3. CASE j = id
    <3>1. \A k \in DOMAIN t : id \in u[k].tag <=> id \in t[k].tag \/ k \in M
      BY <1>4, Zenon
    <3>2. ASSUME id \in u[m].tag
          PROVE \E k \in DOMAIN u : m \in Ancestors(k) /\ u[k].state # NULL /\ id \in u[k].tag
      <4>1. CASE id \in t[m].tag
        <5>1. PICK k \in DOMAIN t : m \in Ancestors(k) /\ t[k].state # NULL /\ id \in t[k].tag
          BY <2>0, <2>1, <2>3, <4>1, Zenon DEF TagExact
        <5> QED BY <1>3, <1>4, <3>1, <5>1, Zenon
      <4>2. CASE m \in M
        BY <1>1, <1>3, <1>4, <1>7, <1>8, <3>1, <4>2, Zenon
      <4> QED BY <2>0, <3>1, <3>2, <4>1, <4>2, Zenon
    <3>3. ASSUME NEW k \in DOMAIN u, m \in Ancestors(k), u[k].state # NULL, id \in u[k].tag
          PROVE id \in u[m].tag
      <4>0. k \in DOMAIN t /\ t[k].state # NULL /\ k \in Path
        BY <1>2, <1>3, <1>4, <3>3, Zenon
      <4>1. CASE id \in t[k].tag
        BY <2>0, <2>1, <2>3, <3>1, <3>3, <4>0, <4>1, Zenon DEF TagExact
      <4>2. CASE k \in M
        <5>1. k = n
          BY <1>9, <4>0, <4>2, Zenon
        <5>2. CASE m \in M
          BY <2>0, <3>1, <5>2, Zenon
        <5>3. CASE m \notin M
          <6>1. PICK q \in DOMAIN t : m \in Ancestors(q) /\ id \in t[q].tag
            BY <1>7, <2>0, <3>3, <5>1, <5>3, Zenon
          <6>2. PICK l \in DOMAIN t : q \in Ancestors(l) /\ t[l].state # NULL /\ id \in t[l].tag
            BY <2>1, <2>3, <6>1, Zenon DEF TagExact
          <6>3. m \in Ancestors(l)
            BY <1>2, <2>0, <6>1, <6>2, AncestorOrder
          <6> QED BY <2>0, <2>1, <2>3, <3>1, <6>2, <6>3, Zenon DEF TagExact
        <5> QED BY <5>2, <5>3
      <4> QED BY <3>1, <3>3, <4>0, <4>1, <4>2, Zenon
    <3> QED BY <2>3, <3>2, <3>3, Zenon
  <2> QED BY <2>2, <2>3
<1>11. ASSUME NEW x PROVE x \in Tagged(u, id) <=> x \in Tagged(t, id) \/ x = s
  <2>1. \A k \in DOMAIN t : id \in u[k].tag <=> id \in t[k].tag \/ k \in M
    BY <1>4, Zenon
  <2>2. x \in Tagged(u, id) <=> x # NULL /\ \E m \in DOMAIN u : u[m].state = x /\ id \in u[m].tag
    BY TaggedIs, Zenon
  <2>3. x \in Tagged(t, id) <=> x # NULL /\ \E m \in DOMAIN t : t[m].state = x /\ id \in t[m].tag
    BY TaggedIs, Zenon
  <2>4. x # NULL /\ (\E m \in DOMAIN t : t[m].state = x /\ (id \in t[m].tag \/ m \in M))
        <=> (x # NULL /\ \E m \in DOMAIN t : t[m].state = x /\ id \in t[m].tag) \/ x = s
    BY <1>1, <1>8, <1>9, Zenon
  <2>5. (\E m \in DOMAIN u : u[m].state = x /\ id \in u[m].tag)
        <=> \E m \in DOMAIN t : t[m].state = x /\ (id \in t[m].tag \/ m \in M)
    BY <1>3, <1>5, <2>1, Zenon
  <2> QED BY <2>2, <2>3, <2>4, <2>5, Zenon
<1>12. ASSUME NEW j \in Nat \ {id} PROVE Tagged(u, j) = Tagged(t, j)
  <2>1. \A k \in DOMAIN t : j \in u[k].tag <=> j \in t[k].tag
    BY <1>4, Zenon
  <2> QED BY <1>3, <1>5, <2>1, UntouchedTags
<1>13. \A j \in Nat : TagExact(u, j)
  BY <1>10, Zenon DEF TagExact
<1>14. Tagged(u, id) = Tagged(t, id) \cup {s}
  BY <1>11, Zenon
<1>15. \A j \in Nat \ {id} : Tagged(u, j) = Tagged(t, j)
  BY <1>12, Zenon
<1> QED BY <1>6, <1>13, <1>14, <1>15, Zenon DEF n, u
\* A nonempty set of numbers has a least one.
LEMMA LeastNat ==
  ASSUME NEW S, S \subseteq Nat, S # {}
  PROVE  \E x \in S : \A y \in S : x <= y
<1>1. PICK x \in S : \A y \in S : ~ (<<y, x>> \in OpToRel(<, Nat))
  BY NatLessThanWellFounded, WFMin, Zenon
<1>2. ASSUME NEW y \in S PROVE ~(y < x)
  <2>1. <<y, x>> \in Nat \X Nat
    BY Zenon
  <2>2. ~ (<<y, x>> \in OpToRel(<, Nat))
    BY <1>1, Zenon
  <2> QED BY <2>1, <2>2, Zenon DEF OpToRel
<1>3. \A y \in S : x \in Int /\ y \in Int /\ ~(y < x)
  BY <1>2, SMT
<1> QED BY <1>3, SMT

\* Two paths that part do so below a node that is above both.
LEMMA PathsPart ==
  ASSUME NEW a \in Path, NEW b \in Path, a \notin Ancestors(b), b \notin Ancestors(a)
  PROVE  \E q \in Path : /\ q \in Ancestors(a) /\ q \in Ancestors(b)
                         /\ \A m \in Path : m \in Ancestors(a) /\ m \in Ancestors(b) => m \in Ancestors(q)
                         /\ \/ Left(q) \in Ancestors(b) /\ Left(q) \notin Ancestors(a)
                            \/ Right(q) \in Ancestors(b) /\ Right(q) \notin Ancestors(a)
<1> DEFINE D == {i \in Nat : i \in 1 .. Len(a) /\ i \in 1 .. Len(b) /\ a[i] # b[i]}
<1>0. Len(a) \in Nat /\ Len(b) \in Nat /\ a \in Seq({"left", "right"}) /\ b \in Seq({"left", "right"})
  BY DEF Path
<1>1. D # {}
  <2>1. Len(a) <= Len(b) \/ Len(b) <= Len(a)
    BY <1>0
  <2>2. CASE Len(a) <= Len(b)
    <3>1. PICK i \in 1 .. Len(a) : a[i] # b[i]
      BY <2>2, AncestorIs
    <3> QED BY <1>0, <2>2, <3>1
  <2>3. CASE Len(b) <= Len(a)
    <3>1. PICK i \in 1 .. Len(b) : b[i] # a[i]
      BY <2>3, AncestorIs
    <3> QED BY <1>0, <2>3, <3>1
  <2> QED BY <2>1, <2>2, <2>3
<1>2. PICK i \in D : \A j \in D : i <= j
  <2> HIDE DEF D
  <2>1. D \subseteq Nat
    BY DEF D
  <2> QED BY <1>1, <2>1, LeastNat, Zenon
<1>3. /\ i \in Nat /\ i \in 1 .. Len(a) /\ i \in 1 .. Len(b) /\ a[i] # b[i]
      /\ \A j \in 1 .. i - 1 : a[j] = b[j]
  BY <1>0, <1>2
<1> HIDE DEF D
<1> DEFINE q == SubSeq(a, 1, i - 1)
<1>4. q \in Path /\ Len(q) = i - 1 /\ \A j \in 1 .. i - 1 : q[j] = a[j] /\ q[j] = b[j]
  BY <1>0, <1>3 DEF Path
<1> HIDE DEF q
<1>5. q \in Ancestors(a) /\ q \in Ancestors(b)
  BY <1>0, <1>3, <1>4, AncestorIs
<1>6. ASSUME NEW m \in Path, m \in Ancestors(a), m \in Ancestors(b) PROVE m \in Ancestors(q)
  <2>1. /\ Len(m) \in Nat /\ Len(m) <= Len(a) /\ Len(m) <= Len(b)
        /\ \A k \in 1 .. Len(m) : m[k] = a[k] /\ m[k] = b[k]
    BY <1>6, AncestorIs DEF Path
  <2>2. Len(m) < i
    BY <1>3, <2>1
  <2>3. \A k \in 1 .. Len(m) : k \in 1 .. i - 1 /\ m[k] = q[k]
    BY <1>3, <1>4, <2>1, <2>2
  <2> QED BY <1>3, <1>4, <2>1, <2>2, <2>3, AncestorIs
<1>7. ASSUME NEW c \in Path, Len(c) = i, c[i] = b[i], \A k \in 1 .. i - 1 : c[k] = q[k]
      PROVE  c \in Ancestors(b) /\ c \notin Ancestors(a)
  <2>1. \A k \in 1 .. i : c[k] = b[k]
    BY <1>3, <1>4, <1>7
  <2> QED BY <1>0, <1>3, <1>7, <2>1, AncestorIs
<1>8. /\ Left(q) \in Path /\ Len(Left(q)) = i /\ Left(q)[i] = "left"
      /\ Right(q) \in Path /\ Len(Right(q)) = i /\ Right(q)[i] = "right"
      /\ \A k \in 1 .. i - 1 : Left(q)[k] = q[k] /\ Right(q)[k] = q[k]
  BY <1>3, <1>4 DEF Left, Right, Path
<1>9. b[i] \in {"left", "right"}
  BY <1>0, <1>3
<1>10. \/ Left(q) \in Ancestors(b) /\ Left(q) \notin Ancestors(a)
       \/ Right(q) \in Ancestors(b) /\ Right(q) \notin Ancestors(a)
  BY <1>7, <1>8, <1>9
<1> QED BY <1>4, <1>5, <1>6, <1>10, Zenon

\* Unmarking the node of a state and its ancestors up to the first with another child of ours.
LEMMA UnmarkKeeps ==
  ASSUME NEW t, IsTree(t), NEW s \in InTree(t), NEW id \in Nat,
         \A j \in Nat : TagExact(t, j)
  PROVE  LET u == Unmark(t, NodeOf(t, s), id)
         IN /\ IsTree(u) /\ InTree(u) = InTree(t)
            /\ \A j \in Nat : TagExact(u, j)
            /\ Tagged(u, id) = Tagged(t, id) \ {s}
            /\ \A j \in Nat \ {id} : Tagged(u, j) = Tagged(t, j)
<1> DEFINE n == NodeOf(t, s)
           u == Unmark(t, n, id)
           U == UnmarkedBy(t, n, id)
<1>1. /\ n \in DOMAIN t /\ n \in Path /\ t[n].state = s /\ s # NULL
      /\ \A m \in DOMAIN t : t[m].state = s => m = n
  BY NodeIs, Zenon
<1> HIDE DEF n
<1>2. /\ \A m \in DOMAIN t : t[m] \in TreeNode /\ m \in Path
      /\ \A m \in DOMAIN t, p \in Path : p \in Ancestors(m) => p \in DOMAIN t
      /\ \A m, k \in DOMAIN t : t[m].state # NULL /\ m \in Ancestors(k) => k = m
  BY Zenon DEF IsTree
<1>3. /\ DOMAIN u = DOMAIN t
      /\ \A m \in DOMAIN t : u[m] = IF m \in U THEN [t[m] EXCEPT !.tag = @ \ {id}] ELSE t[m]
      /\ u = [m \in DOMAIN t |-> u[m]]
  BY Zenon DEF Unmark
<1> HIDE DEF u
<1>4. \A m \in DOMAIN t : /\ u[m] \in TreeNode /\ u[m].state = t[m].state
                          /\ u[m].tag = IF m \in U THEN t[m].tag \ {id} ELSE t[m].tag
  <2> HIDE DEF U
  <2> SUFFICES ASSUME NEW m \in DOMAIN t
               PROVE  /\ u[m] \in TreeNode /\ u[m].state = t[m].state
                      /\ u[m].tag = IF m \in U THEN t[m].tag \ {id} ELSE t[m].tag
    OBVIOUS
  <2> DEFINE r == t[m]
  <2>1. r \in TreeNode
    BY <1>2, Zenon
  <2>2. u[m] = IF m \in U THEN [r EXCEPT !.tag = @ \ {id}] ELSE r
    BY <1>3, Zenon
  <2> HIDE DEF r
  <2>3. /\ u[m] \in TreeNode /\ u[m].state = r.state
        /\ u[m].tag = IF m \in U THEN r.tag \ {id} ELSE r.tag
    BY <2>1, <2>2, SMT DEF TreeNode
  <2> QED BY <2>3 DEF r
<1>5. u \in [DOMAIN t -> TreeNode] /\ \A m \in DOMAIN t : u[m].state = t[m].state
  BY <1>3, <1>4, Zenon
<1>6. IsTree(u) /\ InTree(u) = InTree(t)
  BY <1>3, <1>5, RetaggedTree, Zenon
<1>7. /\ \A p \in U : p \in Ancestors(n) /\ p \in Path
      /\ \A p \in U, q \in Path, c \in DOMAIN t :
           q \in Ancestors(n) /\ p \in Ancestors(q) /\ c \in {Left(q), Right(q)} /\ id \in t[c].tag
             => c \in Ancestors(n)
      /\ \A p \in Path : p \in Ancestors(n) /\ p \notin U =>
            \E q \in Path, c \in DOMAIN t : /\ p \in Ancestors(q) /\ q \in Ancestors(n)
                                            /\ c \in {Left(q), Right(q)} /\ id \in t[c].tag
                                            /\ c \notin Ancestors(n)
  <2>1. \A p \in Path : p \in Ancestors(n) <=> p \in Ancestors(n)
    BY <1>1, AncestorOrder
  <2>2. Ancestors(n) \subseteq Path
    BY <1>1, AncestorOrder
  <2> QED BY <2>1, <2>2, Zenon DEF UnmarkedBy, Ours, Children
<1> HIDE DEF U
<1>8. n \in U
  <2>1. SUFFICES ASSUME n \notin U PROVE FALSE
    OBVIOUS
  <2>2. n \in Ancestors(n)
    BY <1>1, AncestorOrder
  <2>3. PICK q \in Path, c \in DOMAIN t : /\ n \in Ancestors(q) /\ q \in Ancestors(n)
                                          /\ c \in {Left(q), Right(q)}
    BY <1>1, <1>7, <2>1, <2>2, Zenon
  <2>4. q = n
    BY <1>1, <2>3, AncestorOrder
  <2>5. n \in Ancestors(c) /\ c # n
    BY <1>1, <2>3, <2>4, ChildPaths
  <2> QED BY <1>1, <1>2, <2>5, Zenon
<1>9. \A k \in U : t[k].state # NULL /\ k \in DOMAIN t => k = n
  BY <1>1, <1>2, <1>7, Zenon
<1>10. \A k \in DOMAIN t : id \in u[k].tag <=> id \in t[k].tag /\ k \notin U
  BY <1>4, Zenon
<1>11. ASSUME NEW m \in DOMAIN u, id \in u[m].tag
       PROVE  \E k \in DOMAIN u : m \in Ancestors(k) /\ u[k].state # NULL /\ id \in u[k].tag
  <2>0. m \in DOMAIN t /\ m \in Path /\ id \in t[m].tag /\ m \notin U /\ TagExact(t, id)
    BY <1>2, <1>3, <1>10, <1>11, Zenon
  <2>1. CASE m \notin Ancestors(n)
    <3>1. PICK k \in DOMAIN t : m \in Ancestors(k) /\ t[k].state # NULL /\ id \in t[k].tag
      BY <2>0, Zenon DEF TagExact
    <3>2. k \notin U
      BY <1>9, <2>1, <3>1, Zenon
    <3> QED BY <1>3, <1>5, <1>10, <3>1, <3>2, Zenon
  <2>2. CASE m \in Ancestors(n)
    <3>1. PICK q \in Path, c \in DOMAIN t : /\ m \in Ancestors(q) /\ q \in Ancestors(n)
                                            /\ c \in {Left(q), Right(q)} /\ id \in t[c].tag
                                            /\ c \notin Ancestors(n)
      BY <1>7, <2>0, <2>2, Zenon
    <3>2. PICK k \in DOMAIN t : c \in Ancestors(k) /\ t[k].state # NULL /\ id \in t[k].tag
      BY <2>0, <3>1, Zenon DEF TagExact
    <3>3. k \notin U
      BY <1>9, <3>1, <3>2, Zenon
    <3>4. c \in Path /\ k \in Path /\ q \in Ancestors(c)
      BY <1>2, <3>1, <3>2, ChildPaths
    <3>5. m \in Ancestors(c)
      BY <2>0, <3>1, <3>4, AncestorOrder
    <3>6. m \in Ancestors(k)
      BY <2>0, <3>2, <3>4, <3>5, AncestorOrder
    <3> QED BY <1>3, <1>5, <1>10, <3>2, <3>3, <3>6, Zenon
  <2> QED BY <2>1, <2>2
<1>12. ASSUME NEW m \in DOMAIN u, NEW k \in DOMAIN u,
              m \in Ancestors(k), u[k].state # NULL, id \in u[k].tag
       PROVE  id \in u[m].tag
  <2>0. /\ m \in DOMAIN t /\ m \in Path /\ k \in DOMAIN t /\ k \in Path /\ t[k].state # NULL
        /\ id \in t[k].tag /\ k \notin U /\ TagExact(t, id)
    BY <1>2, <1>3, <1>5, <1>10, <1>12, Zenon
  <2>1. id \in t[m].tag
    BY <1>12, <2>0, Zenon DEF TagExact
  <2>2. ASSUME m \in U PROVE FALSE
    <3>1. k # n /\ m \in Ancestors(n)
      BY <1>7, <1>8, <2>0, <2>2, Zenon
    <3>2. n \notin Ancestors(k) /\ k \notin Ancestors(n)
      BY <1>1, <1>2, <2>0, <3>1, Zenon
    <3>3. PICK q \in Path : /\ q \in Ancestors(n) /\ q \in Ancestors(k)
                            /\ \A p \in Path : p \in Ancestors(n) /\ p \in Ancestors(k) => p \in Ancestors(q)
                            /\ \/ Left(q) \in Ancestors(k) /\ Left(q) \notin Ancestors(n)
                               \/ Right(q) \in Ancestors(k) /\ Right(q) \notin Ancestors(n)
      BY <1>1, <2>0, <3>2, PathsPart
    <3>4. PICK c \in {Left(q), Right(q)} : c \in Ancestors(k) /\ c \notin Ancestors(n)
      BY <3>3, Zenon
    <3>5. c \in Path
      BY <3>4, ChildPaths
    <3>6. c \in DOMAIN t
      BY <1>2, <2>0, <3>4, <3>5, Zenon
    <3>7. id \in t[c].tag
      BY <2>0, <3>4, <3>6, Zenon DEF TagExact
    <3>8. m \in Ancestors(q)
      BY <1>12, <2>0, <3>1, <3>3, Zenon
    <3> QED BY <1>7, <2>2, <3>3, <3>4, <3>6, <3>7, <3>8, Zenon
  <2> QED BY <1>10, <2>0, <2>1, <2>2, Zenon
<1>13. TagExact(u, id)
  BY <1>11, <1>12, Zenon DEF TagExact
<1>14. ASSUME NEW j \in Nat, j # id PROVE Tagged(u, j) = Tagged(t, j) /\ TagExact(u, j)
  <2>1. \A k \in DOMAIN t : j \in u[k].tag <=> j \in t[k].tag
    BY <1>4, <1>14, Zenon
  <2>2. TagExact(t, j)
    BY Zenon
  <2> QED BY <1>3, <1>5, <2>1, <2>2, UntouchedTags
<1>15. ASSUME NEW x PROVE x \in Tagged(u, id) <=> x \in Tagged(t, id) /\ x # s
  <2>2. x \in Tagged(u, id) <=> x # NULL /\ \E m \in DOMAIN u : u[m].state = x /\ id \in u[m].tag
    BY TaggedIs
  <2>3. x \in Tagged(t, id) <=> x # NULL /\ \E m \in DOMAIN t : t[m].state = x /\ id \in t[m].tag
    BY TaggedIs
  <2>4. x # NULL /\ (\E m \in DOMAIN t : t[m].state = x /\ id \in t[m].tag /\ m \notin U)
        <=> (x # NULL /\ \E m \in DOMAIN t : t[m].state = x /\ id \in t[m].tag) /\ x # s
    BY <1>1, <1>8, <1>9, Zenon
  <2>5. (\E m \in DOMAIN u : u[m].state = x /\ id \in u[m].tag)
        <=> \E m \in DOMAIN t : t[m].state = x /\ id \in t[m].tag /\ m \notin U
    BY <1>3, <1>5, <1>10, Zenon
  <2> QED BY <2>2, <2>3, <2>4, <2>5, Zenon
<1>16. Tagged(u, id) = Tagged(t, id) \ {s}
  BY <1>15, Zenon
<1>17. \A j \in Nat : TagExact(u, j)
  BY <1>13, <1>14, Zenon
<1> QED BY <1>6, <1>14, <1>16, <1>17, Zenon DEF n, u
\* A fork: the node of s becomes inner, the new state is on its left, s on its right.
LEMMA AttachKeeps ==
  ASSUME NEW t, IsTree(t), NEW s \in InTree(t), NEW new \in State, new # NULL, new \notin InTree(t),
         \A j \in Nat : TagExact(t, j)
  PROVE  LET u == Attach(t, NodeOf(t, s), new, s, NULL)
         IN /\ IsTree(u) /\ InTree(u) = InTree(t) \cup {new}
            /\ \A j \in Nat : TagExact(u, j)
            /\ \A j \in Nat : Tagged(u, j) = Tagged(t, j)
<1> DEFINE n == NodeOf(t, s)
           u == Attach(t, n, new, s, NULL)
           l == Left(n)
           r == Right(n)
<1>1. /\ n \in DOMAIN t /\ n \in Path /\ t[n].state = s /\ s # NULL /\ s \in State
      /\ \A m \in DOMAIN t : t[m].state = s => m = n
  BY NodeIs, Zenon
<1> HIDE DEF n
<1>2. /\ \A m \in DOMAIN t : t[m] \in TreeNode /\ m \in Path
      /\ \A m \in DOMAIN t, p \in Path : p \in Ancestors(m) => p \in DOMAIN t
      /\ \A m, k \in DOMAIN t : t[m].state # NULL /\ m \in Ancestors(k) => k = m
      /\ \A m \in DOMAIN t : \E k \in DOMAIN t : m \in Ancestors(k) /\ t[k].state # NULL
      /\ \A m, k \in DOMAIN t : t[m].state # NULL /\ t[m].state = t[k].state => m = k
  BY Zenon DEF IsTree
<1>3. /\ l \in Path /\ r \in Path /\ l # r /\ l # n /\ r # n /\ n \in Ancestors(l) /\ n \in Ancestors(r)
      /\ \A p \in Path : p \in Ancestors(l) => p = l \/ p \in Ancestors(n)
      /\ \A p \in Path : p \in Ancestors(r) => p = r \/ p \in Ancestors(n)
      /\ n \in Ancestors(n) /\ l \in Ancestors(l) /\ r \in Ancestors(r)
  BY <1>1, ChildPaths, AncestorOrder
<1>4. l \notin DOMAIN t /\ r \notin DOMAIN t
  BY <1>1, <1>2, <1>3, Zenon
<1>5. /\ DOMAIN u = DOMAIN t \cup {l, r} /\ u = [m \in DOMAIN u |-> u[m]]
      /\ u[l] = [state |-> new, tag |-> {}] /\ u[r] = [state |-> s, tag |-> t[n].tag]
      /\ u[n] = [t[n] EXCEPT !.state = NULL]
      /\ \A m \in DOMAIN t \ {n} : u[m] = t[m]
  <2>1. u = [m \in DOMAIN t \cup {l, r} |->
               IF m = l THEN [state |-> new, tag |-> {}]
               ELSE IF m = r THEN [state |-> s, tag |-> t[n].tag]
               ELSE IF m = n THEN [t[n] EXCEPT !.state = NULL] ELSE t[m]]
    BY Zenon DEF Attach
  <2> HIDE DEF u, l, r
  <2> QED BY <1>1, <1>3, <1>4, <2>1, Zenon
<1> HIDE DEF u, l, r
<1>6. /\ \A m \in DOMAIN u : u[m] \in TreeNode
      /\ u[l].state = new /\ u[l].tag = {} /\ u[r].state = s /\ u[r].tag = t[n].tag
      /\ u[n].state = NULL /\ u[n].tag = t[n].tag
  <2> DEFINE x == t[n]
  <2>1. x \in TreeNode
    BY <1>1, <1>2, Zenon
  <2>2. u[r] = [state |-> s, tag |-> x.tag] /\ u[n] = [x EXCEPT !.state = NULL]
    BY <1>5, Zenon
  <2> HIDE DEF x
  <2> DEFINE ul == u[l]
             ur == u[r]
             un == u[n]
  <2>a. /\ ul = [state |-> new, tag |-> {}] /\ ur = [state |-> s, tag |-> x.tag]
        /\ un = [x EXCEPT !.state = NULL]
    BY <1>5, <2>2, Zenon
  <2> HIDE DEF ul, ur, un
  <2>b. ul \in TreeNode /\ ul.state = new /\ ul.tag = {}
    BY <2>a, SMT DEF TreeNode
  <2>c. ur \in TreeNode /\ ur.state = s /\ ur.tag = x.tag
    BY <1>1, <2>1, <2>a, SMT DEF TreeNode
  <2>d. un \in TreeNode /\ un.state = NULL /\ un.tag = x.tag
    BY <2>1, <2>a, SMT DEF TreeNode
  <2>3. /\ u[r] \in TreeNode /\ u[n] \in TreeNode /\ u[l] \in TreeNode
        /\ u[l].state = new /\ u[l].tag = {} /\ u[r].state = s /\ u[r].tag = x.tag
        /\ u[n].state = NULL /\ u[n].tag = x.tag
    BY <2>b, <2>c, <2>d, Zenon DEF ul, ur, un
  <2>4. \A m \in DOMAIN u : m = l \/ m = r \/ m = n \/ (m \in DOMAIN t \ {n} /\ u[m] = t[m])
    BY <1>5, Zenon
  <2>5. \A m \in DOMAIN u : u[m] \in TreeNode
    BY <1>2, <2>3, <2>4, Zenon
  <2> QED BY <2>3, <2>5, Zenon DEF x
<1>7. \A m \in DOMAIN u : m = l \/ m = r \/ m = n \/ (m \in DOMAIN t /\ m # n)
  BY <1>5, Zenon
<1>8. \A m \in DOMAIN t : m # n => u[m].state = t[m].state /\ u[m].tag = t[m].tag
  BY <1>5, Zenon
<1>9. {l, r, n} \subseteq DOMAIN u /\ DOMAIN t \subseteq DOMAIN u
  BY <1>1, <1>5, Zenon
\* What is below a node, in the new tree.
<1>10. \A m \in DOMAIN t : (m \in Ancestors(l) <=> m \in Ancestors(n)) /\ (m \in Ancestors(r) <=> m \in Ancestors(n))
  BY <1>1, <1>2, <1>3, <1>4, AncestorOrder
<1>11. \A k \in DOMAIN t : l \notin Ancestors(k) /\ r \notin Ancestors(k)
  BY <1>2, <1>3, <1>4, Zenon
<1>12. l \notin Ancestors(r) /\ r \notin Ancestors(l)
  <2>1. l \in Ancestors(r) => l = r \/ l \in Ancestors(n)
    BY <1>3, Zenon
  <2>2. r \in Ancestors(l) => r = l \/ r \in Ancestors(n)
    BY <1>3, Zenon
  <2> QED BY <1>1, <1>3, <1>11, <2>1, <2>2, Zenon
<1>13. IsTree(u)
  <2>1. u \in [DOMAIN u -> TreeNode] /\ DOMAIN u \subseteq Path
    BY <1>2, <1>3, <1>5, <1>6, Zenon
  <2>2. \A m \in DOMAIN u, p \in Path : p \in Ancestors(m) => p \in DOMAIN u
    <3>1. \A p \in Path : p \in Ancestors(n) => p \in DOMAIN u
      BY <1>1, <1>2, <1>9, Zenon
    <3>2. \A p \in Path : p \in Ancestors(l) \/ p \in Ancestors(r) => p \in DOMAIN u
      BY <1>3, <1>9, <3>1, Zenon
    <3>3. \A m \in DOMAIN t, p \in Path : p \in Ancestors(m) => p \in DOMAIN u
      BY <1>2, <1>9, Zenon
    <3> QED BY <1>7, <3>1, <3>2, <3>3, Zenon
  <2>3. ASSUME NEW m \in DOMAIN u, NEW k \in DOMAIN u, u[m].state # NULL, m \in Ancestors(k) PROVE k = m
    <3>1. m # n
      BY <1>6, <2>3, Zenon
    <3>2. CASE m = l
      BY <1>1, <1>7, <1>11, <1>12, <2>3, <3>2, Zenon
    <3>3. CASE m = r
      BY <1>1, <1>7, <1>11, <1>12, <2>3, <3>3, Zenon
    <3>4. CASE m \in DOMAIN t
      <4>1. t[m].state # NULL
        BY <1>8, <2>3, <3>1, <3>4, Zenon
      <4>2. m \notin Ancestors(n)
        BY <1>1, <1>2, <3>1, <3>4, <4>1, Zenon
      <4>3. k \in DOMAIN t
        BY <1>7, <1>10, <2>3, <3>4, <4>2, Zenon
      <4> QED BY <1>2, <2>3, <3>4, <4>1, <4>3, Zenon
    <3> QED BY <1>7, <3>1, <3>2, <3>3, <3>4, Zenon
  <2>4. ASSUME NEW m \in DOMAIN u PROVE \E k \in DOMAIN u : m \in Ancestors(k) /\ u[k].state # NULL
    <3>1. CASE m = l \/ m = r \/ m = n
      BY <1>1, <1>3, <1>6, <1>9, <3>1, Zenon
    <3>2. CASE m \in DOMAIN t
      <4>1. PICK k \in DOMAIN t : m \in Ancestors(k) /\ t[k].state # NULL
        BY <1>2, <3>2, Zenon
      <4>2. CASE k = n
        BY <1>1, <1>6, <1>9, <1>10, <3>2, <4>1, <4>2, Zenon
      <4>3. CASE k # n
        BY <1>8, <1>9, <4>1, <4>3, Zenon
      <4> QED BY <4>2, <4>3
    <3> QED BY <1>7, <3>1, <3>2, Zenon
  <2>5. ASSUME NEW m \in DOMAIN u, NEW k \in DOMAIN u, u[m].state # NULL, u[m].state = u[k].state
        PROVE m = k
    <3>1. \A x \in DOMAIN t : t[x].state # new
      BY Zenon DEF InTree
    <3>2. m # n /\ k # n /\ s # new
      BY <1>1, <1>6, <2>5, <3>1, Zenon
    <3>3. \A x \in DOMAIN u \ {n} : x = l \/ x = r \/ (x \in DOMAIN t /\ x # n /\ u[x].state = t[x].state)
      BY <1>7, <1>8, Zenon
    <3>4. \A x \in DOMAIN t \ {n} : t[x].state # s
      BY <1>1, Zenon
    <3>5. CASE m = l
      BY <1>6, <2>5, <3>1, <3>2, <3>3, <3>5, Zenon
    <3>6. CASE m = r
      BY <1>6, <2>5, <3>2, <3>3, <3>4, <3>6, Zenon
    <3>7. CASE m \in DOMAIN t
      <4>1. u[m].state = t[m].state
        BY <1>8, <3>2, <3>7, Zenon
      <4>2. k # l /\ k # r
        BY <1>6, <2>5, <3>1, <3>2, <3>4, <3>7, <4>1, Zenon
      <4> QED BY <1>2, <2>5, <3>2, <3>3, <3>7, <4>1, <4>2, Zenon
    <3> QED BY <3>2, <3>3, <3>5, <3>6, <3>7, Zenon
  <2> QED BY <2>1, <2>2, <2>3, <2>4, <2>5, Zenon DEF IsTree
<1>14. ASSUME NEW x PROVE x \in InTree(u) <=> x \in InTree(t) \/ x = new
  <2>1. x \in InTree(u) <=> x # NULL /\ \E m \in DOMAIN u : u[m].state = x
    BY Zenon DEF InTree
  <2>2. x \in InTree(t) <=> x # NULL /\ \E m \in DOMAIN t : t[m].state = x
    BY Zenon DEF InTree
  <2>3. x # NULL => ((\E m \in DOMAIN u : u[m].state = x)
                       <=> (\E m \in DOMAIN t : t[m].state = x) \/ x = new)
    BY <1>1, <1>6, <1>7, <1>8, <1>9, Zenon
  <2> QED BY <2>1, <2>2, <2>3, Zenon
<1>15. InTree(u) = InTree(t) \cup {new}
  BY <1>14, Zenon
<1>16. ASSUME NEW j \in Nat PROVE TagExact(u, j) /\ Tagged(u, j) = Tagged(t, j)
  <2>0. TagExact(t, j)
    BY Zenon
  <2>1. j \in t[n].tag <=> j \in u[r].tag
    BY <1>6, Zenon
  <2>2. j \notin u[l].tag
    BY <1>6, Zenon
  <2>3. ASSUME NEW m \in DOMAIN t
        PROVE (\E k \in DOMAIN u : m \in Ancestors(k) /\ u[k].state # NULL /\ j \in u[k].tag)
              <=> \E k \in DOMAIN t : m \in Ancestors(k) /\ t[k].state # NULL /\ j \in t[k].tag
    BY <1>1, <1>6, <1>7, <1>8, <1>9, <1>10, <2>1, <2>2, Zenon
  <2>4. ASSUME NEW m \in DOMAIN t PROVE j \in u[m].tag <=> j \in t[m].tag
    BY <1>6, <1>8, Zenon
  <2>5. ASSUME NEW m \in DOMAIN u
        PROVE j \in u[m].tag <=> \E k \in DOMAIN u : m \in Ancestors(k) /\ u[k].state # NULL /\ j \in u[k].tag
    <3>1. CASE m \in DOMAIN t
      BY <2>0, <2>3, <2>4, <3>1, Zenon DEF TagExact
    <3>2. CASE m = l
      <4>1. \A k \in DOMAIN u : l \in Ancestors(k) => k = l
        BY <1>1, <1>7, <1>11, <1>12, Zenon
      <4> QED BY <2>2, <3>2, <4>1, Zenon
    <3>3. CASE m = r
      <4>1. \A k \in DOMAIN u : r \in Ancestors(k) => k = r
        BY <1>1, <1>7, <1>11, <1>12, Zenon
      <4> QED BY <1>1, <1>3, <1>6, <1>9, <3>3, <4>1, Zenon
    <3> QED BY <1>5, <3>1, <3>2, <3>3, Zenon
  <2>6. ASSUME NEW x PROVE x \in Tagged(u, j) <=> x \in Tagged(t, j)
    <3>1. x \in Tagged(u, j) <=> x # NULL /\ \E m \in DOMAIN u : u[m].state = x /\ j \in u[m].tag
      BY TaggedIs
    <3>2. x \in Tagged(t, j) <=> x # NULL /\ \E m \in DOMAIN t : t[m].state = x /\ j \in t[m].tag
      BY TaggedIs
    <3>3. x # NULL => ((\E m \in DOMAIN u : u[m].state = x /\ j \in u[m].tag)
                         <=> (\E m \in DOMAIN t : t[m].state = x /\ j \in t[m].tag))
      BY <1>1, <1>6, <1>7, <1>8, <1>9, <2>1, <2>2, ZenonT(40)
    <3> QED BY <3>1, <3>2, <3>3, Zenon
  <2> QED BY <2>5, <2>6, Zenon DEF TagExact
<1> QED BY <1>13, <1>15, <1>16, Zenon DEF n, u
\* The parts of IsTree.
LEMMA TreeParts ==
  ASSUME NEW t, IsTree(t)
  PROVE  /\ \A m \in DOMAIN t : t[m] \in TreeNode /\ m \in Path
         /\ \A m \in DOMAIN t, p \in Path : p \in Ancestors(m) => p \in DOMAIN t
         /\ \A m, k \in DOMAIN t : t[m].state # NULL /\ m \in Ancestors(k) => k = m
         /\ \A m \in DOMAIN t : \E k \in DOMAIN t : m \in Ancestors(k) /\ t[k].state # NULL
         /\ \A m, k \in DOMAIN t : t[m].state # NULL /\ t[m].state = t[k].state => m = k
BY Zenon DEF IsTree

\* The states of a tree, by nodes.
LEMMA InTreeIs ==
  ASSUME NEW t, NEW s
  PROVE  s \in InTree(t) <=> s # NULL /\ \E m \in DOMAIN t : t[m].state = s
BY Zenon DEF InTree

\* Deleting the node of a state and the ancestors left without children.
LEMMA PruneKeeps ==
  ASSUME NEW t, IsTree(t), NEW s \in InTree(t)
  PROVE  LET n == NodeOf(t, s)
             u == Prune(t, n)
         IN /\ IsTree(u) /\ InTree(u) = InTree(t) \ {s}
            /\ n \notin DOMAIN u /\ DOMAIN u \subseteq DOMAIN t
            /\ \A m \in DOMAIN u : u[m] = t[m]
            /\ \A j \in Nat : /\ Tagged(u, j) = Tagged(t, j) \ {s}
                              /\ TagExact(t, j) /\ s \notin Tagged(t, j) => TagExact(u, j)
<1> DEFINE n == NodeOf(t, s)
           u == Prune(t, n)
           O == Orphaned(t, n)
<1>1. /\ n \in DOMAIN t /\ n \in Path /\ t[n].state = s /\ s # NULL /\ s \in State
      /\ \A m \in DOMAIN t : t[m].state = s => m = n
  BY NodeIs, Zenon
<1> HIDE DEF n
<1>2. /\ \A m \in DOMAIN t : t[m] \in TreeNode /\ m \in Path
      /\ \A m \in DOMAIN t, p \in Path : p \in Ancestors(m) => p \in DOMAIN t
      /\ \A m, k \in DOMAIN t : t[m].state # NULL /\ m \in Ancestors(k) => k = m
      /\ \A m \in DOMAIN t : \E k \in DOMAIN t : m \in Ancestors(k) /\ t[k].state # NULL
      /\ \A m, k \in DOMAIN t : t[m].state # NULL /\ t[m].state = t[k].state => m = k
  BY TreeParts, Zenon
<1>3. /\ DOMAIN u = DOMAIN t \ O /\ u = [m \in DOMAIN u |-> u[m]]
      /\ \A m \in DOMAIN u : m \in DOMAIN t /\ m \notin O /\ u[m] = t[m]
  BY Zenon DEF Prune
<1> HIDE DEF u
<1>4. \A p \in DOMAIN t : p \in O <=> /\ p \in Ancestors(n)
                                      /\ \A m \in DOMAIN t : p \in Ancestors(m) => m \in Ancestors(n)
  BY Zenon DEF Orphaned, Subtree
<1> HIDE DEF O
<1>5. \A a, b, c \in DOMAIN t : a \in Ancestors(b) /\ b \in Ancestors(c) => a \in Ancestors(c)
  BY <1>2, AncestorOrder
<1>6. n \in O
  <2>1. n \in Ancestors(n)
    BY <1>1, AncestorOrder
  <2> QED BY <1>1, <1>2, <1>4, <2>1, Zenon
<1>7. \A k \in DOMAIN t : t[k].state # NULL /\ k # n => k \notin Ancestors(n) /\ k \in DOMAIN u
  BY <1>1, <1>2, <1>3, <1>4, Zenon
<1>8. \A m \in DOMAIN u, p \in DOMAIN t : p \in Ancestors(m) => p \in DOMAIN u
  BY <1>3, <1>4, <1>5, Zenon
\* A node that is left has a leaf that is left below it.
<1>9. ASSUME NEW m \in DOMAIN u
      PROVE  \E k \in DOMAIN u : m \in Ancestors(k) /\ u[k].state # NULL
  <2>1. PICK x \in DOMAIN t : x \notin Ancestors(n) /\ m \in Ancestors(x)
    <3>1. m \in DOMAIN t /\ m \notin O /\ m \in Ancestors(m)
      BY <1>2, <1>3, AncestorOrder
    <3> QED BY <1>4, <3>1, Zenon
  <2>2. PICK k \in DOMAIN t : x \in Ancestors(k) /\ t[k].state # NULL
    BY <1>2, Zenon
  <2>3. k # n
    BY <2>1, <2>2, Zenon
  <2>4. k \in DOMAIN u /\ m \in Ancestors(k)
    BY <1>3, <1>5, <1>7, <2>1, <2>2, <2>3, Zenon
  <2> QED BY <1>3, <2>2, <2>4, Zenon
<1>10. IsTree(u)
  <2>1. u \in [DOMAIN u -> TreeNode] /\ DOMAIN u \subseteq Path
    BY <1>2, <1>3, Zenon
  <2>2. \A m \in DOMAIN u, p \in Path : p \in Ancestors(m) => p \in DOMAIN u
    BY <1>2, <1>3, <1>8, Zenon
  <2>3. \A m, k \in DOMAIN u : u[m].state # NULL /\ m \in Ancestors(k) => k = m
    BY <1>2, <1>3, Zenon
  <2>4. \A m, k \in DOMAIN u : u[m].state # NULL /\ u[m].state = u[k].state => m = k
    BY <1>2, <1>3, Zenon
  <2> QED BY <1>9, <2>1, <2>2, <2>3, <2>4, Zenon DEF IsTree
<1>11. ASSUME NEW x PROVE x \in InTree(u) <=> x \in InTree(t) /\ x # s
  <2>1. x \in InTree(u) <=> x # NULL /\ \E m \in DOMAIN u : u[m].state = x
    BY InTreeIs
  <2>2. x \in InTree(t) <=> x # NULL /\ \E m \in DOMAIN t : t[m].state = x
    BY InTreeIs
  <2>3. x # NULL => ((\E m \in DOMAIN u : u[m].state = x)
                       <=> (\E m \in DOMAIN t : t[m].state = x) /\ x # s)
    BY <1>1, <1>3, <1>6, <1>7, Zenon
  <2> QED BY <2>1, <2>2, <2>3, Zenon
<1>12. ASSUME NEW j, NEW x PROVE x \in Tagged(u, j) <=> x \in Tagged(t, j) /\ x # s
  <2>1. x \in Tagged(u, j) <=> x # NULL /\ \E m \in DOMAIN u : u[m].state = x /\ j \in u[m].tag
    BY TaggedIs
  <2>2. x \in Tagged(t, j) <=> x # NULL /\ \E m \in DOMAIN t : t[m].state = x /\ j \in t[m].tag
    BY TaggedIs
  <2>3. x # NULL => ((\E m \in DOMAIN u : u[m].state = x /\ j \in u[m].tag)
                       <=> (\E m \in DOMAIN t : t[m].state = x /\ j \in t[m].tag) /\ x # s)
    BY <1>1, <1>3, <1>6, <1>7, Zenon
  <2> QED BY <2>1, <2>2, <2>3, Zenon
<1>13. ASSUME NEW j, TagExact(t, j), s \notin Tagged(t, j) PROVE TagExact(u, j)
  <2>1. j \notin t[n].tag
    <3>1. s \in Tagged(t, j) <=> s # NULL /\ \E m \in DOMAIN t : t[m].state = s /\ j \in t[m].tag
      BY TaggedIs
    <3> QED BY <1>1, <1>13, <3>1, Zenon
  <2>2. ASSUME NEW m \in DOMAIN u
        PROVE j \in u[m].tag <=> \E k \in DOMAIN u : m \in Ancestors(k) /\ u[k].state # NULL /\ j \in u[k].tag
    <3>1. j \in t[m].tag <=> \E k \in DOMAIN t : m \in Ancestors(k) /\ t[k].state # NULL /\ j \in t[k].tag
      BY <1>3, <1>13, Zenon DEF TagExact
    <3> QED BY <1>3, <1>7, <2>1, <3>1, Zenon
  <2> QED BY <2>2, Zenon DEF TagExact
<1>14. InTree(u) = InTree(t) \ {s}
  BY <1>11, Zenon
<1>15. \A j \in Nat : Tagged(u, j) = Tagged(t, j) \ {s}
  BY <1>12, Zenon
<1> QED BY <1>3, <1>6, <1>10, <1>13, <1>14, <1>15, Zenon DEF n, u

\* The moved nodes are below n as they were below c.
LEMMA UnderIs ==
  ASSUME NEW n \in Path, NEW c \in {Left(n), Right(n)}
  PROVE  /\ \A a \in Path : c \in Ancestors(a) => Under(n, c, a) \in Path /\ n \in Ancestors(Under(n, c, a))
         /\ \A a, b \in Path : c \in Ancestors(a) /\ c \in Ancestors(b)
              => (Under(n, c, a) \in Ancestors(Under(n, c, b)) <=> a \in Ancestors(b))
         /\ \A b, q \in Path : c \in Ancestors(b) /\ n \in Ancestors(q) /\ q \in Ancestors(Under(n, c, b))
              => \E a \in Path : c \in Ancestors(a) /\ a \in Ancestors(b) /\ Under(n, c, a) = q
<1>0. /\ Len(n) \in Nat /\ c \in Path /\ Len(c) = Len(n) + 1
      /\ \A i \in 1 .. Len(n) : c[i] = n[i]
  BY DEF Left, Right, Path
<1>1. ASSUME NEW a \in Path, c \in Ancestors(a)
      PROVE  /\ Len(a) \in Nat /\ Len(a) >= Len(n) + 1 /\ \A i \in 1 .. Len(n) + 1 : a[i] = c[i]
             /\ Under(n, c, a) \in Path /\ Len(Under(n, c, a)) = Len(a) - 1
             /\ \A i \in 1 .. Len(n) : Under(n, c, a)[i] = n[i]
             /\ \A i \in Len(n) + 1 .. Len(a) - 1 : Under(n, c, a)[i] = a[i + 1]
  <2>1. Len(a) \in Nat /\ Len(a) >= Len(n) + 1 /\ \A i \in 1 .. Len(n) + 1 : a[i] = c[i]
    BY <1>0, <1>1, AncestorIs DEF Path
  <2> DEFINE r == SubSeq(a, Len(n) + 2, Len(a))
  <2>2. r \in Path /\ Len(r) = Len(a) - Len(n) - 1 /\ \A i \in 1 .. Len(r) : r[i] = a[Len(n) + 1 + i]
    BY <1>0, <2>1 DEF Path
  <2>3. Under(n, c, a) = n \o r
    BY <1>0, SMTT(30) DEF Under
  <2> HIDE DEF r
  <2>4. /\ n \o r \in Path /\ Len(n \o r) = Len(n) + Len(r)
        /\ \A i \in 1 .. Len(n) : (n \o r)[i] = n[i]
        /\ \A i \in Len(n) + 1 .. Len(n) + Len(r) : (n \o r)[i] = r[i - Len(n)]
    BY <1>0, <2>2 DEF Path
  <2>5. ASSUME NEW i \in Len(n) + 1 .. Len(a) - 1 PROVE (n \o r)[i] = a[i + 1]
    <3>1. i - Len(n) \in 1 .. Len(r) /\ Len(n) + 1 + (i - Len(n)) = i + 1
      BY <1>0, <2>1, <2>2
    <3> QED BY <1>0, <2>1, <2>2, <2>4, <3>1
  <2> QED BY <1>0, <2>1, <2>2, <2>3, <2>4, <2>5
<1>2. \A a \in Path : c \in Ancestors(a) => Under(n, c, a) \in Path /\ n \in Ancestors(Under(n, c, a))
  BY <1>0, <1>1, AncestorIs
<1>3. ASSUME NEW a \in Path, NEW b \in Path, c \in Ancestors(a), c \in Ancestors(b)
      PROVE  Under(n, c, a) \in Ancestors(Under(n, c, b)) <=> a \in Ancestors(b)
  <2> DEFINE ua == Under(n, c, a)
             ub == Under(n, c, b)
  <2>1. /\ Len(a) \in Nat /\ Len(a) >= Len(n) + 1 /\ \A i \in 1 .. Len(n) + 1 : a[i] = c[i]
        /\ ua \in Path /\ Len(ua) = Len(a) - 1
        /\ \A i \in 1 .. Len(n) : ua[i] = n[i]
        /\ \A i \in Len(n) + 1 .. Len(a) - 1 : ua[i] = a[i + 1]
    BY <1>1, <1>3
  <2>2. /\ Len(b) \in Nat /\ Len(b) >= Len(n) + 1 /\ \A i \in 1 .. Len(n) + 1 : b[i] = c[i]
        /\ ub \in Path /\ Len(ub) = Len(b) - 1
        /\ \A i \in 1 .. Len(n) : ub[i] = n[i]
        /\ \A i \in Len(n) + 1 .. Len(b) - 1 : ub[i] = b[i + 1]
    BY <1>1, <1>3
  <2> HIDE DEF ua, ub
  <2>3. ASSUME a \in Ancestors(b) PROVE ua \in Ancestors(ub)
    <3>1. Len(a) <= Len(b) /\ \A i \in 1 .. Len(a) : a[i] = b[i]
      BY <2>3, AncestorIs
    <3>2. ASSUME NEW i \in 1 .. Len(ua) PROVE ua[i] = ub[i]
      <4>1. CASE i <= Len(n)
        BY <1>0, <2>1, <2>2, <4>1
      <4>2. CASE ~(i <= Len(n))
        <5>1. i \in Len(n) + 1 .. Len(a) - 1 /\ i \in Len(n) + 1 .. Len(b) - 1 /\ i + 1 \in 1 .. Len(a)
          BY <1>0, <2>1, <2>2, <3>1, <4>2
        <5> QED BY <2>1, <2>2, <3>1, <5>1, SMTT(30)
      <4> QED BY <4>1, <4>2
    <3>3. Len(ua) <= Len(ub)
      BY <2>1, <2>2, <3>1
    <3> QED BY <2>1, <2>2, <3>2, <3>3, AncestorIs
  <2>4. ASSUME ua \in Ancestors(ub) PROVE a \in Ancestors(b)
    <3>1. Len(ua) <= Len(ub) /\ \A i \in 1 .. Len(ua) : ua[i] = ub[i]
      BY <2>1, <2>2, <2>4, AncestorIs
    <3>2. Len(a) <= Len(b)
      BY <2>1, <2>2, <3>1
    <3>3. ASSUME NEW i \in 1 .. Len(a) PROVE a[i] = b[i]
      <4>1. CASE i <= Len(n) + 1
        BY <1>0, <2>1, <2>2, <4>1
      <4>2. CASE ~(i <= Len(n) + 1)
        <5>1. /\ i - 1 \in Len(n) + 1 .. Len(a) - 1 /\ i - 1 \in Len(n) + 1 .. Len(b) - 1
              /\ i - 1 \in 1 .. Len(ua) /\ (i - 1) + 1 = i
          BY <1>0, <2>1, <2>2, <3>2, <4>2
        <5>2. ua[i - 1] = a[i] /\ ub[i - 1] = b[i]
          BY <2>1, <2>2, <5>1
        <5> QED BY <3>1, <5>1, <5>2
      <4> QED BY <4>1, <4>2
    <3> QED BY <3>2, <3>3, AncestorIs
  <2> QED BY <2>3, <2>4 DEF ua, ub
<1>4. ASSUME NEW b \in Path, NEW q \in Path, c \in Ancestors(b), n \in Ancestors(q),
             q \in Ancestors(Under(n, c, b))
      PROVE  \E a \in Path : c \in Ancestors(a) /\ a \in Ancestors(b) /\ Under(n, c, a) = q
  <2> DEFINE ub == Under(n, c, b)
             a == SubSeq(b, 1, Len(q) + 1)
             ua == Under(n, c, a)
  <2>1. /\ Len(b) \in Nat /\ Len(b) >= Len(n) + 1 /\ \A i \in 1 .. Len(n) + 1 : b[i] = c[i]
        /\ ub \in Path /\ Len(ub) = Len(b) - 1
        /\ \A i \in 1 .. Len(n) : ub[i] = n[i]
        /\ \A i \in Len(n) + 1 .. Len(b) - 1 : ub[i] = b[i + 1]
    BY <1>1, <1>4
  <2>2. /\ Len(q) \in Nat /\ Len(n) <= Len(q) /\ Len(q) <= Len(ub) /\ \A i \in 1 .. Len(q) : q[i] = ub[i]
    <3> HIDE DEF ub
    <3> QED BY <1>4, <2>1, AncestorIs DEF Path, ub
  <2>3. a \in Path /\ Len(a) = Len(q) + 1 /\ \A i \in 1 .. Len(q) + 1 : a[i] = b[i]
    <3> HIDE DEF ub
    <3> QED BY <2>1, <2>2 DEF Path
  <2> HIDE DEF ub, a
  <2>4. c \in Ancestors(a) /\ a \in Ancestors(b)
    <3>1. /\ Len(c) <= Len(a) /\ \A i \in 1 .. Len(c) : c[i] = a[i]
          /\ Len(a) <= Len(b) /\ \A i \in 1 .. Len(a) : a[i] = b[i]
      BY <1>0, <2>1, <2>2, <2>3
    <3> QED BY <1>0, <2>3, <3>1, AncestorIs
  <2>5. /\ ua \in Path /\ Len(ua) = Len(a) - 1
        /\ \A i \in 1 .. Len(n) : ua[i] = n[i]
        /\ \A i \in Len(n) + 1 .. Len(a) - 1 : ua[i] = a[i + 1]
    BY <1>1, <2>3, <2>4, SMTT(30)
  <2> HIDE DEF ua
  <2>6. ASSUME NEW i \in 1 .. Len(q) PROVE ua[i] = q[i]
    <3>1. CASE i <= Len(n)
      BY <1>0, <2>1, <2>2, <2>5, <3>1
    <3>2. CASE ~(i <= Len(n))
      <4>1. i \in Len(n) + 1 .. Len(a) - 1 /\ i \in Len(n) + 1 .. Len(b) - 1 /\ i + 1 \in 1 .. Len(q) + 1
        BY <1>0, <2>1, <2>2, <2>3, <3>2
      <4> QED BY <2>1, <2>2, <2>3, <2>5, <4>1, Zenon
    <3> QED BY <3>1, <3>2
  <2>7. Len(ua) = Len(q)
    BY <2>2, <2>3, <2>5
  <2>8. ua = q
    BY <2>5, <2>6, <2>7, SMTT(30) DEF Path
  <2> QED BY <2>3, <2>4, <2>8, Zenon DEF ua
<1> QED BY <1>2, <1>3, <1>4, Zenon
\* The only child of an inner node takes its place.
LEMMA SpliceKeeps ==
  ASSUME NEW t, IsTree(t), NEW n \in DOMAIN t, t[n].state = NULL,
         NEW c \in DOMAIN t, Children(t, n) = {c}
  PROVE  LET u == Splice(t, n, c)
         IN /\ IsTree(u) /\ InTree(u) = InTree(t)
            /\ \A j \in Nat : Tagged(u, j) = Tagged(t, j) /\ (TagExact(t, j) => TagExact(u, j))
<1> DEFINE f(m) == Under(n, c, m)
           K == DOMAIN t \ Subtree(t, n)
           M == Subtree(t, c)
           u == Splice(t, n, c)
<1>1. /\ \A m \in DOMAIN t : t[m] \in TreeNode /\ m \in Path
      /\ \A m \in DOMAIN t, p \in Path : p \in Ancestors(m) => p \in DOMAIN t
      /\ \A m, k \in DOMAIN t : t[m].state # NULL /\ m \in Ancestors(k) => k = m
      /\ \A m \in DOMAIN t : \E k \in DOMAIN t : m \in Ancestors(k) /\ t[k].state # NULL
      /\ \A m, k \in DOMAIN t : t[m].state # NULL /\ t[m].state = t[k].state => m = k
  BY TreeParts, Zenon
<1>2. n \in Path /\ c \in Path /\ c \in {Left(n), Right(n)}
  BY <1>1, Zenon DEF Children
<1>3. /\ \A a \in Path : c \in Ancestors(a) => f(a) \in Path /\ n \in Ancestors(f(a))
      /\ \A a, b \in Path : c \in Ancestors(a) /\ c \in Ancestors(b)
           => (f(a) \in Ancestors(f(b)) <=> a \in Ancestors(b))
      /\ \A b, q \in Path : c \in Ancestors(b) /\ n \in Ancestors(q) /\ q \in Ancestors(f(b))
           => \E a \in Path : c \in Ancestors(a) /\ a \in Ancestors(b) /\ f(a) = q
  BY <1>2, UnderIs
<1>4. /\ \A m : m \in K <=> m \in DOMAIN t /\ n \notin Ancestors(m)
      /\ \A m : m \in M <=> m \in DOMAIN t /\ c \in Ancestors(m)
  BY Zenon DEF Subtree
<1>5. u = [m \in K \cup {f(d) : d \in M} |-> IF m \in K THEN t[m] ELSE t[CHOOSE d \in M : f(d) = m]]
  BY Zenon DEF Splice
<1> HIDE DEF f, K, M, u
<1>6. /\ \A p, q, r \in Path : p \in Ancestors(q) /\ q \in Ancestors(r) => p \in Ancestors(r)
      /\ \A p, q \in Path : p \in Ancestors(q) /\ q \in Ancestors(p) => p = q
      /\ \A p, q, r \in Path : p \in Ancestors(r) /\ q \in Ancestors(r) => p \in Ancestors(q) \/ q \in Ancestors(p)
      /\ \A p \in Path : p \in Ancestors(p)
  BY AncestorOrder
<1>7. ASSUME NEW a \in M, NEW b \in M, f(a) = f(b) PROVE a = b
  BY <1>1, <1>3, <1>4, <1>6, <1>7, Zenon
<1>8. ASSUME NEW d \in M PROVE f(d) \in Path /\ n \in Ancestors(f(d)) /\ f(d) \notin K
  BY <1>1, <1>3, <1>4, ZenonT(40)
<1>9. /\ DOMAIN u = K \cup {f(d) : d \in M} /\ u = [m \in DOMAIN u |-> u[m]]
      /\ \A m \in K : m \in DOMAIN u /\ u[m] = t[m]
      /\ \A d \in M : f(d) \in DOMAIN u /\ u[f(d)] = t[d]
  <2>1. \A m \in K : m \in DOMAIN u /\ u[m] = t[m]
    BY <1>5, Zenon
  <2>2. ASSUME NEW d \in M PROVE f(d) \in DOMAIN u /\ u[f(d)] = t[d]
    <3>1. (CHOOSE e \in M : f(e) = f(d)) \in M /\ f(CHOOSE e \in M : f(e) = f(d)) = f(d)
      BY Zenon
    <3>2. (CHOOSE e \in M : f(e) = f(d)) = d
      BY <1>7, <3>1, Zenon
    <3> QED BY <1>5, <1>8, <3>2, Zenon
  <2> QED BY <1>5, <2>1, <2>2, ZenonT(40)
<1>10. \A m \in DOMAIN u : m \in K \/ \E d \in M : m = f(d)
  BY <1>9, Zenon
\* Below n there are only n itself and what is below its child.
<1>11. ASSUME NEW m \in DOMAIN t, n \in Ancestors(m), m # n PROVE m \in M
  <2>1. Left(n) \in Ancestors(m) \/ Right(n) \in Ancestors(m)
    BY <1>1, <1>2, <1>11, ChildPaths
  <2>2. Left(n) \in Path /\ Right(n) \in Path
    BY <1>2, ChildPaths
  <2>3. \E d \in Children(t, n) : d \in Ancestors(m)
    BY <1>1, <2>1, <2>2, Zenon DEF Children
  <2> QED BY <1>4, <2>3, Zenon
<1>12. \A m \in DOMAIN t : m \in K \/ m \in M \/ m = n
  BY <1>4, <1>11, Zenon
\* What is above what, before and after.
<1>13. ASSUME NEW x \in K, NEW b \in M PROVE x \in Ancestors(f(b)) <=> x \in Ancestors(b)
  <2>1. n \in Ancestors(b) /\ b \in Path /\ x \in Path /\ x \in DOMAIN t /\ n \notin Ancestors(x)
    <3>1. n \in Ancestors(c)
      BY <1>2, ChildPaths
    <3> QED BY <1>1, <1>2, <1>4, <1>6, <3>1, Zenon
  <2>2. f(b) \in Path /\ n \in Ancestors(f(b))
    BY <1>8
  <2> QED BY <1>2, <1>6, <2>1, <2>2, Zenon
<1>14. ASSUME NEW x \in K, NEW b \in M PROVE f(b) \notin Ancestors(x) /\ b \notin Ancestors(x)
  <2>1. n \in Ancestors(b) /\ b \in Path /\ x \in Path /\ n \notin Ancestors(x)
    <3>1. n \in Ancestors(c)
      BY <1>2, ChildPaths
    <3> QED BY <1>1, <1>2, <1>4, <1>6, <3>1, Zenon
  <2>2. f(b) \in Path /\ n \in Ancestors(f(b))
    BY <1>8
  <2> QED BY <1>2, <1>6, <2>1, <2>2, Zenon
<1>15. \A a, b \in M : f(a) \in Ancestors(f(b)) <=> a \in Ancestors(b)
  BY <1>1, <1>3, <1>4, Zenon
\* The leaves below a node.
<1>16. ASSUME NEW x \in K
       PROVE  \A j : (\E k \in DOMAIN u : x \in Ancestors(k) /\ u[k].state # NULL /\ j \in u[k].tag)
                  <=> (\E k \in DOMAIN t : x \in Ancestors(k) /\ t[k].state # NULL /\ j \in t[k].tag)
  <2>1. ASSUME NEW j, NEW k \in DOMAIN u, x \in Ancestors(k), u[k].state # NULL, j \in u[k].tag
        PROVE \E e \in DOMAIN t : x \in Ancestors(e) /\ t[e].state # NULL /\ j \in t[e].tag
    <3>1. CASE k \in K
      BY <1>4, <1>9, <2>1, <3>1, Zenon
    <3>2. ASSUME NEW d \in M, k = f(d) PROVE \E e \in DOMAIN t : x \in Ancestors(e) /\ t[e].state # NULL /\ j \in t[e].tag
      <4>1. d \in DOMAIN t /\ u[k] = t[d]
        BY <1>4, <1>9, <3>2, Zenon
      <4>2. x \in Ancestors(d)
        BY <1>13, <2>1, <3>2
      <4> QED BY <2>1, <4>1, <4>2, Zenon
    <3> QED BY <1>10, <3>1, <3>2, Zenon
  <2>2. ASSUME NEW j, NEW k \in DOMAIN t, x \in Ancestors(k), t[k].state # NULL, j \in t[k].tag
        PROVE \E e \in DOMAIN u : x \in Ancestors(e) /\ u[e].state # NULL /\ j \in u[e].tag
    <3>1. CASE k \in K
      BY <1>9, <2>2, <3>1, Zenon
    <3>2. CASE k \in M
      BY <1>9, <1>13, <2>2, <3>2, Zenon
    <3> QED BY <1>12, <2>2, <3>1, <3>2, Zenon
  <2> QED BY <2>1, <2>2, Zenon
<1>17. ASSUME NEW a \in M
       PROVE  \A j : (\E k \in DOMAIN u : f(a) \in Ancestors(k) /\ u[k].state # NULL /\ j \in u[k].tag)
                  <=> (\E k \in DOMAIN t : a \in Ancestors(k) /\ t[k].state # NULL /\ j \in t[k].tag)
  <2>1. ASSUME NEW j, NEW k \in DOMAIN u, f(a) \in Ancestors(k), u[k].state # NULL, j \in u[k].tag
        PROVE \E e \in DOMAIN t : a \in Ancestors(e) /\ t[e].state # NULL /\ j \in t[e].tag
    <3>1. k \notin K
      BY <1>14, <2>1, Zenon
    <3>2. PICK d \in M : k = f(d)
      BY <1>10, <3>1, Zenon
    <3> QED BY <1>4, <1>9, <1>15, <2>1, <3>2, ZenonT(40)
  <2>2. ASSUME NEW j, NEW k \in DOMAIN t, a \in Ancestors(k), t[k].state # NULL, j \in t[k].tag
        PROVE \E e \in DOMAIN u : f(a) \in Ancestors(e) /\ u[e].state # NULL /\ j \in u[e].tag
    <3>1. k \in M
      BY <1>12, <1>14, <2>2, Zenon
    <3> QED BY <1>9, <1>15, <2>2, <3>1, Zenon
  <2> QED BY <2>1, <2>2, Zenon
<1>18. IsTree(u)
  <2>1. u \in [DOMAIN u -> TreeNode] /\ DOMAIN u \subseteq Path
    <3>1. ASSUME NEW m \in DOMAIN u PROVE m \in Path /\ u[m] \in TreeNode
      <4>1. CASE m \in K
        BY <1>1, <1>4, <1>9, <4>1, Zenon
      <4>2. ASSUME NEW d \in M, m = f(d) PROVE m \in Path /\ u[m] \in TreeNode
        BY <1>1, <1>4, <1>8, <1>9, <4>2, Zenon
      <4> QED BY <1>10, <4>1, <4>2, Zenon
    <3> QED BY <1>9, <3>1, Zenon
  <2>2. ASSUME NEW m \in DOMAIN u, NEW p \in Path, p \in Ancestors(m) PROVE p \in DOMAIN u
    <3>1. CASE m \in K
      <4>1. p \in K
        BY <1>1, <1>2, <1>4, <1>6, <2>2, <3>1, Zenon
      <4> QED BY <1>9, <4>1, Zenon
    <3>2. ASSUME NEW d \in M, m = f(d) PROVE p \in DOMAIN u
      <4>1. f(d) \in Path /\ n \in Ancestors(f(d)) /\ d \in Path /\ d \in DOMAIN t /\ c \in Ancestors(d)
        BY <1>1, <1>4, <1>8, Zenon
      <4>2. CASE n \in Ancestors(p)
        <5>1. PICK a \in Path : c \in Ancestors(a) /\ a \in Ancestors(d) /\ f(a) = p
          BY <1>3, <2>2, <3>2, <4>1, <4>2, Zenon
        <5>2. a \in M
          BY <1>1, <1>4, <4>1, <5>1, Zenon
        <5> QED BY <1>9, <5>1, <5>2, Zenon
      <4>3. CASE n \notin Ancestors(p)
        <5>1. p \in Ancestors(n)
          BY <1>2, <1>6, <2>2, <3>2, <4>1, <4>3, Zenon
        <5>2. p \in K
          BY <1>1, <1>4, <4>3, <5>1, Zenon
        <5> QED BY <1>9, <5>2, Zenon
      <4> QED BY <4>2, <4>3, Zenon
    <3> QED BY <1>10, <3>1, <3>2, Zenon
  <2>3. ASSUME NEW m \in DOMAIN u, NEW k \in DOMAIN u, u[m].state # NULL, m \in Ancestors(k)
        PROVE  k = m
    <3>1. CASE m \in K /\ k \in K
      BY <1>1, <1>4, <1>9, <2>3, <3>1, Zenon
    <3>2. ASSUME m \in K, NEW d \in M, k = f(d) PROVE k = m
      <4>1. m \in Ancestors(d) /\ t[m].state # NULL /\ m \in DOMAIN t /\ d \in DOMAIN t
        BY <1>4, <1>9, <1>13, <2>3, <3>2, Zenon
      <4>2. d = m
        BY <1>1, <4>1, Zenon
      <4>3. d \in Ancestors(m) /\ d \notin Ancestors(m)
        BY <1>1, <1>6, <1>14, <3>2, <4>1, <4>2, Zenon
      <4> QED BY <4>3
    <3>3. ASSUME NEW d \in M, m = f(d), k \in K PROVE k = m
      BY <1>14, <2>3, <3>3, Zenon
    <3>4. ASSUME NEW a \in M, NEW b \in M, m = f(a), k = f(b) PROVE k = m
      <4>1. a \in Ancestors(b) /\ t[a].state # NULL /\ a \in DOMAIN t /\ b \in DOMAIN t
        BY <1>4, <1>9, <1>15, <2>3, <3>4, Zenon
      <4>2. b = a
        BY <1>1, <4>1, Zenon
      <4> QED BY <3>4, <4>2, Zenon
    <3> QED BY <1>10, <3>1, <3>2, <3>3, <3>4, Zenon
  <2>4. ASSUME NEW m \in DOMAIN u
        PROVE  \E k \in DOMAIN u : m \in Ancestors(k) /\ u[k].state # NULL
    <3>1. CASE m \in K
      <4>1. PICK k \in DOMAIN t : m \in Ancestors(k) /\ t[k].state # NULL
        BY <1>1, <1>4, <3>1, Zenon
      <4>2. CASE k \in K
        BY <1>9, <4>1, <4>2, Zenon
      <4>3. CASE k \in M
        <5>1. m \in Ancestors(f(k))
          BY <1>13, <3>1, <4>1, <4>3
        <5> QED BY <1>9, <4>1, <4>3, <5>1, Zenon
      <4> QED BY <1>12, <4>1, <4>2, <4>3, Zenon
    <3>2. ASSUME NEW d \in M, m = f(d) PROVE \E k \in DOMAIN u : m \in Ancestors(k) /\ u[k].state # NULL
      <4>1. PICK k \in DOMAIN t : d \in Ancestors(k) /\ t[k].state # NULL
        BY <1>1, <1>4, <3>2, Zenon
      <4>2. k \in M
        BY <1>12, <1>14, <3>2, <4>1, Zenon
      <4> QED BY <1>9, <1>15, <3>2, <4>1, <4>2, ZenonT(40)
    <3> QED BY <1>10, <3>1, <3>2, Zenon
  <2>5. ASSUME NEW m \in DOMAIN u, NEW k \in DOMAIN u, u[m].state # NULL, u[m].state = u[k].state
        PROVE  m = k
    <3>1. ASSUME NEW x \in DOMAIN u
          PROVE  \E y \in DOMAIN t : t[y] = u[x] /\ (x \in K => y = x) /\ (x \notin K => y \in M /\ x = f(y))
      BY <1>4, <1>9, <1>10, Zenon
    <3>2. PICK a \in DOMAIN t : t[a] = u[m] /\ (m \in K => a = m) /\ (m \notin K => a \in M /\ m = f(a))
      BY <3>1, Zenon
    <3>3. PICK b \in DOMAIN t : t[b] = u[k] /\ (k \in K => b = k) /\ (k \notin K => b \in M /\ k = f(b))
      BY <3>1, Zenon
    <3>4. a = b
      BY <1>1, <2>5, <3>2, <3>3, Zenon
    <3>5. \A x \in K : x \notin M
      BY <1>1, <1>4, <1>6, <1>14, Zenon
    <3> QED BY <3>2, <3>3, <3>4, <3>5, Zenon
  <2> QED BY <2>1, <2>2, <2>3, <2>4, <2>5, Zenon DEF IsTree
<1>19. ASSUME NEW x, x # NULL
       PROVE  /\ (\E m \in DOMAIN u : u[m].state = x) <=> (\E m \in DOMAIN t : t[m].state = x)
              /\ \A j : (\E m \in DOMAIN u : u[m].state = x /\ j \in u[m].tag)
                          <=> (\E m \in DOMAIN t : t[m].state = x /\ j \in t[m].tag)
  <2>1. \A m \in DOMAIN u : \E e \in DOMAIN t : t[e] = u[m]
    BY <1>4, <1>9, <1>10, ZenonT(40)
  <2>2. \A e \in DOMAIN t : e # n => \E m \in DOMAIN u : t[e] = u[m]
    BY <1>9, <1>12, Zenon
  <2> QED BY <1>19, <2>1, <2>2, ZenonT(40)
<1>20. InTree(u) = InTree(t)
  <2>1. \A x : (x \in InTree(u) <=> x # NULL /\ \E m \in DOMAIN u : u[m].state = x)
               /\ (x \in InTree(t) <=> x # NULL /\ \E m \in DOMAIN t : t[m].state = x)
    BY InTreeIs
  <2> QED BY <1>19, <2>1, Zenon
<1>21. ASSUME NEW j PROVE Tagged(u, j) = Tagged(t, j)
  <2>1. \A x : (x \in Tagged(u, j) <=> x # NULL /\ \E m \in DOMAIN u : u[m].state = x /\ j \in u[m].tag)
               /\ (x \in Tagged(t, j) <=> x # NULL /\ \E m \in DOMAIN t : t[m].state = x /\ j \in t[m].tag)
    BY TaggedIs
  <2> QED BY <1>19, <2>1, Zenon
<1>22. ASSUME NEW j, TagExact(t, j) PROVE TagExact(u, j)
  <2>1. ASSUME NEW m \in DOMAIN u
        PROVE j \in u[m].tag <=> \E k \in DOMAIN u : m \in Ancestors(k) /\ u[k].state # NULL /\ j \in u[k].tag
    <3>1. \A e \in DOMAIN t : j \in t[e].tag <=> \E k \in DOMAIN t : e \in Ancestors(k) /\ t[k].state # NULL /\ j \in t[k].tag
      BY <1>22, Zenon DEF TagExact
    <3>2. CASE m \in K
      BY <1>4, <1>9, <1>16, <3>1, <3>2, Zenon
    <3>3. ASSUME NEW d \in M, m = f(d)
          PROVE j \in u[m].tag <=> \E k \in DOMAIN u : m \in Ancestors(k) /\ u[k].state # NULL /\ j \in u[k].tag
      <4>1. d \in DOMAIN t /\ u[m] = t[d]
        BY <1>4, <1>9, <3>3, Zenon
      <4>2. (\E k \in DOMAIN u : f(d) \in Ancestors(k) /\ u[k].state # NULL /\ j \in u[k].tag)
                  <=> (\E k \in DOMAIN t : d \in Ancestors(k) /\ t[k].state # NULL /\ j \in t[k].tag)
        BY <1>17, <3>3, Zenon
      <4> QED BY <3>1, <3>3, <4>1, <4>2, Zenon
    <3> QED BY <1>10, <3>2, <3>3, Zenon
  <2> QED BY <2>1, Zenon DEF TagExact
<1> QED BY <1>18, <1>20, <1>21, <1>22, Zenon DEF u
\* PTree::remove takes a state without tags out of the tree and keeps the rest.
LEMMA RemoveKeeps ==
  ASSUME NEW t, IsTree(t), NEW s \in InTree(t), NEW compress \in BOOLEAN
  PROVE  LET u == RemoveNode(t, NodeOf(t, s), compress)
         IN /\ IsTree(u) /\ InTree(u) = InTree(t) \ {s}
            /\ \A j \in Nat : /\ Tagged(u, j) = Tagged(t, j) \ {s}
                              /\ TagExact(t, j) /\ s \notin Tagged(t, j) => TagExact(u, j)
<1> DEFINE n == NodeOf(t, s)
           v == Prune(t, n)
           A == Ancestors(n) \cap DOMAIN v
           p == CHOOSE q \in A : \A r \in A : Len(r) <= Len(q)
           c == CHOOSE d \in Children(v, p) : TRUE
<1>1. /\ n \in DOMAIN t /\ n \in Path /\ t[n].state = s
  BY NodeIs, Zenon
<1>2. /\ IsTree(v) /\ InTree(v) = InTree(t) \ {s}
      /\ n \notin DOMAIN v /\ DOMAIN v \subseteq DOMAIN t
      /\ \A m \in DOMAIN v : v[m] = t[m]
      /\ \A j \in Nat : /\ Tagged(v, j) = Tagged(t, j) \ {s}
                        /\ TagExact(t, j) /\ s \notin Tagged(t, j) => TagExact(v, j)
  BY PruneKeeps, Zenon
<1>3. RemoveNode(t, n, compress) = IF compress /\ A # {} THEN Splice(v, p, c) ELSE v
  BY Zenon DEF RemoveNode
<1> HIDE DEF n, v
<1>4. CASE ~(compress /\ A # {})
  BY <1>2, <1>3, <1>4, Zenon DEF n
<1>5. CASE compress /\ A # {}
  <2>1. /\ \A m \in DOMAIN v : m \in Path /\ v[m].state = t[m].state
        /\ \A m \in DOMAIN v, q \in Path : q \in Ancestors(m) => q \in DOMAIN v
        /\ \A m \in DOMAIN v : \E k \in DOMAIN v : m \in Ancestors(k) /\ v[k].state # NULL
    BY <1>2, TreeParts, Zenon
  <2>2. \A q \in A : q \in Path /\ q \in Ancestors(n) /\ q \in DOMAIN v
    BY <2>1, Zenon
  <2>3. \A q \in A : Len(q) \in Nat /\ Len(q) <= Len(n) /\ Len(n) \in Nat
    BY <1>1, <2>2, AncestorIs DEF Path
  <2>4. \E q \in A : \A r \in A : Len(r) <= Len(q)
    <3> DEFINE D == {k \in Nat : \E q \in A : k = Len(n) - Len(q)}
    <3>1. D # {}
      <4>1. PICK q \in A : TRUE
        BY <1>5, Zenon
      <4>2. Len(n) - Len(q) \in Nat
        BY <2>3
      <4>3. Len(n) - Len(q) \in D
        BY <4>2, Zenon
      <4> QED BY <4>3, Zenon
    <3>2. PICK k \in D : \A j \in D : k <= j
      BY <3>1, LeastNat, Zenon
    <3>3. PICK q \in A : k = Len(n) - Len(q)
      BY <3>2
    <3>4. ASSUME NEW r \in A PROVE Len(r) <= Len(q)
      <4>1. Len(n) - Len(r) \in D
        BY <2>3
      <4>2. k <= Len(n) - Len(r)
        BY <3>2, <4>1, Zenon
      <4> QED BY <2>3, <3>3, <4>2
    <3> QED BY <3>4
  <2> HIDE DEF A
  <2>5. p \in A /\ \A r \in A : Len(r) <= Len(p)
    BY <2>4, Zenon
  <2> HIDE DEF p
  <2>6. p \in Path /\ p \in Ancestors(n) /\ p \in DOMAIN v /\ p # n /\ p \in DOMAIN t
    BY <1>2, <2>2, <2>5, Zenon
  <2>7. v[p].state = NULL
    <3>1. t[p].state # NULL /\ p \in Ancestors(n) => n = p
      BY <1>1, <2>6, TreeParts, Zenon
    <3> QED BY <2>1, <2>6, <3>1, Zenon
  <2>8. /\ Left(p) \in Path /\ Right(p) \in Path /\ Len(Left(p)) > Len(p) /\ Len(Right(p)) > Len(p)
        /\ \A m \in Path : p \in Ancestors(m) /\ m # p => Left(p) \in Ancestors(m) \/ Right(p) \in Ancestors(m)
    BY <2>6, ChildPaths DEF Left, Right, Path
  <2>9. ASSUME NEW d \in {Left(p), Right(p)}, d \in Ancestors(n) PROVE d \notin DOMAIN v
    <3>1. Len(d) > Len(p) /\ Len(p) \in Nat /\ Len(d) \in Nat
      BY <2>6, <2>8 DEF Path
    <3>2. d \notin A
      BY <2>5, <3>1
    <3> QED BY <2>9, <3>2, Zenon DEF A
  <2>10. Left(p) \notin DOMAIN v \/ Right(p) \notin DOMAIN v
    BY <1>1, <2>6, <2>8, <2>9, Zenon
  <2>11. Left(p) \in DOMAIN v \/ Right(p) \in DOMAIN v
    <3>1. PICK k \in DOMAIN v : p \in Ancestors(k) /\ v[k].state # NULL
      BY <2>1, <2>6, Zenon
    <3>2. k # p
      BY <2>7, <3>1, Zenon
    <3> QED BY <2>1, <2>8, <3>1, <3>2, Zenon
  <2>12. PICK e \in DOMAIN v : Children(v, p) = {e}
    BY <2>10, <2>11, Zenon DEF Children
  <2>13. c = e
    <3>1. c \in Children(v, p)
      BY <2>12, Zenon
    <3> HIDE DEF c
    <3> QED BY <2>12, <3>1, Zenon
  <2> HIDE DEF c
  <2> DEFINE u == Splice(v, p, c)
  <2>14. /\ IsTree(u) /\ InTree(u) = InTree(v)
         /\ \A j \in Nat : Tagged(u, j) = Tagged(v, j) /\ (TagExact(v, j) => TagExact(u, j))
    <3>1. c \in DOMAIN v /\ Children(v, p) = {c}
      BY <2>12, <2>13, Zenon
    <3> QED BY <1>2, <2>6, <2>7, <3>1, SpliceKeeps
  <2>15. RemoveNode(t, n, compress) = u
    BY <1>3, <1>5, Zenon
  <2> HIDE DEF u
  <2> QED BY <1>2, <2>14, <2>15, Zenon DEF n
<1> QED BY <1>4, <1>5, Zenon

\* The root is above every node and below none.
LEMMA RootIs ==
  /\ root \in Path
  /\ \A m \in Path : root \in Ancestors(m)
  /\ \A p \in Path : p \in Ancestors(root) => p = root
<1>1. root \in Path /\ Len(root) = 0
  BY DEF root, Path
<1>2. ASSUME NEW m \in Path PROVE root \in Ancestors(m)
  <2>1. Len(root) <= Len(m) /\ \A i \in 1 .. Len(root) : root[i] = m[i]
    BY <1>1 DEF Path
  <2> HIDE DEF root
  <2> QED BY <1>1, <2>1, AncestorIs
<1>3. ASSUME NEW p \in Path, p \in Ancestors(root) PROVE p = root
  <2>1. p \in Ancestors(root) /\ root \in Ancestors(p)
    BY <1>2, <1>3
  <2> QED BY <1>1, <2>1, AncestorOrder
<1> QED BY <1>1, <1>2, <1>3

\* With exact tags the random walk ends in exactly the states the searcher owns, and
\* does not get lost as long as there is one.
LEMMA WalkIs ==
  ASSUME NEW t, IsTree(t), NEW j, TagExact(t, j)
  PROVE  /\ WalkEnds(t, j, NULL) = Tagged(t, j)
         /\ Tagged(t, j) # {} => ~WalkLost(t, j, NULL)
<1>1. /\ \A m \in DOMAIN t : t[m] \in TreeNode /\ m \in Path
      /\ \A m \in DOMAIN t, p \in Path : p \in Ancestors(m) => p \in DOMAIN t
      /\ \A m, k \in DOMAIN t : t[m].state # NULL /\ m \in Ancestors(k) => k = m
  BY TreeParts, Zenon
<1>2. \A m \in DOMAIN t : j \in t[m].tag <=> \E k \in DOMAIN t : m \in Ancestors(k) /\ t[k].state # NULL /\ j \in t[k].tag
  BY Zenon DEF TagExact
<1>3. \A p \in Path : p \in Ancestors(p) /\ \A q \in Ancestors(p) : q \in Path
  BY AncestorIs, AncestorOrder DEF Ancestors, Path
<1>4. \A p, q, r \in Path : p \in Ancestors(q) /\ q \in Ancestors(r) => p \in Ancestors(r)
  BY AncestorOrder
<1>5. ASSUME NEW m \in DOMAIN t, j \in t[m].tag, NEW p \in Ancestors(m) PROVE p \in DOMAIN t /\ j \in t[p].tag
  <2>1. p \in Path /\ p \in DOMAIN t /\ m \in Path
    BY <1>1, <1>3, <1>5, Zenon
  <2>2. PICK k \in DOMAIN t : m \in Ancestors(k) /\ t[k].state # NULL /\ j \in t[k].tag
    BY <1>2, <1>5, Zenon
  <2>3. p \in Ancestors(k)
    BY <1>1, <1>4, <1>5, <2>1, <2>2, Zenon
  <2> QED BY <1>2, <2>1, <2>2, <2>3, Zenon
<1>6. Walkable(t, j) = {m \in DOMAIN t : j \in t[m].tag}
  BY <1>1, <1>3, <1>5, Zenon DEF Walkable, Ours
<1>7. WalkEnds(t, j, NULL) = Tagged(t, j)
  <2>1. \A x : x \in Tagged(t, j) <=> x # NULL /\ \E m \in DOMAIN t : t[m].state = x /\ j \in t[m].tag
    BY TaggedIs
  <2>2. \A x : x \in WalkEnds(t, j, NULL) <=> \E m \in DOMAIN t : j \in t[m].tag /\ t[m].state # NULL /\ x = t[m].state
    BY <1>6, Zenon DEF WalkEnds
  <2> QED BY <2>1, <2>2, Zenon
<1>8. ASSUME Tagged(t, j) # {} PROVE ~WalkLost(t, j, NULL)
  <2>1. PICK m \in DOMAIN t : j \in t[m].tag
    <3>1. \A x : x \in Tagged(t, j) <=> x # NULL /\ \E m \in DOMAIN t : t[m].state = x /\ j \in t[m].tag
      BY TaggedIs
    <3> QED BY <1>8, <3>1, Zenon
  <2>2. root \in Ancestors(m)
    BY <1>1, <2>1, RootIs
  <2>3. Ours(t, root, j)
    BY <1>5, <2>1, <2>2, Zenon DEF Ours
  <2>4. ASSUME NEW x \in Walkable(t, j), t[x].state = NULL PROVE \E d \in Children(t, x) : Ours(t, d, j)
    <3>1. x \in DOMAIN t /\ x \in Path /\ j \in t[x].tag
      BY <1>1, <1>6, Zenon
    <3>2. PICK k \in DOMAIN t : x \in Ancestors(k) /\ t[k].state # NULL /\ j \in t[k].tag
      BY <1>2, <3>1, Zenon
    <3>3. k # x /\ k \in Path
      BY <1>1, <2>4, <3>2, Zenon
    <3>4. Left(x) \in Ancestors(k) \/ Right(x) \in Ancestors(k)
      BY <3>1, <3>2, <3>3, ChildPaths
    <3> QED BY <1>5, <3>2, <3>4, Zenon DEF Children, Ours
  <2> QED BY <2>3, <2>4, Zenon DEF WalkLost
<1> QED BY <1>7, <1>8, Zenon

\* The tree of the initial state.
LEMMA NewTreeIs ==
  ASSUME NEW s \in State, s # NULL
  PROVE  /\ IsTree(NewTree(s)) /\ InTree(NewTree(s)) = {s}
         /\ \A j \in Nat : Tagged(NewTree(s), j) = {} /\ TagExact(NewTree(s), j)
<1> DEFINE t == NewTree(s)
<1>1. DOMAIN t = {root} /\ t = [m \in DOMAIN t |-> t[m]] /\ t[root].state = s /\ t[root].tag = {} /\ t[root] \in TreeNode
  BY DEF NewTree, TreeNode
<1> HIDE DEF t
<1>2. root \in Path /\ root \in Ancestors(root)
  BY RootIs
<1>3. \A p \in Path : p \in Ancestors(root) => p = root
  BY RootIs
<1>4. IsTree(t)
  BY <1>1, <1>2, <1>3, Zenon DEF IsTree
<1>5. InTree(t) = {s}
  <2>1. \A x : x \in InTree(t) <=> x # NULL /\ \E m \in DOMAIN t : t[m].state = x
    BY InTreeIs
  <2> QED BY <1>1, <2>1, Zenon
<1>6. ASSUME NEW j \in Nat PROVE Tagged(t, j) = {} /\ TagExact(t, j)
  <2>1. \A x : x \in Tagged(t, j) <=> x # NULL /\ \E m \in DOMAIN t : t[m].state = x /\ j \in t[m].tag
    BY TaggedIs
  <2>2. Tagged(t, j) = {}
    BY <1>1, <2>1, Zenon
  <2> QED BY <1>1, <2>2, Zenon DEF TagExact
<1> QED BY <1>4, <1>5, <1>6, Zenon DEF t

-----------------------------------------------------------------------------
(* The searchers.                                                          *)

(***************************************************************************)
(* Loops over sequences.                                                   *)
(***************************************************************************)
\* Induction on the naturals, as a fact about a set.
LEMMA SetInduction ==
  ASSUME NEW S, 0 \in S, \A n \in Nat : n \in S => n + 1 \in S
  PROVE  \A n \in Nat : n \in S
<1> SUFFICES ASSUME Nat \ S # {} PROVE FALSE
  OBVIOUS
<1>1. PICK n \in Nat \ S : \A y \in Nat \ S : n <= y
  BY LeastNat, Zenon
<1>2. n # 0 /\ n - 1 \in Nat /\ n - 1 < n
  BY <1>1
<1>3. n - 1 \in S
  BY <1>1, <1>2
<1> QED BY <1>1, <1>2, <1>3

\* The loops of the searchers, by what they do with an element.
Body(do, a, b, c, x, s) ==
  IF do = "erase" THEN (IF s \in a THEN x ELSE Append(x, s))
  ELSE IF do = "mark" THEN Mark(x, NodeOf(x, s), a)
  ELSE IF do = "unmark" THEN Unmark(x, NodeOf(x, s), a)
  ELSE IF do = "update" THEN CoreUpdate(x, s, a, b, c)
  ELSE IF do = "remove" THEN RemoveState(x, s, a)
  ELSE x \o s

\* The values a loop over the first elements of q goes through.
LoopRun(f, do, a, b, c, x, q, len) ==
  f = [k \in 0 .. len |-> IF k = 0 THEN x ELSE Body(do, a, b, c, f[k - 1], q[k])]

\* A loop has a run.
LEMMA LoopRuns ==
  ASSUME NEW do, NEW a, NEW b, NEW c, NEW x, NEW q, NEW len \in Nat
  PROVE  \E f : LoopRun(f, do, a, b, c, x, q, len)
<1> DEFINE op(y, s) == Body(do, a, b, c, y, s)
           Runs(f, n) == f = [k \in 0 .. n |-> IF k = 0 THEN x ELSE op(f[k - 1], q[k])]
           Have == {n \in Nat : \E f : Runs(f, n)}
<1> HIDE DEF op
<1>1. 0 \in Have
  <2> DEFINE f == [k \in 0 .. 0 |-> x]
  <2>1. Runs(f, 0)
    OBVIOUS
  <2> HIDE DEF Runs
  <2> QED BY <2>1, Zenon
<1>2. ASSUME NEW n \in Nat, n \in Have PROVE n + 1 \in Have
  <2>1. PICK f : Runs(f, n)
    BY <1>2
  <2>2. \A k \in 0 .. n : f[k] = IF k = 0 THEN x ELSE op(f[k - 1], q[k])
    BY <2>1, Zenon
  <2> DEFINE g == [k \in 0 .. n + 1 |-> IF k = n + 1 THEN op(f[n], q[n + 1]) ELSE f[k]]
  <2>3. g[n + 1] = op(f[n], q[n + 1]) /\ \A k \in 0 .. n : g[k] = f[k]
    OBVIOUS
  <2>4. g = [k \in 0 .. n + 1 |-> g[k]]
    BY Zenon
  <2> HIDE DEF g
  <2>5. ASSUME NEW k \in 0 .. n + 1 PROVE g[k] = IF k = 0 THEN x ELSE op(g[k - 1], q[k])
    <3>1. CASE k = n + 1
      <4>1. g[k - 1] = f[n] /\ k # 0 /\ g[k] = op(f[n], q[k])
        BY <2>3, <3>1
      <4> QED BY <4>1, Zenon
    <3>2. CASE k # n + 1
      <4>1. g[k] = f[k] /\ (k # 0 => g[k - 1] = f[k - 1]) /\ k \in 0 .. n
        BY <2>3, <3>2
      <4> QED BY <2>2, <4>1, Zenon
    <3> QED BY <3>1, <3>2
  <2>6. Runs(g, n + 1)
    BY <2>4, <2>5, Zenon
  <2> HIDE DEF Runs
  <2> QED BY <2>6
<1>3. \A n \in Nat : n \in Have
  <2> HIDE DEF Have
  <2> QED BY <1>1, <1>2, SetInduction
<1>4. len \in Have
  BY <1>3, Zenon
<1> QED BY <1>4, Zenon DEF op, LoopRun

\* What Erase does, one element after another.
Erases(e, q, gone) ==
  /\ e[0] = << >> /\ Erase(q, gone) = e[Len(q)]
  /\ \A k \in 1 .. Len(q) : e[k] = IF q[k] \in gone THEN e[k - 1] ELSE Append(e[k - 1], q[k])

\* Erase has a run.
LEMMA EraseSteps ==
  ASSUME NEW q, Len(q) \in Nat, NEW gone
  PROVE  \E e : Erases(e, q, gone)
<1> DEFINE op(x, s) == IF s \in gone THEN x ELSE Append(x, s)
           Runs(f) == f = [k \in 0 .. Len(q) |-> IF k = 0 THEN << >> ELSE op(f[k - 1], q[k])]
           e == CHOOSE f : Runs(f)
<1>1. PICK g : LoopRun(g, "erase", gone, 0, 0, << >>, q, Len(q))
  BY LoopRuns, SMTT(30)
<1>2. \A x, s : Body("erase", gone, 0, 0, x, s) = op(x, s)
  BY Zenon DEF Body
<1>3. Runs(g)
  BY <1>1, <1>2, Zenon DEF LoopRun
<1>4. Runs(e)
  <2> HIDE DEF Runs
  <2> QED BY <1>3, Zenon
<1>5. Erase(q, gone) = e[Len(q)]
  BY Zenon DEF Erase, ForEach
<1> HIDE DEF e, op
<1>6. e[0] = << >> /\ \A k \in 1 .. Len(q) : e[k] = op(e[k - 1], q[k])
  BY <1>4
<1> QED BY <1>5, <1>6, Zenon DEF op, Erases
\* Appending to a list of states, and joining two of them.
LEMMA AppendIs ==
  ASSUME NEW x \in Seq(State), NEW s \in State
  PROVE  /\ Append(x, s) \in Seq(State)
         /\ Range(Append(x, s)) = Range(x) \cup {s}
         /\ IsInjective(x) /\ s \notin Range(x) => IsInjective(Append(x, s))
<1> DEFINE y == Append(x, s)
<1>1. /\ y \in Seq(State) /\ DOMAIN y = 1 .. Len(x) + 1 /\ DOMAIN x = 1 .. Len(x) /\ Len(x) \in Nat
      /\ y[Len(x) + 1] = s /\ \A k \in 1 .. Len(x) : y[k] = x[k]
  OBVIOUS
<1> HIDE DEF y
<1>2. \A k \in DOMAIN y : k = Len(x) + 1 \/ k \in DOMAIN x
  BY <1>1
<1>3. /\ \A k \in DOMAIN x : k \in DOMAIN y /\ y[k] = x[k] /\ k # Len(x) + 1
      /\ Len(x) + 1 \in DOMAIN y
  BY <1>1
<1>4. Range(y) = Range(x) \cup {s}
  BY <1>1, <1>2, <1>3, Zenon DEF Range
<1>5. ASSUME IsInjective(x), s \notin Range(x) PROVE IsInjective(y)
  BY <1>1, <1>2, <1>3, <1>5, Zenon DEF IsInjective, Range
<1> QED BY <1>1, <1>4, <1>5, Zenon DEF y

LEMMA JoinIs ==
  ASSUME NEW x \in Seq(State), NEW z \in Seq(State)
  PROVE  /\ x \o z \in Seq(State)
         /\ Range(x \o z) = Range(x) \cup Range(z)
         /\ IsInjective(x) /\ IsInjective(z) /\ Range(x) \cap Range(z) = {} => IsInjective(x \o z)
<1> DEFINE y == x \o z
<1>1. /\ y \in Seq(State) /\ DOMAIN y = 1 .. Len(x) + Len(z) /\ DOMAIN x = 1 .. Len(x) /\ Len(x) \in Nat
      /\ DOMAIN z = 1 .. Len(z) /\ Len(z) \in Nat
      /\ \A k \in 1 .. Len(x) : y[k] = x[k]
      /\ \A k \in Len(x) + 1 .. Len(x) + Len(z) : y[k] = z[k - Len(x)]
  OBVIOUS
<1> HIDE DEF y
<1>2. \A k \in DOMAIN y : \/ k \in DOMAIN x /\ y[k] = x[k]
                          \/ k - Len(x) \in DOMAIN z /\ y[k] = z[k - Len(x)]
  BY <1>1, SMTT(30)
<1>3. /\ \A k \in DOMAIN x : k \in DOMAIN y /\ y[k] = x[k]
      /\ \A k \in DOMAIN z : k + Len(x) \in DOMAIN y /\ y[k + Len(x)] = z[k]
  <2>1. \A k \in DOMAIN z : k + Len(x) \in Len(x) + 1 .. Len(x) + Len(z) /\ (k + Len(x)) - Len(x) = k
    BY <1>1
  <2>2. \A k \in Len(x) + 1 .. Len(x) + Len(z) : k \in DOMAIN y
    BY <1>1
  <2>3. \A k \in DOMAIN x : k \in DOMAIN y
    BY <1>1
  <2>4. ASSUME NEW k \in DOMAIN z PROVE k + Len(x) \in DOMAIN y /\ y[k + Len(x)] = z[k]
    BY <1>1, <2>1, <2>2, Zenon
  <2> QED BY <1>1, <2>3, <2>4, Zenon
<1>4. Range(y) = Range(x) \cup Range(z)
  <2>1. \A w : /\ w \in Range(y) <=> \E k \in DOMAIN y : y[k] = w
               /\ w \in Range(x) <=> \E k \in DOMAIN x : x[k] = w
               /\ w \in Range(z) <=> \E k \in DOMAIN z : z[k] = w
    BY Zenon DEF Range
  <2>2. ASSUME NEW w \in Range(y) PROVE w \in Range(x) \/ w \in Range(z)
    BY <1>2, <2>1, Zenon
  <2>3. ASSUME NEW w \in Range(x) PROVE w \in Range(y)
    BY <1>3, <2>1, Zenon
  <2>4. ASSUME NEW w \in Range(z) PROVE w \in Range(y)
    BY <1>3, <2>1, Zenon
  <2> QED BY <2>2, <2>3, <2>4, Zenon
<1>5. ASSUME IsInjective(x), IsInjective(z), Range(x) \cap Range(z) = {} PROVE IsInjective(y)
  <2>1. SUFFICES ASSUME NEW j \in DOMAIN y, NEW k \in DOMAIN y, y[j] = y[k] PROVE j = k
    BY Zenon DEF IsInjective
  <2>2. CASE j \in DOMAIN x /\ y[j] = x[j] /\ k \in DOMAIN x /\ y[k] = x[k]
    BY <1>5, <2>1, <2>2, Zenon DEF IsInjective
  <2>3. CASE j \in DOMAIN x /\ y[j] = x[j] /\ k - Len(x) \in DOMAIN z /\ y[k] = z[k - Len(x)]
    BY <1>5, <2>1, <2>3, Zenon DEF Range
  <2>4. CASE j - Len(x) \in DOMAIN z /\ y[j] = z[j - Len(x)] /\ k \in DOMAIN x /\ y[k] = x[k]
    BY <1>5, <2>1, <2>4, Zenon DEF Range
  <2>5. CASE j - Len(x) \in DOMAIN z /\ y[j] = z[j - Len(x)] /\ k - Len(x) \in DOMAIN z /\ y[k] = z[k - Len(x)]
    <3>1. j - Len(x) = k - Len(x)
      BY <1>5, <2>1, <2>5, Zenon DEF IsInjective
    <3>2. j \in Nat /\ k \in Nat /\ Len(x) \in Nat
      BY <1>1
    <3> QED BY <3>1, <3>2
  <2> QED BY <1>2, <2>2, <2>3, <2>4, <2>5, Zenon
<1> QED BY <1>1, <1>4, <1>5, Zenon DEF y

\* Erase keeps the rest of the list.
LEMMA EraseIs ==
  ASSUME NEW q \in Seq(State), NEW gone
  PROVE  /\ Erase(q, gone) \in Seq(State) /\ Range(Erase(q, gone)) = Range(q) \ gone
         /\ IsInjective(q) => IsInjective(Erase(q, gone))
<1>0. Len(q) \in Nat /\ DOMAIN q = 1 .. Len(q) /\ \A k \in 1 .. Len(q) : q[k] \in State
  OBVIOUS
<1>e. PICK e : Erases(e, q, gone)
  BY <1>0, EraseSteps
<1>1. /\ e[0] = << >> /\ Erase(q, gone) = e[Len(q)]
      /\ \A k \in 1 .. Len(q) : e[k] = IF q[k] \in gone THEN e[k - 1] ELSE Append(e[k - 1], q[k])
  BY <1>e, Zenon DEF Erases
<1> DEFINE P(k) == /\ e[k] \in Seq(State)
                   /\ \A x : x \in Range(e[k]) <=> x \notin gone /\ \E i \in 1 .. k : q[i] = x
                   /\ IsInjective(q) => IsInjective(e[k])
           Have == {k \in Nat : k <= Len(q) => P(k)}
<1>2. 0 \in Have
  <2>1. << >> \in Seq(State) /\ DOMAIN << >> = {} /\ 1 .. 0 = {}
    OBVIOUS
  <2>2. Range(<< >>) = {} /\ IsInjective(<< >>)
    BY <2>1, Zenon DEF Range, IsInjective
  <2>3. P(0)
    BY <1>1, <2>1, <2>2, Zenon
  <2> HIDE DEF P
  <2> QED BY <2>3
<1>3. ASSUME NEW k \in Nat, k \in Have PROVE k + 1 \in Have
  <2>1. SUFFICES ASSUME k + 1 <= Len(q) PROVE P(k + 1)
    <3> HIDE DEF P
    <3> QED BY <2>1
  <2>2. P(k)
    <3> HIDE DEF P
    <3> QED BY <1>0, <1>3, <2>1
  <2>3. /\ k + 1 \in 1 .. Len(q) /\ (k + 1) - 1 = k /\ q[k + 1] \in State
        /\ \A i \in 1 .. k + 1 : i \in 1 .. k \/ i = k + 1
        /\ \A i \in 1 .. k : i \in 1 .. k + 1 /\ i # k + 1 /\ i \in DOMAIN q
        /\ k + 1 \in 1 .. k + 1 /\ k + 1 \in DOMAIN q
    BY <1>0, <2>1
  <2>4. e[k + 1] = IF q[k + 1] \in gone THEN e[k] ELSE Append(e[k], q[k + 1])
    BY <1>1, <2>3
  <2>5. CASE q[k + 1] \in gone
    BY <2>2, <2>3, <2>4, <2>5, Zenon
  <2>6. CASE q[k + 1] \notin gone
    <3>1. /\ e[k + 1] \in Seq(State) /\ Range(e[k + 1]) = Range(e[k]) \cup {q[k + 1]}
          /\ IsInjective(e[k]) /\ q[k + 1] \notin Range(e[k]) => IsInjective(e[k + 1])
      BY <2>2, <2>3, <2>4, <2>6, AppendIs
    <3>2. \A x : x \in Range(e[k + 1]) <=> x \notin gone /\ \E i \in 1 .. k + 1 : q[i] = x
      BY <2>2, <2>3, <2>6, <3>1, Zenon
    <3>3. ASSUME IsInjective(q) PROVE IsInjective(e[k + 1])
      <4>1. q[k + 1] \notin Range(e[k])
        <5>1. SUFFICES ASSUME NEW i \in 1 .. k, q[i] = q[k + 1] PROVE FALSE
          BY <2>2, Zenon
        <5>2. i \in DOMAIN q /\ k + 1 \in DOMAIN q /\ i # k + 1
          BY <2>3, Zenon
        <5> QED BY <3>3, <5>1, <5>2, Zenon DEF IsInjective
      <4> QED BY <2>2, <3>1, <3>3, <4>1, Zenon
    <3> QED BY <3>1, <3>2, <3>3, Zenon
  <2> QED BY <2>5, <2>6, Zenon
<1>4. P(Len(q))
  <2>1. Len(q) \in Have
    <3> HIDE DEF Have
    <3> QED BY <1>0, <1>2, <1>3, SetInduction
  <2> HIDE DEF P
  <2> QED BY <1>0, <2>1
<1>5. \A x : x \in Range(q) <=> \E i \in 1 .. Len(q) : q[i] = x
  BY <1>0, Zenon DEF Range
<1> QED BY <1>1, <1>4, <1>5, Zenon

\* The states of a set in order: each of them once.
LEMMA InOrderIs ==
  ASSUME NEW S, S \subseteq State
  PROVE  InOrder(S) \in Seq(State) /\ Range(InOrder(S)) = S /\ IsInjective(InOrder(S))
<1> DEFINE Good(q, n) == /\ Len(q) \in 0 .. n
                         /\ \A k \in 1 .. Len(q) : q[k] <= n
                         /\ \A i \in S : i <= n => \E k \in 1 .. Len(q) : q[k] = i
                         /\ \A j, k \in 1 .. Len(q) : j < k => q[j] < q[k]
           Have == {n \in Nat : \E q \in Seq(S) : Good(q, n)}
<1>1. MaxStates \in Nat /\ \A i \in S : i \in Nat /\ i > 0 /\ i <= MaxStates
  BY StatesAssumption DEF State
<1>2. 0 \in Have
  <2>1. << >> \in Seq(S) /\ Good(<< >>, 0)
    BY <1>1
  <2> HIDE DEF Good
  <2> QED BY <2>1, Zenon
<1>3. ASSUME NEW m \in Nat, m \in Have PROVE m + 1 \in Have
  <2>1. PICK q \in Seq(S) : Good(q, m)
    BY <1>3
  <2> DEFINE n == m + 1
  <2>2. /\ Len(q) \in 0 .. m /\ \A k \in 1 .. Len(q) : q[k] < n /\ q[k] \in S
        /\ \A i \in S : i < n => \E k \in 1 .. Len(q) : q[k] = i
        /\ \A j, k \in 1 .. Len(q) : j < k => q[j] < q[k]
    <3>1. \A k \in 1 .. Len(q) : q[k] <= m /\ q[k] \in S /\ q[k] \in Nat
      BY <1>1, <2>1
    <3>2. \A i \in S : i < n => i <= m
      BY <1>1
    <3> QED BY <2>1, <3>1, <3>2
  <2> n \in Nat /\ n > 0
    OBVIOUS
  <2>3. CASE n \notin S
    <3>0. \A i \in S : i <= n => i < n
      BY <1>1, <2>3
    <3>1. Good(q, n)
      <4>1. Len(q) \in 0 .. n
        BY <2>2
      <4>2. \A k \in 1 .. Len(q) : q[k] <= n
        BY <1>1, <2>2
      <4> HIDE DEF n
      <4> QED BY <2>2, <3>0, <4>1, <4>2, Zenon
    <3> HIDE DEF Good
    <3> QED BY <3>1
  <2>4. CASE n \in S
    <3> DEFINE r == Append(q, n)
    <3>1. r \in Seq(S) /\ Len(r) = Len(q) + 1 /\ r[Len(q) + 1] = n
          /\ \A k \in 1 .. Len(q) : r[k] = q[k]
      BY <2>4
    <3> HIDE DEF r
    <3>2. \A k \in 1 .. Len(r) : k = Len(q) + 1 \/ k \in 1 .. Len(q)
      BY <2>2, <3>1
    <3>3. Len(r) \in 0 .. n
      BY <2>2, <3>1
    <3>4. ASSUME NEW k \in 1 .. Len(r) PROVE r[k] <= n
      <4>1. CASE k = Len(q) + 1
        BY <3>1, <4>1
      <4>2. CASE k \in 1 .. Len(q)
        <5>1. q[k] \in Nat /\ q[k] < n /\ r[k] = q[k]
          BY <1>1, <2>2, <3>1, <4>2, SMTT(30)
        <5> QED BY <5>1
      <4> QED BY <3>2, <4>1, <4>2
    <3>5. ASSUME NEW i \in S, i <= n PROVE \E k \in 1 .. Len(r) : r[k] = i
      <4>1. CASE i = n
        BY <2>2, <3>1, <4>1
      <4>2. CASE i # n
        <5>1. i < n
          BY <1>1, <3>5, <4>2
        <5>2. PICK k \in 1 .. Len(q) : q[k] = i
          BY <2>2, <5>1
        <5> QED BY <2>2, <3>1, <5>2
      <4> QED BY <4>1, <4>2
    <3>6. ASSUME NEW j \in 1 .. Len(r), NEW k \in 1 .. Len(r), j < k PROVE r[j] < r[k]
      <4>1. j \in 1 .. Len(q)
        BY <2>2, <3>1, <3>6
      <4> QED BY <2>2, <3>1, <3>2, <3>6, <4>1, SMTT(30)
    <3>7. Good(r, n)
      BY <3>3, <3>4, <3>5, <3>6
    <3> HIDE DEF Good
    <3> QED BY <3>1, <3>7
  <2> QED BY <2>3, <2>4
<1>4. PICK q \in Seq(S) : Good(q, MaxStates)
  <2>1. MaxStates \in Have
    <3> HIDE DEF Have
    <3> QED BY <1>1, <1>2, <1>3, SetInduction, SMTT(30)
  <2> QED BY <2>1
<1> DEFINE Lists == UNION {[1 .. n -> S] : n \in 0 .. MaxStates}
           Sorted(p) == (\A s \in S : \E k \in DOMAIN p : p[k] = s) /\ \A j, k \in DOMAIN p : j < k => p[j] < p[k]
           o == CHOOSE p \in Lists : Sorted(p)
<1>5. q \in Lists /\ Sorted(q)
  <2>1. DOMAIN q = 1 .. Len(q) /\ q \in [1 .. Len(q) -> S] /\ Len(q) \in 0 .. MaxStates
    BY <1>4
  <2> QED BY <1>1, <1>4, <2>1, Zenon
<1>6. o \in Lists /\ Sorted(o)
  <2> HIDE DEF Lists, Sorted
  <2> QED BY <1>5, Zenon
<1>7. InOrder(S) = o
  BY Zenon DEF InOrder
<1> HIDE DEF o
<1>8. PICK n \in 0 .. MaxStates : o \in [1 .. n -> S]
  BY <1>6, Zenon
<1>9. o \in Seq(State)
  <2>1. o \in [1 .. n -> State] /\ n \in Nat
    BY <1>8
  <2> QED BY <2>1
<1>10. Range(o) = S
  BY <1>6, <1>8, Zenon DEF Range
<1>11. ASSUME NEW j \in DOMAIN o, NEW k \in DOMAIN o, o[j] = o[k] PROVE j = k
  <2>1. j \in Int /\ k \in Int /\ o[j] \in Int /\ o[k] \in Int
    BY <1>1, <1>8
  <2>2. (j < k => o[j] < o[k]) /\ (k < j => o[k] < o[j])
    BY <1>6
  <2> QED BY <1>11, <2>1, <2>2
<1> QED BY <1>7, <1>9, <1>10, <1>11, Zenon DEF IsInjective
\* A tree with exact tags.
WellTagged(t) == IsTree(t) /\ \A j \in Nat : TagExact(t, j)

\* An added state after another is marked.
Marks(f, t, id, q) ==
  /\ f[0] = t /\ MarkEach(t, id, q) = f[Len(q)]
  /\ \A k \in 1 .. Len(q) : f[k] = Mark(f[k - 1], NodeOf(f[k - 1], q[k]), id)

\* MarkEach has a run.
LEMMA MarkSteps ==
  ASSUME NEW t, NEW id, NEW q, Len(q) \in Nat
  PROVE  \E f : Marks(f, t, id, q)
<1> DEFINE op(x, s) == Mark(x, NodeOf(x, s), id)
           Runs(f) == f = [k \in 0 .. Len(q) |-> IF k = 0 THEN t ELSE op(f[k - 1], q[k])]
           e == CHOOSE f : Runs(f)
<1>1. PICK g : LoopRun(g, "mark", id, 0, 0, t, q, Len(q))
  BY LoopRuns, Zenon
<1>2. \A x, s : Body("mark", id, 0, 0, x, s) = op(x, s)
  BY Zenon DEF Body
<1>3. Runs(g)
  BY <1>1, <1>2, Zenon DEF LoopRun
<1>4. Runs(e)
  <2> HIDE DEF Runs
  <2> QED BY <1>3, Zenon
<1>5. MarkEach(t, id, q) = e[Len(q)]
  BY Zenon DEF MarkEach, ForEach
<1> HIDE DEF e, op
<1>6. e[0] = t /\ \A k \in 1 .. Len(q) : e[k] = op(e[k - 1], q[k])
  BY <1>4
<1> QED BY <1>5, <1>6, Zenon DEF op, Marks

\* MarkEach changes who owns the states of the list, and nothing else.
LEMMA MarkEachKeeps ==
  ASSUME NEW t, WellTagged(t), NEW id \in Nat, NEW q \in Seq(State), Range(q) \subseteq InTree(t)
  PROVE  LET u == MarkEach(t, id, q)
         IN /\ WellTagged(u) /\ InTree(u) = InTree(t)
            /\ Tagged(u, id) = Tagged(t, id) \cup Range(q)
            /\ \A j \in Nat \ {id} : Tagged(u, j) = Tagged(t, j)
<1>0. Len(q) \in Nat /\ DOMAIN q = 1 .. Len(q)
  OBVIOUS
<1>e. PICK f : Marks(f, t, id, q)
  BY <1>0, MarkSteps, SMTT(30)
<1>1. /\ f[0] = t /\ MarkEach(t, id, q) = f[Len(q)]
      /\ \A k \in 1 .. Len(q) : f[k] = Mark(f[k - 1], NodeOf(f[k - 1], q[k]), id)
  BY <1>e, Zenon DEF Marks
<1> DEFINE D(k) == {q[i] : i \in 1 .. k}
           P(k) == /\ WellTagged(f[k]) /\ InTree(f[k]) = InTree(t)
                   /\ Tagged(f[k], id) = Tagged(t, id) \cup D(k)
                   /\ \A j \in Nat \ {id} : Tagged(f[k], j) = Tagged(t, j)
           Have == {k \in Nat : k <= Len(q) => P(k)}
<1>2. 0 \in Have
  <2>1. D(0) = {}
    OBVIOUS
  <2> HIDE DEF D
  <2>2. P(0)
    BY <1>1, <2>1, Zenon
  <2> HIDE DEF P
  <2> QED BY <2>2
<1>3. ASSUME NEW k \in Nat, k \in Have PROVE k + 1 \in Have
  <2>1. SUFFICES ASSUME k + 1 <= Len(q) PROVE P(k + 1)
    <3> HIDE DEF P
    <3> QED BY <2>1
  <2>2. P(k)
    <3> HIDE DEF P
    <3> QED BY <1>0, <1>3, <2>1
  <2>3. k + 1 \in 1 .. Len(q) /\ (k + 1) - 1 = k
    BY <1>0, <2>1
  <2>4. D(k + 1) = D(k) \cup {q[k + 1]}
    <3>1. 1 .. k + 1 = (1 .. k) \cup {k + 1}
      OBVIOUS
    <3> QED BY <3>1, Zenon
  <2>5. q[k + 1] \in InTree(f[k])
    BY <1>0, <2>2, <2>3, Zenon DEF Range
  <2>6. f[k + 1] = Mark(f[k], NodeOf(f[k], q[k + 1]), id)
    BY <1>1, <2>3
  <2> HIDE DEF D
  <2>7. IsTree(f[k]) /\ \A j \in Nat : TagExact(f[k], j)
    BY <2>2, Zenon DEF WellTagged
  <2>8. /\ IsTree(f[k + 1]) /\ InTree(f[k + 1]) = InTree(f[k])
        /\ \A j \in Nat : TagExact(f[k + 1], j)
        /\ Tagged(f[k + 1], id) = Tagged(f[k], id) \cup {q[k + 1]}
        /\ \A j \in Nat \ {id} : Tagged(f[k + 1], j) = Tagged(f[k], j)
    BY <2>5, <2>6, <2>7, MarkKeeps
  <2> QED BY <2>2, <2>4, <2>8, Zenon DEF WellTagged
<1>4. P(Len(q))
  <2>1. Len(q) \in Have
    <3> HIDE DEF Have
    <3> QED BY <1>0, <1>2, <1>3, SetInduction
  <2> HIDE DEF P
  <2> QED BY <1>0, <2>1
<1>5. D(Len(q)) = Range(q)
  BY <1>0, Zenon DEF Range
<1> HIDE DEF D
<1> QED BY <1>1, <1>4, <1>5, Zenon

\* A removed state after another is unmarked.
Unmarks(f, t, id, q) ==
  /\ f[0] = t /\ UnmarkEach(t, id, q) = f[Len(q)]
  /\ \A k \in 1 .. Len(q) : f[k] = Unmark(f[k - 1], NodeOf(f[k - 1], q[k]), id)

\* UnmarkEach has a run.
LEMMA UnmarkSteps ==
  ASSUME NEW t, NEW id, NEW q, Len(q) \in Nat
  PROVE  \E f : Unmarks(f, t, id, q)
<1> DEFINE op(x, s) == Unmark(x, NodeOf(x, s), id)
           Runs(f) == f = [k \in 0 .. Len(q) |-> IF k = 0 THEN t ELSE op(f[k - 1], q[k])]
           e == CHOOSE f : Runs(f)
<1>1. PICK g : LoopRun(g, "unmark", id, 0, 0, t, q, Len(q))
  BY LoopRuns, Zenon
<1>2. \A x, s : Body("unmark", id, 0, 0, x, s) = op(x, s)
  BY Zenon DEF Body
<1>3. Runs(g)
  BY <1>1, <1>2, Zenon DEF LoopRun
<1>4. Runs(e)
  <2> HIDE DEF Runs
  <2> QED BY <1>3, Zenon
<1>5. UnmarkEach(t, id, q) = e[Len(q)]
  BY Zenon DEF UnmarkEach, ForEach
<1> HIDE DEF e, op
<1>6. e[0] = t /\ \A k \in 1 .. Len(q) : e[k] = op(e[k - 1], q[k])
  BY <1>4
<1> QED BY <1>5, <1>6, Zenon DEF op, Unmarks

\* UnmarkEach changes who owns the states of the list, and nothing else.
LEMMA UnmarkEachKeeps ==
  ASSUME NEW t, WellTagged(t), NEW id \in Nat, NEW q \in Seq(State), Range(q) \subseteq InTree(t)
  PROVE  LET u == UnmarkEach(t, id, q)
         IN /\ WellTagged(u) /\ InTree(u) = InTree(t)
            /\ Tagged(u, id) = Tagged(t, id) \ Range(q)
            /\ \A j \in Nat \ {id} : Tagged(u, j) = Tagged(t, j)
<1>0. Len(q) \in Nat /\ DOMAIN q = 1 .. Len(q)
  OBVIOUS
<1>e. PICK f : Unmarks(f, t, id, q)
  BY <1>0, UnmarkSteps, SMTT(30)
<1>1. /\ f[0] = t /\ UnmarkEach(t, id, q) = f[Len(q)]
      /\ \A k \in 1 .. Len(q) : f[k] = Unmark(f[k - 1], NodeOf(f[k - 1], q[k]), id)
  BY <1>e, Zenon DEF Unmarks
<1> DEFINE D(k) == {q[i] : i \in 1 .. k}
           P(k) == /\ WellTagged(f[k]) /\ InTree(f[k]) = InTree(t)
                   /\ Tagged(f[k], id) = Tagged(t, id) \ D(k)
                   /\ \A j \in Nat \ {id} : Tagged(f[k], j) = Tagged(t, j)
           Have == {k \in Nat : k <= Len(q) => P(k)}
<1>2. 0 \in Have
  <2>1. D(0) = {}
    OBVIOUS
  <2> HIDE DEF D
  <2>2. P(0)
    BY <1>1, <2>1, Zenon
  <2> HIDE DEF P
  <2> QED BY <2>2
<1>3. ASSUME NEW k \in Nat, k \in Have PROVE k + 1 \in Have
  <2>1. SUFFICES ASSUME k + 1 <= Len(q) PROVE P(k + 1)
    <3> HIDE DEF P
    <3> QED BY <2>1
  <2>2. P(k)
    <3> HIDE DEF P
    <3> QED BY <1>0, <1>3, <2>1
  <2>3. k + 1 \in 1 .. Len(q) /\ (k + 1) - 1 = k
    BY <1>0, <2>1
  <2>4. D(k + 1) = D(k) \cup {q[k + 1]}
    <3>1. 1 .. k + 1 = (1 .. k) \cup {k + 1}
      OBVIOUS
    <3> QED BY <3>1, Zenon
  <2>5. q[k + 1] \in InTree(f[k])
    BY <1>0, <2>2, <2>3, Zenon DEF Range
  <2>6. f[k + 1] = Unmark(f[k], NodeOf(f[k], q[k + 1]), id)
    BY <1>1, <2>3
  <2> HIDE DEF D
  <2>7. IsTree(f[k]) /\ \A j \in Nat : TagExact(f[k], j)
    BY <2>2, Zenon DEF WellTagged
  <2>8. /\ IsTree(f[k + 1]) /\ InTree(f[k + 1]) = InTree(f[k])
        /\ \A j \in Nat : TagExact(f[k + 1], j)
        /\ Tagged(f[k + 1], id) = Tagged(f[k], id) \ {q[k + 1]}
        /\ \A j \in Nat \ {id} : Tagged(f[k + 1], j) = Tagged(f[k], j)
    BY <2>5, <2>6, <2>7, UnmarkKeeps
  <2> QED BY <2>2, <2>4, <2>8, Zenon DEF WellTagged
<1>4. P(Len(q))
  <2>1. Len(q) \in Have
    <3> HIDE DEF Have
    <3> QED BY <1>0, <1>2, <1>3, SetInduction
  <2> HIDE DEF P
  <2> QED BY <1>0, <2>1
<1>5. D(Len(q)) = Range(q)
  BY <1>0, Zenon DEF Range
<1> HIDE DEF D
<1> QED BY <1>1, <1>4, <1>5, Zenon

\* RandomPathSearcher::update.
LEMMA PathUpdateKeeps ==
  ASSUME NEW t, WellTagged(t), NEW id \in Nat, NEW added \in Seq(State), Range(added) \subseteq InTree(t),
         NEW removed, removed \subseteq InTree(t), removed \subseteq State
  PROVE  LET u == PathUpdate(t, id, added, removed)
         IN /\ WellTagged(u) /\ InTree(u) = InTree(t)
            /\ Tagged(u, id) = (Tagged(t, id) \cup Range(added)) \ removed
            /\ \A j \in Nat \ {id} : Tagged(u, j) = Tagged(t, j)
<1> DEFINE v == MarkEach(t, id, added)
           q == InOrder(removed)
           u == UnmarkEach(v, id, q)
<1>1. /\ WellTagged(v) /\ InTree(v) = InTree(t)
      /\ Tagged(v, id) = Tagged(t, id) \cup Range(added)
      /\ \A j \in Nat \ {id} : Tagged(v, j) = Tagged(t, j)
  BY MarkEachKeeps
<1>2. q \in Seq(State) /\ Range(q) = removed
  BY InOrderIs
<1> HIDE DEF v, q
<1>3. /\ WellTagged(u) /\ InTree(u) = InTree(v)
      /\ Tagged(u, id) = Tagged(v, id) \ Range(q)
      /\ \A j \in Nat \ {id} : Tagged(u, j) = Tagged(v, j)
  <2>1. Range(q) \subseteq InTree(v)
    BY <1>1, <1>2, Zenon
  <2> QED BY <1>1, <1>2, <2>1, UnmarkEachKeeps
<1>4. PathUpdate(t, id, added, removed) = u
  BY Zenon DEF PathUpdate, v, q
<1> HIDE DEF u
<1> QED BY <1>1, <1>2, <1>3, <1>4, Zenon
(***************************************************************************)
(* One core searcher.                                                      *)
(***************************************************************************)
Core == [kind : Kinds, id : Nat, states : Seq(State)]

\* A core searcher holds exactly the states B, each once.
CoreHolds(c, n, t, B) ==
  /\ c \in Core /\ c.id = n /\ IsInjective(c.states)
  /\ c.kind = "RandomPath" => Tagged(t, n) = B
  /\ c.kind # "RandomPath" => Range(c.states) = B

\* They are the states it can select.
LEMMA CoreStatesIs ==
  ASSUME NEW c, NEW n \in Nat, NEW t, NEW B, WellTagged(t), CoreHolds(c, n, t, B)
  PROVE  CoreStates(c, t) = B /\ (c.kind = "RandomPath" /\ B # {} => ~WalkLost(t, c.id, NULL))
<1>1. c.id = n /\ IsTree(t) /\ TagExact(t, n)
  BY Zenon DEF CoreHolds, WellTagged
<1>2. WalkEnds(t, n, NULL) = Tagged(t, n) /\ (Tagged(t, n) # {} => ~WalkLost(t, n, NULL))
  BY <1>1, WalkIs
<1> QED BY <1>1, <1>2, Zenon DEF CoreStates, CoreHolds

\* A core searcher gets another list.
LEMMA WithStates ==
  ASSUME NEW c \in Core, NEW q \in Seq(State)
  PROVE  /\ [c EXCEPT !.states = q] \in Core /\ [c EXCEPT !.states = q].kind = c.kind
         /\ [c EXCEPT !.states = q].id = c.id /\ [c EXCEPT !.states = q].states = q
BY DEF Core

\* A core searcher that takes the added states and drops the removed ones.
Follows(c, d, added, removed) ==
  /\ d \in Core /\ d.kind = c.kind /\ d.id = c.id /\ IsInjective(d.states)
  /\ Range(d.states) = (Range(c.states) \cup Range(added)) \ removed

\* The three ways to keep a list: the added states come, the removed ones go.
LEMMA ListsUpdate ==
  ASSUME NEW c \in Core, IsInjective(c.states),
         NEW added \in Seq(State), IsInjective(added), Range(added) \cap Range(c.states) = {},
         NEW removed, NEW current, current # NULL /\ current \notin removed => current \in Range(c.states)
  PROVE  /\ Follows(c, ListUpdate(c, added, removed), added, removed)
         /\ Follows(c, BFSUpdate(c, current, added, removed), added, removed)
         /\ Follows(c, WeightedUpdate(c, added, removed), added, removed)
<1>0. c.states \in Seq(State) /\ \A q \in Seq(State) : Range(q) \subseteq State
  <2>1. \A q \in Seq(State) : \A k \in DOMAIN q : q[k] \in State
    OBVIOUS
  <2>2. c.states \in Seq(State)
    BY DEF Core
  <2> QED BY <2>1, <2>2, Zenon DEF Range
<1> DEFINE Fine(q) == /\ q \in Seq(State) /\ IsInjective(q)
                      /\ Range(q) = (Range(c.states) \cup Range(added)) \ removed
           Done(d) == /\ d \in Core /\ d.kind = c.kind /\ d.id = c.id /\ IsInjective(d.states)
                      /\ Range(d.states) = (Range(c.states) \cup Range(added)) \ removed
<1>1. ASSUME NEW q, Fine(q) PROVE Done([c EXCEPT !.states = q])
  <2>1. /\ [c EXCEPT !.states = q] \in Core /\ [c EXCEPT !.states = q].kind = c.kind
        /\ [c EXCEPT !.states = q].id = c.id /\ [c EXCEPT !.states = q].states = q
    BY <1>1, WithStates
  <2> QED BY <1>1, <2>1, Zenon
<1>2. ASSUME NEW r \in Seq(State), IsInjective(r), Range(r) = Range(c.states)
      PROVE  Fine(Erase(r \o added, removed))
  <2>1. r \o added \in Seq(State) /\ Range(r \o added) = Range(r) \cup Range(added) /\ IsInjective(r \o added)
    BY <1>2, JoinIs
  <2>2. /\ Erase(r \o added, removed) \in Seq(State)
        /\ Range(Erase(r \o added, removed)) = Range(r \o added) \ removed
        /\ IsInjective(Erase(r \o added, removed))
    BY <2>1, EraseIs, Zenon
  <2> QED BY <1>2, <2>1, <2>2, Zenon
<1>3. Fine(Erase(c.states \o added, removed))
  BY <1>0, <1>2
<1>4. ASSUME current # NULL, current \notin removed
      PROVE  Fine(Erase(Append(Erase(c.states, {current}), current) \o added, removed))
  <2> DEFINE e == Erase(c.states, {current})
             r == Append(e, current)
  <2>1. e \in Seq(State) /\ Range(e) = Range(c.states) \ {current} /\ IsInjective(e)
    BY <1>0, EraseIs
  <2>2. current \in Range(c.states) /\ current \in State /\ current \notin Range(e)
    BY <1>0, <1>4, <2>1, Zenon
  <2> HIDE DEF e
  <2>3. r \in Seq(State) /\ Range(r) = Range(e) \cup {current} /\ IsInjective(r)
    BY <2>1, <2>2, AppendIs
  <2> HIDE DEF r
  <2>4. Range(r) = Range(c.states)
    BY <2>1, <2>2, <2>3, Zenon
  <2> QED BY <1>2, <2>3, <2>4, Zenon DEF r, e
<1>5. Fine(InOrder((Range(c.states) \cup Range(added)) \ removed))
  <2>1. (Range(c.states) \cup Range(added)) \ removed \subseteq State
    BY <1>0, Zenon
  <2> QED BY <2>1, InOrderIs
<1>6. ListUpdate(c, added, removed) = [c EXCEPT !.states = Erase(c.states \o added, removed)]
  BY Zenon DEF ListUpdate
<1>7. WeightedUpdate(c, added, removed) = [c EXCEPT !.states = InOrder((Range(c.states) \cup Range(added)) \ removed)]
  BY Zenon DEF WeightedUpdate
<1>8. \/ BFSUpdate(c, current, added, removed) = [c EXCEPT !.states = Erase(c.states \o added, removed)]
      \/ /\ current # NULL /\ current \notin removed
         /\ BFSUpdate(c, current, added, removed)
              = [c EXCEPT !.states = Erase(Append(Erase(c.states, {current}), current) \o added, removed)]
  BY Zenon DEF BFSUpdate
<1> HIDE DEF Fine, Done
<1>9. Done(ListUpdate(c, added, removed))
  BY <1>1, <1>3, <1>6, Zenon
<1>10. Done(WeightedUpdate(c, added, removed))
  BY <1>1, <1>5, <1>7, Zenon
<1>11. Done(BFSUpdate(c, current, added, removed))
  BY <1>1, <1>3, <1>4, <1>8, Zenon
<1> QED BY <1>9, <1>10, <1>11, Zenon DEF Done, Follows
(***************************************************************************)
(* The stack of searchers.                                                 *)
(***************************************************************************)
Tree == UNION {[D -> TreeNode] : D \in SUBSET Path}
Stack ==
  [opt : CommandLine, cores : Seq(Core), index : Nat, last : State \cup {NULL},
   deepPaused : SUBSET State, mergePaused : SUBSET State, tree : Tree, ok : BOOLEAN,
   groups : Seq(Handler), open : [Handler -> Seq(State)],
   closed : [Handler -> [1 .. MergePoints -> Seq(State)]],
   openMergeStack : [State -> Seq(Handler)], inCloseMerge : SUBSET State]

\* What an update leaves alone.
Rest(S) == <<S.opt, S.index, S.mergePaused, S.groups, S.open, S.closed, S.openMergeStack, S.inCloseMerge>>

\* A process tree is one.
LEMMA TreeType ==
  ASSUME NEW t, IsTree(t)
  PROVE  t \in Tree
BY Zenon DEF IsTree, Tree

\* An assignment to one field changes that field: to the process tree,
LEMMA WithTree ==
  ASSUME NEW S \in Stack, NEW t \in Tree
  PROVE  LET T == [S EXCEPT !.tree = t]
         IN /\ T \in Stack /\ T.tree = t /\ T.cores = S.cores /\ T.ok = S.ok /\ T.last = S.last
            /\ T.deepPaused = S.deepPaused /\ Rest(T) = Rest(S)
BY Zenon DEF Stack, Rest

\* ... to the flag of the assertions,
LEMMA WithOk ==
  ASSUME NEW S \in Stack, NEW b \in BOOLEAN
  PROVE  LET T == [S EXCEPT !.ok = b]
         IN /\ T \in Stack /\ T.tree = S.tree /\ T.cores = S.cores /\ T.ok = b /\ T.last = S.last
            /\ T.deepPaused = S.deepPaused /\ Rest(T) = Rest(S)
BY Zenon DEF Stack, Rest

\* ... to the core searchers,
LEMMA WithCores ==
  ASSUME NEW S \in Stack, NEW q \in Seq(Core)
  PROVE  LET T == [S EXCEPT !.cores = q]
         IN /\ T \in Stack /\ T.tree = S.tree /\ T.cores = q /\ T.ok = S.ok /\ T.last = S.last
            /\ T.deepPaused = S.deepPaused /\ Rest(T) = Rest(S)
BY Zenon DEF Stack, Rest

\* ... to the state the batcher keeps,
LEMMA WithLast ==
  ASSUME NEW S \in Stack, NEW s \in State \cup {NULL}
  PROVE  LET T == [S EXCEPT !.last = s]
         IN /\ T \in Stack /\ T.tree = S.tree /\ T.cores = S.cores /\ T.ok = S.ok /\ T.last = s
            /\ T.deepPaused = S.deepPaused /\ Rest(T) = Rest(S)
BY Zenon DEF Stack, Rest

\* ... to the states paused for their time.
LEMMA WithPaused ==
  ASSUME NEW S \in Stack, NEW D \in SUBSET State
  PROVE  LET T == [S EXCEPT !.deepPaused = D]
         IN /\ T \in Stack /\ T.tree = S.tree /\ T.cores = S.cores /\ T.ok = S.ok /\ T.last = S.last
            /\ T.deepPaused = D /\ Rest(T) = Rest(S)
BY Zenon DEF Stack, Rest
\* What an update does to the parts of a stack it may change.
Updated(S, T) ==
  /\ T \in Stack /\ T.ok /\ Rest(T) = Rest(S) /\ T.last = S.last /\ T.deepPaused = S.deepPaused
  /\ WellTagged(T.tree) /\ InTree(T.tree) = InTree(S.tree)
  /\ DOMAIN T.cores = DOMAIN S.cores
  /\ \A m \in DOMAIN S.cores : T.cores[m].kind = S.cores[m].kind

\* An update that the executor may ask for while the searchers hold B.
Fits(S, B, current, added, removed) ==
  /\ added \in Seq(State) /\ IsInjective(added) /\ Range(added) \subseteq InTree(S.tree)
  /\ Range(added) \cap B = {} /\ removed \subseteq B \cup Range(added)
  /\ current # NULL /\ current \notin removed => current \in B

\* A core searcher that holds B, in a stack in order.
Ready(S, n, B) ==
  /\ S \in Stack /\ S.ok /\ WellTagged(S.tree) /\ n \in DOMAIN S.cores
  /\ B \subseteq InTree(S.tree) /\ CoreHolds(S.cores[n], n, S.tree, B)

\* T is S after an update of core searcher n, which then holds B.
CoreUpdated(S, T, n, B) ==
  /\ Updated(S, T) /\ CoreHolds(T.cores[n], n, T.tree, B)
  /\ \A m \in DOMAIN S.cores \ {n} : T.cores[m] = S.cores[m]
  /\ \A j \in Nat \ {n} : Tagged(T.tree, j) = Tagged(S.tree, j)
  /\ S.cores[n].kind # "RandomPath" => Tagged(T.tree, n) = Tagged(S.tree, n)

\* The update of one core searcher: its assertions hold, it takes the added states and
\* drops the removed ones, and the other searchers keep theirs.
LEMMA CoreUpdateKeeps ==
  ASSUME NEW S, NEW n, NEW B, NEW current, NEW added, NEW removed,
         Ready(S, n, B), Fits(S, B, current, added, removed)
  PROVE  CoreUpdated(S, CoreUpdate(S, n, current, added, removed), n, (B \cup Range(added)) \ removed)
<1>r. /\ S \in Stack /\ S.ok /\ WellTagged(S.tree) /\ n \in DOMAIN S.cores
      /\ B \subseteq InTree(S.tree) /\ CoreHolds(S.cores[n], n, S.tree, B)
  BY Zenon DEF Ready
<1>f. /\ added \in Seq(State) /\ IsInjective(added) /\ Range(added) \subseteq InTree(S.tree)
      /\ Range(added) \cap B = {} /\ removed \subseteq B \cup Range(added)
      /\ current # NULL /\ current \notin removed => current \in B
  BY Zenon DEF Fits
<1> USE <1>r, <1>f
<1> DEFINE c == S.cores[n]
           U == [S EXCEPT !.ok = @ /\ UpdateAsserts(c, S.tree, current, added, removed)]
           T == CoreUpdate(S, n, current, added, removed)
           B2 == (B \cup Range(added)) \ removed
<1>0. S.cores \in Seq(Core) /\ n \in Nat /\ c \in Core /\ DOMAIN S.cores = 1 .. Len(S.cores) /\ Len(S.cores) \in Nat
  BY DEF Stack
<1>1. CoreStates(c, S.tree) = B
  BY <1>0, CoreStatesIs, Zenon
<1>2. UpdateAsserts(c, S.tree, current, added, removed)
  BY <1>1, Zenon DEF UpdateAsserts
<1>3. /\ U \in Stack /\ U.tree = S.tree /\ U.cores = S.cores /\ U.ok /\ U.last = S.last
      /\ U.deepPaused = S.deepPaused /\ Rest(U) = Rest(S)
  <2>1. U = [S EXCEPT !.ok = TRUE]
    BY <1>2, Zenon
  <2> HIDE DEF U
  <2> QED BY <2>1, WithOk, Zenon
<1>k. c.kind \in Kinds /\ c.states \in Seq(State) /\ c.id = n /\ IsInjective(c.states)
  <2>1. c.kind \in Kinds /\ c.states \in Seq(State)
    BY <1>0, SMTT(30) DEF Core
  <2> QED BY <2>1, Zenon DEF CoreHolds
<1>4. CASE c.kind = "RandomPath"
  <2> DEFINE u == PathUpdate(S.tree, n, added, removed)
  <2>1. T = [U EXCEPT !.tree = u]
    <3>1. T = [U EXCEPT !.tree = PathUpdate(@, c.id, added, removed)]
      BY <1>3, <1>4, Zenon DEF CoreUpdate
    <3> HIDE DEF U, T
    <3> QED BY <1>3, <1>k, <3>1, Zenon
  <2>2. /\ WellTagged(u) /\ InTree(u) = InTree(S.tree)
        /\ Tagged(u, n) = (Tagged(S.tree, n) \cup Range(added)) \ removed
        /\ \A j \in Nat \ {n} : Tagged(u, j) = Tagged(S.tree, j)
    <3>1. removed \subseteq InTree(S.tree)
      BY Zenon
    <3>2. InTree(S.tree) \subseteq State
      BY NodeIs, Zenon DEF WellTagged
    <3>3. removed \subseteq State
      BY <3>1, <3>2, Zenon
    <3>4. n \in Nat
      BY <1>0
    <3> QED BY <3>1, <3>3, <3>4, PathUpdateKeeps
  <2> HIDE DEF u, U, T
  <2>3. u \in Tree
    BY <2>2, TreeType DEF WellTagged
  <2>4. /\ T \in Stack /\ T.tree = u /\ T.cores = U.cores /\ T.ok = U.ok /\ T.last = U.last
        /\ T.deepPaused = U.deepPaused /\ Rest(T) = Rest(U)
    BY <1>3, <2>1, <2>3, WithTree, Zenon
  <2>5. Updated(S, T)
    BY <1>3, <2>2, <2>4, Zenon DEF Updated
  <2>6. CoreHolds(T.cores[n], n, T.tree, B2)
    BY <1>3, <1>4, <2>2, <2>4, Zenon DEF CoreHolds
  <2> QED BY <1>3, <1>4, <2>2, <2>4, <2>5, <2>6, Zenon DEF T, CoreUpdated
<1>5. CASE c.kind # "RandomPath"
  <2> DEFINE d == IF c.kind = "BFS" THEN BFSUpdate(c, current, added, removed)
                  ELSE IF c.kind \in WeightedKinds THEN WeightedUpdate(c, added, removed)
                  ELSE ListUpdate(c, added, removed)
             q == [S.cores EXCEPT ![n] = d]
  <2>1. T = [U EXCEPT !.cores = q]
    <3>1. T = [U EXCEPT !.cores[n] =
                 IF c.kind = "BFS" THEN BFSUpdate(@, current, added, removed)
                 ELSE IF c.kind \in WeightedKinds THEN WeightedUpdate(@, added, removed)
                 ELSE ListUpdate(@, added, removed)]
      BY <1>3, <1>5, Zenon DEF CoreUpdate
    <3>2. U.cores = S.cores
      BY <1>3
    <3> HIDE DEF U, T
    <3> QED BY <3>1, <3>2, Zenon
  <2>2. /\ d \in Core /\ d.kind = c.kind /\ d.id = c.id /\ IsInjective(d.states)
        /\ Range(d.states) = (Range(c.states) \cup Range(added)) \ removed
    <3>1. Range(c.states) = B
      BY <1>5, Zenon DEF CoreHolds
    <3>2. /\ Follows(c, ListUpdate(c, added, removed), added, removed)
          /\ Follows(c, BFSUpdate(c, current, added, removed), added, removed)
          /\ Follows(c, WeightedUpdate(c, added, removed), added, removed)
      <4>1. Range(added) \cap Range(c.states) = {}
        BY <3>1, Zenon
      <4>2. current # NULL /\ current \notin removed => current \in Range(c.states)
        BY <3>1, Zenon
      <4>3. c \in Core /\ IsInjective(c.states) /\ added \in Seq(State) /\ IsInjective(added)
        BY <1>0, <1>k, Zenon
      <4> HIDE DEF c, U, T, d, q, B2
      <4> QED BY <4>1, <4>2, <4>3, ListsUpdate
    <3>3. Follows(c, d, added, removed)
      BY <3>2, Zenon
    <3> HIDE DEF d
    <3> QED BY <3>3, Zenon DEF Follows
  <2> HIDE DEF d
  <2>3. /\ q \in Seq(Core) /\ q[n] = d /\ DOMAIN q = DOMAIN S.cores
        /\ \A m \in DOMAIN S.cores \ {n} : q[m] = S.cores[m]
    <3> HIDE DEF c
    <3> QED BY <1>0, <2>2
  <2> HIDE DEF q, U, T
  <2>4. /\ T \in Stack /\ T.tree = U.tree /\ T.cores = q /\ T.ok = U.ok /\ T.last = U.last
        /\ T.deepPaused = U.deepPaused /\ Rest(T) = Rest(U)
    <3>1. U \in Stack /\ q \in Seq(Core)
      BY <1>3, <2>3
    <3>2. LET V == [U EXCEPT !.cores = q]
          IN /\ V \in Stack /\ V.tree = U.tree /\ V.cores = q /\ V.ok = U.ok /\ V.last = U.last
             /\ V.deepPaused = U.deepPaused /\ Rest(V) = Rest(U)
      BY <3>1, WithCores
    <3> QED BY <2>1, <3>2, Zenon
  <2>5. Updated(S, T)
    <3>1. \A m \in DOMAIN S.cores : T.cores[m].kind = S.cores[m].kind
      BY <2>2, <2>3, <2>4, Zenon
    <3> QED BY <1>3, <2>3, <2>4, <3>1, Zenon DEF Updated
  <2>6. CoreHolds(T.cores[n], n, T.tree, B2)
    <3>1. Range(c.states) = B
      BY <1>5, Zenon DEF CoreHolds
    <3> QED BY <1>5, <1>k, <2>2, <2>3, <2>4, <3>1, Zenon DEF CoreHolds
  <2> QED BY <1>3, <2>3, <2>4, <2>5, <2>6, Zenon DEF T, CoreUpdated
<1> QED BY <1>4, <1>5, Zenon

\* Nobody owns a node but the random path searchers.
NoStray(S) ==
  \A j \in Nat : (j \in DOMAIN S.cores => S.cores[j].kind # "RandomPath") => Tagged(S.tree, j) = {}

\* Every core searcher holds exactly the states B.
HeldBy(S, B) ==
  /\ S \in Stack /\ S.ok /\ WellTagged(S.tree) /\ B \subseteq InTree(S.tree) /\ NoStray(S)
  /\ \A n \in DOMAIN S.cores : CoreHolds(S.cores[n], n, S.tree, B)

\* The searchers below an InterleavedSearcher, one update after another.
Interleaves(f, S, current, added, removed) ==
  /\ f[0] = S /\ InterleavedUpdate(S, current, added, removed) = f[Len(S.cores)]
  /\ \A k \in 1 .. Len(S.cores) : f[k] = CoreUpdate(f[k - 1], k, current, added, removed)

\* InterleavedUpdate has a run.
LEMMA InterleavedSteps ==
  ASSUME NEW S \in Stack, NEW current, NEW added, NEW removed
  PROVE  \E f : Interleaves(f, S, current, added, removed)
<1> DEFINE q == [n \in DOMAIN S.cores |-> n]
           op(T, n) == CoreUpdate(T, n, current, added, removed)
           Runs(f) == f = [k \in 0 .. Len(q) |-> IF k = 0 THEN S ELSE op(f[k - 1], q[k])]
           e == CHOOSE f : Runs(f)
<1>0. Len(q) = Len(S.cores) /\ Len(q) \in Nat /\ \A k \in 1 .. Len(S.cores) : q[k] = k
  BY DEF Stack
<1>1. PICK g : LoopRun(g, "update", current, added, removed, S, q, Len(q))
  BY <1>0, LoopRuns, Zenon
<1>2. \A T, n : Body("update", current, added, removed, T, n) = op(T, n)
  BY Zenon DEF Body
<1>3. Runs(g)
  BY <1>1, <1>2, Zenon DEF LoopRun
<1>4. Runs(e)
  <2> HIDE DEF Runs
  <2> QED BY <1>3, Zenon
<1>5. InterleavedUpdate(S, current, added, removed) = e[Len(q)]
  BY Zenon DEF InterleavedUpdate, ForEach
<1> HIDE DEF e, op, q
<1>6. e[0] = S /\ \A k \in 1 .. Len(q) : e[k] = op(e[k - 1], q[k])
  BY <1>0, <1>4, SMTT(30)
<1>7. \A k \in 1 .. Len(S.cores) : e[k] = op(e[k - 1], k)
  BY <1>0, <1>6, Zenon
<1> QED BY <1>0, <1>5, <1>6, <1>7, ZenonT(40) DEF op, Interleaves

\* An update of all core searchers.
LEMMA InterleavedKeeps ==
  ASSUME NEW S, NEW B, HeldBy(S, B), NEW current, NEW added, NEW removed,
         Fits(S, B, current, added, removed)
  PROVE  LET T == InterleavedUpdate(S, current, added, removed)
         IN Updated(S, T) /\ HeldBy(T, (B \cup Range(added)) \ removed)
<1> DEFINE B2 == (B \cup Range(added)) \ removed
           N == Len(S.cores)
<1>0. /\ S \in Stack /\ S.ok /\ WellTagged(S.tree) /\ B \subseteq InTree(S.tree) /\ NoStray(S)
      /\ \A n \in DOMAIN S.cores : CoreHolds(S.cores[n], n, S.tree, B)
  BY Zenon DEF HeldBy
<1>1. DOMAIN S.cores = 1 .. N /\ N \in Nat
  BY <1>0 DEF Stack
<1>2. PICK f : Interleaves(f, S, current, added, removed)
  BY <1>0, InterleavedSteps
<1>3. /\ f[0] = S /\ InterleavedUpdate(S, current, added, removed) = f[N]
      /\ \A k \in 1 .. N : f[k] = CoreUpdate(f[k - 1], k, current, added, removed)
  BY <1>2, Zenon DEF Interleaves
<1> HIDE DEF N
<1> DEFINE P(k) == /\ Updated(S, f[k]) /\ NoStray(f[k])
                   /\ \A m \in DOMAIN S.cores :
                        /\ m <= k => CoreHolds(f[k].cores[m], m, f[k].tree, B2)
                        /\ ~(m <= k) => CoreHolds(f[k].cores[m], m, f[k].tree, B)
           Have == {k \in Nat : k <= N => P(k)}
<1>4. 0 \in Have
  <2>1. Updated(S, S)
    BY <1>0, Zenon DEF Updated
  <2>2. \A m \in DOMAIN S.cores : ~(m <= 0)
    BY <1>1
  <2>3. P(0)
    BY <1>0, <1>3, <2>1, <2>2, Zenon
  <2> HIDE DEF P
  <2> QED BY <2>3
<1>5. ASSUME NEW k \in Nat, k \in Have PROVE k + 1 \in Have
  <2>1. SUFFICES ASSUME k + 1 <= N PROVE P(k + 1)
    <3> HIDE DEF P
    <3> QED BY <2>1
  <2>2. P(k)
    <3> HIDE DEF P
    <3> QED BY <1>1, <1>5, <2>1
  <2> DEFINE n == k + 1
             U == f[k]
             T == f[n]
  <2>3. /\ n \in 1 .. N /\ n - 1 = k /\ n \in DOMAIN S.cores /\ ~(n <= k) /\ n \in Nat
        /\ \A m \in DOMAIN S.cores : m # n => (m <= n <=> m <= k)
        /\ n <= n /\ \A m \in DOMAIN S.cores : m \in Nat
    BY <1>1, <2>1
  <2>4. T = CoreUpdate(U, n, current, added, removed)
    BY <1>3, <2>3
  <2>5. /\ U \in Stack /\ U.ok /\ Rest(U) = Rest(S) /\ U.last = S.last /\ U.deepPaused = S.deepPaused
        /\ WellTagged(U.tree) /\ InTree(U.tree) = InTree(S.tree)
        /\ DOMAIN U.cores = DOMAIN S.cores
        /\ \A m \in DOMAIN S.cores : U.cores[m].kind = S.cores[m].kind
    BY <2>2, Zenon DEF Updated
  <2>6. CoreHolds(U.cores[n], n, U.tree, B)
    BY <2>2, <2>3, Zenon
  <2> HIDE DEF n, U, T
  <2>7. /\ Updated(U, T)
        /\ CoreHolds(T.cores[n], n, T.tree, B2)
        /\ \A m \in DOMAIN U.cores \ {n} : T.cores[m] = U.cores[m]
        /\ \A j \in Nat \ {n} : Tagged(T.tree, j) = Tagged(U.tree, j)
        /\ U.cores[n].kind # "RandomPath" => Tagged(T.tree, n) = Tagged(U.tree, n)
    <3>1. Fits(U, B, current, added, removed)
      BY <2>5, Zenon DEF Fits
    <3>2. Ready(U, n, B)
      BY <1>0, <2>3, <2>5, <2>6, Zenon DEF Ready
    <3>3. CoreUpdated(U, T, n, B2)
      <4> HIDE DEF P, Have
      <4> QED BY <2>4, <3>1, <3>2, CoreUpdateKeeps
    <3> HIDE DEF B2
    <3> QED BY <3>3, Zenon DEF CoreUpdated
  <2>8. Updated(S, T)
    BY <2>5, <2>7, Zenon DEF Updated
  <2>9. NoStray(T)
    <3>1. ASSUME NEW j \in Nat, j \in DOMAIN T.cores => T.cores[j].kind # "RandomPath" PROVE Tagged(T.tree, j) = {}
      <4>1. j \in DOMAIN U.cores => U.cores[j].kind # "RandomPath"
        BY <2>7, <3>1, Zenon DEF Updated
      <4>2. Tagged(U.tree, j) = {}
        BY <2>2, <4>1, Zenon DEF NoStray, U
      <4>3. Tagged(T.tree, j) = Tagged(U.tree, j)
        BY <2>3, <2>5, <2>7, <4>1, Zenon
      <4> QED BY <4>2, <4>3, Zenon
    <3> QED BY <3>1, Zenon DEF NoStray
  <2>10. ASSUME NEW m \in DOMAIN S.cores
         PROVE  /\ m <= n => CoreHolds(T.cores[m], m, T.tree, B2)
                /\ ~(m <= n) => CoreHolds(T.cores[m], m, T.tree, B)
    <3>1. CASE m = n
      BY <2>3, <2>7, <3>1, Zenon
    <3>2. CASE m # n
      <4>1. T.cores[m] = U.cores[m] /\ Tagged(T.tree, m) = Tagged(U.tree, m)
        BY <2>3, <2>5, <2>7, <3>2, Zenon
      <4>2. \A X : CoreHolds(U.cores[m], m, U.tree, X) => CoreHolds(T.cores[m], m, T.tree, X)
        BY <4>1, Zenon DEF CoreHolds
      <4> QED BY <2>2, <2>3, <3>2, <4>2, Zenon DEF U
    <3> QED BY <3>1, <3>2, Zenon
  <2> QED BY <2>8, <2>9, <2>10, Zenon DEF T, n
<1>6. P(N)
  <2>1. N \in Have
    <3> HIDE DEF Have
    <3> QED BY <1>1, <1>4, <1>5, SetInduction
  <2> HIDE DEF P
  <2> QED BY <1>1, <2>1
<1> DEFINE T == f[N]
<1>7. /\ Updated(S, T) /\ NoStray(T)
      /\ \A m \in DOMAIN S.cores : m <= N => CoreHolds(T.cores[m], m, T.tree, B2)
  BY <1>6, Zenon
<1> HIDE DEF T, P
<1>8. \A m \in DOMAIN S.cores : m <= N
  BY <1>1
<1>9. HeldBy(T, B2)
  <2>1. B2 \subseteq InTree(T.tree)
    BY <1>0, <1>7, Zenon DEF Fits, Updated
  <2> QED BY <1>7, <1>8, <2>1, Zenon DEF HeldBy, Updated
<1> QED BY <1>3, <1>7, <1>9, Zenon DEF T

\* A stack whose core searchers hold B and whose batcher keeps one of them or none.
Kept(S, B) ==
  /\ HeldBy(S, B) /\ S.last \in B \cup {NULL} /\ 1 \in DOMAIN S.cores /\ S.index \in DOMAIN S.cores

\* What an update of the batcher leaves alone.
Moved(S, T) ==
  /\ Rest(T) = Rest(S) /\ T.deepPaused = S.deepPaused /\ InTree(T.tree) = InTree(S.tree)
  /\ DOMAIN T.cores = DOMAIN S.cores

\* The rest of a stack, field by field.
LEMMA RestIs ==
  ASSUME NEW S, NEW T, Rest(S) = Rest(T)
  PROVE  /\ S.opt = T.opt /\ S.index = T.index /\ S.mergePaused = T.mergePaused
         /\ S.groups = T.groups /\ S.open = T.open /\ S.closed = T.closed
         /\ S.openMergeStack = T.openMergeStack /\ S.inCloseMerge = T.inCloseMerge
BY DEF Rest

\* The core searchers hold what they hold, whatever else changes.
LEMMA HeldSame ==
  ASSUME NEW S, NEW B, HeldBy(S, B), NEW T \in Stack, T.tree = S.tree, T.cores = S.cores, T.ok = S.ok
  PROVE  HeldBy(T, B)
<1>1. NoStray(T)
  BY Zenon DEF NoStray, HeldBy
<1> QED BY <1>1, Zenon DEF HeldBy

\* An update of the batching searcher.
LEMMA BatchingKeeps ==
  ASSUME NEW S, NEW B, NEW current, NEW added, NEW removed,
         Kept(S, B), Fits(S, B, current, added, removed)
  PROVE  LET T == BatchingUpdate(S, current, added, removed)
         IN Moved(S, T) /\ Kept(T, (B \cup Range(added)) \ removed)
<1> DEFINE last == IF S.last \in removed THEN NULL ELSE S.last
           U == [S EXCEPT !.last = last]
           T == BatchingUpdate(S, current, added, removed)
           B2 == (B \cup Range(added)) \ removed
<1>0. HeldBy(S, B) /\ S.last \in B \cup {NULL} /\ 1 \in DOMAIN S.cores /\ S.index \in DOMAIN S.cores
  BY Zenon DEF Kept
<1>1. S \in Stack /\ S.last \in State \cup {NULL}
  <2>1. S \in Stack
    BY <1>0, Zenon DEF HeldBy
  <2> QED BY <2>1 DEF Stack
<1>2. last \in State \cup {NULL} /\ last \in B2 \cup {NULL}
  BY <1>0, <1>1, Zenon
<1>3. T = InterleavedUpdate(U, current, added, removed)
  BY Zenon DEF BatchingUpdate
<1> HIDE DEF last, T
<1>4. /\ U \in Stack /\ U.tree = S.tree /\ U.cores = S.cores /\ U.ok = S.ok /\ U.last = last
      /\ U.deepPaused = S.deepPaused /\ Rest(U) = Rest(S)
  BY <1>1, <1>2, WithLast
<1> HIDE DEF U, B2
<1>5. HeldBy(U, B)
  BY <1>0, <1>4, HeldSame
<1>6. Fits(U, B, current, added, removed)
  BY <1>4, Zenon DEF Fits
<1>7. Updated(U, T) /\ HeldBy(T, B2)
  BY <1>3, <1>5, <1>6, InterleavedKeeps DEF B2
<1>8. T.last = last /\ DOMAIN T.cores = DOMAIN S.cores /\ Rest(T) = Rest(S)
      /\ InTree(T.tree) = InTree(S.tree) /\ T.deepPaused = S.deepPaused
  BY <1>4, <1>7, Zenon DEF Updated
<1>9. T.index = S.index
  BY <1>8, RestIs, Zenon
<1>10. Kept(T, B2)
  BY <1>0, <1>2, <1>7, <1>8, <1>9, Zenon DEF Kept
<1> QED BY <1>8, <1>10, Zenon DEF Moved, T, B2

\* Pausing and reviving states does not touch the searchers below.
LEMMA PausedKept ==
  ASSUME NEW S, NEW B, Kept(S, B), NEW D \in SUBSET State
  PROVE  LET T == [S EXCEPT !.deepPaused = D]
         IN Kept(T, B) /\ T.deepPaused = D /\ Rest(T) = Rest(S) /\ T.tree = S.tree /\ T.cores = S.cores
<1> DEFINE T == [S EXCEPT !.deepPaused = D]
<1>0. HeldBy(S, B) /\ S \in Stack
  BY Zenon DEF Kept, HeldBy
<1>1. /\ T \in Stack /\ T.tree = S.tree /\ T.cores = S.cores /\ T.ok = S.ok /\ T.last = S.last
      /\ T.deepPaused = D /\ Rest(T) = Rest(S)
  BY <1>0, WithPaused
<1> HIDE DEF T
<1>2. HeldBy(T, B)
  BY <1>0, <1>1, HeldSame
<1>3. T.index = S.index
  BY <1>1, RestIs, Zenon
<1>4. Kept(T, B)
  BY <1>1, <1>2, <1>3, Zenon DEF Kept
<1> QED BY <1>1, <1>4, Zenon DEF T

\* The first core searcher tells whether anything is left below.
LEMMA BaseEmptyIs ==
  ASSUME NEW S, NEW B, Kept(S, B)
  PROVE  BaseEmpty(S) <=> B = {}
<1>1. WellTagged(S.tree) /\ CoreHolds(S.cores[1], 1, S.tree, B)
  BY Zenon DEF Kept, HeldBy
<1>2. CoreStates(S.cores[1], S.tree) = B
  BY <1>1, CoreStatesIs, SMTT(30)
<1> QED BY <1>2, Zenon DEF BaseEmpty

\* A stack that knows the states L: those not paused are below.
Within(S, L) ==
  Kept(S, L \ S.deepPaused) /\ S.deepPaused \subseteq L /\ L \subseteq InTree(S.tree)

\* ... and that can go on with one of them.
Holds(S, L) ==
  /\ Within(S, L)
  /\ L \ S.deepPaused = {} => L = {}
  /\ ~S.opt.deepening => S.deepPaused = {}

\* What an executor that has the states L may ask of the whole stack.
Request(S, L, current, added, removed) ==
  /\ added \in Seq(State) /\ IsInjective(added) /\ Range(added) \subseteq InTree(S.tree)
  /\ Range(added) \cap L = {} /\ removed \subseteq L
  /\ current \in (L \ S.deepPaused) \cup {NULL}

\* What no update of the stack changes.
Same(S, T) ==
  Rest(T) = Rest(S) /\ InTree(T.tree) = InTree(S.tree) /\ DOMAIN T.cores = DOMAIN S.cores

\* Nothing to add.
LEMMA NothingAdded == << >> \in Seq(State) /\ Range(<< >>) = {} /\ IsInjective(<< >>)
<1>1. << >> \in Seq(State) /\ DOMAIN << >> = {}
  OBVIOUS
<1> QED BY <1>1, Zenon DEF Range, IsInjective

\* States that a stack knows are states.
LEMMA KnownAreStates ==
  ASSUME NEW S, NEW L, Within(S, L)
  PROVE  S \in Stack /\ IsTree(S.tree) /\ L \subseteq State /\ S.deepPaused \subseteq State /\ NULL \notin L
<1>1. S \in Stack /\ IsTree(S.tree) /\ L \subseteq InTree(S.tree) /\ S.deepPaused \subseteq L
  BY Zenon DEF Within, Kept, HeldBy, WellTagged
<1>2. InTree(S.tree) \subseteq State
  BY <1>1, NodeIs, Zenon
<1>3. NULL \notin InTree(S.tree)
  BY Zenon DEF InTree
<1> QED BY <1>1, <1>2, <1>3, Zenon

\* A state over its time is paused.
LEMMA PauseKeeps ==
  ASSUME NEW S, NEW L, Within(S, L), NEW current \in L \ S.deepPaused
  PROVE  Within(PauseCurrent(S, current), L) /\ Same(S, PauseCurrent(S, current))
<1> DEFINE D == S.deepPaused \cup {current}
           U == [S EXCEPT !.deepPaused = D]
           T == PauseCurrent(S, current)
           B == L \ S.deepPaused
<1>0. Kept(S, B) /\ S.deepPaused \subseteq L /\ L \subseteq InTree(S.tree)
  BY Zenon DEF Within
<1>1. D \in SUBSET State
  BY KnownAreStates, Zenon
<1>2. T = BatchingUpdate(U, NULL, << >>, {current})
  BY Zenon DEF PauseCurrent
<1>3. B \ {current} = L \ D /\ (B \cup {}) \ {current} = B \ {current} /\ D \subseteq L
  BY <1>0, Zenon
<1>4. {current} \subseteq B \cup {}
  BY Zenon
<1> HIDE DEF D, B, T
<1>5. Kept(U, B) /\ U.deepPaused = D /\ Rest(U) = Rest(S) /\ U.tree = S.tree /\ U.cores = S.cores
  BY <1>0, <1>1, PausedKept
<1> HIDE DEF U
<1>6. Fits(U, B, NULL, << >>, {current})
  BY <1>4, NothingAdded, Zenon DEF Fits
<1>7. Moved(U, T) /\ Kept(T, (B \cup Range(<< >>)) \ {current})
  BY <1>2, <1>5, <1>6, BatchingKeeps
<1>8. Kept(T, L \ D)
  BY <1>3, <1>7, NothingAdded, Zenon
<1>9. T.deepPaused = D /\ Rest(T) = Rest(S) /\ InTree(T.tree) = InTree(S.tree) /\ DOMAIN T.cores = DOMAIN S.cores
  BY <1>5, <1>7, Zenon DEF Moved
<1> QED BY <1>0, <1>3, <1>8, <1>9, Zenon DEF Within, Same, T

\* When nothing is left below, the paused states return.
LEMMA ReviveKeeps ==
  ASSUME NEW S, NEW L, Within(S, L), L \ S.deepPaused = {}
  PROVE  Within(Revive(S), L) /\ Same(S, Revive(S)) /\ Revive(S).deepPaused = {}
<1> DEFINE U == [S EXCEPT !.deepPaused = {}]
           T == Revive(S)
           q == InOrder(S.deepPaused)
<1>0. Kept(S, {}) /\ S.deepPaused = L /\ L \subseteq InTree(S.tree)
  BY Zenon DEF Within
<1>1. {} \in SUBSET State /\ L \subseteq State
  BY KnownAreStates, Zenon
<1>2. T = BatchingUpdate(U, NULL, q, {})
  BY Zenon DEF Revive
<1>3. q \in Seq(State) /\ Range(q) = L /\ IsInjective(q)
  BY <1>0, <1>1, InOrderIs
<1> HIDE DEF q, T
<1>4. Kept(U, {}) /\ U.deepPaused = {} /\ Rest(U) = Rest(S) /\ U.tree = S.tree /\ U.cores = S.cores
  BY <1>0, <1>1, PausedKept
<1> HIDE DEF U
<1>5. Fits(U, {}, NULL, q, {})
  BY <1>0, <1>3, <1>4, Zenon DEF Fits
<1>6. Moved(U, T) /\ Kept(T, ({} \cup Range(q)) \ {})
  BY <1>2, <1>4, <1>5, BatchingKeeps
<1>7. ({} \cup Range(q)) \ {} = L \ {}
  BY <1>3, Zenon
<1>8. T.deepPaused = {} /\ Rest(T) = Rest(S) /\ InTree(T.tree) = InTree(S.tree) /\ DOMAIN T.cores = DOMAIN S.cores
  BY <1>4, <1>6, Zenon DEF Moved
<1>9. Kept(T, L \ T.deepPaused)
  BY <1>6, <1>7, <1>8, Zenon
<1> QED BY <1>0, <1>8, <1>9, Zenon DEF Within, Same, T

\* The update that the deepening searcher passes on: of the removed states, those below.
Below(S, current, added, removed) ==
  BatchingUpdate([S EXCEPT !.deepPaused = @ \ removed], current, added, removed \ S.deepPaused)

\* T knows the states L of S, the added ones, and no removed one.
Learned(S, T, L, added, removed) ==
  /\ Within(T, (L \cup Range(added)) \ removed) /\ Same(S, T)
  /\ T.deepPaused = S.deepPaused \ removed

\* It leaves the searchers below with the states they should have.
LEMMA BelowKeeps ==
  ASSUME NEW S, NEW L, NEW current, NEW added, NEW removed, Within(S, L), Request(S, L, current, added, removed)
  PROVE  Learned(S, Below(S, current, added, removed), L, added, removed)
<1> DEFINE D == S.deepPaused \ removed
           U == [S EXCEPT !.deepPaused = D]
           gone == removed \ S.deepPaused
           T == Below(S, current, added, removed)
           B == L \ S.deepPaused
           L2 == (L \cup Range(added)) \ removed
<1>0. Kept(S, B) /\ S.deepPaused \subseteq L /\ L \subseteq InTree(S.tree)
  BY Zenon DEF Within
<1>1. D \in SUBSET State
  BY KnownAreStates, Zenon
<1>2. T = BatchingUpdate(U, current, added, gone)
  BY Zenon DEF Below
<1>r. /\ added \in Seq(State) /\ IsInjective(added) /\ Range(added) \subseteq InTree(S.tree)
      /\ Range(added) \cap L = {} /\ removed \subseteq L
      /\ current \in B \cup {NULL}
  BY Zenon DEF Request
<1>3. (B \cup Range(added)) \ gone = L2 \ D
  <2>1. \A x : x \in Range(added) => x \notin S.deepPaused
    BY <1>0, <1>r, Zenon
  <2> QED BY <2>1
<1>4. /\ Range(added) \cap B = {} /\ gone \subseteq B \cup Range(added)
      /\ (current # NULL /\ current \notin gone => current \in B)
  BY <1>r, Zenon
<1>5. D \subseteq L2 /\ L2 \subseteq InTree(S.tree)
  BY <1>0, <1>r, Zenon
<1> HIDE DEF D, B, T, L2, gone
<1>6. Kept(U, B) /\ U.deepPaused = D /\ Rest(U) = Rest(S) /\ U.tree = S.tree /\ U.cores = S.cores
  BY <1>0, <1>1, PausedKept
<1> HIDE DEF U
<1>7. Fits(U, B, current, added, gone)
  BY <1>r, <1>4, <1>6, Zenon DEF Fits
<1>8. Moved(U, T) /\ Kept(T, (B \cup Range(added)) \ gone)
  BY <1>2, <1>6, <1>7, BatchingKeeps
<1>9. T.deepPaused = D /\ Rest(T) = Rest(S) /\ InTree(T.tree) = InTree(S.tree) /\ DOMAIN T.cores = DOMAIN S.cores
  BY <1>6, <1>8, Zenon DEF Moved
<1>10. Kept(T, L2 \ T.deepPaused)
  BY <1>3, <1>8, <1>9, Zenon
<1>11. Within(T, L2)
  BY <1>5, <1>9, <1>10, Zenon DEF Within
<1> QED BY <1>9, <1>11, Zenon DEF Same, T, D, L2, gone, Learned

\* One stack after another.
LEMMA SameTrans ==
  ASSUME NEW S, NEW T, NEW U, Same(S, T), Same(T, U)
  PROVE  Same(S, U)
BY Zenon DEF Same

\* The deepening searcher: no state is lost or known twice, and one can run as long as
\* there are any.
LEMMA DeepeningKeeps ==
  ASSUME NEW S, NEW L, NEW current, NEW added, NEW removed, NEW elapsed,
         Holds(S, L), Request(S, L, current, added, removed)
  PROVE  LET T == DeepeningUpdate(S, current, added, removed, elapsed)
         IN Holds(T, (L \cup Range(added)) \ removed) /\ Same(S, T)
<1> DEFINE below == Below(S, current, added, removed)
           expired == current # NULL /\ current \notin removed /\ elapsed
           after == IF expired THEN PauseCurrent(below, current) ELSE below
           T == DeepeningUpdate(S, current, added, removed, elapsed)
           L2 == (L \cup Range(added)) \ removed
<1>0. Within(S, L) /\ (~S.opt.deepening => S.deepPaused = {})
  BY Zenon DEF Holds
<1>1. T = IF ~S.opt.deepening THEN BatchingUpdate(S, current, added, removed)
          ELSE IF BaseEmpty(after) THEN Revive(after) ELSE after
  BY Zenon DEF DeepeningUpdate, Below
<1>2. /\ current \in (L \ S.deepPaused) \cup {NULL} /\ removed \subseteq L
      /\ added \in Seq(State) /\ IsInjective(added) /\ Range(added) \subseteq InTree(S.tree)
      /\ Range(added) \cap L = {}
  BY Zenon DEF Request
<1>3. CASE ~S.opt.deepening
  <2>1. T = BatchingUpdate(S, current, added, removed)
    BY <1>1, <1>3, Zenon
  <2>2. S.deepPaused = {} /\ L \ {} = L
    BY <1>0, <1>3, Zenon
  <2>3. Kept(S, L) /\ L \subseteq InTree(S.tree)
    BY <1>0, <2>2, Zenon DEF Within
  <2>4. Fits(S, L, current, added, removed)
    BY <1>2, <2>2, Zenon DEF Fits
  <2> HIDE DEF T
  <2>5. Moved(S, T) /\ Kept(T, L2)
    BY <2>1, <2>3, <2>4, BatchingKeeps
  <2>6. T.deepPaused = {} /\ Rest(T) = Rest(S) /\ InTree(T.tree) = InTree(S.tree) /\ DOMAIN T.cores = DOMAIN S.cores
    BY <2>2, <2>5, Zenon DEF Moved
  <2>7. L2 \ {} = L2 /\ L2 \subseteq InTree(S.tree)
    BY <1>2, <2>3, Zenon
  <2> HIDE DEF L2
  <2>8. Within(T, L2)
    BY <2>5, <2>6, <2>7, Zenon DEF Within
  <2> QED BY <2>6, <2>7, <2>8, Zenon DEF Holds, Same, T, L2
<1>4. CASE S.opt.deepening
  <2>1. T = IF BaseEmpty(after) THEN Revive(after) ELSE after
    BY <1>1, <1>4, Zenon
  <2>2. Within(below, L2) /\ Same(S, below) /\ below.deepPaused = S.deepPaused \ removed
    <3>1. Within(S, L)
      BY <1>0, Zenon
    <3>2. Learned(S, below, L, added, removed)
      <4> HIDE DEF after, T, expired
      <4> QED BY <3>1, BelowKeeps
    <3> QED BY <3>2, Zenon DEF Learned
  <2>3. expired => current \in L2 \ below.deepPaused
    BY <1>2, <2>2, Zenon
  <2> HIDE DEF below, L2, T
  <2>4. Within(after, L2) /\ Same(S, after)
    <3>1. CASE expired
      <4>1. Within(PauseCurrent(below, current), L2) /\ Same(below, PauseCurrent(below, current))
        BY <2>2, <2>3, <3>1, PauseKeeps
      <4>2. after = PauseCurrent(below, current)
        BY <3>1, Zenon
      <4> HIDE DEF after
      <4> QED BY <2>2, <4>1, <4>2, SameTrans, Zenon
    <3>2. CASE ~expired
      <4>1. after = below
        BY <3>2, Zenon
      <4> QED BY <2>2, <4>1, Zenon
    <3> QED BY <3>1, <3>2, Zenon
  <2> HIDE DEF after
  <2>5. BaseEmpty(after) <=> L2 \ after.deepPaused = {}
    <3>1. Kept(after, L2 \ after.deepPaused)
      BY <2>4, Zenon DEF Within
    <3> QED BY <3>1, BaseEmptyIs, Zenon
  <2>6. Within(T, L2) /\ Same(S, T) /\ (L2 \ T.deepPaused = {} => L2 = {})
    <3>1. CASE BaseEmpty(after)
      <4>1. T = Revive(after)
        BY <2>1, <3>1, Zenon
      <4>2. Within(Revive(after), L2) /\ Same(after, Revive(after)) /\ Revive(after).deepPaused = {}
        BY <2>4, <2>5, <3>1, ReviveKeeps, Zenon
      <4> QED BY <2>4, <4>1, <4>2, SameTrans, Zenon
    <3>2. CASE ~BaseEmpty(after)
      <4>1. T = after
        BY <2>1, <3>2, Zenon
      <4> QED BY <2>4, <2>5, <3>2, <4>1, Zenon
    <3> QED BY <3>1, <3>2, Zenon
  <2>7. T.opt.deepening
    <3>1. T.opt = S.opt
      BY <2>6, RestIs, Zenon DEF Same
    <3> QED BY <1>4, <3>1, Zenon
  <2> QED BY <2>6, <2>7, Zenon DEF Holds, L2, T
<1> QED BY <1>3, <1>4, Zenon

\* No state waits at a merge, and there is no handler.
Idle(S) ==
  /\ S.mergePaused = {} /\ S.groups = << >> /\ S.inCloseMerge = {}
  /\ \A h \in Handler : S.open[h] = << >> /\ \A p \in 1 .. MergePoints : S.closed[h][p] = << >>
  /\ \A s \in State : S.openMergeStack[s] = << >>

\* It stays so while nobody touches the handlers.
LEMMA IdleSame ==
  ASSUME NEW S, NEW T, Idle(S), Rest(T) = Rest(S)
  PROVE  Idle(T)
<1>1. /\ T.mergePaused = S.mergePaused /\ T.groups = S.groups /\ T.open = S.open /\ T.closed = S.closed
      /\ T.openMergeStack = S.openMergeStack /\ T.inCloseMerge = S.inCloseMerge
  BY RestIs, Zenon
<1> QED BY <1>1, ZenonT(40) DEF Idle

\* An update of the whole stack, without merging.
LEMMA SearcherKeeps ==
  ASSUME NEW S, NEW L, NEW current, NEW added, NEW removed, NEW elapsed,
         Holds(S, L), Idle(S), Request(S, L, current, added, removed)
  PROVE  LET T == SearcherUpdate(S, current, added, removed, elapsed)
         IN Holds(T, (L \cup Range(added)) \ removed) /\ Same(S, T) /\ Idle(T)
<1> DEFINE T == SearcherUpdate(S, current, added, removed, elapsed)
           L2 == (L \cup Range(added)) \ removed
<1>1. T = DeepeningUpdate(S, current, added, removed, elapsed)
  BY Zenon DEF SearcherUpdate, Idle
<1> HIDE DEF T
<1>2. Holds(T, L2) /\ Same(S, T)
  BY <1>1, DeepeningKeeps
<1> HIDE DEF L2
<1>3. Rest(T) = Rest(S)
  BY <1>2, Zenon DEF Same
<1>5. Idle(T)
  BY <1>3, IdleSame, Zenon
<1> QED BY <1>2, <1>5, Zenon DEF T, L2

\* What a selection leaves as it is.
Selected(S, T) ==
  /\ T \in Stack /\ T.opt = S.opt /\ T.tree = S.tree /\ T.cores = S.cores /\ T.ok = S.ok
  /\ T.deepPaused = S.deepPaused /\ T.mergePaused = S.mergePaused /\ T.groups = S.groups
  /\ T.open = S.open /\ T.closed = S.closed /\ T.openMergeStack = S.openMergeStack
  /\ T.inCloseMerge = S.inCloseMerge

\* A stack after a selection is as good as before.
LEMMA SelectedHolds ==
  ASSUME NEW S, NEW L, NEW T, Holds(S, L), Selected(S, T), T.index \in DOMAIN T.cores,
         T.last \in (L \ S.deepPaused) \cup {NULL}
  PROVE  Holds(T, L) /\ (Idle(S) => Idle(T))
<1>1. Within(S, L) /\ (L \ S.deepPaused = {} => L = {}) /\ (~S.opt.deepening => S.deepPaused = {})
  BY Zenon DEF Holds
<1>2. Kept(S, L \ S.deepPaused) /\ S.deepPaused \subseteq L /\ L \subseteq InTree(S.tree)
  BY <1>1, Zenon DEF Within
<1>3. HeldBy(S, L \ S.deepPaused) /\ 1 \in DOMAIN S.cores
  BY <1>2, Zenon DEF Kept
<1>4. /\ T \in Stack /\ T.opt = S.opt /\ T.tree = S.tree /\ T.cores = S.cores /\ T.ok = S.ok
      /\ T.deepPaused = S.deepPaused
  BY Zenon DEF Selected
<1> DEFINE B == L \ S.deepPaused
<1>5. HeldBy(T, B)
  <2> HIDE DEF B
  <2>1. HeldBy(S, B)
    BY <1>3, Zenon DEF B
  <2> QED BY <2>1, <1>4, HeldSame
<1>6. Kept(T, B)
  BY <1>3, <1>4, <1>5, Zenon DEF Kept
<1>7. Within(T, L)
  BY <1>2, <1>4, <1>6, Zenon DEF Within
<1>8. Holds(T, L)
  BY <1>1, <1>4, <1>7, Zenon DEF Holds
<1>9. Idle(S) => Idle(T)
  <2>1. /\ T.mergePaused = S.mergePaused /\ T.groups = S.groups /\ T.open = S.open /\ T.closed = S.closed
        /\ T.openMergeStack = S.openMergeStack /\ T.inCloseMerge = S.inCloseMerge
    BY Zenon DEF Selected
  <2> QED BY <2>1, Zenon DEF Idle
<1> QED BY <1>8, <1>9, Zenon

\* What a core searcher selects is one of the states it holds.
LEMMA CoreSelectIs ==
  ASSUME NEW c, NEW n \in Nat, NEW t, NEW B, WellTagged(t), CoreHolds(c, n, t, B), B # {}
  PROVE  CoreSelects(c, t) \subseteq B /\ SelectAsserts(c, t)
<1>1. CoreStates(c, t) = B /\ (c.kind = "RandomPath" /\ B # {} => ~WalkLost(t, c.id, NULL))
  BY CoreStatesIs
<1>2. SelectAsserts(c, t)
  BY <1>1, Zenon DEF SelectAsserts
<1>3. c.kind # "RandomPath" => c.states \in Seq(State) /\ Range(c.states) = B
  <2>1. c \in Core /\ (c.kind # "RandomPath" => Range(c.states) = B)
    BY Zenon DEF CoreHolds
  <2> QED BY <2>1 DEF Core
<1>4. c.kind # "RandomPath" => c.states[Len(c.states)] \in B /\ Head(c.states) \in B
  <2>1. SUFFICES ASSUME c.kind # "RandomPath" PROVE c.states[Len(c.states)] \in B /\ Head(c.states) \in B
    OBVIOUS
  <2> DEFINE q == c.states
  <2>2. q \in Seq(State) /\ Range(q) # {} /\ Range(q) = B
    BY <1>3, <2>1, Zenon
  <2> HIDE DEF q
  <2>3. \E k \in DOMAIN q : TRUE
    BY <2>2, Zenon DEF Range
  <2>4. Len(q) \in DOMAIN q /\ 1 \in DOMAIN q /\ Head(q) = q[1]
    BY <2>2, <2>3
  <2>5. q[Len(q)] \in Range(q) /\ q[1] \in Range(q)
    BY <2>4, Zenon DEF Range
  <2> QED BY <2>2, <2>4, <2>5, Zenon DEF q
<1>5. CoreSelects(c, t) \subseteq B
  <2>1. CASE c.kind = "DFS"
    <3>1. CoreSelects(c, t) = {c.states[Len(c.states)]}
      BY <2>1, Zenon DEF CoreSelects
    <3>2. c.kind # "RandomPath"
      BY <2>1
    <3> QED BY <1>4, <3>1, <3>2, Zenon
  <2>2. CASE c.kind = "BFS"
    <3>1. CoreSelects(c, t) = {Head(c.states)}
      BY <2>2 DEF CoreSelects
    <3>2. c.kind # "RandomPath"
      BY <2>2
    <3> QED BY <1>4, <3>1, <3>2, Zenon
  <2>3. CASE c.kind # "DFS" /\ c.kind # "BFS"
    BY <1>1, <2>3, Zenon DEF CoreSelects
  <2> QED BY <2>1, <2>2, <2>3, Zenon
<1> QED BY <1>2, <1>5, Zenon

\* selectState, without merging: it returns a state that is not held back.
LEMMA SelectKeeps ==
  ASSUME NEW S, NEW L, Holds(S, L), Idle(S), ~S.opt.merging, L # {}, NEW used, NEW late,
         NEW r \in SelectState(S, used, late)
  PROVE  /\ r[1] \in L \ S.deepPaused
         /\ Selected(S, r[2]) /\ Holds(r[2], L) /\ Idle(r[2])
<1> DEFINE c == S.cores[S.index]
           B == L \ S.deepPaused
           i == IF S.index = 1 THEN Len(S.cores) ELSE S.index - 1
           b == S.ok /\ SelectAsserts(c, S.tree)
           turn == [S EXCEPT !.index = i, !.ok = b]
           kept(s) == [turn EXCEPT !.last = IF S.opt.batching THEN s ELSE NULL]
<1>0. /\ Kept(S, B) /\ HeldBy(S, B) /\ S.last \in B \cup {NULL} /\ 1 \in DOMAIN S.cores
      /\ S.index \in DOMAIN S.cores /\ B # {} /\ S \in Stack /\ S.ok /\ WellTagged(S.tree)
      /\ CoreHolds(c, S.index, S.tree, B)
  BY Zenon DEF Holds, Within, Kept, HeldBy
<1>1. /\ DOMAIN S.cores = 1 .. Len(S.cores) /\ Len(S.cores) \in Nat /\ S.index \in Nat
      /\ i \in DOMAIN S.cores /\ i \in Nat
  BY <1>0 DEF Stack
<1>2. CoreSelects(c, S.tree) \subseteq B /\ SelectAsserts(c, S.tree)
  <2> HIDE DEF c, B
  <2> QED BY <1>0, <1>1, CoreSelectIs, Zenon
<1>3. b = S.ok /\ b \in BOOLEAN /\ b
  <2>1. b <=> S.ok
    BY <1>0, <1>2, Zenon
  <2>2. S.ok \in BOOLEAN
    BY <1>0 DEF Stack
  <2> QED BY <1>0, <2>1, <2>2, Zenon
<1>4. B \subseteq State
  BY KnownAreStates, Zenon DEF Holds
<1>5. SelectState(S, used, late) = SelectBase(S, used)
  BY Zenon DEF SelectState
<1>6. SelectBase(S, used) =
        IF S.opt.batching /\ S.last # NULL /\ ~used THEN {<<S.last, S>>}
        ELSE IF ~turn.ok THEN {<<NULL, turn>>}
        ELSE {<<s, kept(s)>> : s \in CoreSelects(c, S.tree)}
  BY Zenon DEF SelectBase
<1>7. turn.ok
  <2> HIDE DEF b, i
  <2> QED BY <1>0, <1>3 DEF Stack
<1>8. CASE S.opt.batching /\ S.last # NULL /\ ~used
  <2>1. r = <<S.last, S>>
    BY <1>5, <1>6, <1>8, Zenon
  <2>2. r[1] = S.last /\ r[2] = S
    BY <2>1
  <2>3. Selected(S, S)
    BY <1>0, Zenon DEF Selected
  <2> QED BY <1>0, <1>8, <2>2, <2>3, Zenon
<1>9. CASE ~(S.opt.batching /\ S.last # NULL /\ ~used)
  <2>1. PICK s \in CoreSelects(c, S.tree) : r = <<s, kept(s)>>
    <3> HIDE DEF kept, turn
    <3> QED BY <1>5, <1>6, <1>7, <1>9, Zenon
  <2>2. r[1] = s /\ r[2] = kept(s)
    BY <2>1
  <2> DEFINE l == IF S.opt.batching THEN s ELSE NULL
             T == [[S EXCEPT !.index = i, !.ok = b] EXCEPT !.last = l]
  <2>3. s \in B /\ l \in State \cup {NULL} /\ l \in B \cup {NULL}
    BY <1>2, <1>4, Zenon
  <2>4. r[2] = T
    BY <2>2, Zenon
  <2> HIDE DEF l, i, b
  <2>5. Selected(S, T) /\ T.index = i /\ T.last = l
    <3>1. S \in Stack /\ i \in Nat /\ b \in BOOLEAN /\ b = S.ok /\ l \in State \cup {NULL}
      BY <1>0, <1>1, <1>3, <2>3, Zenon
    <3> QED BY <3>1, Zenon DEF Stack, Selected
  <2> HIDE DEF T
  <2>6. T.index \in DOMAIN T.cores /\ T.last \in (L \ S.deepPaused) \cup {NULL}
    BY <1>1, <2>3, <2>5, Zenon DEF Selected
  <2>7. Holds(T, L) /\ Idle(T)
    BY <2>5, <2>6, SelectedHolds, Zenon
  <2> QED BY <2>2, <2>3, <2>4, <2>5, <2>7, Zenon
<1> QED BY <1>8, <1>9, Zenon

\* A loop over nothing does nothing.
LEMMA NoSteps ==
  ASSUME NEW S, NEW s, S.openMergeStack[s] = << >>, NEW hasSearcher
  PROVE  DeleteState(S, s, hasSearcher) = [S EXCEPT !.openMergeStack[s] = << >>]
<1> DEFINE q == S.openMergeStack[s]
           one(T, h) == removeOpenState(T, h, s)
           two(T, h) == IF Referenced(T, h) THEN T ELSE DestroyHandler(T, h, hasSearcher)
           R(f, x) == f = [k \in 0 .. Len(q) |-> IF k = 0 THEN x ELSE one(f[k - 1], q[k])]
           Q(f, x) == f = [k \in 0 .. Len(q) |-> IF k = 0 THEN x ELSE two(f[k - 1], q[k])]
           left == (CHOOSE f : R(f, S))[Len(q)]
           cut == [left EXCEPT !.openMergeStack[s] = << >>]
<1>0. Len(q) = 0
  OBVIOUS
<1>1. ASSUME NEW x PROVE R([k \in 0 .. Len(q) |-> x], x) /\ Q([k \in 0 .. Len(q) |-> x], x)
  <2> HIDE DEF one, two, q
  <2> QED BY <1>0
<1>2. \A x : R(CHOOSE f : R(f, x), x) /\ Q(CHOOSE f : Q(f, x), x)
  <2> HIDE DEF R, Q
  <2> QED BY <1>1, Zenon
<1>3. \A f, x : (R(f, x) \/ Q(f, x)) => f[Len(q)] = x
  <2> HIDE DEF one, two, q
  <2> QED BY <1>0
<1>4. left = S /\ \A x : (CHOOSE f : Q(f, x))[Len(q)] = x
  <2> HIDE DEF R, Q
  <2> QED BY <1>2, <1>3, Zenon
<1>5. DeleteState(S, s, hasSearcher) = (CHOOSE f : Q(f, cut))[Len(q)]
  BY Zenon DEF DeleteState, DropReferences, ForEach
<1> HIDE DEF left, cut, Q
<1>6. DeleteState(S, s, hasSearcher) = cut
  BY <1>4, <1>5, Zenon
<1> QED BY <1>4, <1>6, Zenon DEF cut

\* T is S without one state: its node left the process tree, and nothing else changed.
Shrunk(S, T, s) ==
  /\ T \in Stack /\ T.cores = S.cores /\ T.ok = S.ok /\ T.last = S.last
  /\ T.deepPaused = S.deepPaused /\ Rest(T) = Rest(S)
  /\ IsTree(T.tree) /\ InTree(T.tree) = InTree(S.tree) \ {s}
  /\ \A j \in Nat : /\ Tagged(T.tree, j) = Tagged(S.tree, j) \ {s}
                    /\ TagExact(S.tree, j) /\ s \notin Tagged(S.tree, j) => TagExact(T.tree, j)

\* Without merge handlers, deleting a state is no more than that.
LEMMA RemoveStateIs ==
  ASSUME NEW S \in Stack, Idle(S), IsTree(S.tree), NEW s \in InTree(S.tree), NEW hasSearcher
  PROVE  Shrunk(S, RemoveState(S, s, hasSearcher), s)
<1> DEFINE u == RemoveNode(S.tree, NodeOf(S.tree, s), S.opt.compress)
           U == [S EXCEPT !.tree = u]
           T == RemoveState(S, s, hasSearcher)
<1>0. s \in State /\ S.opt.compress \in BOOLEAN
  <2>1. S.opt.compress \in BOOLEAN
    BY DEF Stack, CommandLine
  <2>2. s \in State
    BY NodeIs, Zenon
  <2> QED BY <2>1, <2>2
<1>1. /\ IsTree(u) /\ InTree(u) = InTree(S.tree) \ {s}
      /\ \A j \in Nat : /\ Tagged(u, j) = Tagged(S.tree, j) \ {s}
                        /\ TagExact(S.tree, j) /\ s \notin Tagged(S.tree, j) => TagExact(u, j)
  BY <1>0, RemoveKeeps
<1>2. T = DeleteState(U, s, hasSearcher)
  BY Zenon DEF RemoveState
<1> HIDE DEF u, T
<1>3. u \in Tree
  BY <1>1, TreeType
<1>4. /\ U \in Stack /\ U.tree = u /\ U.cores = S.cores /\ U.ok = S.ok /\ U.last = S.last
      /\ U.deepPaused = S.deepPaused /\ Rest(U) = Rest(S)
  BY <1>3, WithTree
<1> HIDE DEF U
<1>5. U.openMergeStack = S.openMergeStack
  BY <1>4, RestIs, Zenon
<1>6. U.openMergeStack[s] = << >>
  BY <1>0, <1>5, Zenon DEF Idle
<1>7. T = [U EXCEPT !.openMergeStack[s] = << >>]
  BY <1>2, <1>6, NoSteps
<1>8. T = U
  BY <1>0, <1>4, <1>6, <1>7 DEF Stack
<1> QED BY <1>1, <1>4, <1>8, Zenon DEF Shrunk, T

\* The searchers need not know a state to stand its removal.
LEMMA ShrunkHolds ==
  ASSUME NEW S, NEW L, NEW T, NEW s, Holds(S, L), s \notin L, Shrunk(S, T, s)
  PROVE  Holds(T, L)
<1> DEFINE B == L \ S.deepPaused
<1>1. Within(S, L) /\ (B = {} => L = {}) /\ (~S.opt.deepening => S.deepPaused = {})
  BY Zenon DEF Holds
<1>2. Kept(S, B) /\ S.deepPaused \subseteq L /\ L \subseteq InTree(S.tree)
  BY <1>1, Zenon DEF Within
<1>3. HeldBy(S, B) /\ S.last \in B \cup {NULL} /\ 1 \in DOMAIN S.cores /\ S.index \in DOMAIN S.cores
  BY <1>2, Zenon DEF Kept
<1>s. s \notin B
  BY Zenon
<1> HIDE DEF B
<1>4. /\ S \in Stack /\ S.ok /\ WellTagged(S.tree) /\ B \subseteq InTree(S.tree) /\ NoStray(S)
      /\ \A n \in DOMAIN S.cores : CoreHolds(S.cores[n], n, S.tree, B)
  BY <1>3, Zenon DEF HeldBy
<1>5. /\ T \in Stack /\ T.cores = S.cores /\ T.ok = S.ok /\ T.last = S.last
      /\ T.deepPaused = S.deepPaused /\ Rest(T) = Rest(S)
      /\ IsTree(T.tree) /\ InTree(T.tree) = InTree(S.tree) \ {s}
      /\ \A j \in Nat : /\ Tagged(T.tree, j) = Tagged(S.tree, j) \ {s}
                        /\ TagExact(S.tree, j) /\ s \notin Tagged(S.tree, j) => TagExact(T.tree, j)
  BY Zenon DEF Shrunk
<1>6. \A j \in Nat : s \notin Tagged(S.tree, j)
  <2>1. ASSUME NEW j \in Nat PROVE s \notin Tagged(S.tree, j)
    <3>1. CASE j \in DOMAIN S.cores /\ S.cores[j].kind = "RandomPath"
      <4>1. Tagged(S.tree, j) = B
        BY <1>4, <3>1, Zenon DEF CoreHolds
      <4> QED BY <1>s, <4>1, Zenon
    <3>2. CASE ~(j \in DOMAIN S.cores /\ S.cores[j].kind = "RandomPath")
      BY <1>4, <3>2, Zenon DEF NoStray
    <3> QED BY <3>1, <3>2, Zenon
  <2> QED BY <2>1, Zenon
<1>7. \A j \in Nat : Tagged(T.tree, j) = Tagged(S.tree, j)
  BY <1>5, <1>6, Zenon
<1>8. WellTagged(T.tree)
  BY <1>4, <1>5, <1>6, Zenon DEF WellTagged
<1>9. NoStray(T)
  BY <1>4, <1>5, <1>7, Zenon DEF NoStray
<1>10. \A n \in DOMAIN S.cores : n \in Nat
  BY <1>4 DEF Stack
<1>11. \A n \in DOMAIN T.cores : CoreHolds(T.cores[n], n, T.tree, B)
  BY <1>4, <1>5, <1>7, <1>10, Zenon DEF CoreHolds
<1>12. B \subseteq InTree(T.tree) /\ L \subseteq InTree(T.tree)
  BY <1>2, <1>4, <1>5, <1>s, Zenon
<1>13. HeldBy(T, B)
  BY <1>4, <1>5, <1>8, <1>9, <1>11, <1>12, Zenon DEF HeldBy
<1>14. T.index = S.index /\ T.opt = S.opt
  BY <1>5, RestIs, Zenon
<1>15. Kept(T, B)
  BY <1>3, <1>5, <1>13, <1>14, Zenon DEF Kept
<1>16. Within(T, L)
  BY <1>2, <1>5, <1>12, <1>15, Zenon DEF Within, B
<1> QED BY <1>1, <1>5, <1>14, <1>16, Zenon DEF Holds, B

\* One removed state after another is deleted.
Removes(f, S, q, hasSearcher) ==
  /\ f[0] = S /\ RemoveEach(S, q, hasSearcher) = f[Len(q)]
  /\ \A k \in 1 .. Len(q) : f[k] = RemoveState(f[k - 1], q[k], hasSearcher)

\* RemoveEach has a run.
LEMMA RemoveSteps ==
  ASSUME NEW S, NEW q, Len(q) \in Nat, NEW hasSearcher
  PROVE  \E f : Removes(f, S, q, hasSearcher)
<1> DEFINE op(x, s) == RemoveState(x, s, hasSearcher)
           Runs(f) == f = [k \in 0 .. Len(q) |-> IF k = 0 THEN S ELSE op(f[k - 1], q[k])]
           e == CHOOSE f : Runs(f)
<1>1. PICK g : LoopRun(g, "remove", hasSearcher, 0, 0, S, q, Len(q))
  BY LoopRuns, Zenon
<1>2. \A x, s : Body("remove", hasSearcher, 0, 0, x, s) = op(x, s)
  BY Zenon DEF Body
<1>3. Runs(g)
  BY <1>1, <1>2, Zenon DEF LoopRun
<1>4. Runs(e)
  <2> HIDE DEF Runs
  <2> QED BY <1>3, Zenon
<1>5. RemoveEach(S, q, hasSearcher) = e[Len(q)]
  BY Zenon DEF RemoveEach, ForEach
<1> HIDE DEF e, op
<1>6. e[0] = S /\ \A k \in 1 .. Len(q) : e[k] = op(e[k - 1], q[k])
  BY <1>4
<1> QED BY <1>5, <1>6, Zenon DEF op, Removes

\* T is S after some of its states were deleted.
Emptied(S, T, gone) ==
  /\ T \in Stack /\ T.cores = S.cores /\ T.ok = S.ok /\ T.last = S.last
  /\ T.deepPaused = S.deepPaused /\ Rest(T) = Rest(S)
  /\ IsTree(T.tree) /\ InTree(T.tree) = InTree(S.tree) \ gone
  /\ \A L : Holds(S, L) /\ gone \cap L = {} => Holds(T, L)

\* The executor's half of updateStates, without merge handlers.
LEMMA RemoveEachKeeps ==
  ASSUME NEW S \in Stack, Idle(S), IsTree(S.tree), NEW q \in Seq(State), IsInjective(q),
         Range(q) \subseteq InTree(S.tree), NEW hasSearcher
  PROVE  Emptied(S, RemoveEach(S, q, hasSearcher), Range(q)) /\ Idle(RemoveEach(S, q, hasSearcher))
<1>0. Len(q) \in Nat /\ DOMAIN q = 1 .. Len(q)
  OBVIOUS
<1>1. PICK f : Removes(f, S, q, hasSearcher)
  BY <1>0, RemoveSteps, Zenon
<1>2. /\ f[0] = S /\ RemoveEach(S, q, hasSearcher) = f[Len(q)]
      /\ \A k \in 1 .. Len(q) : f[k] = RemoveState(f[k - 1], q[k], hasSearcher)
  BY <1>1, Zenon DEF Removes
<1> DEFINE Gone(k) == {q[i] : i \in 1 .. k}
           P(k) == Emptied(S, f[k], Gone(k))
           Have == {k \in Nat : k <= Len(q) => P(k)}
<1>i. \A T : Rest(T) = Rest(S) => Idle(T)
  BY IdleSame, Zenon
<1>3. 0 \in Have
  <2>1. Gone(0) = {}
    OBVIOUS
  <2>2. P(0)
    <3> HIDE DEF Gone
    <3> QED BY <1>2, <2>1, Zenon DEF Emptied
  <2> HIDE DEF P
  <2> QED BY <2>2
<1>4. ASSUME NEW k \in Nat, k \in Have PROVE k + 1 \in Have
  <2>1. SUFFICES ASSUME k + 1 <= Len(q) PROVE P(k + 1)
    <3> HIDE DEF P
    <3> QED BY <2>1
  <2>2. P(k)
    <3> HIDE DEF P
    <3> QED BY <1>0, <1>4, <2>1
  <2> DEFINE U == f[k]
             T == f[k + 1]
             s == q[k + 1]
  <2>3. /\ k + 1 \in DOMAIN q /\ T = RemoveState(U, s, hasSearcher)
        /\ Gone(k + 1) = Gone(k) \cup {s}
    <3>1. k + 1 \in 1 .. Len(q) /\ k + 1 - 1 = k
      BY <1>0, <2>1
    <3>2. T = RemoveState(U, s, hasSearcher)
      BY <1>2, <3>1
    <3>3. Gone(k + 1) = Gone(k) \cup {s}
      <4>1. \A i : i \in 1 .. k + 1 <=> i \in 1 .. k \/ i = k + 1
        OBVIOUS
      <4> QED BY <4>1, Zenon
    <3> QED BY <1>0, <3>1, <3>2, <3>3, Zenon
  <2>4. s \in InTree(S.tree) /\ s \notin Gone(k) /\ Gone(k + 1) \subseteq Range(q)
    <3>1. s \in Range(q)
      BY <2>3, Zenon DEF Range
    <3>2. \A i \in 1 .. k : i \in DOMAIN q /\ i # k + 1
      BY <1>0, <2>1
    <3>3. s \notin Gone(k)
      BY <2>3, <3>2, Zenon DEF IsInjective
    <3>4. Gone(k) \subseteq Range(q)
      BY <3>2, Zenon DEF Range
    <3> QED BY <2>3, <3>1, <3>3, <3>4, Zenon
  <2> HIDE DEF U, T, s, Gone
  <2>5. /\ U \in Stack /\ U.cores = S.cores /\ U.ok = S.ok /\ U.last = S.last
        /\ U.deepPaused = S.deepPaused /\ Rest(U) = Rest(S)
        /\ IsTree(U.tree) /\ InTree(U.tree) = InTree(S.tree) \ Gone(k)
        /\ \A L : Holds(S, L) /\ Gone(k) \cap L = {} => Holds(U, L)
    BY <2>2, Zenon DEF Emptied, U
  <2>6. Idle(U) /\ s \in InTree(U.tree)
    BY <1>i, <2>4, <2>5, Zenon
  <2>7. Shrunk(U, T, s)
    BY <2>3, <2>5, <2>6, RemoveStateIs
  <2>8. \A L : Holds(S, L) /\ Gone(k + 1) \cap L = {} => Holds(T, L)
    <3>1. ASSUME NEW L, Holds(S, L), Gone(k + 1) \cap L = {} PROVE Holds(T, L)
      <4>1. Gone(k) \cap L = {} /\ s \notin L
        BY <2>3, <3>1
      <4>2. Holds(U, L)
        BY <2>5, <3>1, <4>1, ZenonT(40)
      <4> QED BY <2>7, <4>1, <4>2, ShrunkHolds, Zenon
    <3> QED BY <3>1, Zenon
  <2>9. InTree(T.tree) = InTree(S.tree) \ Gone(k + 1)
    <3>1. InTree(T.tree) = InTree(U.tree) \ {s}
      BY <2>7, Zenon DEF Shrunk
    <3> QED BY <2>3, <2>5, <3>1
  <2>10. Emptied(S, T, Gone(k + 1))
    BY <2>5, <2>7, <2>8, <2>9, Zenon DEF Shrunk, Emptied
  <2> QED BY <2>10, Zenon DEF T
<1>5. P(Len(q))
  <2>1. Len(q) \in Have
    <3> HIDE DEF Have
    <3> QED BY <1>0, <1>3, <1>4, SetInduction
  <2> HIDE DEF P
  <2> QED BY <1>0, <2>1
<1>6. Gone(Len(q)) = Range(q)
  BY <1>0, Zenon DEF Range
<1>7. Emptied(S, f[Len(q)], Range(q))
  BY <1>5, <1>6, Zenon
<1> HIDE DEF Gone, P, Have
<1>8. Idle(f[Len(q)])
  BY <1>7, <1>i, Zenon DEF Emptied
<1> QED BY <1>2, <1>7, <1>8, Zenon

\* The handlers of an idle stack have no states waiting.
LEMMA NobodyWaits ==
  ASSUME NEW S \in Stack, Idle(S), NEW h \in Handler
  PROVE  Waiting(S, h) = << >>
<1> DEFINE q == S.closed[h]
           op(x, w) == x \o w
           Runs(f) == f = [k \in 0 .. Len(q) |-> IF k = 0 THEN << >> ELSE op(f[k - 1], q[k])]
           e == CHOOSE f : Runs(f)
           Have == {k \in Nat : k <= Len(q) => e[k] = << >>}
<1>0. /\ q \in [1 .. MergePoints -> Seq(State)]
      /\ \A p \in 1 .. MergePoints : q[p] = << >>
  BY DEF Stack, Idle
<1>1. Len(q) = MergePoints /\ Len(q) \in Nat
  <2> HIDE DEF q
  <2>1. q \in Seq(Seq(State))
    BY <1>0, StatesAssumption
  <2> QED BY <1>0, <2>1, StatesAssumption
<1>2. PICK g : LoopRun(g, "join", 0, 0, 0, << >>, q, Len(q))
  BY <1>1, LoopRuns
<1>3. \A x, w : Body("join", 0, 0, 0, x, w) = op(x, w)
  BY DEF Body
<1>4. Runs(g)
  BY <1>2, <1>3, Zenon DEF LoopRun
<1>5. Runs(e)
  <2> HIDE DEF Runs
  <2> QED BY <1>4, Zenon
<1>6. Waiting(S, h) = e[Len(q)]
  BY Zenon DEF Waiting, ForEach
<1> HIDE DEF e, op, q
<1>7. e[0] = << >> /\ \A k \in 1 .. Len(q) : e[k] = op(e[k - 1], q[k])
  BY <1>1, <1>5
<1>8. \A k \in Nat : k + 1 <= Len(q) => k + 1 \in 1 .. Len(q) /\ e[k + 1] = op(e[k], q[k + 1])
  BY <1>1, <1>7
<1>9. op(<< >>, << >>) = << >>
  BY DEF op
<1>10. 0 \in Have
  BY <1>7
<1>11. ASSUME NEW k \in Nat, k \in Have PROVE k + 1 \in Have
  <2>1. SUFFICES ASSUME k + 1 <= Len(q) PROVE e[k + 1] = << >>
    OBVIOUS
  <2>2. e[k] = << >> /\ q[k + 1] = << >>
    BY <1>0, <1>1, <1>11, <2>1
  <2> QED BY <1>8, <1>9, <2>1, <2>2, Zenon
<1>12. Len(q) \in Have
  <2> HIDE DEF Have
  <2> QED BY <1>1, <1>10, <1>11, SetInduction
<1> QED BY <1>1, <1>6, <1>12, SMTT(30)

\* Without merge handlers, a copy of a state enters none.
LEMMA CopyIs ==
  ASSUME NEW S \in Stack, Idle(S), NEW s \in State, NEW new \in State
  PROVE  CopyMerges(S, s, new) = S
<1>0. S.openMergeStack[s] = << >> /\ S.openMergeStack[new] = << >>
  BY Zenon DEF Idle
<1> DEFINE q == [S.openMergeStack EXCEPT ![new] = << >>]
           o == [h \in Handler |-> IF h \in Range(<< >>) THEN Append(S.open[h], new) ELSE S.open[h]]
<1>1. CopyMerges(S, s, new) = [S EXCEPT !.openMergeStack = q, !.open = o]
  BY <1>0, Zenon DEF CopyMerges
<1>2. S.openMergeStack \in [State -> Seq(Handler)] /\ S.open \in [Handler -> Seq(State)]
  BY DEF Stack
<1>3. q = S.openMergeStack
  BY <1>0, <1>2, SMTT(30)
<1>4. o = S.open
  <2>1. o = [h \in Handler |-> S.open[h]]
    BY NothingAdded, Zenon
  <2> HIDE DEF o
  <2> QED BY <1>2, <2>1
<1> HIDE DEF q, o
<1> QED BY <1>1, <1>3, <1>4, Zenon DEF Stack

\* T is S with one state more, of which the searchers do not know yet.
Grown(S, T, L, new) ==
  /\ Holds(T, L) /\ Idle(T) /\ T.opt = S.opt /\ T.deepPaused = S.deepPaused
  /\ InTree(T.tree) = InTree(S.tree) \cup {new}

\* A fork in the process tree.
LEMMA ForkKeeps ==
  ASSUME NEW S, NEW L, NEW s, NEW new, Holds(S, L), Idle(S), s \in InTree(S.tree), new \in State,
         new \notin InTree(S.tree)
  PROVE  Grown(S, AddState(S, s, new), L, new)
<1> DEFINE u == Attach(S.tree, NodeOf(S.tree, s), new, s, NULL)
           T == [S EXCEPT !.tree = u]
           B == L \ S.deepPaused
<1>1. Within(S, L) /\ (B = {} => L = {}) /\ (~S.opt.deepening => S.deepPaused = {})
  BY Zenon DEF Holds
<1>2. Kept(S, B) /\ S.deepPaused \subseteq L /\ L \subseteq InTree(S.tree)
  BY <1>1, Zenon DEF Within
<1>3. HeldBy(S, B) /\ S.last \in B \cup {NULL} /\ 1 \in DOMAIN S.cores /\ S.index \in DOMAIN S.cores
  BY <1>2, Zenon DEF Kept
<1> HIDE DEF B
<1>4. /\ S \in Stack /\ S.ok /\ WellTagged(S.tree) /\ B \subseteq InTree(S.tree) /\ NoStray(S)
      /\ \A n \in DOMAIN S.cores : CoreHolds(S.cores[n], n, S.tree, B)
  BY <1>3, Zenon DEF HeldBy
<1>5. /\ IsTree(u) /\ InTree(u) = InTree(S.tree) \cup {new}
      /\ \A j \in Nat : TagExact(u, j) /\ Tagged(u, j) = Tagged(S.tree, j)
  <2>1. IsTree(S.tree) /\ \A j \in Nat : TagExact(S.tree, j)
    BY <1>4, Zenon DEF WellTagged
  <2>2. new # NULL
    BY StatesAssumption, Zenon
  <2> QED BY <2>1, <2>2, AttachKeeps
<1> HIDE DEF u
<1>6. u \in Tree
  BY <1>5, TreeType
<1>7. /\ T \in Stack /\ T.tree = u /\ T.cores = S.cores /\ T.ok = S.ok /\ T.last = S.last
      /\ T.deepPaused = S.deepPaused /\ Rest(T) = Rest(S)
  BY <1>4, <1>6, WithTree, Zenon
<1> HIDE DEF T
<1>8. T.opt = S.opt /\ T.index = S.index
  BY <1>7, RestIs, Zenon
<1>9. Idle(T)
  BY <1>7, IdleSame, Zenon
<1>10. CopyMerges(T, s, new) = T
  <2>1. s \in State
    BY <1>4, NodeIs, Zenon DEF WellTagged
  <2> QED BY <1>7, <1>9, <2>1, CopyIs
<1>11. WellTagged(T.tree) /\ NoStray(T)
  BY <1>4, <1>5, <1>7, Zenon DEF WellTagged, NoStray
<1>12. \A n \in DOMAIN S.cores : n \in Nat
  BY <1>4 DEF Stack
<1>13. \A n \in DOMAIN T.cores : CoreHolds(T.cores[n], n, T.tree, B)
  BY <1>4, <1>5, <1>7, <1>12, Zenon DEF CoreHolds
<1>14. B \subseteq InTree(T.tree) /\ L \subseteq InTree(T.tree)
  BY <1>2, <1>4, <1>5, <1>7, Zenon
<1>15. HeldBy(T, B)
  BY <1>4, <1>7, <1>11, <1>13, <1>14, Zenon DEF HeldBy
<1>16. Kept(T, B)
  BY <1>3, <1>7, <1>8, <1>15, Zenon DEF Kept
<1>17. Within(T, L)
  BY <1>2, <1>7, <1>14, <1>16, Zenon DEF Within, B
<1>18. Holds(T, L)
  BY <1>1, <1>7, <1>8, <1>17, Zenon DEF Holds, B
<1>19. AddState(S, s, new) = CopyMerges(T, s, new)
  BY Zenon DEF AddState, T, u
<1> QED BY <1>5, <1>7, <1>8, <1>9, <1>10, <1>18, <1>19, Zenon DEF Grown

\* A process tree without states has no nodes.
LEMMA NoStatesNoNodes ==
  ASSUME NEW t, IsTree(t), InTree(t) = {}
  PROVE  DOMAIN t = {} /\ WellTagged(t)
<1>1. \A m \in DOMAIN t : \E k \in DOMAIN t : m \in Ancestors(k) /\ t[k].state # NULL
  BY TreeParts, Zenon
<1>2. \A k \in DOMAIN t : t[k].state = NULL
  BY Zenon DEF InTree
<1>3. DOMAIN t = {}
  BY <1>1, <1>2, Zenon
<1> QED BY <1>3, Zenon DEF WellTagged, TagExact

\* The new stack holds nothing.
LEMMA NewStackIs ==
  ASSUME NEW o \in CommandLine, NEW s \in State
  PROVE  LET S == NewStack(o, NewTree(s))
         IN Holds(S, {}) /\ Idle(S) /\ S.opt = o /\ InTree(S.tree) = {s}
<1> DEFINE t == NewTree(s)
           q == [n \in DOMAIN o.cores |-> NewCore(o.cores, n)]
           op == [h \in Handler |-> << >>]
           cl == [h \in Handler |-> [p \in 1 .. MergePoints |-> << >>]]
           st == [x \in State |-> << >>]
           S == NewStack(o, t)
<1>1. IsTree(t) /\ InTree(t) = {s} /\ \A j \in Nat : Tagged(t, j) = {} /\ TagExact(t, j)
  <2>1. s # NULL
    BY StatesAssumption, Zenon
  <2> QED BY <2>1, NewTreeIs
<1>2. t \in Tree
  BY <1>1, TreeType
<1>3. o.cores \in Seq(Kinds) /\ o.cores # << >>
  BY DEF CommandLine
<1>4. /\ q \in Seq(Core) /\ DOMAIN q = 1 .. Len(o.cores) /\ Len(o.cores) \in Nat /\ 1 \in DOMAIN q
      /\ \A n \in DOMAIN q : q[n] \in Core /\ q[n].id = n /\ q[n].states = << >> /\ n \in Nat
  <2>1. \A n \in DOMAIN o.cores : NewCore(o.cores, n) \in Core
    BY <1>3 DEF NewCore, Core
  <2>2. DOMAIN o.cores = 1 .. Len(o.cores) /\ Len(o.cores) \in Nat /\ Len(o.cores) # 0
    BY <1>3
  <2>3. q \in Seq(Core)
    BY <2>1, <2>2
  <2>4. \A n \in DOMAIN q : q[n] = NewCore(o.cores, n)
    BY Zenon
  <2>5. \A n \in DOMAIN q : q[n].id = n /\ q[n].states = << >>
    BY <2>4 DEF NewCore
  <2>6. DOMAIN q = 1 .. Len(o.cores) /\ 1 \in DOMAIN q /\ \A n \in DOMAIN q : n \in Nat
    BY <2>2
  <2>7. \A n \in DOMAIN q : q[n] \in Core
    BY <2>1, <2>4, Zenon
  <2> HIDE DEF q
  <2> QED BY <2>2, <2>3, <2>5, <2>6, <2>7, Zenon
<1>5. S = [opt |-> o, cores |-> q, index |-> 1, last |-> NULL, deepPaused |-> {}, mergePaused |-> {},
           tree |-> t, ok |-> TRUE, groups |-> << >>, open |-> op, closed |-> cl,
           openMergeStack |-> st, inCloseMerge |-> {}]
  BY Zenon DEF NewStack
<1>6. /\ op \in [Handler -> Seq(State)] /\ cl \in [Handler -> [1 .. MergePoints -> Seq(State)]]
      /\ st \in [State -> Seq(Handler)]
  OBVIOUS
<1>7. /\ \A h \in Handler : op[h] = << >> /\ \A p \in 1 .. MergePoints : cl[h][p] = << >>
      /\ \A x \in State : st[x] = << >>
  BY Zenon
<1> HIDE DEF t, q, op, cl, st, S
<1>8. S \in Stack
  BY <1>2, <1>4, <1>5, <1>6, SMTT(30) DEF Stack
<1>9. /\ S.opt = o /\ S.cores = q /\ S.index = 1 /\ S.last = NULL /\ S.deepPaused = {} /\ S.mergePaused = {}
      /\ S.tree = t /\ S.ok = TRUE /\ S.groups = << >> /\ S.open = op /\ S.closed = cl
      /\ S.openMergeStack = st /\ S.inCloseMerge = {}
  BY <1>5
<1>10. Idle(S)
  <2>1. S.mergePaused = {} /\ S.groups = << >> /\ S.inCloseMerge = {}
    BY <1>9, Zenon
  <2>2. \A h \in Handler : S.open[h] = << >> /\ \A p \in 1 .. MergePoints : S.closed[h][p] = << >>
    BY <1>7, <1>9, Zenon
  <2>3. \A x \in State : S.openMergeStack[x] = << >>
    BY <1>7, <1>9, Zenon
  <2> QED BY <2>1, <2>2, <2>3, Zenon DEF Idle
<1>11. \A n \in DOMAIN S.cores : CoreHolds(S.cores[n], n, S.tree, {})
  BY <1>1, <1>4, <1>9, NothingAdded, Zenon DEF CoreHolds
<1>12. WellTagged(S.tree) /\ NoStray(S)
  BY <1>1, <1>9, Zenon DEF WellTagged, NoStray
<1>13. HeldBy(S, {})
  BY <1>8, <1>9, <1>11, <1>12, Zenon DEF HeldBy
<1>14. {} \ S.deepPaused = {}
  OBVIOUS
<1>15. Kept(S, {} \ S.deepPaused)
  BY <1>4, <1>9, <1>13, <1>14, Zenon DEF Kept
<1>16. Holds(S, {})
  BY <1>9, <1>15, Zenon DEF Holds, Within
<1> QED BY <1>1, <1>9, <1>10, <1>16, Zenon DEF S, t
=============================================================================
