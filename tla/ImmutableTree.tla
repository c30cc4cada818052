--------------------------- MODULE ImmutableTree ---------------------------
(***************************************************************************)
(* The persistent balanced tree behind an address space's map of objects   *)
(* (include/klee/ADT/ImmutableTree.h).  Nodes are on a heap and counted by *)
(* references; trees share them.  A function that changes the heap returns *)
(* the new heap h, the node n it built and, popping, the value v.          *)
(***************************************************************************)
EXTENDS Integers, Sequences, FiniteSets, SequencesExt, FiniteSetsExt

CONSTANTS
  Key, Value,
  Trees,       \* the variables of the program that hold a tree
  Starts,      \* sequences of keys: the insertions that built the tree they share at first
  MaxNodes,    \* the size of the heap
  MaxOps

VARIABLES
  heap,        \* the allocated nodes, and the terminator
  node,        \* the root of each tree
  contents,    \* what each tree has to map its keys to
  treeOps

treeVars == <<heap, node, contents, treeOps>>

terminator == 0
Nil == 0
Result(h, n, v) == [h |-> h, n |-> n, v |-> v]

\* The terminator counts its own two children and the static object itself.
EmptyHeap == [n \in {terminator} |->
                [left |-> terminator, right |-> terminator, value |-> Nil, height |-> 0, references |-> 3]]

incref(h, n) == [h EXCEPT ![n].references = @ + 1]

RECURSIVE decref(_, _)
decref(h, n) ==
  IF h[n].references > 1 THEN [h EXCEPT ![n].references = @ - 1]
  ELSE LET l == h[n].left
           r == h[n].right
       IN decref(decref([k \in DOMAIN h \ {n} |-> h[k]], l), r)

\* new Node: takes over the references to its children.
NewNode(h, left, right, value) ==
  LET n == Min((1 .. MaxNodes) \ DOMAIN h)
      node0 == [left |-> left, right |-> right, value |-> value,
                height |-> Max({h[left].height, h[right].height}) + 1, references |-> 1]
  IN Result([k \in DOMAIN h \cup {n} |-> IF k = n THEN node0 ELSE h[k]], n, value)

\* A slip: the rotated node keeps its reference.
balanceLeaking(h, left, value, right) ==
  IF h[left].height > h[right].height + 2
  THEN LET a == NewNode(incref(h, h[left].right), h[left].right, right, value)
       IN NewNode(incref(a.h, h[left].left), h[left].left, a.n, h[left].value)
  ELSE NewNode(h, left, right, value)

\* balance: a node of the two subtrees, after a rotation if one is higher by more than two.
balance(h, left, value, right) ==
  LET H(n) == h[n].height
      ll == h[left].left    lr == h[left].right
      rl == h[right].left   rr == h[right].right
  IN CASE H(left) > H(right) + 2 /\ H(ll) >= H(lr) ->
            LET a == NewNode(incref(h, lr), lr, right, value)
                b == NewNode(incref(a.h, ll), ll, a.n, h[left].value)
            IN Result(decref(b.h, left), b.n, Nil)
       [] H(left) > H(right) + 2 /\ H(ll) < H(lr) ->
            LET a == NewNode(incref(incref(h, ll), h[lr].left), ll, h[lr].left, h[left].value)
                b == NewNode(incref(a.h, h[lr].right), h[lr].right, right, value)
                c == NewNode(b.h, a.n, b.n, h[lr].value)
            IN Result(decref(c.h, left), c.n, Nil)
       [] H(right) > H(left) + 2 /\ H(rr) >= H(rl) ->
            LET a == NewNode(incref(h, rl), left, rl, value)
                b == NewNode(incref(a.h, rr), a.n, rr, h[right].value)
            IN Result(decref(b.h, right), b.n, Nil)
       [] H(right) > H(left) + 2 /\ H(rr) < H(rl) ->
            LET a == NewNode(incref(h, h[rl].left), left, h[rl].left, value)
                b == NewNode(incref(incref(a.h, h[rl].right), rr), h[rl].right, rr, h[right].value)
                c == NewNode(b.h, a.n, b.n, h[rl].value)
            IN Result(decref(c.h, right), c.n, Nil)
       [] OTHER -> NewNode(h, left, right, value)

\* A node like n with another left, or another right, subtree.
WithLeft(h, n, sub) == balance(incref(sub.h, h[n].right), sub.n, h[n].value, h[n].right)
WithRight(h, n, sub) == balance(incref(sub.h, h[n].left), h[n].left, h[n].value, sub.n)

RECURSIVE popMinOf(_, _)
popMinOf(h, n) ==
  IF h[n].left = terminator THEN Result(incref(h, h[n].right), h[n].right, h[n].value)
  ELSE LET sub == popMinOf(h, h[n].left) IN [WithLeft(h, n, sub) EXCEPT !.v = sub.v]

RECURSIVE popMaxOf(_, _)
popMaxOf(h, n) ==
  IF h[n].right = terminator THEN Result(incref(h, h[n].left), h[n].left, h[n].value)
  ELSE LET sub == popMaxOf(h, h[n].right) IN [WithRight(h, n, sub) EXCEPT !.v = sub.v]

\* insert keeps the value of a key that is present, replace does not.
RECURSIVE insertOf(_, _, _, _)
insertOf(h, n, v, replacing) ==
  CASE n = terminator -> NewNode(incref(incref(h, terminator), terminator), terminator, terminator, v)
    [] n # terminator /\ v[1] < h[n].value[1] -> WithLeft(h, n, insertOf(h, h[n].left, v, replacing))
    [] n # terminator /\ v[1] > h[n].value[1] -> WithRight(h, n, insertOf(h, h[n].right, v, replacing))
    [] n # terminator /\ v[1] = h[n].value[1] ->
         IF replacing THEN NewNode(incref(incref(h, h[n].left), h[n].right), h[n].left, h[n].right, v)
         ELSE Result(incref(h, n), n, Nil)

RECURSIVE removeOf(_, _, _)
removeOf(h, n, k) ==
  LET l == h[n].left
      r == h[n].right
  IN CASE n = terminator -> Result(incref(h, n), n, Nil)
       [] n # terminator /\ k < h[n].value[1] -> WithLeft(h, n, removeOf(h, l, k))
       [] n # terminator /\ k > h[n].value[1] -> WithRight(h, n, removeOf(h, r, k))
       [] n # terminator /\ k = h[n].value[1] ->
            IF l = terminator THEN Result(incref(h, r), r, Nil)
            ELSE IF r = terminator THEN Result(incref(h, l), l, Nil)
            ELSE LET sub == popMinOf(h, r) IN balance(incref(sub.h, l), l, sub.v, sub.n)
-----------------------------------------------------------------------------
RECURSIVE Descend(_, _, _)
Descend(n, k, result) ==
  CASE n = terminator -> result
    [] n # terminator /\ k < heap[n].value[1] -> Descend(heap[n].left, k, result)
    [] n # terminator /\ k > heap[n].value[1] -> Descend(heap[n].right, k, heap[n].value)
    [] n # terminator /\ k = heap[n].value[1] -> heap[n].value

\* lookup_previous: the value of the last key up to k, or none.
lookup_previous(t, k) == Descend(node[t], k, Nil)

\* The stack of an iterator is the nodes from the root to the one it is at; end has none.
RECURSIVE Leftmost(_, _)
Leftmost(n, stack) == IF n = terminator THEN stack ELSE Leftmost(heap[n].left, Append(stack, n))

RECURSIVE Rightmost(_, _)
Rightmost(n, stack) == IF n = terminator THEN stack ELSE Rightmost(heap[n].right, Append(stack, n))

begin(t) == Leftmost(node[t], << >>)

\* Up from a node until one has been left on its left (operator++) or right (operator--) side.
RECURSIVE UpFrom(_, _)
UpFrom(stack, back) ==
  LET n == Last(stack)
      left == Front(stack)
      child == IF back THEN heap[Last(left)].right ELSE heap[Last(left)].left
  IN IF left = << >> \/ child = n THEN left ELSE UpFrom(left, back)

Next1(stack) ==
  LET n == Last(stack)
  IN IF heap[n].right = terminator THEN UpFrom(stack, FALSE)
     ELSE Leftmost(heap[heap[n].right].left, Append(stack, heap[n].right))

Previous(t, stack) ==
  LET n == Last(stack)
  IN IF stack = << >> THEN Rightmost(node[t], << >>)
     ELSE IF heap[n].left = terminator THEN UpFrom(stack, TRUE)
     ELSE Rightmost(heap[heap[n].left].right, Append(stack, heap[n].left))

RECURSIVE Bound(_, _, _)
Bound(n, k, stack) ==
  CASE n = terminator -> stack
    [] n # terminator /\ k < heap[n].value[1] -> Bound(heap[n].left, k, Append(stack, n))
    [] n # terminator /\ k > heap[n].value[1] -> Bound(heap[n].right, k, Append(stack, n))
    [] n # terminator /\ k = heap[n].value[1] -> Append(stack, n)

lower_bound(t, k) ==
  LET stack == Bound(node[t], k, << >>)
  IN IF stack # << >> /\ heap[Last(stack)].value[1] < k THEN Next1(stack) ELSE stack

find(t, k) ==
  LET it == lower_bound(t, k)
  IN IF it = << >> \/ k < heap[Last(it)].value[1] THEN << >> ELSE it

upper_bound(t, k) ==
  LET it == lower_bound(t, k)
  IN IF it # << >> /\ ~(k < heap[Last(it)].value[1]) THEN Next1(it) ELSE it
-----------------------------------------------------------------------------
\* operator=: the result's reference replaces that of the tree assigned to.
Assign(t, r) ==
  /\ heap' = decref(r.h, node[t])
  /\ node' = [node EXCEPT ![t] = r.n]
  /\ treeOps' = treeOps + 1

\* t = u.insert(v), and so on.
Copy(t, u) ==
  /\ Assign(t, Result(incref(heap, node[u]), node[u], Nil))
  /\ contents' = [contents EXCEPT ![t] = contents[u]]

Without(map, k) == [j \in DOMAIN map \ {k} |-> map[j]]
With(map, v) == [j \in DOMAIN map \cup {v[1]} |-> IF j = v[1] THEN v[2] ELSE map[j]]

insert(t, u, v) ==
  /\ Assign(t, insertOf(heap, node[u], v, FALSE))
  /\ contents' = [contents EXCEPT ![t] = IF v[1] \in DOMAIN contents[u] THEN contents[u] ELSE With(contents[u], v)]

replace(t, u, v) ==
  /\ Assign(t, insertOf(heap, node[u], v, TRUE))
  /\ contents' = [contents EXCEPT ![t] = With(contents[u], v)]

remove(t, u, k) ==
  /\ Assign(t, removeOf(heap, node[u], k))
  /\ contents' = [contents EXCEPT ![t] = Without(contents[u], k)]

popMin(t, u) ==
  /\ node[u] # terminator
  /\ Assign(t, popMinOf(heap, node[u]))
  /\ contents' = [contents EXCEPT ![t] = Without(contents[u], Min(DOMAIN contents[u]))]

popMax(t, u) ==
  /\ node[u] # terminator
  /\ Assign(t, popMaxOf(heap, node[u]))
  /\ contents' = [contents EXCEPT ![t] = Without(contents[u], Max(DOMAIN contents[u]))]

\* A tree that insertions have built, one after the other, in the place of the empty one.
Built(keys) ==
  LET Owned(new, old) == Result(decref(new.h, old), new.n, Nil)
      Insert(r, k) == Owned(insertOf(r.h, r.n, <<k, CHOOSE x \in Value : TRUE>>, FALSE), r.n)
  IN FoldLeft(Insert, Result(incref(EmptyHeap, terminator), terminator, Nil), keys)

\* States that have forked since share the tree.
TreeInit ==
  \E keys \in Starts : \E r \in {Built(keys)} :
    /\ heap = [r.h EXCEPT ![r.n].references = @ + Cardinality(Trees) - 1]
    /\ node = [t \in Trees |-> r.n]
    /\ contents = [t \in Trees |-> [k \in Range(keys) |-> CHOOSE x \in Value : TRUE]]
    /\ treeOps = 0

TreeNext ==
  /\ treeOps < MaxOps
  /\ \E t, u \in Trees :
       \/ t # u /\ Copy(t, u)
       \/ \E k \in Key, x \in Value : insert(t, u, <<k, x>>) \/ replace(t, u, <<k, x>>)
       \/ \E k \in Key : remove(t, u, k)
       \/ popMin(t, u) \/ popMax(t, u)

TreeSpec == TreeInit /\ [][TreeNext]_treeVars
-----------------------------------------------------------------------------
RECURSIVE InOrder(_)
InOrder(n) == IF n = terminator THEN << >>
              ELSE InOrder(heap[n].left) \o <<heap[n].value>> \o InOrder(heap[n].right)

Ordered(map) == LET ks == SetToSortSeq(DOMAIN map, LAMBDA j, k : j < k)
                IN [i \in DOMAIN ks |-> <<ks[i], map[ks[i]]>>]

\* Whatever trees share nodes, each holds its own keys and values in order, and no subtree is
\* higher than its sibling by more than two.
TreesKeepContents ==
  /\ \A t \in Trees : InOrder(node[t]) = Ordered(contents[t])
  /\ \A n \in DOMAIN heap \ {terminator} :
       LET l == heap[heap[n].left].height
           r == heap[heap[n].right].height
       IN heap[n].height = Max({l, r}) + 1 /\ l <= r + 2 /\ r <= l + 2

\* The references of a node are the trees and nodes that refer to it, so that a node is freed
\* exactly when the last tree that shares it is gone.
ReferencesExact ==
  \A n \in DOMAIN heap :
    heap[n].references =
      (IF n = terminator THEN 1 ELSE 0)
      + Cardinality({t \in Trees : node[t] = n})
      + Cardinality({p \in DOMAIN heap : heap[p].left = n})
      + Cardinality({p \in DOMAIN heap : heap[p].right = n})

\* An iterator is at the entry lower_bound, upper_bound or find promises, goes on to the next
\* and back to the previous entry, and lookup_previous finds the entry below.
IteratorsExact ==
  \A t \in Trees :
    LET es == InOrder(node[t])
        Entry(it) == IF it = << >> THEN Len(es) + 1
                     ELSE CHOOSE i \in DOMAIN es : es[i] = heap[Last(it)].value
        First(P(_)) == Min({i \in DOMAIN es : P(es[i][1])} \cup {Len(es) + 1})
    IN /\ Entry(begin(t)) = 1
       /\ \A k \in Key :
            LET GE(j) == j >= k
                GT(j) == j > k
                lb == lower_bound(t, k)
                ub == upper_bound(t, k)
                prev == lookup_previous(t, k)
            IN /\ Entry(lb) = First(GE)
               /\ Entry(ub) = First(GT)
               /\ Entry(find(t, k)) = IF k \in DOMAIN contents[t] THEN First(GE) ELSE Len(es) + 1
               /\ prev = IF First(GT) = 1 THEN Nil ELSE es[First(GT) - 1]
               /\ lb # << >> => Entry(Next1(lb)) = Entry(lb) + 1
               /\ Entry(ub) > 1 => Entry(Previous(t, ub)) = Entry(ub) - 1
=============================================================================
