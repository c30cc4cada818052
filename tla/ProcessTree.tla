---------------------------- MODULE ProcessTree ----------------------------
(***************************************************************************)
(* The process tree (PTree) and the tags RandomPathSearcher keeps in it.   *)
(* A node is the path that leads to it from the root.  The tag of a node   *)
(* is the integer half of the pointer to it: the set of random path        *)
(* searchers that own the node.                                            *)
(***************************************************************************)
EXTENDS Naturals, Sequences

root == << >>
\* A node and the nodes above it.
Ancestors(n) == {SubSeq(n, 1, k) : k \in 0 .. Len(n)}
Left(n) == Append(n, "left")
Right(n) == Append(n, "right")

\* PTree(initialState)
NewTree(s) == [n \in {root} |-> [state |-> s, tag |-> {}]]

\* es->ptreeNode
NodeOf(t, s) == CHOOSE n \in DOMAIN t : t[n].state = s
Children(t, n) == {Left(n), Right(n)} \cap DOMAIN t
Subtree(t, n) == {m \in DOMAIN t : n \in Ancestors(m)}

\* The node of the running state becomes inner: the new state is on its left and owned
\* by nobody, the running one on its right and owned as before.
Attach(t, n, leftState, rightState, NULL) ==
  [m \in DOMAIN t \cup {Left(n), Right(n)} |->
     IF m = Left(n) THEN [state |-> leftState, tag |-> {}]
     ELSE IF m = Right(n) THEN [state |-> rightState, tag |-> t[n].tag]
     ELSE IF m = n THEN [t[n] EXCEPT !.state = NULL]
     ELSE t[m]]

\* Mutant: only the leaf is deleted.
OrphanedLeafOnly(t, n) == {n}

\* PTree::remove deletes a leaf and the ancestors left without children.
Orphaned(t, n) == {p \in Ancestors(n) : \A m \in Subtree(t, p) : m \in Ancestors(n)}
Prune(t, n) == [m \in DOMAIN t \ Orphaned(t, n) |-> t[m]]

\* With --compress-process-tree the only child of the deepest ancestor that is left takes
\* its place, and its pointer's tag with it.
Under(n, child, m) == n \o SubSeq(m, Len(child) + 1, Len(m))
Splice(t, n, child) ==
  LET moved == Subtree(t, child)
      kept  == DOMAIN t \ Subtree(t, n)
  IN [m \in kept \cup {Under(n, child, c) : c \in moved} |->
        IF m \in kept THEN t[m] ELSE t[CHOOSE c \in moved : Under(n, child, c) = m]]

RemoveNode(t, n, compress) ==
  LET pruned == Prune(t, n)
      above  == Ancestors(n) \cap DOMAIN pruned
      parent == CHOOSE p \in above : \A q \in above : Len(q) <= Len(p)
  IN IF compress /\ above # {}
       THEN Splice(pruned, parent, CHOOSE c \in Children(pruned, parent) : TRUE)
       ELSE pruned
-----------------------------------------------------------------------------
Ours(t, n, id) == n \in DOMAIN t /\ id \in t[n].tag

\* RandomPathSearcher::update, an added state: its node and its ancestors are marked, up
\* to the first that is ours already.
MarkedBy(t, n, id) ==
  {p \in Ancestors(n) : \A q \in Ancestors(n) : p \in Ancestors(q) => ~Ours(t, q, id)}
Mark(t, n, id) ==
  [m \in DOMAIN t |-> IF m \in MarkedBy(t, n, id)
                        THEN [t[m] EXCEPT !.tag = @ \cup {id}] ELSE t[m]]

\* Mutant: the ancestors keep the mark of a state that left.
UnmarkedLeafOnly(t, n, id) == {n}

\* A removed state: its node is unmarked, and its ancestors up to the first with another
\* child of ours.
UnmarkedBy(t, n, id) ==
  {p \in Ancestors(n) : \A q \in Ancestors(n) : p \in Ancestors(q) =>
     \A c \in Children(t, q) : c \in Ancestors(n) \/ ~Ours(t, c, id)}
Unmark(t, n, id) ==
  [m \in DOMAIN t |-> IF m \in UnmarkedBy(t, n, id)
                        THEN [t[m] EXCEPT !.tag = @ \ {id}] ELSE t[m]]

\* selectState descends through nodes of ours, by a coin toss where both children are.
\* It can end in any state whose ancestors are all ours, and goes astray in an inner node
\* of ours without a child of ours.
Walkable(t, id) == {n \in DOMAIN t : \A p \in Ancestors(n) : Ours(t, p, id)}
WalkEnds(t, id, NULL) == {t[n].state : n \in {m \in Walkable(t, id) : t[m].state # NULL}}
WalkLost(t, id, NULL) ==
  \/ ~Ours(t, root, id)
  \/ \E n \in Walkable(t, id) :
       t[n].state = NULL /\ \A c \in Children(t, n) : ~Ours(t, c, id)
=============================================================================
