----------------------------- MODULE DiscretePDF -----------------------------
(***************************************************************************)
(* The weighted tree the weighted random searcher chooses states from      *)
(* (include/klee/ADT/DiscretePDF.inc): a red-black search tree by item     *)
(* whose nodes carry the sum of the weights below them.  The nodes are a   *)
(* heap h of records with a root; a function on it returns the new heap.   *)
(* Nil has a record too, which a write through a null pointer changes.    *)
(***************************************************************************)
EXTENDS Integers, Sequences, FiniteSets, SequencesExt, FiniteSetsExt

CONSTANTS
  Weights       \* the weights each item may have; items are numbers, which order the tree

VARIABLES
  pdf,          \* the tree
  weights       \* the weight of each item that is in it

Item == DOMAIN Weights
pdfVars == <<pdf, weights>>

Nil == 0
Blank(key, weight, parent) ==
  [key |-> key, weight |-> weight, sumWeights |-> 0, red |-> FALSE,
   left |-> Nil, right |-> Nil, parent |-> parent]

EmptyPDF == [root |-> Nil, n |-> [i \in {Nil} |-> Blank(Nil, 0, Nil)]]

Red(h, i) == i # Nil /\ h.n[i].red
Mark(h, i, red) == [h EXCEPT !.n[i].red = red]
MarkChild(h, i) == IF i = Nil THEN h ELSE Mark(h, i, FALSE)
sibling(h, i) == LET p == h.n[h.n[i].parent] IN IF i = p.left THEN p.right ELSE p.left

\* The sum of Nil stays 0.
setSum(h, i) ==
  [h EXCEPT !.n[i].sumWeights = h.n[i].weight + h.n[h.n[i].left].sumWeights + h.n[h.n[i].right].sumWeights]

RECURSIVE propagateSumsUp(_, _)
propagateSumsUp(h, i) == IF i = Nil THEN h ELSE propagateSumsUp(setSum(h, i), h.n[i].parent)

SetParent(h, i, p) == IF i = Nil THEN h ELSE [h EXCEPT !.n[i].parent = p]

\* Puts b where a is below p, or at the root.
Hang(h, p, a, b) ==
  IF p = Nil THEN [h EXCEPT !.root = b]
  ELSE IF h.n[p].left = a THEN [h EXCEPT !.n[p].left = b]
  ELSE [h EXCEPT !.n[p].right = b]

\* rotate: i takes the place of its parent.  The sum of i is computed before its parent's.
rotate(h, i) ==
  LET p  == h.n[i].parent
      pp == h.n[p].parent
      moved == IF i = h.n[p].left
               THEN SetParent([h EXCEPT !.n[p].left = h.n[i].right, !.n[i].right = p], h.n[i].right, p)
               ELSE SetParent([h EXCEPT !.n[p].right = h.n[i].left, !.n[i].left = p], h.n[i].left, p)
  IN Hang(setSum(setSum(SetParent(SetParent(moved, p, i), i, pp), i), p), pp, p, i)

\* split: a node with two red children, or a new one, becomes red.
split(h, i) ==
  LET h1 == MarkChild(MarkChild(h, h.n[i].left), h.n[i].right)
      p  == h.n[i].parent
      h2 == Mark(h1, i, TRUE)
      pp == h.n[p].parent
      h3 == Mark(h2, pp, TRUE)
      straight == (i = h.n[p].left) = (p = h.n[pp].left)
  IN IF p = Nil THEN h1
     ELSE IF ~h.n[p].red THEN h2
     ELSE IF straight THEN Mark(rotate(h3, p), p, FALSE)
     ELSE Mark(rotate(rotate(h3, i), i), i, FALSE)

\* The way down of insert, splitting on the way: the heap and the last node.
RECURSIVE Down(_, _, _, _)
Down(h, p, i, item) ==
  IF i = Nil THEN [h |-> h, p |-> p]
  ELSE LET s == IF Red(h, h.n[i].left) /\ Red(h, h.n[i].right) THEN split(h, i) ELSE h
       IN Down(s, i, IF item < s.n[i].key THEN s.n[i].left ELSE s.n[i].right, item)

Below(h, p, i, item) ==
  IF p = Nil THEN [h EXCEPT !.root = i]
  ELSE split(IF item < h.n[p].key THEN [h EXCEPT !.n[p].left = i] ELSE [h EXCEPT !.n[p].right = i], i)
Allocated(h, i, node) ==
  [h EXCEPT !.n = [j \in DOMAIN h.n \cup {i} |-> IF j = i THEN node ELSE h.n[j]]]
InsertBelow(h, p, i, item, weight) ==
  propagateSumsUp(Below(Allocated(h, i, Blank(item, weight, p)), p, i, item), i)
insertItem(h, item, weight) ==
  LET d == Down(h, Nil, h.root, item)
  IN InsertBelow(d.h, d.p, Min((1 .. Cardinality(Item)) \ DOMAIN h.n), item, weight)

\* lengthen: the paths through i have lost a black node.
RECURSIVE lengthen(_, _)
BlackSibling(h, p, s) == IF Red(h, s) THEN rotate(Mark(Mark(h, p, TRUE), s, FALSE), s) ELSE h
\* The node t took the place, and takes the colour, of p; its children become black.
Recolour(h, t) == Mark(Mark(h, h.n[t].left, FALSE), h.n[t].right, FALSE)
Replaced(h, p, t) == Recolour(IF h.n[p].red THEN Mark(h, t, TRUE) ELSE h, t)
\* The sibling s is black, and has a red child.
Borrow(h, p, s, near, far) ==
  IF Red(h, far) THEN Replaced(rotate(h, s), p, s)
  ELSE Replaced(rotate(Mark(Mark(rotate(h, near), s, TRUE), near, FALSE), near), p, near)
LengthenBy(h, i, p, s) ==
  LET l == h.n[s].left
      r == h.n[s].right
      first == i = h.n[p].left
  IN IF s = Nil THEN lengthen(h, p)
     ELSE IF Red(h, l) \/ Red(h, r)
       THEN Borrow(h, p, s, IF first THEN l ELSE r, IF first THEN r ELSE l)
     ELSE IF h.n[p].red THEN Mark(Mark(h, s, TRUE), p, FALSE) ELSE lengthen(Mark(h, s, TRUE), p)
LengthenAt(h, i, p) == LengthenBy(h, i, p, sibling(h, i))
lengthen(h, i) ==
  LET p == h.n[i].parent IN
  IF Red(h, i) THEN Mark(h, i, FALSE)
  ELSE IF p = Nil THEN h
  ELSE LengthenAt(BlackSibling(h, p, sibling(h, i)), i, p)

RECURSIVE lookup(_, _, _)
lookup(h, i, item) ==
  IF i = Nil \/ h.n[i].key = item THEN i
  ELSE lookup(h, IF item < h.n[i].key THEN h.n[i].left ELSE h.n[i].right, item)

RECURSIVE RightmostOf(_, _)
RightmostOf(h, i) == IF h.n[i].right = Nil THEN i ELSE RightmostOf(h, h.n[i].right)

\* remove: the largest item below on the left takes the place of the item, and its node goes.
Freed(h, m) == [h EXCEPT !.n = [j \in DOMAIN h.n \ {m} |-> h.n[j]]]
Unlink(h, m, child, p) == SetParent(Hang(h, p, m, child), child, p)
RemoveNode(h, m, child) ==
  LET p  == h.n[m].parent
      h1 == Unlink(h, m, child, p)
  IN Freed(propagateSumsUp(IF child # Nil /\ ~h.n[m].red THEN lengthen(h1, child) ELSE h1, p), m)
RemoveVia(h, i, m) ==
  RemoveNode([h EXCEPT !.n[i].key = h.n[m].key, !.n[i].weight = h.n[m].weight], m,
             IF h.n[m].left # Nil THEN h.n[m].left ELSE h.n[m].right)
removeFrom(h, i) == RemoveVia(h, i, IF h.n[i].left = Nil THEN i ELSE RightmostOf(h, h.n[i].left))
removeItem(h, item) == removeFrom(h, lookup(h, h.root, item))

updateItem(h, item, weight) ==
  LET i == lookup(h, h.root, item) IN propagateSumsUp([h EXCEPT !.n[i].weight = weight], i)

\* choose: the item at w, a number below the sum of the weights.
RECURSIVE ChooseFrom(_, _, _)
ChooseFrom(h, i, w) ==
  LET l == h.n[i].left
      rest == w - h.n[l].sumWeights
  IN IF l # Nil /\ w < h.n[l].sumWeights THEN ChooseFrom(h, l, w)
     ELSE IF rest < h.n[i].weight \/ h.n[i].right = Nil THEN h.n[i].key
     ELSE ChooseFrom(h, h.n[i].right, rest - h.n[i].weight)

choose(h, w) == ChooseFrom(h, h.root, w)
-----------------------------------------------------------------------------
insert(item, weight) ==
  /\ item \notin DOMAIN weights
  /\ pdf' = insertItem(pdf, item, weight)
  /\ weights' = [j \in DOMAIN weights \cup {item} |-> IF j = item THEN weight ELSE weights[j]]

remove(item) ==
  /\ item \in DOMAIN weights
  /\ pdf' = removeItem(pdf, item)
  /\ weights' = [j \in DOMAIN weights \ {item} |-> weights[j]]

update(item, weight) ==
  /\ item \in DOMAIN weights
  /\ pdf' = updateItem(pdf, item, weight)
  /\ weights' = [weights EXCEPT ![item] = weight]

PDFInit == pdf = EmptyPDF /\ weights = << >>

PDFNext ==
  \E item \in Item : remove(item) \/ \E weight \in Weights[item] : insert(item, weight) \/ update(item, weight)

PDFSpec == PDFInit /\ [][PDFNext]_pdfVars
-----------------------------------------------------------------------------
\* The items stand on the line of weights in their order: choose finds the one that covers a
\* point, which needs every sum on the way to be exact after any rotation.
ChoosesByWeight ==
  LET total == MapThenSumSet(LAMBDA k : weights[k], DOMAIN weights)
      Before(item) == MapThenSumSet(LAMBDA k : weights[k], {k \in DOMAIN weights : k < item})
  IN /\ pdf.n[pdf.root].sumWeights = total
     /\ \A w \in 0 .. total - 1 :
       LET item == choose(pdf, w)
       IN item \in DOMAIN weights /\ Before(item) <= w /\ w < Before(item) + weights[item]

\* The record of the null pointer stays as it is, the root is black and the parents agree with
\* the children: split and lengthen follow parents of red nodes without looking for the root.
TreeLinksAgree ==
  /\ pdf.n[Nil] = Blank(Nil, 0, Nil)
  /\ pdf.root # Nil => pdf.n[pdf.root].parent = Nil /\ ~pdf.n[pdf.root].red
  /\ \A i \in DOMAIN pdf.n \ {Nil}, side \in {"left", "right"} :
       pdf.n[i][side] # Nil => pdf.n[pdf.n[i][side]].parent = i
=============================================================================
