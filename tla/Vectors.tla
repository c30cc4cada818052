------------------------------ MODULE Vectors ------------------------------
(***************************************************************************)
(* The operations on std::vector that the executor and CGSSearcher use.    *)
(***************************************************************************)
EXTENDS Naturals, Sequences, Functions, FiniteSetsExt

back(q) == q[Len(q)]
pop_back(q) == SubSeq(q, 1, Len(q) - 1)
erase(q, i) == SubSeq(q, 1, i - 1) \o SubSeq(q, i + 1, Len(q))

\* A loop that erases the first element at one of some positions, and breaks.
EraseFirst(q, at) == IF at = {} THEN q ELSE erase(q, Min(at))

\* find, and erase of what was found.
Without(q, e) == EraseFirst(q, {i \in DOMAIN q : q[i] = e})
=============================================================================
