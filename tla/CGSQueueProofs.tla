--------------------------- MODULE CGSQueueProofs ---------------------------
(***************************************************************************)
(* The queues of CGSSearcher hold every live state exactly once, and       *)
(* CGSSearcher implements StatePool, for any number of states, branches,   *)
(* stores and values.  The lemmas about vectors come first; the type       *)
(* invariant of CGS, which the other proof modules rest on, comes last.    *)
(***************************************************************************)
EXTENDS CGS, WellFoundedInduction, TLAPS

-----------------------------------------------------------------------------
(* What appending to and erasing from a vector does to its length and its  *)
(* elements: the facts the proofs about the queues and lists rest on.      *)

\* The length and the elements of a vector.
LEMMA LenProperties ==
  ASSUME NEW S, NEW q \in Seq(S)
  PROVE  Len(q) \in Nat /\ q \in [1 .. Len(q) -> S] /\ DOMAIN q = 1 .. Len(q)
OBVIOUS

\* Every position of a vector holds an element of its type.
LEMMA ElementOfSeq ==
  ASSUME NEW S, NEW q \in Seq(S), NEW n \in 1 .. Len(q)
  PROVE  q[n] \in S
OBVIOUS

\* The empty vector, and no other, has length zero.
LEMMA EmptySeq ==
  ASSUME NEW S
  PROVE  /\ << >> \in Seq(S) /\ Len(<< >>) = 0
         /\ \A q \in Seq(S) : q # << >> => Len(q) \in Nat \ {0}
OBVIOUS

\* Two vectors one after the other.
LEMMA ConcatProperties ==
  ASSUME NEW S, NEW p \in Seq(S), NEW q \in Seq(S)
  PROVE  /\ p \o q \in Seq(S) /\ Len(p \o q) = Len(p) + Len(q)
         /\ \A i \in 1 .. Len(p) + Len(q) :
               (p \o q)[i] = IF i <= Len(p) THEN p[i] ELSE q[i - Len(p)]
OBVIOUS

\* A part of a vector.
LEMMA SubSeqProperties ==
  ASSUME NEW S, NEW s, NEW m \in Int, NEW n \in Int, \A i \in m .. n : s[i] \in S
  PROVE  /\ SubSeq(s, m, n) \in Seq(S)
         /\ Len(SubSeq(s, m, n)) = IF m <= n THEN n - m + 1 ELSE 0
         /\ \A i \in 1 .. n - m + 1 : SubSeq(s, m, n)[i] = s[m + i - 1]
OBVIOUS

\* push_back, element by element.
LEMMA AppendProperties ==
  ASSUME NEW S, NEW q \in Seq(S), NEW e \in S
  PROVE  /\ Append(q, e) \in Seq(S) /\ Append(q, e) # << >> /\ Len(Append(q, e)) = Len(q) + 1
         /\ \A i \in 1 .. Len(q) : Append(q, e)[i] = q[i]
         /\ Append(q, e)[Len(q) + 1] = e
OBVIOUS

(***************************************************************************)
(* A non-empty set of positions has a first one.                           *)
(***************************************************************************)
LEMMA MinProperty ==
  ASSUME NEW I, I \subseteq Nat, I # {}
  PROVE  Min(I) \in I
<1>1. \E y \in I : \A z \in I : ~(<<z, y>> \in OpToRel(<, Nat))
  BY NatLessThanWellFounded, WFMin, Zenon
<1>2. PICK y \in I : \A z \in I : ~(<<z, y>> \in OpToRel(<, Nat))
  BY <1>1, Zenon
<1>3. ASSUME NEW z \in I PROVE y =< z
  <2>1. z \in Nat /\ y \in Nat
    OBVIOUS
  <2>2. <<z, y>> \in OpToRel(<, Nat) <=> z < y
    BY <2>1 DEF OpToRel
  <2>3. ~(z < y)
    BY <1>2, <2>2, Zenon
  <2> QED BY <2>1, <2>3
<1> QED BY <1>3, Zenon DEF Min

(***************************************************************************)
(* vector::erase, element by element.                                      *)
(***************************************************************************)
LEMMA EraseElements ==
  ASSUME NEW S, NEW s \in Seq(S), NEW i \in 1 .. Len(s)
  PROVE  /\ erase(s, i) \in Seq(S)
         /\ Len(erase(s, i)) = Len(s) - 1
         /\ \A j \in 1 .. Len(s) - 1 : erase(s, i)[j] = IF j < i THEN s[j] ELSE s[j + 1]
<1> DEFINE a == SubSeq(s, 1, i - 1)
           b == SubSeq(s, i + 1, Len(s))
<1>0. Len(s) \in Nat /\ \A j \in 1 .. Len(s) : s[j] \in S
  BY LenProperties, ElementOfSeq
<1>1. a \in Seq(S) /\ Len(a) = i - 1 /\ \A j \in 1 .. i - 1 : a[j] = s[j]
  BY <1>0, SubSeqProperties
<1>2. b \in Seq(S) /\ Len(b) = Len(s) - i /\ \A j \in 1 .. Len(s) - i : b[j] = s[j + i]
  BY <1>0, SubSeqProperties
<1> HIDE DEF a, b
<1>3. /\ a \o b \in Seq(S) /\ Len(a \o b) = Len(a) + Len(b)
      /\ \A j \in 1 .. Len(a) + Len(b) : (a \o b)[j] = IF j <= Len(a) THEN a[j] ELSE b[j - Len(a)]
  BY <1>1, <1>2, ConcatProperties, Zenon
<1>4. Len(a) + Len(b) = Len(s) - 1
  BY <1>0, <1>1, <1>2
<1>5. ASSUME NEW j \in 1 .. Len(s) - 1 PROVE (a \o b)[j] = IF j < i THEN s[j] ELSE s[j + 1]
  <2>1. CASE j < i
    BY <2>1, <1>0, <1>1, <1>3, <1>4
  <2>2. CASE ~(j < i)
    <3>1. (a \o b)[j] = b[j - (i - 1)]
      BY <2>2, <1>0, <1>1, <1>3, <1>4
    <3>2. j - (i - 1) \in 1 .. Len(s) - i
      BY <2>2, <1>0
    <3>3. b[j - (i - 1)] = s[(j - (i - 1)) + i]
      BY <1>2, <3>2, Zenon
    <3>4. (j - (i - 1)) + i = j + 1
      BY <1>0
    <3> QED BY <2>2, <3>1, <3>3, <3>4
  <2> QED BY <2>1, <2>2, Zenon
<1> QED BY <1>3, <1>4, <1>5, Zenon DEF erase, a, b

(***************************************************************************)
(* An erased element is gone if it occurred once, and nothing else is.     *)
(***************************************************************************)
LEMMA EraseRange ==
  ASSUME NEW S, NEW s \in Seq(S), NEW i \in 1 .. Len(s), IsInjective(s)
  PROVE  /\ erase(s, i) \in Seq(S) /\ IsInjective(erase(s, i))
         /\ Range(erase(s, i)) = Range(s) \ {s[i]}
<1> DEFINE r == erase(s, i)
<1>1. /\ r \in Seq(S) /\ Len(s) \in Nat /\ Len(r) = Len(s) - 1
      /\ \A j \in 1 .. Len(s) - 1 : r[j] = IF j < i THEN s[j] ELSE s[j + 1]
  BY EraseElements, LenProperties
<1>2. DOMAIN s = 1 .. Len(s) /\ DOMAIN r = 1 .. Len(s) - 1
  BY <1>1, LenProperties
<1>3. \A j, k \in 1 .. Len(s) : s[j] = s[k] => j = k
  BY <1>2 DEF IsInjective
<1> HIDE DEF r
<1>4. IsInjective(r)
  <2> SUFFICES ASSUME NEW j \in 1 .. Len(s) - 1, NEW k \in 1 .. Len(s) - 1, r[j] = r[k]
               PROVE  j = k
    BY <1>2 DEF IsInjective
  <2> DEFINE at(m) == IF m < i THEN m ELSE m + 1
  <2>1. \A m \in 1 .. Len(s) - 1 : at(m) \in 1 .. Len(s) /\ r[m] = s[at(m)]
    BY <1>1
  <2>2. at(j) = at(k)
    BY <1>3, <2>1
  <2> QED BY <1>1, <2>2
<1>5. ASSUME NEW x \in Range(r) PROVE x \in Range(s) \ {s[i]}
  <2>1. PICK j \in 1 .. Len(s) - 1 : x = r[j]
    BY <1>2 DEF Range
  <2>2. CASE j < i
    <3>1. j \in 1 .. Len(s) /\ x = s[j] /\ j # i
      BY <1>1, <2>1, <2>2
    <3> QED BY <1>2, <1>3, <3>1 DEF Range
  <2>3. CASE ~(j < i)
    <3>1. j + 1 \in 1 .. Len(s) /\ x = s[j + 1] /\ j + 1 # i
      BY <1>1, <2>1, <2>3
    <3> QED BY <1>2, <1>3, <3>1, ZenonT(40) DEF Range
  <2> QED BY <2>2, <2>3
<1>6. ASSUME NEW x \in Range(s), x # s[i] PROVE x \in Range(r)
  <2>1. PICK j \in 1 .. Len(s) : x = s[j]
    BY <1>2 DEF Range
  <2>2. CASE j < i
    <3>1. j \in 1 .. Len(s) - 1 /\ x = r[j]
      BY <1>1, <2>1, <2>2
    <3> QED BY <1>2, <3>1 DEF Range
  <2>3. CASE j > i
    <3>1. j - 1 \in 1 .. Len(s) - 1 /\ ~(j - 1 < i) /\ (j - 1) + 1 = j
      BY <1>1, <2>3
    <3>2. x = r[j - 1]
      BY <1>1, <2>1, <3>1
    <3> QED BY <1>2, <3>1, <3>2 DEF Range
  <2> QED BY <1>6, <2>1, <2>2, <2>3
<1> QED BY <1>1, <1>4, <1>5, <1>6 DEF r

(***************************************************************************)
(* find and erase, of positions and of an element.                         *)
(***************************************************************************)
LEMMA EraseFirstType ==
  ASSUME NEW S, NEW q \in Seq(S), NEW at, at \subseteq DOMAIN q
  PROVE  EraseFirst(q, at) \in Seq(S)
<1>1. CASE at = {}
  BY <1>1 DEF EraseFirst
<1>2. CASE at # {}
  <2>1. DOMAIN q = 1 .. Len(q) /\ Len(q) \in Nat
    BY LenProperties
  <2>2. Min(at) \in 1 .. Len(q)
    BY <1>2, <2>1, MinProperty
  <2> QED BY <1>2, <2>2, EraseElements DEF EraseFirst
<1> QED BY <1>1, <1>2

\* Erasing the first occurrence of an element, if any, leaves a vector.
LEMMA WithoutType ==
  ASSUME NEW S, NEW q \in Seq(S), NEW e
  PROVE  Without(q, e) \in Seq(S)
BY EraseFirstType DEF Without

\* From a vector without duplicates it removes exactly that element.
LEMMA WithoutRange ==
  ASSUME NEW S, NEW q \in Seq(S), NEW e, IsInjective(q)
  PROVE  IsInjective(Without(q, e)) /\ Range(Without(q, e)) = Range(q) \ {e}
<1> DEFINE at == {i \in DOMAIN q : q[i] = e}
<1>1. CASE at = {}
  <2>1. e \notin Range(q)
    BY <1>1 DEF Range
  <2> QED BY <1>1, <2>1 DEF Without, EraseFirst
<1>2. CASE at # {}
  <2>1. /\ DOMAIN q = 1 .. Len(q) /\ Len(q) \in Nat
        /\ at \subseteq DOMAIN q /\ \A i \in at : q[i] = e
    BY LenProperties
  <2>2. Without(q, e) = erase(q, Min(at))
    BY <1>2 DEF Without, EraseFirst
  <2> HIDE DEF at
  <2>3. at \subseteq Nat
    BY <2>1
  <2>4. Min(at) \in at
    BY <1>2, <2>3, MinProperty, Zenon
  <2>5. Min(at) \in 1 .. Len(q) /\ q[Min(at)] = e
    BY <2>1, <2>4
  <2> QED BY <2>2, <2>5, EraseRange
<1> QED BY <1>1, <1>2

(***************************************************************************)
(* push_back, and insert at begin(), of an element that is not yet there.  *)
(***************************************************************************)
LEMMA AppendRange ==
  ASSUME NEW S, NEW q \in Seq(S), NEW e \in S
  PROVE  /\ Append(q, e) \in Seq(S) /\ Range(Append(q, e)) = Range(q) \cup {e}
         /\ IsInjective(q) /\ e \notin Range(q) => IsInjective(Append(q, e))
<1> DEFINE r == Append(q, e)
<1>1. /\ r \in Seq(S) /\ Len(q) \in Nat /\ Len(r) = Len(q) + 1
      /\ \A i \in 1 .. Len(q) : r[i] = q[i]
      /\ r[Len(q) + 1] = e
  BY AppendProperties, LenProperties
<1>2. DOMAIN q = 1 .. Len(q) /\ DOMAIN r = 1 .. Len(q) + 1
  BY <1>1, LenProperties
<1> HIDE DEF r
<1>3. \A i \in 1 .. Len(q) + 1 : i \in 1 .. Len(q) \/ i = Len(q) + 1
  BY <1>1
<1>4. Range(r) = Range(q) \cup {e}
  <2>1. ASSUME NEW x \in Range(r) PROVE x \in Range(q) \cup {e}
    <3>1. PICK i \in 1 .. Len(q) + 1 : x = r[i]
      BY <1>2 DEF Range
    <3>2. CASE i = Len(q) + 1
      BY <1>1, <3>1, <3>2
    <3>3. CASE i \in 1 .. Len(q)
      BY <1>1, <1>2, <3>1, <3>3, ZenonT(40) DEF Range
    <3> QED BY <1>3, <3>2, <3>3
  <2>2. ASSUME NEW x \in Range(q) PROVE x \in Range(r)
    <3>1. PICK i \in 1 .. Len(q) : x = q[i]
      BY <1>2 DEF Range
    <3>2. i \in 1 .. Len(q) + 1 /\ x = r[i]
      BY <1>1, <3>1
    <3> QED BY <1>2, <3>2 DEF Range
  <2>3. e \in Range(r)
    <3>1. Len(q) + 1 \in 1 .. Len(q) + 1
      BY <1>1
    <3> QED BY <1>1, <1>2, <3>1, ZenonT(40) DEF Range
  <2> QED BY <2>1, <2>2, <2>3, ZenonT(40)
<1>5. ASSUME IsInjective(q), e \notin Range(q),
             NEW i \in 1 .. Len(q) + 1, NEW j \in 1 .. Len(q) + 1, r[i] = r[j]
      PROVE  i = j
  <2>1. \A k \in 1 .. Len(q) : q[k] # e
    BY <1>2, <1>5 DEF Range
  <2>2. \A k, m \in 1 .. Len(q) : q[k] = q[m] => k = m
    BY <1>2, <1>5, ZenonT(40) DEF IsInjective
  <2> QED BY <1>1, <1>3, <1>5, <2>1, <2>2, ZenonT(40)
<1>6. IsInjective(q) /\ e \notin Range(q) => IsInjective(r)
  BY <1>2, <1>5 DEF IsInjective
<1> QED BY <1>1, <1>4, <1>6, ZenonT(40) DEF r

\* The same at the front, as insert(begin(), s) does.
LEMMA PrependRange ==
  ASSUME NEW S, NEW q \in Seq(S), NEW e \in S
  PROVE  /\ <<e>> \o q \in Seq(S) /\ Range(<<e>> \o q) = Range(q) \cup {e}
         /\ IsInjective(q) /\ e \notin Range(q) => IsInjective(<<e>> \o q)
<1> DEFINE r == <<e>> \o q
<1>0. <<e>> \in Seq(S) /\ Len(<<e>>) = 1 /\ <<e>>[1] = e
  OBVIOUS
<1>1. /\ r \in Seq(S) /\ Len(q) \in Nat /\ Len(r) = Len(q) + 1
      /\ \A i \in 1 .. Len(q) + 1 : r[i] = IF i <= 1 THEN e ELSE q[i - 1]
  BY <1>0, ConcatProperties, LenProperties
<1>2. DOMAIN q = 1 .. Len(q) /\ DOMAIN r = 1 .. Len(q) + 1
  BY <1>1, LenProperties
<1> HIDE DEF r
<1>3. \A i \in 1 .. Len(q) + 1 : \/ i = 1 /\ r[i] = e
                                 \/ i # 1 /\ i - 1 \in 1 .. Len(q) /\ r[i] = q[i - 1]
  BY <1>1
<1>4. Range(r) = Range(q) \cup {e}
  <2>1. ASSUME NEW x \in Range(r) PROVE x \in Range(q) \cup {e}
    BY <1>2, <1>3 DEF Range
  <2>2. ASSUME NEW x \in Range(q) PROVE x \in Range(r)
    <3>1. PICK i \in 1 .. Len(q) : x = q[i]
      BY <1>2 DEF Range
    <3>2. i + 1 \in 1 .. Len(q) + 1 /\ (i + 1) - 1 = i /\ i + 1 # 1
      BY <1>1
    <3>3. x = r[i + 1]
      BY <1>3, <3>1, <3>2
    <3> QED BY <1>2, <3>2, <3>3, ZenonT(40) DEF Range
  <2>3. e \in Range(r)
    <3>1. 1 \in 1 .. Len(q) + 1 /\ r[1] = e
      BY <1>1
    <3> QED BY <1>2, <3>1 DEF Range
  <2> QED BY <2>1, <2>2, <2>3
<1>5. ASSUME IsInjective(q), e \notin Range(q),
             NEW i \in 1 .. Len(q) + 1, NEW j \in 1 .. Len(q) + 1, r[i] = r[j]
      PROVE  i = j
  <2>1. \A k \in 1 .. Len(q) : q[k] # e
    BY <1>2, <1>5, Zenon DEF Range
  <2>2. \A k, m \in 1 .. Len(q) : q[k] = q[m] => k = m
    BY <1>2, <1>5 DEF IsInjective
  <2>3. i # 1 /\ j # 1 => i - 1 = j - 1
    BY <1>3, <1>5, <2>2
  <2>4. i = 1 <=> j = 1
    BY <1>3, <1>5, <2>1, ZenonT(40)
  <2> QED BY <2>3, <2>4, <1>1
<1>6. IsInjective(q) /\ e \notin Range(q) => IsInjective(r)
  BY <1>2, <1>5 DEF IsInjective
<1> QED BY <1>1, <1>4, <1>6 DEF r

(***************************************************************************)
(* front(), pop_back() and an element by position.                         *)
(***************************************************************************)
LEMMA ElementInRange ==
  ASSUME NEW S, NEW q \in Seq(S), NEW i \in 1 .. Len(q)
  PROVE  q[i] \in S /\ q[i] \in Range(q)
BY LenProperties, ElementOfSeq DEF Range

\* The elements of a vector have the vector's type.
LEMMA RangeType ==
  ASSUME NEW S, NEW q \in Seq(S)
  PROVE  Range(q) \subseteq S
BY LenProperties, ElementOfSeq DEF Range

\* front() of a vector that is not empty.
LEMMA HeadInRange ==
  ASSUME NEW S, NEW q \in Seq(S), q # <<>>
  PROVE  Head(q) \in S /\ Head(q) \in Range(q)
<1>1. Head(q) = q[1] /\ 1 \in 1 .. Len(q)
  BY EmptySeq, LenProperties
<1> QED BY <1>1, ElementInRange

\* back() and pop_back() of a vector that is not empty.
LEMMA BackInRange ==
  ASSUME NEW S, NEW q \in Seq(S), q # <<>>
  PROVE  back(q) \in S /\ back(q) \in Range(q) /\ pop_back(q) \in Seq(S)
<1>1. Len(q) \in 1 .. Len(q)
  BY EmptySeq, LenProperties
<1>2. back(q) = q[Len(q)]
  BY DEF back
<1>3. \A i \in 1 .. Len(q) - 1 : q[i] \in S
  BY LenProperties, ElementOfSeq
<1>4. pop_back(q) \in Seq(S)
  BY <1>3, LenProperties, SubSeqProperties DEF pop_back
<1> QED BY <1>1, <1>2, <1>4, ElementInRange, ZenonT(40)

\* Only the empty vector has no elements.
LEMMA EmptyRange ==
  ASSUME NEW S, NEW q \in Seq(S)
  PROVE  (q = <<>> <=> Range(q) = {}) /\ (q = <<>> => IsInjective(q))
<1>1. q = <<>> => Len(q) = 0
  OBVIOUS
<1>2. q = <<>> => Range(q) = {} /\ IsInjective(q)
  BY <1>1, LenProperties DEF Range, IsInjective
<1>3. q # <<>> => Range(q) # {}
  BY HeadInRange, Zenon
<1> QED BY <1>2, <1>3, Zenon

(***************************************************************************)
(* pop_back() and back() of a vector without duplicates.                   *)
(***************************************************************************)
LEMMA PopBackRange ==
  ASSUME NEW S, NEW q \in Seq(S), q # <<>>, IsInjective(q)
  PROVE  /\ Len(pop_back(q)) = Len(q) - 1 /\ IsInjective(pop_back(q))
         /\ Range(pop_back(q)) = Range(q) \ {back(q)}
<1> DEFINE r == pop_back(q)
<1>1. Len(q) \in Nat \ {0} /\ DOMAIN q = 1 .. Len(q) /\ \A i \in 1 .. Len(q) : q[i] \in S
  BY EmptySeq, LenProperties, ElementOfSeq
<1>2. /\ r \in Seq(S) /\ Len(r) = Len(q) - 1
      /\ \A i \in 1 .. Len(q) - 1 : r[i] = q[i]
  BY <1>1, SubSeqProperties DEF pop_back
<1>3. DOMAIN r = 1 .. Len(q) - 1 /\ 1 .. Len(q) - 1 = (1 .. Len(q)) \ {Len(q)}
  BY <1>1, <1>2, LenProperties
<1>4. back(q) = q[Len(q)] /\ Len(q) \in 1 .. Len(q)
  BY <1>1 DEF back
<1> HIDE DEF r
<1>5. IsInjective(r)
  BY <1>1, <1>2, <1>3 DEF IsInjective
<1>6. Range(r) = Range(q) \ {back(q)}
  <2>1. \A i, j \in 1 .. Len(q) : q[i] = q[j] => i = j
    BY <1>1 DEF IsInjective
  <2>2. Range(q) = {q[i] : i \in 1 .. Len(q)} /\ Range(r) = {r[i] : i \in 1 .. Len(q) - 1}
    BY <1>1, <1>3, Zenon DEF Range
  <2>3. ASSUME NEW x \in Range(r) PROVE x \in Range(q) \ {back(q)}
    <3>1. PICK i \in 1 .. Len(q) - 1 : x = r[i]
      BY <2>2, Zenon
    <3>2. i \in 1 .. Len(q) /\ i # Len(q) /\ x = q[i]
      BY <1>2, <1>3, <1>4, <3>1, Zenon
    <3> QED BY <1>4, <2>1, <2>2, <3>2, Zenon
  <2>4. ASSUME NEW x \in Range(q), x # back(q) PROVE x \in Range(r)
    <3>1. PICK i \in 1 .. Len(q) : x = q[i]
      BY <2>2, Zenon
    <3>2. i \in 1 .. Len(q) - 1 /\ x = r[i]
      BY <1>2, <1>3, <1>4, <2>4, <3>1, Zenon
    <3> QED BY <2>2, <3>2, Zenon
  <2> QED BY <2>3, <2>4
<1> QED BY <1>2, <1>5, <1>6 DEF r

\* find and erase shorten the vector by one element, if there is one to find.
LEMMA EraseFirstLen ==
  ASSUME NEW S, NEW q \in Seq(S), NEW at, at \subseteq DOMAIN q
  PROVE  /\ at = {} => EraseFirst(q, at) = q
         /\ at # {} => /\ EraseFirst(q, at) = erase(q, Min(at)) /\ Min(at) \in at
                       /\ Min(at) \in 1 .. Len(q) /\ Len(EraseFirst(q, at)) = Len(q) - 1
<1>1. DOMAIN q = 1 .. Len(q) /\ Len(q) \in Nat
  BY LenProperties, Zenon
<1>2. ASSUME at # {}
      PROVE  /\ EraseFirst(q, at) = erase(q, Min(at)) /\ Min(at) \in at
             /\ Min(at) \in 1 .. Len(q) /\ Len(EraseFirst(q, at)) = Len(q) - 1
  <2>1. at \subseteq Nat
    BY <1>1
  <2>2. Min(at) \in at
    BY <1>2, <2>1, MinProperty, Zenon
  <2>3. Min(at) \in 1 .. Len(q)
    BY <1>1, <2>2
  <2>4. EraseFirst(q, at) = erase(q, Min(at))
    BY <1>2 DEF EraseFirst
  <2> QED BY <2>2, <2>3, <2>4, EraseElements, ZenonT(40)
<1> QED BY <1>2 DEF EraseFirst

\* The length after an element is found and erased.
LEMMA WithoutLen ==
  ASSUME NEW S, NEW q \in Seq(S), NEW e
  PROVE  /\ e \notin Range(q) => Without(q, e) = q
         /\ e \in Range(q) => Len(Without(q, e)) = Len(q) - 1
<1> DEFINE at == {i \in DOMAIN q : q[i] = e}
<1>1. at \subseteq DOMAIN q /\ Without(q, e) = EraseFirst(q, at) /\ (at = {} <=> e \notin Range(q))
  BY Zenon DEF Without, Range
<1> HIDE DEF at
<1> QED BY <1>1, EraseFirstLen

\* An element that find and erase leaves was there before, and none is new.
LEMMA EraseFirstElements ==
  ASSUME NEW S, NEW q \in Seq(S), NEW at, at \subseteq DOMAIN q
  PROVE  Range(EraseFirst(q, at)) \subseteq Range(q)
<1>1. CASE at = {}
  BY <1>1 DEF EraseFirst
<1>2. CASE at # {}
  <2>1. /\ EraseFirst(q, at) = erase(q, Min(at))
        /\ Min(at) \in 1 .. Len(q) /\ Len(q) \in Nat /\ DOMAIN q = 1 .. Len(q)
    BY <1>2, EraseFirstLen, LenProperties, ZenonT(40)
  <2> DEFINE r == erase(q, Min(at))
  <2>2. /\ r \in Seq(S) /\ Len(r) = Len(q) - 1
        /\ \A j \in 1 .. Len(q) - 1 : r[j] = IF j < Min(at) THEN q[j] ELSE q[j + 1]
    BY <2>1, EraseElements, Zenon
  <2>3. DOMAIN r = 1 .. Len(q) - 1
    BY <2>2, LenProperties
  <2> HIDE DEF r
  <2>4. ASSUME NEW j \in 1 .. Len(q) - 1 PROVE \E k \in 1 .. Len(q) : r[j] = q[k]
    <3>1. j \in 1 .. Len(q) /\ j + 1 \in 1 .. Len(q) /\ (r[j] = q[j] \/ r[j] = q[j + 1])
      BY <2>1, <2>2
    <3> QED BY <3>1, Zenon
  <2>5. Range(r) \subseteq Range(q)
    BY <2>1, <2>3, <2>4, Zenon DEF Range
  <2> QED BY <2>1, <2>5, Zenon DEF r
<1> QED BY <1>1, <1>2

-----------------------------------------------------------------------------
(* The queues *)

pool == Range(states) \cup Range(branch_states)

\* From the selection of a state to the end of re-targeting the queues hold the
\* live states; between two instructions there are no changes to tell.
Running == {"exec", "storeLoop", "rotate", "reach", "fully", "store", "examine", "partly",
            "claim", "pick", "find", "partlyDone", "retarget", "clear", "refill"}
Idle    == {"select", "memory", "tick"}

PoolType ==
  /\ states \in Seq(State) /\ branch_states \in Seq(State) /\ addedStates \in Seq(State)
  /\ execStates \subseteq State
Apart ==
  /\ IsInjective(states) /\ IsInjective(branch_states)
  /\ Range(states) \cap Range(branch_states) = {}
AddedAreNew == IsInjective(addedStates) /\ Range(addedStates) \cap execStates = {}

\* While update adds and removes states, the pool follows the executor's lists.
PoolFollows ==
  /\ step \in Running \cup Idle => pool = execStates
  /\ step \in Idle => addedStates = <<>> /\ removedStates = {}
  /\ step = "add" => pool = execStates \cup {addedStates[i] : i \in 1 .. idx - 1}
  /\ step = "remove" => /\ (execStates \cup Range(addedStates)) \ removedStates \subseteq pool
                        /\ pool \subseteq execStates \cup Range(addedStates)
  /\ step = "commit" => pool = (execStates \cup Range(addedStates)) \ removedStates

Positions ==
  /\ step \in {"fully", "find", "clear", "add"} => idx \in Nat \ {0}
  /\ step = "add" => idx <= Len(addedStates) + 1
  /\ step \notin {"fully", "find", "clear", "add", "storeLoop", "examine", "done", "crashed"}
        => idx = 1
  /\ step \in {"claim", "pick", "find"} => ret \in {"partlyDone", "refill"}
  /\ step = "exec" => current \in execStates

QInv == PoolType /\ Apart /\ AddedAreNew /\ PoolFollows /\ Positions

\* What every step has to do: keep the invariant, and be a step of StatePool or none.
PoolStep == [Pool!PoolNext]_(Pool!poolVars)
Good == QInv' /\ PoolStep
-----------------------------------------------------------------------------
(***************************************************************************)
(* Moving a state from one queue to the other.                             *)
(***************************************************************************)
LEMMA MoveBack ==
  ASSUME NEW p \in Seq(State), NEW q \in Seq(State), NEW s \in Range(p),
         IsInjective(p), IsInjective(q), Range(p) \cap Range(q) = {},
         NEW r \in Seq(State), IsInjective(r), Range(r) = Range(p) \ {s}
  PROVE  /\ Append(q, s) \in Seq(State) /\ IsInjective(Append(q, s))
         /\ Range(r) \cap Range(Append(q, s)) = {}
         /\ Range(r) \cup Range(Append(q, s)) = Range(p) \cup Range(q)
<1>1. s \in State
  BY RangeType
<1> QED BY <1>1, AppendRange

\* The same for a move to the front, as after a covered target.
LEMMA MoveFront ==
  ASSUME NEW p \in Seq(State), NEW q \in Seq(State), NEW s \in Range(p),
         IsInjective(p), IsInjective(q), Range(p) \cap Range(q) = {},
         NEW r \in Seq(State), IsInjective(r), Range(r) = Range(p) \ {s}
  PROVE  /\ <<s>> \o q \in Seq(State) /\ IsInjective(<<s>> \o q)
         /\ Range(r) \cap Range(<<s>> \o q) = {}
         /\ Range(r) \cup Range(<<s>> \o q) = Range(p) \cup Range(q)
<1>1. s \in State
  BY RangeType
<1> QED BY <1>1, PrependRange

\* The rotation after a fork only reorders the queue.
LEMMA RotateToBack ==
  ASSUME NEW q \in Seq(State), NEW s \in Range(q), IsInjective(q)
  PROVE  /\ Append(Without(q, s), s) \in Seq(State) /\ IsInjective(Append(Without(q, s), s))
         /\ Range(Append(Without(q, s), s)) = Range(q)
<1>1. /\ Without(q, s) \in Seq(State) /\ IsInjective(Without(q, s))
      /\ Range(Without(q, s)) = Range(q) \ {s} /\ s \in State
  BY WithoutType, WithoutRange, RangeType, ZenonT(40)
<1>2. s \notin Range(Without(q, s))
  BY <1>1, Zenon
<1>3. /\ Append(Without(q, s), s) \in Seq(State) /\ IsInjective(Append(Without(q, s), s))
      /\ Range(Append(Without(q, s), s)) = Range(Without(q, s)) \cup {s}
  BY <1>1, <1>2, AppendRange
<1> QED BY <1>1, <1>3, Zenon

(***************************************************************************)
(* A step that keeps the queues together, and the executor's lists, keeps  *)
(* the invariant while update has not come to the new states.              *)
(***************************************************************************)
QueuesKept ==
  /\ states' \in Seq(State) /\ branch_states' \in Seq(State)
  /\ Apart' /\ pool' = pool

\* A step of update that keeps the queues, and where its loops start, keeps the invariant.
LEMMA KeptInv ==
  ASSUME QInv, QueuesKept, UNCHANGED execVars, step \in Running,
         step' \in (Running \ {"exec"}) \cup {"add", "crashed"},
         step' \in {"fully", "find", "clear"} => idx' \in Nat \ {0},
         step' \notin {"fully", "find", "clear", "storeLoop", "examine", "crashed"} => idx' = 1,
         step' \in {"claim", "pick", "find"} => ret' \in {"partlyDone", "refill"}
  PROVE  Good
<1>1. PoolType' /\ AddedAreNew' /\ Apart'
  BY DEF QInv, QueuesKept, execVars, PoolType, AddedAreNew
<1>2. addedStates \in Seq(State) /\ Len(addedStates) \in Nat
  BY LenProperties, Zenon DEF QInv, PoolType
<1>3. pool' = execStates'
  BY Zenon DEF QInv, PoolFollows, QueuesKept, execVars
<1>4. step' = "add" => {addedStates'[i] : i \in 1 .. idx' - 1} = {}
  BY DEF execVars
<1>5. PoolFollows'
  BY <1>3, <1>4, Zenon DEF PoolFollows, Running, Idle
<1>6. Positions'
  BY <1>2 DEF Positions, Running, execVars
<1>7. PoolStep
  BY DEF PoolStep, Pool!poolVars, QueuesKept, pool, execVars
<1> QED BY <1>1, <1>5, <1>6, <1>7, Zenon DEF QInv, Good

\* A step that does not touch the queues keeps them.
LEMMA SameQueues ==
  ASSUME QInv, UNCHANGED queueVars
  PROVE  QueuesKept
BY DEF QInv, PoolType, Apart, queueVars, QueuesKept, pool

\* Moving current to branch_states keeps the states the searcher knows.
LEMMA PrioritiseKeeps ==
  ASSUME QInv, NEW s, Prioritise(s)
  PROVE  QueuesKept
<1> USE DEF QInv, PoolType, Apart
<1>1. CASE s \in Range(states)
  <2>1. /\ Without(states, s) \in Seq(State) /\ IsInjective(Without(states, s))
        /\ Range(Without(states, s)) = Range(states) \ {s}
    BY WithoutType, WithoutRange, Zenon
  <2>2. states' = Without(states, s) /\ branch_states' = Append(branch_states, s)
    BY <1>1 DEF Prioritise
  <2> QED BY <1>1, <2>1, <2>2, MoveBack, Zenon DEF QueuesKept, pool
<1>2. CASE s \notin Range(states)
  <2>1. Without(states, s) = states
    BY <1>2 DEF Without, EraseFirst, Range
  <2>2. states' = Without(states, s) /\ branch_states' = branch_states
    BY <1>2, ZenonT(40) DEF Prioritise
  <2> QED BY <1>2, <2>1, <2>2, ZenonT(40) DEF QueuesKept, pool
<1> QED BY <1>1, <1>2, Zenon

(***************************************************************************)
(* The instructions, and the sections of update that leave the queues      *)
(* alone.                                                                  *)
(***************************************************************************)
LEMMA InstructionsInv ==
  ASSUME QInv,
         \/ \E b \in BrBranch : \E o \in Outcome[b], c \in {TRUE, "mixed" \notin Allowed} :
               ConcreteBr(b, o, c)
         \/ \E b \in BrBranch : \E o \in Outcome[b] : SymbolicBr(b, o)
         \/ \E b \in SwitchBranch : \E o \in Outcome[b] \cup {Default} : ConcreteSwitch(b, o)
         \/ \E s \in Store, v \in Value : StoreInst(s, v)
         \/ StoreLoop \/ OtherInst
  PROVE  Good
<1>1. /\ UNCHANGED <<execVars, queueVars>> /\ step \in {"exec", "storeLoop"}
      /\ step' \in {"rotate", "storeLoop"} /\ (step' = "rotate" => idx' = 1)
  <2>0. step = "exec" => idx = 1
    BY Zenon DEF QInv, Positions
  <2>1. ASSUME NEW b, NEW o, NEW c, ConcreteBr(b, o, c) PROVE <1>1
    BY <2>0, <2>1, Zenon DEF ConcreteBr, loopVars
  <2>2. ASSUME NEW b, NEW o, SymbolicBr(b, o) PROVE <1>1
    BY <2>0, <2>2, Zenon DEF SymbolicBr, loopVars
  <2>3. ASSUME NEW b, NEW o, ConcreteSwitch(b, o) PROVE <1>1
    BY <2>0, <2>3, Zenon DEF ConcreteSwitch, loopVars
  <2>4. ASSUME NEW s, NEW v, StoreInst(s, v) PROVE <1>1
    BY <2>0, <2>4, Zenon DEF StoreInst
  <2>5. CASE StoreLoop
    BY <2>5, Zenon DEF StoreLoop
  <2>6. CASE OtherInst
    BY <2>0, <2>6, ZenonT(40) DEF OtherInst, loopVars
  <2> QED BY <2>1, <2>2, <2>3, <2>4, <2>5, <2>6, Zenon
<1>2. QueuesKept
  BY <1>1, SameQueues
<1> QED BY <1>1, <1>2, KeptInv DEF Running

\* The sections of update that leave both queues alone.
LEMMA SectionsInv ==
  ASSUME QInv,
         \/ ReachStore \/ StoreValuesExamined \/ NewPartlyCovered \/ PartlyCoveredHandled
         \/ ClaimStore \/ PickStore \/ StatesFound \/ Retarget \/ StatesCleared \/ Refill
  PROVE  Good
<1>1. /\ UNCHANGED <<execVars, queueVars>> /\ step \in Running
      /\ step' \in (Running \ {"exec"}) \cup {"add", "crashed"}
      /\ step' \in {"fully", "find", "clear"} => idx' \in Nat \ {0}
      /\ step' \notin {"fully", "find", "clear", "storeLoop", "examine", "crashed"} => idx' = 1
      /\ step' \in {"claim", "pick", "find"} => ret' \in {"partlyDone", "refill"}
  <2> USE DEF QInv, Positions, Running
  <2>1. CASE ReachStore
    BY <2>1, ZenonT(40) DEF ReachStore
  <2>2. CASE StoreValuesExamined
    BY <2>2, ZenonT(40) DEF StoreValuesExamined
  <2>3. CASE NewPartlyCovered
    BY <2>3 DEF NewPartlyCovered
  <2>4. CASE PartlyCoveredHandled
    BY <2>4, Zenon DEF PartlyCoveredHandled
  <2>5. CASE ClaimStore
    BY <2>5, ZenonT(40) DEF ClaimStore
  <2>6. CASE PickStore
    BY <2>6 DEF PickStore
  <2>7. CASE StatesFound
    BY <2>7, Zenon DEF StatesFound
  <2>8. CASE Retarget
    BY <2>8 DEF Retarget, loopVars
  <2>9. CASE StatesCleared
    BY <2>9, Zenon DEF StatesCleared
  <2>10. CASE Refill
    BY <2>10, Zenon DEF Refill
  <2> QED BY <2>1, <2>2, <2>3, <2>4, <2>5, <2>6, <2>7, <2>8, <2>9, <2>10, ZenonT(40)
<1>2. QueuesKept
  BY <1>1, SameQueues, ZenonT(40)
<1> QED BY <1>1, <1>2, KeptInv, Zenon

(***************************************************************************)
(* The sections of update that move states between and within the queues.  *)
(***************************************************************************)
LEMMA RotateInv == ASSUME QInv, Rotate PROVE Good
<1> USE DEF QInv, PoolType, Apart
<1>1. QueuesKept
  <2>1. CASE UNCHANGED queueVars
    BY <2>1, SameQueues, ZenonT(40)
  <2>2. CASE /\ current \in Range(states) /\ UNCHANGED branch_states
             /\ states' = Append(Without(states, current), current)
    BY <2>2, RotateToBack, Zenon DEF QueuesKept, pool
  <2>3. CASE /\ current \in Range(branch_states) /\ UNCHANGED states
             /\ branch_states' = Append(Without(branch_states, current), current)
    BY <2>3, RotateToBack, ZenonT(40) DEF QueuesKept, pool
  <2> QED BY <2>1, <2>2, <2>3, ZenonT(40) DEF Rotate
<1>2. /\ UNCHANGED execVars /\ step = "rotate" /\ step' \in {"reach", "retarget", "crashed"}
      /\ idx' = 1
  BY DEF Rotate, Positions, loopVars
<1> QED BY <1>1, <1>2, KeptInv, ZenonT(40) DEF Running

\* Current, or the state at idx, leaves branch_states for the back of states.
LEMMA DemoteKeeps ==
  ASSUME QInv, NEW s \in Range(branch_states), states' = Append(states, s),
         branch_states' \in Seq(State), IsInjective(branch_states'),
         Range(branch_states') = Range(branch_states) \ {s}
  PROVE  QueuesKept
<1>1. /\ states \in Seq(State) /\ branch_states \in Seq(State)
      /\ IsInjective(states) /\ IsInjective(branch_states)
      /\ Range(branch_states) \cap Range(states) = {}
  BY Zenon DEF QInv, PoolType, Apart
<1>2. /\ states' \in Seq(State) /\ IsInjective(states')
      /\ Range(branch_states') \cap Range(states') = {}
      /\ Range(branch_states') \cup Range(states') = Range(branch_states) \cup Range(states)
  BY <1>1, MoveBack, ZenonT(40)
<1> QED BY <1>2, Zenon DEF QueuesKept, Apart, pool

\* Moving the state under the iterator of branch_states back to states.
LEMMA DemoteAtKeeps ==
  ASSUME QInv, NEW i \in 1 .. Len(branch_states), states' = Append(states, branch_states[i]),
         branch_states' = erase(branch_states, i)
  PROVE  QueuesKept
<1>1. branch_states \in Seq(State) /\ IsInjective(branch_states)
  BY DEF QInv, PoolType, Apart
<1>2. branch_states[i] \in Range(branch_states)
  BY <1>1, ElementInRange, ZenonT(40)
<1>3. /\ branch_states' \in Seq(State) /\ IsInjective(branch_states')
      /\ Range(branch_states') = Range(branch_states) \ {branch_states[i]}
  BY <1>1, EraseRange
<1> QED BY <1>2, <1>3, DemoteKeeps, Zenon

\* A state that used a wrong value may go back to states.
LEMMA ReachBranchInv == ASSUME QInv, ReachBranch PROVE Good
<1>1. QueuesKept
  <2>1. CASE UNCHANGED queueVars
    BY <2>1, SameQueues
  <2>2. CASE /\ current \in Range(branch_states)
             /\ branch_states' = Without(branch_states, current)
             /\ states' = Append(states, current)
    <3>1. /\ branch_states' \in Seq(State) /\ IsInjective(branch_states')
          /\ Range(branch_states') = Range(branch_states) \ {current}
      BY <2>2, WithoutType, WithoutRange, Zenon DEF QInv, PoolType, Apart
    <3> QED BY <2>2, <3>1, DemoteKeeps
  <2> QED BY <2>1, <2>2 DEF ReachBranch
<1>2. UNCHANGED execVars /\ step = "reach" /\ step' \in {"store", "fully"} /\ idx' = 1
  BY Zenon DEF ReachBranch, QInv, Positions
<1> QED BY <1>1, <1>2, KeptInv, SMTT(30) DEF Running

\* One iteration of the loop of handleFullyCoveredBranch.
LEMMA HandleFullyCoveredInv == ASSUME QInv, HandleFullyCovered PROVE Good
<1>1. /\ UNCHANGED execVars /\ step = "fully" /\ step' = "fully"
      /\ idx \in 1 .. Len(branch_states) /\ idx' \in Nat \ {0}
  <2>1. idx \in Nat \ {0} /\ Len(branch_states) \in Nat
    BY LenProperties, Zenon DEF HandleFullyCovered, QInv, Positions, PoolType
  <2> QED BY <2>1 DEF HandleFullyCovered
<1>2. \/ UNCHANGED queueVars
      \/ /\ branch_states' = erase(branch_states, idx)
         /\ states' = Append(states, branch_states[idx])
  BY DEF HandleFullyCovered
<1>3. QueuesKept
  BY <1>1, <1>2, SameQueues, DemoteAtKeeps, ZenonT(40)
<1> QED BY <1>1, <1>3, KeptInv, Zenon DEF Running

\* After the loop, current may go to the front of states.
LEMMA FullyCoveredHandledInv == ASSUME QInv, FullyCoveredHandled PROVE Good
<1>1. QueuesKept
  <2>1. CASE UNCHANGED queueVars
    BY <2>1, SameQueues, ZenonT(40)
  <2>2. CASE /\ current \in Range(branch_states)
             /\ branch_states' = Without(branch_states, current)
             /\ states' = <<current>> \o states
    <3>1. /\ states \in Seq(State) /\ branch_states \in Seq(State)
          /\ IsInjective(states) /\ IsInjective(branch_states)
          /\ Range(branch_states) \cap Range(states) = {}
      BY DEF QInv, PoolType, Apart
    <3>2. /\ branch_states' \in Seq(State) /\ IsInjective(branch_states')
          /\ Range(branch_states') = Range(branch_states) \ {current}
      BY <2>2, <3>1, WithoutType, WithoutRange, ZenonT(40)
    <3>3. /\ states' \in Seq(State) /\ IsInjective(states')
          /\ Range(branch_states') \cap Range(states') = {}
          /\ Range(branch_states') \cup Range(states') = Range(branch_states) \cup Range(states)
      BY <2>2, <3>1, <3>2, MoveFront, Zenon
    <3> QED BY <3>2, <3>3 DEF QueuesKept, Apart, pool
  <2> QED BY <2>1, <2>2 DEF FullyCoveredHandled
<1>2. UNCHANGED execVars /\ step = "fully" /\ step' = "store" /\ idx' = 1
  BY DEF FullyCoveredHandled
<1> QED BY <1>1, <1>2, KeptInv, SMTT(30) DEF Running

\* After a store, current may be moved to branch_states.
LEMMA ExamineStoreValueInv == ASSUME QInv, ExamineStoreValue PROVE Good
<1>1. QueuesKept
  BY SameQueues, PrioritiseKeeps, ZenonT(40) DEF ExamineStoreValue
<1>2. UNCHANGED execVars /\ step = "examine" /\ step' = "examine"
  BY DEF ExamineStoreValue
<1> QED BY <1>1, <1>2, KeptInv, Zenon DEF Running

\* handlePartlyCoveredBranch moves current to branch_states.
LEMMA ClaimedInv == ASSUME QInv, Claimed PROVE Good
<1>1. QueuesKept
  BY PrioritiseKeeps, ZenonT(40) DEF Claimed
<1>2. /\ UNCHANGED execVars /\ step = "claim" /\ step' = "pick" /\ idx' = 1
      /\ ret' \in {"partlyDone", "refill"}
  BY DEF Claimed, QInv, Positions
<1> QED BY <1>1, <1>2, KeptInv, ZenonT(40) DEF Running

\* Its second loop moves waiting states, erasing from the vector it iterates over.
LEMMA FindStateInv == ASSUME QInv, FindState PROVE Good
<1>1. /\ states \in Seq(State) /\ branch_states \in Seq(State) /\ Len(states) \in Nat
      /\ IsInjective(states) /\ IsInjective(branch_states)
      /\ Range(states) \cap Range(branch_states) = {}
  BY LenProperties DEF QInv, PoolType, Apart
<1>2. /\ UNCHANGED execVars /\ step = "find" /\ step' = "find" /\ ret' \in {"partlyDone", "refill"}
      /\ idx \in 1 .. Len(states) /\ idx' \in Nat \ {0}
  <2>1. /\ UNCHANGED execVars /\ step = "find" /\ step' = "find" /\ ret' = ret
        /\ idx <= Len(states) /\ idx' \in {idx, idx + 1}
    BY DEF FindState
  <2>2. idx \in Nat \ {0} /\ ret \in {"partlyDone", "refill"}
    BY <2>1, ZenonT(40) DEF QInv, Positions
  <2> QED BY <1>1, <2>1, <2>2, SMTT(30)
<1>3. QueuesKept
  <2>1. CASE UNCHANGED queueVars
    BY <2>1, SameQueues
  <2>2. CASE states' = erase(states, idx) /\ branch_states' = Append(branch_states, states[idx])
    <3>1. states[idx] \in Range(states)
      BY <1>1, <1>2, ElementInRange
    <3>2. /\ states' \in Seq(State) /\ IsInjective(states')
          /\ Range(states') = Range(states) \ {states[idx]}
      BY <1>1, <1>2, <2>2, EraseRange
    <3> QED BY <1>1, <2>2, <3>1, <3>2, MoveBack, ZenonT(40) DEF QueuesKept, Apart, pool
  <2> QED BY <2>1, <2>2, Zenon DEF FindState
<1> QED BY <1>2, <1>3, KeptInv, ZenonT(40) DEF Running

\* Re-targeting moves states back while it iterates over branch_states.
LEMMA ClearStateInv == ASSUME QInv, ClearState PROVE Good
<1>1. /\ UNCHANGED execVars /\ step = "clear" /\ step' = "clear"
      /\ idx \in 1 .. Len(branch_states) /\ idx' \in Nat \ {0}
  <2>1. idx \in Nat \ {0} /\ Len(branch_states) \in Nat
    BY LenProperties, Zenon DEF ClearState, QInv, Positions, PoolType
  <2> QED BY <2>1 DEF ClearState
<1>2. \/ UNCHANGED queueVars
      \/ /\ branch_states' = erase(branch_states, idx)
         /\ states' = Append(states, branch_states[idx])
  BY DEF ClearState
<1>3. QueuesKept
  BY <1>1, <1>2, SameQueues, DemoteAtKeeps, ZenonT(40)
<1> QED BY <1>1, <1>3, KeptInv, ZenonT(40) DEF Running

(***************************************************************************)
(* The executor's side: selecting, forking, terminating and committing.    *)
(***************************************************************************)
LEMMA SelectStateInv == ASSUME QInv, SelectState PROVE Good
<1> USE DEF QInv, PoolType
<1>1. /\ UNCHANGED <<execStates, addedStates, removedStates, states, branch_states, idx, ret>>
      /\ step = "select" /\ idx = 1
  BY ZenonT(40) DEF SelectState, Positions, queueVars, loopVars
<1>2. pool' = pool /\ pool = execStates /\ addedStates = <<>> /\ removedStates = {}
  BY <1>1 DEF pool, PoolFollows, Idle
<1>3. CASE step' = "crashed" /\ current' = current
  <2>1. QInv'
    BY <1>1, <1>3, Zenon DEF Apart, AddedAreNew, PoolFollows, Positions, Running, Idle
  <2>2. PoolStep
    BY <1>1, <1>2, <1>3, ZenonT(40) DEF PoolStep, Pool!poolVars, pool
  <2> QED BY <2>1, <2>2, Zenon DEF Good
<1>4. CASE step' = "exec" /\ current' \in pool
  <2>1. QInv'
    BY <1>1, <1>2, <1>4, ZenonT(40) DEF Apart, AddedAreNew, PoolFollows, Positions, Running, Idle
  <2>2. Range(addedStates) = {}
    BY <1>2 DEF Range
  <2>3. Pool!Pick
    BY <1>1, <1>2, <1>4, <2>2, Zenon DEF Pool!Pick, pool
  <2> QED BY <2>1, <2>3, ZenonT(40) DEF Good, PoolStep, Pool!PoolNext
<1>5. \/ step' = "crashed" /\ current' = current
      \/ step' = "exec" /\ current' \in pool
  BY HeadInRange, Zenon DEF SelectState, pool
<1> QED BY <1>3, <1>4, <1>5, ZenonT(40)

\* The end of run: the searcher and all states are gone.
LEMMA HaltInv == ASSUME QInv, Halt PROVE Good
<1>1. /\ UNCHANGED <<addedStates, removedStates, current>>
      /\ execStates' = {} /\ states' = <<>> /\ branch_states' = <<>> /\ step' = "done"
  BY DEF Halt
<1>2. Range(<<>>) = {} /\ IsInjective(<<>>) /\ <<>> \in Seq(State)
  BY SMTT(30) DEF Range, IsInjective
<1>3. QInv'
  BY <1>1, <1>2 DEF QInv, PoolType, Apart, AddedAreNew, PoolFollows, Positions, Running, Idle
<1>4. Pool!Close
  BY <1>1, <1>2 DEF Pool!Close
<1> QED BY <1>3, <1>4, ZenonT(40) DEF Good, PoolStep, Pool!PoolNext

\* fork creates a state neither the executor nor the searcher knows.
LEMMA ForkInv == ASSUME QInv, Fork PROVE Good
<1> USE DEF QInv, PoolType
<1>1. /\ UNCHANGED <<execStates, removedStates, current, states, branch_states, step, idx, ret>>
      /\ step = "exec" /\ current \in execStates
  BY DEF Fork, Positions, queueVars, loopVars
<1>2. PICK c \in Fresh : addedStates' = Append(addedStates, c)
  BY DEF Fork
<1>3. c \in State /\ c \notin execStates \cup Range(addedStates)
  BY DEF Fresh
<1>4. /\ addedStates' \in Seq(State) /\ IsInjective(addedStates')
      /\ Range(addedStates') = Range(addedStates) \cup {c}
  BY <1>2, <1>3, AppendRange, SMTT(30) DEF AddedAreNew
<1>5. QInv'
  BY <1>1, <1>3, <1>4 DEF Apart, AddedAreNew, PoolFollows, Positions, Running, Idle, pool
<1>6. Pool!Create(c)
  BY <1>1, <1>3, <1>4, StateAssumption, ZenonT(40) DEF Pool!Create
<1> QED BY <1>3, <1>5, <1>6, Zenon DEF Good, PoolStep, Pool!PoolNext

\* terminateState on the selected state only marks it.
LEMMA TerminateCurrentInv == ASSUME QInv, TerminateCurrent PROVE Good
<1>1. /\ UNCHANGED <<execStates, addedStates, current, states, branch_states, step, idx, ret>>
      /\ step = "exec" /\ current \in execStates /\ removedStates' = removedStates \cup {current}
  BY Zenon DEF TerminateCurrent, QInv, Positions, queueVars, loopVars
<1>2. QInv'
  BY <1>1, Zenon DEF QInv, PoolType, Apart, AddedAreNew, PoolFollows, Positions, Running, Idle, pool
<1>3. Pool!Kill
  BY <1>1 DEF Pool!Kill
<1> QED BY <1>2, <1>3 DEF Good, PoolStep, Pool!PoolNext

\* terminateState on a state of this instruction forgets it again.
LEMMA TerminateAddedInv == ASSUME QInv, TerminateAdded PROVE Good
<1> USE DEF QInv, PoolType
<1>1. /\ UNCHANGED <<execStates, removedStates, current, states, branch_states, step, idx, ret>>
      /\ step = "exec" /\ current \in execStates
  BY DEF TerminateAdded, Positions, queueVars, loopVars
<1>2. PICK i \in DOMAIN addedStates : addedStates' = erase(addedStates, i)
  BY DEF TerminateAdded
<1>3. i \in 1 .. Len(addedStates)
  BY LenProperties
<1>4. /\ addedStates' \in Seq(State) /\ IsInjective(addedStates')
      /\ Range(addedStates') = Range(addedStates) \ {addedStates[i]}
      /\ addedStates[i] \in State /\ addedStates[i] \in Range(addedStates)
  BY <1>2, <1>3, EraseRange, ElementInRange, Zenon DEF AddedAreNew
<1>5. QInv'
  BY <1>1, <1>4, Zenon DEF Apart, AddedAreNew, PoolFollows, Positions, Running, Idle, pool
<1>6. addedStates[i] \notin pool
  BY <1>1, <1>4, Zenon DEF AddedAreNew, PoolFollows, Running
<1>7. Pool!Discard(addedStates[i])
  BY <1>1, <1>4, <1>6, ZenonT(40) DEF Pool!Discard, pool
<1> QED BY <1>4, <1>5, <1>7, Zenon DEF Good, PoolStep, Pool!PoolNext

\* updateStates makes the live states those the searcher already holds.
LEMMA UpdateStatesInv == ASSUME QInv, UpdateStates PROVE Good
<1>1. /\ UNCHANGED <<current, states, branch_states, idx, ret>>
      /\ step = "commit" /\ step' \in {"tick", "memory"} /\ idx = 1
      /\ execStates' = (execStates \cup Range(addedStates)) \ removedStates
      /\ addedStates' = <<>> /\ removedStates' = {}
  BY Zenon DEF UpdateStates, QInv, Positions, queueVars, loopVars
<1>2. pool' = pool /\ pool = (execStates \cup Range(addedStates)) \ removedStates
  BY <1>1 DEF pool, QInv, PoolFollows
<1>3. Range(<<>>) = {} /\ IsInjective(<<>>) /\ <<>> \in Seq(State)
  BY DEF Range, IsInjective
<1>4. Range(addedStates) \subseteq State
  BY RangeType, Zenon DEF QInv, PoolType
<1>5. QInv'
  BY <1>1, <1>2, <1>3, <1>4, Zenon
     DEF QInv, PoolType, Apart, AddedAreNew, PoolFollows, Positions, Running, Idle
<1>6. Pool!Commit
  BY <1>1, <1>2, <1>3, Zenon DEF Pool!Commit, pool
<1> QED BY <1>5, <1>6, Zenon DEF Good, PoolStep, Pool!PoolNext

\* checkMemoryUsage marks live states, with no state selected.
LEMMA CheckMemoryUsageInv == ASSUME QInv, CheckMemoryUsage PROVE Good
<1>1. /\ UNCHANGED <<execStates, addedStates, states, branch_states, idx, ret>>
      /\ step = "memory" /\ idx = 1 /\ current' = NULL
      /\ removedStates' \subseteq execStates
      /\ \/ step' = "tick" /\ removedStates' = {}
         \/ step' = "rotate"
  BY ZenonT(40) DEF CheckMemoryUsage, QInv, Positions, queueVars, loopVars
<1>2. QInv'
  BY <1>1, ZenonT(40) DEF QInv, PoolType, Apart, AddedAreNew, PoolFollows, Positions, Running, Idle, pool
<1>3. removedStates = {}
  BY <1>1, ZenonT(40) DEF QInv, PoolFollows, Idle
<1>4. Pool!Kill
  BY <1>1, <1>3 DEF Pool!Kill
<1> QED BY <1>2, <1>4 DEF Good, PoolStep, Pool!PoolNext

\* The end of the loop body touches neither the states nor the queues.
LEMMA TickInv == ASSUME QInv, Tick PROVE Good
<1>1. /\ UNCHANGED <<execStates, addedStates, removedStates, current, states, branch_states, idx, ret>>
      /\ step = "tick" /\ step' = "select"
  BY Zenon DEF Tick, execVars, queueVars, loopVars
<1>2. QInv'
  BY <1>1 DEF QInv, PoolType, Apart, AddedAreNew, PoolFollows, Positions, Running, Idle, pool
<1> QED BY <1>1, <1>2, Zenon DEF Good, PoolStep, Pool!poolVars

(***************************************************************************)
(* The end of update: new states are added, then removed ones leave.       *)
(***************************************************************************)
LEMMA AddStateInv == ASSUME QInv, AddState PROVE Good
<1> DEFINE s == addedStates[idx]
           Known(n) == {addedStates[i] : i \in 1 .. n}
<1>1. /\ UNCHANGED <<execStates, addedStates, removedStates, current, step, ret>>
      /\ step = "add" /\ idx <= Len(addedStates) /\ idx' = idx + 1
      /\ \/ branch_states' = Append(branch_states, s) /\ UNCHANGED states
         \/ states' = Append(states, s) /\ UNCHANGED branch_states
  BY Zenon DEF AddState, execVars
<1>2. /\ states \in Seq(State) /\ branch_states \in Seq(State) /\ addedStates \in Seq(State)
      /\ Len(addedStates) \in Nat /\ DOMAIN addedStates = 1 .. Len(addedStates)
      /\ IsInjective(states) /\ IsInjective(branch_states)
      /\ Range(states) \cap Range(branch_states) = {}
  BY LenProperties, Zenon DEF QInv, PoolType, Apart
<1>3. idx \in 1 .. Len(addedStates)
  BY <1>1, <1>2 DEF QInv, Positions
<1>4. s \in State /\ s \in Range(addedStates)
  BY <1>2, <1>3, ElementInRange, Zenon
<1>5. s \notin Known(idx - 1)
  <2>1. ASSUME NEW i \in 1 .. idx - 1 PROVE addedStates[i] # s
    <3>1. i \in DOMAIN addedStates /\ idx \in DOMAIN addedStates /\ i # idx
      BY <1>2, <1>3
    <3> QED BY <3>1, Zenon DEF QInv, AddedAreNew, IsInjective
  <2> QED BY <2>1, Zenon
<1>6. pool = execStates \cup Known(idx - 1)
  BY <1>1, Zenon DEF QInv, PoolFollows
<1>7. Known(idx) = Known(idx - 1) \cup {s}
  <2>1. \A i : i \in 1 .. idx <=> i \in 1 .. idx - 1 \/ i = idx
    BY <1>3, SMTT(30)
  <2> QED BY <2>1, Zenon
<1>8. s \notin Range(states) \cup Range(branch_states)
  BY <1>4, <1>5, <1>6 DEF QInv, AddedAreNew, pool
<1> HIDE DEF s, Known
<1>9. /\ states' \in Seq(State) /\ branch_states' \in Seq(State) /\ Apart'
      /\ pool' = pool \cup {s}
  <2>1. /\ Append(states, s) \in Seq(State) /\ IsInjective(Append(states, s))
        /\ Range(Append(states, s)) = Range(states) \cup {s}
    BY <1>2, <1>4, <1>8, AppendRange, SMTT(30)
  <2>2. /\ Append(branch_states, s) \in Seq(State) /\ IsInjective(Append(branch_states, s))
        /\ Range(Append(branch_states, s)) = Range(branch_states) \cup {s}
    BY <1>2, <1>4, <1>8, AppendRange
  <2> QED BY <1>1, <1>2, <1>8, <2>1, <2>2, Zenon DEF Apart, pool
<1>10. idx' - 1 = idx /\ idx' \in Nat \ {0} /\ idx' <= Len(addedStates) + 1
  BY <1>1, <1>2, <1>3
<1>11. pool' = execStates' \cup {addedStates'[i] : i \in 1 .. idx' - 1}
  <2>1. {addedStates'[i] : i \in 1 .. idx' - 1} = Known(idx)
    BY <1>1, <1>10, Zenon DEF Known
  <2>2. pool' = execStates' \cup Known(idx)
    BY <1>1, <1>6, <1>7, <1>9, ZenonT(40)
  <2> QED BY <2>1, <2>2, Zenon
<1>12. PoolType' /\ AddedAreNew' /\ PoolFollows' /\ Positions'
  <2>1. PoolType' /\ AddedAreNew'
    BY <1>1, <1>9, Zenon DEF QInv, PoolType, AddedAreNew
  <2>2. PoolFollows'
    BY <1>1, <1>11, Zenon DEF PoolFollows, Running, Idle
  <2>3. Positions'
    BY <1>1, <1>10, Zenon DEF Positions
  <2> QED BY <2>1, <2>2, <2>3, Zenon
<1>13. Pool!Update
  <2>1. {s} \in SUBSET Range(addedStates) /\ {} \in SUBSET removedStates
    BY <1>4, ZenonT(40)
  <2>2. pool' = (pool \cup {s}) \ {}
    BY <1>9 DEF pool
  <2> QED BY <1>1, <2>1, <2>2, Zenon DEF Pool!Update, pool
<1> QED BY <1>4, <1>9, <1>12, <1>13, ZenonT(40) DEF Good, QInv, PoolStep, Pool!PoolNext

\* After the loop over addedStates the searcher knows all of them.
LEMMA StatesAddedInv == ASSUME QInv, StatesAdded PROVE Good
<1>1. /\ UNCHANGED <<execStates, addedStates, removedStates, current, states, branch_states, ret>>
      /\ step = "add" /\ step' = "remove" /\ idx' = 1 /\ idx > Len(addedStates)
  BY Zenon DEF StatesAdded, execVars, queueVars
<1>2. /\ Len(addedStates) \in Nat /\ idx \in Nat /\ idx <= Len(addedStates) + 1
      /\ DOMAIN addedStates = 1 .. Len(addedStates)
  BY <1>1, LenProperties, ZenonT(40) DEF QInv, PoolType, Positions
<1>3. idx - 1 = Len(addedStates)
  BY <1>1, <1>2
<1>4. pool = execStates \cup Range(addedStates)
  BY <1>1, <1>2, <1>3, ZenonT(40) DEF QInv, PoolFollows, Range
<1>5. QInv'
  BY <1>1, <1>4, ZenonT(40) DEF QInv, PoolType, Apart, AddedAreNew, PoolFollows, Positions, Running, Idle, pool
<1> QED BY <1>1, <1>5, Zenon DEF Good, PoolStep, Pool!poolVars

\* A removed state leaves the queue it is in.
LEMMA RemoveStateInv == ASSUME QInv, RemoveState PROVE Good
<1>1. /\ UNCHANGED <<execStates, addedStates, removedStates, current, step, idx, ret>>
      /\ step = "remove"
  BY Zenon DEF RemoveState, execVars, loopVars
<1>2. PICK s \in removedStates :
        \/ s \in Range(branch_states) /\ branch_states' = Without(branch_states, s) /\ UNCHANGED states
        \/ s \in Range(states) /\ states' = Without(states, s) /\ UNCHANGED branch_states
  BY Zenon DEF RemoveState
<1>3. /\ states \in Seq(State) /\ branch_states \in Seq(State)
      /\ IsInjective(states) /\ IsInjective(branch_states)
      /\ Range(states) \cap Range(branch_states) = {}
  BY DEF QInv, PoolType, Apart
<1>4. /\ Without(states, s) \in Seq(State) /\ IsInjective(Without(states, s))
      /\ Range(Without(states, s)) = Range(states) \ {s}
      /\ Without(branch_states, s) \in Seq(State) /\ IsInjective(Without(branch_states, s))
      /\ Range(Without(branch_states, s)) = Range(branch_states) \ {s}
  BY <1>3, WithoutType, WithoutRange, Zenon
<1>5. /\ states' \in Seq(State) /\ branch_states' \in Seq(State) /\ Apart'
      /\ pool' = pool \ {s} /\ s \in pool
  BY <1>2, <1>3, <1>4, Zenon DEF Apart, pool
<1>6. s \in State
  BY <1>3, <1>5, RangeType, Zenon DEF pool
<1>7. QInv'
  BY <1>1, <1>5, Zenon DEF QInv, PoolType, AddedAreNew, PoolFollows, Positions, Running, Idle
<1>8. Pool!Update
  <2>1. {} \in SUBSET Range(addedStates) /\ {s} \in SUBSET removedStates
    BY <1>1, Zenon
  <2>2. pool' = (pool \cup {}) \ {s}
    BY <1>5, Zenon DEF pool
  <2> QED BY <1>1, <2>1, <2>2, Zenon DEF Pool!Update, pool
<1> QED BY <1>6, <1>7, <1>8, Zenon DEF Good, PoolStep, Pool!PoolNext

\* After the loop over removedStates the searcher knows none of them.
LEMMA StatesRemovedInv == ASSUME QInv, StatesRemoved PROVE Good
<1>1. /\ UNCHANGED <<execStates, addedStates, removedStates, current, states, branch_states, idx, ret>>
      /\ step = "remove" /\ step' = "commit" /\ removedStates \cap pool = {}
  BY DEF StatesRemoved, execVars, queueVars, loopVars, pool
<1>2. pool = (execStates \cup Range(addedStates)) \ removedStates
  BY <1>1, ZenonT(40) DEF QInv, PoolFollows
<1>3. QInv'
  BY <1>1, <1>2 DEF QInv, PoolType, Apart, AddedAreNew, PoolFollows, Positions, Running, Idle, pool
<1> QED BY <1>1, <1>3, ZenonT(40) DEF Good, PoolStep, Pool!poolVars
-----------------------------------------------------------------------------
(***************************************************************************)
(* The invariant holds initially, where StatePool may start, and every     *)
(* step keeps it and is a step of StatePool.                               *)
(***************************************************************************)
LEMMA InitQInv == Init => QInv /\ Pool!PoolInit
<1> SUFFICES ASSUME Init PROVE QInv /\ Pool!PoolInit
  BY Zenon
<1>1. PICK s \in State : execStates = {s} /\ states = <<s>>
  BY Zenon DEF Init
<1>2. branch_states = <<>> /\ addedStates = <<>> /\ removedStates = {} /\ step = "select" /\ idx = 1
  BY DEF Init
<1>3. Range(<<>>) = {} /\ IsInjective(<<>>) /\ <<>> \in Seq(State)
  BY DEF Range, IsInjective
<1>4. <<s>> \in Seq(State) /\ IsInjective(<<s>>) /\ Range(<<s>>) = {s}
  BY DEF Range, IsInjective
<1>5. QInv
  BY <1>1, <1>2, <1>3, <1>4, Zenon
     DEF QInv, PoolType, Apart, AddedAreNew, PoolFollows, Positions, Running, Idle, pool
<1>6. Pool!PoolInit
  BY <1>1, <1>2, <1>3, <1>4, Zenon DEF Pool!PoolInit, Init
<1> QED BY <1>5, <1>6

\* Every step keeps the invariant and is a step of the abstract searcher, or none.
LEMMA NextQInv == QInv /\ [Next]_vars => Good
<1> SUFFICES ASSUME QInv, [Next]_vars PROVE Good
  OBVIOUS
<1>1. CASE ExecutorNext
  BY <1>1, SelectStateInv, HaltInv, ForkInv, TerminateCurrentInv, TerminateAddedInv,
     InstructionsInv, UpdateStatesInv, CheckMemoryUsageInv, TickInv, Zenon DEF ExecutorNext
<1>2. CASE UpdateNext
  BY <1>2, RotateInv, ReachBranchInv, HandleFullyCoveredInv, FullyCoveredHandledInv, SectionsInv,
     ExamineStoreValueInv, ClaimedInv, FindStateInv, ClearStateInv, AddStateInv, StatesAddedInv,
     RemoveStateInv, StatesRemovedInv, Zenon DEF UpdateNext
<1>3. CASE UNCHANGED vars
  <2>1. UNCHANGED <<execStates, addedStates, removedStates, current, states, branch_states,
                    step, idx, ret>>
    BY <1>3, ZenonT(40) DEF vars, execVars, queueVars, loopVars
  <2>2. QInv'
    BY <2>1 DEF QInv, PoolType, Apart, AddedAreNew, PoolFollows, Positions, Running, Idle, pool
  <2> QED BY <2>1, <2>2, Zenon DEF Good, PoolStep, Pool!poolVars
<1> QED BY <1>1, <1>2, <1>3, ZenonT(40) DEF Next, Ended

(***************************************************************************)
(* QueuesPartitionStates for every number of states, branches, stores and  *)
(* values, and for every bound: the moves, rotations, additions and        *)
(* removals of CGSSearcher::update keep every live state in exactly one    *)
(* queue, once.                                                            *)
(***************************************************************************)
THEOREM QueuesCorrect == Spec => []QueuesPartitionStates
<1>1. QInv => QueuesPartitionStates
  BY DEF QInv, Apart, PoolFollows, QueuesPartitionStates, ExecutorRuns, Running, Idle, pool
<1>2. QInv /\ [Next]_vars => QInv'
  BY NextQInv DEF Good
<1> QED BY <1>1, <1>2, InitQInv, PTL DEF Spec

(***************************************************************************)
(* CGSSearcher implements StatePool (Searcher.h 33-58): with the queues    *)
(* taken together as the pool, every step of the executor and of update is *)
(* one that the contract of a searcher allows, or none.                    *)
(***************************************************************************)
THEOREM ImplementsStatePool == Spec => IsStatePool
<1>1. QInv /\ [Next]_vars => QInv'
  BY NextQInv DEF Good
<1>2. QInv /\ [Next]_vars => [Pool!PoolNext]_(Pool!poolVars)
  BY NextQInv, Zenon DEF Good, PoolStep
<1> QED BY <1>1, <1>2, InitQInv, PTL DEF Spec, IsStatePool, Pool!PoolSpec
-----------------------------------------------------------------------------
(* The type invariant of CGS: the facts all its steps share, the steps of  *)
(* the executor, one lemma per section of CGSSearcher::update and, with    *)
(* the queue invariant, which says that the elements of the queues are     *)
(* states, the theorem.                                                    *)

\* Besides the types, the variables each step dereferences are set.
Relied ==
  /\ step \in {"exec", "storeLoop", "reach", "fully", "store", "examine", "partly", "claim",
               "pick", "find"} => current \in State
  /\ step \in {"storeLoop", "find"} => sid \in Store
  /\ step = "storeLoop" => idx \in 1 .. Len(TB)
  /\ step \in {"fully", "claim", "pick", "find"} => target \in Branch
  /\ newFullyCoveredBranch => FCB # <<>>
TInv == TypeOK /\ Relied

\* What the invariant of the queues says of their types, see CGSQueueProofs.
ListsTyped ==
  /\ states \in Seq(State) /\ branch_states \in Seq(State) /\ addedStates \in Seq(State)
  /\ execStates \subseteq State
-----------------------------------------------------------------------------
(***************************************************************************)
(* Groups of variables a step leaves alone keep their types; the queues    *)
(* and the executor's lists are those of the queue invariant.              *)
(***************************************************************************)
LEMMA SameTypes ==
  ASSUME TypeOK
  PROVE  /\ UNCHANGED coverVars => CoverType'
         /\ UNCHANGED targetVars => TargetType'
         /\ UNCHANGED messageVars => MessageType'
         /\ UNCHANGED cacheVars => CacheType'
         /\ UNCHANGED depVars => DepType'
         /\ UNCHANGED stateVars => StateType'
         /\ UNCHANGED execVars => ExecType'
<1>1. UNCHANGED coverVars => CoverType'
  BY DEF TypeOK, coverVars, CoverType
<1>2. UNCHANGED targetVars => TargetType'
  BY DEF TypeOK, targetVars, TargetType
<1>3. UNCHANGED messageVars => MessageType'
  BY DEF TypeOK, messageVars, MessageType
<1>4. UNCHANGED cacheVars => CacheType'
  BY DEF TypeOK, cacheVars, CacheType
<1>5. UNCHANGED depVars => DepType'
  BY DEF TypeOK, depVars, DepType
<1>6. UNCHANGED stateVars => StateType'
  BY DEF TypeOK, stateVars, StateType
<1>7. UNCHANGED execVars => ExecType'
  BY DEF TypeOK, execVars, ExecType
<1> QED BY <1>1, <1>2, <1>3, <1>4, <1>5, <1>6, <1>7, ZenonT(40)

\* The queue invariant gives the types of the queues and of the lists of states.
LEMMA QueueTypes ==
  ASSUME ListsTyped'
  PROVE  /\ QueueType'
         /\ removedStates' \subseteq State /\ current' \in State \cup {NULL} => ExecType'
BY DEF ListsTyped, QueueType, ExecType

\* A state's branchInfos are a vector.
LEMMA BranchInfoSeq ==
  ASSUME TypeOK, NEW s \in State
  PROVE  branchInfos[s] \in Seq(BranchInfo) /\ Len(branchInfos[s]) \in Nat
<1>1. branchInfos[s] \in Seq(BranchInfo)
  BY DEF TypeOK, StateType
<1> QED BY <1>1, LenProperties, ZenonT(40)

\* A br has one other outcome: what the handler records as its uncovered predicate.
LEMMA OtherOutcome ==
  ASSUME NEW b \in Branch \ SwitchBranch, NEW o \in Outcome[b],
         NEW other, other = CHOOSE x \in Outcome[b] : x # o
  PROVE  other \in Outcome[b] /\ other # o /\ Outcome[b] = {o, other}
<1>1. PICK x \in Outcome[b], y \in Outcome[b] : x # y /\ Outcome[b] = {x, y}
  BY BranchAssumption, Zenon
<1>2. \E z \in Outcome[b] : z # o
  BY <1>1, Zenon
<1>3. other \in Outcome[b] /\ other # o
  BY <1>2, Zenon
<1> QED BY <1>1, <1>3, Zenon

\* The state setModule and the initial state leave behind.
LEMMA InitTypes == Init => TInv
<1> SUFFICES ASSUME Init PROVE TInv
  OBVIOUS
<1> USE DEF Init
<1>1. ExecType /\ TargetType /\ QueueType
  <2>1. PICK s \in State : execStates = {s} /\ states = <<s>>
    OBVIOUS
  <2>2. states \in Seq(State)
    BY <2>1, SMTT(30)
  <2> QED BY <2>1, <2>2, EmptySeq, ZenonT(40) DEF ExecType, TargetType, QueueType
<1>2. CoverType
  BY BoundAssumption DEF CoverType
<1>3. MessageType /\ CacheType
  BY Zenon DEF MessageType, CacheType
<1>4. DepType
  BY StoreAssumption, BranchAssumption, SMTT(30) DEF DepType, InitStoreToBranches, InitFuncStores
<1>5. StateType
  BY EmptySeq, Zenon DEF StateType, NoStores
<1>6. ControlType /\ Relied
  BY DEF ControlType, Relied, Steps
<1> QED BY <1>1, <1>2, <1>3, <1>4, <1>5, <1>6, ZenonT(40) DEF TInv, TypeOK

\* Deleting states leaves the fields of the others as they are.
LEMMA DeletedTypes ==
  ASSUME TypeOK, NEW gone, Deleted(gone)
  PROVE  StateType'
<1>1. branchInfos' \in [State -> Seq(BranchInfo)]
  BY EmptySeq, Zenon DEF TypeOK, StateType, Deleted
<1>2. storeValues' \in [State -> [Store -> Value \cup {NoValue}]]
  BY Zenon DEF TypeOK, StateType, Deleted, NoStores
<1>3. /\ reachStore' \in [State -> BOOLEAN] /\ reachBranch' \in [State -> BOOLEAN]
      /\ coveredNew' \in [State -> BOOLEAN]
  BY DEF TypeOK, StateType, Deleted
<1> QED BY <1>1, <1>2, <1>3, Zenon DEF StateType

\* selectState, and the end of the loop.
LEMMA SelectTypes == ASSUME TInv, ListsTyped', SelectState \/ Halt PROVE TInv'
<1> USE DEF TInv
<1>1. CASE SelectState
  <2>1. /\ UNCHANGED <<coverVars, targetVars, messageVars, cacheVars, depVars, loopVars>>
        /\ UNCHANGED <<removedStates, branchInfos, storeValues, reachStore, reachBranch, prevBranch>>
    BY <1>1, Zenon DEF SelectState
  <2>2. \/ step' = "crashed" /\ UNCHANGED <<current, coveredNew>>
        \/ \E e \in State : /\ current' = e /\ step' = "exec"
              /\ \E new \in CoversNewCode :
                    coveredNew' = [coveredNew EXCEPT ![e] = coveredNew[e] \/ new]
    <3>1. /\ branch_states # <<>> => Head(branch_states) \in State
          /\ states # <<>> => Head(states) \in State
      BY HeadInRange, Zenon DEF TypeOK, QueueType
    <3> QED BY <1>1, <3>1, ZenonT(40) DEF SelectState
  <2>3. CoverType' /\ TargetType' /\ MessageType' /\ CacheType' /\ DepType'
    BY <2>1, SameTypes, Zenon
  <2>4. ExecType' /\ QueueType'
    BY <2>1, <2>2, QueueTypes DEF TypeOK, ExecType
  <2>5. coveredNew' \in [State -> BOOLEAN]
    BY <2>2, Zenon DEF TypeOK, StateType, CoversNewCode
  <2>6. StateType'
    BY <2>1, <2>5, Zenon DEF TypeOK, StateType
  <2>7. ControlType' /\ Relied'
    BY <2>1, <2>2, ZenonT(40) DEF TypeOK, ControlType, Relied, Steps, targetVars, messageVars, loopVars
  <2> QED BY <2>3, <2>4, <2>6, <2>7, ZenonT(40) DEF TypeOK
<1>2. CASE Halt
  <2>1. /\ UNCHANGED <<coverVars, targetVars, messageVars, cacheVars, depVars, loopVars>>
        /\ UNCHANGED <<removedStates, current, prevBranch>>
        /\ step' = "done" /\ Deleted(execStates)
    BY <1>2, Zenon DEF Halt
  <2>2. CoverType' /\ TargetType' /\ MessageType' /\ CacheType' /\ DepType' /\ StateType'
    BY <2>1, SameTypes, DeletedTypes, Zenon
  <2>3. ExecType' /\ QueueType'
    BY <2>1, QueueTypes, Zenon DEF TypeOK, ExecType
  <2>4. ControlType' /\ Relied'
    BY <2>1, Zenon DEF TypeOK, ControlType, Relied, Steps, targetVars, messageVars, loopVars
  <2> QED BY <2>2, <2>3, <2>4, Zenon DEF TypeOK
<1> QED BY <1>1, <1>2, ZenonT(40)

\* fork and terminateState.
LEMMA ForkTypes ==
  ASSUME TInv, ListsTyped', Fork \/ TerminateCurrent \/ TerminateAdded
  PROVE  TInv'
<1> USE DEF TInv
<1>1. /\ UNCHANGED <<coverVars, targetVars, messageVars, cacheVars, depVars, loopVars>>
      /\ UNCHANGED <<current, step, prevBranch>> /\ step = "exec"
  BY Zenon DEF Fork, TerminateCurrent, TerminateAdded
<1>2. current \in State
  BY <1>1, Zenon DEF Relied
<1>3. CoverType' /\ TargetType' /\ MessageType' /\ CacheType' /\ DepType' /\ QueueType'
  BY <1>1, SameTypes, QueueTypes, Zenon
<1>4. ExecType'
  <2>1. removedStates' \subseteq State
    BY <1>2 DEF Fork, TerminateCurrent, TerminateAdded, TypeOK, ExecType
  <2> QED BY <1>1, <1>2, <2>1, QueueTypes, ZenonT(40)
<1>5. StateType'
  <2>1. CASE Fork
    <3>1. PICK c \in Fresh :
            /\ branchInfos' = [branchInfos EXCEPT ![c] = branchInfos[current]]
            /\ storeValues' = [storeValues EXCEPT ![c] = storeValues[current]]
            /\ reachStore' = [reachStore EXCEPT ![c] = reachStore[current]]
            /\ reachBranch' = [reachBranch EXCEPT ![c] = reachBranch[current]]
            /\ coveredNew' = [coveredNew EXCEPT ![c] = FALSE]
      BY <2>1, Zenon DEF Fork
    <3>2. /\ branchInfos' \in [State -> Seq(BranchInfo)]
          /\ storeValues' \in [State -> [Store -> Value \cup {NoValue}]]
      BY <1>2, <3>1, Zenon DEF TypeOK, StateType
    <3>3. /\ reachStore' \in [State -> BOOLEAN] /\ reachBranch' \in [State -> BOOLEAN]
          /\ coveredNew' \in [State -> BOOLEAN]
      BY <1>2, <3>1, Zenon DEF TypeOK, StateType
    <3> QED BY <3>2, <3>3 DEF StateType
  <2>2. CASE TerminateCurrent
    BY <2>2, SameTypes, Zenon DEF TerminateCurrent
  <2>3. CASE TerminateAdded
    <3>1. PICK i \in DOMAIN addedStates : Deleted({addedStates[i]})
      BY <2>3, Zenon DEF TerminateAdded
    <3> QED BY <3>1, DeletedTypes, ZenonT(40)
  <2> QED BY <2>1, <2>2, <2>3, ZenonT(40)
<1>6. ControlType' /\ Relied'
  BY <1>1, Zenon DEF TypeOK, ControlType, Relied, targetVars, messageVars, loopVars
<1> QED BY <1>3, <1>4, <1>5, <1>6, ZenonT(40) DEF TypeOK

\* updateStates, checkMemoryUsage and the end of the loop body.
LEMMA LoopEndTypes ==
  ASSUME TInv, ListsTyped', UpdateStates \/ CheckMemoryUsage \/ Tick
  PROVE  TInv'
<1> USE DEF TInv
<1>1. /\ UNCHANGED <<coverVars, targetVars, cacheVars, depVars, loopVars>>
      /\ UNCHANGED <<newFullyCoveredBranch, newPartlyCoveredBranch, newBranchNumFromStore>>
      /\ updateTargetBranch' = TRUE \/ UNCHANGED updateTargetBranch
      /\ current' = NULL \/ UNCHANGED current
      /\ prevBranch' = NULL \/ UNCHANGED prevBranch
      /\ step' \in {"tick", "memory", "rotate", "select"}
  <2>1. CASE UpdateStates
    BY <2>1, Zenon DEF UpdateStates, messageVars
  <2>2. CASE CheckMemoryUsage
    BY <2>2, Zenon DEF CheckMemoryUsage, messageVars
  <2>3. CASE Tick
    BY <2>3, ZenonT(40) DEF Tick, execVars
  <2> QED BY <2>1, <2>2, <2>3, ZenonT(40)
<1>2. CoverType' /\ TargetType' /\ CacheType' /\ DepType' /\ QueueType'
  BY <1>1, SameTypes, QueueTypes
<1>3. MessageType'
  BY <1>1, Zenon DEF TypeOK, MessageType
<1>4. ExecType'
  <2>1. removedStates' \subseteq State
    BY Zenon DEF UpdateStates, CheckMemoryUsage, Tick, execVars, TypeOK, ExecType
  <2>2. current' \in State \cup {NULL}
    BY <1>1, Zenon DEF TypeOK, ExecType
  <2> QED BY <2>1, <2>2, QueueTypes, ZenonT(40)
<1>5. StateType'
  <2>1. UNCHANGED stateVars \/ Deleted(removedStates)
    BY ZenonT(40) DEF UpdateStates, CheckMemoryUsage, Tick
  <2> QED BY <2>1, SameTypes, DeletedTypes, ZenonT(40)
<1>6. ControlType' /\ Relied'
  BY <1>1, ZenonT(40) DEF TypeOK, ControlType, Relied, Steps, targetVars, loopVars
<1> QED BY <1>2, <1>3, <1>4, <1>5, <1>6, ZenonT(40) DEF TypeOK
-----------------------------------------------------------------------------
\* The value of a store is recorded, in place of one of the same variable.
LEMMA StoreInstTypes ==
  ASSUME TInv, ListsTyped', NEW s \in Store, NEW v \in Value, StoreInst(s, v)
  PROVE  TInv'
<1> USE DEF TInv
<1>1. /\ UNCHANGED <<execVars, coverVars, targetVars, messageVars, cacheVars, depVars>>
      /\ UNCHANGED <<reachStore, reachBranch, coveredNew, prevBranch, target, sids, ret>>
      /\ step = "exec"
      /\ \/ TB = <<>> /\ step' = "rotate" /\ UNCHANGED <<sid, idx>>
         \/ TB # <<>> /\ step' = "storeLoop" /\ sid' = s /\ idx' = 1
  BY ZenonT(40) DEF StoreInst
<1>2. current \in State
  BY <1>1, ZenonT(40) DEF Relied
<1>3. ExecType' /\ CoverType' /\ TargetType' /\ MessageType' /\ CacheType' /\ DepType' /\ QueueType'
  BY <1>1, SameTypes, QueueTypes, ZenonT(40)
<1> DEFINE mine == storeValues[current]
<1>4. mine \in [Store -> Value \cup {NoValue}]
  BY <1>2 DEF TypeOK, StateType
<1>5. \/ /\ storeValues' = [storeValues EXCEPT ![current] = [mine EXCEPT ![s] = v]]
         /\ UNCHANGED branchInfos
      \/ \E t : /\ storeValues' = [storeValues EXCEPT ![current] = Replaced(mine, t, s, v)]
                /\ branchInfos' = [branchInfos EXCEPT ![current] =
                     EraseFirst(branchInfos[current],
                       {i \in DOMAIN branchInfos[current] : branchInfos[current][i].sid = t})]
  BY Zenon DEF StoreInst
<1>6. ASSUME NEW t PROVE Replaced(mine, t, s, v) \in [Store -> Value \cup {NoValue}]
  <2> HIDE DEF mine
  <2> QED BY <1>4, Zenon DEF Replaced
<1>7. ASSUME NEW t
      PROVE EraseFirst(branchInfos[current],
              {i \in DOMAIN branchInfos[current] : branchInfos[current][i].sid = t}) \in Seq(BranchInfo)
  BY <1>2, BranchInfoSeq, EraseFirstType, ZenonT(40)
<1>8. /\ storeValues' \in [State -> [Store -> Value \cup {NoValue}]]
      /\ branchInfos' \in [State -> Seq(BranchInfo)]
  <2>1. [mine EXCEPT ![s] = v] \in [Store -> Value \cup {NoValue}]
    <3> HIDE DEF mine
    <3> QED BY <1>4
  <2> HIDE DEF mine
  <2>2. CASE /\ storeValues' = [storeValues EXCEPT ![current] = [mine EXCEPT ![s] = v]]
             /\ UNCHANGED branchInfos
    BY <2>1, <2>2, Zenon DEF TypeOK, StateType
  <2>3. ASSUME NEW t,
               storeValues' = [storeValues EXCEPT ![current] = Replaced(mine, t, s, v)],
               branchInfos' = [branchInfos EXCEPT ![current] =
                 EraseFirst(branchInfos[current],
                   {i \in DOMAIN branchInfos[current] : branchInfos[current][i].sid = t})]
        PROVE  /\ storeValues' \in [State -> [Store -> Value \cup {NoValue}]]
               /\ branchInfos' \in [State -> Seq(BranchInfo)]
    BY <1>6, <1>7, <2>3, Zenon DEF TypeOK, StateType
  <2> QED BY <1>5, <2>2, <2>3, Zenon
<1>9. StateType'
  BY <1>1, <1>8, ZenonT(40) DEF TypeOK, StateType
<1>10. ControlType' /\ Relied'
  <2>1. TB # <<>> => 1 \in 1 .. Len(TB)
    BY EmptySeq, LenProperties DEF TypeOK, TargetType
  <2> QED BY <1>1, <1>2, <2>1, SMTT(30)
      DEF TypeOK, ControlType, Relied, Steps, execVars, targetVars, messageVars
<1> QED BY <1>3, <1>9, <1>10, Zenon DEF TypeOK

\* One iteration of the loop over the targets in the store handler.
LEMMA StoreLoopTypes == ASSUME TInv, ListsTyped', StoreLoop PROVE TInv'
<1> USE DEF TInv
<1> DEFINE b == TB[idx]
<1>1. /\ UNCHANGED <<execVars, coverVars, targetVars, depVars>>
      /\ UNCHANGED <<newFullyCoveredBranch, newPartlyCoveredBranch, updateTargetBranch>>
      /\ UNCHANGED <<invalidStoreValues, validStoreValues, storeValues, coveredNew>>
      /\ UNCHANGED <<prevBranch, target, sids, ret>> /\ invalidKeys' = invalidKeys \cup {b}
      /\ step = "storeLoop"
      /\ \/ idx < Len(TB) /\ idx' = idx + 1 /\ UNCHANGED <<step, sid>>
         \/ idx' = 1 /\ step' = "rotate" /\ sid' = NULL
  BY ZenonT(40) DEF StoreLoop
<1>2. \/ /\ reachStore' = [reachStore EXCEPT ![current] = TRUE]
         /\ reachBranch' = [reachBranch EXCEPT ![current] = FALSE]
         /\ branchInfos' = [branchInfos EXCEPT
                              ![current] = Append(branchInfos[current], [sid |-> sid, bid |-> b])]
         /\ newBranchNumFromStore' = newBranchNumFromStore + 1
      \/ UNCHANGED <<reachStore, reachBranch, branchInfos, newBranchNumFromStore>>
  BY Zenon DEF StoreLoop
<1>3. current \in State /\ sid \in Store /\ idx \in 1 .. Len(TB)
  BY <1>1, ZenonT(40) DEF Relied
<1>4. b \in Branch
  BY <1>3, ElementInRange, ZenonT(40) DEF TypeOK, TargetType
<1>5. ExecType' /\ CoverType' /\ TargetType' /\ DepType' /\ QueueType'
  BY <1>1, SameTypes, QueueTypes, ZenonT(40)
<1> HIDE DEF b
<1>6. CacheType'
  BY <1>1, <1>4, ZenonT(40) DEF TypeOK, CacheType
<1>7. MessageType'
  <2>1. newBranchNumFromStore' \in Nat
    BY <1>2 DEF TypeOK, MessageType
  <2> QED BY <1>1, <2>1, ZenonT(40) DEF TypeOK, MessageType
<1>8. StateType'
  <2>1. Append(branchInfos[current], [sid |-> sid, bid |-> b]) \in Seq(BranchInfo)
    <3>1. [sid |-> sid, bid |-> b] \in BranchInfo
      BY <1>3, <1>4, ZenonT(40) DEF BranchInfo
    <3> QED BY <1>3, <3>1, BranchInfoSeq, AppendProperties, Zenon
  <2> QED BY <1>1, <1>2, <2>1, Zenon DEF TypeOK, StateType
<1>9. ControlType' /\ Relied'
  <2>1. idx < Len(TB) => idx + 1 \in 1 .. Len(TB)
    BY <1>3, LenProperties, SMTT(30) DEF TypeOK, TargetType
  <2> QED BY <1>1, <1>3, <2>1, SMTT(30) DEF TypeOK, ControlType, Relied, Steps, execVars, targetVars
<1> QED BY <1>5, <1>6, <1>7, <1>8, <1>9, ZenonT(40) DEF TypeOK

(***************************************************************************)
(* The part the br and switch handlers share: the branch goes from list to *)
(* list, and a new fully covered branch is announced together with an      *)
(* entry in FCB.                                                           *)
(***************************************************************************)
LEMMA ListTypes ==
  ASSUME TypeOK, NEW b \in Branch,
         newFullyCoveredBranch => FCB # <<>>,
         \/ NewTarget(b) \/ NewlyCovered(b)
         \/ UNCHANGED <<targetVars, newFullyCoveredBranch, newPartlyCoveredBranch>>
  PROVE  /\ TargetType'
         /\ newFullyCoveredBranch' \in BOOLEAN /\ newPartlyCoveredBranch' \in BOOLEAN
         /\ newFullyCoveredBranch' => FCB' # <<>>
<1>1. TB \in Seq(Branch) /\ PCB \in Seq(Branch) /\ FCB \in Seq(Branch)
  BY DEF TypeOK, TargetType
<1>2. /\ newFullyCoveredBranch \in BOOLEAN /\ newPartlyCoveredBranch \in BOOLEAN
  BY DEF TypeOK, MessageType
<1>3. CASE NewTarget(b)
  <2>1. Append(TB, b) \in Seq(Branch) /\ Append(PCB, b) \in Seq(Branch)
    BY <1>1, AppendProperties, ZenonT(40)
  <2> QED BY <1>1, <1>2, <1>3, <2>1, Zenon DEF NewTarget, TargetType
<1>4. CASE NewlyCovered(b)
  <2>1. /\ Append(FCB, b) \in Seq(Branch) /\ Append(FCB, b) # <<>>
        /\ Without(TB, b) \in Seq(Branch) /\ Without(PCB, b) \in Seq(Branch)
    BY <1>1, AppendProperties, WithoutType, SMTT(30)
  <2>2. PCB # <<>> => /\ pop_back(PCB) \in Seq(Branch)
                      /\ Append(Without(TB, b), back(PCB)) \in Seq(Branch)
    BY <1>1, <2>1, BackInRange, AppendProperties, Zenon
  <2>3. /\ FCB' = Append(FCB, b) /\ newFullyCoveredBranch' = TRUE
        /\ \/ /\ PCB # <<>> /\ newPartlyCoveredBranch' = TRUE
              /\ TB' = Append(Without(TB, b), back(PCB)) /\ PCB' = pop_back(PCB)
           \/ /\ UNCHANGED newPartlyCoveredBranch
              /\ TB' = Without(TB, b) /\ PCB' \in {PCB, Without(PCB, b)}
    BY <1>4 DEF NewlyCovered
  <2>4. TB' \in Seq(Branch) /\ PCB' \in Seq(Branch) /\ FCB' \in Seq(Branch)
    BY <1>1, <2>1, <2>2, <2>3, Zenon
  <2>5. newFullyCoveredBranch' \in BOOLEAN /\ newPartlyCoveredBranch' \in BOOLEAN
    BY <1>2, <2>3, Zenon
  <2> QED BY <2>1, <2>3, <2>4, <2>5, ZenonT(40) DEF TargetType
<1>5. CASE UNCHANGED <<targetVars, newFullyCoveredBranch, newPartlyCoveredBranch>>
  BY <1>1, <1>2, <1>5, ZenonT(40) DEF TargetType, targetVars
<1> QED BY <1>3, <1>4, <1>5, Zenon

\* The hit counter, the recorded outcome and the messages after a followed branch.
LEMMA FollowTypes ==
  ASSUME TInv, NEW b \in Branch, NEW o, NEW c \in BOOLEAN, current \in State,
         b \notin SwitchBranch => o \in Outcome[b],
         FollowBranch(b, o, c)
  PROVE  /\ reachBranch' \in [State -> BOOLEAN]
         /\ reachBranchCount' \in [Branch -> 0 .. MaxReach + 1]
         /\ invalidBranches' \subseteq Branch
         /\ unCoveredPred' \in [Branch -> AnyOutcome \cup {Default}]
         /\ TargetType' /\ newFullyCoveredBranch' \in BOOLEAN /\ newPartlyCoveredBranch' \in BOOLEAN
         /\ newFullyCoveredBranch' => FCB' # <<>>
         /\ prevBranch' = b
<1> USE DEF TInv
<1> DEFINE other == CHOOSE x \in Outcome[b] : x # o
<1>1. /\ prevBranch' = b
      /\ \E r : reachBranch' = [reachBranch EXCEPT ![current] = reachBranch[current] \/ r]
      /\ \E h \in {reachBranchCount[b], reachBranchCount[b] + 1, reachBranchCount[b] + 1 + 1} :
           reachBranchCount' = [reachBranchCount EXCEPT ![b] = Capped(h)]
      /\ invalidBranches' \subseteq invalidBranches \cup {b}
      /\ \/ UNCHANGED unCoveredPred
         \/ b \notin SwitchBranch /\ unCoveredPred' = [unCoveredPred EXCEPT ![b] = other]
      /\ \/ NewTarget(b) \/ NewlyCovered(b)
         \/ UNCHANGED <<targetVars, newFullyCoveredBranch, newPartlyCoveredBranch>>
  <2>1. prevBranch' = b
    BY Zenon DEF FollowBranch
  <2>2. \E r : reachBranch' = [reachBranch EXCEPT ![current] = reachBranch[current] \/ r]
    BY Zenon DEF FollowBranch
  <2>3. \E h \in {reachBranchCount[b], reachBranchCount[b] + 1, reachBranchCount[b] + 1 + 1} :
           reachBranchCount' = [reachBranchCount EXCEPT ![b] = Capped(h)]
    BY Zenon DEF FollowBranch
  <2>4. invalidBranches' \subseteq invalidBranches \cup {b}
    BY Zenon DEF FollowBranch
  <2>5. \/ UNCHANGED unCoveredPred
        \/ b \notin SwitchBranch /\ unCoveredPred' = [unCoveredPred EXCEPT ![b] = other]
    BY Zenon DEF FollowBranch
  <2>6. \/ NewTarget(b) \/ NewlyCovered(b)
        \/ UNCHANGED <<targetVars, newFullyCoveredBranch, newPartlyCoveredBranch>>
    BY ZenonT(40) DEF FollowBranch
  <2> QED BY <2>1, <2>2, <2>3, <2>4, <2>5, <2>6, ZenonT(40)
<1>2. reachBranch' \in [State -> BOOLEAN]
  BY <1>1, ZenonT(40) DEF TypeOK, StateType
<1>3. reachBranchCount' \in [Branch -> 0 .. MaxReach + 1]
  <2>1. reachBranchCount[b] \in 0 .. MaxReach + 1
    BY Zenon DEF TypeOK, CoverType
  <2>2. \A h \in Nat : Capped(h) \in 0 .. MaxReach + 1
    BY BoundAssumption DEF Capped
  <2>3. {reachBranchCount[b], reachBranchCount[b] + 1, reachBranchCount[b] + 1 + 1} \subseteq Nat
    BY <2>1, BoundAssumption
  <2>4. PICK h \in {reachBranchCount[b], reachBranchCount[b] + 1, reachBranchCount[b] + 1 + 1} :
           reachBranchCount' = [reachBranchCount EXCEPT ![b] = Capped(h)]
    BY <1>1, Zenon
  <2>5. Capped(h) \in 0 .. MaxReach + 1
    BY <2>2, <2>3, <2>4, Zenon
  <2>6. reachBranchCount \in [Branch -> 0 .. MaxReach + 1]
    BY Zenon DEF TypeOK, CoverType
  <2> QED BY <2>4, <2>5, <2>6, Zenon
<1>4. invalidBranches' \subseteq Branch
  BY <1>1, ZenonT(40) DEF TypeOK, CoverType
<1>5. unCoveredPred' \in [Branch -> AnyOutcome \cup {Default}]
  <2>1. ASSUME b \notin SwitchBranch PROVE other \in AnyOutcome
    <3>1. b \in Branch \ SwitchBranch /\ o \in Outcome[b]
      BY <2>1
    <3>2. other \in Outcome[b]
      BY <3>1, OtherOutcome, ZenonT(40)
    <3> QED BY <3>2, Zenon DEF AnyOutcome
  <2> HIDE DEF other
  <2> QED BY <1>1, <2>1, ZenonT(40) DEF TypeOK, CoverType
<1> QED BY <1>1, <1>2, <1>3, <1>4, <1>5, ListTypes, Zenon DEF Relied

\* A br or switch on a constant, followed or not.
LEMMA ConcreteTypes ==
  ASSUME TInv, ListsTyped', NEW b \in Branch, NEW o, NEW c \in BOOLEAN,
         \/ b \notin SwitchBranch /\ o \in Outcome[b] /\ ConcreteBr(b, o, c)
         \/ b \in SwitchBranch /\ c = TRUE /\ ConcreteSwitch(b, o)
  PROVE  TInv'
<1> USE DEF TInv
<1>1. /\ UNCHANGED <<execVars, cacheVars, depVars, loopVars>>
      /\ UNCHANGED <<BI2ID, updateTargetBranch, newBranchNumFromStore>>
      /\ UNCHANGED <<branchInfos, storeValues, reachStore>>
      /\ step = "exec" /\ step' = "rotate"
      /\ \E x \in SUBSET Outcome[b] : seen' = [seen EXCEPT ![b] = seen[b] \cup x]
      /\ \E n : \/ coveredNew' = [coveredNew EXCEPT ![current] = coveredNew[current] \/ n]
                \/ UNCHANGED coveredNew
  <2>1. CASE o \in Outcome[b] /\ ConcreteBr(b, o, c)
    <3>1. {o} \in SUBSET Outcome[b] /\ seen' = [seen EXCEPT ![b] = seen[b] \cup {o}]
      BY <2>1, ZenonT(40) DEF ConcreteBr
    <3>2. coveredNew' = [coveredNew EXCEPT ![current] = coveredNew[current] \/ o \notin seen[b]]
      BY <2>1, Zenon DEF ConcreteBr
    <3> QED BY <2>1, <3>1, <3>2, Zenon DEF ConcreteBr
  <2>2. CASE ConcreteSwitch(b, o)
    <3>1. /\ {o} \cap Outcome[b] \in SUBSET Outcome[b]
          /\ seen' = [seen EXCEPT ![b] = seen[b] \cup ({o} \cap Outcome[b])]
      BY <2>2, Zenon DEF ConcreteSwitch
    <3> QED BY <2>2, <3>1, ZenonT(40) DEF ConcreteSwitch
  <2> QED BY <2>1, <2>2, Zenon
<1>2. \/ FollowBranch(b, o, c)
      \/ /\ UNCHANGED <<reachBranch, reachBranchCount, invalidBranches, unCoveredPred>>
         /\ UNCHANGED <<targetVars, newFullyCoveredBranch, newPartlyCoveredBranch, prevBranch>>
  BY Zenon DEF ConcreteBr, ConcreteSwitch
<1>3. current \in State
  BY <1>1, Zenon DEF Relied
<1>4. /\ reachBranch' \in [State -> BOOLEAN]
      /\ reachBranchCount' \in [Branch -> 0 .. MaxReach + 1]
      /\ invalidBranches' \subseteq Branch
      /\ unCoveredPred' \in [Branch -> AnyOutcome \cup {Default}]
      /\ TargetType' /\ newFullyCoveredBranch' \in BOOLEAN /\ newPartlyCoveredBranch' \in BOOLEAN
      /\ newFullyCoveredBranch' => FCB' # <<>>
      /\ prevBranch' \in Branch \cup {NULL}
  <2>1. CASE FollowBranch(b, o, c)
    BY <1>3, <2>1, FollowTypes, ZenonT(40)
  <2>2. CASE /\ UNCHANGED <<reachBranch, reachBranchCount, invalidBranches, unCoveredPred>>
             /\ UNCHANGED <<targetVars, newFullyCoveredBranch, newPartlyCoveredBranch, prevBranch>>
    <3>1. TargetType'
      BY <2>2, SameTypes
    <3>2. newFullyCoveredBranch' => FCB' # <<>>
      BY <2>2, Zenon DEF targetVars, Relied
    <3> QED BY <2>2, <3>1, <3>2, Zenon DEF TypeOK, StateType, CoverType, MessageType, ControlType
  <2> QED BY <1>2, <2>1, <2>2, Zenon
<1>5. ExecType' /\ CacheType' /\ DepType' /\ QueueType'
  BY <1>1, SameTypes, QueueTypes, Zenon
<1>6. seen' \in [Branch -> SUBSET AnyOutcome] /\ \A a \in Branch : seen'[a] \subseteq Outcome[a]
  <2>1. Outcome[b] \subseteq AnyOutcome
    BY Zenon DEF AnyOutcome
  <2> QED BY <1>1, <2>1, Zenon DEF TypeOK, CoverType
<1>7. CoverType'
  BY <1>1, <1>4, <1>6, Zenon DEF TypeOK, CoverType
<1>8. MessageType'
  BY <1>1, <1>4, Zenon DEF TypeOK, MessageType
<1>9. coveredNew' \in [State -> BOOLEAN]
  BY <1>1, Zenon DEF TypeOK, StateType
<1>10. StateType'
  BY <1>1, <1>4, <1>9, Zenon DEF TypeOK, StateType
<1>11. ControlType' /\ Relied'
  BY <1>1, <1>4, Zenon DEF TypeOK, ControlType, Relied, Steps, loopVars
<1> QED BY <1>4, <1>5, <1>7, <1>8, <1>10, <1>11, Zenon DEF TypeOK

\* A br on a symbolic condition.
LEMMA SymbolicTypes ==
  ASSUME TInv, ListsTyped', NEW b \in Branch \ SwitchBranch, NEW o \in Outcome[b], SymbolicBr(b, o)
  PROVE  TInv'
<1> USE DEF TInv
<1> DEFINE other == CHOOSE x \in Outcome[b] : x # o
<1>1. /\ UNCHANGED <<execVars, targetVars, messageVars, cacheVars, depVars, loopVars>>
      /\ UNCHANGED <<unCoveredPred, invalidBranches, reachBranchCount>>
      /\ UNCHANGED <<branchInfos, storeValues, reachStore, reachBranch, prevBranch>>
      /\ BI2ID' = BI2ID \ {b} /\ step' = "rotate"
      /\ \E x, y \in SUBSET {o, other} : seen' = [seen EXCEPT ![b] = seen[b] \cup x \cup y]
      /\ \E f : coveredNew' = [s \in State |-> coveredNew[s] \/ s \in f]
  <2>1. \E x, y \in SUBSET {o, other} : seen' = [seen EXCEPT ![b] = seen[b] \cup x \cup y]
    <3> DEFINE here == IF Alive THEN {o} ELSE {}
               there == IF addedStates = <<>> THEN {} ELSE {other}
    <3>1. here \in SUBSET {o, other} /\ there \in SUBSET {o, other}
      BY Zenon
    <3>2. seen' = [seen EXCEPT ![b] = seen[b] \cup here \cup there]
      BY Zenon DEF SymbolicBr
    <3> HIDE DEF here, there
    <3> QED BY <3>1, <3>2, Zenon
  <2>2. \E f : coveredNew' = [s \in State |-> coveredNew[s] \/ s \in f]
    BY Zenon DEF SymbolicBr
  <2> QED BY <2>1, <2>2, Zenon DEF SymbolicBr
<1>2. other \in Outcome[b] /\ Outcome[b] \subseteq AnyOutcome
  <2>1. other \in Outcome[b]
    BY OtherOutcome
  <2> QED BY <2>1, ZenonT(40) DEF AnyOutcome
<1> HIDE DEF other
<1>3. ExecType' /\ TargetType' /\ MessageType' /\ CacheType' /\ DepType' /\ QueueType'
  BY <1>1, SameTypes, QueueTypes, Zenon
<1>4. seen' \in [Branch -> SUBSET AnyOutcome] /\ \A a \in Branch : seen'[a] \subseteq Outcome[a]
  <2>1. PICK x \in SUBSET {o, other}, y \in SUBSET {o, other} :
          seen' = [seen EXCEPT ![b] = seen[b] \cup x \cup y]
    BY <1>1, Zenon
  <2>2. seen \in [Branch -> SUBSET AnyOutcome] /\ \A a \in Branch : seen[a] \subseteq Outcome[a]
    BY ZenonT(40) DEF TypeOK, CoverType
  <2>3. seen[b] \cup x \cup y \subseteq Outcome[b]
    BY <1>2, <2>2
  <2>4. seen[b] \cup x \cup y \in SUBSET AnyOutcome
    BY <1>2, <2>3, Zenon
  <2> QED BY <2>1, <2>2, <2>3, <2>4, Zenon
<1>5. CoverType'
  BY <1>1, <1>4, Zenon DEF TypeOK, CoverType
<1>6. coveredNew' \in [State -> BOOLEAN]
  BY <1>1, Zenon DEF TypeOK, StateType
<1>7. StateType'
  BY <1>1, <1>6, ZenonT(40) DEF TypeOK, StateType
<1>8. ControlType' /\ Relied'
  BY <1>1, Zenon DEF TypeOK, ControlType, Relied, Steps, targetVars, messageVars, loopVars
<1> QED BY <1>3, <1>5, <1>7, <1>8, Zenon DEF TypeOK

-----------------------------------------------------------------------------
(* The sections of CGSSearcher::update.                                    *)

(***************************************************************************)
(* Steps that only decide what comes next.                                 *)
(***************************************************************************)
LEMMA DecisionTypes ==
  ASSUME TInv, ListsTyped', step = "pick" => ret \in {"partlyDone", "refill"},
         \/ Rotate \/ NewPartlyCovered \/ Claimed \/ PickStore \/ StatesFound \/ Retarget
         \/ AddState \/ StatesAdded \/ RemoveState \/ StatesRemoved \/ OtherInst
  PROVE  TInv'
<1>1. UNCHANGED <<execVars, coverVars, targetVars, messageVars, cacheVars, depVars, stateVars, prevBranch>>
  <2>1. CASE Rotate
    BY <2>1, Zenon DEF Rotate
  <2>2. CASE NewPartlyCovered
    BY <2>2, Zenon DEF NewPartlyCovered
  <2>3. CASE Claimed
    BY <2>3, Zenon DEF Claimed
  <2>4. CASE PickStore
    BY <2>4, Zenon DEF PickStore
  <2>5. CASE StatesFound \/ StatesAdded \/ Retarget \/ OtherInst
    BY <2>5, Zenon DEF StatesFound, StatesAdded, Retarget, OtherInst
  <2>6. CASE AddState \/ RemoveState \/ StatesRemoved
    BY <2>6, Zenon DEF AddState, RemoveState, StatesRemoved
  <2> QED BY <2>1, <2>2, <2>3, <2>4, <2>5, <2>6, Zenon
<1>2. /\ ExecType' /\ CoverType' /\ TargetType' /\ MessageType' /\ CacheType' /\ DepType'
      /\ StateType' /\ QueueType'
  BY <1>1, SameTypes, QueueTypes, Zenon DEF TInv
<1>3. ControlType' /\ Relied'
  <2> USE DEF TInv, TypeOK, ControlType, Relied, Steps, loopVars
  <2>0. /\ UNCHANGED <<current, TB, FCB, newFullyCoveredBranch>> /\ prevBranch' = prevBranch
    BY <1>1, Zenon DEF execVars, targetVars, messageVars
  <2>1. CASE Rotate
    BY <2>0, <2>1, ZenonT(40) DEF Rotate, Alive, ExecType
  <2>2. CASE NewPartlyCovered
    <3>1. TB # <<>> => back(TB) \in Branch
      BY BackInRange DEF TargetType
    <3> QED BY <2>0, <2>2, <3>1, StoreAssumption, ZenonT(40) DEF NewPartlyCovered
  <2>3. CASE Claimed
    BY <2>0, <2>3, StoreAssumption, ZenonT(40) DEF Claimed
  <2>4. CASE PickStore
    <3>1. ret \in {"partlyDone", "refill"} /\ ret' = ret /\ idx' = 1 /\ step = "pick"
      BY <2>4, ZenonT(40) DEF PickStore
    <3>2. CASE sids = {} /\ step' = ret /\ sid' = NULL /\ target' = NULL /\ sids' = sids
      BY <2>0, <3>1, <3>2, SMTT(30)
    <3>3. CASE /\ \E t \in sids : sid' = t /\ sids' = sids \ {t}
               /\ step' = "find" /\ target' = target
      BY <2>0, <3>1, <3>3, SMTT(30)
    <3> QED BY <2>4, <3>2, <3>3, ZenonT(40) DEF PickStore
  <2>5. CASE StatesFound \/ StatesAdded
    <3>1. /\ (step = "find" /\ step' = "pick") \/ (step = "add" /\ step' = "remove")
          /\ idx' = 1 /\ UNCHANGED <<target, sids, sid, ret>>
      BY <2>5, Zenon DEF StatesFound, StatesAdded
    <3> QED BY <2>0, <3>1
  <2>6. CASE Retarget \/ OtherInst
    BY <2>0, <2>6, Zenon DEF Retarget, OtherInst
  <2>7. CASE AddState
    <3>1. step = "add" /\ idx' = idx + 1 /\ UNCHANGED <<step, target, sids, sid, ret>>
      BY <2>7, Zenon DEF AddState
    <3> QED BY <2>0, <3>1
  <2>8. CASE RemoveState \/ StatesRemoved
    <3>1. step = "remove" /\ step' \in {"remove", "commit"} /\ UNCHANGED <<target, sids, sid, idx, ret>>
      BY <2>8, Zenon DEF RemoveState, StatesRemoved
    <3> QED BY <2>0, <3>1, ZenonT(40)
  <2> QED BY <2>1, <2>2, <2>3, <2>4, <2>5, <2>6, <2>7, <2>8, ZenonT(40)
<1> QED BY <1>2, <1>3 DEF TInv, TypeOK

(***************************************************************************)
(* isNewStoreValue caches values, and default-inserts one at most.         *)
(***************************************************************************)
LEMMA RememberValueTypes ==
  ASSUME TypeOK, NEW s \in State, NEW b \in Branch, NEW t \in Store, RememberValue(s, b, t)
  PROVE  CacheType' /\ storeValues' \in [State -> [Store -> Value \cup {NoValue}]]
<1>0. /\ storeValues \in [State -> [Store -> Value \cup {NoValue}]]
      /\ Zero \in Value /\ Arith \in [Branch -> [Value -> Value]]
  BY ValueAssumption, Zenon DEF TypeOK, StateType
<1>a. storeValues[s][t] \in Value \cup {NoValue}
  BY <1>0
<1>1. Loaded(s, t) \in Value
  BY <1>0, <1>a, Zenon DEF Loaded
<1>b. Arith[b][Loaded(s, t)] \in Value
  BY <1>0, <1>1
<1>2. Compared(b, Loaded(s, t)) \in Value
  BY <1>1, <1>b, ZenonT(40) DEF Compared
<1>3. CacheType'
  BY <1>2, Zenon DEF TypeOK, CacheType, RememberValue
<1>4. storeValues' = [storeValues EXCEPT ![s] = [storeValues[s] EXCEPT ![t] = Loaded(s, t)]]
  BY Zenon DEF RememberValue
<1>5. [storeValues[s] EXCEPT ![t] = Loaded(s, t)] \in [Store -> Value \cup {NoValue}]
  BY <1>1, Zenon DEF TypeOK, StateType
<1>6. storeValues' \in [State -> [Store -> Value \cup {NoValue}]]
  BY <1>4, <1>5 DEF TypeOK, StateType
<1> QED BY <1>3, <1>6

\* A state reached its target: branchInfos, or the dependencies, shrink.
LEMMA ReachBranchTypes == ASSUME TInv, ListsTyped', ReachBranch PROVE TInv'
<1> USE DEF TInv
<1>1. /\ UNCHANGED <<execVars, coverVars, targetVars, messageVars, cacheVars>>
      /\ UNCHANGED <<storeValues, reachStore, coveredNew, prevBranch, sids, sid, idx, ret>>
      /\ step = "reach" /\ step' \in {"store", "fully"}
  BY Zenon DEF ReachBranch
<1>2. ExecType' /\ CoverType' /\ TargetType' /\ MessageType' /\ CacheType' /\ QueueType'
  BY <1>1, SameTypes, QueueTypes
<1>3. StateType'
  <2>1. EraseFirst(branchInfos[current], {i \in DOMAIN branchInfos[current] : branchInfos[current][i].bid = pastBID})
          \in Seq(BranchInfo)
    BY <1>1, BranchInfoSeq, EraseFirstType, Zenon DEF Relied
  <2>2. branchInfos' \in [State -> Seq(BranchInfo)]
    BY <2>1, Zenon DEF ReachBranch, TypeOK, StateType
  <2>3. reachBranch' \in [State -> BOOLEAN]
    BY Zenon DEF ReachBranch, TypeOK, StateType
  <2> QED BY <1>1, <2>2, <2>3, Zenon DEF TypeOK, StateType
<1>4. DepType' /\ (target' = target \/ target' \in Branch) /\ (step' = "fully" => target' \in Branch)
  <2>1. CASE UNCHANGED <<depVars, target>> /\ step' = "store"
    BY <2>1, SameTypes
  <2>2. CASE /\ newFullyCoveredBranch /\ target' = back(FCB)
             /\ storeToBranches' = [t \in Store |-> IF t \in Dep[back(FCB)]
                                     THEN storeToBranches[t] \ {back(FCB)} ELSE storeToBranches[t]]
             /\ funcStores' = [funcStores EXCEPT ![FuncOf[back(FCB)]] = @ \ remove_sv(back(FCB))]
    <3>1. back(FCB) \in Branch
      BY <2>2, BackInRange, ZenonT(40) DEF Relied, TypeOK, TargetType
    <3>2. storeToBranches' \in [Store -> SUBSET Branch]
      BY <2>2 DEF TypeOK, DepType
    <3>3. funcStores' \in [Function -> SUBSET Store]
      BY <2>2, Zenon DEF TypeOK, DepType
    <3> QED BY <2>2, <3>1, <3>2, <3>3, Zenon DEF DepType
  <2> QED BY <2>1, <2>2, Zenon DEF ReachBranch
<1>5. ControlType'
  BY <1>1, <1>4, ZenonT(40) DEF TypeOK, ControlType, Steps
<1>6. Relied'
  BY <1>1, <1>4 DEF Relied, execVars, targetVars, messageVars
<1> QED BY <1>2, <1>3, <1>4, <1>5, <1>6, Zenon DEF TypeOK

\* One iteration of the loop of handleFullyCoveredBranch.
LEMMA HandleFullyCoveredTypes == ASSUME TInv, ListsTyped', HandleFullyCovered PROVE TInv'
<1> USE DEF TInv
<1> DEFINE s == branch_states[idx]
<1>1. /\ UNCHANGED <<execVars, coverVars, targetVars, messageVars, cacheVars, depVars>>
      /\ UNCHANGED <<reachStore, reachBranch, coveredNew, step, prevBranch, target, sids, sid, ret>>
      /\ step = "fully" /\ idx' \in {idx, idx + 1} /\ idx <= Len(branch_states)
  BY Zenon DEF HandleFullyCovered
<1>2. ExecType' /\ CoverType' /\ TargetType' /\ MessageType' /\ CacheType' /\ DepType' /\ QueueType'
  BY <1>1, SameTypes, QueueTypes, ZenonT(40)
<1>3. s \in State
  <2>1. idx \in 1 .. Len(branch_states) /\ branch_states \in Seq(State)
    BY <1>1, LenProperties DEF TypeOK, QueueType, ControlType
  <2> QED BY <2>1, ElementInRange, ZenonT(40)
<1>4. branchInfos' \in [State -> Seq(BranchInfo)]
  <2>1. EraseFirst(branchInfos[s], {i \in DOMAIN branchInfos[s] : branchInfos[s][i].bid = target})
          \in Seq(BranchInfo)
    BY <1>3, BranchInfoSeq, EraseFirstType, ZenonT(40)
  <2> QED BY <2>1, ZenonT(40) DEF HandleFullyCovered, TypeOK, StateType
<1>5. storeValues' \in [State -> [Store -> Value \cup {NoValue}]]
  <2>1. [t \in Store |-> IF t \in Dep[target] /\ storeToBranches[t] = {} THEN NoValue
                         ELSE storeValues[s][t]] \in [Store -> Value \cup {NoValue}]
    BY <1>3, ZenonT(40) DEF TypeOK, StateType
  <2> QED BY <2>1, ZenonT(40) DEF HandleFullyCovered, TypeOK, StateType
<1>6. StateType'
  BY <1>1, <1>4, <1>5, ZenonT(40) DEF TypeOK, StateType
<1>7. ControlType'
  BY <1>1, SMTT(30) DEF TypeOK, ControlType
<1>8. Relied'
  BY <1>1 DEF Relied, execVars, targetVars, messageVars
<1> QED BY <1>2, <1>6, <1>7, <1>8, ZenonT(40) DEF TypeOK

\* The end of handleFullyCoveredBranch resets the messages.
LEMMA FullyCoveredHandledTypes == ASSUME TInv, ListsTyped', FullyCoveredHandled PROVE TInv'
<1> USE DEF TInv
<1>1. /\ UNCHANGED <<execVars, coverVars, targetVars, cacheVars, depVars>>
      /\ UNCHANGED <<newPartlyCoveredBranch, updateTargetBranch, newBranchNumFromStore>>
      /\ UNCHANGED <<branchInfos, storeValues, reachStore, coveredNew, prevBranch, sids, sid, ret>>
      /\ newFullyCoveredBranch' = FALSE /\ idx' = 1 /\ target' = NULL
      /\ step = "fully" /\ step' = "store"
      /\ reachBranch' = [reachBranch EXCEPT ![current] = FALSE]
  BY Zenon DEF FullyCoveredHandled
<1>2. ExecType' /\ CoverType' /\ TargetType' /\ CacheType' /\ DepType' /\ QueueType'
  BY <1>1, SameTypes, QueueTypes
<1>3. MessageType' /\ StateType'
  BY <1>1, Zenon DEF TypeOK, MessageType, StateType
<1>4. ControlType'
  BY <1>1, SMTT(30) DEF TypeOK, ControlType, Steps
<1>5. Relied'
  BY <1>1, Zenon DEF Relied, execVars
<1> QED BY <1>2, <1>3, <1>4, <1>5, ZenonT(40) DEF TypeOK

\* The first branchInfo to examine has a position, or update crashed.
LEMMA ReachStoreTypes == ASSUME TInv, ListsTyped', ReachStore PROVE TInv'
<1> USE DEF TInv
<1>1. /\ UNCHANGED <<execVars, coverVars, targetVars, messageVars, cacheVars, depVars, stateVars>>
      /\ UNCHANGED <<prevBranch, target, sids, sid, ret>>
      /\ step = "store" /\ step' \in {"partly", "crashed", "examine"}
  BY Zenon DEF ReachStore
<1>2. /\ ExecType' /\ CoverType' /\ TargetType' /\ MessageType' /\ CacheType' /\ DepType'
      /\ StateType' /\ QueueType'
  BY <1>1, SameTypes, QueueTypes, Zenon
<1>3. idx' \in Nat \ {0}
  <2>1. Len(branchInfos[current]) \in Nat /\ newBranchNumFromStore \in Nat /\ idx \in Nat \ {0}
    BY <1>1, BranchInfoSeq, ZenonT(40) DEF Relied, TypeOK, MessageType, ControlType
  <2> QED BY <2>1, SMTT(30) DEF ReachStore
<1>4. ControlType'
  BY <1>1, <1>3, ZenonT(40) DEF TypeOK, ControlType, Steps
<1>5. Relied'
  BY <1>1 DEF Relied, execVars, targetVars, messageVars
<1> QED BY <1>2, <1>4, <1>5, Zenon DEF TypeOK

\* Examining a branchInfo after a store (isNewStoreValue and the erase in the loop).
LEMMA ExamineStoreValueTypes == ASSUME TInv, ListsTyped', ExamineStoreValue PROVE TInv'
<1> USE DEF TInv
<1> DEFINE bi == branchInfos[current][idx]
<1>1. /\ UNCHANGED <<execVars, coverVars, targetVars, messageVars, depVars>>
      /\ UNCHANGED <<reachStore, reachBranch, coveredNew, step, prevBranch, target, sids, sid, ret>>
      /\ step = "examine" /\ idx' \in {idx, idx + 1} /\ idx <= Len(branchInfos[current])
      /\ RememberValue(current, bi.bid, bi.sid)
      /\ \/ UNCHANGED branchInfos
         \/ branchInfos' = [branchInfos EXCEPT ![current] = erase(branchInfos[current], idx)]
  BY DEF ExamineStoreValue
<1>2. ExecType' /\ CoverType' /\ TargetType' /\ MessageType' /\ DepType' /\ QueueType'
  BY <1>1, SameTypes, QueueTypes, ZenonT(40)
<1>3. current \in State /\ idx \in 1 .. Len(branchInfos[current])
  BY <1>1, BranchInfoSeq, SMTT(30) DEF Relied, TypeOK, ControlType
<1>4. bi \in BranchInfo /\ erase(branchInfos[current], idx) \in Seq(BranchInfo)
  BY <1>3, BranchInfoSeq, ElementInRange, EraseElements, ZenonT(40)
<1>5. bi.bid \in Branch /\ bi.sid \in Store
  BY <1>4, Zenon DEF BranchInfo
<1>6. CacheType' /\ storeValues' \in [State -> [Store -> Value \cup {NoValue}]]
  <2> HIDE DEF bi
  <2> QED BY <1>1, <1>3, <1>5, RememberValueTypes, Zenon
<1>7. StateType'
  BY <1>1, <1>4, <1>6, ZenonT(40) DEF TypeOK, StateType
<1>8. ControlType'
  BY <1>1, SMTT(30) DEF TypeOK, ControlType
<1>9. Relied'
  BY <1>1, Zenon DEF Relied, execVars, targetVars, messageVars
<1> QED BY <1>2, <1>6, <1>7, <1>8, <1>9, ZenonT(40) DEF TypeOK

\* The ends of the loops over branchInfos and of handlePartlyCoveredBranch.
LEMMA HandledTypes ==
  ASSUME TInv, ListsTyped', StoreValuesExamined \/ PartlyCoveredHandled
  PROVE  TInv'
<1> USE DEF TInv
<1>1. /\ UNCHANGED <<execVars, coverVars, targetVars, cacheVars, depVars>>
      /\ UNCHANGED <<newFullyCoveredBranch, updateTargetBranch>>
      /\ UNCHANGED <<branchInfos, storeValues, reachBranch, coveredNew, prevBranch, target, sids, sid>>
      /\ newPartlyCoveredBranch' = FALSE \/ UNCHANGED newPartlyCoveredBranch
      /\ newBranchNumFromStore' = 0 \/ UNCHANGED newBranchNumFromStore
      /\ reachStore' = [reachStore EXCEPT ![current] = FALSE] \/ UNCHANGED reachStore
      /\ idx' \in {1, idx} /\ ret' \in {"select", ret}
      /\ \/ step = "examine" /\ step' = "partly"
         \/ step = "partlyDone" /\ step' = "retarget"
  <2>1. CASE StoreValuesExamined
    BY <2>1, Zenon DEF StoreValuesExamined
  <2>2. CASE PartlyCoveredHandled
    BY <2>2, Zenon DEF PartlyCoveredHandled, stateVars
  <2> QED BY <2>1, <2>2, Zenon
<1>2. ExecType' /\ CoverType' /\ TargetType' /\ CacheType' /\ DepType' /\ QueueType'
  BY <1>1, SameTypes, QueueTypes, Zenon
<1>3. MessageType' /\ StateType'
  <2>1. MessageType'
    <3>1. newBranchNumFromStore' \in Nat
      BY <1>1 DEF TypeOK, MessageType
    <3>2. newPartlyCoveredBranch' \in BOOLEAN
      BY <1>1, Zenon DEF TypeOK, MessageType
    <3>3. newFullyCoveredBranch' \in BOOLEAN /\ updateTargetBranch' \in BOOLEAN
      BY <1>1, Zenon DEF TypeOK, MessageType
    <3> QED BY <3>1, <3>2, <3>3, Zenon DEF MessageType
  <2>2. reachStore' \in [State -> BOOLEAN]
    BY <1>1, ZenonT(40) DEF TypeOK, StateType
  <2> QED BY <1>1, <2>1, <2>2, Zenon DEF TypeOK, StateType
<1>4. ControlType'
  BY <1>1, SMTT(30) DEF TypeOK, ControlType, Steps
<1>5. Relied'
  BY <1>1, Zenon DEF Relied, execVars, targetVars
<1> QED BY <1>2, <1>3, <1>4, <1>5, ZenonT(40) DEF TypeOK

\* A branchInfo for a store the target depends on (first loop of handlePartlyCoveredBranch).
LEMMA ClaimStoreTypes == ASSUME TInv, ListsTyped', ClaimStore PROVE TInv'
<1> USE DEF TInv
<1>1. PICK t \in sids :
       /\ sids' = sids \ {t}
       /\ IF storeValues[current][t] # NoValue
          THEN RememberValue(current, target, t)
          ELSE UNCHANGED <<cacheVars, storeValues>>
       /\ branchInfos' = [branchInfos EXCEPT
                            ![current] = Append(branchInfos[current], [sid |-> t, bid |-> target])]
  BY ZenonT(40) DEF ClaimStore
<1>2. /\ UNCHANGED <<execVars, coverVars, targetVars, messageVars, depVars>>
      /\ UNCHANGED <<reachStore, reachBranch, coveredNew, step, prevBranch, target, sid, idx, ret>>
      /\ step = "claim"
  BY DEF ClaimStore
<1>3. ExecType' /\ CoverType' /\ TargetType' /\ MessageType' /\ DepType' /\ QueueType'
  BY <1>2, SameTypes, QueueTypes, ZenonT(40)
<1>4. current \in State /\ target \in Branch /\ t \in Store
  BY <1>1, <1>2, Zenon DEF Relied, TypeOK, ControlType
<1>5. CacheType' /\ storeValues' \in [State -> [Store -> Value \cup {NoValue}]]
  <2>1. CASE RememberValue(current, target, t)
    BY <2>1, <1>4, RememberValueTypes, ZenonT(40)
  <2>2. CASE UNCHANGED <<cacheVars, storeValues>>
    BY <2>2, SameTypes, ZenonT(40) DEF TypeOK, StateType
  <2> QED BY <1>1, <2>1, <2>2, Zenon
<1>6. [sid |-> t, bid |-> target] \in BranchInfo
  BY <1>4, Zenon DEF BranchInfo
<1>7. Append(branchInfos[current], [sid |-> t, bid |-> target]) \in Seq(BranchInfo)
  BY <1>4, <1>6, BranchInfoSeq, AppendProperties, ZenonT(40)
<1>8. StateType'
  BY <1>1, <1>2, <1>5, <1>7, Zenon DEF TypeOK, StateType
<1>9. ControlType'
  BY <1>1, <1>2, Zenon DEF TypeOK, ControlType
<1>10. Relied'
  BY <1>2, Zenon DEF Relied, execVars, targetVars, messageVars
<1> QED BY <1>3, <1>5, <1>8, <1>9, <1>10, Zenon DEF TypeOK

\* A waiting state that already stored a value (its second loop).
LEMMA FindStateTypes == ASSUME TInv, ListsTyped', FindState PROVE TInv'
<1> USE DEF TInv
<1> DEFINE s == states[idx]
           known == s # current /\ storeValues[s][sid] # NoValue
           found == known /\ isNewStoreValue(s, target, sid)
<1>1. /\ UNCHANGED <<execVars, coverVars, targetVars, messageVars, depVars>>
      /\ UNCHANGED <<coveredNew, step, prevBranch, target, sids, sid, ret>>
      /\ step = "find" /\ idx <= Len(states)
  BY Zenon DEF FindState
<1>2. IF known THEN RememberValue(s, target, sid) ELSE UNCHANGED <<cacheVars, storeValues>>
  BY Zenon DEF FindState
<1>3. \/ /\ reachBranch' = [reachBranch EXCEPT ![s] = FALSE]
         /\ reachStore' = [reachStore EXCEPT ![s] = FALSE]
         /\ branchInfos' = [branchInfos EXCEPT ![s] =
                              Append(branchInfos[s], [sid |-> sid, bid |-> target])]
         /\ idx' = idx
      \/ idx' = idx + 1 /\ UNCHANGED <<reachBranch, reachStore, branchInfos>>
  <2>1. CASE found
    BY <2>1, Zenon DEF FindState
  <2>2. CASE ~found
    BY <2>2, Zenon DEF FindState
  <2> QED BY <2>1, <2>2, Zenon
<1>4. ExecType' /\ CoverType' /\ TargetType' /\ MessageType' /\ DepType' /\ QueueType'
  BY <1>1, SameTypes, QueueTypes, Zenon
<1>5. s \in State /\ target \in Branch /\ sid \in Store
  <2>1. idx \in 1 .. Len(states) /\ states \in Seq(State)
    BY <1>1, LenProperties, SMTT(30) DEF TypeOK, QueueType, ControlType
  <2> QED BY <1>1, <2>1, ElementInRange, ZenonT(40) DEF Relied
<1> HIDE DEF s
<1>6. CacheType' /\ storeValues' \in [State -> [Store -> Value \cup {NoValue}]]
  <2>1. CASE RememberValue(s, target, sid)
    BY <2>1, <1>5, RememberValueTypes, Zenon
  <2>2. CASE UNCHANGED <<cacheVars, storeValues>>
    BY <2>2, SameTypes, Zenon DEF TypeOK, StateType
  <2> QED BY <1>2, <2>1, <2>2, Zenon
<1>7. Append(branchInfos[s], [sid |-> sid, bid |-> target]) \in Seq(BranchInfo)
  <2>1. [sid |-> sid, bid |-> target] \in BranchInfo
    BY <1>5 DEF BranchInfo
  <2> QED BY <1>5, <2>1, BranchInfoSeq, AppendProperties, ZenonT(40)
<1>8. StateType'
  BY <1>1, <1>3, <1>6, <1>7, ZenonT(40) DEF TypeOK, StateType
<1>9. ControlType'
  BY <1>1, <1>3, SMTT(30) DEF TypeOK, ControlType
<1>10. Relied'
  BY <1>1, Zenon DEF Relied, execVars, targetVars, messageVars
<1> QED BY <1>4, <1>6, <1>8, <1>9, <1>10, ZenonT(40) DEF TypeOK

\* Re-targeting: the states lose their branchInfos, the target list is rebuilt.
LEMMA RetargetTypes ==
  ASSUME TInv, ListsTyped', ClearState \/ StatesCleared \/ Refill
  PROVE  TInv'
<1> USE DEF TInv
<1>1. CASE ClearState
  <2> DEFINE s == branch_states[idx]
  <2>1. /\ UNCHANGED <<execVars, coverVars, targetVars, messageVars, cacheVars, depVars>>
        /\ UNCHANGED <<storeValues, reachStore, reachBranch, coveredNew, step, prevBranch>>
        /\ UNCHANGED <<target, sids, sid, ret>>
        /\ branchInfos' = [branchInfos EXCEPT ![s] = <<>>]
        /\ step = "clear" /\ idx' \in {idx, idx + 1}
    BY <1>1, Zenon DEF ClearState
  <2>2. /\ ExecType' /\ CoverType' /\ TargetType' /\ MessageType' /\ CacheType' /\ DepType'
        /\ QueueType'
    BY <2>1, SameTypes, QueueTypes, Zenon
  <2>3. branchInfos' \in [State -> Seq(BranchInfo)]
    BY <2>1, EmptySeq, Zenon DEF TypeOK, StateType
  <2>4. StateType'
    BY <2>1, <2>3, ZenonT(40) DEF TypeOK, StateType
  <2>5. ControlType' /\ Relied'
    BY <2>1 DEF TypeOK, ControlType, Relied, execVars, targetVars, messageVars
  <2> QED BY <2>2, <2>4, <2>5, Zenon DEF TypeOK
<1>2. CASE StatesCleared
  <2>1. /\ UNCHANGED <<execVars, coverVars, messageVars, cacheVars, depVars, stateVars>>
        /\ UNCHANGED <<PCB, FCB, prevBranch, target, sids, sid, ret>>
        /\ TB' = <<>> /\ step' = "refill" /\ idx' = 1
    BY <1>2, Zenon DEF StatesCleared
  <2>2. /\ ExecType' /\ CoverType' /\ MessageType' /\ CacheType' /\ DepType' /\ StateType'
        /\ QueueType'
    BY <2>1, SameTypes, QueueTypes, ZenonT(40)
  <2>3. TargetType' /\ ControlType' /\ Relied'
    BY <2>1, EmptySeq
    DEF TypeOK, TargetType, ControlType, Relied, Steps, execVars, messageVars
  <2> QED BY <2>2, <2>3, Zenon DEF TypeOK
<1>3. CASE Refill
  <2>1. /\ UNCHANGED <<execVars, coverVars, cacheVars, depVars, stateVars>>
        /\ UNCHANGED <<FCB, newFullyCoveredBranch, newPartlyCoveredBranch, newBranchNumFromStore>>
        /\ UNCHANGED <<prevBranch, sid, idx>>
        /\ updateTargetBranch' = FALSE \/ UNCHANGED updateTargetBranch
    BY <1>3, ZenonT(40) DEF Refill
  <2>2. /\ ExecType' /\ CoverType' /\ CacheType' /\ DepType' /\ StateType' /\ QueueType'
    BY <2>1, SameTypes, QueueTypes, Zenon
  <2>3. MessageType'
    BY <2>1, Zenon DEF TypeOK, MessageType
  <2>4. \/ /\ PCB # <<>> /\ TB' = Append(TB, back(PCB)) /\ PCB' = pop_back(PCB)
           /\ target' = back(PCB) /\ sids' = Dep[back(PCB)] /\ ret' = "refill"
           /\ step' = "crashed" \/ (step' = "claim" /\ current # NULL)
        \/ ret' = "select" /\ step' = "add" /\ UNCHANGED <<TB, PCB, target, sids>>
    BY <1>3, ZenonT(40) DEF Refill
  <2>5. PCB # <<>> => /\ back(PCB) \in Branch /\ pop_back(PCB) \in Seq(Branch)
                      /\ Append(TB, back(PCB)) \in Seq(Branch)
    BY BackInRange, AppendProperties, Zenon DEF TypeOK, TargetType
  <2>6. TargetType'
    BY <2>1, <2>4, <2>5, ZenonT(40) DEF TypeOK, TargetType
  <2>7. ControlType' /\ Relied'
    BY <2>1, <2>4, <2>5, StoreAssumption, ZenonT(40)
    DEF TypeOK, ControlType, Relied, Steps, ExecType, execVars
  <2> QED BY <2>2, <2>3, <2>6, <2>7, Zenon DEF TypeOK
<1> QED BY <1>1, <1>2, <1>3, Zenon
-----------------------------------------------------------------------------
\* One step per operation of the executor and of the searcher.
LEMMA NextTypes == ASSUME TInv, QInv, QInv', [Next]_vars PROVE TInv'
<1>l. ListsTyped'
  BY Zenon DEF QInv, PoolType, ListsTyped
<1>p. step = "pick" => ret \in {"partlyDone", "refill"}
  BY DEF QInv, Positions
<1>1. CASE ExecutorNext
  <2>1. CASE SelectState \/ Halt
    BY <2>1, <1>l, SelectTypes, ZenonT(40)
  <2>2. CASE Fork \/ TerminateCurrent \/ TerminateAdded
    BY <2>2, <1>l, ForkTypes, ZenonT(40)
  <2>3. CASE \E b \in BrBranch : \E o \in Outcome[b], c \in {TRUE, "mixed" \notin Allowed} :
                ConcreteBr(b, o, c)
    <3>1. PICK b \in BrBranch : \E o \in Outcome[b], c \in {TRUE, "mixed" \notin Allowed} :
                ConcreteBr(b, o, c)
      BY <2>3, Zenon
    <3>2. PICK o \in Outcome[b], c \in {TRUE, "mixed" \notin Allowed} : ConcreteBr(b, o, c)
      BY <3>1, Zenon
    <3>3. b \in Branch /\ b \notin SwitchBranch /\ c \in BOOLEAN
      BY <3>1, <3>2, ZenonT(40) DEF BrBranch
    <3> QED BY <1>l, <3>2, <3>3, ConcreteTypes, Zenon
  <2>4. CASE \E b \in BrBranch : \E o \in Outcome[b] : SymbolicBr(b, o)
    BY <1>l, <2>4, SymbolicTypes, Zenon DEF BrBranch
  <2>5. CASE \E b \in SwitchBranch : \E o \in Outcome[b] \cup {Default} : ConcreteSwitch(b, o)
    <3>1. PICK b \in SwitchBranch : \E o : ConcreteSwitch(b, o)
      BY <2>5, ZenonT(40)
    <3>2. PICK o : ConcreteSwitch(b, o)
      BY <3>1, SMTT(30)
    <3>3. b \in Branch
      BY BranchAssumption, Zenon
    <3> QED BY <1>l, <3>2, <3>3, ConcreteTypes, Zenon
  <2>6. CASE \E s \in Store, v \in Value : StoreInst(s, v)
    BY <2>6, <1>l, StoreInstTypes, ZenonT(40)
  <2>7. CASE StoreLoop \/ OtherInst
    BY <1>l, <1>p, <2>7, StoreLoopTypes, DecisionTypes, ZenonT(40)
  <2>8. CASE UpdateStates \/ CheckMemoryUsage \/ Tick
    BY <1>l, <2>8, LoopEndTypes, ZenonT(40)
  <2> QED BY <1>1, <2>1, <2>2, <2>3, <2>4, <2>5, <2>6, <2>7, <2>8, Zenon DEF ExecutorNext
<1>2. CASE UpdateNext
  BY <1>l, <1>p, <1>2, DecisionTypes, ReachBranchTypes, HandleFullyCoveredTypes, FullyCoveredHandledTypes,
     ReachStoreTypes, ExamineStoreValueTypes, HandledTypes, ClaimStoreTypes, FindStateTypes,
     RetargetTypes, ZenonT(40) DEF UpdateNext
<1>3. CASE UNCHANGED vars
  <2>1. UNCHANGED <<execVars, coverVars, targetVars, messageVars, cacheVars, depVars,
                    stateVars, queueVars, step, prevBranch, loopVars>>
    BY <1>3, ZenonT(40) DEF vars
  <2>2. /\ ExecType' /\ CoverType' /\ TargetType' /\ MessageType' /\ CacheType' /\ DepType'
        /\ StateType' /\ QueueType'
    BY <1>l, <2>1, SameTypes, QueueTypes, ZenonT(40) DEF TInv
  <2>3. ControlType' /\ Relied'
    BY <2>1 DEF TInv, TypeOK, ControlType, Relied, loopVars, execVars, targetVars, messageVars
  <2> QED BY <2>2, <2>3, ZenonT(40) DEF TInv, TypeOK
<1> QED BY <1>1, <1>2, <1>3, ZenonT(40) DEF Next, Ended

\* Types and queues together: the ground the other invariants stand on.
BaseInv == TInv /\ QInv

\* The initial state has it, and every step of executor and searcher keeps it.
LEMMA InitBase == Init => BaseInv
BY InitTypes, InitQInv, Zenon DEF BaseInv

\* One step, whichever instruction or section of update it is.
LEMMA NextBase == ASSUME BaseInv, [Next]_vars PROVE BaseInv'
<1>1. QInv'
  BY NextQInv DEF BaseInv, Good
<1> QED BY <1>1, NextTypes, ZenonT(40) DEF BaseInv

(***************************************************************************)
(* Type correctness for any program under test: the fields keep their C++  *)
(* types, and the hit counter of the br and switch handlers its bound.     *)
(***************************************************************************)
THEOREM TypeCorrect == Spec => []TypeOK
<1>1. BaseInv /\ [Next]_vars => BaseInv'
  BY NextBase
<1>2. BaseInv => TypeOK
  BY DEF BaseInv, TInv
<1> QED BY InitBase, <1>1, <1>2, PTL DEF Spec
=============================================================================
