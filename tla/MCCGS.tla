------------------------------- MODULE MCCGS -------------------------------
(***************************************************************************)
(* Small programs for CGS: which branches there are, which stores define   *)
(* their variable, and where each value takes them.                        *)
(***************************************************************************)
EXTENDS CGS, TLC

Sym == Permutations(State)

BrOutcomes(B)    == [b \in B |-> {"then", "else"}]
SameFunction(B)  == [b \in B |-> "f"]
DependOn(B, S)   == [b \in B |-> S]
ZeroTest(B, V)   == [b \in B |-> [v \in V |-> IF v = 0 THEN "then" ELSE "else"]]
Unmasked(B, V)   == [b \in B |-> [v \in V |-> v]]

\* One br on a variable that one store defines.
OneBr      == {"b1"}
OneStore   == {"st1"}
Bits       == {0, 1}
Zeros      == {0}
OneBrOut   == BrOutcomes(OneBr)
OneBrDep   == DependOn(OneBr, OneStore)
OneBrOrder == <<"b1">>
OneBrFunc  == SameFunction(OneBr)
OneBrTakes == ZeroTest(OneBr, Bits)
OneBrArith == Unmasked(OneBr, Bits)

\* One br on a variable two stores define, tested after an "and 1".
TwoStores   == {"st1", "st2"}
Words       == {0, 1, 2}
MaskedDep   == DependOn(OneBr, TwoStores)
MaskedTakes == ZeroTest(OneBr, Words)
MaskedArith == [b \in OneBr |-> [v \in Words |-> v % 2]]

\* One switch with two cases and a default, on a variable one store defines.
OneSw      == {"w1"}
OneSwOut   == [b \in OneSw |-> {"case0", "case1"}]
OneSwDep   == DependOn(OneSw, OneStore)
OneSwOrder == <<"w1">>
OneSwFunc  == SameFunction(OneSw)
OneSwTakes == [b \in OneSw |-> (0 :> "case0" @@ 1 :> "case1" @@ 2 :> "default")]
OneSwArith == Unmasked(OneSw, Words)

\* A br and a switch of one function that share the store.
BrSw      == {"b1", "w1"}
BrSwOut   == ("b1" :> {"then", "else"}) @@ ("w1" :> {"case0", "case1"})
BrSwDep   == DependOn(BrSw, OneStore)
BrSwOrder == <<"b1", "w1">>
BrSwFunc  == SameFunction(BrSw)
BrSwTakes == [b \in BrSw |-> [v \in Zeros |-> IF b = "b1" THEN "then" ELSE "case0"]]
BrSwArith == Unmasked(BrSw, Zeros)
-----------------------------------------------------------------------------
(* What comments in the source say and the code does not do: each of these is *)
(* violated by a run of its own.                                              *)

(***************************************************************************)
(* Executor.cpp:3610, of a value in invalidStoreValues: "this value has    *)
(* been proved to be unable to fully cover this branch".                   *)
(***************************************************************************)
InvalidValuesUseless ==
  \A b \in BrBranch : \A v \in invalidStoreValues[b] :
     unCoveredPred[b] = Default \/ Takes[b][Arith[b][v]] # unCoveredPred[b]

(***************************************************************************)
(* Executor.h:190, of newBranchNumFromStore: "it is used to count the      *)
(* index in ExecutionState.branchInfos".                                   *)
(***************************************************************************)
NewInfosCounted ==
  step = "store" /\ reachStore[current] =>
    newBranchNumFromStore <= Len(branchInfos[current])
=============================================================================
