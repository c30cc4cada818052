------------------------------ MODULE Distances ------------------------------
(***************************************************************************)
(* The distances the weighted searchers go by: how many instructions it    *)
(* takes to return from a function and to reach an uncovered one           *)
(* (StatsTracker.cpp).  A program p has instructions 1 .. p.n in the order *)
(* of the module, the function fn of each, the set rets of the returns,    *)
(* succs, the functions called by the calls, p.functions functions, the    *)
(* entry of the first of them, which have a body, and those of the others  *)
(* that return.  0 is "unreachable".                                       *)
(***************************************************************************)
EXTENDS Integers, Sequences, FiniteSets, SequencesExt, FiniteSetsExt

\* The smallest of some distances.
Nearest(ds) == IF ds \subseteq {0} THEN 0 ELSE Min(ds \ {0})
Nearer(a, b) == Nearest({a, b})

Calls(p) == DOMAIN p.calls

\* The instructions it takes to get past i; a call takes the shortest way through a target.
bestThrough(p, i, shortest) ==
  IF i \in Calls(p) THEN Nearest({IF shortest[f] = 0 THEN 0 ELSE 1 + shortest[f] : f \in p.calls[i]}) ELSE 1

Beyond(p, i, through, dist) ==
  IF through = 0 THEN 0 ELSE Nearest({IF dist[s] = 0 THEN 0 ELSE through + dist[s] : s \in p.succs[i]})

\* A slip: a call counts as one instruction, whether or not its targets return.
ReturnAtPlain(p, d, i) ==
  LET best == Nearer(d[i], Beyond(p, i, 1, d))
  IN IF i \in Range(p.entry) THEN [d EXCEPT ![i] = best, ![p.n + p.fn[i]] = best] ELSE [d EXCEPT ![i] = best]

\* One instruction of a sweep over all of them, for the distance to a return.  The shortest
\* path through function f is at p.n + f.
ReturnAt(p, d, i) ==
  LET through == bestThrough(p, i, SubSeq(d, p.n + 1, p.n + p.functions))
      best == Nearer(d[i], Beyond(p, i, through, d))
  IN IF through = 0 THEN d
     ELSE IF i \in Range(p.entry) THEN [d EXCEPT ![i] = best, ![p.n + p.fn[i]] = best]
     ELSE [d EXCEPT ![i] = best]

\* A sweep goes over the instructions from the last to the first, until nothing changes.
RECURSIVE ReturnSweep(_, _, _)
ReturnSweep(p, d, i) == IF i = 0 THEN d ELSE ReturnSweep(p, ReturnAt(p, d, i), i - 1)

RECURSIVE ReturnSweeps(_, _)
ReturnSweeps(p, d) ==
  LET next == ReturnSweep(p, d, p.n)
  IN IF next = d THEN d ELSE ReturnSweeps(p, next)

\* minDistToReturn, with functionShortestPath after it.
minDistToReturn(p) ==
  ReturnSweeps(p, [i \in 1 .. p.n + p.functions |-> IF i \in p.rets \/ i - p.n \in p.returning THEN 1 ELSE 0])

functionShortestPath(p) == SubSeq(minDistToReturn(p), p.n + 1, p.n + p.functions)

\* The index of a called function in the statistics, which is none of an instruction.
FunctionInfo(p, f) == p.n + f

UncoveredAt(p, shortest, dist, i) ==
  LET callees == IF i \in Calls(p) THEN {FunctionInfo(p, f) : f \in p.calls[i] \cap DOMAIN p.entry} ELSE {}
      inside  == Nearest({IF dist[c] = 0 THEN 0 ELSE 1 + dist[c] : c \in callees})
  IN [dist EXCEPT ![i] = Nearer(Nearer(@, inside), Beyond(p, i, bestThrough(p, i, shortest), dist))]

RECURSIVE UncoveredSweep(_, _, _, _)
UncoveredSweep(p, shortest, dist, i) ==
  IF i = 0 THEN dist ELSE UncoveredSweep(p, shortest, UncoveredAt(p, shortest, dist, i), i - 1)

RECURSIVE UncoveredSweeps(_, _, _)
UncoveredSweeps(p, shortest, dist) ==
  LET next == UncoveredSweep(p, shortest, dist, p.n)
  IN IF next = dist THEN dist ELSE UncoveredSweeps(p, shortest, next)

minDistToUncovered(p, uncovered) ==
  UncoveredSweeps(p, functionShortestPath(p),
                  [i \in 1 .. p.n + p.functions |-> IF i \in uncovered THEN 1 ELSE 0])

\* From an instruction of the frame on top, or past a call of one below it, given the
\* distance after the return from the frame.
computeMinDistToUncovered(p, uncovered, i, minDistAtRA) ==
  LET local == minDistToUncovered(p, uncovered)[i]
      toReturn == minDistToReturn(p)[i]
  IN IF minDistAtRA = 0 \/ toReturn = 0 THEN local ELSE Nearer(local, toReturn + minDistAtRA)

\* The distance of a state: from the frame at the bottom up, each frame's distance on return
\* is that of the frame below.  where has the next instruction of each frame.
RECURSIVE StateDistance(_, _, _, _)
StateDistance(p, uncovered, where, onReturn) ==
  IF where = << >> THEN onReturn
  ELSE StateDistance(p, uncovered, Tail(where), computeMinDistToUncovered(p, uncovered, Head(where), onReturn))
-----------------------------------------------------------------------------
\* A run of n instructions leads from i to a return from its function, and including it.
RECURSIVE ReturnsIn(_, _, _)
ReturnsIn(p, i, n) ==
  \/ i \in p.rets /\ n = 1
  \/ i \notin Calls(p) /\ n > 1 /\ \E s \in p.succs[i] : ReturnsIn(p, s, n - 1)
  \/ i \in Calls(p) /\ \E f \in p.calls[i], k \in 1 .. n - 2 :
       /\ IF f \in DOMAIN p.entry THEN ReturnsIn(p, p.entry[f], k) ELSE f \in p.returning /\ k = 1
       /\ \E s \in p.succs[i] : ReturnsIn(p, s, n - 1 - k)

\* A run of n instructions leads from i to an uncovered one, through or into the functions
\* it calls.
RECURSIVE ReachesIn(_, _, _, _)
ReachesIn(p, uncovered, i, n) ==
  \/ i \in uncovered /\ n = 1
  \/ i \notin Calls(p) /\ n > 1 /\ \E s \in p.succs[i] : ReachesIn(p, uncovered, s, n - 1)
  \/ i \in Calls(p) /\ n > 1 /\ \E f \in p.calls[i] :
       \/ f \in DOMAIN p.entry /\ ReachesIn(p, uncovered, p.entry[f], n - 1)
       \/ \E k \in 1 .. n - 2 :
            /\ IF f \in DOMAIN p.entry THEN ReturnsIn(p, p.entry[f], k) ELSE f \in p.returning /\ k = 1
            /\ \E s \in p.succs[i] : ReachesIn(p, uncovered, s, n - 1 - k)

\* The same for a stack of frames, the top one last.
RECURSIVE StackReachesIn(_, _, _, _)
StackReachesIn(p, uncovered, where, n) ==
  where # << >> /\
    \/ ReachesIn(p, uncovered, Last(where), n)
    \/ \E k \in 1 .. n - 1 : ReturnsIn(p, Last(where), k) /\ StackReachesIn(p, uncovered, Front(where), n - k)
=============================================================================
