----------------------------- MODULE StatePool -----------------------------
(***************************************************************************)
(* What the executor relies on when it drives a searcher (Searcher.h       *)
(* 33-58): the searcher keeps a pool of states; it learns of created and   *)
(* killed states before the executor commits them; and a state is picked   *)
(* only when the pool is exactly the set of live states.  How the pool is  *)
(* ordered is the searcher's own business.                                 *)
(***************************************************************************)
CONSTANTS State, NULL

VARIABLES live,     \* the states of the executor
          created,  \* states made by the running instruction
          killed,   \* states terminated by it
          pool,     \* the states the searcher knows
          picked    \* the state that runs, or NULL

poolVars == <<live, created, killed, pool, picked>>

PoolInit ==
  /\ live \in {{s} : s \in State} /\ pool = live
  /\ created = {} /\ killed = {} /\ picked = NULL

\* selectState
Pick ==
  /\ pool = live /\ created = {} /\ killed = {}
  /\ picked' \in pool
  /\ UNCHANGED <<live, created, killed, pool>>

\* The running instruction forks, or ends states; nothing runs while states are killed
\* for their memory.
Create(c) ==
  /\ picked # NULL /\ c \notin live \cup created
  /\ created' = created \cup {c}
  /\ UNCHANGED <<live, killed, pool, picked>>
Discard(c) ==
  /\ c \in created \ pool
  /\ created' = created \ {c}
  /\ UNCHANGED <<live, killed, pool, picked>>
Kill ==
  /\ \/ picked \in live /\ killed' = killed \cup {picked} /\ UNCHANGED picked
     \/ killed' \in SUBSET live /\ killed = {} /\ picked' = NULL
  /\ UNCHANGED <<live, created, pool>>

\* update, in one call or state by state: some created states are learned, some killed ones
\* forgotten.
Update ==
  /\ \E new \in SUBSET created, gone \in SUBSET killed : pool' = (pool \cup new) \ gone
  /\ UNCHANGED <<live, created, killed, picked>>

\* updateStates, after update: the pool is already what the live states become.
Commit ==
  /\ pool = (live \cup created) \ killed
  /\ live' = pool /\ created' = {} /\ killed' = {} /\ picked' \in {picked, NULL}
  /\ UNCHANGED pool

\* run returns: the searcher is deleted, and the states left are terminated.
Close ==
  /\ live' = {} /\ pool' = {}
  /\ UNCHANGED <<created, killed, picked>>

PoolNext ==
  \/ Pick \/ Kill \/ Update \/ Commit \/ Close
  \/ \E s \in State : Create(s) \/ Discard(s)
PoolSpec == PoolInit /\ [][PoolNext]_poolVars
=============================================================================
