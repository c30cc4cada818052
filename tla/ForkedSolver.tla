---------------------------- MODULE ForkedSolver ----------------------------
(***************************************************************************)
(* runAndGetCexForked of STPSolver and MetaSMTSolver: the query is solved  *)
(* in a child process, which leaves its counterexample in shared memory    *)
(* and its verdict in the exit code.  The alarm ends a child at any point; *)
(* the memory keeps the bytes of earlier queries.                          *)
(***************************************************************************)
EXTENDS Integers, Sequences

CONSTANTS SmallSizes,   \* how many bytes the objects of a query have together
          Word8,        \* values of a byte
          MaxRuns       \* bound: queries of a behaviour

VARIABLES
  shm,      \* shared_memory_ptr[]
  parent,   \* "idle", "waiting", or the SolverRunStatus of the last query
  child,    \* "none", "solving", "writing", or its exit code
  size,     \* bytes the objects of the query have
  cex,      \* the counterexample of this query's child, NoCex if the query is valid
  written,  \* how many bytes the child has written
  values,   \* the values given to the caller
  runs      \* queries so far

forkVars == <<shm, parent, child, size, cex, written, values, runs>>

NoCex == << >>
MaxSize == CHOOSE n \in SmallSizes : \A k \in SmallSizes : k <= n

ForkInit ==
  /\ shm = [i \in 1 .. MaxSize |-> 0]
  /\ parent = "idle" /\ child = "none" /\ size = 0 /\ cex = NoCex /\ written = 0
  /\ values = NoCex /\ runs = 0

Finished == parent \notin {"idle", "waiting"}

\* fork, or its failure; whether there is a counterexample is for the solver to find out.
StartQuery(n) ==
  /\ parent # "waiting" /\ runs < MaxRuns /\ runs' = runs + 1
  /\ size' = n /\ written' = 0 /\ values' = NoCex
  /\ \/ /\ parent' = "waiting" /\ child' = "solving"
        /\ cex' \in [1 .. n -> Word8] \cup {NoCex}
     \/ /\ parent' = "FORK_FAILED" /\ child' = "none" /\ cex' = NoCex
  /\ UNCHANGED shm

\* vc_query returns: the child exits with 1 if the query is valid, else it writes.
Solved ==
  /\ child = "solving"
  /\ child' = IF cex = NoCex THEN "1" ELSE "writing"
  /\ UNCHANGED <<shm, parent, size, cex, written, values, runs>>

\* One byte of the counterexample; after the last one the child exits with 0.
WriteByte ==
  /\ child = "writing" /\ written < size
  /\ shm' = [shm EXCEPT ![written + 1] = cex[written + 1]]
  /\ written' = written + 1
  /\ UNCHANGED <<parent, child, size, cex, values, runs>>
ExitSolved ==
  /\ child = "writing" /\ written = size
  /\ child' = "0"
  /\ UNCHANGED <<shm, parent, size, cex, written, values, runs>>

\* Mutant: the handler of SIGALRM exits like a child that found a counterexample.
TimeoutCodeZero == "0"

\* stpTimeoutHandler, metaSMTTimeoutHandler
TimeoutCode == "52"
Alarm ==
  /\ child \in {"solving", "writing"}
  /\ child' = TimeoutCode
  /\ UNCHANGED <<shm, parent, size, cex, written, values, runs>>

\* The child crashes, or exits with a code of its own.
Crash ==
  /\ child \in {"solving", "writing"}
  /\ child' \in {"signalled", "255"}
  /\ UNCHANGED <<shm, parent, size, cex, written, values, runs>>

\* A signal is tested first, then the exit code.
StatusOf(code) ==
  CASE code = "signalled" -> "INTERRUPTED"
    [] code = "0" -> "SUCCESS_SOLVABLE"
    [] code = "1" -> "SUCCESS_UNSOLVABLE"
    [] code = "52" -> "TIMEOUT"
    [] OTHER -> "UNEXPECTED_EXIT_CODE"
\* Mutant: waitpid is called again if a signal ended the child.
WaitForExit ==
  /\ parent = "waiting" /\ child \notin {"none", "solving", "writing", "signalled"}
  /\ parent' = StatusOf(child)
  /\ values' = IF parent' = "SUCCESS_SOLVABLE" THEN SubSeq(shm, 1, size) ELSE NoCex
  /\ child' = "none"
  /\ UNCHANGED <<shm, size, cex, written, runs>>

\* waitpid returns, or fails.
Wait ==
  /\ parent = "waiting" /\ child \notin {"none", "solving", "writing"}
  /\ \/ /\ parent' = StatusOf(child)
        /\ values' = IF parent' = "SUCCESS_SOLVABLE" THEN SubSeq(shm, 1, size) ELSE NoCex
     \/ parent' = "WAITPID_FAILED" /\ values' = NoCex
  /\ child' = "none"
  /\ UNCHANGED <<shm, size, cex, written, runs>>

ForkNext ==
  \/ \E n \in SmallSizes : StartQuery(n)
  \/ Solved \/ WriteByte \/ ExitSolved \/ Alarm \/ Crash \/ Wait

\* The child runs on, and waitpid returns once it has ended.
ForkSpec == ForkInit /\ [][ForkNext]_forkVars
            /\ WF_forkVars(Solved) /\ WF_forkVars(WriteByte) /\ WF_forkVars(ExitSolved)
            /\ WF_forkVars(Wait)
-----------------------------------------------------------------------------
\* The values a query gives its caller are its own counterexample, whole: never bytes of an
\* earlier query, although the alarm may end the child between two bytes (runAndGetCexForked).
ValuesAreTheChilds ==
  parent \in {"SUCCESS_SOLVABLE", "SUCCESS_UNSOLVABLE"} => values = cex

\* Every query of runAndGetCexForked ends, with a result or a status that says why there is none.
QueryEnds == parent = "waiting" ~> Finished
=============================================================================
