---------------------------- MODULE MCScheduling ----------------------------
(***************************************************************************)
(* Command lines for module Scheduling.                                    *)
(***************************************************************************)
EXTENDS Scheduling

Plain(kinds) ==
  [cores |-> kinds, batching |-> FALSE, deepening |-> FALSE, merging |-> FALSE,
   incomplete |-> FALSE, compress |-> FALSE, maxMemory |-> TRUE, seeds |-> FALSE]

\* Every wrapper on its own and over the others, the default pair of searchers, and the
\* tree with and without compression.
CommandLines ==
  {[Plain(<<"DFS">>) EXCEPT !.batching = TRUE, !.compress = TRUE],
   [Plain(<<"BFS">>) EXCEPT !.compress = TRUE, !.deepening = TRUE],
   [Plain(<<"RandomPath", "CoveringNew">>) EXCEPT !.seeds = TRUE],
   [Plain(<<"RandomPath", "RandomPath">>) EXCEPT !.deepening = TRUE, !.compress = TRUE],
   [Plain(<<"Depth">>) EXCEPT !.compress = TRUE, !.deepening = TRUE, !.batching = TRUE, !.seeds = TRUE],
   [Plain(<<"CoveringNew">>) EXCEPT !.compress = TRUE, !.merging = TRUE, !.maxMemory = FALSE],
   [Plain(<<"RandomState">>) EXCEPT !.compress = TRUE, !.merging = TRUE, !.maxMemory = FALSE,
                                    !.incomplete = TRUE],
   [Plain(<<"RandomPath">>) EXCEPT !.merging = TRUE, !.maxMemory = FALSE],
   [Plain(<<"BFS">>) EXCEPT !.compress = TRUE, !.merging = TRUE, !.maxMemory = FALSE,
                            !.deepening = TRUE, !.batching = TRUE]}

HandlerIds == 1 .. 2
=============================================================================
