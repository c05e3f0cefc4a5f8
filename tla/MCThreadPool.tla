---------------------------- MODULE MCThreadPool ----------------------------
(* A small instance of ThreadPool: see the .cfg files. *)
EXTENDS ThreadPool, TLC

CONSTANTS p1, p2, main, w1, w2

MCProducers == {p1, p2}
MCWorkers == {w1, w2}
MCPools == {{w1}, {w2}, {w1, w2}}
MCPoolSizes == {{w1}, {w1, w2}}

\* Producers are alike, and so are workers (safety runs only).
Symmetric == Permutations(MCProducers) \cup Permutations(MCWorkers)
=============================================================================
