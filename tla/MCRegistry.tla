----------------------------- MODULE MCRegistry -----------------------------
(* A small instance of Registry: two threads, two periodic workers, a logger  *)
(* that the constructor makes or a thread does, an asynchronous one of the    *)
(* same name, and one pool.                                                   *)
EXTENDS Registry

CONSTANTS c1, c2, a, s, w1, w2, p, null

MCCallers == {c1, c2}
MCWorkers == {w1, w2}
MCLoggers == {a, s}
Asynchronous == {a}
NamedAlike == [l \in MCLoggers |-> "one"]
MCPools == {p}
MCDefaults == {s, null}
=============================================================================
