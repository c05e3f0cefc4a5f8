---------------------------- MODULE BoundedQueue ----------------------------
(***************************************************************************)
(* What a circular queue promises: a sequence that holds the newest        *)
(* messages given to it, up to its capacity, and a count of those it lost. *)
(* A queue whose contents have been moved away is off until it is          *)
(* constructed or moved to again.                                          *)
(***************************************************************************)
EXTENDS Naturals, Sequences

CONSTANTS
    Queues,      \* the queue objects
    Items,       \* what they hold
    Capacities   \* capacities the queues are constructed with

VARIABLES
    on,     \* queues that are not off
    limit,  \* capacity of each queue
    items,  \* its contents, oldest first
    lost    \* how many it lost since the count was reset

vars == <<on, limit, items, lost>>

Init ==
    /\ on = {}
    /\ limit = [q \in Queues |-> 0]
    /\ items = [q \in Queues |-> <<>>]
    /\ lost = [q \in Queues |-> 0]

\* The newest n items of s, which has at most one more.
Newest(s, n) == IF Len(s) > n THEN Tail(s) ELSE s

Construct(q, n) ==
    /\ on' = on \cup {q}
    /\ limit' = [limit EXCEPT ![q] = n]
    /\ items' = [items EXCEPT ![q] = <<>>]
    /\ lost' = [lost EXCEPT ![q] = 0]

Push(q, x) ==
    /\ q \in on
    /\ items' = [items EXCEPT ![q] = Newest(Append(@, x), limit[q])]
    /\ lost' = [lost EXCEPT ![q] = IF Len(items[q]) = limit[q] THEN @ + 1 ELSE @]
    /\ UNCHANGED <<on, limit>>

Pop(q) ==
    /\ items[q] # <<>>
    /\ items' = [items EXCEPT ![q] = Tail(@)]
    /\ UNCHANGED <<on, limit, lost>>

ResetCount(q) ==
    /\ lost' = [lost EXCEPT ![q] = 0]
    /\ UNCHANGED <<on, limit, items>>

\* The contents of queue p become those of q; p is off.
Move(q, p) ==
    /\ on' = IF p \in on THEN (on \cup {q}) \ {p} ELSE on \ {q}
    /\ limit' = [limit EXCEPT ![q] = limit[p], ![p] = 0]
    /\ items' = [items EXCEPT ![q] = items[p], ![p] = <<>>]
    /\ lost' = [lost EXCEPT ![q] = lost[p], ![p] = 0]

\* Queue q becomes a copy of queue p.
Copy(q, p) ==
    /\ on' = IF p \in on THEN on \cup {q} ELSE on \ {q}
    /\ limit' = [limit EXCEPT ![q] = limit[p]]
    /\ items' = [items EXCEPT ![q] = items[p]]
    /\ lost' = [lost EXCEPT ![q] = lost[p]]

Next ==
    \/ \E q \in Queues, n \in Capacities : Construct(q, n)
    \/ \E q \in Queues, x \in Items : Push(q, x)
    \/ \E q \in Queues : Pop(q) \/ ResetCount(q)
    \/ \E q, p \in Queues : q # p /\ (Move(q, p) \/ Copy(q, p))

Spec == Init /\ [][Next]_vars
=============================================================================
