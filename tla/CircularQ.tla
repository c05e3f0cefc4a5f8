----------------------------- MODULE CircularQ -----------------------------
(***************************************************************************)
(* details::circular_q (src/include/spdlog/details/circular_q.h): a ring   *)
(* of max_items_ slots, one of which stays free, with the index of the     *)
(* oldest item and the index behind the newest.  It holds the backtracer's *)
(* messages, the queue of the thread pool and the names of daily files.    *)
(* A queue is used by one thread at a time.                                *)
(***************************************************************************)
EXTENDS Integers, Sequences

CONSTANTS
    Queues,      \* the queue objects
    Items,       \* what they hold
    NoItem,      \* a default-constructed T
    Capacities,  \* values of the constructor's max_items
    MaxLost      \* bound of the model: overruns counted

ASSUME CapacityAssumption == Capacities \subseteq Nat
ASSUME LostAssumption     == MaxLost \in Nat
ASSUME ItemAssumption     == NoItem \notin Items

Objects == Items \cup {NoItem}

VARIABLES max_items_, head_, tail_, overrun_counter_, v_

vars == <<max_items_, head_, tail_, overrun_counter_, v_>>

Init ==
    /\ max_items_ = [q \in Queues |-> 0]
    /\ head_ = [q \in Queues |-> 0]
    /\ tail_ = [q \in Queues |-> 0]
    /\ overrun_counter_ = [q \in Queues |-> 0]
    /\ v_ = [q \in Queues |-> [j \in 0..-1 |-> NoItem]]

-----------------------------------------------------------------------------
(* Functions of the class that change nothing.                             *)

\* (j + 1) % max_items_ of an index j.  (Variant: without the remainder.)
After_NoWrap(q, j) == j + 1
After(q, j) == (j + 1) % max_items_[q]

empty(q) == tail_[q] = head_[q]

full(q) == max_items_[q] > 0 /\ After(q, tail_[q]) = head_[q]

\* (Variant: the branch for a tail in front of the head forgotten.)
size_NoWrap(q) == IF tail_[q] >= head_[q] THEN tail_[q] - head_[q] ELSE max_items_[q]
size(q) ==
    IF tail_[q] >= head_[q] THEN tail_[q] - head_[q]
    ELSE max_items_[q] - (head_[q] - tail_[q])

at(q, n) == v_[q][(head_[q] + n) % max_items_[q]]

front(q) == v_[q][head_[q]]

\* The first index after an overrun.  (Variant: the oldest item stays.)
HeadAfterPush_Stays(q, tail) == head_[q]
HeadAfterPush(q, tail) == IF tail = head_[q] THEN After(q, head_[q]) ELSE head_[q]

-----------------------------------------------------------------------------
(* Functions that do.                                                      *)

\* circular_q(max_items)
construct(q, max_items) ==
    /\ max_items_' = [max_items_ EXCEPT ![q] = max_items + 1]
    /\ head_' = [head_ EXCEPT ![q] = 0]
    /\ tail_' = [tail_ EXCEPT ![q] = 0]
    /\ overrun_counter_' = [overrun_counter_ EXCEPT ![q] = 0]
    /\ v_' = [v_ EXCEPT ![q] = [j \in 0..max_items |-> NoItem]]

\* push_back: nothing happens in a queue that has been moved from.
push_back(q, item) ==
    /\ max_items_[q] > 0
    /\ overrun_counter_[q] < MaxLost
    /\ v_' = [v_ EXCEPT ![q][tail_[q]] = item]
    /\ tail_' = [tail_ EXCEPT ![q] = After(q, @)]
    /\ head_' = [head_ EXCEPT ![q] = HeadAfterPush(q, After(q, tail_[q]))]
    /\ overrun_counter_' =
        [overrun_counter_ EXCEPT ![q] = IF After(q, tail_[q]) = head_[q] THEN @ + 1 ELSE @]
    /\ UNCHANGED max_items_

\* pop_front: undefined for an empty queue, which no caller pops.
pop_front(q) ==
    /\ ~empty(q)
    /\ head_' = [head_ EXCEPT ![q] = After(q, @)]
    /\ UNCHANGED <<max_items_, tail_, overrun_counter_, v_>>

reset_overrun_counter(q) ==
    /\ overrun_counter_' = [overrun_counter_ EXCEPT ![q] = 0]
    /\ UNCHANGED <<max_items_, head_, tail_, v_>>

\* copy_moveable: q takes everything of other, which is left disabled.
copy_moveable(q, other) ==
    /\ max_items_' = [max_items_ EXCEPT ![q] = max_items_[other], ![other] = 0]
    /\ head_' = [head_ EXCEPT ![q] = head_[other], ![other] = 0]
    /\ tail_' = [tail_ EXCEPT ![q] = tail_[other], ![other] = 0]
    /\ overrun_counter_' =
        [overrun_counter_ EXCEPT ![q] = overrun_counter_[other], ![other] = 0]
    /\ v_' = [v_ EXCEPT ![q] = v_[other], ![other] = [j \in 0..-1 |-> NoItem]]

\* The defaulted copy constructor and assignment: member by member.
copy(q, other) ==
    /\ max_items_' = [max_items_ EXCEPT ![q] = max_items_[other]]
    /\ head_' = [head_ EXCEPT ![q] = head_[other]]
    /\ tail_' = [tail_ EXCEPT ![q] = tail_[other]]
    /\ overrun_counter_' = [overrun_counter_ EXCEPT ![q] = overrun_counter_[other]]
    /\ v_' = [v_ EXCEPT ![q] = v_[other]]

Next ==
    \/ \E q \in Queues, n \in Capacities : construct(q, n)
    \/ \E q \in Queues, x \in Items : push_back(q, x)
    \/ \E q \in Queues : pop_front(q) \/ reset_overrun_counter(q)
    \/ \E q, other \in Queues : q # other /\ (copy_moveable(q, other) \/ copy(q, other))

Spec == Init /\ [][Next]_vars

-----------------------------------------------------------------------------
(* Properties.                                                             *)

\* The array of one queue and its indices: v_ has max_items_ slots, and the
\* indices lie in it.
RingOK(q) ==
    /\ max_items_[q] \in Nat /\ overrun_counter_[q] \in Nat
    /\ v_[q] \in [0..max_items_[q] - 1 -> Objects]
    /\ IF max_items_[q] = 0 THEN head_[q] = 0 /\ tail_[q] = 0
       ELSE head_[q] \in 0..max_items_[q] - 1 /\ tail_[q] \in 0..max_items_[q] - 1

RingsOK ==
    /\ max_items_ \in [Queues -> Nat]
    /\ head_ \in [Queues -> Nat] /\ tail_ \in [Queues -> Nat]
    /\ overrun_counter_ \in [Queues -> Nat]
    /\ v_ = [q \in Queues |-> v_[q]]
    /\ \A q \in Queues : RingOK(q)

\* The contents, read through size() and at().
Contents(q) == [n \in 1..size(q) |-> at(q, n - 1)]

\* Every slot between the indices holds an item that was pushed, never the
\* default-constructed T of an unused one.
Filled == \A q \in Queues : Contents(q) \in Seq(Items)

\* The indices of every queue lie in its array, and every slot between them
\* holds an item (circular_q.h:15-19, 48-62, 131-143).
TypeOK == RingsOK /\ Filled

Abstract == INSTANCE BoundedQueue WITH
    on    <- {q \in Queues : max_items_[q] > 0},
    limit <- [q \in Queues |-> IF max_items_[q] > 0 THEN max_items_[q] - 1 ELSE 0],
    items <- [q \in Queues |-> Contents(q)],
    lost  <- overrun_counter_

\* circular_q keeps the newest max_items messages in order and counts the lost
\* ones (circular_q.h:4, 48-62), through overruns, wrapped indices and moves.
KeepsNewest == Abstract!Spec

\* full() and empty() agree with the contents (circular_q.h:104-117).
SizesAgree ==
    \A q \in Queues :
        /\ empty(q) <=> Contents(q) = <<>>
        /\ full(q) <=> max_items_[q] > 0 /\ Len(Contents(q)) = max_items_[q] - 1
        /\ Contents(q) # <<>> => front(q) = Head(Contents(q))
=============================================================================
