----------------------------- MODULE LogChannel -----------------------------
(***************************************************************************)
(* What an asynchronous logger relies on: a channel that hands messages on *)
(* in the order they were posted.  A blocking post waits for room; another *)
(* post may push out the oldest message, which is counted.  The channel is *)
(* closed only when everything it took has been dealt with.                *)
(***************************************************************************)
EXTENDS Naturals, Sequences

CONSTANTS
    Messages,  \* what is posted
    Capacity

VARIABLES
    blocking, \* the messages that blocking calls post
    open,     \* whether the channel may be used
    waiting,  \* messages not handed on yet, oldest first
    hands,    \* messages handed on and not dealt with yet
    lost      \* how many were pushed out since the count was reset

vars == <<blocking, open, waiting, hands, lost>>

Init ==
    /\ blocking \subseteq Messages
    /\ open = TRUE /\ waiting = <<>> /\ hands = {} /\ lost = 0

Post(m) ==
    /\ open
    /\ Len(waiting) < Capacity
    /\ waiting' = Append(waiting, m)
    /\ UNCHANGED <<blocking, open, hands, lost>>

PushOut(m) ==
    /\ open /\ m \notin blocking
    /\ Len(waiting) = Capacity
    /\ waiting' = Append(Tail(waiting), m)
    /\ lost' = lost + 1
    /\ UNCHANGED <<blocking, open, hands>>

HandOn ==
    /\ waiting # <<>>
    /\ hands' = hands \cup {Head(waiting)}
    /\ waiting' = Tail(waiting)
    /\ UNCHANGED <<blocking, open, lost>>

Finish(m) ==
    /\ m \in hands
    /\ hands' = hands \ {m}
    /\ UNCHANGED <<blocking, open, waiting, lost>>

ResetCount == lost' = 0 /\ UNCHANGED <<blocking, open, waiting, hands>>

Close ==
    /\ open /\ waiting = <<>> /\ hands = {}
    /\ open' = FALSE
    /\ UNCHANGED <<blocking, waiting, hands, lost>>

Next ==
    \/ \E m \in Messages : Post(m) \/ PushOut(m) \/ Finish(m)
    \/ HandOn \/ ResetCount \/ Close

Spec == Init /\ [][Next]_vars
=============================================================================
