-------------------------- MODULE ThreadPoolProofs --------------------------
(***************************************************************************)
(* Proofs about ThreadPool, for any numbers of producers, workers and      *)
(* calls and any capacity of the queue.                                    *)
(***************************************************************************)
EXTENDS ThreadPool, TLAPS, FiniteSetTheorems

USE ThreadsAssumption, WorkersAssumption, ItemsAssumption, KindsAssumption,
    PoliciesAssumption, CallsAssumption

Posting(t) == pc[t] \in {"enqueue", "room", "pushed"}
Holding(w) == pc[w] \in {"taken", "write", "flush"}

\* Posting a message, and destroying the pool.
Sending(t)    == Posting(t) /\ item[t] # Terminate
Destroying(t) == pc[t] = "destruct" \/ (Posting(t) /\ item[t] = Terminate)

\* Those who hold the pool are the registry, until it drops it, and the threads
\* that post; whoever destroys it does so alone.
OwnersInv ==
    /\ \A t \in Posters : Sending(t) => t \in owners /\ t \in Producers /\ item[t].by = t
    /\ \A t \in owners : t = Registry \/ Sending(t)
    /\ Registry \in owners => pc[Registry] = "idle"
    /\ \A t \in Posters : Destroying(t) => owners = {} /\ ~destroyed
    /\ \A t, u \in Posters : Destroying(t) /\ Destroying(u) => t = u
    /\ destroyed => owners = {}
    /\ owners # {} => terminating = 0
    /\ \A t \in Posters : Posting(t) /\ item[t] = Terminate => terminating < Cardinality(threads_)

\* Workers that have taken a terminate message.
Ended == {w \in threads_ : item[w] = Terminate /\ pc[w] \in {"taken", "exited"}}

\* A terminate message is in the queue and not yet counted.
Uncounted == \E t \in Posters : pc[t] = "pushed" /\ item[t] = Terminate

\* Terminate messages in the queue, and messages in it.
Sentinels == (IF Uncounted THEN terminating + 1 ELSE terminating) - Cardinality(Ended)
InQueue == Len(q) - Sentinels

\* How many messages have left the queue.
Gone == Len(posted) - InQueue
Left(m) == \E j \in 1..Gone : m = posted[j]

\* The queue holds the newest messages in the order of their posts, and then the
\* terminate messages; these are taken when no message is left.
QueueInv ==
    /\ Sentinels \in 0..Len(q) /\ InQueue <= Len(posted)
    /\ \A i \in 1..Len(q) : q[i] = IF i <= InQueue THEN posted[Gone + i] ELSE Terminate
    /\ Ended # {} => InQueue = 0
    /\ owners # {} => Ended = {} /\ Sentinels = 0
    /\ \A w \in threads_ : pc[w] = "exited" => item[w] = Terminate
    /\ \A w \in threads_ : pc[w] \in {"write", "flush"} => item[w] # Terminate
    /\ destroyed => terminating = Cardinality(threads_) /\ \A w \in threads_ : pc[w] = "exited"

\* No message is posted twice.
PostedInv ==
    /\ \A i, j \in DOMAIN posted : posted[i] = posted[j] => i = j
    /\ \A i \in DOMAIN posted : posted[i].n <= calls
    /\ \A t \in Posters : Sending(t) => item[t].n <= calls
    /\ \A t \in Posters : Sending(t) /\ pc[t] # "pushed" => \A i \in DOMAIN posted : posted[i] # item[t]

\* A message that has left the queue was overrun, or one worker has it in hand,
\* or it was dealt with.
PlacesInv ==
    /\ \A w \in threads_ : Holding(w) /\ item[w] # Terminate => Left(item[w]) /\ item[w] \notin lost
    /\ \A w \in threads_ : pc[w] = "taken" \/ pc[w] = "write" => item[w] \notin sunk
    /\ \A v, w \in threads_ : Holding(v) /\ Holding(w) /\ item[v] = item[w] /\ item[v] # Terminate => v = w
    /\ \A m \in lost \cup sunk : Left(m)
    /\ lost \cap sunk = {}
    /\ \A j \in 1..Gone :
          \/ posted[j].kind # "log" \/ posted[j] \in lost \cup sunk
          \/ \E w \in threads_ : pc[w] \in {"taken", "write"} /\ item[w] = posted[j]

Inv == TypeOK /\ OwnersInv /\ QueueInv /\ PostedInv /\ PlacesInv

-----------------------------------------------------------------------------
(* What a step does to the places of the other threads.                    *)

\* Places that differ only in whether a thread has to test its condition again.
Alike(a, b) ==
    a = b \/ {a, b} \subseteq {"enqueue", "room"} \/ {a, b} \subseteq {"dequeue", "item"}

LEMMA ThreadKinds ==
    /\ \A t \in Posters : t \in Threads /\ t \notin Workers
    /\ \A w \in Workers : w \in Threads /\ w \notin Posters
    /\ Threads = Posters \cup Workers
    BY DEF Posters, Threads

LEMMA TerminateIsNone == Terminate \notin Message
    BY DEF Terminate, Message

LEMMA PoolWorkers ==
    ASSUME TypeOK
    PROVE  /\ threads_ \subseteq Workers /\ threads_ # {} /\ IsFiniteSet(threads_)
           /\ Cardinality(threads_) \in Nat
<1>1. threads_ \in (SUBSET Workers) \ {{}}
    BY DEF TypeOK
<1>2. threads_ \subseteq Workers /\ threads_ # {}
    BY <1>1
<1>3. IsFiniteSet(threads_)
    BY <1>2, FS_Subset
<1> QED BY <1>2, <1>3, FS_CardinalityType

LEMMA AlikeSame ==
    ASSUME NEW a, NEW b, Alike(a, b)
    PROVE  /\ a \in {"enqueue", "room"} <=> b \in {"enqueue", "room"}
           /\ a \in {"dequeue", "item"} <=> b \in {"dequeue", "item"}
           /\ a \in PosterPlaces <=> b \in PosterPlaces
           /\ a \in WorkerPlaces <=> b \in WorkerPlaces
           /\ \A place \in {"idle", "pushed", "destruct", "taken", "write", "flush", "exited"} :
                 a = place <=> b = place
    BY DEF Alike, PosterPlaces, WorkerPlaces

\* t goes on at place, and some others may have to test their condition again.
Moves(t, place) ==
    /\ pc' \in [Threads -> PosterPlaces \cup WorkerPlaces]
    /\ pc'[t] = place
    /\ \A u \in Threads \ {t} : Alike(pc[u], pc'[u])

LEMMA GotoMoves ==
    ASSUME TypeOK, NEW t \in Threads, NEW place \in PosterPlaces \cup WorkerPlaces, Goto(t, place)
    PROVE  Moves(t, place)
    BY DEF TypeOK, Goto, Moves, Alike

LEMMA NotifyMoves ==
    ASSUME TypeOK, NEW t \in Threads, NEW place \in PosterPlaces \cup WorkerPlaces,
           NEW waiting \in SUBSET Threads, NEW wait, NEW again \in PosterPlaces \cup WorkerPlaces,
           Alike(wait, again), pc[t] # wait, NotifyOne(t, place, waiting, wait, again)
    PROVE  Moves(t, place)
<1>1. CASE Goto(t, place)
    BY <1>1, GotoMoves
<1>2. CASE \E u \in waiting : pc[u] = wait /\ pc' = [pc EXCEPT ![t] = place, ![u] = again]
    <2>1. PICK u \in waiting : pc[u] = wait /\ pc' = [pc EXCEPT ![t] = place, ![u] = again]
        BY <1>2
    <2>2. u # t /\ pc \in [Threads -> PosterPlaces \cup WorkerPlaces]
        BY <2>1 DEF TypeOK
    <2> QED BY <2>1, <2>2 DEF Moves, Alike
<1> QED BY <1>1, <1>2 DEF NotifyOne

LEMMA NotifyPushMoves ==
    ASSUME TypeOK, NEW t \in Posters, NotifyPush(t)
    PROVE  /\ pc[t] = "pushed"
           /\ Moves(t, IF item[t] = Terminate THEN "destruct" ELSE AfterRelease(t))
<1> DEFINE place == IF item[t] = Terminate THEN "destruct" ELSE AfterRelease(t)
<1>1. pc[t] = "pushed" /\ NotifyOne(t, place, threads_, "item", "dequeue")
    BY DEF NotifyPush, At
<1>2. place \in PosterPlaces
    BY DEF AfterRelease, PosterPlaces
<1>3. t \in Threads /\ threads_ \in SUBSET Threads
    BY ThreadKinds, PoolWorkers
<1>4. Alike("item", "dequeue") /\ "dequeue" \in WorkerPlaces
    BY DEF Alike, WorkerPlaces
<1> HIDE DEF place
<1> QED BY <1>1, <1>2, <1>3, <1>4, NotifyMoves DEF place

LEMMA NotifyPopMoves ==
    ASSUME TypeOK, NEW w \in threads_, NotifyPop(w)
    PROVE  pc[w] = "taken" /\ Moves(w, Work(item[w])) /\ Work(item[w]) \in {"exited", "flush", "write"}
<1>1. pc[w] = "taken" /\ NotifyOne(w, Work(item[w]), Wakeable, "room", "enqueue")
    BY DEF NotifyPop, At
<1>2. Work(item[w]) \in {"exited", "flush", "write"}
    BY DEF Work
<1>3. w \in Threads /\ Wakeable \in SUBSET Threads
    BY ThreadKinds, PoolWorkers DEF Wakeable
<1>4. Alike("room", "enqueue") /\ "enqueue" \in PosterPlaces /\ {"exited", "flush", "write"} \subseteq WorkerPlaces
    BY DEF Alike, PosterPlaces, WorkerPlaces
<1> QED BY <1>1, <1>2, <1>3, <1>4, NotifyMoves

\* A step that changes nothing but the counters and whether threads have to
\* test their condition again.
Quiet ==
    /\ pc' \in [Threads -> PosterPlaces \cup WorkerPlaces]
    /\ \A u \in Threads : Alike(pc[u], pc'[u])
    /\ UNCHANGED <<overflow_policy_, threads_, destroyed, owners, terminating, q, posted, lost, item, sunk>>
    /\ calls' \in calls..MaxCalls /\ alive' \in BOOLEAN
    /\ overrun_counter' = 0 \/ overrun_counter' = overrun_counter

LEMMA QuietGoto ==
    ASSUME TypeOK, NEW t \in Threads, NEW place \in PosterPlaces \cup WorkerPlaces,
           Goto(t, place), Alike(pc[t], place),
           UNCHANGED <<pool, owners, terminating, queue, item, calls, sunk, alive>>
    PROVE  Quiet
<1>1. Moves(t, place)
    BY GotoMoves
<1>2. \A u \in Threads : Alike(pc[u], pc'[u])
    BY <1>1 DEF Moves
<1>3. calls' \in calls..MaxCalls /\ alive' \in BOOLEAN /\ overrun_counter' = overrun_counter
    BY DEF TypeOK, queue
<1> QED BY <1>1, <1>2, <1>3 DEF Moves, Quiet, pool, queue

LEMMA QuietSteps ==
    ASSUME TypeOK,
           \/ \E t \in Posters : WaitForRoom(t)
           \/ \E w \in threads_ : WaitForItem(w) \/ Abort(w)
           \/ \E p \in Producers : Refused(p)
           \/ ResetCounter \/ Spurious \/ UNCHANGED vars
    PROVE  Quiet
<1> USE DEF PosterPlaces, WorkerPlaces
<1>1. ASSUME NEW t \in Posters, WaitForRoom(t) PROVE Quiet
    <2>1. Alike(pc[t], "room") /\ t \in Threads
        BY <1>1, ThreadKinds DEF WaitForRoom, At, Alike
    <2> QED BY <1>1, <2>1, QuietGoto DEF WaitForRoom
<1>2. ASSUME NEW w \in threads_, WaitForItem(w) PROVE Quiet
    <2>1. Alike(pc[w], "item") /\ w \in Threads
        BY <1>2, ThreadKinds, PoolWorkers DEF WaitForItem, At, Alike
    <2> QED BY <1>2, <2>1, QuietGoto DEF WaitForItem
<1>3. ASSUME Spurious PROVE Quiet
    <2>1. CASE \E t \in Posters : pc[t] = "room" /\ Goto(t, "enqueue")
        <3>1. PICK t \in Posters : pc[t] = "room" /\ Goto(t, "enqueue")
            BY <2>1
        <3>2. Alike(pc[t], "enqueue") /\ t \in Threads
            BY <3>1, ThreadKinds DEF Alike
        <3> QED BY <1>3, <3>1, <3>2, QuietGoto DEF Spurious
    <2>2. CASE \E w \in threads_ : pc[w] = "item" /\ Goto(w, "dequeue")
        <3>1. PICK w \in threads_ : pc[w] = "item" /\ Goto(w, "dequeue")
            BY <2>2
        <3>2. Alike(pc[w], "dequeue") /\ w \in Threads
            BY <3>1, ThreadKinds, PoolWorkers DEF Alike
        <3> QED BY <1>3, <3>1, <3>2, QuietGoto DEF Spurious
    <2> QED BY <1>3, <2>1, <2>2 DEF Spurious
<1>4. CASE \/ \E w \in threads_ : Abort(w)
           \/ \E p \in Producers : Refused(p)
           \/ ResetCounter \/ UNCHANGED vars
    <2>1. UNCHANGED <<overflow_policy_, threads_, destroyed, owners, terminating, q, posted, lost, item, sunk, pc>>
        BY <1>4 DEF Abort, Refused, ResetCounter, vars, pool, queue
    <2>2. calls' = calls \/ (calls < MaxCalls /\ calls' = calls + 1)
        BY <1>4 DEF Abort, Refused, ResetCounter, vars
    <2>3. calls' \in calls..MaxCalls
        BY <2>2 DEF TypeOK
    <2>4. (alive' = FALSE \/ alive' = alive) /\ (overrun_counter' = 0 \/ overrun_counter' = overrun_counter)
        BY <1>4 DEF Abort, Refused, ResetCounter, vars, queue
    <2>5. alive \in BOOLEAN
        BY DEF TypeOK
    <2>6. alive' \in BOOLEAN
        BY <2>4, <2>5, Zenon
    <2> QED BY <2>1, <2>3, <2>4, <2>6 DEF Quiet, TypeOK, Alike
<1> QED BY <1>1, <1>2, <1>3, <1>4

\* The steps of the other actions.
Others ==
    \/ \E p \in Producers, kind \in Kinds : Call(p, kind)
    \/ Drop
    \/ \E t \in Posters : Push(t) \/ NotifyPush(t) \/ PostTerminate(t) \/ Join(t)
    \/ \E w \in threads_ : Take(w) \/ NotifyPop(w) \/ BackendSinkIt(w) \/ BackendFlush(w)

LEMMA NextSplit == TypeOK /\ [Next]_vars => Quiet \/ Others
    BY QuietSteps DEF Next, CallStep, WorkStep, Others

-----------------------------------------------------------------------------
(* Types.                                                                  *)

LEMMA MovesType ==
    ASSUME TypeOK, NEW t \in Threads, NEW place, Moves(t, place),
           place \in IF t \in Workers THEN WorkerPlaces ELSE PosterPlaces
    PROVE  /\ pc' \in [Threads -> PosterPlaces \cup WorkerPlaces]
           /\ \A u \in Threads : pc'[u] \in IF u \in Workers THEN WorkerPlaces ELSE PosterPlaces
<1>1. ASSUME NEW u \in Threads PROVE pc'[u] \in IF u \in Workers THEN WorkerPlaces ELSE PosterPlaces
    <2>1. CASE u = t
        BY <2>1 DEF Moves
    <2>2. CASE u # t
        BY <2>2, AlikeSame DEF Moves, TypeOK
    <2> QED BY <2>1, <2>2
<1> QED BY <1>1 DEF Moves

LEMMA QuietType == TypeOK /\ Quiet => TypeOK'
<1> SUFFICES ASSUME TypeOK, Quiet PROVE TypeOK'
    OBVIOUS
<1>1. ASSUME NEW u \in Threads PROVE pc'[u] \in IF u \in Workers THEN WorkerPlaces ELSE PosterPlaces
    BY AlikeSame DEF Quiet, TypeOK
<1>2. overrun_counter' \in Nat
    BY DEF Quiet, TypeOK
<1> QED BY <1>1, <1>2 DEF Quiet, TypeOK

LEMMA EndedCount == TypeOK => IsFiniteSet(Ended) /\ Cardinality(Ended) \in Nat
<1> SUFFICES ASSUME TypeOK PROVE IsFiniteSet(Ended) /\ Cardinality(Ended) \in Nat
    OBVIOUS
<1>1. Ended \subseteq threads_
    BY DEF Ended
<1> QED BY <1>1, PoolWorkers, FS_Subset, FS_CardinalityType

\* While someone holds the pool the queue holds messages only, the newest ones.
LEMMA NoTerminateHeld ==
    ASSUME TypeOK, QueueInv, owners # {}
    PROVE  /\ InQueue = Len(q) /\ Gone = Len(posted) - Len(q) /\ Gone \in Nat
           /\ \A i \in 1..Len(q) : q[i] = posted[Gone + i] /\ q[i] \in Message
           /\ q = <<>> \/ (Head(q) = posted[Gone + 1] /\ Head(q) \in Message)
<1>1. Len(q) \in Nat /\ Len(posted) \in Nat
    BY DEF TypeOK
<1>2. InQueue = Len(q) /\ Gone = Len(posted) - Len(q) /\ Gone \in Nat
    BY <1>1 DEF QueueInv, InQueue, Gone
<1>3. ASSUME NEW i \in 1..Len(q) PROVE q[i] = posted[Gone + i] /\ q[i] \in Message
    <2>1. q[i] = posted[Gone + i]
        BY <1>2 DEF QueueInv
    <2>2. Gone + i \in 1..Len(posted)
        BY <1>1, <1>2
    <2> QED BY <2>1, <2>2 DEF TypeOK
<1>4. q = <<>> \/ (Head(q) = q[1] /\ 1 \in 1..Len(q))
    BY DEF TypeOK
<1> QED BY <1>2, <1>3, <1>4

LEMMA NextType == TypeOK /\ OwnersInv /\ QueueInv /\ Others => TypeOK'
<1> SUFFICES ASSUME TypeOK, OwnersInv, QueueInv, Others PROVE TypeOK'
    OBVIOUS
<1> USE ThreadKinds, PoolWorkers DEF PosterPlaces, WorkerPlaces
<1>1. ASSUME NEW p \in Producers, NEW kind \in Kinds, Call(p, kind) PROVE TypeOK'
    <2>1. Moves(p, "enqueue") /\ p \in Posters
        BY <1>1, GotoMoves DEF Call, Posters
    <2>2. [by |-> p, n |-> calls + 1, kind |-> kind] \in Message
        BY <1>1 DEF Call, TypeOK, Message
    <2>3. item' \in [Threads -> Message \cup {Terminate}] /\ owners' \in SUBSET Posters /\ calls' \in 0..MaxCalls
        BY <1>1, <2>1, <2>2 DEF Call, Locked, TypeOK
    <2> QED BY <1>1, <2>1, <2>3, MovesType DEF Call, TypeOK, pool, queue
<1>2. ASSUME Drop PROVE TypeOK'
    <2>1. Registry \in Posters /\ AfterRelease(Registry) \in PosterPlaces
        BY DEF Posters, AfterRelease
    <2>2. Moves(Registry, AfterRelease(Registry))
        BY <1>2, <2>1, GotoMoves DEF Drop
    <2> QED BY <1>2, <2>1, <2>2, MovesType DEF Drop, TypeOK, pool, queue
<1>3. ASSUME NEW t \in Posters, Push(t) PROVE TypeOK'
    <2>1. Moves(t, "pushed")
        BY <1>3, GotoMoves DEF Push
    <2>2. Len(q) = MaxItems => q # <<>> /\ Tail(q) \in Seq(Message \cup {Terminate}) /\ Len(Tail(q)) = Len(q) - 1
        BY DEF TypeOK
    <2>3. q' \in Seq(Message \cup {Terminate}) /\ Len(q') <= MaxItems
        BY <1>3, <2>2 DEF Push, Pushed, TypeOK
    <2>4. posted' \in Seq(Message) /\ overrun_counter' \in Nat
        BY <1>3 DEF Push, TypeOK
    <2>5. CASE Len(q) # MaxItems
        <3>1. lost' = lost
            BY <1>3, <2>5 DEF Push
        <3> QED BY <1>3, <2>1, <2>3, <2>4, <3>1, MovesType DEF Push, TypeOK, pool
    <2>6. CASE Len(q) = MaxItems
        <3>1. t \in owners
            BY <1>3, <2>6 DEF Push, At, Blocks, OwnersInv, Sending, Posting, TypeOK
        <3>2. Head(q) \in Message /\ lost' = lost \cup {Head(q)}
            BY <1>3, <2>2, <2>6, <3>1, NoTerminateHeld DEF Push
        <3> QED BY <1>3, <2>1, <2>3, <2>4, <3>2, MovesType DEF Push, TypeOK, pool
    <2> QED BY <2>5, <2>6
<1>4. ASSUME NEW t \in Posters, NotifyPush(t) PROVE TypeOK'
    <2>1. Moves(t, IF item[t] = Terminate THEN "destruct" ELSE AfterRelease(t)) /\ pc[t] = "pushed"
        BY <1>4, NotifyPushMoves
    <2>2. (IF item[t] = Terminate THEN "destruct" ELSE AfterRelease(t)) \in PosterPlaces
        BY DEF AfterRelease
    <2>3. terminating' \in 0..Cardinality(threads_)
        BY <1>4, <2>1 DEF NotifyPush, TypeOK, OwnersInv, Posting
    <2> QED BY <1>4, <2>1, <2>2, <2>3, MovesType DEF NotifyPush, TypeOK, pool, queue
<1>5. ASSUME NEW t \in Posters, PostTerminate(t) PROVE TypeOK'
    <2>1. Moves(t, "enqueue")
        BY <1>5, GotoMoves DEF PostTerminate
    <2> QED BY <1>5, <2>1, MovesType DEF PostTerminate, TypeOK, pool, queue
<1>6. ASSUME NEW t \in Posters, Join(t) PROVE TypeOK'
    <2>1. Moves(t, "idle")
        BY <1>6, GotoMoves DEF Join
    <2> QED BY <1>6, <2>1, MovesType DEF Join, TypeOK, queue
<1>7. ASSUME NEW w \in threads_, Take(w) PROVE TypeOK'
    <2>1. Moves(w, "taken")
        BY <1>7, GotoMoves DEF Take
    <2>2. q # <<>> /\ Head(q) \in Message \cup {Terminate} /\ Tail(q) \in Seq(Message \cup {Terminate})
          /\ Len(Tail(q)) = Len(q) - 1
        BY <1>7 DEF Take, TypeOK
    <2>3. item' \in [Threads -> Message \cup {Terminate}]
        BY <1>7, <2>2 DEF Take, Front, TypeOK
    <2>4. q' = Tail(q)
        BY <1>7 DEF Take, Front
    <2> QED BY <1>7, <2>1, <2>2, <2>3, <2>4, MovesType DEF Take, TypeOK, pool
<1>8. ASSUME NEW w \in threads_, NotifyPop(w) PROVE TypeOK'
    <2>1. Moves(w, Work(item[w])) /\ Work(item[w]) \in WorkerPlaces
        BY <1>8, NotifyPopMoves
    <2> QED BY <1>8, <2>1, MovesType DEF NotifyPop, TypeOK, pool, queue
<1>9. ASSUME NEW w \in threads_, BackendSinkIt(w) PROVE TypeOK'
    <2>1. PICK place \in {"flush", "dequeue"} : Moves(w, place)
        BY <1>9, GotoMoves DEF BackendSinkIt, AfterWrite
    <2>2. item[w] \in Message
        BY <1>9 DEF BackendSinkIt, At, QueueInv, TypeOK
    <2>3. sunk' \subseteq Message
        BY <1>9, <2>2 DEF BackendSinkIt, TypeOK
    <2> QED BY <1>9, <2>1, <2>3, MovesType DEF BackendSinkIt, TypeOK, pool, queue
<1>10. ASSUME NEW w \in threads_, BackendFlush(w) PROVE TypeOK'
    <2>1. Moves(w, "dequeue")
        BY <1>10, GotoMoves DEF BackendFlush
    <2> QED BY <1>10, <2>1, MovesType DEF BackendFlush, TypeOK, pool, queue
<1> QED BY <1>1, <1>2, <1>3, <1>4, <1>5, <1>6, <1>7, <1>8, <1>9, <1>10 DEF Others

-----------------------------------------------------------------------------
(* Who holds the pool, and who destroys it.                                *)

\* What is said of a thread is the same when its place is alike.
LEMMA SameThread ==
    ASSUME NEW u, Alike(pc[u], pc'[u]), item'[u] = item[u]
    PROVE  /\ Posting(u)' <=> Posting(u)
           /\ Holding(u)' <=> Holding(u)
           /\ Sending(u)' <=> Sending(u)
           /\ Destroying(u)' <=> Destroying(u)
           /\ \A place \in {"idle", "pushed", "destruct", "taken", "write", "flush", "exited"} :
                 pc'[u] = place <=> pc[u] = place
    BY AlikeSame DEF Posting, Holding, Sending, Destroying

LEMMA FrameOwners ==
    ASSUME TypeOK, OwnersInv, \A u \in Posters : Alike(pc[u], pc'[u]) /\ item'[u] = item[u],
           UNCHANGED <<threads_, owners, destroyed, terminating>>
    PROVE  OwnersInv'
<1>1. ASSUME NEW u \in Posters
      PROVE  /\ Posting(u)' <=> Posting(u)
             /\ Sending(u)' <=> Sending(u)
             /\ Destroying(u)' <=> Destroying(u)
             /\ pc'[u] = "idle" <=> pc[u] = "idle"
    BY SameThread
<1>2. Registry \in Posters /\ owners \subseteq Posters
    BY DEF Posters, TypeOK
<1> QED BY <1>1, <1>2 DEF OwnersInv

LEMMA NextOwners == TypeOK /\ OwnersInv /\ Others => OwnersInv'
<1> SUFFICES ASSUME TypeOK, OwnersInv, Others PROVE OwnersInv'
    OBVIOUS
<1> USE ThreadKinds, PoolWorkers, TerminateIsNone DEF PosterPlaces, WorkerPlaces
<1>0. Registry \in Posters /\ owners \subseteq Posters /\ terminating \in Nat
    BY DEF Posters, TypeOK
<1>1. ASSUME NEW p \in Producers, NEW kind \in Kinds, Call(p, kind) PROVE OwnersInv'
    <2>1. Moves(p, "enqueue") /\ p \in Posters /\ p # Registry
        BY <1>1, GotoMoves DEF Call, Posters
    <2>2. [by |-> p, n |-> calls + 1, kind |-> kind] \in Message
        BY <1>1 DEF Call, TypeOK, Message
    <2>3. item'[p] # Terminate /\ item'[p].by = p /\ \A u \in Threads \ {p} : item'[u] = item[u]
        BY <1>1, <2>1, <2>2 DEF Call, TypeOK
    <2>4. \A u \in Posters : ~Destroying(u)
        BY <1>1 DEF Call, OwnersInv
    <2>5. ~destroyed /\ terminating = 0
        BY <1>1 DEF Call, OwnersInv
    <2>6. ASSUME NEW u \in Posters \ {p}
          PROVE  (Sending(u)' <=> Sending(u)) /\ ~Destroying(u)' /\ (pc'[u] = "idle" <=> pc[u] = "idle")
        BY <2>1, <2>3, <2>4, SameThread DEF Moves
    <2>7. Sending(p)' /\ ~Destroying(p)'
        BY <2>1, <2>3 DEF Moves, Sending, Destroying, Posting
    <2>8. owners' = owners \cup {p} /\ UNCHANGED <<destroyed, terminating, threads_>>
        BY <1>1 DEF Call, Locked, pool
    <2> QED BY <1>0, <2>1, <2>3, <2>5, <2>6, <2>7, <2>8 DEF OwnersInv, Destroying
<1>2. ASSUME Drop PROVE OwnersInv'
    <2>1. Moves(Registry, AfterRelease(Registry))
        BY <1>0, <1>2, GotoMoves DEF Drop, AfterRelease
    <2>2. owners # {} /\ owners' = owners \ {Registry} /\ UNCHANGED <<destroyed, terminating, threads_, item>>
        BY <1>2 DEF Drop, pool
    <2>3. \A u \in Posters : ~Destroying(u)
        BY <2>2 DEF OwnersInv
    <2>4. ~destroyed /\ terminating = 0
        BY <2>2 DEF OwnersInv
    <2>5. ASSUME NEW u \in Posters \ {Registry}
          PROVE  (Sending(u)' <=> Sending(u)) /\ ~Destroying(u)'
        BY <2>1, <2>2, <2>3, SameThread DEF Moves
    <2>6. ~Sending(Registry)' /\ ~Posting(Registry)' /\ (Destroying(Registry)' => owners' = {})
        BY <2>1, <2>2 DEF Moves, Sending, Posting, Destroying, AfterRelease
    <2> QED BY <1>0, <2>2, <2>4, <2>5, <2>6 DEF OwnersInv, Destroying
<1>3. ASSUME NEW t \in Posters, Push(t) PROVE OwnersInv'
    <2>1. Moves(t, "pushed") /\ pc[t] = "enqueue"
        BY <1>3, GotoMoves DEF Push, At
    <2>2. UNCHANGED <<destroyed, terminating, threads_, item, owners>>
        BY <1>3 DEF Push, pool
    <2>3. ASSUME NEW u \in Posters
          PROVE  /\ Posting(u)' <=> Posting(u)
                 /\ Sending(u)' <=> Sending(u)
                 /\ Destroying(u)' <=> Destroying(u)
                 /\ pc'[u] = "idle" <=> pc[u] = "idle"
        BY <2>1, <2>2, SameThread DEF Moves, Posting, Sending, Destroying
    <2> QED BY <1>0, <2>2, <2>3 DEF OwnersInv
<1>4. ASSUME NEW t \in Posters, NotifyPush(t) PROVE OwnersInv'
    <2>1. Moves(t, IF item[t] = Terminate THEN "destruct" ELSE AfterRelease(t)) /\ pc[t] = "pushed"
        BY <1>4, NotifyPushMoves
    <2>2. owners' = owners \ {t} /\ UNCHANGED <<destroyed, threads_, item>>
        BY <1>4 DEF NotifyPush, pool
    <2>3. ASSUME NEW u \in Posters \ {t}
          PROVE  /\ Posting(u)' <=> Posting(u)
                 /\ Sending(u)' <=> Sending(u)
                 /\ Destroying(u)' <=> Destroying(u)
                 /\ pc'[u] = "idle" <=> pc[u] = "idle"
        BY <2>1, <2>2, SameThread DEF Moves
    <2>4. CASE item[t] = Terminate
        <3>1. Destroying(t) /\ Destroying(t)' /\ ~Posting(t)' /\ ~Sending(t)'
            BY <2>1, <2>4 DEF Moves, Destroying, Posting, Sending
        <3>2. owners = {} /\ ~destroyed /\ \A u \in Posters \ {t} : ~Destroying(u)
            BY <3>1 DEF OwnersInv
        <3> QED BY <1>0, <2>2, <2>3, <3>1, <3>2 DEF OwnersInv, Destroying
    <2>5. CASE item[t] # Terminate
        <3>1. Sending(t) /\ t \in owners /\ t # Registry
            BY <2>1, <2>5 DEF Sending, Posting, OwnersInv
        <3>2. \A u \in Posters : ~Destroying(u)
            BY <3>1 DEF OwnersInv
        <3>3. ~destroyed /\ terminating = 0 /\ terminating' = 0
            BY <1>4, <2>5, <3>1 DEF OwnersInv, NotifyPush
        <3>4. ~Sending(t)' /\ ~Posting(t)' /\ (Destroying(t)' => owners' = {})
            BY <2>1, <2>2, <2>5 DEF Moves, Sending, Posting, Destroying, AfterRelease
        <3> QED BY <1>0, <2>2, <2>3, <3>1, <3>2, <3>3, <3>4 DEF OwnersInv, Destroying
    <2> QED BY <2>4, <2>5
<1>5. ASSUME NEW t \in Posters, PostTerminate(t) PROVE OwnersInv'
    <2>1. Moves(t, "enqueue") /\ pc[t] = "destruct"
        BY <1>5, GotoMoves DEF PostTerminate, At
    <2>2. UNCHANGED <<destroyed, terminating, threads_, owners>> /\ terminating < Cardinality(threads_)
        BY <1>5 DEF PostTerminate, pool, ToTerminate
    <2>3. item'[t] = Terminate /\ \A u \in Threads \ {t} : item'[u] = item[u]
        BY <1>5 DEF PostTerminate, TypeOK
    <2>4. ASSUME NEW u \in Posters \ {t}
          PROVE  /\ Posting(u)' <=> Posting(u)
                 /\ Sending(u)' <=> Sending(u)
                 /\ Destroying(u)' <=> Destroying(u)
                 /\ pc'[u] = "idle" <=> pc[u] = "idle"
        BY <2>1, <2>3, SameThread DEF Moves
    <2>5. Destroying(t) /\ Destroying(t)' /\ ~Sending(t)'
        BY <2>1, <2>3 DEF Moves, Destroying, Posting, Sending
    <2>6. owners = {} /\ ~destroyed /\ \A u \in Posters \ {t} : ~Destroying(u)
        BY <2>5 DEF OwnersInv
    <2> QED BY <1>0, <2>2, <2>4, <2>5, <2>6 DEF OwnersInv, Destroying
<1>6. ASSUME NEW t \in Posters, Join(t) PROVE OwnersInv'
    <2>1. Moves(t, "idle") /\ Destroying(t)
        BY <1>6, GotoMoves DEF Join, At, Destroying
    <2>2. UNCHANGED <<item, terminating, threads_, owners>>
        BY <1>6 DEF Join
    <2>3. owners = {} /\ \A u \in Posters \ {t} : ~Destroying(u)
        BY <2>1 DEF OwnersInv
    <2>4. ASSUME NEW u \in Posters \ {t}
          PROVE  (Sending(u)' <=> Sending(u)) /\ ~Destroying(u)'
        BY <2>1, <2>2, <2>3, SameThread DEF Moves
    <2>5. ~Sending(t)' /\ ~Destroying(t)'
        BY <2>1 DEF Moves, Sending, Destroying, Posting
    <2> QED BY <1>0, <2>2, <2>3, <2>4, <2>5 DEF OwnersInv, Destroying
<1>7. ASSUME NEW w \in threads_, Take(w) \/ NotifyPop(w) \/ BackendSinkIt(w) \/ BackendFlush(w)
      PROVE OwnersInv'
    <2>1. \E place : Moves(w, place)
        BY <1>7, NotifyPopMoves, GotoMoves DEF Take, BackendSinkIt, BackendFlush, AfterWrite
    <2>2. \A u \in Posters : u # w /\ item'[u] = item[u]
        BY <1>7 DEF Take, NotifyPop, BackendSinkIt, BackendFlush, TypeOK
    <2>3. UNCHANGED <<threads_, owners, destroyed, terminating>>
        BY <1>7 DEF Take, NotifyPop, BackendSinkIt, BackendFlush, pool
    <2>4. \A u \in Posters : Alike(pc[u], pc'[u])
        BY <2>1, <2>2 DEF Moves
    <2> QED BY <2>2, <2>3, <2>4, FrameOwners
<1> QED BY <1>1, <1>2, <1>3, <1>4, <1>5, <1>6, <1>7 DEF Others

-----------------------------------------------------------------------------
(* What the queue holds.                                                   *)

LEMMA QueueNumbers ==
    ASSUME TypeOK, QueueInv
    PROVE  /\ Len(q) \in Nat /\ Len(posted) \in Nat /\ terminating \in Nat
           /\ Sentinels \in 0..Len(q) /\ InQueue \in 0..Len(q) /\ Gone \in 0..Len(posted)
           /\ InQueue = Len(q) - Sentinels /\ Gone = Len(posted) - InQueue
<1>1. Len(q) \in Nat /\ Len(posted) \in Nat /\ terminating \in Nat
    BY PoolWorkers DEF TypeOK
<1> QED BY <1>1 DEF QueueInv, InQueue, Gone

LEMMA FrameQueue ==
    ASSUME TypeOK, QueueInv, UNCHANGED <<threads_, q, posted, destroyed>>,
           \A w \in threads_ : Alike(pc[w], pc'[w]) /\ item'[w] = item[w],
           owners' # {} => owners # {},
           Sentinels' = Sentinels, destroyed => terminating' = terminating
    PROVE  QueueInv' /\ InQueue' = InQueue /\ Gone' = Gone
<1>1. \A w \in threads_ : \A place \in {"taken", "exited", "write", "flush"} :
         pc'[w] = place <=> pc[w] = place
    BY SameThread
<1>2. Ended' = Ended
    BY <1>1 DEF Ended
<1>3. InQueue' = InQueue /\ Gone' = Gone
    BY DEF InQueue, Gone
<1> QED BY <1>1, <1>2, <1>3 DEF QueueInv

LEMMA SameSentinels ==
    ASSUME TypeOK, UNCHANGED <<threads_, terminating>>, Uncounted' <=> Uncounted,
           \A w \in threads_ : Alike(pc[w], pc'[w]) /\ item'[w] = item[w]
    PROVE  Sentinels' = Sentinels /\ Ended' = Ended
<1>1. \A w \in threads_ : \A place \in {"taken", "exited"} : pc'[w] = place <=> pc[w] = place
    BY SameThread
<1>2. Ended' = Ended
    BY <1>1 DEF Ended
<1> QED BY <1>2 DEF Sentinels

\* A terminate message that is being posted is the only thing being posted by a
\* destroying thread, and then nobody holds the pool.
LEMMA UncountedAlone ==
    ASSUME OwnersInv, NEW t \in Posters
    PROVE  /\ Destroying(t) => (Uncounted <=> pc[t] = "pushed")
           /\ owners # {} => ~Uncounted
<1>1. \A u \in Posters : pc[u] = "pushed" /\ item[u] = Terminate => Destroying(u)
    BY DEF Destroying, Posting
<1>2. Destroying(t) /\ pc[t] = "pushed" => item[t] = Terminate
    BY DEF Destroying
<1> QED BY <1>1, <1>2 DEF OwnersInv, Uncounted

LEMMA PostersQueue ==
    ASSUME TypeOK, OwnersInv, QueueInv,
           \/ \E p \in Producers, kind \in Kinds : Call(p, kind)
           \/ Drop
           \/ \E t \in Posters : NotifyPush(t) \/ PostTerminate(t)
    PROVE  QueueInv' /\ InQueue' = InQueue /\ Gone' = Gone
<1> USE ThreadKinds, PoolWorkers, TerminateIsNone DEF PosterPlaces, WorkerPlaces
<1>0. Registry \in Posters /\ terminating \in Nat /\ IsFiniteSet(Ended) /\ Cardinality(Ended) \in Nat
    BY EndedCount DEF Posters, TypeOK
<1>1. ASSUME NEW p \in Producers, NEW kind \in Kinds, Call(p, kind) PROVE QueueInv' /\ InQueue' = InQueue /\ Gone' = Gone
    <2>1. Moves(p, "enqueue") /\ p \in Posters /\ pc[p] = "idle"
        BY <1>1, GotoMoves DEF Call, Posters, At
    <2>2. \A u \in Threads \ {p} : item'[u] = item[u]
        BY <1>1, <2>1 DEF Call, TypeOK
    <2>3. UNCHANGED <<threads_, q, posted, destroyed, terminating>> /\ owners # {}
        BY <1>1 DEF Call, pool, queue
    <2>4. \A u \in Posters : (pc'[u] = "pushed" <=> pc[u] = "pushed") /\ (u # p => item'[u] = item[u])
        BY <2>1, <2>2, SameThread DEF Moves
    <2>5. Uncounted' <=> Uncounted
        BY <2>1, <2>4 DEF Uncounted
    <2>6. \A w \in threads_ : Alike(pc[w], pc'[w]) /\ item'[w] = item[w]
        BY <2>1, <2>2 DEF Moves
    <2> QED BY <2>3, <2>5, <2>6, SameSentinels, FrameQueue
<1>2. ASSUME Drop PROVE QueueInv' /\ InQueue' = InQueue /\ Gone' = Gone
    <2>1. Moves(Registry, AfterRelease(Registry)) /\ pc[Registry] = "idle" /\ AfterRelease(Registry) # "pushed"
        BY <1>0, <1>2, GotoMoves DEF Drop, AfterRelease, At
    <2>2. UNCHANGED <<threads_, q, posted, destroyed, terminating, item>> /\ owners # {}
        BY <1>2 DEF Drop, pool, queue
    <2>3. \A u \in Posters : pc'[u] = "pushed" <=> pc[u] = "pushed"
        BY <2>1, <2>2, SameThread DEF Moves
    <2>4. Uncounted' <=> Uncounted
        BY <2>2, <2>3 DEF Uncounted
    <2>5. \A w \in threads_ : Alike(pc[w], pc'[w]) /\ item'[w] = item[w]
        BY <1>0, <2>1, <2>2 DEF Moves
    <2> QED BY <2>2, <2>4, <2>5, SameSentinels, FrameQueue
<1>3. ASSUME NEW t \in Posters, NotifyPush(t) PROVE QueueInv' /\ InQueue' = InQueue /\ Gone' = Gone
    <2>1. Moves(t, IF item[t] = Terminate THEN "destruct" ELSE AfterRelease(t)) /\ pc[t] = "pushed"
        BY <1>3, NotifyPushMoves
    <2>2. UNCHANGED <<threads_, q, posted, destroyed, item>> /\ owners' = owners \ {t}
        BY <1>3 DEF NotifyPush, pool, queue
    <2>3. \A w \in threads_ : Alike(pc[w], pc'[w]) /\ item'[w] = item[w]
        BY <2>1, <2>2 DEF Moves
    <2>4. (\A u \in Posters \ {t} : pc'[u] = "pushed" <=> pc[u] = "pushed") /\ pc'[t] # "pushed"
        BY <2>1, <2>2, SameThread DEF Moves, AfterRelease
    <2>5. CASE item[t] = Terminate
        <3>1. Destroying(t) /\ Uncounted
            BY <2>1, <2>5 DEF Destroying, Posting, Uncounted
        <3>2. ~destroyed /\ \A u \in Posters \ {t} : ~(pc[u] = "pushed" /\ item[u] = Terminate)
            BY <3>1 DEF OwnersInv, Destroying, Posting
        <3>3. ~Uncounted' /\ terminating' = terminating + 1
            BY <1>3, <2>2, <2>4, <2>5, <3>2 DEF Uncounted, NotifyPush
        <3>4. Ended' = Ended
            BY <2>2, <2>3, SameThread DEF Ended
        <3>5. Sentinels' = Sentinels
            BY <3>1, <3>3, <3>4 DEF Sentinels
        <3> QED BY <2>2, <2>3, <3>2, <3>5, FrameQueue
    <2>6. CASE item[t] # Terminate
        <3>1. Uncounted' <=> Uncounted
            BY <2>2, <2>4, <2>6 DEF Uncounted
        <3>2. terminating' = terminating
            BY <1>3, <2>6 DEF NotifyPush
        <3> QED BY <2>2, <2>3, <3>1, <3>2, SameSentinels, FrameQueue
    <2> QED BY <2>5, <2>6
<1>4. ASSUME NEW t \in Posters, PostTerminate(t) PROVE QueueInv' /\ InQueue' = InQueue /\ Gone' = Gone
    <2>1. Moves(t, "enqueue") /\ pc[t] = "destruct"
        BY <1>4, GotoMoves DEF PostTerminate, At
    <2>2. UNCHANGED <<threads_, q, posted, destroyed, terminating, owners>>
        BY <1>4 DEF PostTerminate, pool, queue
    <2>3. \A u \in Threads \ {t} : item'[u] = item[u]
        BY <1>4 DEF PostTerminate, TypeOK
    <2>4. \A u \in Posters : (pc'[u] = "pushed" <=> pc[u] = "pushed") /\ (u # t => item'[u] = item[u])
        BY <2>1, <2>3, SameThread DEF Moves
    <2>5. Uncounted' <=> Uncounted
        BY <2>1, <2>4 DEF Uncounted
    <2>6. \A w \in threads_ : Alike(pc[w], pc'[w]) /\ item'[w] = item[w]
        BY <2>1, <2>3 DEF Moves
    <2> QED BY <2>2, <2>5, <2>6, SameSentinels, FrameQueue
<1> QED BY <1>1, <1>2, <1>3, <1>4

LEMMA PushMessage ==
    ASSUME TypeOK, OwnersInv, QueueInv, NEW t \in Posters, Push(t), item[t] # Terminate
    PROVE  /\ QueueInv'
           /\ posted' = Append(posted, item[t]) /\ item[t] \in Message
           /\ Gone = Len(posted) - Len(q) /\ InQueue = Len(q)
           /\ IF Len(q) = MaxItems
              THEN Gone' = Gone + 1 /\ InQueue' = InQueue /\ q # <<>> /\ q' = Append(Tail(q), item[t])
              ELSE Gone' = Gone /\ InQueue' = InQueue + 1 /\ q' = Append(q, item[t])
<1> USE ThreadKinds, PoolWorkers, TerminateIsNone DEF PosterPlaces, WorkerPlaces
<1>1. Moves(t, "pushed") /\ pc[t] = "enqueue" /\ item[t] \in Message
    BY GotoMoves DEF Push, At, TypeOK
<1>2. t \in owners /\ owners' = owners /\ UNCHANGED <<threads_, item, destroyed, terminating>>
    BY <1>1 DEF Push, pool, OwnersInv, Sending, Posting
<1>3. Ended = {} /\ Sentinels = 0 /\ ~destroyed
    BY <1>2 DEF QueueInv, OwnersInv
<1>4. \A w \in threads_ : Alike(pc[w], pc'[w]) /\ item'[w] = item[w]
    BY <1>1, <1>2 DEF Moves
<1>5. ~Uncounted /\ ~Uncounted'
    <2>1. ~Uncounted
        BY <1>2, UncountedAlone
    <2>2. \A u \in Posters \ {t} : pc'[u] = "pushed" <=> pc[u] = "pushed"
        BY <1>1, <1>2, SameThread DEF Moves
    <2> QED BY <2>1, <2>2, <1>2 DEF Uncounted
<1>6. Sentinels' = 0 /\ Ended' = {}
    BY <1>2, <1>3, <1>4, <1>5, SameSentinels
<1>7. posted' = Append(posted, item[t]) /\ posted \in Seq(Message) /\ Len(posted') = Len(posted) + 1
    BY DEF Push, TypeOK
<1>8. Len(q) \in Nat /\ Len(posted) \in Nat /\ InQueue = Len(q) /\ Gone = Len(posted) - Len(q) /\ Gone \in Nat
    BY <1>2, NoTerminateHeld DEF TypeOK
<1>9. \A i \in 1..Len(q) : q[i] = posted[Gone + i]
    BY <1>2, NoTerminateHeld
<1>10. q \in Seq(Message \cup {Terminate}) /\ item[t] \in Message \cup {Terminate}
    BY DEF TypeOK
<1>11. /\ Len(q') \in Nat /\ InQueue' = Len(q') /\ Gone' \in Nat
       /\ \A i \in 1..Len(q') : q'[i] = posted'[Gone' + i]
       /\ IF Len(q) = MaxItems
          THEN Gone' = Gone + 1 /\ InQueue' = InQueue /\ q # <<>> /\ q' = Append(Tail(q), item[t])
          ELSE Gone' = Gone /\ InQueue' = InQueue + 1 /\ q' = Append(q, item[t])
    <2>1. CASE Len(q) # MaxItems
        <3>1. q' = Append(q, item[t]) /\ Len(q') = Len(q) + 1
            BY <2>1, <1>10 DEF Push, Pushed
        <3>2. InQueue' = Len(q') /\ Gone' = Gone
            BY <3>1, <1>6, <1>7, <1>8 DEF InQueue, Gone
        <3>3. ASSUME NEW i \in 1..Len(q') PROVE q'[i] = posted'[Gone' + i]
            <4>1. CASE i = Len(q) + 1
                BY <4>1, <3>1, <3>2, <1>7, <1>8, <1>10
            <4>2. CASE i # Len(q) + 1
                <5>1. i \in 1..Len(q) /\ q'[i] = q[i]
                    BY <4>2, <3>1, <1>8, <1>10
                <5>2. Gone + i \in 1..Len(posted)
                    BY <5>1, <1>8
                <5>3. posted'[Gone + i] = posted[Gone + i]
                    BY <5>2, <1>7, <1>10
                <5> QED BY <5>1, <5>3, <3>2, <1>9
            <4> QED BY <4>1, <4>2
        <3> QED BY <2>1, <3>1, <3>2, <3>3, <1>8
    <2>2. CASE Len(q) = MaxItems
        <3>1. q # <<>> /\ Tail(q) \in Seq(Message \cup {Terminate}) /\ Len(Tail(q)) = Len(q) - 1
              /\ \A i \in 1..Len(q) - 1 : Tail(q)[i] = q[i + 1]
            BY <2>2, <1>10
        <3>2. q' = Append(Tail(q), item[t]) /\ Len(q') = Len(q)
            BY <2>2, <3>1, <1>10 DEF Push, Pushed
        <3>3. InQueue' = Len(q') /\ Gone' = Gone + 1
            <4>1. InQueue' = Len(q')
                BY <3>2, <1>6, <1>8 DEF InQueue
            <4>2. Len(posted') = Len(posted) + 1 /\ Len(q') = Len(q)
                BY <3>2, <1>7
            <4>3. Gone' = Len(posted) + 1 - Len(q)
                BY <4>1, <4>2 DEF Gone
            <4> QED BY <4>1, <4>3, <1>8
        <3>4. ASSUME NEW i \in 1..Len(q') PROVE q'[i] = posted'[Gone' + i]
            <4>1. CASE i = Len(q)
                BY <4>1, <3>1, <3>2, <3>3, <1>7, <1>8, <1>10
            <4>2. CASE i # Len(q)
                <5>1. i \in 1..Len(q) - 1 /\ q'[i] = q[i + 1]
                    BY <4>2, <3>1, <3>2, <1>8, <1>10
                <5>2. q[i + 1] = posted[Gone + (i + 1)] /\ Gone + (i + 1) \in 1..Len(posted)
                    BY <5>1, <1>8, <1>9
                <5>3. posted'[Gone + (i + 1)] = posted[Gone + (i + 1)]
                    BY <5>2, <1>7, <1>10
                <5> QED BY <5>1, <5>2, <5>3, <3>3, <1>8
            <4> QED BY <4>1, <4>2
        <3> QED BY <2>2, <3>1, <3>2, <3>3, <3>4, <1>8
    <2> QED BY <2>1, <2>2
<1>12. \A w \in threads_ : \A place \in {"exited", "write", "flush"} : pc'[w] = place <=> pc[w] = place
    BY <1>4, SameThread
<1>13. QueueInv'
    <2>1. Sentinels' \in 0..Len(q') /\ InQueue' <= Len(posted')
        BY <1>6, <1>7, <1>8, <1>11
    <2>2. \A i \in 1..Len(q') : q'[i] = IF i <= InQueue' THEN posted'[Gone' + i] ELSE Terminate
        BY <1>11
    <2> QED BY <2>1, <2>2, <1>2, <1>3, <1>6, <1>12 DEF QueueInv
<1> QED BY <1>1, <1>7, <1>8, <1>11, <1>13

LEMMA PushTerminate ==
    ASSUME TypeOK, OwnersInv, QueueInv, NEW t \in Posters, Push(t), item[t] = Terminate
    PROVE  QueueInv' /\ posted' = posted /\ InQueue' = InQueue /\ Gone' = Gone
           /\ q' = Append(q, Terminate) /\ lost' = lost
<1> USE ThreadKinds, PoolWorkers, TerminateIsNone DEF PosterPlaces, WorkerPlaces
<1>1. Moves(t, "pushed") /\ pc[t] = "enqueue"
    BY GotoMoves DEF Push, At, TypeOK
<1>2. Destroying(t) /\ UNCHANGED <<threads_, item, destroyed, terminating, owners, posted>>
    BY <1>1 DEF Push, pool, Destroying, Posting
<1>3. owners = {} /\ ~destroyed /\ ~Uncounted
    BY <1>1, <1>2, UncountedAlone DEF OwnersInv
<1>4. Uncounted'
    BY <1>1, <1>2 DEF Uncounted, Moves
<1>5. \A w \in threads_ : Alike(pc[w], pc'[w]) /\ item'[w] = item[w]
    BY <1>1, <1>2 DEF Moves
<1>6. \A w \in threads_ : \A place \in {"taken", "exited", "write", "flush"} : pc'[w] = place <=> pc[w] = place
    BY <1>5, SameThread
<1>7. Ended' = Ended
    BY <1>2, <1>6 DEF Ended
<1>8. Len(q) < MaxItems /\ q \in Seq(Message \cup {Terminate})
    BY DEF Push, Blocks, TypeOK
<1>9. q' = Append(q, Terminate) /\ Len(q') = Len(q) + 1 /\ lost' = lost
    BY <1>8 DEF Push, Pushed
<1>10. Sentinels' = Sentinels + 1
    BY <1>2, <1>3, <1>4, <1>7, EndedCount, QueueNumbers DEF Sentinels
<1>11. InQueue' = InQueue /\ Gone' = Gone
    BY <1>2, <1>9, <1>10, QueueNumbers DEF InQueue, Gone
<1>12. \A i \in 1..Len(q') : q'[i] = IF i <= InQueue THEN posted[Gone + i] ELSE Terminate
    BY <1>8, <1>9, QueueNumbers DEF QueueInv
<1>13. Sentinels' \in 0..Len(q')
    BY <1>9, <1>10, QueueNumbers
<1>14. QueueInv'
    BY <1>2, <1>3, <1>6, <1>7, <1>11, <1>12, <1>13, QueueNumbers DEF QueueInv
<1> QED BY <1>2, <1>9, <1>11, <1>14

LEMMA JoinQueue ==
    ASSUME TypeOK, OwnersInv, QueueInv, NEW t \in Posters, Join(t)
    PROVE  QueueInv' /\ InQueue' = InQueue /\ Gone' = Gone
<1> USE ThreadKinds, PoolWorkers DEF PosterPlaces, WorkerPlaces
<1>1. Moves(t, "idle") /\ pc[t] = "destruct"
    BY GotoMoves DEF Join, At
<1>2. UNCHANGED <<threads_, q, posted, item, terminating, owners>>
    BY DEF Join, queue
<1>3. \A w \in threads_ : Alike(pc[w], pc'[w]) /\ item'[w] = item[w]
    BY <1>1, <1>2 DEF Moves
<1>4. \A w \in threads_ : \A place \in {"taken", "exited", "write", "flush"} : pc'[w] = place <=> pc[w] = place
    BY <1>3, SameThread
<1>5. \A u \in Posters : pc'[u] = "pushed" <=> pc[u] = "pushed"
    BY <1>1, <1>2, SameThread DEF Moves
<1>6. Uncounted' <=> Uncounted
    BY <1>2, <1>5 DEF Uncounted
<1>7. Sentinels' = Sentinels /\ Ended' = Ended
    BY <1>2, <1>3, <1>6, SameSentinels
<1>8. InQueue' = InQueue /\ Gone' = Gone
    BY <1>2, <1>7 DEF InQueue, Gone
<1>9. terminating = Cardinality(threads_) /\ \A w \in threads_ : pc[w] = "exited"
    BY DEF Join, ToTerminate, Joined, TypeOK
<1>10. QueueInv'
    BY <1>2, <1>4, <1>7, <1>8, <1>9 DEF QueueInv
<1> QED BY <1>8, <1>10

\* A terminate message is taken when no message is left, and a message before
\* any worker has ended.
LEMMA TakeQueue ==
    ASSUME TypeOK, OwnersInv, QueueInv, NEW w \in threads_, Take(w)
    PROVE  /\ QueueInv' /\ posted' = posted
           /\ item' = [item EXCEPT ![w] = q[1]] /\ Moves(w, "taken")
           /\ q # <<>> /\ q' = Tail(q)
           /\ IF q[1] = Terminate
              THEN InQueue = 0 /\ InQueue' = 0 /\ Gone' = Gone
              ELSE /\ InQueue >= 1 /\ InQueue' = InQueue - 1 /\ Gone' = Gone + 1
                   /\ q[1] = posted[Gone + 1] /\ Gone + 1 \in 1..Len(posted)
<1>1. Moves(w, "taken") /\ pc[w] = "dequeue" /\ q # <<>>
    BY GotoMoves, ThreadKinds, PoolWorkers DEF Take, At, WorkerPlaces
<1>2. UNCHANGED <<threads_, posted, terminating, owners, destroyed>>
    BY DEF Take, pool
<1>3. q \in Seq(Message \cup {Terminate}) /\ Len(q) \in Nat /\ Len(q) >= 1
    BY <1>1 DEF TypeOK
<1>4. /\ item' = [item EXCEPT ![w] = q[1]] /\ q' = Tail(q) /\ Len(q') = Len(q) - 1
      /\ \A i \in 1..Len(q') : q'[i] = q[i + 1]
    BY <1>3 DEF Take, Front
<1>5. item'[w] = q[1] /\ \A u \in Threads \ {w} : item'[u] = item[u]
    BY <1>4, ThreadKinds, PoolWorkers DEF TypeOK
<1>6. Uncounted' <=> Uncounted
    <2>1. \A u \in Posters : u # w /\ (pc'[u] = "pushed" <=> pc[u] = "pushed") /\ item'[u] = item[u]
        BY <1>1, <1>5, SameThread, ThreadKinds, PoolWorkers DEF Moves
    <2> QED BY <2>1 DEF Uncounted
<1>7. ASSUME NEW v \in threads_ \ {w}, NEW place \in {"taken", "exited", "write", "flush"}
      PROVE  (pc'[v] = place <=> pc[v] = place) /\ item'[v] = item[v]
    BY <1>1, <1>5, SameThread, ThreadKinds, PoolWorkers DEF Moves
<1>8. pc'[w] = "taken" /\ w \notin Ended
    BY <1>1 DEF Moves, Ended
<1>0. /\ Len(q) \in Nat /\ Len(posted) \in Nat /\ terminating \in Nat
      /\ Sentinels \in 0..Len(q) /\ InQueue \in 0..Len(q) /\ Gone \in 0..Len(posted)
      /\ InQueue = Len(q) - Sentinels /\ Gone = Len(posted) - InQueue
    BY QueueNumbers
<1>9. ~destroyed
    BY <1>1 DEF QueueInv
<1>10. CASE q[1] = Terminate
    <2>1. Ended' = Ended \cup {w}
        BY <1>2, <1>5, <1>7, <1>8, <1>10 DEF Ended
    <2>2. Cardinality(Ended') = Cardinality(Ended) + 1
        BY <2>1, <1>8, EndedCount, FS_AddElement
    <2>3. Sentinels' = Sentinels - 1
        <3> DEFINE sent == IF Uncounted THEN terminating + 1 ELSE terminating
        <3>1. Cardinality(Ended) \in Nat /\ sent \in Nat
            BY <1>0, EndedCount
        <3>2. sent' = sent
            BY <1>2, <1>6
        <3>3. Sentinels = sent - Cardinality(Ended) /\ Sentinels' = sent' - Cardinality(Ended')
            BY DEF Sentinels
        <3> HIDE DEF sent
        <3> QED BY <2>2, <3>1, <3>2, <3>3
    <2>4. InQueue = 0
        <3>1. 1 \in 1..Len(q) /\ (1 <= InQueue => q[1] = posted[Gone + 1])
            BY <1>3 DEF QueueInv
        <3>2. 1 <= InQueue => Gone + 1 \in 1..Len(posted)
            BY <1>0
        <3>3. 1 <= InQueue => posted[Gone + 1] \in Message
            BY <3>2 DEF TypeOK
        <3> QED BY <3>1, <3>3, <1>10, <1>0, TerminateIsNone
    <2>5. InQueue' = 0 /\ Gone' = Gone
        <3>1. InQueue' = 0
            <4>1. Len(q') = Len(q) - 1
                BY <1>4
            <4>2. InQueue' = Len(q') - Sentinels'
                BY DEF InQueue
            <4> QED BY <4>1, <4>2, <2>3, <2>4, <1>0
        <3>2. Gone' = Len(posted) - InQueue'
            BY <1>2 DEF Gone
        <3> QED BY <2>4, <3>1, <3>2, <1>0
    <2>6. ASSUME NEW i \in 1..Len(q') PROVE q'[i] = Terminate
        <3>1. i \in Nat /\ i >= 1 /\ i + 1 \in 1..Len(q) /\ q'[i] = q[i + 1]
            BY <1>3, <1>4
        <3>2. ~(i + 1 <= InQueue)
            BY <2>4, <3>1
        <3> QED BY <3>1, <3>2 DEF QueueInv
    <2>7. owners = {}
        BY <2>4, <1>3, <1>0 DEF QueueInv
    <2>8. Sentinels' \in 0..Len(q')
        BY <2>3, <2>4, <1>3, <1>4, <1>0
    <2>9. QueueInv'
        <3>1. InQueue' <= Len(posted')
            BY <2>5, <1>2, <1>0
        <3>2. \A i \in 1..Len(q') : q'[i] = IF i <= InQueue' THEN posted'[Gone' + i] ELSE Terminate
            BY <2>5, <2>6, <1>3, <1>4
        <3> QED BY <2>5, <2>7, <2>8, <3>1, <3>2, <1>2, <1>5, <1>7, <1>8, <1>9, <1>10 DEF QueueInv
    <2> QED BY <2>4, <2>5, <2>9, <1>1, <1>2, <1>4, <1>10
<1>11. CASE q[1] # Terminate
    <2>1. Ended' = Ended
        BY <1>2, <1>5, <1>7, <1>8, <1>11 DEF Ended
    <2>2. Sentinels' = Sentinels
        BY <2>1, <1>2, <1>6 DEF Sentinels
    <2>3. InQueue >= 1 /\ q[1] = posted[Gone + 1]
        BY <1>3, <1>11, <1>0 DEF QueueInv
    <2>4. InQueue' = InQueue - 1 /\ Gone' = Gone + 1 /\ Gone + 1 \in 1..Len(posted)
        <3>1. InQueue' = InQueue - 1
            <4>1. Len(q') = Len(q) - 1
                BY <1>4
            <4>2. InQueue' = Len(q') - Sentinels'
                BY DEF InQueue
            <4> QED BY <4>1, <4>2, <2>2, <1>0
        <3>2. Gone' = Len(posted) - InQueue'
            BY <1>2 DEF Gone
        <3> QED BY <2>3, <3>1, <3>2, <1>0
    <2>5. \A i \in 1..Len(q') : q'[i] = IF i <= InQueue' THEN posted'[Gone' + i] ELSE Terminate
        <3> TAKE i \in 1..Len(q')
        <3>1. i + 1 \in 1..Len(q) /\ q'[i] = q[i + 1]
            BY <1>3, <1>4
        <3>2. q[i + 1] = IF i + 1 <= InQueue THEN posted[Gone + (i + 1)] ELSE Terminate
            BY <3>1 DEF QueueInv
        <3>3. Gone + (i + 1) = Gone' + i /\ (i + 1 <= InQueue <=> i <= InQueue')
            BY <2>4, <3>1, <1>0
        <3> QED BY <3>1, <3>2, <3>3, <1>2
    <2>6. Ended = {}
        BY <2>3 DEF QueueInv
    <2>7. Sentinels' \in 0..Len(q') /\ InQueue' <= Len(posted')
        BY <2>2, <2>3, <2>4, <1>2, <1>3, <1>4, <1>0
    <2>8. QueueInv'
        BY <2>1, <2>2, <2>5, <2>6, <2>7, <1>2, <1>7, <1>8, <1>9 DEF QueueInv
    <2> QED BY <2>3, <2>4, <2>8, <1>1, <1>2, <1>4, <1>11
<1> QED BY <1>10, <1>11

\* w goes on at place with the item it has taken.
WorkMove(w, place) ==
    /\ Moves(w, place)
    /\ \/ pc[w] = "taken" /\ item[w] = Terminate /\ place = "exited"
       \/ pc[w] = "taken" /\ item[w] # Terminate /\ place = Work(item[w]) /\ place \in {"write", "flush"}
       \/ pc[w] \in {"write", "flush"} /\ item[w] # Terminate /\ place \in {"flush", "dequeue"}

LEMMA WorkQueue ==
    ASSUME TypeOK, OwnersInv, QueueInv, NEW w \in threads_,
           NotifyPop(w) \/ BackendSinkIt(w) \/ BackendFlush(w)
    PROVE  /\ QueueInv' /\ InQueue' = InQueue /\ Gone' = Gone
           /\ \E place \in {"exited", "write", "flush", "dequeue"} : WorkMove(w, place)
<1> USE ThreadKinds, PoolWorkers DEF PosterPlaces, WorkerPlaces
<1>1. UNCHANGED <<threads_, q, posted, terminating, owners, destroyed, item>>
    BY DEF NotifyPop, BackendSinkIt, BackendFlush, pool, queue
<1>2. PICK place \in {"exited", "write", "flush", "dequeue"} : WorkMove(w, place)
    <2>1. CASE NotifyPop(w)
        <3>1. pc[w] = "taken" /\ Moves(w, Work(item[w])) /\ Work(item[w]) \in {"exited", "flush", "write"}
            BY <2>1, NotifyPopMoves
        <3>2. item[w] = Terminate => Work(item[w]) = "exited"
            BY DEF Work, Terminate
        <3>3. item[w] # Terminate => Work(item[w]) # "exited"
            BY DEF Work, TypeOK, Message
        <3>4. CASE item[w] = Terminate
            BY <3>1, <3>2, <3>4 DEF WorkMove
        <3>5. CASE item[w] # Terminate
            BY <3>1, <3>3, <3>5 DEF WorkMove
        <3> QED BY <3>4, <3>5
    <2>2. CASE BackendSinkIt(w)
        <3>1. PICK place \in {"flush", "dequeue"} : Moves(w, place)
            BY <2>2, GotoMoves DEF BackendSinkIt, AfterWrite
        <3> QED BY <2>2, <3>1 DEF BackendSinkIt, At, QueueInv, WorkMove
    <2>3. CASE BackendFlush(w)
        <3>1. Moves(w, "dequeue")
            BY <2>3, GotoMoves DEF BackendFlush
        <3> QED BY <2>3, <3>1 DEF BackendFlush, At, QueueInv, WorkMove
    <2> QED BY <2>1, <2>2, <2>3
<1>3. ASSUME NEW v \in threads_ \ {w}, NEW at \in {"taken", "exited", "write", "flush"}
      PROVE  pc'[v] = at <=> pc[v] = at
    BY <1>1, <1>2, SameThread DEF Moves, WorkMove
<1>4. Uncounted' <=> Uncounted
    <2>1. \A u \in Posters : u # w /\ (pc'[u] = "pushed" <=> pc[u] = "pushed")
        BY <1>1, <1>2, SameThread DEF Moves, WorkMove
    <2> QED BY <2>1, <1>1 DEF Uncounted
<1>5. pc'[w] = place
    BY <1>2 DEF Moves, WorkMove
<1>6. Ended' = Ended
    BY <1>1, <1>2, <1>3, <1>5 DEF Ended, WorkMove
<1>7. Sentinels' = Sentinels
    BY <1>1, <1>4, <1>6 DEF Sentinels
<1>8. InQueue' = InQueue /\ Gone' = Gone
    BY <1>1, <1>7 DEF InQueue, Gone
<1>9. ~destroyed
    BY <1>2 DEF QueueInv, WorkMove
<1>10. QueueInv'
    BY <1>1, <1>2, <1>3, <1>5, <1>6, <1>7, <1>8, <1>9 DEF QueueInv, WorkMove
<1> QED BY <1>2, <1>8, <1>10

LEMMA NextQueue == TypeOK /\ OwnersInv /\ QueueInv /\ Others => QueueInv'
    BY PostersQueue, PushMessage, PushTerminate, JoinQueue, TakeQueue, WorkQueue DEF Others

-----------------------------------------------------------------------------
(* No message is posted twice.                                             *)

LEMMA Numbers ==
    ASSUME TypeOK
    PROVE  calls \in Nat /\ \A i \in DOMAIN posted : posted[i].n \in Nat /\ posted[i] \in Message
<1>1. \A m \in Message : m.n \in Nat
    BY DEF Message
<1>2. \A i \in DOMAIN posted : posted[i] \in Message
    BY DEF TypeOK
<1>3. calls \in Nat
    BY DEF TypeOK
<1> QED BY <1>1, <1>2, <1>3

LEMMA FramePosted ==
    ASSUME TypeOK, PostedInv, posted' = posted, calls' \in Nat, calls' >= calls,
           \A u \in Posters : Sending(u)' =>
              Sending(u) /\ item'[u] = item[u] /\ (pc'[u] # "pushed" => pc[u] # "pushed")
    PROVE  PostedInv'
<1>1. calls \in Nat /\ \A i \in DOMAIN posted : posted[i].n \in Nat
    BY Numbers
<1>2. \A u \in Posters : Sending(u) => item[u].n \in Nat
    BY ThreadKinds DEF TypeOK, Message, Sending
<1> QED BY <1>1, <1>2 DEF PostedInv

LEMMA NextPosted == TypeOK /\ OwnersInv /\ QueueInv /\ PostedInv /\ Others => PostedInv'
<1> SUFFICES ASSUME TypeOK, OwnersInv, QueueInv, PostedInv, Others PROVE PostedInv'
    OBVIOUS
<1>0. calls \in Nat /\ (\A i \in DOMAIN posted : posted[i].n \in Nat) /\ Registry \in Posters
    BY Numbers DEF Posters
<1>1. ASSUME NEW p \in Producers, NEW kind \in Kinds, Call(p, kind) PROVE PostedInv'
    <2>1. Moves(p, "enqueue") /\ p \in Posters
        BY <1>1, GotoMoves, ThreadKinds DEF Call, Posters, PosterPlaces
    <2>2. /\ item'[p] = [by |-> p, n |-> calls + 1, kind |-> kind]
          /\ \A u \in Threads \ {p} : item'[u] = item[u]
        BY <1>1, <2>1, ThreadKinds DEF Call, TypeOK
    <2>3. posted' = posted /\ calls' = calls + 1
        BY <1>1 DEF Call, queue
    <2>4. ASSUME NEW u \in Posters \ {p}
          PROVE  (Sending(u)' <=> Sending(u)) /\ item'[u] = item[u] /\ (pc'[u] = "pushed" <=> pc[u] = "pushed")
        BY <2>1, <2>2, SameThread, ThreadKinds DEF Moves
    <2>5. ASSUME NEW i \in DOMAIN posted PROVE posted[i] # item'[p] /\ posted[i].n <= calls'
        BY <1>0, <2>2, <2>3 DEF PostedInv
    <2>6. ASSUME NEW u \in Posters, Sending(u)' PROVE item'[u].n <= calls'
        <3>1. CASE u = p
            BY <1>0, <2>2, <2>3, <3>1
        <3>2. CASE u # p
            <4>1. item[u].n <= calls /\ item[u].n \in Nat
                BY <2>4, <2>6, <3>2, ThreadKinds DEF PostedInv, Sending, TypeOK, Message
            <4> QED BY <4>1, <1>0, <2>3, <2>4, <3>2
        <3> QED BY <3>1, <3>2
    <2> QED BY <2>3, <2>4, <2>5, <2>6 DEF PostedInv
<1>2. ASSUME Drop PROVE PostedInv'
    <2>0. AfterRelease(Registry) \in {"destruct", "idle"}
        BY DEF AfterRelease
    <2>1. Moves(Registry, AfterRelease(Registry)) /\ ~Posting(Registry)'
        <3>1. Moves(Registry, AfterRelease(Registry))
            BY <1>0, <1>2, <2>0, GotoMoves, ThreadKinds DEF Drop, PosterPlaces
        <3> QED BY <2>0, <3>1 DEF Moves, Posting
    <2>2. UNCHANGED <<posted, calls, item>>
        BY <1>2 DEF Drop, queue
    <2>3. ASSUME NEW u \in Posters, Sending(u)'
          PROVE  Sending(u) /\ (pc'[u] = "pushed" <=> pc[u] = "pushed")
        BY <2>1, <2>2, <2>3, SameThread, ThreadKinds DEF Moves, Sending
    <2> QED BY <1>0, <2>2, <2>3, FramePosted
<1>3. ASSUME NEW t \in Posters, Push(t) PROVE PostedInv'
    <2>1. Moves(t, "pushed") /\ pc[t] = "enqueue"
        BY <1>3, GotoMoves, ThreadKinds DEF Push, At, PosterPlaces
    <2>2. UNCHANGED <<item, calls>>
        BY <1>3 DEF Push
    <2>3. ASSUME NEW u \in Posters \ {t}
          PROVE  (Sending(u)' <=> Sending(u)) /\ (pc'[u] = "pushed" <=> pc[u] = "pushed")
        BY <2>1, <2>2, SameThread, ThreadKinds DEF Moves
    <2>4. Sending(t)' <=> item[t] # Terminate
        BY <2>1, <2>2 DEF Moves, Sending, Posting
    <2>5. Sending(t) <=> item[t] # Terminate
        BY <2>1 DEF Sending, Posting
    <2>6. CASE item[t] = Terminate
        BY <1>0, <1>3, <2>2, <2>3, <2>4, <2>6, PushTerminate, FramePosted
    <2>7. CASE item[t] # Terminate
        <3>1. posted' = Append(posted, item[t]) /\ posted \in Seq(Message) /\ item[t] \in Message
            BY <1>3, <2>7, PushMessage DEF TypeOK
        <3>2. /\ Len(posted) \in Nat /\ DOMAIN posted = 1..Len(posted)
              /\ DOMAIN posted' = 1..Len(posted) + 1 /\ posted'[Len(posted) + 1] = item[t]
              /\ \A i \in 1..Len(posted) : posted'[i] = posted[i]
            BY <3>1
        <3>3. \A i \in DOMAIN posted : posted[i] # item[t]
            BY <2>1, <2>5, <2>7 DEF PostedInv
        <3>4. item[t].n <= calls
            BY <2>5, <2>7 DEF PostedInv
        <3>5. ASSUME NEW i \in DOMAIN posted', NEW j \in DOMAIN posted', posted'[i] = posted'[j] PROVE i = j
            <4>1. (i \in DOMAIN posted \/ i = Len(posted) + 1) /\ (j \in DOMAIN posted \/ j = Len(posted) + 1)
                BY <3>2
            <4> QED BY <4>1, <3>2, <3>3, <3>5 DEF PostedInv
        <3>6. ASSUME NEW i \in DOMAIN posted' PROVE posted'[i].n <= calls'
            <4>1. i \in DOMAIN posted \/ i = Len(posted) + 1
                BY <3>2
            <4> QED BY <4>1, <2>2, <3>2, <3>4 DEF PostedInv
        <3>7. ASSUME NEW u \in Posters, Sending(u)' PROVE item'[u].n <= calls'
            BY <2>2, <2>3, <2>5, <2>7, <3>7 DEF PostedInv
        <3>8. ASSUME NEW u \in Posters, Sending(u)', pc'[u] # "pushed", NEW i \in DOMAIN posted'
              PROVE  posted'[i] # item'[u]
            <4>1. u # t
                BY <2>1, <3>8 DEF Moves
            <4>2. Sending(u) /\ pc[u] # "pushed" /\ item'[u] = item[u]
                BY <2>2, <2>3, <3>8, <4>1
            <4>3. item[u].by = u /\ item[t].by = t
                BY <2>5, <2>7, <4>2 DEF OwnersInv
            <4>4. i \in DOMAIN posted \/ i = Len(posted) + 1
                BY <3>2
            <4> QED BY <3>2, <4>1, <4>2, <4>3, <4>4 DEF PostedInv
        <3> QED BY <3>5, <3>6, <3>7, <3>8 DEF PostedInv
    <2> QED BY <2>6, <2>7
<1>4. ASSUME NEW t \in Posters, NotifyPush(t) PROVE PostedInv'
    <2>1. Moves(t, IF item[t] = Terminate THEN "destruct" ELSE AfterRelease(t))
        BY <1>4, NotifyPushMoves
    <2>2. UNCHANGED <<posted, calls, item>>
        BY <1>4 DEF NotifyPush, queue
    <2>3. ~Sending(t)'
        BY <2>1 DEF Moves, AfterRelease, Sending, Posting
    <2>4. ASSUME NEW u \in Posters, Sending(u)'
          PROVE  Sending(u) /\ (pc'[u] = "pushed" <=> pc[u] = "pushed")
        BY <2>1, <2>2, <2>3, <2>4, SameThread, ThreadKinds DEF Moves
    <2> QED BY <1>0, <2>2, <2>4, FramePosted
<1>5. ASSUME NEW t \in Posters, PostTerminate(t) \/ Join(t) PROVE PostedInv'
    <2>1. PICK place \in {"enqueue", "idle"} : Moves(t, place) /\ (place = "enqueue" => item'[t] = Terminate)
        BY <1>5, GotoMoves, ThreadKinds DEF PostTerminate, Join, PosterPlaces, TypeOK
    <2>2. UNCHANGED <<posted, calls>> /\ \A u \in Posters \ {t} : item'[u] = item[u]
        BY <1>5, ThreadKinds DEF PostTerminate, Join, queue, TypeOK
    <2>3. ~Sending(t)'
        BY <2>1 DEF Moves, Sending, Posting
    <2>4. ASSUME NEW u \in Posters, Sending(u)'
          PROVE  Sending(u) /\ (pc'[u] = "pushed" <=> pc[u] = "pushed") /\ item'[u] = item[u]
        BY <2>1, <2>2, <2>3, <2>4, SameThread, ThreadKinds DEF Moves
    <2> QED BY <1>0, <2>2, <2>4, FramePosted
<1>6. ASSUME NEW w \in threads_, Take(w) \/ NotifyPop(w) \/ BackendSinkIt(w) \/ BackendFlush(w)
      PROVE PostedInv'
    <2>1. \E place : Moves(w, place)
        BY <1>6, TakeQueue, WorkQueue DEF WorkMove
    <2>2. UNCHANGED <<posted, calls>> /\ \A u \in Posters : u # w /\ u \in Threads /\ item'[u] = item[u]
        BY <1>6, ThreadKinds, PoolWorkers DEF Take, NotifyPop, BackendSinkIt, BackendFlush, queue, TypeOK
    <2>3. ASSUME NEW u \in Posters
          PROVE  (Sending(u)' <=> Sending(u)) /\ (pc'[u] = "pushed" <=> pc[u] = "pushed")
        BY <2>1, <2>2, SameThread DEF Moves
    <2> QED BY <1>0, <2>2, <2>3, FramePosted
<1> QED BY <1>1, <1>2, <1>3, <1>4, <1>5, <1>6 DEF Others

-----------------------------------------------------------------------------
(* Where the messages are that have left the queue.                        *)

LEMMA FramePlaces ==
    ASSUME PlacesInv, UNCHANGED <<threads_, posted, lost, sunk>>, Gone' = Gone,
           \A w \in threads_ : Alike(pc[w], pc'[w]) /\ item'[w] = item[w]
    PROVE  PlacesInv'
<1>1. ASSUME NEW w \in threads_, NEW place \in {"taken", "write", "flush"}
      PROVE  (Holding(w)' <=> Holding(w)) /\ (pc'[w] = place <=> pc[w] = place) /\ item'[w] = item[w]
    BY SameThread
<1>2. \A m : Left(m)' <=> Left(m)
    BY DEF Left
<1> QED BY <1>1, <1>2 DEF PlacesInv

\* Before and after the next message leaves the queue.
LEMMA NextLeaves ==
    ASSUME TypeOK, QueueInv, PostedInv, Gone' = Gone + 1, Gone + 1 \in 1..Len(posted),
           \A j \in 1..Len(posted) : posted'[j] = posted[j]
    PROVE  /\ \A m : Left(m)' <=> Left(m) \/ m = posted[Gone + 1]
           /\ ~Left(posted[Gone + 1])
           /\ \A j \in 1..Gone' : j \in 1..Gone \/ j = Gone + 1
           /\ posted[Gone + 1] \in Message
<1>1. Gone \in Nat /\ Len(posted) \in Nat /\ DOMAIN posted = 1..Len(posted)
    BY QueueNumbers DEF TypeOK
<1>2. \A j \in 1..Gone : j \in 1..Len(posted) /\ j # Gone + 1
    BY <1>1
<1>3. \A j \in 1..Gone' : j \in 1..Gone \/ j = Gone + 1
    BY <1>1
<1>4. \A j \in 1..Gone : j \in 1..Gone'
    BY <1>1
<1>5. Gone + 1 \in 1..Gone'
    BY <1>1
<1>6. ~Left(posted[Gone + 1])
    BY <1>1, <1>2 DEF Left, PostedInv
<1>7. ASSUME NEW m PROVE Left(m)' <=> Left(m) \/ m = posted[Gone + 1]
    BY <1>2, <1>3, <1>4, <1>5 DEF Left
<1> QED BY <1>1, <1>3, <1>6, <1>7, Numbers

LEMMA LeftMessages ==
    ASSUME TypeOK, QueueInv
    PROVE  \A j \in 1..Gone : j \in DOMAIN posted /\ posted[j] \in Message
<1>1. \A j \in 1..Gone : j \in DOMAIN posted
    BY QueueNumbers DEF TypeOK
<1> QED BY <1>1, Numbers

LEMMA PushPlaces ==
    ASSUME TypeOK, OwnersInv, QueueInv, PostedInv, PlacesInv, NEW t \in Posters, Push(t)
    PROVE  PlacesInv'
<1>1. Moves(t, "pushed")
    BY GotoMoves, ThreadKinds DEF Push, PosterPlaces
<1>2. UNCHANGED <<threads_, item, sunk>>
    BY DEF Push, pool
<1>3. \A w \in threads_ : Alike(pc[w], pc'[w]) /\ item'[w] = item[w]
    BY <1>1, <1>2, ThreadKinds, PoolWorkers DEF Moves
<1>4. CASE item[t] = Terminate
    BY <1>2, <1>3, <1>4, PushTerminate, FramePlaces
<1>5. CASE item[t] # Terminate
    <2>1. posted' = Append(posted, item[t]) /\ posted \in Seq(Message) /\ item[t] \in Message
        BY <1>5, PushMessage DEF TypeOK
    <2>2. Len(posted) \in Nat /\ Gone \in 0..Len(posted) /\ \A j \in 1..Len(posted) : posted'[j] = posted[j]
        BY <2>1, QueueNumbers
    <2>3. ASSUME NEW w \in threads_, NEW place \in {"taken", "write", "flush"}
          PROVE  (Holding(w)' <=> Holding(w)) /\ (pc'[w] = place <=> pc[w] = place) /\ item'[w] = item[w]
        BY <1>3, SameThread
    <2>4. CASE Len(q) # MaxItems
        <3>1. Gone' = Gone /\ lost' = lost
            BY <1>5, <2>4, PushMessage DEF Push
        <3>2. \A j \in 1..Gone : posted'[j] = posted[j]
            BY <2>2
        <3>3. \A m : Left(m)' <=> Left(m)
            BY <3>1, <3>2 DEF Left
        <3> QED BY <1>2, <2>3, <3>1, <3>2, <3>3 DEF PlacesInv
    <2>5. CASE Len(q) = MaxItems
        <3>1. Gone' = Gone + 1 /\ q # <<>> /\ lost' = lost \cup {Head(q)} /\ Len(q) \in Nat /\ Len(q) >= 1
              /\ Gone = Len(posted) - Len(q)
            BY <1>5, <2>5, PushMessage DEF Push
        <3>2. Gone + 1 \in 1..Len(posted)
            BY <2>2, <3>1
        <3>3. owners # {}
            BY <1>5 DEF Push, At, OwnersInv, Sending, Posting
        <3>4. Head(q) = posted[Gone + 1]
            BY <3>1, <3>3, NoTerminateHeld
        <3>5. /\ \A m : Left(m)' <=> Left(m) \/ m = posted[Gone + 1]
              /\ ~Left(posted[Gone + 1])
              /\ \A j \in 1..Gone' : j \in 1..Gone \/ j = Gone + 1
            BY <2>2, <3>1, <3>2, NextLeaves
        <3>6. \A m \in lost' : m \in lost \/ m = posted[Gone + 1]
            BY <3>1, <3>4
        <3>7. \A j \in 1..Gone : posted'[j] = posted[j]
            BY <2>2
        <3>8. posted'[Gone + 1] \in lost'
            BY <2>2, <3>1, <3>2, <3>4
        <3>9. ASSUME NEW j \in 1..Gone'
              PROVE  \/ posted'[j].kind # "log" \/ posted'[j] \in lost' \cup sunk'
                     \/ \E w \in threads_ : pc'[w] \in {"taken", "write"} /\ item'[w] = posted'[j]
            BY <1>2, <2>3, <3>1, <3>5, <3>7, <3>8 DEF PlacesInv
        <3>10. lost' \cap sunk' = {} /\ \A m \in lost' \cup sunk' : Left(m)'
            BY <1>2, <3>5, <3>6 DEF PlacesInv
        <3> QED BY <1>2, <2>3, <3>5, <3>6, <3>9, <3>10 DEF PlacesInv
    <2> QED BY <2>4, <2>5
<1> QED BY <1>4, <1>5

LEMMA TakePlaces ==
    ASSUME TypeOK, OwnersInv, QueueInv, PostedInv, PlacesInv, NEW w \in threads_, Take(w)
    PROVE  PlacesInv'
<1>1. Moves(w, "taken") /\ item' = [item EXCEPT ![w] = q[1]] /\ posted' = posted /\ pc[w] = "dequeue"
    BY TakeQueue DEF Take, At
<1>2. UNCHANGED <<threads_, lost, sunk>>
    BY DEF Take, pool
<1>3. item'[w] = q[1] /\ pc'[w] = "taken" /\ \A v \in threads_ \ {w} : item'[v] = item[v]
    BY <1>1, ThreadKinds, PoolWorkers DEF TypeOK, Moves
<1>4. ASSUME NEW v \in threads_ \ {w}, NEW place \in {"taken", "write", "flush"}
      PROVE  (Holding(v)' <=> Holding(v)) /\ (pc'[v] = place <=> pc[v] = place)
    BY <1>1, <1>3, SameThread, ThreadKinds, PoolWorkers DEF Moves
<1>5. CASE q[1] = Terminate
    <2>1. Gone' = Gone
        BY <1>5, TakeQueue
    <2>2. \A m : Left(m)' <=> Left(m)
        BY <1>1, <2>1 DEF Left
    <2>3. Terminate \notin sunk
        BY TerminateIsNone DEF TypeOK
    <2> QED BY <1>1, <1>2, <1>3, <1>4, <1>5, <2>1, <2>2, <2>3 DEF PlacesInv
<1>6. CASE q[1] # Terminate
    <2>1. Gone' = Gone + 1 /\ q[1] = posted[Gone + 1] /\ Gone + 1 \in 1..Len(posted)
        BY <1>6, TakeQueue
    <2>2. /\ \A m : Left(m)' <=> Left(m) \/ m = q[1]
          /\ ~Left(q[1])
          /\ \A j \in 1..Gone' : j \in 1..Gone \/ j = Gone + 1
        BY <1>1, <2>1, NextLeaves
    <2>3. ASSUME NEW j \in 1..Gone'
          PROVE  \/ posted'[j].kind # "log" \/ posted'[j] \in lost' \cup sunk'
                 \/ \E v \in threads_ : pc'[v] \in {"taken", "write"} /\ item'[v] = posted'[j]
        <3>1. CASE j = Gone + 1
            BY <1>1, <1>3, <2>1, <3>1
        <3>2. CASE j \in 1..Gone
            BY <1>1, <1>2, <1>3, <1>4, <3>2 DEF PlacesInv
        <3> QED BY <2>2, <3>1, <3>2
    <2>4. q[1] \notin lost /\ q[1] \notin sunk
        BY <2>2 DEF PlacesInv
    <2> QED BY <1>1, <1>2, <1>3, <1>4, <2>2, <2>3, <2>4 DEF PlacesInv
<1> QED BY <1>5, <1>6

LEMMA WorkPlaces ==
    ASSUME TypeOK, OwnersInv, QueueInv, PostedInv, PlacesInv, NEW w \in threads_,
           NotifyPop(w) \/ BackendSinkIt(w) \/ BackendFlush(w)
    PROVE  PlacesInv'
<1>1. UNCHANGED <<threads_, posted, item, lost>>
    BY DEF NotifyPop, BackendSinkIt, BackendFlush, pool, queue
<1>2. PICK place \in {"exited", "write", "flush", "dequeue"} : WorkMove(w, place)
    BY WorkQueue
<1>3. Gone' = Gone /\ pc'[w] = place
    BY <1>2, WorkQueue DEF WorkMove, Moves
<1>4. ASSUME NEW v \in threads_ \ {w}, NEW at \in {"taken", "write", "flush"}
      PROVE  (Holding(v)' <=> Holding(v)) /\ (pc'[v] = at <=> pc[v] = at)
    BY <1>1, <1>2, SameThread, ThreadKinds, PoolWorkers DEF WorkMove, Moves
<1>5. \A m : Left(m)' <=> Left(m)
    BY <1>1, <1>3 DEF Left
<1>6. Holding(w)' /\ item'[w] # Terminate => Holding(w) /\ item[w] # Terminate
    BY <1>1, <1>2, <1>3 DEF WorkMove, Holding
<1>7. CASE NotifyPop(w) \/ BackendFlush(w)
    <2>1. sunk' = sunk
        BY <1>7 DEF NotifyPop, BackendFlush
    <2>2. pc'[w] = "write" \/ pc'[w] = "taken" => pc[w] = "taken"
        BY <1>2, <1>3, <1>7 DEF WorkMove, BackendFlush, At
    <2>3. ASSUME NEW j \in 1..Gone'
          PROVE  \/ posted'[j].kind # "log" \/ posted'[j] \in lost' \cup sunk'
                 \/ \E v \in threads_ : pc'[v] \in {"taken", "write"} /\ item'[v] = posted'[j]
        <3>1. CASE \E v \in threads_ : pc[v] \in {"taken", "write"} /\ item[v] = posted[j]
            <4>1. PICK v \in threads_ : pc[v] \in {"taken", "write"} /\ item[v] = posted[j]
                BY <3>1
            <4>2. CASE v # w
                BY <1>1, <1>4, <4>1, <4>2
            <4>3. CASE v = w
                <5>1. item[w] # Terminate
                    BY <1>3, <4>1, <4>3, LeftMessages, TerminateIsNone
                <5>2. pc[w] = "taken"
                    BY <1>7, <4>1, <4>3 DEF BackendFlush, NotifyPop, At
                <5>3. pc'[w] = "write" \/ item[w].kind = "flush"
                    BY <1>2, <1>3, <5>1, <5>2 DEF WorkMove, Work
                <5> QED BY <1>1, <4>1, <4>3, <5>3
            <4> QED BY <4>2, <4>3
        <3>2. CASE posted[j].kind # "log" \/ posted[j] \in lost \cup sunk
            BY <1>1, <2>1, <3>2
        <3> QED BY <1>3, <3>1, <3>2 DEF PlacesInv
    <2> QED BY <1>1, <1>4, <1>5, <1>6, <2>1, <2>2, <2>3 DEF PlacesInv
<1>8. CASE BackendSinkIt(w)
    <2>1. sunk' = sunk \cup {item[w]} /\ pc[w] = "write" /\ item[w] # Terminate
        BY <1>8 DEF BackendSinkIt, At, QueueInv
    <2>2. pc'[w] \in {"flush", "dequeue"}
        BY <1>2, <1>3, <2>1 DEF WorkMove
    <2>3. Holding(w)
        BY <2>1 DEF Holding
    <2>4. ASSUME NEW v \in threads_ \ {w}, pc[v] = "taken" \/ pc[v] = "write" PROVE item[v] # item[w]
        BY <2>1, <2>3, <2>4 DEF PlacesInv, Holding
    <2>5. Left(item[w]) /\ item[w] \notin lost
        BY <2>1, <2>3 DEF PlacesInv
    <2>6. ASSUME NEW j \in 1..Gone'
          PROVE  \/ posted'[j].kind # "log" \/ posted'[j] \in lost' \cup sunk'
                 \/ \E v \in threads_ : pc'[v] \in {"taken", "write"} /\ item'[v] = posted'[j]
        <3>1. CASE \E v \in threads_ : pc[v] \in {"taken", "write"} /\ item[v] = posted[j]
            BY <1>1, <1>4, <2>1, <3>1
        <3>2. CASE posted[j].kind # "log" \/ posted[j] \in lost \cup sunk
            BY <1>1, <2>1, <3>2
        <3> QED BY <1>3, <3>1, <3>2 DEF PlacesInv
    <2>7. ASSUME NEW v \in threads_, pc'[v] = "taken" \/ pc'[v] = "write" PROVE item'[v] \notin sunk'
        BY <1>1, <1>4, <2>1, <2>2, <2>4, <2>7 DEF PlacesInv
    <2>8. lost' \cap sunk' = {} /\ \A m \in lost' \cup sunk' : Left(m)'
        BY <1>1, <1>5, <2>1, <2>5 DEF PlacesInv
    <2> QED BY <1>1, <1>4, <1>5, <1>6, <2>6, <2>7, <2>8 DEF PlacesInv
<1> QED BY <1>7, <1>8

LEMMA PosterFrame ==
    ASSUME TypeOK,
           \/ \E p \in Producers, kind \in Kinds : Call(p, kind)
           \/ Drop
           \/ \E t \in Posters : NotifyPush(t) \/ PostTerminate(t) \/ Join(t)
    PROVE  \A w \in threads_ : Alike(pc[w], pc'[w]) /\ item'[w] = item[w]
<1>1. ASSUME NEW p \in Producers, NEW kind \in Kinds, Call(p, kind)
      PROVE  p \in Posters /\ Moves(p, "enqueue") /\ \A u \in Threads \ {p} : item'[u] = item[u]
    BY <1>1, GotoMoves, ThreadKinds DEF Call, Posters, PosterPlaces, TypeOK
<1>2. ASSUME Drop
      PROVE  Registry \in Posters /\ Moves(Registry, AfterRelease(Registry)) /\ item' = item
    <2>1. AfterRelease(Registry) \in PosterPlaces /\ Registry \in Posters
        BY DEF AfterRelease, PosterPlaces, Posters
    <2> QED BY <1>2, <2>1, GotoMoves, ThreadKinds DEF Drop
<1>3. ASSUME NEW t \in Posters, NotifyPush(t) PROVE (\E place : Moves(t, place)) /\ item' = item
    BY <1>3, NotifyPushMoves DEF NotifyPush
<1>4. ASSUME NEW t \in Posters, PostTerminate(t) \/ Join(t)
      PROVE  (\E place : Moves(t, place)) /\ \A u \in Threads \ {t} : item'[u] = item[u]
    BY <1>4, GotoMoves, ThreadKinds DEF PostTerminate, Join, PosterPlaces, TypeOK
<1>5. \E t \in Posters : \E place : Moves(t, place) /\ \A u \in Threads \ {t} : item'[u] = item[u]
    BY <1>1, <1>2, <1>3, <1>4
<1> QED BY <1>5, ThreadKinds, PoolWorkers DEF Moves

LEMMA NextPlaces == Inv /\ Others => PlacesInv'
<1> SUFFICES ASSUME Inv, Others PROVE PlacesInv'
    OBVIOUS
<1> USE DEF Inv
<1>1. ASSUME \/ \E p \in Producers, kind \in Kinds : Call(p, kind)
             \/ Drop
             \/ \E t \in Posters : NotifyPush(t) \/ PostTerminate(t) \/ Join(t)
      PROVE  PlacesInv'
    <2>1. Gone' = Gone
        BY <1>1, PostersQueue, JoinQueue
    <2>2. UNCHANGED <<threads_, posted, lost, sunk>>
        BY <1>1 DEF Call, Drop, NotifyPush, PostTerminate, Join, pool, queue
    <2> QED BY <1>1, <2>1, <2>2, PosterFrame, FramePlaces
<1> QED BY <1>1, PushPlaces, TakePlaces, WorkPlaces DEF Others

-----------------------------------------------------------------------------
(* The theorems.                                                           *)

LEMMA QuietInv == Inv /\ Quiet => Inv'
<1> SUFFICES ASSUME Inv, Quiet PROVE Inv'
    OBVIOUS
<1> USE DEF Inv
<1>1. TypeOK'
    BY QuietType
<1>2. /\ \A u \in Threads : Alike(pc[u], pc'[u]) /\ item'[u] = item[u]
      /\ \A u \in Posters : u \in Threads
      /\ \A w \in threads_ : w \in Threads
    BY ThreadKinds, PoolWorkers DEF Quiet
<1>3. UNCHANGED <<threads_, destroyed, owners, terminating, q, posted, lost, item, sunk>> /\ calls' \in calls..MaxCalls
    BY DEF Quiet
<1>4. ASSUME NEW u \in Posters
      PROVE  (Sending(u)' <=> Sending(u)) /\ (pc'[u] = "pushed" <=> pc[u] = "pushed")
    BY <1>2, SameThread
<1>5. OwnersInv'
    BY <1>2, <1>3, FrameOwners
<1>6. Uncounted' <=> Uncounted
    BY <1>3, <1>4 DEF Uncounted
<1>7. Sentinels' = Sentinels
    BY <1>2, <1>3, <1>6, SameSentinels
<1>8. QueueInv' /\ Gone' = Gone
    BY <1>2, <1>3, <1>7, FrameQueue
<1>9. calls' \in Nat /\ calls' >= calls
    BY <1>3, Numbers
<1>10. PostedInv'
    BY <1>3, <1>4, <1>9, FramePosted
<1>11. PlacesInv'
    BY <1>2, <1>3, <1>8, FramePlaces
<1> QED BY <1>1, <1>5, <1>8, <1>10, <1>11

LEMMA InitInv == Init => Inv
<1> SUFFICES ASSUME Init PROVE Inv
    OBVIOUS
<1>1. TypeOK
    <2>1. threads_ \in Pools /\ threads_ \in (SUBSET Workers) \ {{}}
        BY DEF Init
    <2>2. IsFiniteSet(threads_)
        BY <2>1, FS_Subset
    <2>3. Cardinality(threads_) \in Nat
        BY <2>2, FS_CardinalityType
    <2>4. pc \in [Threads -> PosterPlaces \cup WorkerPlaces]
          /\ \A t \in Threads : pc[t] \in IF t \in Workers THEN WorkerPlaces ELSE PosterPlaces
        BY DEF Init, PosterPlaces, WorkerPlaces
    <2>5. item \in [Threads -> Message \cup {Terminate}]
        BY DEF Init
    <2>6. owners \in SUBSET Posters
        BY DEF Init, Posters
    <2>7. q \in Seq(Message \cup {Terminate}) /\ Len(q) <= MaxItems /\ posted \in Seq(Message)
        BY DEF Init
    <2>8. terminating \in 0..Cardinality(threads_) /\ calls \in 0..MaxCalls /\ overrun_counter \in Nat
        BY <2>3 DEF Init
    <2>9. destroyed \in BOOLEAN /\ alive \in BOOLEAN /\ lost \subseteq Message /\ sunk \subseteq Message
          /\ overflow_policy_ \in [Producers -> Policies]
        BY DEF Init
    <2> QED BY <2>1, <2>4, <2>5, <2>6, <2>7, <2>8, <2>9 DEF TypeOK
<1>2. /\ \A t \in Posters : pc[t] = "idle"
      /\ \A w \in threads_ : pc[w] = "dequeue"
    BY <1>1, ThreadKinds, PoolWorkers DEF Init
<1>3. /\ \A t \in Posters : ~Posting(t) /\ ~Sending(t) /\ ~Destroying(t)
      /\ \A w \in threads_ : ~Holding(w)
      /\ ~Uncounted /\ Ended = {}
    BY <1>2 DEF Posting, Sending, Destroying, Holding, Uncounted, Ended
<1>4. OwnersInv
    BY <1>2, <1>3 DEF Init, OwnersInv, Posters
<1>5. Sentinels = 0 /\ InQueue = 0 /\ Gone = 0 /\ Len(q) = 0 /\ Len(posted) = 0
    <2>1. Sentinels = 0
        BY <1>3, FS_EmptySet DEF Init, Sentinels
    <2> QED BY <2>1 DEF Init, InQueue, Gone
<1>6. QueueInv
    BY <1>2, <1>3, <1>5 DEF Init, QueueInv
<1>7. PostedInv
    BY <1>3 DEF Init, PostedInv
<1>8. PlacesInv
    BY <1>2, <1>3, <1>5 DEF Init, PlacesInv
<1> QED BY <1>1, <1>4, <1>6, <1>7, <1>8 DEF Inv

LEMMA NextInv == Inv /\ [Next]_vars => Inv'
<1> SUFFICES ASSUME Inv, Others PROVE Inv'
    BY NextSplit, QuietInv DEF Inv
<1> QED BY NextType, NextOwners, NextQueue, NextPosted, NextPlaces DEF Inv

LEMMA InvHolds == Spec => []Inv
    BY InitInv, NextInv, PTL DEF Spec

\* The state of the pool stays within its types: the queue within its limit, and
\* never more terminate messages than workers (thread_pool-inl.h:46-62).
THEOREM TypeCorrect == Spec => []TypeOK
    BY InvHolds, PTL DEF Inv

\* The whole pool is left when the destructor returns.
LEMMA InvNothingForgotten == Inv => NothingForgotten
<1> SUFFICES ASSUME Inv, destroyed
             PROVE  /\ q = <<>> /\ \A w \in threads_ : pc[w] = "exited"
                    /\ {m \in Elements(posted) : m.kind = "log"} \subseteq lost \cup sunk
                    /\ lost \cap sunk = {}
    BY DEF NothingForgotten
<1> USE DEF Inv
<1>1. terminating = Cardinality(threads_) /\ \A w \in threads_ : pc[w] = "exited" /\ item[w] = Terminate
    BY DEF QueueInv
<1>2. Ended = threads_ /\ Ended # {}
    BY <1>1, PoolWorkers DEF Ended
<1>3. ~Uncounted
    BY DEF Uncounted, OwnersInv, Destroying, Posting
<1>4. Sentinels = 0
    BY <1>1, <1>2, <1>3, PoolWorkers DEF Sentinels
<1>5. InQueue = 0
    BY <1>2 DEF QueueInv
<1>6. Len(q) = 0 /\ Gone = Len(posted)
    BY <1>4, <1>5, QueueNumbers
<1>7. q = <<>>
    BY <1>6 DEF TypeOK
<1>8. ASSUME NEW m \in Elements(posted), m.kind = "log" PROVE m \in lost \cup sunk
    <2>1. PICK j \in 1..Gone : m = posted[j]
        BY <1>6 DEF Elements, TypeOK
    <2> QED BY <2>1, <1>1, <1>8 DEF PlacesInv
<1> QED BY <1>1, <1>7, <1>8 DEF PlacesInv

\* When the destructor has returned, every worker has ended and every message was
\* given to the sink or overrun, for any number of workers (thread_pool-inl.h:46-62).
THEOREM DestructorForgetsNothing == Spec => []NothingForgotten
    BY InvHolds, InvNothingForgotten, PTL

\* What was posted before a message that has left the queue has left it too, and
\* may be in the hand of another worker.
LEMMA EarlierLeft ==
    ASSUME Inv, NEW w \in threads_, Holding(w), item[w] # Terminate, NEW m \in Before(item[w])
    PROVE  Dealt(m) \/ \E v \in threads_ \ {w} : item[v] = m
<1> USE DEF Inv
<1>1. PICK j \in 1..Gone : item[w] = posted[j]
    BY DEF PlacesInv, Left
<1>2. PICK i \in DOMAIN posted, k \in DOMAIN posted : i < k /\ posted[k] = item[w] /\ m = posted[i]
    BY DEF Before
<1>3. Gone \in Nat /\ Len(posted) \in Nat /\ DOMAIN posted = 1..Len(posted) /\ j \in DOMAIN posted
    BY QueueNumbers, LeftMessages DEF TypeOK
<1>4. k = j /\ i \in 1..Gone
    <2>1. k = j
        BY <1>1, <1>2, <1>3 DEF PostedInv
    <2> QED BY <2>1, <1>2, <1>3
<1>5. m # item[w] /\ m # Terminate
    <2>1. m # item[w]
        BY <1>2, <1>3 DEF PostedInv
    <2> QED BY <2>1, <1>2, Numbers, TerminateIsNone
<1>6. m \notin Elements(q)
    <2> SUFFICES ASSUME NEW n \in DOMAIN q PROVE q[n] # m
        BY DEF Elements
    <2>1. n \in 1..Len(q) /\ Len(q) \in Nat
        BY DEF TypeOK
    <2>2. q[n] = IF n <= InQueue THEN posted[Gone + n] ELSE Terminate
        BY <2>1 DEF QueueInv
    <2>3. CASE n <= InQueue
        <3>1. Gone + n \in 1..Len(posted) /\ Gone + n # i
            BY <1>3, <1>4, <2>1, <2>3, QueueNumbers
        <3> QED BY <1>2, <1>3, <2>2, <2>3, <3>1 DEF PostedInv
    <2> QED BY <1>5, <2>2, <2>3
<1>7. m \in Hands => \E v \in threads_ \ {w} : item[v] = m
    BY <1>5 DEF Hands
<1> QED BY <1>6, <1>7 DEF Dealt

\* A flush covers what was posted before it, but for what another worker has in
\* hand, whatever the numbers of producers and workers (async_logger-inl.h:73-85).
THEOREM FlushCoversEarlier == Spec => FlushCovers
<1>1. ASSUME Inv, [Next]_vars
      PROVE  [\A w \in threads_ :
                (pc[w] = "flush" /\ pc'[w] = "dequeue" /\ item[w].kind = "flush") =>
                    \A m \in Before(item[w]) :
                        Dealt(m) \/ \E v \in threads_ \ {w} : item[v] = m]_vars
    <2>1. ASSUME NEW w \in threads_, pc[w] = "flush", NEW m \in Before(item[w])
          PROVE  Dealt(m) \/ \E v \in threads_ \ {w} : item[v] = m
        <3>1. Holding(w) /\ item[w] # Terminate
            BY <1>1, <2>1 DEF Holding, Inv, QueueInv
        <3> QED BY <1>1, <3>1, EarlierLeft
    <2> QED BY <2>1
<1> QED BY <1>1, InvHolds, PTL DEF Spec, FlushCovers

\* Messages are written in the order of their posts, but for what several workers
\* have in hand at once (thread_pool-inl.h:86-127).
THEOREM WritesInOrder == Spec => WrittenInOrder
<1>1. ASSUME Inv, [Next]_vars
      PROVE  [\A m \in sunk' \ sunk :
                \A e \in Before(m) :
                    Dealt(e) \/ \E v, w \in threads_ : v # w /\ item[v] = e /\ item[w] = m]_vars
    <2>1. ASSUME NEW m \in sunk' \ sunk, NEW e \in Before(m)
          PROVE  Dealt(e) \/ \E v, w \in threads_ : v # w /\ item[v] = e /\ item[w] = m
        <3>1. PICK w \in threads_ : BackendSinkIt(w)
            BY <1>1, <2>1
               DEF Next, vars, Call, Refused, Drop, ResetCounter, Spurious, CallStep, WaitForRoom, Push,
                   NotifyPush, PostTerminate, Join, WorkStep, WaitForItem, Take, NotifyPop, BackendFlush, Abort
        <3>2. m = item[w] /\ Holding(w) /\ item[w] # Terminate
            BY <1>1, <2>1, <3>1 DEF BackendSinkIt, At, Holding, Inv, QueueInv
        <3>3. Dealt(e) \/ \E v \in threads_ \ {w} : item[v] = e
            BY <1>1, <2>1, <3>2, EarlierLeft
        <3> QED BY <3>2, <3>3
    <2> QED BY <2>1
<1> QED BY <1>1, InvHolds, PTL DEF Spec, WrittenInOrder

-----------------------------------------------------------------------------
(* The pool is a channel.                                                  *)

\* The messages in the queue are its first InQueue elements.
LEMMA WaitingIs ==
    TypeOK /\ QueueInv =>
        /\ Waiting = [i \in 1..InQueue |-> posted[Gone + i]]
        /\ Waiting \in Seq(Message) /\ Len(Waiting) = InQueue
<1> SUFFICES ASSUME TypeOK, QueueInv
             PROVE  /\ Waiting = [i \in 1..InQueue |-> posted[Gone + i]]
                    /\ Waiting \in Seq(Message) /\ Len(Waiting) = InQueue
    OBVIOUS
<1>1. \A i \in 1..InQueue : i \in 1..Len(q) /\ Gone + i \in 1..Len(posted)
    BY QueueNumbers
<1>2. \A i \in 1..InQueue : q[i] = posted[Gone + i] /\ posted[Gone + i] \in Message
    BY <1>1, Numbers DEF QueueInv, TypeOK
<1>3. DOMAIN q = 1..Len(q) /\ Len(q) \in Nat
    BY DEF TypeOK
<1>4. ASSUME NEW j \in DOMAIN q PROVE q[j] # Terminate <=> j \in 1..InQueue
    <2>1. CASE j <= InQueue
        <3>1. j \in 1..InQueue
            BY <1>3, <2>1, QueueNumbers
        <3> QED BY <1>2, <3>1, TerminateIsNone
    <2>2. CASE ~(j <= InQueue)
        <3>1. j \notin 1..InQueue
            BY <1>3, <2>2, QueueNumbers
        <3> QED BY <1>3, <2>2, <3>1 DEF QueueInv
    <2> QED BY <2>1, <2>2
<1>5. {j \in DOMAIN q : q[j] # Terminate} = 1..InQueue
    BY <1>1, <1>3, <1>4
<1>6. Waiting = [i \in 1..InQueue |-> posted[Gone + i]]
    BY <1>2, <1>5 DEF Waiting
<1>7. Waiting \in [1..InQueue -> Message]
    BY <1>2, <1>6
<1>8. InQueue \in Nat
    BY QueueNumbers
<1>9. Waiting \in Seq(Message) /\ Len(Waiting) = InQueue
    BY <1>7, <1>8
<1> QED BY <1>6, <1>9

LEMMA SameHands ==
    ASSUME TypeOK, threads_' = threads_, \A w \in threads_ : Alike(pc[w], pc'[w]) /\ item'[w] = item[w]
    PROVE  Hands' = Hands
<1>1. \A w \in threads_ : pc'[w] \in {"taken", "write", "flush"} <=> pc[w] \in {"taken", "write", "flush"}
    BY SameThread
<1> QED BY <1>1 DEF Hands

LEMMA WaitingNow == TypeOK /\ QueueInv => Waiting = [i \in 1..InQueue |-> posted[Gone + i]]
    BY WaitingIs

LEMMA WaitingNext == (TypeOK /\ QueueInv)' => Waiting' = [i \in 1..InQueue' |-> posted'[Gone' + i]]
<1>1. (TypeOK /\ QueueInv => Waiting = [i \in 1..InQueue |-> posted[Gone + i]])'
    BY WaitingNow, PTL
<1> QED BY <1>1

LEMMA PushChannel ==
    ASSUME Inv, Inv', NEW t \in Posters, Push(t)
    PROVE  Channel!Next \/ UNCHANGED Channel!vars
<1> USE DEF Inv
<1>1. UNCHANGED <<overflow_policy_, threads_, destroyed, item>> /\ Moves(t, "pushed") /\ pc[t] = "enqueue"
    BY GotoMoves, ThreadKinds DEF Push, pool, At, PosterPlaces
<1>2. Hands' = Hands
    <2>1. \A w \in threads_ : Alike(pc[w], pc'[w]) /\ item'[w] = item[w]
        BY <1>1, ThreadKinds, PoolWorkers DEF Moves
    <2> QED BY <1>1, <2>1, SameHands
<1>3. CASE item[t] = Terminate
    <2>1. InQueue' = InQueue /\ Gone' = Gone /\ posted' = posted
        BY <1>3, PushTerminate
    <2>2. Waiting' = Waiting
        <3>1. Waiting' = [i \in 1..InQueue' |-> posted'[Gone' + i]]
            BY WaitingNext
        <3> QED BY <2>1, <3>1, WaitingIs
    <2>3. overrun_counter' = overrun_counter
        BY <1>3 DEF Push, Blocks, TypeOK
    <2> QED BY <1>1, <1>2, <2>2, <2>3 DEF Channel!vars
<1>4. CASE item[t] # Terminate
    <2>1. t \in owners /\ ~destroyed /\ item[t].by = t
        BY <1>1, <1>4 DEF OwnersInv, Sending, Posting
    <2>2. Waiting' = [i \in 1..InQueue' |-> posted'[Gone' + i]]
        BY WaitingNext
    <2>3. /\ posted' = Append(posted, item[t]) /\ item[t] \in Message
          /\ Gone = Len(posted) - Len(q) /\ InQueue = Len(q)
          /\ posted \in Seq(Message) /\ Len(posted) \in Nat /\ Len(q) \in Nat /\ Gone \in Nat
        <3>1. posted \in Seq(Message) /\ Len(posted) \in Nat /\ Len(q) \in Nat /\ Gone \in Nat
            BY QueueNumbers DEF TypeOK
        <3>2. /\ posted' = Append(posted, item[t]) /\ item[t] \in Message
              /\ Gone = Len(posted) - Len(q) /\ InQueue = Len(q)
            BY <1>4, PushMessage
        <3> QED BY <3>1, <3>2
    <2>4. Waiting = [i \in 1..Len(q) |-> posted[Gone + i]] /\ Waiting \in Seq(Message) /\ Len(Waiting) = Len(q)
        BY <2>3, WaitingIs
    <2>5. CASE Len(q) # MaxItems
        <3>1. Gone' = Gone /\ InQueue' = Len(q) + 1
            BY <1>4, <2>3, <2>5, PushMessage
        <3>2. Waiting' = Append(Waiting, item[t])
            <4>1. Append(Waiting, item[t]) = [i \in 1..Len(q) + 1 |-> IF i = Len(q) + 1 THEN item[t] ELSE Waiting[i]]
                BY <2>3, <2>4
            <4>2. ASSUME NEW i \in 1..Len(q) + 1
                  PROVE  posted'[Gone + i] = IF i = Len(q) + 1 THEN item[t] ELSE Waiting[i]
                <5>1. Gone + i \in 1..Len(posted) \/ (i = Len(q) + 1 /\ Gone + i = Len(posted) + 1)
                    BY <2>3
                <5> QED BY <5>1, <2>3, <2>4
            <4> QED BY <2>2, <3>1, <4>1, <4>2
        <3>3. overrun_counter' = overrun_counter /\ Len(Waiting) < MaxItems
            BY <2>3, <2>4, <2>5 DEF Push, TypeOK
        <3>4. Channel!Post(item[t])
            BY <1>1, <1>2, <2>1, <3>2, <3>3 DEF Channel!Post
        <3> QED BY <2>3, <3>4 DEF Channel!Next
    <2>6. CASE Len(q) = MaxItems
        <3>1. Gone' = Gone + 1 /\ InQueue' = Len(q) /\ Len(q) >= 1
            BY <1>4, <2>3, <2>6, PushMessage
        <3>2. Waiting' = Append(Tail(Waiting), item[t])
            <4>1. Waiting # <<>> /\ Tail(Waiting) \in Seq(Message) /\ Len(Tail(Waiting)) = Len(q) - 1
                  /\ \A i \in 1..Len(q) - 1 : Tail(Waiting)[i] = Waiting[i + 1]
                BY <2>3, <2>4, <3>1
            <4>2. Append(Tail(Waiting), item[t]) = [i \in 1..Len(q) |-> IF i = Len(q) THEN item[t] ELSE Tail(Waiting)[i]]
                BY <2>3, <4>1
            <4>3. ASSUME NEW i \in 1..Len(q)
                  PROVE  posted'[Gone + 1 + i] = IF i = Len(q) THEN item[t] ELSE Tail(Waiting)[i]
                <5>1. CASE i = Len(q)
                    BY <2>3, <5>1
                <5>2. CASE i # Len(q)
                    <6>1. Gone + 1 + i \in 1..Len(posted) /\ i \in 1..Len(q) - 1 /\ i + 1 \in 1..Len(q)
                          /\ Gone + (i + 1) = Gone + 1 + i
                        BY <2>3, <5>2
                    <6>2. posted'[Gone + 1 + i] = posted[Gone + 1 + i]
                        BY <2>3, <6>1
                    <6> QED BY <2>4, <4>1, <5>2, <6>1, <6>2
                <5> QED BY <5>1, <5>2
            <4> QED BY <2>2, <3>1, <4>2, <4>3
        <3>3. overrun_counter' = overrun_counter + 1 /\ Len(Waiting) = MaxItems
            BY <2>4, <2>6 DEF Push
        <3>4. item[t] \notin {m \in Message : overflow_policy_[m.by] = "block"}
            BY <1>4, <2>1, <2>6 DEF Push, Blocks
        <3>5. Channel!PushOut(item[t])
            BY <1>1, <1>2, <2>1, <3>2, <3>3, <3>4 DEF Channel!PushOut
        <3> QED BY <2>3, <3>5 DEF Channel!Next
    <2> QED BY <2>5, <2>6
<1> QED BY <1>3, <1>4

LEMMA TakeChannel ==
    ASSUME Inv, Inv', NEW w \in threads_, Take(w)
    PROVE  Channel!Next \/ UNCHANGED Channel!vars
<1> USE DEF Inv
<1>1. UNCHANGED <<overflow_policy_, threads_, destroyed, overrun_counter>>
      /\ Moves(w, "taken") /\ pc[w] = "dequeue" /\ item' = [item EXCEPT ![w] = q[1]] /\ posted' = posted
    BY TakeQueue DEF Take, pool, At
<1>2. item'[w] = q[1] /\ pc'[w] = "taken" /\ \A v \in threads_ \ {w} : item'[v] = item[v]
    BY <1>1, ThreadKinds, PoolWorkers DEF TypeOK, Moves
<1>3. ASSUME NEW v \in threads_ \ {w}
      PROVE  pc'[v] \in {"taken", "write", "flush"} <=> pc[v] \in {"taken", "write", "flush"}
    BY <1>1, <1>2, SameThread, ThreadKinds, PoolWorkers DEF Moves
<1>4. Hands' = Hands \cup {q[1]}
    BY <1>1, <1>2, <1>3 DEF Hands
<1>5. Waiting' = [i \in 1..InQueue' |-> posted[Gone' + i]]
    BY <1>1, WaitingNext
<1>6. CASE q[1] = Terminate
    <2>1. Waiting' = Waiting
        <3>1. InQueue' = InQueue /\ Gone' = Gone
            BY <1>6, TakeQueue
        <3> QED BY <1>5, <3>1, WaitingIs
    <2>2. Hands' \ {Terminate} = Hands \ {Terminate}
        BY <1>4, <1>6
    <2> QED BY <1>1, <2>1, <2>2 DEF Channel!vars
<1>7. CASE q[1] # Terminate
    <2>1. InQueue \in Nat /\ InQueue >= 1 /\ InQueue' = InQueue - 1 /\ Gone' = Gone + 1 /\ q[1] = posted[Gone + 1]
          /\ Gone \in Nat
        BY <1>7, TakeQueue, QueueNumbers
    <2>2. Waiting = [i \in 1..InQueue |-> posted[Gone + i]] /\ Waiting \in Seq(Message) /\ Len(Waiting) = InQueue
        BY WaitingIs
    <2>3. Waiting # <<>> /\ Head(Waiting) = q[1]
        BY <2>1, <2>2
    <2>4. Waiting' = Tail(Waiting)
        <3>1. Tail(Waiting) = [i \in 1..InQueue - 1 |-> Waiting[i + 1]]
            BY <2>1, <2>2, <2>3
        <3>2. ASSUME NEW i \in 1..InQueue - 1 PROVE posted[Gone' + i] = Waiting[i + 1]
            <4>1. i + 1 \in 1..InQueue /\ Gone' + i = Gone + (i + 1)
                BY <2>1
            <4> QED BY <2>2, <4>1
        <3> QED BY <1>5, <2>1, <3>1, <3>2
    <2>5. Hands' \ {Terminate} = (Hands \ {Terminate}) \cup {Head(Waiting)}
        BY <1>4, <1>7, <2>3
    <2>6. Channel!HandOn
        BY <1>1, <2>3, <2>4, <2>5 DEF Channel!HandOn
    <2> QED BY <2>6 DEF Channel!Next
<1> QED BY <1>6, <1>7

LEMMA WorkChannel ==
    ASSUME Inv, NEW w \in threads_, NotifyPop(w) \/ BackendSinkIt(w) \/ BackendFlush(w)
    PROVE  Channel!Next \/ UNCHANGED Channel!vars
<1> USE DEF Inv
<1>1. UNCHANGED <<overflow_policy_, threads_, destroyed, overrun_counter, q, item>>
    BY DEF NotifyPop, BackendSinkIt, BackendFlush, pool, queue
<1>2. PICK place \in {"exited", "write", "flush", "dequeue"} : WorkMove(w, place)
    BY WorkQueue
<1>3. pc'[w] = place /\ Holding(w)
    BY <1>2 DEF WorkMove, Moves, Holding
<1>4. ASSUME NEW v \in threads_ \ {w}
      PROVE  pc'[v] \in {"taken", "write", "flush"} <=> pc[v] \in {"taken", "write", "flush"}
    BY <1>1, <1>2, SameThread, ThreadKinds, PoolWorkers DEF WorkMove, Moves
<1>5. Waiting' = Waiting
    BY <1>1 DEF Waiting
<1>6. CASE place = "exited" \/ place \in {"write", "flush"}
    <2>1. Hands' \ {Terminate} = Hands \ {Terminate}
        BY <1>1, <1>2, <1>3, <1>4, <1>6 DEF Hands, WorkMove, Holding
    <2> QED BY <1>1, <1>5, <2>1 DEF Channel!vars
<1>7. CASE place = "dequeue"
    <2>1. item[w] # Terminate /\ item[w] \in Message /\ item[w] \in Hands
        BY <1>2, <1>3, <1>7, ThreadKinds, PoolWorkers DEF WorkMove, Hands, Holding, TypeOK
    <2>2. \A v \in threads_ \ {w} : pc[v] \in {"taken", "write", "flush"} => item[v] # item[w]
        BY <1>3, <2>1 DEF PlacesInv, Holding
    <2>3. Hands' = Hands \ {item[w]}
        BY <1>1, <1>3, <1>4, <1>7, <2>2 DEF Hands
    <2>4. Channel!Finish(item[w])
        BY <1>1, <1>5, <2>1, <2>3 DEF Channel!Finish
    <2> QED BY <2>1, <2>4 DEF Channel!Next
<1> QED BY <1>6, <1>7

LEMMA JoinChannel ==
    ASSUME Inv, Inv', NEW t \in Posters, Join(t)
    PROVE  Channel!Close
<1> USE DEF Inv
<1>1. /\ destroyed' = TRUE
      /\ UNCHANGED <<overflow_policy_, threads_, overrun_counter, q, item>>
      /\ Moves(t, "idle") /\ pc[t] = "destruct"
    BY GotoMoves, ThreadKinds DEF Join, queue, At, PosterPlaces
<1>2. ~destroyed
    BY <1>1 DEF OwnersInv, Destroying
<1>3. \A w \in threads_ : pc[w] = "exited" /\ item[w] = Terminate
    BY DEF Join, Joined, QueueInv
<1>4. Hands = {}
    BY <1>3 DEF Hands
<1>5. Hands' = Hands
    <2>1. \A w \in threads_ : Alike(pc[w], pc'[w])
        BY <1>1, ThreadKinds, PoolWorkers DEF Moves
    <2> QED BY <1>1, <2>1, SameHands
<1>6. Ended # {}
    BY <1>3, PoolWorkers DEF Ended
<1>7. Waiting = <<>> /\ Waiting' = Waiting
    <2>1. InQueue = 0
        BY <1>6 DEF QueueInv
    <2>2. Len(Waiting) = 0 /\ Waiting \in Seq(Message)
        BY <2>1, WaitingIs
    <2> QED BY <1>1, <2>2 DEF Waiting
<1> QED BY <1>1, <1>2, <1>4, <1>5, <1>7 DEF Channel!Close

LEMMA NextChannel == Inv /\ Inv' /\ [Next]_vars => [Channel!Next]_(Channel!vars)
<1> SUFFICES ASSUME Inv, Inv', [Next]_vars PROVE Channel!Next \/ UNCHANGED Channel!vars
    OBVIOUS
<1> USE DEF Inv
<1>1. CASE Quiet
    <2>1. UNCHANGED <<overflow_policy_, threads_, destroyed, q, item>>
          /\ (overrun_counter' = 0 \/ overrun_counter' = overrun_counter)
        BY <1>1 DEF Quiet
    <2>2. Hands' = Hands
        <3>1. \A w \in threads_ : Alike(pc[w], pc'[w])
            BY <1>1, ThreadKinds, PoolWorkers DEF Quiet
        <3> QED BY <2>1, <3>1, SameHands
    <2>3. Waiting' = Waiting
        BY <2>1 DEF Waiting
    <2>4. CASE overrun_counter' = 0
        <3>1. Channel!ResetCount
            BY <2>1, <2>2, <2>3, <2>4 DEF Channel!ResetCount
        <3> QED BY <3>1 DEF Channel!Next
    <2>5. CASE overrun_counter' = overrun_counter
        BY <2>1, <2>2, <2>3, <2>5 DEF Channel!vars
    <2> QED BY <2>1, <2>4, <2>5
<1>2. ASSUME \/ \E p \in Producers, kind \in Kinds : Call(p, kind)
             \/ Drop
             \/ \E t \in Posters : NotifyPush(t) \/ PostTerminate(t)
      PROVE  UNCHANGED Channel!vars
    <2>1. UNCHANGED <<overflow_policy_, threads_, destroyed, q, overrun_counter>>
        BY <1>2 DEF Call, Drop, NotifyPush, PostTerminate, pool, queue
    <2>2. \A w \in threads_ : Alike(pc[w], pc'[w]) /\ item'[w] = item[w]
        BY <1>2, PosterFrame
    <2>3. Hands' = Hands
        BY <2>1, <2>2, SameHands
    <2> QED BY <2>1, <2>3 DEF Waiting, Channel!vars
<1>3. ASSUME NEW t \in Posters, Join(t) PROVE Channel!Next
    BY <1>3, JoinChannel DEF Channel!Next
<1> QED BY <1>1, <1>2, <1>3, NextSplit, PushChannel, TakeChannel, WorkChannel DEF Others

\* The pool hands messages on in the order of their posts, a blocking logger
\* overruns nothing, each overrun is counted, and the destructor returns when
\* all is dealt with (mpmc_blocking_q.h:33-83, thread_pool-inl.h:46-62).
THEOREM PoolIsChannel == Spec => IsChannel
<1>1. Init => Channel!Init
    <2> SUFFICES ASSUME Init PROVE Channel!Init
        OBVIOUS
    <2>1. Waiting = <<>>
        BY DEF Init, Waiting
    <2>2. TypeOK
        BY InitInv DEF Inv
    <2>3. \A w \in threads_ : pc[w] = "dequeue"
        BY <2>2, ThreadKinds, PoolWorkers DEF Init
    <2>4. Hands = {}
        BY <2>3 DEF Hands
    <2> QED BY <2>1, <2>4 DEF Init, Channel!Init
<1> QED BY <1>1, InvHolds, NextChannel, PTL DEF Spec, IsChannel, Channel!Spec

-----------------------------------------------------------------------------
(* Notifications.                                                          *)

Crowd == Posters \cup threads_
Those(f, C, a) == {t \in C : f[t] = a}
Count(place) == Cardinality(Those(pc, Crowd, place))

\* Who waits for room can be woken for each free place: by a worker that has made
\* it and not yet notified, or by a thread that will fill it.  Who waits for an
\* item can be woken for each message, or a worker will take it.
WakeInv ==
    /\ (\E t \in Crowd : pc[t] = "room") => MaxItems <= Len(q) + Count("enqueue") + Count("taken")
    /\ (\E t \in Crowd : pc[t] = "item") => Len(q) <= Count("dequeue") + Count("pushed")

LEMMA CrowdType ==
    ASSUME TypeOK
    PROVE  /\ IsFiniteSet(Crowd) /\ Crowd \subseteq Threads
           /\ \A t \in Posters : t \in Crowd /\ pc[t] \in PosterPlaces
           /\ \A w \in threads_ : w \in Crowd /\ pc[w] \in WorkerPlaces
<1>1. IsFiniteSet(Posters)
    BY FS_AddElement DEF Posters
<1>2. IsFiniteSet(Crowd)
    BY <1>1, PoolWorkers, FS_Union DEF Crowd
<1>3. Crowd \subseteq Threads
    BY PoolWorkers, ThreadKinds DEF Crowd
<1>4. \A t \in Posters : t \in Crowd /\ pc[t] \in PosterPlaces
    BY ThreadKinds DEF Crowd, TypeOK
<1>5. \A w \in threads_ : w \in Crowd /\ pc[w] \in WorkerPlaces
    BY PoolWorkers, ThreadKinds DEF Crowd, TypeOK
<1> QED BY <1>2, <1>3, <1>4, <1>5

LEMMA CountType ==
    ASSUME TypeOK, threads_' = threads_
    PROVE  \A p : Count(p) \in Nat /\ Count(p)' \in Nat
<1>1. Crowd' = Crowd /\ IsFiniteSet(Crowd)
    BY CrowdType DEF Crowd
<1>2. \A f, a : Those(f, Crowd, a) \subseteq Crowd
    BY DEF Those
<1>3. \A f, a : Cardinality(Those(f, Crowd, a)) \in Nat
    BY <1>1, <1>2, FS_Subset, FS_CardinalityType
<1> QED BY <1>1, <1>3 DEF Count

\* Of C one element leaves those where f has a value.
LEMMA OneLeaves ==
    ASSUME NEW C, IsFiniteSet(C), NEW f, NEW g, NEW t \in C, NEW a, f[t] = a, g[t] # a,
           \A u \in C \ {t} : g[u] = a <=> f[u] = a
    PROVE  Cardinality(Those(g, C, a)) = Cardinality(Those(f, C, a)) - 1
<1>1. Those(g, C, a) = Those(f, C, a) \ {t} /\ t \in Those(f, C, a) /\ Those(f, C, a) \subseteq C
    BY DEF Those
<1>2. IsFiniteSet(Those(f, C, a))
    BY <1>1, FS_Subset
<1>3. \A S : IsFiniteSet(S) => \A x \in S : Cardinality(S \ {x}) = Cardinality(S) - 1
    BY FS_RemoveElement
<1> QED BY <1>1, <1>2, <1>3

LEMMA Leaves ==
    ASSUME TypeOK, threads_' = threads_, NEW t \in Crowd, NEW a, pc[t] = a, pc'[t] # a,
           \A u \in Crowd \ {t} : pc'[u] = a <=> pc[u] = a
    PROVE  Count(a)' = Count(a) - 1
<1>1. Crowd' = Crowd /\ IsFiniteSet(Crowd)
    BY CrowdType DEF Crowd
<1>2. Cardinality(Those(pc', Crowd, a)) = Cardinality(Those(pc, Crowd, a)) - 1
    BY <1>1, OneLeaves
<1> QED BY <1>1, <1>2 DEF Count

LEMMA Enters ==
    ASSUME TypeOK, threads_' = threads_, NEW t \in Crowd, NEW a, pc[t] # a, pc'[t] = a,
           \A u \in Crowd \ {t} : pc'[u] = a <=> pc[u] = a
    PROVE  Count(a)' = Count(a) + 1
<1>1. Crowd' = Crowd /\ IsFiniteSet(Crowd)
    BY CrowdType DEF Crowd
<1>2. Cardinality(Those(pc, Crowd, a)) = Cardinality(Those(pc', Crowd, a)) - 1
    BY <1>1, OneLeaves
<1>3. Count(a) = Count(a)' - 1
    BY <1>1, <1>2 DEF Count
<1> QED BY <1>3, CountType

LEMMA Stays ==
    ASSUME threads_' = threads_, NEW a, \A u \in Crowd : pc'[u] = a <=> pc[u] = a
    PROVE  Count(a)' = Count(a)
<1>1. Crowd' = Crowd
    BY DEF Crowd
<1>2. Those(pc', Crowd, a) = Those(pc, Crowd, a)
    BY DEF Those
<1> QED BY <1>1, <1>2 DEF Count

\* One thread goes from a to b.
LEMMA Goes ==
    ASSUME TypeOK, threads_' = threads_, NEW t \in Crowd, NEW a, NEW b, pc[t] = a, a # b, Goto(t, b)
    PROVE  /\ Count(a)' = Count(a) - 1 /\ Count(b)' = Count(b) + 1
           /\ \A p : p \notin {a, b} => Count(p)' = Count(p)
           /\ pc'[t] = b /\ \A u \in Crowd \ {t} : pc'[u] = pc[u]
<1>1. t \in Threads /\ pc \in [Threads -> PosterPlaces \cup WorkerPlaces] /\ Crowd \subseteq Threads
    BY CrowdType DEF TypeOK
<1>2. pc'[t] = b /\ \A u \in Crowd \ {t} : pc'[u] = pc[u]
    BY <1>1 DEF Goto
<1>3. Count(a)' = Count(a) - 1
    BY <1>2, Leaves
<1>4. Count(b)' = Count(b) + 1
    BY <1>2, Enters
<1>5. ASSUME NEW p, p \notin {a, b} PROVE Count(p)' = Count(p)
    <2>1. \A u \in Crowd : pc'[u] = p <=> pc[u] = p
        BY <1>2, <1>5
    <2> QED BY <2>1, Stays
<1> QED BY <1>2, <1>3, <1>4, <1>5

\* Steps that put nobody to sleep and take nothing away from those that sleep.
LEMMA WakeKept ==
    ASSUME TypeOK, WakeInv, threads_' = threads_, q' = q,
           \A t \in Crowd : /\ pc'[t] = "room" => pc[t] = "room"
                            /\ pc'[t] = "item" => pc[t] = "item",
           Count("enqueue")' + Count("taken")' >= Count("enqueue") + Count("taken"),
           Count("dequeue")' + Count("pushed")' >= Count("dequeue") + Count("pushed")
    PROVE  WakeInv'
<1>1. Crowd' = Crowd /\ Len(q) \in Nat /\ MaxItems \in Nat
    BY DEF Crowd, TypeOK
<1>2. /\ Count("enqueue") \in Nat /\ Count("taken") \in Nat
      /\ Count("enqueue")' \in Nat /\ Count("taken")' \in Nat
      /\ Count("dequeue") \in Nat /\ Count("pushed") \in Nat
      /\ Count("dequeue")' \in Nat /\ Count("pushed")' \in Nat
    BY CountType
<1>3. ASSUME \E t \in Crowd : pc'[t] = "room"
      PROVE  MaxItems <= Len(q)' + Count("enqueue")' + Count("taken")'
    <2>1. MaxItems <= Len(q) + Count("enqueue") + Count("taken")
        BY <1>3 DEF WakeInv
    <2>2. Len(q)' = Len(q)
        OBVIOUS
    <2> QED BY <2>1, <2>2, <1>2, <1>1
<1>4. ASSUME \E t \in Crowd : pc'[t] = "item"
      PROVE  Len(q)' <= Count("dequeue")' + Count("pushed")'
    <2>1. Len(q) <= Count("dequeue") + Count("pushed")
        BY <1>4 DEF WakeInv
    <2> QED BY <2>1, <1>2, <1>1
<1> QED BY <1>1, <1>3, <1>4 DEF WakeInv

\* A thread goes on to a place where it does not wait, and from one where nobody
\* counts on it.
LEMMA WakeGoes ==
    ASSUME TypeOK, WakeInv, threads_' = threads_, q' = q,
           NEW t \in Crowd, NEW a, NEW b, pc[t] = a, a # b, Goto(t, b), b \notin {"room", "item"},
           a \notin {"enqueue", "taken", "dequeue", "pushed"}
    PROVE  WakeInv'
<1>1. /\ Count(b)' = Count(b) + 1
      /\ \A p : p \notin {a, b} => Count(p)' = Count(p)
      /\ pc'[t] = b /\ \A u \in Crowd \ {t} : pc'[u] = pc[u]
    BY Goes
<1>2. \A p : Count(p) \in Nat /\ Count(p)' \in Nat
    BY CountType
<1>3. /\ Count("enqueue")' >= Count("enqueue") /\ Count("taken")' >= Count("taken")
      /\ Count("dequeue")' >= Count("dequeue") /\ Count("pushed")' >= Count("pushed")
    <2>1. ASSUME NEW p, p # a PROVE Count(p)' >= Count(p)
        BY <1>1, <1>2, <2>1
    <2> QED BY <2>1
<1>4. \A u \in Crowd : /\ pc'[u] = "room" => pc[u] = "room"
                       /\ pc'[u] = "item" => pc[u] = "item"
    BY <1>1
<1>5. /\ Count("enqueue")' + Count("taken")' >= Count("enqueue") + Count("taken")
      /\ Count("dequeue")' + Count("pushed")' >= Count("dequeue") + Count("pushed")
    BY <1>2, <1>3
<1> QED BY <1>4, <1>5, WakeKept

\* A step that moves nobody.
LEMMA WakeSame ==
    ASSUME TypeOK, WakeInv, threads_' = threads_, q' = q, pc' = pc
    PROVE  WakeInv'
<1>1. Crowd' = Crowd
    BY DEF Crowd
<1>2. \A p : Count(p)' = Count(p)
    BY <1>1 DEF Count
<1> QED BY <1>1, <1>2 DEF WakeInv

LEMMA CallWakes ==
    ASSUME TypeOK, WakeInv,
           \/ \E p \in Producers, kind \in Kinds : Call(p, kind)
           \/ \E t \in Posters : PostTerminate(t) \/ Join(t)
           \/ Drop
    PROVE  WakeInv'
<1> USE CrowdType DEF At
<1>1. ASSUME NEW p \in Producers, NEW kind \in Kinds, Call(p, kind) PROVE WakeInv'
    <2>1. pc[p] = "idle" /\ Goto(p, "enqueue") /\ q' = q /\ threads_' = threads_ /\ p \in Posters
        BY <1>1 DEF Call, pool, queue, Posters
    <2> QED BY <2>1, WakeGoes
<1>2. ASSUME NEW t \in Posters, PostTerminate(t) PROVE WakeInv'
    <2>1. pc[t] = "destruct" /\ Goto(t, "enqueue") /\ q' = q /\ threads_' = threads_
        BY <1>2 DEF PostTerminate, pool, queue
    <2> QED BY <2>1, WakeGoes
<1>3. ASSUME NEW t \in Posters, Join(t) PROVE WakeInv'
    <2>1. pc[t] = "destruct" /\ Goto(t, "idle") /\ q' = q /\ threads_' = threads_
        BY <1>3 DEF Join, queue
    <2> QED BY <2>1, WakeGoes
<1>4. ASSUME Drop PROVE WakeInv'
    <2>1. pc[Registry] = "idle" /\ Goto(Registry, AfterRelease(Registry)) /\ q' = q /\ threads_' = threads_
          /\ Registry \in Posters
        BY <1>4 DEF Drop, pool, queue, Posters
    <2>2. CASE AfterRelease(Registry) = "idle"
        <3>1. pc' = pc
            BY <2>1, <2>2, ThreadKinds DEF Goto, TypeOK
        <3> QED BY <2>1, <3>1, WakeSame
    <2>3. CASE AfterRelease(Registry) = "destruct"
        BY <2>1, <2>3, WakeGoes
    <2> QED BY <2>2, <2>3 DEF AfterRelease
<1> QED BY <1>1, <1>2, <1>3, <1>4

LEMMA SleepWakes ==
    ASSUME TypeOK, WakeInv,
           (\E t \in Posters : WaitForRoom(t)) \/ (\E w \in threads_ : WaitForItem(w))
    PROVE  WakeInv'
<1> USE CrowdType DEF At
<1>1. ASSUME NEW t \in Posters, WaitForRoom(t) PROVE WakeInv'
    <2>1. /\ pc[t] = "enqueue" /\ Goto(t, "room") /\ q' = q /\ threads_' = threads_
          /\ Len(q) = MaxItems
        BY <1>1 DEF WaitForRoom, pool, queue
    <2>2. /\ \A p : p \notin {"enqueue", "room"} => Count(p)' = Count(p)
          /\ pc'[t] = "room" /\ \A u \in Crowd \ {t} : pc'[u] = pc[u]
        BY <2>1, Goes
    <2>3. \A p : Count(p)' \in Nat
        BY <2>1, CountType
    <2>4. Crowd' = Crowd
        BY <2>1 DEF Crowd
    <2>5. MaxItems <= Len(q)' + Count("enqueue")' + Count("taken")'
        <3>1. Count("enqueue")' \in Nat /\ Count("taken")' \in Nat /\ Len(q)' = MaxItems
            BY <2>1, <2>3
        <3> QED BY <3>1
    <2>6. (\E u \in Crowd : pc'[u] = "item") => Len(q)' <= Count("dequeue")' + Count("pushed")'
        BY <2>1, <2>2 DEF WakeInv
    <2> QED BY <2>4, <2>5, <2>6 DEF WakeInv
<1>2. ASSUME NEW w \in threads_, WaitForItem(w) PROVE WakeInv'
    <2>1. /\ pc[w] = "dequeue" /\ Goto(w, "item") /\ q' = q /\ threads_' = threads_
          /\ q = <<>>
        BY <1>2 DEF WaitForItem, pool, queue
    <2>2. /\ \A p : p \notin {"dequeue", "item"} => Count(p)' = Count(p)
          /\ pc'[w] = "item" /\ \A u \in Crowd \ {w} : pc'[u] = pc[u]
        BY <2>1, Goes
    <2>3. \A p : Count(p)' \in Nat
        BY <2>1, CountType
    <2>4. Crowd' = Crowd
        BY <2>1 DEF Crowd
    <2>5. Len(q)' <= Count("dequeue")' + Count("pushed")'
        <3>1. Count("dequeue")' \in Nat /\ Count("pushed")' \in Nat /\ Len(q)' = 0
            BY <2>1, <2>3
        <3> QED BY <3>1
    <2>6. (\E u \in Crowd : pc'[u] = "room") => MaxItems <= Len(q)' + Count("enqueue")' + Count("taken")'
        BY <2>1, <2>2 DEF WakeInv
    <2> QED BY <2>4, <2>5, <2>6 DEF WakeInv
<1> QED BY <1>1, <1>2

\* A message more, and who will notify for it; a free place less, and who filled it.
LEMMA PushWakes ==
    ASSUME TypeOK, WakeInv, NEW t \in Posters, Push(t)
    PROVE  WakeInv'
<1>1. /\ pc[t] = "enqueue" /\ Goto(t, "pushed") /\ threads_' = threads_ /\ t \in Crowd
      /\ q' = Pushed(item[t])
    BY CrowdType DEF Push, At, pool
<1>2. /\ Count("enqueue")' = Count("enqueue") - 1 /\ Count("pushed")' = Count("pushed") + 1
      /\ \A p : p \notin {"enqueue", "pushed"} => Count(p)' = Count(p)
      /\ pc'[t] = "pushed" /\ \A u \in Crowd \ {t} : pc'[u] = pc[u]
    BY <1>1, Goes
<1>3. \A p : Count(p) \in Nat /\ Count(p)' \in Nat
    BY <1>1, CountType
<1>4. Crowd' = Crowd
    BY <1>1 DEF Crowd
<1>5. Len(q)' = IF Len(q) = MaxItems THEN MaxItems ELSE Len(q) + 1
    BY <1>1 DEF Pushed, TypeOK
<1>6. Len(q) \in Nat /\ MaxItems \in Nat /\ Len(q) <= MaxItems
    BY DEF TypeOK
<1>7. ASSUME \E u \in Crowd : pc'[u] = "room"
      PROVE  MaxItems <= Len(q)' + Count("enqueue")' + Count("taken")'
    <2>1. MaxItems <= Len(q) + Count("enqueue") + Count("taken")
        BY <1>2, <1>7 DEF WakeInv
    <2>2. Count("taken")' = Count("taken")
        BY <1>2
    <2>3. /\ Count("enqueue") \in Nat /\ Count("taken") \in Nat /\ Count("enqueue")' \in Nat
        BY <1>3
    <2> QED BY <2>1, <2>2, <2>3, <1>2, <1>5, <1>6
<1>8. ASSUME \E u \in Crowd : pc'[u] = "item"
      PROVE  Len(q)' <= Count("dequeue")' + Count("pushed")'
    <2>1. Len(q) <= Count("dequeue") + Count("pushed")
        BY <1>2, <1>8 DEF WakeInv
    <2>2. Count("dequeue")' = Count("dequeue")
        BY <1>2
    <2>3. Count("dequeue") \in Nat /\ Count("pushed") \in Nat
        BY <1>3
    <2> QED BY <2>1, <2>2, <2>3, <1>2, <1>5, <1>6
<1> QED BY <1>4, <1>7, <1>8 DEF WakeInv

\* A message less, and who would have taken it; a free place more, and who will
\* notify of it.
LEMMA TakeWakes ==
    ASSUME TypeOK, WakeInv, NEW w \in threads_, Take(w)
    PROVE  WakeInv'
<1>1. /\ pc[w] = "dequeue" /\ Goto(w, "taken") /\ threads_' = threads_ /\ w \in Crowd
      /\ q # <<>> /\ q' = Tail(q)
    BY CrowdType DEF Take, At, pool, Front
<1>2. /\ Count("dequeue")' = Count("dequeue") - 1 /\ Count("taken")' = Count("taken") + 1
      /\ \A p : p \notin {"dequeue", "taken"} => Count(p)' = Count(p)
      /\ pc'[w] = "taken" /\ \A u \in Crowd \ {w} : pc'[u] = pc[u]
    BY <1>1, Goes
<1>3. \A p : Count(p) \in Nat /\ Count(p)' \in Nat
    BY <1>1, CountType
<1>4. Crowd' = Crowd
    BY <1>1 DEF Crowd
<1>5. Len(q)' = Len(q) - 1
    BY <1>1 DEF TypeOK
<1>6. Len(q) \in Nat /\ MaxItems \in Nat
    BY DEF TypeOK
<1>7. ASSUME \E u \in Crowd : pc'[u] = "room"
      PROVE  MaxItems <= Len(q)' + Count("enqueue")' + Count("taken")'
    <2>1. MaxItems <= Len(q) + Count("enqueue") + Count("taken")
        BY <1>2, <1>7 DEF WakeInv
    <2>2. Count("enqueue")' = Count("enqueue")
        BY <1>2
    <2>3. Count("enqueue") \in Nat /\ Count("taken") \in Nat
        BY <1>3
    <2> QED BY <2>1, <2>2, <2>3, <1>2, <1>5, <1>6
<1>8. ASSUME \E u \in Crowd : pc'[u] = "item"
      PROVE  Len(q)' <= Count("dequeue")' + Count("pushed")'
    <2>1. Len(q) <= Count("dequeue") + Count("pushed")
        BY <1>2, <1>8 DEF WakeInv
    <2>2. Count("pushed")' = Count("pushed")
        BY <1>2
    <2>3. Count("dequeue") \in Nat /\ Count("pushed") \in Nat
        BY <1>3
    <2> QED BY <2>1, <2>2, <2>3, <1>2, <1>5, <1>6
<1> QED BY <1>4, <1>7, <1>8 DEF WakeInv

\* notify_one: t, who owed the notification, goes on to b, and one of those that
\* wait at c tests its condition again at d, or nobody waits there.
LEMMA NotifyCounts ==
    ASSUME TypeOK, threads_' = threads_, NEW t \in Crowd, NEW a, NEW b, NEW c, NEW d,
           NEW waiting \in SUBSET Crowd, pc[t] = a, a # b, a # c, c # d, a # d, b # c, b # d,
           NotifyOne(t, b, waiting, c, d)
    PROVE  /\ Count(a)' = Count(a) - 1
           /\ \A p : p \notin {a, b, c, d} => Count(p)' = Count(p)
           /\ \/ Count(d)' = Count(d) + 1
              \/ Count(d)' = Count(d) /\ \A u \in waiting : pc'[u] # c
           /\ \A u \in Crowd : pc'[u] \in {pc[u], b, d}
<1>1. t \in Threads /\ pc \in [Threads -> PosterPlaces \cup WorkerPlaces] /\ Crowd \subseteq Threads
    BY CrowdType DEF TypeOK
<1>2. CASE Goto(t, b) /\ \A u \in waiting : pc[u] # c
    <2>1. /\ Count(a)' = Count(a) - 1
          /\ \A p : p \notin {a, b} => Count(p)' = Count(p)
          /\ pc'[t] = b /\ \A u \in Crowd \ {t} : pc'[u] = pc[u]
        BY <1>2, Goes
    <2> QED BY <1>2, <2>1
<1>3. CASE \E u \in waiting : pc[u] = c /\ pc' = [pc EXCEPT ![t] = b, ![u] = d]
    <2>1. PICK u \in waiting : pc[u] = c /\ pc' = [pc EXCEPT ![t] = b, ![u] = d]
        BY <1>3
    <2>2. u \in Crowd /\ u # t
        BY <2>1
    <2>3. pc'[t] = b /\ pc'[u] = d /\ \A v \in Crowd \ {t, u} : pc'[v] = pc[v]
        BY <1>1, <2>1, <2>2
    <2>4. Count(a)' = Count(a) - 1
        <3>1. \A v \in Crowd \ {t} : pc'[v] = a <=> pc[v] = a
            BY <2>1, <2>3
        <3> QED BY <2>3, <3>1, Leaves
    <2>5. Count(d)' = Count(d) + 1
        <3>1. \A v \in Crowd \ {u} : pc'[v] = d <=> pc[v] = d
            BY <2>1, <2>3
        <3> QED BY <2>1, <2>2, <2>3, <3>1, Enters
    <2>6. ASSUME NEW p, p \notin {a, b, c, d} PROVE Count(p)' = Count(p)
        <3>1. \A v \in Crowd : pc'[v] = p <=> pc[v] = p
            BY <2>1, <2>3, <2>6
        <3> QED BY <3>1, Stays
    <2> QED BY <2>3, <2>4, <2>5, <2>6
<1> QED BY <1>2, <1>3 DEF NotifyOne

LEMMA NotifyPushWakes ==
    ASSUME TypeOK, WakeInv, NEW t \in Posters, NotifyPush(t)
    PROVE  WakeInv'
<1> DEFINE b == IF item[t] = Terminate THEN "destruct" ELSE AfterRelease(t)
<1>1. /\ pc[t] = "pushed" /\ NotifyOne(t, b, threads_, "item", "dequeue")
      /\ q' = q /\ threads_' = threads_ /\ t \in Crowd /\ threads_ \in SUBSET Crowd
    BY CrowdType DEF NotifyPush, At, pool, queue
<1>2. b \in {"destruct", "idle"}
    BY DEF AfterRelease
<1> HIDE DEF b
<1>3. /\ Count("pushed")' = Count("pushed") - 1
      /\ \A p : p \notin {"pushed", b, "item", "dequeue"} => Count(p)' = Count(p)
      /\ \/ Count("dequeue")' = Count("dequeue") + 1
         \/ Count("dequeue")' = Count("dequeue") /\ \A u \in threads_ : pc'[u] # "item"
      /\ \A u \in Crowd : pc'[u] \in {pc[u], b, "dequeue"}
    BY <1>1, <1>2, NotifyCounts
<1>4. Count("enqueue")' = Count("enqueue") /\ Count("taken")' = Count("taken")
    BY <1>2, <1>3
<1>5. Crowd' = Crowd
    BY <1>1 DEF Crowd
<1>6. (\E u \in Crowd : pc'[u] = "room") => MaxItems <= Len(q)' + Count("enqueue")' + Count("taken")'
    BY <1>1, <1>2, <1>3, <1>4 DEF WakeInv
<1>7. ASSUME NEW u \in Crowd, pc'[u] = "item"
      PROVE  Len(q)' <= Count("dequeue")' + Count("pushed")'
    <2>1. pc[u] = "item"
        BY <1>2, <1>3, <1>7
    <2>2. Len(q) <= Count("dequeue") + Count("pushed")
        BY <2>1 DEF WakeInv
    <2>3. u \in threads_
        BY <2>1, CrowdType DEF Crowd, PosterPlaces
    <2>4. Count("dequeue")' = Count("dequeue") + 1
        BY <1>3, <1>7, <2>3
    <2>5. Count("dequeue") \in Nat /\ Count("pushed") \in Nat /\ Len(q) \in Nat
        BY <1>1, CountType DEF TypeOK
    <2> QED BY <1>1, <1>3, <2>2, <2>4, <2>5
<1> QED BY <1>5, <1>6, <1>7 DEF WakeInv

LEMMA NotifyPopWakes ==
    ASSUME TypeOK, WakeInv, NEW w \in threads_, NotifyPop(w)
    PROVE  WakeInv'
<1> DEFINE b == Work(item[w])
<1>1. /\ pc[w] = "taken" /\ NotifyOne(w, b, Posters, "room", "enqueue")
      /\ q' = q /\ threads_' = threads_ /\ w \in Crowd /\ Posters \in SUBSET Crowd
    BY CrowdType DEF NotifyPop, At, pool, queue, Wakeable
<1>2. b \in {"exited", "flush", "write"}
    BY DEF Work
<1> HIDE DEF b
<1>3. /\ Count("taken")' = Count("taken") - 1
      /\ \A p : p \notin {"taken", b, "room", "enqueue"} => Count(p)' = Count(p)
      /\ \/ Count("enqueue")' = Count("enqueue") + 1
         \/ Count("enqueue")' = Count("enqueue") /\ \A u \in Posters : pc'[u] # "room"
      /\ \A u \in Crowd : pc'[u] \in {pc[u], b, "enqueue"}
    BY <1>1, <1>2, NotifyCounts
<1>4. Count("dequeue")' = Count("dequeue") /\ Count("pushed")' = Count("pushed")
    BY <1>2, <1>3
<1>5. Crowd' = Crowd
    BY <1>1 DEF Crowd
<1>6. (\E u \in Crowd : pc'[u] = "item") => Len(q)' <= Count("dequeue")' + Count("pushed")'
    BY <1>1, <1>2, <1>3, <1>4 DEF WakeInv
<1>7. ASSUME NEW u \in Crowd, pc'[u] = "room"
      PROVE  MaxItems <= Len(q)' + Count("enqueue")' + Count("taken")'
    <2>1. pc[u] = "room"
        BY <1>2, <1>3, <1>7
    <2>2. MaxItems <= Len(q) + Count("enqueue") + Count("taken")
        BY <2>1 DEF WakeInv
    <2>3. u \in Posters
        BY <2>1, CrowdType DEF Crowd, WorkerPlaces
    <2>4. Count("enqueue")' = Count("enqueue") + 1
        BY <1>3, <1>7, <2>3
    <2>5. Count("enqueue") \in Nat /\ Count("taken") \in Nat /\ Len(q) \in Nat /\ MaxItems \in Nat
        BY <1>1, CountType DEF TypeOK
    <2> QED BY <1>1, <1>3, <2>2, <2>4, <2>5
<1> QED BY <1>5, <1>6, <1>7 DEF WakeInv

\* A thread wakes without a notification.
LEMMA SpuriousWakes ==
    ASSUME TypeOK, WakeInv, Spurious
    PROVE  WakeInv'
<1>1. q' = q /\ threads_' = threads_
    BY DEF Spurious, pool, queue
<1>2. ASSUME NEW t \in Posters, pc[t] = "room", Goto(t, "enqueue") PROVE WakeInv'
    BY <1>1, <1>2, CrowdType, WakeGoes
<1>3. ASSUME NEW w \in threads_, pc[w] = "item", Goto(w, "dequeue") PROVE WakeInv'
    BY <1>1, <1>3, CrowdType, WakeGoes
<1> QED BY <1>2, <1>3 DEF Spurious

LEMMA WorkWakes ==
    ASSUME TypeOK, WakeInv, NEW w \in threads_,
           BackendSinkIt(w) \/ BackendFlush(w)
    PROVE  WakeInv'
<1>1. q' = q /\ threads_' = threads_ /\ w \in Crowd
    BY CrowdType DEF BackendSinkIt, BackendFlush, pool, queue
<1>2. CASE BackendSinkIt(w)
    <2>1. pc[w] = "write" /\ (Goto(w, "flush") \/ Goto(w, "dequeue"))
        BY <1>2 DEF BackendSinkIt, AfterWrite, At
    <2> QED BY <1>1, <2>1, WakeGoes
<1>3. CASE BackendFlush(w)
    <2>1. pc[w] = "flush" /\ Goto(w, "dequeue")
        BY <1>3 DEF BackendFlush, At
    <2> QED BY <1>1, <2>1, WakeGoes
<1> QED BY <1>2, <1>3

LEMMA NextWake == TypeOK /\ WakeInv /\ [Next]_vars => WakeInv'
<1> SUFFICES ASSUME TypeOK, WakeInv, [Next]_vars PROVE WakeInv'
    OBVIOUS
<1>1. CASE \/ \E w \in threads_ : Abort(w)
           \/ \E p \in Producers : Refused(p)
           \/ ResetCounter \/ UNCHANGED vars
    <2>1. q' = q /\ threads_' = threads_ /\ pc' = pc
        BY <1>1 DEF Abort, Refused, ResetCounter, vars, pool, queue
    <2> QED BY <2>1, WakeSame
<1>2. CASE \/ \E t \in Posters : CallStep(t)
           \/ \E w \in threads_ : WorkStep(w)
    BY <1>2, SleepWakes, PushWakes, NotifyPushWakes, CallWakes, TakeWakes, NotifyPopWakes, WorkWakes
       DEF CallStep, WorkStep
<1>3. CASE Spurious \/ Drop \/ \E p \in Producers, kind \in Kinds : Call(p, kind)
    BY <1>3, SpuriousWakes, CallWakes
<1> QED BY <1>1, <1>2, <1>3 DEF Next

LEMMA InitWake == Init => WakeInv
<1> SUFFICES ASSUME Init PROVE WakeInv
    OBVIOUS
<1>1. TypeOK
    BY InitInv DEF Inv
<1>2. \A t \in Crowd : pc[t] \in {"idle", "dequeue"}
    BY <1>1, CrowdType DEF Init
<1> QED BY <1>2 DEF WakeInv

LEMMA WakeHolds == Spec => []WakeInv
    BY InvHolds, InitWake, NextWake, PTL DEF Spec, Inv

\* Nobody is where nobody is counted.
LEMMA NobodyAt ==
    ASSUME NEW place, \A t \in Crowd : pc[t] # place
    PROVE  Count(place) = 0
<1>1. Those(pc, Crowd, place) = {}
    BY DEF Those
<1> QED BY <1>1, FS_EmptySet DEF Count

\* When all sleep, there is nothing to do.
LEMMA SleepersIdle ==
    ASSUME Inv, WakeInv, \A t \in Crowd : pc[t] \in {"idle", "exited"} \/ Asleep(t)
    PROVE  q = <<>> /\ \A t \in Posters : pc[t] = "idle"
<1> USE DEF Inv
<1>1. \A t \in Crowd : pc[t] \in {"idle", "exited", "room", "item", "destruct"}
    BY DEF Asleep
<1>2. /\ Count("enqueue") = 0 /\ Count("taken") = 0
      /\ Count("dequeue") = 0 /\ Count("pushed") = 0
    BY <1>1, NobodyAt
<1>3. Len(q) \in Nat /\ MaxItems \in Nat \ {0} /\ (Len(q) = 0 => q = <<>>)
    BY DEF TypeOK
<1>4. ~Uncounted
    BY <1>1, CrowdType DEF Uncounted
<1>5. /\ Sentinels = terminating - Cardinality(Ended)
      /\ terminating \in 0..Cardinality(threads_)
      /\ Cardinality(Ended) \in Nat /\ Cardinality(threads_) \in Nat /\ IsFiniteSet(threads_)
      /\ Ended \subseteq threads_ /\ threads_ # {}
    BY <1>4, EndedCount, PoolWorkers DEF Sentinels, TypeOK, Ended
<1>6. \A w \in threads_ : pc[w] \in {"item", "exited"}
    BY <1>1, CrowdType DEF WorkerPlaces
<1>7. q = <<>>
    <2>1. CASE \E w \in threads_ : pc[w] = "item"
        <3>1. Len(q) <= 0
            BY <2>1, <1>2, CrowdType DEF WakeInv
        <3> QED BY <3>1, <1>3
    <2>2. CASE \A w \in threads_ : pc[w] = "exited"
        <3>1. Ended = threads_
            BY <2>2 DEF Ended, QueueInv
        <3>2. Sentinels = 0 /\ InQueue = 0
            BY <3>1, <1>5 DEF QueueInv
        <3> QED BY <3>2, <1>3, QueueNumbers
    <2> QED BY <1>6, <2>1, <2>2
<1>8. ASSUME NEW t \in Posters, pc[t] # "idle" PROVE FALSE
    <2>1. pc[t] \in {"room", "destruct"}
        BY <1>1, <1>8, CrowdType DEF PosterPlaces
    <2>2. CASE pc[t] = "room"
        <3>1. MaxItems <= Len(q)
            BY <2>2, <1>2, <1>3, CrowdType DEF WakeInv
        <3> QED BY <3>1, <1>3, <1>7
    <2>3. CASE pc[t] = "destruct"
        <3>1. terminating >= Cardinality(threads_) /\ ~(\A w \in threads_ : pc[w] = "exited")
            BY <2>3, CrowdType DEF Asleep, ToTerminate, Joined
        <3>2. terminating = Cardinality(threads_) /\ Sentinels = 0
            BY <3>1, <1>5, <1>7 DEF QueueInv
        <3>3. Ended = threads_
            BY <3>2, <1>5, FS_Subset
        <3> QED BY <3>1, <3>3, <1>6 DEF Ended
    <2> QED BY <2>1, <2>2, <2>3
<1> QED BY <1>7, <1>8

\* No notification is lost, and no thread waits for one that will not come, with any
\* number of producers and workers (mpmc_blocking_q.h:33-42, 75-83).
THEOREM WakesSomeone == Spec => []NoLostWakeup
<1>1. Inv /\ WakeInv => NoLostWakeup
    BY SleepersIdle DEF NoLostWakeup, Crowd
<1> QED BY <1>1, InvHolds, WakeHolds, PTL
=============================================================================
