----------------------------- MODULE ThreadPool -----------------------------
(***************************************************************************)
(* Asynchronous loggers and their thread pool: async_logger-inl.h,         *)
(* details/thread_pool-inl.h and details/mpmc_blocking_q.h under           *)
(* src/include/spdlog.  Threads post messages and flush requests to one    *)
(* bounded queue, worker threads take them and do the work.                *)
(*                                                                         *)
(* What runs under queue_mutex_ is one step; the notification that follows *)
(* the unlock is another.  The queue inside is a circular_q, here the      *)
(* sequence that module CircularQ shows it to be.  The pool belongs to     *)
(* those who hold a shared_ptr to it: the registry, and every thread for   *)
(* the time of one post.  Whoever lets go last runs the destructor.        *)
(***************************************************************************)
EXTENDS Naturals, Sequences, FiniteSets

CONSTANTS
    Producers,  \* threads that call the loggers
    Registry,   \* the thread that drops the registry's pool
    Workers,    \* worker threads
    Pools,      \* the sets of them a pool may be constructed with
    MaxItems,   \* q_max_items
    Kinds,      \* what is asked of the loggers
    Policies,   \* overflow policies they are created with
    MaxCalls    \* bound of the model: calls of all producers

ASSUME ThreadsAssumption ==
    /\ Registry \notin Producers /\ (Producers \cup {Registry}) \cap Workers = {}
    /\ IsFiniteSet(Producers)
ASSUME WorkersAssumption == IsFiniteSet(Workers) /\ Pools \subseteq (SUBSET Workers) \ {{}}
ASSUME ItemsAssumption   == MaxItems \in Nat \ {0}
ASSUME KindsAssumption   == Kinds \subseteq {"log", "flush"}
ASSUME PoliciesAssumption == Policies \subseteq {"block", "overrun_oldest"}
ASSUME CallsAssumption   == MaxCalls \in Nat

Posters  == Producers \cup {Registry}
Threads  == Posters \cup Workers

Message == [by : Producers, n : 1..MaxCalls, kind : Kinds]
Terminate == [by |-> Registry, n |-> 0, kind |-> "terminate"]

VARIABLES
    overflow_policy_,  \* of the logger each producer uses
    threads_,          \* the workers the pool was constructed with
    owners,            \* who holds a shared_ptr to the pool
    destroyed,         \* whether the destructor has returned
    terminating,       \* terminate messages the destructor has posted
    q,                 \* the queue, oldest first
    overrun_counter,   \* of the queue
    pc,                \* where each thread is
    item,              \* the message a thread posts or has taken
    calls,             \* calls made so far, which number the messages
    posted,            \* history: messages in the order they were enqueued
    lost,              \* history: messages overrun in the queue
    sunk,              \* history: messages given to the sink
    alive              \* FALSE after std::terminate

pool == <<overflow_policy_, threads_, destroyed>>
queue == <<q, overrun_counter, posted, lost>>
vars == <<pool, owners, terminating, queue, pc, item, calls, sunk, alive>>

Init ==
    /\ overflow_policy_ \in [Producers -> Policies]
    /\ threads_ \in Pools
    /\ owners = {Registry} /\ destroyed = FALSE /\ terminating = 0
    /\ q = <<>> /\ overrun_counter = 0
    /\ pc = [t \in Threads |-> IF t \in Workers THEN "dequeue" ELSE "idle"]
    /\ item = [t \in Threads |-> Terminate]
    /\ calls = 0
    /\ posted = <<>> /\ lost = {} /\ sunk = {}
    /\ alive = TRUE

At(t, place) == alive /\ pc[t] = place
Goto(t, place) == pc' = [pc EXCEPT ![t] = place]

\* The destructor posts with the policy block.
Blocks(t) == item[t] # Terminate => overflow_policy_[t] = "block"

\* notify_one of t, which goes on at place, to those who wait at wait; they
\* then test their condition again.
NotifyOne(t, place, waiting, wait, again) ==
    \/ /\ \A u \in waiting : pc[u] # wait
       /\ Goto(t, place)
    \/ \E u \in waiting :
          /\ pc[u] = wait
          /\ pc' = [pc EXCEPT ![t] = place, ![u] = again]

-----------------------------------------------------------------------------
(* Posting.                                                                *)

\* async_logger::sink_it_ and flush_ while the pool is there: pool_ptr is held
\* to the end of the call.  (Variant: a plain pointer taken.)
Locked_Plain(p) == owners
Locked(p) == owners \cup {p}

Call(p, kind) ==
    /\ At(p, "idle") /\ calls < MaxCalls
    /\ owners # {}
    /\ calls' = calls + 1
    /\ item' = [item EXCEPT ![p] = [by |-> p, n |-> calls + 1, kind |-> kind]]
    /\ owners' = Locked(p)
    /\ Goto(p, "enqueue")
    /\ UNCHANGED <<pool, terminating, queue, sunk, alive>>

\* ... and after the last owner let go: "thread pool doesn't exist anymore".
Refused(p) ==
    /\ At(p, "idle") /\ calls < MaxCalls
    /\ owners = {}
    /\ calls' = calls + 1
    /\ UNCHANGED <<pool, owners, terminating, queue, pc, item, sunk, alive>>

\* enqueue finds the queue full and waits on pop_cv_.
WaitForRoom(t) ==
    /\ At(t, "enqueue")
    /\ Blocks(t) /\ Len(q) = MaxItems
    /\ Goto(t, "room")
    /\ UNCHANGED <<pool, owners, terminating, queue, item, calls, sunk, alive>>

\* circular_q::push_back.
Pushed(m) == Append(IF Len(q) = MaxItems THEN Tail(q) ELSE q, m)

\* enqueue with room, or enqueue_nowait.
Push(t) ==
    /\ At(t, "enqueue")
    /\ Blocks(t) => Len(q) < MaxItems
    /\ q' = Pushed(item[t])
    /\ overrun_counter' = IF Len(q) = MaxItems THEN overrun_counter + 1 ELSE overrun_counter
    /\ lost' = lost \cup (IF Len(q) = MaxItems THEN {Head(q)} ELSE {})
    /\ posted' = IF item[t] = Terminate THEN posted ELSE Append(posted, item[t])
    /\ Goto(t, "pushed")
    /\ UNCHANGED <<pool, owners, terminating, item, calls, sunk, alive>>

\* Where the last owner goes when it has let go, and where another one goes.
AfterRelease(t) == IF owners \ {t} = {} THEN "destruct" ELSE "idle"

\* push_cv_.notify_one(), and what the caller of post_async_msg_ does next: the
\* destructor posts the next message, a producer lets go of the pool.
NotifyPush(t) ==
    /\ At(t, "pushed")
    /\ NotifyOne(t, IF item[t] = Terminate THEN "destruct" ELSE AfterRelease(t),
                 threads_, "item", "dequeue")
    /\ owners' = owners \ {t}
    /\ terminating' = IF item[t] = Terminate THEN terminating + 1 ELSE terminating
    /\ UNCHANGED <<pool, queue, item, calls, sunk, alive>>

\* The registry lets go of its pool: shutdown, or set_tp of another one.
Drop ==
    /\ At(Registry, "idle") /\ Registry \in owners
    /\ owners' = owners \ {Registry}
    /\ Goto(Registry, AfterRelease(Registry))
    /\ UNCHANGED <<pool, terminating, queue, item, calls, sunk, alive>>

\* ~thread_pool: one terminate message for every worker.  (Variant: one in all.)
ToTerminate_One == 1
ToTerminate == Cardinality(threads_)

PostTerminate(t) ==
    /\ At(t, "destruct") /\ terminating < ToTerminate
    /\ item' = [item EXCEPT ![t] = Terminate]
    /\ Goto(t, "enqueue")
    /\ UNCHANGED <<pool, owners, terminating, queue, calls, sunk, alive>>

\* Every thread joined: the queue goes.  (Variant: not joined.)
Joined_Always == TRUE
Joined == \A w \in threads_ : pc[w] = "exited"

Join(t) ==
    /\ At(t, "destruct") /\ terminating >= ToTerminate
    /\ Joined
    /\ destroyed' = TRUE
    /\ Goto(t, "idle")
    /\ UNCHANGED <<overflow_policy_, threads_, owners, terminating, queue, item, calls, sunk, alive>>

\* thread_pool::reset_overrun_counter, by a holder of the registry's pool.
ResetCounter ==
    /\ At(Registry, "idle") /\ Registry \in owners
    /\ overrun_counter' = 0
    /\ UNCHANGED <<pool, owners, terminating, q, posted, lost, pc, item, calls, sunk, alive>>

-----------------------------------------------------------------------------
(* Working: worker_loop_, process_next_msg_.                               *)

WaitForItem(w) ==
    /\ At(w, "dequeue")
    /\ q = <<>>
    /\ Goto(w, "item")
    /\ UNCHANGED <<pool, owners, terminating, queue, item, calls, sunk, alive>>

\* front() and pop_front().  (Variant: the newest message is taken.)
Front_Newest == [m |-> q[Len(q)], rest |-> SubSeq(q, 1, Len(q) - 1)]
Front == [m |-> Head(q), rest |-> Tail(q)]

Take(w) ==
    /\ At(w, "dequeue")
    /\ q # <<>>
    /\ item' = [item EXCEPT ![w] = Front.m]
    /\ q' = Front.rest
    /\ Goto(w, "taken")
    /\ UNCHANGED <<pool, owners, terminating, overrun_counter, posted, lost, calls, sunk, alive>>

\* The switch of process_next_msg_.
Work(m) ==
    CASE m.kind = "terminate" -> "exited"
      [] m.kind = "flush"     -> "flush"
      [] OTHER                -> "write"

\* pop_cv_.notify_one().  (Variant: the
\* destructor waits for something else.)
Wakeable_Producers == Producers
Wakeable == Posters

NotifyPop(w) ==
    /\ At(w, "taken")
    /\ NotifyOne(w, Work(item[w]), Wakeable, "room", "enqueue")
    /\ UNCHANGED <<pool, owners, terminating, queue, item, calls, sunk, alive>>

\* Where a worker may go from a message, written or not: should_flush_ decides by
\* the message's level.  (Variant: an exception of the sink ends the thread.)
AfterWrite_Exit(threw) == IF threw THEN {"exited"} ELSE {"flush", "dequeue"}
AfterWrite(threw) == {"flush", "dequeue"}

\* backend_sink_it_: the sink writes, or its std::exception goes to the handler.
BackendSinkIt(w) ==
    /\ At(w, "write")
    /\ sunk' = sunk \cup {item[w]}
    /\ \E threw \in BOOLEAN : \E place \in AfterWrite(threw) : Goto(w, place)
    /\ UNCHANGED <<pool, owners, terminating, queue, item, calls, alive>>

\* backend_flush_, whether or not the sink throws a std::exception.
BackendFlush(w) ==
    /\ At(w, "flush")
    /\ Goto(w, "dequeue")
    /\ UNCHANGED <<pool, owners, terminating, queue, item, calls, sunk, alive>>

\* Another exception is thrown again, out of the thread: std::terminate.
Abort(w) ==
    /\ alive /\ pc[w] \in {"write", "flush"}
    /\ alive' = FALSE
    /\ UNCHANGED <<pool, owners, terminating, queue, pc, item, calls, sunk>>

\* wait() may return without a notification, and tests its condition again.
Spurious ==
    /\ alive
    /\ \/ \E t \in Posters : pc[t] = "room" /\ Goto(t, "enqueue")
       \/ \E w \in threads_ : pc[w] = "item" /\ Goto(w, "dequeue")
    /\ UNCHANGED <<pool, owners, terminating, queue, item, calls, sunk, alive>>

\* What t does in a call it has begun, and what a worker does.
CallStep(t) ==
    \/ WaitForRoom(t) \/ Push(t) \/ NotifyPush(t)
    \/ PostTerminate(t) \/ Join(t)
WorkStep(w) ==
    \/ WaitForItem(w) \/ Take(w) \/ NotifyPop(w) \/ BackendSinkIt(w) \/ BackendFlush(w)

Next ==
    \/ \E p \in Producers, kind \in Kinds : Call(p, kind)
    \/ \E p \in Producers : Refused(p)
    \/ Drop \/ ResetCounter \/ Spurious
    \/ \E t \in Posters : CallStep(t)
    \/ \E w \in threads_ : WorkStep(w) \/ Abort(w)

Spec == Init /\ [][Next]_vars

\* Threads inside a call and worker threads run; nobody has to begin a call.
FairSpec ==
    /\ Spec
    /\ \A t \in Posters : WF_vars(CallStep(t))
    /\ \A w \in Workers : WF_vars(w \in threads_ /\ WorkStep(w))
-----------------------------------------------------------------------------
(* Properties.                                                             *)

PosterPlaces == {"idle", "enqueue", "room", "pushed", "destruct"}
WorkerPlaces == {"dequeue", "item", "taken", "write", "flush", "exited"}

TypeOK ==
    /\ overflow_policy_ \in [Producers -> Policies]
    /\ threads_ \in Pools
    /\ owners \in SUBSET Posters
    /\ destroyed \in BOOLEAN /\ alive \in BOOLEAN
    /\ terminating \in 0..Cardinality(threads_)
    /\ q \in Seq(Message \cup {Terminate}) /\ Len(q) <= MaxItems
    /\ overrun_counter \in Nat
    /\ pc \in [Threads -> PosterPlaces \cup WorkerPlaces]
    /\ \A t \in Threads : pc[t] \in IF t \in Workers THEN WorkerPlaces ELSE PosterPlaces
    /\ item \in [Threads -> Message \cup {Terminate}]
    /\ calls \in 0..MaxCalls
    /\ posted \in Seq(Message)
    /\ lost \subseteq Message /\ sunk \subseteq Message

Elements(s) == {s[j] : j \in DOMAIN s}

\* What the workers have taken and not dealt with.
Hands == {item[w] : w \in {v \in threads_ : pc[v] \in {"taken", "write", "flush"}}}

\* The messages in the queue: a sequence, since terminate messages come last.
Waiting == [i \in {j \in DOMAIN q : q[j] # Terminate} |-> q[i]]

Channel == INSTANCE LogChannel WITH
    Messages <- Message,
    Capacity <- MaxItems,
    blocking <- {m \in Message : overflow_policy_[m.by] = "block"},
    open     <- ~destroyed,
    waiting  <- Waiting,
    hands    <- Hands \ {Terminate},
    lost     <- overrun_counter

\* The pool is a channel (LogChannel): messages are taken in the order they
\* were enqueued, a blocking logger overruns nothing, each overrun is counted
\* (mpmc_blocking_q.h:33-48), a terminate message overruns nothing, and the
\* destructor returns when all is dealt with (thread_pool-inl.h:46-62).  Into a
\* full queue enqueue_nowait pushes out the oldest, as the code and its line 44
\* have it; mpmc_blocking_q.h:8-9 says that it returns false instead.
IsChannel == Channel!Spec

Dealt(m) == m \notin Elements(q) \cup Hands

Before(m) == {posted[i] : i \in {j \in DOMAIN posted : \E k \in DOMAIN posted : j < k /\ posted[k] = m}}

\* When a flush request is served, every message of any thread posted before it
\* has been dealt with, or another worker has it in hand: with one worker a
\* flush covers everything before it (async_logger-inl.h:73-85).
FlushCovers ==
    [][\A w \in threads_ :
        (pc[w] = "flush" /\ pc'[w] = "dequeue" /\ item[w].kind = "flush") =>
            \A m \in Before(item[w]) :
                Dealt(m) \/ \E v \in threads_ \ {w} : item[v] = m]_vars

\* One worker writes the messages in the order they were posted; of several,
\* one writes a message before an earlier one only while that one is in the
\* hand of another worker.
WrittenInOrder ==
    [][\A m \in sunk' \ sunk :
        \A e \in Before(m) :
            Dealt(e) \/ \E v, w \in threads_ : v # w /\ item[v] = e /\ item[w] = m]_vars

\* The terminate messages leave nothing behind: when the destructor has returned,
\* every worker has ended and every message enqueued was given to the sink or
\* overrun, and not both.
NothingForgotten ==
    destroyed =>
        /\ q = <<>> /\ \A w \in threads_ : pc[w] = "exited"
        /\ {m \in Elements(posted) : m.kind = "log"} \subseteq lost \cup sunk
        /\ lost \cap sunk = {}

\* A thread that waits to be notified, or for the workers to end.
Asleep(t) ==
    \/ pc[t] \in {"room", "item"}
    \/ pc[t] = "destruct" /\ terminating >= ToTerminate /\ ~Joined

\* No notification is lost: while a message is in the queue or a call has not
\* returned, not all threads sleep (mpmc_blocking_q.h:33-42, 75-83), with any
\* number of producers and workers, and none of them needs a spurious wake-up.
NoLostWakeup ==
    alive /\ (q # <<>> \/ \E t \in Posters : pc[t] # "idle") =>
        \E t \in Posters \cup threads_ : pc[t] \notin {"idle", "exited"} /\ ~Asleep(t)

\* Every call comes back, the blocked one and the one that runs the destructor
\* too, unless the process ended (mpmc_blocking_q.h:33-42, 75-83).
CallsReturn == \A t \in Posters : (pc[t] # "idle") ~> (pc[t] = "idle" \/ ~alive)

\* Every message enqueued is taken and dealt with or overrun.
EveryPostDealt ==
    \A k \in 1..MaxCalls :
        (Len(posted) >= k) ~> (~alive \/ (Len(posted) >= k /\ Dealt(posted[k])))
=============================================================================
