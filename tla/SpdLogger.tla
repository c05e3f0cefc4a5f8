----------------------------- MODULE SpdLogger -----------------------------
(***************************************************************************)
(* A synchronous spdlog logger shared by several threads, the object every *)
(* message of LogMaker goes through (CleLogger::m_pLogger):                *)
(* logger::log_, sink_it_, flush_ and dump_backtrace_ with the backtracer, *)
(* over sinks that are each guarded by a mutex and may throw.              *)
(*                                                                         *)
(* A std::exception of a sink is caught for that sink alone; anything else *)
(* is rethrown to the caller.  An exception of the formatting ends the     *)
(* call.  The text given to err_handler_ is left out.                      *)
(***************************************************************************)
EXTENDS Naturals, FiniteSets, Sequences

CONSTANTS
    Threads,
    NoOne,       \* owner of a free mutex
    NSinks,
    SinkLevel,   \* level_ of each sink
    FlushLevel,  \* flush_level_ of the logger
    LevelOff,    \* level::off, the highest level; the levels are 0..LevelOff
    InfoLevel,   \* level::info, of the two lines around a backtrace
    QSize,       \* number of messages given to enable_backtrace
    Outcomes,    \* how a sink may end: a subset of {"ok", "std", "unknown"}
    CallLevels,  \* levels the threads log at and set
    MaxCalls,    \* bound of the model: calls of each thread
    MaxFaults    \* bound of the model: exceptions thrown by sinks

Sinks  == 1..NSinks
Lvls   == 0..LevelOff

ASSUME NoOneAssumption  == NoOne \notin Threads
ASSUME SinksAssumption  == NSinks \in Nat \ {0} /\ SinkLevel \in [Sinks -> Lvls]
ASSUME LevelsAssumption == LevelOff \in Nat /\ FlushLevel \in Lvls /\ InfoLevel \in Lvls
ASSUME QSizeAssumption  == QSize \in Nat \ {0} /\ MaxCalls \in Nat
ASSUME CallsAssumption  == CallLevels \subseteq Lvls /\ MaxFaults \in Nat
ASSUME OutcomesAssumption == Outcomes \subseteq {"ok", "std", "unknown"}

VARIABLES
    level_,     \* of the logger
    pc,         \* where each thread is
    op,         \* what it passes to the sinks: a log call's message, the line that
                \* starts a backtrace, a message of it, the line that ends it; or a flush
    cur, at,    \* the message, and the sink the loop is at
    traceOn,    \* traceback_enabled, read when log_ began
    calls,      \* calls begun, which number the messages of a thread
    mutex,      \* owner of each sink's mutex
    tracer,     \* backtracer: owner of its mutex, enabled_, messages_
    got,        \* what each sink has written, in order
    flushed,    \* how much of it has been flushed
    failed,     \* the calls of sinks that threw (Failure)
    done        \* messages whose log call has returned normally

thread == <<pc, op, cur, at, traceOn>>
record == <<got, flushed, failed, done>>
vars   == <<level_, thread, calls, mutex, tracer, record>>

\* on is log_enabled: the logger's level let the message through.
Message == [by : Threads, n : 0..MaxCalls, lvl : Lvls, on : BOOLEAN]
Line(t) == [by |-> t, n |-> 0, lvl |-> InfoLevel, on |-> TRUE]  \* "*** Backtrace Start/End ***"
Ops     == {"log", "start", "dump", "end", "flush"}

ThreadsOK ==
    /\ level_ \in Lvls
    /\ pc \in [Threads -> {"idle", "sink", "write", "flush", "flushing",
                         "enabled", "trace", "empty", "poplock"}]
    /\ op \in [Threads -> Ops]
    /\ cur \in [Threads -> Message]
    /\ at \in [Threads -> 1..NSinks + 1]
    /\ traceOn \in [Threads -> BOOLEAN]
    /\ calls \in [Threads -> 0..MaxCalls]
LocksOK ==
    /\ mutex \in [Sinks -> Threads \cup {NoOne}]
    /\ tracer \in [owner : Threads \cup {NoOne}, enabled : BOOLEAN, q : Seq(Message)]
    /\ Len(tracer.q) <= QSize
RecordOK ==
    /\ got \in [Sinks -> Seq([m : Message, op : Ops])]
    /\ flushed \in [Sinks -> Nat] /\ \A s \in Sinks : flushed[s] <= Len(got[s])
    /\ failed \subseteq [m : Message, sink : Sinks, op : Ops, in : {"write", "flush"},
                         how : {"std", "unknown"}, by : Threads, call : 0..MaxCalls]
    /\ done \subseteq Message
TypeOK == ThreadsOK /\ LocksOK /\ RecordOK

Init ==
    /\ level_ = InfoLevel
    /\ pc = [t \in Threads |-> "idle"]
    /\ op = [t \in Threads |-> "log"]
    /\ cur = [t \in Threads |-> Line(t)]
    /\ at = [t \in Threads |-> 1]
    /\ traceOn = [t \in Threads |-> FALSE]
    /\ calls = [t \in Threads |-> 0]
    /\ mutex = [s \in Sinks |-> NoOne]
    /\ tracer = [owner |-> NoOne, enabled |-> FALSE, q |-> <<>>]
    /\ got = [s \in Sinks |-> <<>>]
    /\ flushed = [s \in Sinks |-> 0]
    /\ failed = {} /\ done = {}

-----------------------------------------------------------------------------
(* Helpers.                                                                *)

\* The first sink from j on whose level lets the message through; NSinks + 1
\* when there is none.
NextSink(j, lvl) ==
    IF \E s \in j..NSinks : lvl >= SinkLevel[s]
    THEN CHOOSE s \in j..NSinks :
            lvl >= SinkLevel[s] /\ \A r \in j..s - 1 : lvl < SinkLevel[r]
    ELSE NSinks + 1

\* logger::should_flush_.  (Variant: strictly above the flush level.)
ShouldFlush_Above(lvl) == lvl > FlushLevel /\ lvl # LevelOff
ShouldFlush(lvl) == lvl >= FlushLevel /\ lvl # LevelOff

\* circular_q::push_back: a full queue loses its oldest message.
PushBack(q, m) == IF Len(q) < QSize THEN Append(q, m) ELSE Append(Tail(q), m)

\* The sink loop goes on after a sink has thrown a std::exception.  (Variant: one
\* try block around the whole loop.)
AfterFailure_LeaveLoop(t) == NSinks + 1
AfterFailure(t) == NextSink(at[t] + 1, cur[t].lvl)

\* messages_.pop_front() after the message has been passed on.  (Variant: forgotten.)
Popped_Not == tracer.q
Popped == Tail(tracer.q)

\* The tracer's mutex after an exception has left foreach_pop: lock_guard.
\* (Variant: locked and unlocked by hand.)
Unwound_StillLocked(t) == tracer
Unwound(t) == IF tracer.owner = t THEN [tracer EXCEPT !.owner = NoOne] ELSE tracer

\* Thread t starts the sink loop with message m.
ToSinks(t, o, m) ==
    /\ pc' = [pc EXCEPT ![t] = "sink"]
    /\ op' = [op EXCEPT ![t] = o]
    /\ cur' = [cur EXCEPT ![t] = m]
    /\ at' = [at EXCEPT ![t] = NextSink(1, m.lvl)]

Goto(t, where) == pc' = [pc EXCEPT ![t] = where]

\* One call of thread t begins.
Call(t) ==
    /\ pc[t] = "idle" /\ calls[t] < MaxCalls
    /\ calls' = [calls EXCEPT ![t] = @ + 1]

\* With the tracer locked by t and q in it: the next message, or the end line.
Drain(t, q) ==
    IF q = <<>>
    THEN /\ tracer' = [tracer EXCEPT !.owner = NoOne, !.q = q]
         /\ ToSinks(t, "end", Line(t))
    ELSE /\ tracer' = [tracer EXCEPT !.owner = t, !.q = q]
         /\ ToSinks(t, "dump", Head(q))

-----------------------------------------------------------------------------
(* Calls.                                                                  *)

\* log_ reads the logger's level ...
Log(t, lvl) ==
    /\ Call(t)
    /\ Goto(t, "enabled")
    /\ cur' = [cur EXCEPT ![t] = [by |-> t, n |-> calls'[t], lvl |-> lvl, on |-> lvl >= level_]]
    /\ op' = [op EXCEPT ![t] = "log"]
    /\ UNCHANGED <<level_, at, traceOn, mutex, tracer, record>>

\* ... and then whether the tracer is enabled.  The call ends here when neither
\* wants the message, and when formatting it throws: nothing is logged or traced.
ReadEnabled(t) ==
    /\ pc[t] = "enabled"
    /\ traceOn' = [traceOn EXCEPT ![t] = tracer.enabled]
    /\ \/ cur[t].on /\ ToSinks(t, "log", cur[t])
       \/ ~cur[t].on /\ tracer.enabled /\ Goto(t, "trace") /\ UNCHANGED <<op, cur, at>>
       \/ Goto(t, "idle") /\ UNCHANGED <<op, cur, at>>
    /\ UNCHANGED <<level_, calls, mutex, tracer, record>>

\* dump_backtrace_ of an enabled tracer ...
Dump(t) ==
    /\ Call(t) /\ tracer.enabled
    /\ Goto(t, "empty") /\ UNCHANGED <<op, cur, at>>
    /\ UNCHANGED <<level_, traceOn, mutex, tracer, record>>

\* ... that has something to dump, which it asks for under the tracer's mutex:
\* the start line.
ReadEmpty(t) ==
    /\ pc[t] = "empty" /\ tracer.owner = NoOne
    /\ IF tracer.q = <<>> THEN Goto(t, "idle") /\ UNCHANGED <<op, cur, at>>
       ELSE ToSinks(t, "start", Line(t))
    /\ UNCHANGED <<level_, traceOn, calls, mutex, tracer, record>>

\* logger::flush.
Flush(t) ==
    /\ Call(t)
    /\ Goto(t, "flush")
    /\ op' = [op EXCEPT ![t] = "flush"]
    /\ cur' = [cur EXCEPT ![t] = Line(t)]
    /\ at' = [at EXCEPT ![t] = 1]
    /\ UNCHANGED <<level_, traceOn, mutex, tracer, record>>

\* backtracer::enable and disable.
Enable(t) ==
    /\ Call(t) /\ tracer.owner = NoOne
    /\ tracer' = [tracer EXCEPT !.enabled = TRUE, !.q = <<>>]
    /\ UNCHANGED <<level_, thread, mutex, record>>

Disable(t) ==
    /\ Call(t) /\ tracer.owner = NoOne
    /\ tracer' = [tracer EXCEPT !.enabled = FALSE]
    /\ UNCHANGED <<level_, thread, mutex, record>>

SetLevel(t, lvl) ==
    /\ Call(t)
    /\ level_' = lvl
    /\ UNCHANGED <<thread, mutex, tracer, record>>

-----------------------------------------------------------------------------
(* sink_it_ and flush_.                                                    *)

LockSink(t) ==
    /\ pc[t] \in {"sink", "flush"} /\ at[t] <= NSinks /\ mutex[at[t]] = NoOne
    /\ mutex' = [mutex EXCEPT ![at[t]] = t]
    /\ Goto(t, IF pc[t] = "sink" THEN "write" ELSE "flushing")
    /\ UNCHANGED <<level_, op, cur, at, traceOn, calls, tracer, record>>

\* An exception that is not a std::exception leaves every function of the
\* call; its lock_guards release their mutexes, the message is not popped.
Unwind(t) ==
    /\ Goto(t, "idle") /\ UNCHANGED at
    /\ tracer' = Unwound(t)

\* Which call of which thread passed what to which sink, and what it threw.
Failure(t, in, how) ==
    [m |-> cur[t], sink |-> at[t], op |-> op[t], in |-> in, how |-> how, by |-> t, call |-> calls[t]]

\* How a call of a sink may end.
MayEnd(outcome) == outcome = "ok" \/ Cardinality(failed) < MaxFaults

\* sink->log(msg) under the sink's mutex.
SinkLog(t, outcome) ==
    /\ pc[t] = "write" /\ MayEnd(outcome)
    /\ mutex' = [mutex EXCEPT ![at[t]] = NoOne]
    /\ got' = IF outcome = "ok"
              THEN [got EXCEPT ![at[t]] = Append(@, [m |-> cur[t], op |-> op[t]])]
              ELSE got
    /\ failed' = IF outcome = "ok" THEN failed
                 ELSE failed \cup {Failure(t, "write", outcome)}
    /\ \/ /\ outcome # "unknown"
          /\ pc' = [pc EXCEPT ![t] = "sink"]
          /\ at' = [at EXCEPT ![t] = IF outcome = "ok" THEN NextSink(@ + 1, cur[t].lvl)
                                     ELSE AfterFailure(t)]
          /\ UNCHANGED tracer
       \/ outcome = "unknown" /\ Unwind(t)
    /\ UNCHANGED <<level_, op, cur, traceOn, calls, flushed, done>>

\* sink->flush() under the sink's mutex.
SinkFlush(t, outcome) ==
    /\ pc[t] = "flushing" /\ MayEnd(outcome)
    /\ mutex' = [mutex EXCEPT ![at[t]] = NoOne]
    /\ flushed' = IF outcome = "ok" THEN [flushed EXCEPT ![at[t]] = Len(got[at[t]])]
                  ELSE flushed
    /\ failed' = IF outcome = "ok" THEN failed
                 ELSE failed \cup {Failure(t, "flush", outcome)}
    /\ \/ /\ outcome # "unknown"
          /\ pc' = [pc EXCEPT ![t] = "flush"]
          /\ at' = [at EXCEPT ![t] = @ + 1]
          /\ UNCHANGED tracer
       \/ outcome = "unknown" /\ Unwind(t)
    /\ UNCHANGED <<level_, op, cur, traceOn, calls, got, done>>

\* The sink loop is over and the message asks for a flush.
StartFlush(t) ==
    /\ pc[t] = "sink" /\ at[t] = NSinks + 1 /\ ShouldFlush(cur[t].lvl)
    /\ pc' = [pc EXCEPT ![t] = "flush"]
    /\ at' = [at EXCEPT ![t] = 1]
    /\ UNCHANGED <<level_, op, cur, traceOn, calls, mutex, tracer, record>>

\* sink_it_ returns to log_it_ or to dump_backtrace_.
SinkItReturns(t) ==
    /\ at[t] = NSinks + 1
    /\ pc[t] = "flush" \/ (pc[t] = "sink" /\ ~ShouldFlush(cur[t].lvl))
    /\ \/ /\ op[t] = "log"
          /\ Goto(t, IF traceOn[t] THEN "trace" ELSE "idle")
          /\ done' = IF traceOn[t] THEN done ELSE done \cup {cur[t]}
          /\ UNCHANGED <<op, cur, at, tracer>>
       \/ op[t] = "start" /\ Goto(t, "poplock") /\ UNCHANGED <<op, cur, at, tracer, done>>
       \/ op[t] = "dump" /\ Drain(t, Popped) /\ UNCHANGED done
       \/ op[t] \in {"end", "flush"} /\ Goto(t, "idle") /\ UNCHANGED <<op, cur, at, tracer, done>>
    /\ UNCHANGED <<level_, traceOn, calls, mutex, got, flushed, failed>>

-----------------------------------------------------------------------------
(* The backtracer.                                                         *)

\* backtracer::push_back, last of log_it_.
Trace(t) ==
    /\ pc[t] = "trace" /\ tracer.owner = NoOne
    /\ tracer' = [tracer EXCEPT !.q = PushBack(@, cur[t])]
    /\ Goto(t, "idle")
    /\ done' = done \cup {cur[t]}
    /\ UNCHANGED <<level_, op, cur, at, traceOn, calls, mutex, got, flushed, failed>>

\* foreach_pop locks the tracer for the whole drain.
LockTracer(t) ==
    /\ pc[t] = "poplock" /\ tracer.owner = NoOne
    /\ Drain(t, tracer.q)
    /\ UNCHANGED <<level_, traceOn, calls, mutex, record>>

-----------------------------------------------------------------------------
Calling(t) ==
    \/ \E lvl \in CallLevels : Log(t, lvl) \/ SetLevel(t, lvl)
    \/ Dump(t) \/ Flush(t) \/ Enable(t) \/ Disable(t)

Locking(t) == LockSink(t) \/ ReadEmpty(t) \/ Trace(t) \/ LockTracer(t)

Running(t) ==
    \/ \E o \in Outcomes : SinkLog(t, o) \/ SinkFlush(t, o)
    \/ ReadEnabled(t) \/ StartFlush(t) \/ SinkItReturns(t)

Next == \E t \in Threads : Calling(t) \/ Locking(t) \/ Running(t)

Spec == Init /\ [][Next]_vars

-----------------------------------------------------------------------------
(* Properties.                                                             *)

\* Sink s threw a std::exception when the log call of m wrote or flushed.
Threw(m, s, in) ==
    \E f \in failed : f.m = m /\ f.sink = s /\ f.op = "log" /\ f.in = in /\ f.how = "std"

\* How often sink s has written message m on behalf of operation o.
Times(m, o, s) == Cardinality({p \in DOMAIN got[s] : got[s][p] = [m |-> m, op |-> o]})

\* The sink loop isolates failures (logger-inl.h:178-190): when a log call that
\* was to be logged has returned, each sink whose level lets the message through has
\* written it exactly once, or has itself thrown; no other sink has it.
Delivered ==
    \A m \in done, s \in Sinks :
        LET wanted == m.on /\ m.lvl >= SinkLevel[s] /\ ~Threw(m, s, "write")
        IN  Times(m, "log", s) = IF wanted THEN 1 ELSE 0

\* A message at or above the flush level is flushed by every sink that has
\* written it before its log call returns (logger-inl.h:192-195), whatever other
\* threads write in between.
FlushCovers ==
    \A m \in done, s \in Sinks :
        m.lvl >= FlushLevel /\ m.lvl # LevelOff =>
            \A p \in DOMAIN got[s] :
                got[s][p] = [m |-> m, op |-> "log"] =>
                    p <= flushed[s] \/ Threw(m, s, "flush")

\* However many threads dump and log, a sink gets the traced messages of a thread
\* in the order it logged them, each at most once (backtracer-inl.h:60-69).  An
\* exception that is not a std::exception leaves foreach_pop before pop_front:
\* each may have its message dumped once more.
Escaped(m) == Cardinality({f \in failed : f.m = m /\ f.op = "dump" /\ f.how = "unknown"})
DumpedInOrder == \A s \in Sinks : \A p, r \in DOMAIN got[s] :
    (p < r /\ got[s][p].op = "dump" /\ got[s][r].op = "dump"
           /\ got[s][p].m.by = got[s][r].m.by)
        => \/ got[s][p].m.n < got[s][r].m.n
           \/ /\ got[s][p].m = got[s][r].m
              /\ Times(got[s][p].m, "dump", s) <= 1 + Escaped(got[s][p].m)

\* A thread stands before a mutex that is taken.
Waiting(t) ==
    \/ pc[t] \in {"sink", "flush"} /\ at[t] <= NSinks /\ mutex[at[t]] # NoOne
    \/ pc[t] \in {"empty", "trace", "poplock"} /\ tracer.owner # NoOne

\* No threads wait for each other's mutexes, nor one for its own, also when sinks
\* throw whatever they like: a dump holds the tracer's mutex while it takes the
\* sinks' (backtracer-inl.h:63-72).  A call has finitely many steps, so every call
\* returns when the threads that can run do.
NoDeadlock ==
    (\E t \in Threads : pc[t] # "idle") => \E t \in Threads : pc[t] # "idle" /\ ~Waiting(t)
=============================================================================
