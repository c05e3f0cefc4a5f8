-------------------------- MODULE SpdLoggerProofs --------------------------
(***************************************************************************)
(* Proofs about SpdLogger, for any number of threads, sinks, levels and    *)
(* calls, any size of the backtrace and any exceptions of the sinks.       *)
(***************************************************************************)
EXTENDS SpdLogger, TLAPS, FiniteSetTheorems, WellFoundedInduction

USE NoOneAssumption, SinksAssumption, LevelsAssumption, QSizeAssumption, CallsAssumption,
    OutcomesAssumption

Places == {"idle", "sink", "write", "flush", "flushing", "enabled", "trace", "empty", "poplock"}

\* In the loop over the sinks, and in it under a sink's mutex.
Passing(t) == pc[t] \in {"sink", "write", "flush", "flushing"}
Locked(t)  == pc[t] \in {"write", "flushing"}

\* A sink's mutex is owned by the thread whose loop is at it.
MutexInv ==
    /\ \A t \in Threads : Locked(t) => at[t] \in Sinks /\ mutex[at[t]] = t
    /\ \A s \in Sinks : mutex[s] \in Threads => Locked(mutex[s]) /\ at[mutex[s]] = s

\* The tracer's mutex is owned by the thread that passes its oldest message on.
TracerInv ==
    /\ \A t \in Threads : Passing(t) /\ op[t] = "dump" =>
          tracer.owner = t /\ tracer.q # <<>> /\ cur[t] = Head(tracer.q)
    /\ tracer.owner \in Threads => Passing(tracer.owner) /\ op[tracer.owner] = "dump"

LocksInv == TypeOK /\ MutexInv /\ TracerInv

\* A log call is under way.
InLog(t) == op[t] = "log" /\ pc[t] \in {"enabled", "sink", "write", "flush", "flushing", "trace"}

\* Messages are numbered by the calls that logged them, so a new one is new everywhere.
Begun(m) == m.n <= calls[m.by]
BegunInv ==
    /\ \A t \in Threads : Begun(cur[t])
    /\ \A i \in DOMAIN tracer.q : Begun(tracer.q[i])
    /\ \A s \in Sinks : \A p \in DOMAIN got[s] : Begun(got[s][p].m)
    /\ \A f \in failed : Begun(f.m)
    /\ \A m \in done : Begun(m)

\* What a sink's file g, flushed up to k, and the failures F say of message m.
Logged(m) == [m |-> m, op |-> "log"]
Never(g, m) == \A p \in DOMAIN g : g[p] # Logged(m)
Once(g, m)  == \E p \in DOMAIN g : \A r \in DOMAIN g : g[r] = Logged(m) <=> r = p
ThrewAt(F, m, s, in) ==
    \E f \in F : f.m = m /\ f.sink = s /\ f.op = "log" /\ f.in = in /\ f.how = "std"
Covered(g, k, F, m, s) ==
    \A p \in DOMAIN g : g[p] = Logged(m) => p <= k \/ ThrewAt(F, m, s, "flush")
Wanted(m, s) == m.on /\ m.lvl >= SinkLevel[s]

\* The loop of a log call has passed sink s: every sink has been, once it is over.
Past(t, s) ==
    \/ pc[t] \in {"flush", "flushing", "trace"}
    \/ pc[t] \in {"sink", "write"} /\ s < at[t]

\* The log call under way: its message, and what the sinks have of it so far.
LogOwn(t) ==
    /\ cur[t].by = t /\ cur[t].n = calls[t] /\ cur[t] \notin done
    /\ Passing(t) => cur[t].on
    /\ pc[t] \in {"sink", "write"} => at[t] = NSinks + 1 \/ cur[t].lvl >= SinkLevel[at[t]]
LogPast(t, s) ==
    IF Past(t, s) /\ Wanted(cur[t], s) /\ ~ThrewAt(failed, cur[t], s, "write")
    THEN Once(got[s], cur[t]) ELSE Never(got[s], cur[t])
LogAhead(t, s) == ~Past(t, s) => ~ThrewAt(failed, cur[t], s, "write")
LogCovered(t, s) ==
    ShouldFlush(cur[t].lvl) /\ (pc[t] = "trace" \/ (pc[t] \in {"flush", "flushing"} /\ s < at[t]))
        => Covered(got[s], flushed[s], failed, cur[t], s)
LogAt(t, s) == LogPast(t, s) /\ LogAhead(t, s) /\ LogCovered(t, s)
LogInv ==
    /\ \A t \in Threads : pc[t] \in {"enabled", "trace"} => op[t] = "log"
    /\ \A t \in Threads : InLog(t) => LogOwn(t)
    /\ \A t \in Threads, s \in Sinks : InLog(t) => LogAt(t, s)

\* The log calls that have returned.
DoneInv ==
    \A m \in done, s \in Sinks :
        /\ IF Wanted(m, s) /\ ~ThrewAt(failed, m, s, "write") THEN Once(got[s], m) ELSE Never(got[s], m)
        /\ ShouldFlush(m.lvl) => Covered(got[s], flushed[s], failed, m, s)

\* An exception that leaves a call ends it.
FailedInv ==
    /\ IsFiniteSet(failed)
    /\ \A f \in failed :
          /\ f.call <= calls[f.by]
          /\ f.how = "unknown" /\ f.call = calls[f.by] => pc[f.by] = "idle"

\* Message m is older than the log call its thread may be in.
Older(m) == InLog(m.by) => m.n < calls[m.by]

\* The backtrace keeps the messages of a thread in the order it logged them ...
QueueInv ==
    /\ \A i \in DOMAIN tracer.q : Older(tracer.q[i])
    /\ \A i, j \in DOMAIN tracer.q :
          i < j /\ tracer.q[i].by = tracer.q[j].by => tracer.q[i].n < tracer.q[j].n

\* ... a sink has those dumped before, which may include the oldest one kept.
InOrder(m, o) == m.by = o.by => m.n < o.n \/ m = o
DumpedInv ==
    \A s \in Sinks : \A p \in DOMAIN got[s] : got[s][p].op = "dump" =>
        /\ Older(got[s][p].m)
        /\ \A i \in DOMAIN tracer.q :
              InOrder(got[s][p].m, tracer.q[i]) /\ (i # 1 => got[s][p].m # tracer.q[i])
        /\ \A r \in DOMAIN got[s] :
              p < r /\ got[s][r].op = "dump" => InOrder(got[s][p].m, got[s][r].m)

\* The oldest one kept is dumped once more only after an exception has left its dump.
Dumps(g, m)   == {p \in DOMAIN g : g[p] = [m |-> m, op |-> "dump"]}
Escapes(F, m) == {f \in F : f.m = m /\ f.op = "dump" /\ f.how = "unknown"}
Dumping(s) == tracer.owner \in Threads /\ Past(tracer.owner, s)
CountInv ==
    /\ \A m \in Message, s \in Sinks :
          Cardinality(Dumps(got[s], m)) <= Cardinality(Escapes(failed, m)) + 1
    /\ \A s \in Sinks :
          tracer.q # <<>> /\ ~Dumping(s) =>
              Cardinality(Dumps(got[s], tracer.q[1])) <= Cardinality(Escapes(failed, tracer.q[1]))

LogsInv == LocksInv /\ BegunInv /\ LogInv /\ DoneInv
OrderInv == LogsInv /\ FailedInv /\ QueueInv /\ DumpedInv /\ CountInv

-----------------------------------------------------------------------------
(* Helpers.                                                                *)

LEMMA LeastNumber ==
    ASSUME NEW T \in SUBSET Nat, T # {}
    PROVE  \E x \in T : \A y \in T : x <= y
<1> DEFINE U == {0..x : x \in T}
<1>1. IsWellFoundedOn(StrictSubsetOrdering(Nat), FiniteSubsetsOf(Nat))
    BY FS_StrictSubsetOrderingWellFounded
<1>2. U \subseteq FiniteSubsetsOf(Nat) /\ U # {}
    <2>1. \A x \in T : 0..x \in SUBSET Nat
        OBVIOUS
    <2>2. \A x \in T : IsFiniteSet(0..x)
        BY FS_Interval
    <2> QED BY <2>1, <2>2 DEF FiniteSubsetsOf
<1>3. PICK u \in U : \A v \in U : ~(<<v, u>> \in StrictSubsetOrdering(Nat))
    <2> HIDE DEF U
    <2> QED BY <1>1, <1>2, WFMin
<1>4. PICK x \in T : u = 0..x
    OBVIOUS
<1>5. ASSUME NEW y \in T, y < x PROVE FALSE
    <2>1. /\ 0..y \subseteq 0..x /\ x \in 0..x /\ x \notin 0..y
          /\ 0..y \in SUBSET Nat /\ 0..x \in SUBSET Nat
        BY <1>5
    <2>2. <<0..y, u>> \in StrictSubsetOrdering(Nat)
        BY <2>1, <1>4 DEF StrictSubsetOrdering
    <2> QED BY <1>3, <2>2
<1> QED BY <1>5

\* The next sink that wants the level: those passed over do not.
LEMMA NextSinkIs ==
    ASSUME NEW j \in 1..NSinks + 1, NEW lvl \in Lvls
    PROVE  /\ NextSink(j, lvl) \in j..NSinks + 1
           /\ NextSink(j, lvl) \in 1..NSinks + 1
           /\ NextSink(j, lvl) = NSinks + 1 \/ lvl >= SinkLevel[NextSink(j, lvl)]
           /\ \A s \in Sinks : j <= s /\ s < NextSink(j, lvl) => lvl < SinkLevel[s]
<1> DEFINE Wants == {s \in j..NSinks : lvl >= SinkLevel[s]}
<1>0. \A s \in j..NSinks : s \in Sinks /\ s \in Nat /\ SinkLevel[s] \in Nat
    BY DEF Sinks, Lvls
<1>1. CASE Wants = {}
    <2>1. NextSink(j, lvl) = NSinks + 1
        BY <1>1 DEF NextSink
    <2>2. ASSUME NEW s \in Sinks, j <= s PROVE lvl < SinkLevel[s]
        <3>1. s \in j..NSinks
            BY <2>2 DEF Sinks
        <3> QED BY <1>0, <1>1, <3>1 DEF Lvls
    <2> QED BY <2>1, <2>2
<1>2. CASE Wants # {}
    <2>1. PICK x \in Wants : \A y \in Wants : x <= y
        <3>1. Wants \in SUBSET Nat
            BY <1>0
        <3> HIDE DEF Wants
        <3> QED BY <1>2, <3>1, LeastNumber
    <2>2. \A r \in j..x - 1 : lvl < SinkLevel[r]
        <3> TAKE r \in j..x - 1
        <3>1. r \in j..NSinks /\ ~(x <= r)
            BY <1>0, <2>1
        <3> QED BY <1>0, <2>1, <3>1 DEF Lvls
    <2>3. NextSink(j, lvl) \in j..NSinks /\ lvl >= SinkLevel[NextSink(j, lvl)]
          /\ \A r \in j..NextSink(j, lvl) - 1 : lvl < SinkLevel[r]
        BY <2>1, <2>2 DEF NextSink
    <2>4. ASSUME NEW s \in Sinks, j <= s, s < NextSink(j, lvl) PROVE lvl < SinkLevel[s]
        <3>1. s \in j..NextSink(j, lvl) - 1
            BY <1>0, <2>3, <2>4 DEF Sinks
        <3> QED BY <2>3, <3>1
    <2> QED BY <1>0, <2>3, <2>4
<1> QED BY <1>1, <1>2

Entry   == [m : Message, op : Ops]
Failures ==
    [m : Message, sink : Sinks, op : Ops, in : {"write", "flush"},
     how : {"std", "unknown"}, by : Threads, call : 0..MaxCalls]

LEMMA LineIsMessage == \A t \in Threads : Line(t) \in Message /\ Line(t).lvl \in Lvls
    BY DEF Line, Message

LEMMA LevelOfMessage == \A m \in Message : m.lvl \in Lvls /\ m.n \in Nat /\ m.by \in Threads /\ m.on \in BOOLEAN
    BY DEF Message

LEMMA LevelsCompare ==
    \A m \in Lvls, s \in Sinks : m < SinkLevel[s] => ~(m >= SinkLevel[s])
<1>1. \A s \in Sinks : SinkLevel[s] \in Nat
    BY DEF Lvls
<1> QED BY <1>1 DEF Lvls

\* What ToSinks sets.
LEMMA ToSinksSets ==
    ASSUME ThreadsOK, NEW t \in Threads, NEW o \in Ops, NEW m \in Message, ToSinks(t, o, m)
    PROVE  /\ pc' \in [Threads -> Places] /\ pc'[t] = "sink"
           /\ op' \in [Threads -> Ops] /\ op'[t] = o
           /\ cur' \in [Threads -> Message] /\ cur'[t] = m
           /\ at' \in [Threads -> 1..NSinks + 1] /\ at'[t] = NextSink(1, m.lvl)
           /\ \A u \in Threads \ {t} : pc'[u] = pc[u] /\ op'[u] = op[u] /\ cur'[u] = cur[u] /\ at'[u] = at[u]
<1>1. NextSink(1, m.lvl) \in 1..NSinks + 1
    <2>1. 1 \in 1..NSinks + 1
        OBVIOUS
    <2> QED BY <2>1, LevelOfMessage, NextSinkIs
<1> QED BY <1>1 DEF ThreadsOK, ToSinks, Places

LEMMA GotoSets ==
    ASSUME ThreadsOK, NEW t \in Threads, NEW where \in Places, Goto(t, where)
    PROVE  /\ pc' \in [Threads -> Places] /\ pc'[t] = where
           /\ \A u \in Threads \ {t} : pc'[u] = pc[u]
    BY DEF ThreadsOK, Goto, Places

LEMMA DrainSets ==
    ASSUME ThreadsOK, LocksOK, NEW t \in Threads, NEW q \in Seq(Message), Len(q) <= QSize, Drain(t, q)
    PROVE  /\ tracer' \in [owner : Threads \cup {NoOne}, enabled : BOOLEAN, q : Seq(Message)]
           /\ Len(tracer'.q) <= QSize
           /\ tracer' = [tracer EXCEPT !.owner = IF q = <<>> THEN NoOne ELSE t, !.q = q]
           /\ ToSinks(t, IF q = <<>> THEN "end" ELSE "dump", IF q = <<>> THEN Line(t) ELSE Head(q))
           /\ (IF q = <<>> THEN Line(t) ELSE Head(q)) \in Message
<1>1. /\ tracer' = [tracer EXCEPT !.owner = IF q = <<>> THEN NoOne ELSE t, !.q = q]
      /\ ToSinks(t, IF q = <<>> THEN "end" ELSE "dump", IF q = <<>> THEN Line(t) ELSE Head(q))
    BY DEF Drain
<1>2. (IF q = <<>> THEN Line(t) ELSE Head(q)) \in Message
    BY LineIsMessage
<1>3. tracer' \in [owner : Threads \cup {NoOne}, enabled : BOOLEAN, q : Seq(Message)] /\ tracer'.q = q
    BY <1>1 DEF LocksOK
<1> QED BY <1>1, <1>2, <1>3 DEF LocksOK

LEMMA TracerTyped ==
    ASSUME LocksOK, UNCHANGED mutex, NEW q \in Seq(Message), Len(q) <= QSize,
           NEW owner \in Threads \cup {NoOne},
           tracer' = [tracer EXCEPT !.owner = owner, !.q = q]
    PROVE  LocksOK' /\ tracer'.q = q /\ tracer'.owner = owner
<1>1. /\ tracer' \in [owner : Threads \cup {NoOne}, enabled : BOOLEAN, q : Seq(Message)]
      /\ tracer'.q = q /\ tracer'.owner = owner
    BY DEF LocksOK
<1> QED BY <1>1 DEF LocksOK

LEMMA FailureIs ==
    ASSUME ThreadsOK, MutexInv, NEW t \in Threads, Locked(t), NEW in \in {"write", "flush"},
           NEW how \in {"std", "unknown"}
    PROVE  Failure(t, in, how) \in Failures
    BY DEF Failure, Failures, ThreadsOK, MutexInv

-----------------------------------------------------------------------------
(* Types.                                                                  *)

LEMMA InitLocks == Init => LocksInv
<1> SUFFICES ASSUME Init PROVE LocksInv
    OBVIOUS
<1>1. ThreadsOK
    BY LineIsMessage DEF Init, ThreadsOK, Ops
<1>2. LocksOK
    BY DEF Init, LocksOK
<1>3. RecordOK
    BY DEF Init, RecordOK
<1>4. MutexInv
    BY DEF Init, MutexInv, Locked
<1>5. TracerInv
    BY DEF Init, TracerInv, Passing
<1> QED BY <1>1, <1>2, <1>3, <1>4, <1>5 DEF LocksInv, TypeOK

LEMMA NextThreads == LocksInv /\ Next => ThreadsOK'
<1> SUFFICES ASSUME LocksInv, NEW t \in Threads, Calling(t) \/ Locking(t) \/ Running(t)
             PROVE  ThreadsOK'
    BY DEF Next
<1> USE DEF LocksInv, TypeOK
<1>1. ASSUME NEW lvl \in CallLevels, Log(t, lvl) PROVE ThreadsOK'
    <2>1. calls' \in [Threads -> 0..MaxCalls] /\ calls'[t] = calls[t] + 1
        BY <1>1 DEF Log, Call, ThreadsOK
    <2>2. [by |-> t, n |-> calls'[t], lvl |-> lvl, on |-> lvl >= level_] \in Message
        BY <2>1 DEF ThreadsOK, Message
    <2>3. pc' \in [Threads -> Places]
        BY <1>1, GotoSets DEF Log, Places
    <2> QED BY <1>1, <2>1, <2>2, <2>3 DEF Log, ThreadsOK, Places, Ops
<1>2. ASSUME NEW lvl \in CallLevels, SetLevel(t, lvl) PROVE ThreadsOK'
    BY <1>2 DEF SetLevel, Call, ThreadsOK, thread
<1>3. CASE Dump(t)
    <2>1. pc' \in [Threads -> Places]
        BY <1>3, GotoSets DEF Dump, Places
    <2>2. calls' \in [Threads -> 0..MaxCalls]
        BY <1>3 DEF Dump, Call, ThreadsOK
    <2> QED BY <1>3, <2>1, <2>2 DEF Dump, ThreadsOK, Places
<1>4. CASE Flush(t)
    <2>1. pc' \in [Threads -> Places]
        BY <1>4, GotoSets DEF Flush, Places
    <2>2. cur' \in [Threads -> Message]
        BY <1>4, LineIsMessage DEF Flush, ThreadsOK
    <2> QED BY <1>4, <2>1, <2>2 DEF Flush, Call, ThreadsOK, Places, Ops
<1>5. CASE Enable(t) \/ Disable(t)
    BY <1>5 DEF Enable, Disable, Call, ThreadsOK, thread
<1>6. CASE LockSink(t)
    <2>1. pc' \in [Threads -> Places]
        BY <1>6, GotoSets DEF LockSink, Places
    <2> QED BY <1>6, <2>1 DEF LockSink, ThreadsOK, Places
<1>7. CASE ReadEmpty(t)
    <2>1. CASE ToSinks(t, "start", Line(t))
        BY <1>7, <2>1, ToSinksSets, LineIsMessage DEF ReadEmpty, ThreadsOK, Places, Ops
    <2>2. CASE Goto(t, "idle") /\ UNCHANGED <<op, cur, at>>
        <3>1. pc' \in [Threads -> Places]
            BY <2>2, GotoSets DEF Places
        <3> QED BY <1>7, <2>2, <3>1 DEF ReadEmpty, ThreadsOK, Places
    <2> QED BY <1>7, <2>1, <2>2 DEF ReadEmpty
<1>8. CASE Trace(t)
    <2>1. pc' \in [Threads -> Places]
        BY <1>8, GotoSets DEF Trace, Places
    <2> QED BY <1>8, <2>1 DEF Trace, ThreadsOK, Places
<1>9. CASE LockTracer(t)
    <2>1. tracer.q \in Seq(Message) /\ Len(tracer.q) <= QSize
        BY DEF LocksOK
    <2>2. PICK o \in Ops, m \in Message : ToSinks(t, o, m)
        BY <1>9, <2>1, DrainSets DEF LockTracer, Ops
    <2> QED BY <1>9, <2>2, ToSinksSets DEF LockTracer, ThreadsOK, Places
<1>10. ASSUME NEW o \in Outcomes, SinkLog(t, o) PROVE ThreadsOK'
    <2>1. at[t] \in Sinks /\ cur[t].lvl \in Lvls
        BY <1>10, LevelOfMessage DEF SinkLog, MutexInv, Locked, ThreadsOK
    <2>2. at[t] + 1 \in 1..NSinks + 1
        BY <2>1 DEF Sinks
    <2>3. NextSink(at[t] + 1, cur[t].lvl) \in 1..NSinks + 1
        BY <2>1, <2>2, NextSinkIs
    <2>4. at' \in [Threads -> 1..NSinks + 1]
        BY <1>10, <2>3 DEF SinkLog, Unwind, AfterFailure, ThreadsOK
    <2>5. pc' \in [Threads -> Places]
        BY <1>10, GotoSets DEF SinkLog, Unwind, Places, ThreadsOK
    <2> QED BY <1>10, <2>4, <2>5 DEF SinkLog, ThreadsOK, Places
<1>11. ASSUME NEW o \in Outcomes, SinkFlush(t, o) PROVE ThreadsOK'
    <2>1. at[t] \in Sinks
        BY <1>11 DEF SinkFlush, MutexInv, Locked
    <2>2. at[t] + 1 \in 1..NSinks + 1
        BY <2>1 DEF Sinks
    <2>3. at' \in [Threads -> 1..NSinks + 1]
        BY <1>11, <2>2 DEF SinkFlush, Unwind, ThreadsOK
    <2>4. pc' \in [Threads -> Places]
        BY <1>11, GotoSets DEF SinkFlush, Unwind, Places, ThreadsOK
    <2> QED BY <1>11, <2>3, <2>4 DEF SinkFlush, ThreadsOK, Places
<1>12. CASE ReadEnabled(t)
    <2>1. traceOn' \in [Threads -> BOOLEAN]
        BY <1>12 DEF ReadEnabled, ThreadsOK, LocksOK
    <2>2. CASE ToSinks(t, "log", cur[t])
        <3>1. cur[t] \in Message /\ "log" \in Ops
            BY DEF ThreadsOK, Ops
        <3> QED BY <1>12, <2>1, <2>2, <3>1, ToSinksSets DEF ReadEnabled, ThreadsOK, Places
    <2>3. CASE (Goto(t, "trace") \/ Goto(t, "idle")) /\ UNCHANGED <<op, cur, at>>
        <3>1. pc' \in [Threads -> Places]
            BY <2>3, GotoSets DEF Places
        <3> QED BY <1>12, <2>1, <2>3, <3>1 DEF ReadEnabled, ThreadsOK, Places
    <2> QED BY <1>12, <2>2, <2>3 DEF ReadEnabled
<1>13. CASE StartFlush(t)
    BY <1>13 DEF StartFlush, ThreadsOK
<1>14. CASE SinkItReturns(t)
    <2>1. CASE op[t] = "dump" /\ Drain(t, Popped)
        <3>1. Popped \in Seq(Message) /\ Len(Popped) <= QSize
            BY <1>14, <2>1 DEF SinkItReturns, Popped, TracerInv, Passing, LocksOK
        <3>2. PICK o \in Ops, m \in Message : ToSinks(t, o, m)
            BY <2>1, <3>1, DrainSets DEF Ops
        <3> QED BY <1>14, <3>2, ToSinksSets DEF SinkItReturns, ThreadsOK, Places
    <2>2. CASE ~(op[t] = "dump" /\ Drain(t, Popped))
        <3>1. (\E where \in Places : Goto(t, where)) /\ UNCHANGED <<op, cur, at>>
            BY <1>14, <2>2 DEF SinkItReturns, Places
        <3>2. pc' \in [Threads -> Places]
            BY <3>1, GotoSets
        <3> QED BY <1>14, <3>1, <3>2 DEF SinkItReturns, ThreadsOK, Places
    <2> QED BY <2>1, <2>2
<1> QED
    BY <1>1, <1>2, <1>3, <1>4, <1>5, <1>6, <1>7, <1>8, <1>9, <1>10, <1>11, <1>12, <1>13, <1>14
       DEF Calling, Locking, Running

\* A step of thread t leaves the other threads where they are.
LEMMA Others ==
    ASSUME LocksInv, NEW t \in Threads, Calling(t) \/ Locking(t) \/ Running(t),
           NEW u \in Threads \ {t}
    PROVE  /\ pc'[u] = pc[u] /\ op'[u] = op[u] /\ cur'[u] = cur[u]
           /\ at'[u] = at[u] /\ traceOn'[u] = traceOn[u] /\ calls'[u] = calls[u]
<1> USE DEF LocksInv, TypeOK
<1>1. CASE Calling(t)
    BY <1>1 DEF Calling, Log, SetLevel, Dump, Flush, Enable, Disable, Call, Goto, ThreadsOK, thread
<1>2. CASE Locking(t)
    BY <1>2 DEF Locking, LockSink, ReadEmpty, Trace, LockTracer, Drain, ToSinks, Goto, ThreadsOK, record
<1>3. CASE SinkItReturns(t) \/ ReadEnabled(t) \/ StartFlush(t)
    BY <1>3 DEF ReadEnabled, StartFlush, SinkItReturns, Drain, ToSinks, Goto, ThreadsOK, record
<1>4. ASSUME NEW o \in Outcomes, SinkLog(t, o) \/ SinkFlush(t, o) PROVE
      /\ pc'[u] = pc[u] /\ op'[u] = op[u] /\ cur'[u] = cur[u]
      /\ at'[u] = at[u] /\ traceOn'[u] = traceOn[u] /\ calls'[u] = calls[u]
    BY <1>4 DEF SinkLog, SinkFlush, Unwind, Goto, ThreadsOK
<1> QED BY <1>1, <1>2, <1>3, <1>4 DEF Running

LEMMA NextLocksOK == LocksInv /\ Next => LocksOK'
<1> SUFFICES ASSUME LocksInv, NEW t \in Threads, Calling(t) \/ Locking(t) \/ Running(t)
             PROVE  LocksOK'
    BY DEF Next
<1> USE DEF LocksInv, TypeOK
<1>1. ASSUME UNCHANGED <<mutex, tracer>> PROVE LocksOK'
    BY <1>1 DEF LocksOK
<1>2. CASE Calling(t)
    <2>1. CASE Enable(t) \/ Disable(t)
        <3>1. /\ tracer' \in [owner : Threads \cup {NoOne}, enabled : BOOLEAN, q : Seq(Message)]
              /\ tracer'.q = <<>> \/ tracer'.q = tracer.q
            <4>1. tracer \in [owner : Threads \cup {NoOne}, enabled : BOOLEAN, q : Seq(Message)]
                BY DEF LocksOK
            <4>2. CASE Enable(t)
                <5>1. tracer' = [tracer EXCEPT !.enabled = TRUE, !.q = <<>>]
                    BY <4>2 DEF Enable
                <5>2. tracer' = [owner |-> tracer.owner, enabled |-> TRUE, q |-> <<>>]
                    BY <4>1, <5>1
                <5> QED BY <4>1, <5>2
            <4>3. CASE Disable(t)
                BY <4>1, <4>3 DEF Disable
            <4> QED BY <2>1, <4>2, <4>3
        <3>2. Len(tracer'.q) <= QSize
            BY <3>1 DEF LocksOK
        <3>3. mutex' = mutex
            BY <2>1 DEF Enable, Disable
        <3> QED BY <3>1, <3>2, <3>3 DEF LocksOK
    <2> QED BY <1>1, <1>2, <2>1 DEF Calling, Log, SetLevel, Dump, Flush
<1>3. CASE LockSink(t)
    BY <1>3 DEF LockSink, LocksOK, ThreadsOK, Sinks
<1>4. CASE ReadEmpty(t) \/ ReadEnabled(t) \/ StartFlush(t)
    BY <1>1, <1>4 DEF ReadEmpty, ReadEnabled, StartFlush
<1>5. CASE Trace(t)
    <2>1. cur[t] \in Message /\ tracer.q \in Seq(Message) /\ Len(tracer.q) <= QSize /\ LocksOK
        BY DEF ThreadsOK, LocksOK
    <2>2. PushBack(tracer.q, cur[t]) \in Seq(Message) /\ Len(PushBack(tracer.q, cur[t])) <= QSize
        <3>1. CASE Len(tracer.q) < QSize
            BY <2>1, <3>1 DEF PushBack
        <3>2. CASE ~(Len(tracer.q) < QSize)
            <4>1. Len(tracer.q) = QSize /\ tracer.q # <<>>
                BY <2>1, <3>2
            <4>2. Tail(tracer.q) \in Seq(Message) /\ Len(Tail(tracer.q)) = QSize - 1
                BY <2>1, <4>1
            <4> QED BY <2>1, <3>2, <4>2 DEF PushBack
        <3> QED BY <3>1, <3>2
    <2>3. tracer' = [tracer EXCEPT !.q = PushBack(tracer.q, cur[t])] /\ mutex' = mutex
        BY <1>5 DEF Trace
    <2>4. tracer.owner \in Threads \cup {NoOne}
          /\ tracer' = [tracer EXCEPT !.owner = tracer.owner, !.q = PushBack(tracer.q, cur[t])]
        BY <2>3 DEF LocksOK
    <2> QED BY <2>1, <2>2, <2>3, <2>4, TracerTyped
<1>6. CASE LockTracer(t)
    <2>1. tracer.q \in Seq(Message) /\ Len(tracer.q) <= QSize
        BY DEF LocksOK
    <2>2. UNCHANGED mutex /\ LocksOK
        BY <1>6 DEF LockTracer
    <2>3. \E owner \in Threads \cup {NoOne} : tracer' = [tracer EXCEPT !.owner = owner, !.q = tracer.q]
        BY <1>6 DEF LockTracer, Drain
    <2> QED BY <2>1, <2>2, <2>3, TracerTyped
<1>7. ASSUME NEW o \in Outcomes, SinkLog(t, o) \/ SinkFlush(t, o) PROVE LocksOK'
    <2>1. at[t] \in Sinks
        BY <1>7 DEF SinkLog, SinkFlush, MutexInv, Locked
    <2>2. mutex' \in [Sinks -> Threads \cup {NoOne}]
        BY <1>7, <2>1 DEF SinkLog, SinkFlush, LocksOK
    <2>3. tracer' = tracer \/ tracer' = [tracer EXCEPT !.owner = NoOne]
        BY <1>7 DEF SinkLog, SinkFlush, Unwind, Unwound
    <2> QED BY <2>2, <2>3 DEF LocksOK
<1>8. CASE SinkItReturns(t)
    <2>1. CASE op[t] = "dump" /\ Drain(t, Popped)
        <3>1. Popped \in Seq(Message) /\ Len(Popped) <= QSize
            BY <1>8, <2>1 DEF SinkItReturns, Popped, TracerInv, Passing, LocksOK
        <3>2. UNCHANGED mutex /\ LocksOK
            BY <1>8 DEF SinkItReturns
        <3>3. \E owner \in Threads \cup {NoOne} : tracer' = [tracer EXCEPT !.owner = owner, !.q = Popped]
            BY <2>1 DEF Drain
        <3> QED BY <3>1, <3>2, <3>3, TracerTyped
    <2> QED BY <1>1, <1>8, <2>1 DEF SinkItReturns
<1> QED BY <1>2, <1>3, <1>4, <1>5, <1>6, <1>7, <1>8 DEF Locking, Running

LEMMA NextRecordOK == LocksInv /\ Next => RecordOK'
<1> SUFFICES ASSUME LocksInv, NEW t \in Threads, Calling(t) \/ Locking(t) \/ Running(t)
             PROVE  RecordOK'
    BY DEF Next
<1> USE DEF LocksInv, TypeOK
<1>1. ASSUME UNCHANGED <<got, flushed, failed>>, done' \subseteq Message PROVE RecordOK'
    BY <1>1 DEF RecordOK
<1>2. cur[t] \in Message /\ done \subseteq Message
    BY DEF ThreadsOK, RecordOK
<1>3. CASE Calling(t)
    BY <1>1, <1>2, <1>3 DEF Calling, Log, SetLevel, Dump, Flush, Enable, Disable, record
<1>4. CASE Locking(t)
    BY <1>1, <1>2, <1>4 DEF Locking, LockSink, ReadEmpty, Trace, LockTracer, record
<1>5. CASE ReadEnabled(t) \/ StartFlush(t) \/ SinkItReturns(t)
    BY <1>1, <1>2, <1>5 DEF ReadEnabled, StartFlush, SinkItReturns, record
<1>6. ASSUME NEW o \in Outcomes, SinkLog(t, o) PROVE RecordOK'
    <2>1. Locked(t) /\ at[t] \in Sinks /\ [m |-> cur[t], op |-> op[t]] \in Entry
        BY <1>6 DEF SinkLog, MutexInv, Locked, ThreadsOK, Entry
    <2>2. failed' \subseteq Failures
        <3>1. o # "ok" => Failure(t, "write", o) \in Failures
            BY <2>1, FailureIs, OutcomesAssumption
        <3> QED BY <1>6, <3>1 DEF SinkLog, RecordOK, Failures
    <2>3. got \in [Sinks -> Seq(Entry)]
        BY DEF RecordOK, Entry
    <2>4. Append(got[at[t]], [m |-> cur[t], op |-> op[t]]) \in Seq(Entry)
          /\ Len(Append(got[at[t]], [m |-> cur[t], op |-> op[t]])) = Len(got[at[t]]) + 1
        BY <2>1, <2>3
    <2>5. got' \in [Sinks -> Seq(Entry)] /\ \A s \in Sinks : Len(got[s]) <= Len(got'[s])
        <3>1. CASE o = "ok"
            BY <1>6, <2>1, <2>3, <2>4, <3>1 DEF SinkLog
        <3>2. CASE o # "ok"
            BY <1>6, <2>3, <3>2 DEF SinkLog
        <3> QED BY <3>1, <3>2
    <2>6. \A s \in Sinks : flushed'[s] \in Nat /\ flushed'[s] <= Len(got'[s])
        <3> TAKE s \in Sinks
        <3>1. flushed'[s] = flushed[s] /\ flushed[s] \in Nat /\ flushed[s] <= Len(got[s])
            BY <1>6 DEF SinkLog, RecordOK
        <3>2. Len(got[s]) \in Nat /\ Len(got'[s]) \in Nat /\ Len(got[s]) <= Len(got'[s])
            BY <2>3, <2>5
        <3> QED BY <3>1, <3>2
    <2>7. flushed' \in [Sinks -> Nat] /\ done' \subseteq Message
        BY <1>6 DEF SinkLog, RecordOK
    <2> QED BY <2>2, <2>5, <2>6, <2>7 DEF RecordOK, Entry, Failures
<1>7. ASSUME NEW o \in Outcomes, SinkFlush(t, o) PROVE RecordOK'
    <2>1. Locked(t) /\ at[t] \in Sinks
        BY <1>7 DEF SinkFlush, MutexInv, Locked
    <2>2. failed' \subseteq Failures
        <3>1. o # "ok" => Failure(t, "flush", o) \in Failures
            BY <2>1, FailureIs, OutcomesAssumption
        <3> QED BY <1>7, <3>1 DEF SinkFlush, RecordOK, Failures
    <2>3. got' = got /\ got \in [Sinks -> Seq(Entry)] /\ done' \subseteq Message
        BY <1>7 DEF SinkFlush, RecordOK, Entry
    <2>4. \A s \in Sinks : Len(got[s]) \in Nat
        BY <2>3
    <2>5. flushed' \in [Sinks -> Nat] /\ \A s \in Sinks : flushed'[s] <= Len(got'[s])
        BY <1>7, <2>1, <2>3, <2>4 DEF SinkFlush, RecordOK
    <2> QED BY <2>2, <2>3, <2>5 DEF RecordOK, Entry, Failures
<1> QED BY <1>3, <1>4, <1>5, <1>6, <1>7 DEF Running

-----------------------------------------------------------------------------
(* Locks.                                                                  *)

LEMMA NextMutex == LocksInv /\ Next => MutexInv'
<1> SUFFICES ASSUME LocksInv, NEW t \in Threads, Calling(t) \/ Locking(t) \/ Running(t)
             PROVE  MutexInv'
    BY DEF Next
<1> USE DEF LocksInv, TypeOK
<1>1. ThreadsOK'
    BY NextThreads DEF Next
\* A step that takes and frees no sink's mutex.
<1>2. ASSUME mutex' = mutex, ~Locked(t), pc'[t] \notin {"write", "flushing"} PROVE MutexInv'
    <2>1. \A u \in Threads : Locked(u)' <=> Locked(u)
        BY <1>2, Others DEF Locked
    <2>2. \A u \in Threads : Locked(u) => at'[u] = at[u]
        BY <1>2, Others
    <2> QED BY <1>2, <2>1, <2>2 DEF MutexInv
<1>3. CASE Calling(t)
    <2>1. CASE \E lvl \in CallLevels : Log(t, lvl)
        BY <1>2, <2>1, GotoSets DEF Log, Call, Locked, Places
    <2>2. CASE (\E lvl \in CallLevels : SetLevel(t, lvl)) \/ Enable(t) \/ Disable(t)
        BY <1>2, <2>2 DEF SetLevel, Enable, Disable, Call, Locked, thread
    <2>3. CASE Dump(t) \/ Flush(t)
        BY <1>2, <2>3, GotoSets DEF Dump, Flush, Call, Locked, Places
    <2> QED BY <1>3, <2>1, <2>2, <2>3 DEF Calling
<1>4. CASE LockSink(t)
    <2>1. ~Locked(t) /\ Locked(t)' /\ at'[t] = at[t] /\ at[t] \in Sinks /\ mutex[at[t]] = NoOne
        BY <1>4 DEF LockSink, Locked, Goto, ThreadsOK, Sinks
    <2>2. mutex' = [mutex EXCEPT ![at[t]] = t] /\ mutex \in [Sinks -> Threads \cup {NoOne}]
        BY <1>4 DEF LockSink, LocksOK
    <2>3. \A u \in Threads \ {t} : (Locked(u)' <=> Locked(u)) /\ at'[u] = at[u]
        BY Others DEF Locked
    <2> QED BY <2>1, <2>2, <2>3 DEF MutexInv
<1>5. CASE ReadEmpty(t)
    <2>1. CASE ToSinks(t, "start", Line(t))
        BY <1>2, <1>5, <2>1, ToSinksSets, LineIsMessage DEF ReadEmpty, Locked, Ops
    <2>2. CASE Goto(t, "idle")
        BY <1>2, <1>5, <2>2, GotoSets DEF ReadEmpty, Locked, Places
    <2> QED BY <1>5, <2>1, <2>2 DEF ReadEmpty
<1>6. CASE Trace(t)
    BY <1>2, <1>6, GotoSets DEF Trace, Locked, Places
<1>7. ASSUME NEW q, Drain(t, q) PROVE pc'[t] = "sink"
    BY <1>7 DEF Drain, ToSinks, ThreadsOK
<1>8. CASE LockTracer(t)
    BY <1>2, <1>7, <1>8 DEF LockTracer, Locked
<1>9. ASSUME NEW o \in Outcomes, SinkLog(t, o) \/ SinkFlush(t, o) PROVE MutexInv'
    <2>1. Locked(t) /\ at[t] \in Sinks /\ mutex[at[t]] = t
        BY <1>9 DEF SinkLog, SinkFlush, MutexInv, Locked
    <2>2. ~Locked(t)'
        BY <1>9, GotoSets DEF SinkLog, SinkFlush, Unwind, Locked, ThreadsOK, Places
    <2>3. mutex' = [mutex EXCEPT ![at[t]] = NoOne] /\ mutex \in [Sinks -> Threads \cup {NoOne}]
        BY <1>9 DEF SinkLog, SinkFlush, LocksOK
    <2>4. \A u \in Threads \ {t} : (Locked(u)' <=> Locked(u)) /\ at'[u] = at[u]
        BY Others DEF Locked
    <2>5. \A u \in Threads : Locked(u)' => at'[u] \in Sinks /\ mutex'[at'[u]] = u
        BY <2>1, <2>2, <2>3, <2>4 DEF MutexInv
    <2>6. \A s \in Sinks : mutex'[s] \in Threads => Locked(mutex[s])' /\ at'[mutex'[s]] = s /\ mutex'[s] = mutex[s]
        BY <2>1, <2>2, <2>3, <2>4 DEF MutexInv
    <2>7. \A s \in Sinks : mutex'[s] \in Threads => Locked(mutex[s])'
        BY <2>6
    <2> QED BY <2>5, <2>6 DEF MutexInv, Locked
<1>10. CASE ReadEnabled(t)
    <2>1. CASE ToSinks(t, "log", cur[t])
        BY <1>2, <1>10, <2>1, ToSinksSets DEF ReadEnabled, Locked, Ops, ThreadsOK
    <2>2. CASE Goto(t, "trace") \/ Goto(t, "idle")
        BY <1>2, <1>10, <2>2, GotoSets DEF ReadEnabled, Locked, Places
    <2> QED BY <1>10, <2>1, <2>2 DEF ReadEnabled
<1>11. CASE StartFlush(t)
    BY <1>2, <1>11 DEF StartFlush, Locked, ThreadsOK
<1>12. CASE SinkItReturns(t)
    <2>1. CASE Drain(t, Popped)
        BY <1>2, <1>7, <1>12, <2>1 DEF SinkItReturns, Locked
    <2>2. CASE ~Drain(t, Popped)
        <3>1. \E where \in Places : Goto(t, where) /\ where \notin {"write", "flushing"}
            BY <1>12, <2>2 DEF SinkItReturns, Places
        <3> QED BY <1>2, <1>12, <3>1, GotoSets DEF SinkItReturns, Locked
    <2> QED BY <2>1, <2>2
<1> QED BY <1>3, <1>4, <1>5, <1>6, <1>8, <1>9, <1>10, <1>11, <1>12 DEF Locking, Running

LEMMA NextTracer == LocksInv /\ Next => TracerInv'
<1> SUFFICES ASSUME LocksInv, NEW t \in Threads, Calling(t) \/ Locking(t) \/ Running(t)
             PROVE  TracerInv'
    BY DEF Next
<1> USE DEF LocksInv, TypeOK
<1>0. tracer.q \in Seq(Message) /\ Len(tracer.q) <= QSize
    BY DEF LocksOK
\* A thread that neither was dumping nor is, and leaves what a dumper relies on.
<1>1. ASSUME ~(Passing(t) /\ op[t] = "dump"), ~(Passing(t)' /\ op'[t] = "dump"),
             tracer'.owner = tracer.owner,
             tracer.owner \in Threads => tracer'.q = tracer.q
      PROVE  TracerInv'
    BY <1>1, Others DEF TracerInv, Passing
\* A thread that goes on dumping its message.
<1>2. ASSUME Passing(t)' <=> Passing(t), op'[t] = op[t], cur'[t] = cur[t], UNCHANGED tracer
      PROVE  TracerInv'
    BY <1>2, Others DEF TracerInv, Passing
\* A thread that starts or goes on draining q.
<1>3. ASSUME NEW q \in Seq(Message), Len(q) <= QSize, Drain(t, q),
             tracer.owner = NoOne \/ tracer.owner = t
      PROVE  TracerInv'
    <2>1. /\ pc'[t] = "sink"
          /\ q = <<>> => op'[t] = "end"
          /\ q # <<>> => op'[t] = "dump" /\ cur'[t] = Head(q)
        <3>1. CASE q = <<>>
            <4>1. ToSinks(t, "end", Line(t)) /\ Line(t) \in Message /\ "end" \in Ops
                BY <1>3, <3>1, LineIsMessage DEF Drain, Ops
            <4> QED BY <3>1, <4>1, ToSinksSets
        <3>2. CASE q # <<>>
            <4>1. ToSinks(t, "dump", Head(q)) /\ Head(q) \in Message /\ "dump" \in Ops
                BY <1>3, <3>2 DEF Drain, Ops
            <4> QED BY <3>2, <4>1, ToSinksSets
        <3> QED BY <3>1, <3>2
    <2>2. tracer'.q = q /\ tracer'.owner = IF q = <<>> THEN NoOne ELSE t
        BY <1>3 DEF Drain, LocksOK
    <2>3. \A u \in Threads \ {t} : ~(Passing(u)' /\ op'[u] = "dump")
        BY <1>3, Others DEF TracerInv, Passing
    <2>4. ASSUME NEW u \in Threads, Passing(u)' /\ op'[u] = "dump"
          PROVE  tracer'.owner = u /\ tracer'.q # <<>> /\ cur'[u] = Head(tracer'.q)
        <3>1. u = t /\ q # <<>>
            BY <2>1, <2>3, <2>4
        <3> QED BY <2>1, <2>2, <3>1
    <2>5. ASSUME tracer'.owner \in Threads PROVE pc'[tracer'.owner] = "sink" /\ op'[tracer'.owner] = "dump"
        BY <2>1, <2>2, <2>5
    <2> QED BY <2>4, <2>5 DEF TracerInv, Passing
<1>4. CASE Calling(t)
    <2>1. CASE \E lvl \in CallLevels : Log(t, lvl)
        BY <1>1, <2>1, GotoSets DEF Log, Call, Passing, Places
    <2>2. CASE \E lvl \in CallLevels : SetLevel(t, lvl)
        BY <1>1, <2>2 DEF SetLevel, Call, Passing, thread
    <2>3. CASE Enable(t) \/ Disable(t)
        BY <1>1, <2>3 DEF Enable, Disable, Call, Passing, thread, LocksOK
    <2>4. CASE Dump(t)
        BY <1>1, <2>4, GotoSets DEF Dump, Call, Passing, Places
    <2>5. CASE Flush(t)
        BY <1>1, <2>5, GotoSets DEF Flush, Call, Passing, Places, ThreadsOK
    <2> QED BY <1>4, <2>1, <2>2, <2>3, <2>4, <2>5 DEF Calling
<1>5. CASE LockSink(t)
    BY <1>2, <1>5, GotoSets DEF LockSink, Passing, Places
<1>6. CASE ReadEmpty(t)
    <2>1. CASE ToSinks(t, "start", Line(t))
        BY <1>1, <1>6, <2>1, ToSinksSets, LineIsMessage DEF ReadEmpty, Passing, Ops
    <2>2. CASE Goto(t, "idle")
        BY <1>1, <1>6, <2>2, GotoSets DEF ReadEmpty, Passing, Places
    <2> QED BY <1>6, <2>1, <2>2 DEF ReadEmpty
<1>7. CASE Trace(t)
    BY <1>1, <1>7, GotoSets DEF Trace, Passing, Places, LocksOK
<1>8. CASE LockTracer(t)
    BY <1>0, <1>3, <1>8 DEF LockTracer
<1>9. ASSUME NEW o \in Outcomes, SinkLog(t, o) \/ SinkFlush(t, o) PROVE TracerInv'
    <2>1. Passing(t) /\ op'[t] = op[t] /\ cur'[t] = cur[t]
        BY <1>9 DEF SinkLog, SinkFlush, Passing
    <2>2. CASE o # "unknown"
        <3>1. Passing(t)' /\ UNCHANGED tracer
            BY <1>9, <2>2 DEF SinkLog, SinkFlush, Passing, ThreadsOK
        <3> QED BY <1>2, <2>1, <3>1
    <2>3. CASE o = "unknown"
        <3>1. ~Passing(t)' /\ tracer' = Unwound(t)
            BY <1>9, <2>3, GotoSets DEF SinkLog, SinkFlush, Unwind, Passing, Places
        <3>2. CASE tracer.owner = t
            <4>1. tracer'.owner = NoOne
                BY <3>1, <3>2 DEF Unwound, LocksOK
            <4>2. \A u \in Threads \ {t} : ~(Passing(u)' /\ op'[u] = "dump")
                BY <3>2, Others DEF TracerInv, Passing
            <4> QED BY <3>1, <4>1, <4>2 DEF TracerInv
        <3>3. CASE tracer.owner # t
            <4>1. UNCHANGED tracer
                BY <3>1, <3>3 DEF Unwound
            <4>2. ~(Passing(t) /\ op[t] = "dump")
                BY <3>3 DEF TracerInv
            <4> QED BY <1>1, <3>1, <4>1, <4>2
        <3> QED BY <3>2, <3>3
    <2> QED BY <2>2, <2>3
<1>10. CASE ReadEnabled(t)
    <2>1. CASE ToSinks(t, "log", cur[t])
        BY <1>1, <1>10, <2>1, ToSinksSets DEF ReadEnabled, Passing, Ops, ThreadsOK
    <2>2. CASE Goto(t, "trace") \/ Goto(t, "idle")
        BY <1>1, <1>10, <2>2, GotoSets DEF ReadEnabled, Passing, Places
    <2> QED BY <1>10, <2>1, <2>2 DEF ReadEnabled
<1>11. CASE StartFlush(t)
    BY <1>2, <1>11 DEF StartFlush, Passing, ThreadsOK
<1>12. CASE SinkItReturns(t)
    <2>1. CASE op[t] = "dump"
        <3>1. tracer.owner = t /\ tracer.q # <<>>
            BY <1>12, <2>1 DEF SinkItReturns, TracerInv, Passing
        <3>2. Popped \in Seq(Message) /\ Len(Popped) <= QSize
            BY <1>0, <3>1 DEF Popped
        <3>3. Drain(t, Popped)
            BY <1>12, <2>1 DEF SinkItReturns
        <3> QED BY <1>3, <3>1, <3>2, <3>3
    <2>2. CASE op[t] # "dump"
        <3>1. \E where \in Places : Goto(t, where) /\ where \notin {"sink", "write", "flush", "flushing"}
            BY <1>12, <2>2 DEF SinkItReturns, Places
        <3>2. UNCHANGED tracer
            BY <1>12, <2>2 DEF SinkItReturns
        <3> QED BY <1>1, <1>12, <2>2, <3>1, <3>2, GotoSets DEF SinkItReturns, Passing
    <2> QED BY <2>1, <2>2
<1> QED BY <1>4, <1>5, <1>6, <1>7, <1>8, <1>9, <1>10, <1>11, <1>12 DEF Locking, Running

LEMMA LocksInductive == LocksInv /\ [Next]_vars => LocksInv'
<1> SUFFICES ASSUME LocksInv, [Next]_vars PROVE LocksInv'
    OBVIOUS
<1>1. CASE Next
    BY <1>1, NextThreads, NextLocksOK, NextRecordOK, NextMutex, NextTracer DEF LocksInv, TypeOK
<1>2. CASE UNCHANGED vars
    BY <1>2 DEF vars, thread, record, LocksInv, TypeOK, ThreadsOK, LocksOK, RecordOK,
                MutexInv, TracerInv, Passing, Locked
<1> QED BY <1>1, <1>2

LEMMA LocksHold == Spec => []LocksInv
    BY InitLocks, LocksInductive, PTL DEF Spec

\* Every variable of the logger keeps its type, whatever the sinks throw and however
\* the threads interleave (logger-inl.h, backtracer-inl.h): messages_ never outgrows
\* the size it was given, and nothing is flushed that was not written.
THEOREM TypeCorrect == Spec => []TypeOK
    BY LocksHold, PTL DEF LocksInv

\* No threads wait for each other's mutexes, nor one for its own: the owner of a sink's
\* mutex is in that sink's log or flush, the owner of the tracer's in the loop over the
\* sinks, so along the threads that wait there is one that does not.
THEOREM NeverDeadlocks == Spec => []NoDeadlock
<1>1. ASSUME LocksInv PROVE NoDeadlock
    <2> USE DEF LocksInv, TypeOK
    <2> SUFFICES ASSUME NEW t \in Threads, pc[t] # "idle"
                 PROVE  \E u \in Threads : pc[u] # "idle" /\ ~Waiting(u)
        BY <1>1 DEF NoDeadlock
    \* A thread that owns a sink's mutex does not wait.
    <2>1. \A u \in Threads : Locked(u) => pc[u] # "idle" /\ ~Waiting(u)
        BY DEF Locked, Waiting
    \* One in the loop waits for such a thread.
    <2>2. ASSUME NEW u \in Threads, Passing(u)
          PROVE  \E v \in Threads : pc[v] # "idle" /\ ~Waiting(v)
        <3>1. CASE ~Waiting(u)
            BY <2>2, <3>1 DEF Passing
        <3>2. CASE Waiting(u)
            <4>1. at[u] \in 1..NSinks + 1
                BY <1>1 DEF ThreadsOK
            <4>2. at[u] <= NSinks /\ mutex[at[u]] # NoOne
                BY <2>2, <3>2 DEF Waiting, Passing
            <4>3. at[u] \in Sinks
                BY <4>1, <4>2 DEF Sinks
            <4>4. mutex[at[u]] \in Threads
                BY <1>1, <4>2, <4>3 DEF LocksOK
            <4>5. Locked(mutex[at[u]])
                BY <1>1, <4>3, <4>4 DEF MutexInv
            <4> QED BY <2>1, <4>4, <4>5
        <3> QED BY <3>1, <3>2
    \* One outside it waits for a thread in it.
    <2>3. CASE Waiting(t) /\ ~Passing(t)
        <3>1. tracer.owner \in Threads
            BY <1>1, <2>3 DEF Waiting, Passing, LocksOK
        <3>2. Passing(tracer.owner)
            BY <1>1, <3>1 DEF TracerInv
        <3> QED BY <2>2, <3>1, <3>2
    <2> QED BY <2>2, <2>3
<1> QED BY <1>1, LocksHold, PTL

-----------------------------------------------------------------------------
(* What a step does, variable by variable.                                 *)

\* Only sinks change what has been written, flushed and thrown.
LEMMA RecordMoves ==
    ASSUME LocksInv, NEW t \in Threads, Calling(t) \/ Locking(t) \/ Running(t)
    PROVE  \/ UNCHANGED <<got, flushed, failed>>
           \/ \E o \in Outcomes : SinkLog(t, o) \/ SinkFlush(t, o)
<1>1. CASE Calling(t)
    BY <1>1 DEF Calling, Log, SetLevel, Dump, Flush, Enable, Disable, record
<1>2. CASE Locking(t)
    BY <1>2 DEF Locking, LockSink, ReadEmpty, Trace, LockTracer, record
<1>3. CASE ReadEnabled(t) \/ StartFlush(t) \/ SinkItReturns(t)
    BY <1>3 DEF ReadEnabled, StartFlush, SinkItReturns, record
<1> QED BY <1>1, <1>2, <1>3 DEF Running

\* The backtrace is kept, emptied, popped by the thread that dumps, or appended to.
LEMMA QueueMoves ==
    ASSUME LocksInv, NEW t \in Threads, Calling(t) \/ Locking(t) \/ Running(t)
    PROVE  \/ tracer'.q = tracer.q
           \/ tracer'.q = <<>>
           \/ SinkItReturns(t) /\ op[t] = "dump" /\ tracer'.q = Tail(tracer.q)
           \/ Trace(t) /\ tracer'.q = PushBack(tracer.q, cur[t])
<1>0. tracer \in [owner : Threads \cup {NoOne}, enabled : BOOLEAN, q : Seq(Message)]
    BY DEF LocksInv, TypeOK, LocksOK
<1>1. CASE Calling(t)
    BY <1>0, <1>1 DEF Calling, Log, SetLevel, Dump, Flush, Enable, Disable
<1>2. CASE LockSink(t) \/ ReadEmpty(t)
    BY <1>2 DEF LockSink, ReadEmpty
<1>3. CASE LockTracer(t)
    BY <1>0, <1>3 DEF LockTracer, Drain
<1>4. CASE Trace(t)
    BY <1>0, <1>4 DEF Trace
<1>5. CASE ReadEnabled(t) \/ StartFlush(t)
    BY <1>5 DEF ReadEnabled, StartFlush
<1>6. CASE SinkItReturns(t)
    BY <1>0, <1>6 DEF SinkItReturns, Drain, Popped
<1>7. ASSUME NEW o \in Outcomes, SinkLog(t, o) \/ SinkFlush(t, o)
      PROVE  tracer'.q = tracer.q
    BY <1>0, <1>7 DEF SinkLog, SinkFlush, Unwind, Unwound
<1> QED BY <1>1, <1>2, <1>3, <1>4, <1>5, <1>6, <1>7 DEF Locking, Running

LEMMA SinksKeepQueue ==
    ASSUME LocksInv, NEW t \in Threads, NEW o \in Outcomes, SinkLog(t, o) \/ SinkFlush(t, o)
    PROVE  tracer'.q = tracer.q /\ (o # "unknown" => UNCHANGED tracer)
<1>1. tracer \in [owner : Threads \cup {NoOne}, enabled : BOOLEAN, q : Seq(Message)]
    BY DEF LocksInv, TypeOK, LocksOK
<1> QED BY <1>1 DEF SinkLog, SinkFlush, Unwind, Unwound

\* The message a thread is about stays, is a new one or a line of its own, or is the
\* oldest of the backtrace.
LEMMA CurMoves ==
    ASSUME LocksInv, NEW t \in Threads, Calling(t) \/ Locking(t) \/ Running(t)
    PROVE  \/ cur'[t] = cur[t]
           \/ cur'[t] = Line(t)
           \/ cur'[t].by = t /\ cur'[t].n = calls'[t]
           \/ tracer'.q # <<>> /\ cur'[t] = tracer'.q[1]
<1> USE DEF LocksInv, TypeOK
<1>0. tracer \in [owner : Threads \cup {NoOne}, enabled : BOOLEAN, q : Seq(Message)]
    BY DEF LocksOK
<1>1. CASE Calling(t)
    BY <1>1 DEF Calling, Log, SetLevel, Dump, Flush, Enable, Disable, ThreadsOK, thread
<1>2. ASSUME NEW q \in Seq(Message), Drain(t, q)
      PROVE  cur'[t] = Line(t) \/ (tracer'.q # <<>> /\ cur'[t] = tracer'.q[1])
    <2>1. CASE q = <<>>
        BY <1>2, <2>1 DEF Drain, ToSinks, ThreadsOK
    <2>2. CASE q # <<>>
        <3>1. tracer'.q = q
            BY <1>0, <1>2, <2>2 DEF Drain
        <3>2. cur'[t] = Head(q)
            BY <1>2, <2>2 DEF Drain, ToSinks, ThreadsOK
        <3> QED BY <2>2, <3>1, <3>2
    <2> QED BY <2>1, <2>2
<1>3. CASE LockSink(t) \/ ReadEmpty(t) \/ Trace(t)
    BY <1>3 DEF LockSink, ReadEmpty, Trace, ToSinks, ThreadsOK
<1>4. CASE LockTracer(t)
    BY <1>0, <1>2, <1>4 DEF LockTracer
<1>5. CASE ReadEnabled(t) \/ StartFlush(t)
    BY <1>5 DEF ReadEnabled, StartFlush, ToSinks, ThreadsOK
<1>6. CASE SinkItReturns(t)
    <2>1. CASE op[t] = "dump"
        <3>1. Popped \in Seq(Message)
            BY <1>0, <1>6, <2>1 DEF SinkItReturns, TracerInv, Passing, Popped
        <3> QED BY <1>2, <1>6, <2>1, <3>1 DEF SinkItReturns
    <2> QED BY <1>6, <2>1 DEF SinkItReturns
<1>7. ASSUME NEW o \in Outcomes, SinkLog(t, o) \/ SinkFlush(t, o)
      PROVE  cur'[t] = cur[t]
    BY <1>7 DEF SinkLog, SinkFlush
<1> QED BY <1>1, <1>3, <1>4, <1>5, <1>6, <1>7 DEF Locking, Running

LEMMA EntryOf ==
    ASSUME RecordOK, NEW s \in Sinks
    PROVE  got[s] \in Seq(Entry) /\ \A p \in DOMAIN got[s] : got[s][p] \in Entry
<1>1. got[s] \in Seq(Entry)
    BY DEF RecordOK, Entry
<1> QED BY <1>1

\* A sink's file only grows, by the message of the thread that writes.
LEMMA GotMoves ==
    ASSUME LocksInv, NEW t \in Threads, NEW o \in Outcomes, SinkLog(t, o), NEW s \in Sinks
    PROVE  /\ DOMAIN got[s] = 1..Len(got[s]) /\ Len(got[s]) \in Nat
           /\ \A p \in DOMAIN got[s] : p \in DOMAIN got'[s] /\ got'[s][p] = got[s][p]
           /\ o = "ok" /\ s = at[t] =>
                  /\ DOMAIN got'[s] = 1..Len(got[s]) + 1
                  /\ got'[s][Len(got[s]) + 1] = [m |-> cur[t], op |-> op[t]]
           /\ ~(o = "ok" /\ s = at[t]) => got'[s] = got[s]
<1>1. got \in [Sinks -> Seq(Entry)] /\ at[t] \in Sinks /\ [m |-> cur[t], op |-> op[t]] \in Entry
    <2>1. got \in [Sinks -> Seq(Entry)]
        BY DEF LocksInv, TypeOK, RecordOK, Entry
    <2>2. at[t] \in Sinks
        BY DEF LocksInv, SinkLog, MutexInv, Locked
    <2>3. [m |-> cur[t], op |-> op[t]] \in Entry
        BY DEF LocksInv, TypeOK, ThreadsOK, Entry
    <2> QED BY <2>1, <2>2, <2>3
<1>2. CASE o = "ok" /\ s = at[t]
    <2>1. got'[s] = Append(got[s], [m |-> cur[t], op |-> op[t]])
        BY <1>1, <1>2 DEF SinkLog
    <2> HIDE DEF LocksInv
    <2> QED BY <1>1, <1>2, <2>1
<1>3. CASE ~(o = "ok" /\ s = at[t])
    <2>1. got'[s] = got[s]
        BY <1>1, <1>3 DEF SinkLog
    <2> QED BY <1>1, <1>3, <2>1
<1> QED BY <1>2, <1>3

LEMMA GotStays ==
    ASSUME RecordOK, NEW t \in Threads, NEW o \in Outcomes, SinkLog(t, o), NEW s \in Sinks,
           o # "ok" \/ s # at[t]
    PROVE  got'[s] = got[s]
<1>1. CASE o # "ok"
    BY <1>1 DEF SinkLog
<1>2. CASE o = "ok" /\ s # at[t]
    <2>1. got' = [got EXCEPT ![at[t]] = Append(@, [m |-> cur[t], op |-> op[t]])]
        BY <1>2 DEF SinkLog
    <2> QED BY <1>2, <2>1 DEF RecordOK
<1> QED BY <1>1, <1>2

LEMMA CallsGrow ==
    ASSUME LocksInv, NEW t \in Threads, Calling(t) \/ Locking(t) \/ Running(t), NEW u \in Threads
    PROVE  calls[u] \in Nat /\ calls'[u] \in Nat /\ calls[u] <= calls'[u]
<1> USE DEF LocksInv, TypeOK
<1>0. calls \in [Threads -> 0..MaxCalls]
    BY DEF ThreadsOK
<1>1. CASE Calling(t)
    BY <1>0, <1>1 DEF Calling, Log, SetLevel, Dump, Flush, Enable, Disable, Call
<1>2. CASE Locking(t)
    BY <1>0, <1>2 DEF Locking, LockSink, ReadEmpty, Trace, LockTracer
<1>3. CASE Running(t)
    BY <1>0, <1>3 DEF Running, ReadEnabled, StartFlush, SinkItReturns, SinkLog, SinkFlush
<1> QED BY <1>1, <1>2, <1>3

-----------------------------------------------------------------------------
(* Messages are numbered.                                                  *)

LEMMA NextBegun == LocksInv /\ BegunInv /\ Next => BegunInv'
<1> SUFFICES ASSUME LocksInv, BegunInv, NEW t \in Threads, Calling(t) \/ Locking(t) \/ Running(t)
             PROVE  BegunInv'
    BY DEF Next
<1> DEFINE Later(m) == m.n <= calls'[m.by]
<1>0. ThreadsOK /\ ThreadsOK' /\ LocksOK /\ LocksOK' /\ RecordOK /\ RecordOK'
    BY NextThreads, NextLocksOK, NextRecordOK DEF Next, LocksInv, TypeOK
<1>1. \A m \in Message : Begun(m) => Later(m)
    <2> TAKE m \in Message
    <2>1. calls[m.by] \in Nat /\ calls'[m.by] \in Nat /\ calls[m.by] <= calls'[m.by]
        BY LevelOfMessage, CallsGrow
    <2> QED BY <2>1, LevelOfMessage DEF Begun
<1> HIDE DEF Later
<1>2. \A i \in DOMAIN tracer'.q : Later(tracer'.q[i])
    <2>1. tracer.q \in Seq(Message) /\ tracer'.q \in Seq(Message) /\ cur[t] \in Message
        BY <1>0 DEF LocksOK, ThreadsOK
    <2>2. \A i \in DOMAIN tracer.q : Later(tracer.q[i]) /\ Later(cur[t])
        BY <1>1, <2>1 DEF BegunInv
    <2>3. CASE tracer'.q = tracer.q \/ tracer'.q = <<>>
        BY <2>2, <2>3
    <2>4. CASE SinkItReturns(t) /\ op[t] = "dump" /\ tracer'.q = Tail(tracer.q)
        <3>1. tracer.q # <<>>
            BY <2>4 DEF SinkItReturns, LocksInv, TracerInv, Passing
        <3>2. \A i \in DOMAIN tracer'.q : i + 1 \in DOMAIN tracer.q /\ tracer'.q[i] = tracer.q[i + 1]
            BY <2>1, <2>4, <3>1
        <3> QED BY <2>2, <3>2
    <2>5. CASE tracer'.q = PushBack(tracer.q, cur[t])
        <3>1. ASSUME NEW i \in DOMAIN tracer'.q
              PROVE  tracer'.q[i] = cur[t] \/ \E j \in DOMAIN tracer.q : tracer'.q[i] = tracer.q[j]
            <4>1. CASE Len(tracer.q) < QSize
                BY <2>1, <2>5, <4>1 DEF PushBack
            <4>2. CASE ~(Len(tracer.q) < QSize)
                <5>1. Tail(tracer.q) \in Seq(Message) /\ Len(Tail(tracer.q)) = Len(tracer.q) - 1
                      /\ \A j \in DOMAIN Tail(tracer.q) : j + 1 \in DOMAIN tracer.q /\ Tail(tracer.q)[j] = tracer.q[j + 1]
                    BY <2>1, <4>2
                <5>2. tracer'.q = Append(Tail(tracer.q), cur[t])
                    BY <2>5, <4>2 DEF PushBack
                <5>3. i \in DOMAIN Tail(tracer.q) \/ tracer'.q[i] = cur[t]
                    BY <2>1, <5>1, <5>2
                <5>4. i \in DOMAIN Tail(tracer.q) => tracer'.q[i] = Tail(tracer.q)[i]
                    BY <2>1, <5>1, <5>2
                <5> QED BY <5>1, <5>3, <5>4
            <4> QED BY <4>1, <4>2
        <3>2. Later(cur[t])
            BY <1>1, <2>1 DEF BegunInv
        <3> QED BY <2>2, <3>1, <3>2
    <2> QED BY <2>3, <2>4, <2>5, QueueMoves
<1>3. \A u \in Threads : Later(cur'[u])
    <2> TAKE u \in Threads
    <2>1. cur[u] \in Message /\ Begun(cur[u])
        BY <1>0 DEF ThreadsOK, BegunInv
    <2>2. CASE cur'[u] = cur[u]
        BY <1>1, <2>1, <2>2 DEF Begun
    <2>3. CASE u = t
        <3>1. CASE cur'[t] = Line(t)
            BY <2>3, <3>1, CallsGrow DEF Later, Line
        <3>2. CASE cur'[t].by = t /\ cur'[t].n = calls'[t]
            BY <2>3, <3>2, CallsGrow DEF Later
        <3>3. CASE tracer'.q # <<>> /\ cur'[t] = tracer'.q[1]
            <4>1. 1 \in DOMAIN tracer'.q
                BY <1>0, <3>3 DEF LocksOK
            <4> QED BY <1>2, <2>3, <3>3, <4>1 DEF Begun
        <3> QED BY <2>2, <2>3, <3>1, <3>2, <3>3, CurMoves
    <2> QED BY <2>2, <2>3, Others
<1>4. \A s \in Sinks : \A p \in DOMAIN got'[s] : Later(got'[s][p].m)
    <2> TAKE s \in Sinks
    <2>1. \A p \in DOMAIN got[s] : Later(got[s][p].m)
        <3>1. \A p \in DOMAIN got[s] : got[s][p].m \in Message
            BY <1>0, EntryOf DEF Entry
        <3>2. \A p \in DOMAIN got[s] : Begun(got[s][p].m)
            BY DEF BegunInv
        <3> QED BY <1>1, <3>1, <3>2
    <2>2. CASE got' = got
        BY <2>1, <2>2
    <2>3. ASSUME NEW o \in Outcomes, SinkLog(t, o)
          PROVE  \A p \in DOMAIN got'[s] : Later(got'[s][p].m)
        <3>1. Later(cur[t])
            BY <1>0, <1>1 DEF ThreadsOK, BegunInv
        <3>2. \A p \in DOMAIN got'[s] : \/ p \in DOMAIN got[s] /\ got'[s][p] = got[s][p]
                                      \/ got'[s][p].m = cur[t]
            <4>1. CASE o = "ok" /\ s = at[t]
                <5>1. /\ DOMAIN got[s] = 1..Len(got[s]) /\ Len(got[s]) \in Nat
                      /\ DOMAIN got'[s] = 1..Len(got[s]) + 1
                      /\ got'[s][Len(got[s]) + 1] = [m |-> cur[t], op |-> op[t]]
                    BY <2>3, <4>1, GotMoves
                <5>2. \A p \in DOMAIN got[s] : got'[s][p] = got[s][p]
                    BY <2>3, GotMoves
                <5>3. \A p \in DOMAIN got'[s] : p \in DOMAIN got[s] \/ p = Len(got[s]) + 1
                    BY <5>1
                <5> QED BY <5>1, <5>2, <5>3
            <4>2. CASE ~(o = "ok" /\ s = at[t])
                <5>1. got'[s] = got[s]
                    BY <1>0, <2>3, <4>2, GotStays
                <5> QED BY <5>1
            <4> QED BY <4>1, <4>2
        <3> QED BY <2>1, <3>1, <3>2
    <2> QED BY <2>2, <2>3, RecordMoves DEF SinkFlush
<1>5. \A f \in failed' : Later(f.m)
    <2>1. \A f \in failed : Later(f.m)
        <3>1. \A f \in failed : f.m \in Message
            BY <1>0 DEF RecordOK
        <3> QED BY <1>1, <3>1 DEF BegunInv
    <2>2. Later(cur[t])
        BY <1>0, <1>1 DEF ThreadsOK, BegunInv
    <2>3. \A f \in failed' : f \in failed \/ f.m = cur[t]
        <3>1. CASE UNCHANGED failed
            BY <3>1
        <3>2. ASSUME NEW o \in Outcomes, SinkLog(t, o) \/ SinkFlush(t, o)
              PROVE  \A f \in failed' : f \in failed \/ f.m = cur[t]
            <4>1. \A in, how : Failure(t, in, how).m = cur[t]
                BY DEF Failure
            <4> QED BY <3>2, <4>1 DEF SinkLog, SinkFlush
        <3> QED BY <3>1, <3>2, RecordMoves
    <2> QED BY <2>1, <2>2, <2>3
<1>6. \A m \in done' : Later(m)
    <2>1. done' \subseteq done \cup {cur[t]}
        <3>1. CASE Calling(t)
            BY <3>1 DEF Calling, Log, SetLevel, Dump, Flush, Enable, Disable, record
        <3>2. CASE Locking(t)
            BY <3>2 DEF Locking, LockSink, ReadEmpty, Trace, LockTracer, record
        <3>3. CASE Running(t)
            BY <3>3 DEF Running, ReadEnabled, StartFlush, SinkItReturns, SinkLog, SinkFlush, record
        <3> QED BY <3>1, <3>2, <3>3
    <2>2. \A m \in done \cup {cur[t]} : m \in Message /\ Begun(m)
        BY <1>0 DEF ThreadsOK, RecordOK, BegunInv
    <2> QED BY <1>1, <2>1, <2>2
<1> QED BY <1>2, <1>3, <1>4, <1>5, <1>6 DEF BegunInv, Begun, Later

-----------------------------------------------------------------------------
(* What the sinks have of a message.                                       *)

\* Only the std::exception of a log call counts, at its sink.
LEMMA ThrewMoves ==
    ASSUME LocksInv, NEW t \in Threads, NEW o \in Outcomes, NEW where \in {"write", "flush"},
           failed' = IF o = "ok" THEN failed ELSE failed \cup {Failure(t, where, o)},
           NEW m, NEW s, NEW in
    PROVE  ThrewAt(failed', m, s, in)
               <=> \/ ThrewAt(failed, m, s, in)
                   \/ o = "std" /\ m = cur[t] /\ s = at[t] /\ op[t] = "log" /\ in = where
<1>1. Failure(t, where, o).m = cur[t] /\ Failure(t, where, o).sink = at[t]
      /\ Failure(t, where, o).op = op[t] /\ Failure(t, where, o).in = where
      /\ Failure(t, where, o).how = o
    BY DEF Failure
<1>2. CASE o = "ok"
    BY <1>2
<1>3. CASE o # "ok"
    BY <1>1, <1>3 DEF ThrewAt
<1> QED BY <1>2, <1>3

\* A step of a thread that is not writing or flushing m for its log call.
LEMMA Keeps ==
    ASSUME LocksInv, NEW t \in Threads, Calling(t) \/ Locking(t) \/ Running(t),
           NEW m \in Message, NEW s \in Sinks, ~(Locked(t) /\ op[t] = "log" /\ cur[t] = m)
    PROVE  /\ Once(got[s], m) => Once(got'[s], m)
           /\ Never(got[s], m) => Never(got'[s], m)
           /\ \A in : ThrewAt(failed', m, s, in) <=> ThrewAt(failed, m, s, in)
           /\ Covered(got[s], flushed[s], failed, m, s)
                  => Covered(got'[s], flushed'[s], failed', m, s)
<1>1. CASE UNCHANGED <<got, flushed, failed>>
    BY <1>1
<1>2. ASSUME NEW o \in Outcomes, SinkLog(t, o)
      PROVE  /\ Once(got[s], m) => Once(got'[s], m)
             /\ Never(got[s], m) => Never(got'[s], m)
             /\ \A in : ThrewAt(failed', m, s, in) <=> ThrewAt(failed, m, s, in)
             /\ Covered(got[s], flushed[s], failed, m, s)
                    => Covered(got'[s], flushed'[s], failed', m, s)
    <2>1. ~(op[t] = "log" /\ cur[t] = m) /\ [m |-> cur[t], op |-> op[t]] # Logged(m)
        BY <1>2 DEF SinkLog, Locked, Logged
    <2>2. \A in : ThrewAt(failed', m, s, in) <=> ThrewAt(failed, m, s, in)
        <3>1. failed' = IF o = "ok" THEN failed ELSE failed \cup {Failure(t, "write", o)}
            BY <1>2 DEF SinkLog
        <3> QED BY <2>1, <3>1, ThrewMoves
    <2>3. \A p \in DOMAIN got[s] : p \in DOMAIN got'[s] /\ got'[s][p] = got[s][p]
        BY <1>2, GotMoves
    <2>4. \A p \in DOMAIN got'[s] : p \in DOMAIN got[s] \/ got'[s][p] # Logged(m)
        <3>1. CASE o = "ok" /\ s = at[t]
            <4>1. /\ DOMAIN got[s] = 1..Len(got[s]) /\ Len(got[s]) \in Nat
                  /\ DOMAIN got'[s] = 1..Len(got[s]) + 1
                  /\ got'[s][Len(got[s]) + 1] = [m |-> cur[t], op |-> op[t]]
                BY <1>2, <3>1, GotMoves
            <4>2. \A p \in DOMAIN got'[s] : p \in DOMAIN got[s] \/ p = Len(got[s]) + 1
                BY <4>1
            <4> QED BY <2>1, <4>1, <4>2
        <3>2. CASE ~(o = "ok" /\ s = at[t])
            <4>1. got'[s] = got[s]
                BY <1>2, <3>2, GotStays DEF LocksInv, TypeOK
            <4> QED BY <4>1
        <3> QED BY <3>1, <3>2
    <2>5. flushed' = flushed
        BY <1>2 DEF SinkLog
    <2>6. Once(got[s], m) => Once(got'[s], m)
        BY <2>3, <2>4 DEF Once
    <2>7. Never(got[s], m) => Never(got'[s], m)
        BY <2>3, <2>4 DEF Never
    <2>8. Covered(got[s], flushed[s], failed, m, s) => Covered(got'[s], flushed'[s], failed', m, s)
        BY <2>2, <2>3, <2>4, <2>5 DEF Covered
    <2> QED BY <2>2, <2>6, <2>7, <2>8
<1>3. ASSUME NEW o \in Outcomes, SinkFlush(t, o)
      PROVE  /\ got' = got
             /\ \A in : ThrewAt(failed', m, s, in) <=> ThrewAt(failed, m, s, in)
             /\ Covered(got[s], flushed[s], failed, m, s)
                    => Covered(got'[s], flushed'[s], failed', m, s)
    <2>1. ~(op[t] = "log" /\ cur[t] = m) /\ got' = got
        BY <1>3 DEF SinkFlush, Locked
    <2>2. \A in : ThrewAt(failed', m, s, in) <=> ThrewAt(failed, m, s, in)
        <3>1. failed' = IF o = "ok" THEN failed ELSE failed \cup {Failure(t, "flush", o)}
            BY <1>3 DEF SinkFlush
        <3> QED BY <2>1, <3>1, ThrewMoves
    <2>3. \A p \in DOMAIN got[s] : p \in Nat /\ (p <= flushed[s] => p <= flushed'[s])
        <3>1. got[s] \in Seq(Entry)
            BY EntryOf DEF LocksInv, TypeOK
        <3>2. flushed \in [Sinks -> Nat] /\ flushed[s] <= Len(got[s])
            BY DEF LocksInv, TypeOK, RecordOK
        <3>3. flushed'[s] = flushed[s] \/ flushed'[s] = Len(got[s])
            BY <1>3, <3>2 DEF SinkFlush
        <3> QED BY <3>1, <3>2, <3>3
    <2> QED BY <2>1, <2>2, <2>3 DEF Covered
<1> QED BY <1>1, <1>2, <1>3, RecordMoves

\* Only a log call that returns is recorded.
LEMMA DoneMoves ==
    ASSUME LocksInv, LogInv, NEW t \in Threads, Calling(t) \/ Locking(t) \/ Running(t)
    PROVE  \/ done' = done
           \/ /\ done' = done \cup {cur[t]} /\ InLog(t) /\ UNCHANGED <<got, flushed, failed>>
              /\ Trace(t) \/ (SinkItReturns(t) /\ op[t] = "log")
<1>1. CASE Calling(t)
    BY <1>1 DEF Calling, Log, SetLevel, Dump, Flush, Enable, Disable, record
<1>2. CASE Trace(t)
    BY <1>2 DEF Trace, InLog, LogInv
<1>3. CASE LockSink(t) \/ ReadEmpty(t) \/ LockTracer(t)
    BY <1>3 DEF LockSink, ReadEmpty, LockTracer, record
<1>4. CASE SinkItReturns(t)
    BY <1>4 DEF SinkItReturns, InLog
<1>5. CASE ReadEnabled(t) \/ StartFlush(t)
    BY <1>5 DEF ReadEnabled, StartFlush, record
<1>6. ASSUME NEW o \in Outcomes, SinkLog(t, o) \/ SinkFlush(t, o) PROVE done' = done
    BY <1>6 DEF SinkLog, SinkFlush
<1> QED BY <1>1, <1>2, <1>3, <1>4, <1>5, <1>6 DEF Locking, Running

-----------------------------------------------------------------------------
(* The log call under way.                                                 *)

\* The parts of the invariants a step of thread t meets.
LEMMA LogsNow ==
    ASSUME LogsInv
    PROVE  /\ TypeOK /\ ThreadsOK /\ LocksOK /\ RecordOK /\ MutexInv /\ TracerInv /\ LocksInv
           /\ BegunInv /\ LogInv /\ DoneInv
    BY DEF LogsInv, LocksInv, TypeOK

\* Where a log call is after a step of its thread, and where it was before.
LEMMA LogMoves ==
    ASSUME LogsInv, NEW t \in Threads, Calling(t) \/ Locking(t) \/ Running(t), InLog(t)'
    PROVE  \/ \E lvl \in CallLevels : Log(t, lvl)
           \/ LockSink(t) /\ InLog(t)
           \/ \E o \in Outcomes \ {"unknown"} : (SinkLog(t, o) \/ SinkFlush(t, o)) /\ InLog(t)
           \/ ReadEnabled(t) /\ InLog(t) /\ cur[t].on /\ ToSinks(t, "log", cur[t])
           \/ ReadEnabled(t) /\ InLog(t) /\ ~cur[t].on /\ pc'[t] = "trace" /\ UNCHANGED <<op, cur, at>>
           \/ StartFlush(t) /\ InLog(t)
           \/ SinkItReturns(t) /\ InLog(t) /\ pc'[t] = "trace" /\ UNCHANGED <<op, cur, at, done>>
<1> /\ TypeOK /\ ThreadsOK /\ LocksOK /\ RecordOK /\ MutexInv /\ TracerInv /\ LocksInv
    /\ BegunInv /\ LogInv /\ DoneInv
    BY LogsNow
<1>1. op'[t] = "log" /\ pc'[t] \in {"enabled", "sink", "write", "flush", "flushing", "trace"}
    BY DEF InLog
<1>2. CASE \E lvl \in CallLevels : SetLevel(t, lvl)
    BY <1>1, <1>2 DEF SetLevel, Call, thread
<1>3. CASE Enable(t) \/ Disable(t)
    BY <1>1, <1>3 DEF Enable, Disable, Call, thread
<1>4. CASE Dump(t)
    BY <1>1, <1>4 DEF Dump, Goto, ThreadsOK
<1>5. CASE Flush(t)
    BY <1>1, <1>5 DEF Flush, ThreadsOK
<1>6. CASE LockSink(t)
    BY <1>1, <1>6 DEF LockSink, InLog
<1>7. CASE ReadEmpty(t)
    BY <1>1, <1>7 DEF ReadEmpty, ToSinks, Goto, ThreadsOK
<1>8. CASE Trace(t)
    BY <1>1, <1>8 DEF Trace, Goto, ThreadsOK
<1>9. ASSUME NEW q, Drain(t, q) PROVE FALSE
    BY <1>1, <1>9 DEF Drain, ToSinks, ThreadsOK
<1>10. CASE LockTracer(t)
    BY <1>9, <1>10 DEF LockTracer
<1>11. ASSUME NEW o \in Outcomes, SinkLog(t, o) \/ SinkFlush(t, o)
       PROVE  o # "unknown" /\ InLog(t)
    <2>1. op[t] = "log" /\ Locked(t)
        BY <1>1, <1>11 DEF SinkLog, SinkFlush, Locked
    <2>2. o # "unknown"
        BY <1>1, <1>11 DEF SinkLog, SinkFlush, Unwind, Goto, ThreadsOK
    <2> QED BY <2>1, <2>2 DEF InLog, Locked
<1>12. CASE ReadEnabled(t)
    <2>1. InLog(t)
        BY <1>12 DEF ReadEnabled, InLog, LogInv
    <2>2. CASE cur[t].on
        BY <1>1, <1>12, <2>1, <2>2 DEF ReadEnabled, Goto, ThreadsOK
    <2>3. CASE ~cur[t].on
        BY <1>1, <1>12, <2>1, <2>3 DEF ReadEnabled, Goto, ThreadsOK
    <2> QED BY <2>2, <2>3
<1>13. CASE StartFlush(t)
    BY <1>1, <1>13 DEF StartFlush, InLog
<1>14. CASE SinkItReturns(t)
    <2>1. op[t] = "log"
        BY <1>1, <1>9, <1>14 DEF SinkItReturns, Goto, ThreadsOK
    <2>2. Goto(t, IF traceOn[t] THEN "trace" ELSE "idle") /\ UNCHANGED <<op, cur, at>>
          /\ (traceOn[t] => done' = done)
        BY <1>14, <2>1 DEF SinkItReturns
    <2>3. pc'[t] = "trace" /\ traceOn[t]
        BY <1>1, <2>2 DEF Goto, ThreadsOK
    <2> QED BY <1>14, <2>1, <2>2, <2>3 DEF SinkItReturns, InLog
<1> QED
    BY <1>2, <1>3, <1>4, <1>5, <1>6, <1>7, <1>8, <1>10, <1>11, <1>12, <1>13, <1>14
       DEF Calling, Locking, Running

LEMMA NextLogOwn ==
    ASSUME LogsInv, NEW t \in Threads, Calling(t) \/ Locking(t) \/ Running(t),
           NEW u \in Threads, InLog(u)'
    PROVE  LogOwn(u)'
<1> /\ TypeOK /\ ThreadsOK /\ LocksOK /\ RecordOK /\ MutexInv /\ TracerInv /\ LocksInv
    /\ BegunInv /\ LogInv /\ DoneInv
    BY LogsNow
<1>1. CASE u # t
    <2>1. /\ InLog(u) /\ pc'[u] = pc[u] /\ cur'[u] = cur[u] /\ at'[u] = at[u] /\ calls'[u] = calls[u]
        BY <1>1, Others DEF InLog
    <2>2. LogOwn(u)
        BY <2>1 DEF LogInv
    <2>3. cur[u] \notin done'
        BY <1>1, <2>2, DoneMoves DEF LogInv, LogOwn
    <2> QED BY <2>1, <2>2, <2>3 DEF LogOwn, Passing
<1>2. CASE u = t
    <2>1. ASSUME NEW lvl \in CallLevels, Log(t, lvl) PROVE LogOwn(t)'
        <3>1. /\ pc'[t] = "enabled" /\ cur'[t].by = t /\ cur'[t].n = calls'[t] /\ done' = done
              /\ calls'[t] = calls[t] + 1
            BY <2>1 DEF Log, Call, Goto, ThreadsOK, record
        <3>2. cur'[t] \notin done
            <4>1. SUFFICES ASSUME cur'[t] \in done PROVE FALSE
                OBVIOUS
            <4>2. Begun(cur'[t])
                BY <4>1 DEF BegunInv
            <4>3. calls[t] \in Nat
                BY DEF ThreadsOK
            <4> QED BY <3>1, <4>2, <4>3 DEF Begun
        <3> QED BY <3>1, <3>2 DEF LogOwn, Passing
    <2>2. CASE InLog(t) /\ ~(\E lvl \in CallLevels : Log(t, lvl))
        <3>1. LogOwn(t)
            BY <2>2 DEF LogInv
        <3>2. cur'[t] = cur[t] /\ calls'[t] = calls[t]
            BY <1>2, <2>2, LogMoves DEF LockSink, SinkLog, SinkFlush, ReadEnabled, ToSinks, StartFlush, SinkItReturns,
                                 ThreadsOK
        <3>3. done' = done
            BY <1>2, <2>2, LogMoves DEF LockSink, SinkLog, SinkFlush, ReadEnabled, StartFlush, record
        <3>4. Passing(t)' => cur[t].on
            BY <1>2, <2>2, <3>1, LogMoves DEF LockSink, SinkLog, SinkFlush, StartFlush, Passing, LogOwn
        <3>5. pc'[t] \in {"sink", "write"} => at'[t] = NSinks + 1 \/ cur[t].lvl >= SinkLevel[at'[t]]
            <4>1. cur[t].lvl \in Lvls
                BY LevelOfMessage DEF ThreadsOK
            <4>2. CASE LockSink(t)
                BY <3>1, <4>2 DEF LockSink, Goto, LogOwn, ThreadsOK
            <4>3. ASSUME NEW o \in Outcomes, SinkLog(t, o), o # "unknown"
                  PROVE  at'[t] = NSinks + 1 \/ cur[t].lvl >= SinkLevel[at'[t]]
                <5>1. at[t] \in Sinks
                    BY <4>3 DEF SinkLog, MutexInv, Locked
                <5>2. at[t] + 1 \in 1..NSinks + 1
                    BY <5>1 DEF Sinks
                <5>3. at'[t] = NextSink(at[t] + 1, cur[t].lvl)
                    BY <4>3 DEF SinkLog, AfterFailure, ThreadsOK
                <5> QED BY <4>1, <5>2, <5>3, NextSinkIs
            <4>4. CASE ToSinks(t, "log", cur[t])
                <5>1. at'[t] = NextSink(1, cur[t].lvl) /\ 1 \in 1..NSinks + 1
                    BY <4>4 DEF ToSinks, ThreadsOK
                <5> QED BY <4>1, <5>1, NextSinkIs
            <4>5. ASSUME NEW o \in Outcomes, SinkFlush(t, o), o # "unknown"
                  PROVE  pc'[t] = "flush"
                BY <4>5 DEF SinkFlush, ThreadsOK
            <4>6. CASE StartFlush(t)
                BY <4>6 DEF StartFlush, ThreadsOK
            <4> QED BY <1>2, <2>2, <4>2, <4>3, <4>4, <4>5, <4>6, LogMoves
        <3>6. LogOwn(t)'
            BY <3>1, <3>2, <3>3, <3>4, <3>5 DEF LogOwn
        <3> QED BY <1>2, <3>6
    <2> QED BY <1>2, <2>1, <2>2, LogMoves
<1> QED BY <1>1, <1>2

\* The loop passes a sink: its turn is over, or its level did not let the message through.
LEMMA NextLogAt ==
    ASSUME LogsInv, NEW t \in Threads, Calling(t) \/ Locking(t) \/ Running(t),
           NEW u \in Threads, InLog(u)', NEW s \in Sinks
    PROVE  LogAt(u, s)'
<1> /\ TypeOK /\ ThreadsOK /\ LocksOK /\ RecordOK /\ MutexInv /\ TracerInv /\ LocksInv
    /\ BegunInv /\ LogInv /\ DoneInv
    BY LogsNow
<1>0. /\ at[t] \in Nat /\ s \in Nat /\ s <= NSinks /\ cur[t] \in Message /\ cur[u] \in Message
      /\ cur[t].lvl \in Lvls /\ SinkLevel[s] \in Lvls /\ NSinks \in Nat
    BY LevelOfMessage DEF ThreadsOK, Sinks
<1>1. CASE u # t
    <2>1. /\ InLog(u) /\ pc'[u] = pc[u] /\ cur'[u] = cur[u] /\ at'[u] = at[u]
        BY <1>1, Others DEF InLog
    <2>2. LogAt(u, s) /\ cur[u].by = u
        BY <2>1 DEF LogInv, LogOwn
    <2>3. ~(Locked(t) /\ op[t] = "log" /\ cur[t] = cur[u])
        BY <1>1, <2>2 DEF LogInv, LogOwn, InLog, Locked
    <2>4. /\ Once(got[s], cur[u]) => Once(got'[s], cur[u])
          /\ Never(got[s], cur[u]) => Never(got'[s], cur[u])
          /\ \A in : ThrewAt(failed', cur[u], s, in) <=> ThrewAt(failed, cur[u], s, in)
          /\ Covered(got[s], flushed[s], failed, cur[u], s)
                 => Covered(got'[s], flushed'[s], failed', cur[u], s)
        BY <1>0, <2>3, Keeps
    <2>5. LogPast(u, s)'
        BY <2>1, <2>2, <2>4 DEF LogAt, LogPast, Past
    <2>6. LogAhead(u, s)'
        BY <2>1, <2>2, <2>4 DEF LogAt, LogAhead, Past
    <2>7. LogCovered(u, s)'
        BY <2>1, <2>2, <2>4 DEF LogAt, LogCovered
    <2> QED BY <2>5, <2>6, <2>7 DEF LogAt
\* The call begins: nothing is known of its message.
<1>2. ASSUME NEW lvl \in CallLevels, Log(t, lvl), u = t PROVE LogAt(u, s)'
    <2>1. /\ pc'[t] = "enabled" /\ cur'[t].by = t /\ cur'[t].n = calls[t] + 1
          /\ got' = got /\ failed' = failed /\ calls[t] \in Nat
        BY <1>2 DEF Log, Call, Goto, ThreadsOK, record
    <2>2. Never(got[s], cur'[t])
        <3>1. SUFFICES ASSUME NEW p \in DOMAIN got[s], got[s][p] = Logged(cur'[t]) PROVE FALSE
            BY DEF Never
        <3>2. Begun(cur'[t])
            BY <3>1 DEF BegunInv, Logged
        <3> QED BY <2>1, <3>2 DEF Begun
    <2>3. \A in : ~ThrewAt(failed, cur'[t], s, in)
        <3>1. SUFFICES ASSUME NEW f \in failed, f.m = cur'[t] PROVE FALSE
            BY DEF ThrewAt
        <3>2. Begun(cur'[t])
            BY <3>1 DEF BegunInv
        <3> QED BY <2>1, <3>2 DEF Begun
    <2> QED BY <1>2, <2>1, <2>2, <2>3 DEF LogAt, LogPast, LogAhead, LogCovered, Past
\* The others go on with it.
<1>3. CASE u = t /\ InLog(t) /\ ~\E lvl \in CallLevels : Log(t, lvl)
    <2>1. LogAt(t, s) /\ LogOwn(t)
        BY <1>3 DEF LogInv
    <2>2. cur'[t] = cur[t]
        BY <1>3, LogMoves DEF LockSink, SinkLog, SinkFlush, ReadEnabled, ToSinks, StartFlush, SinkItReturns, ThreadsOK
    <2>3. CASE LockSink(t)
        <3>1. /\ at' = at /\ got' = got /\ failed' = failed /\ flushed' = flushed
              /\ pc[t] = "sink" => pc'[t] = "write"
              /\ pc[t] = "flush" => pc'[t] = "flushing"
              /\ pc[t] \in {"sink", "flush"}
            BY <2>3 DEF LockSink, Goto, ThreadsOK, record
        <3>2. LogPast(t, s)' /\ LogAhead(t, s)'
            BY <2>1, <2>2, <3>1 DEF LogAt, LogPast, LogAhead, Past
        <3>3. LogCovered(t, s)'
            BY <2>1, <2>2, <3>1 DEF LogAt, LogCovered
        <3> QED BY <1>3, <3>2, <3>3 DEF LogAt
    <2>4. ASSUME NEW o \in Outcomes \ {"unknown"}, SinkLog(t, o) PROVE LogAt(u, s)'
        <3>1. /\ pc[t] = "write" /\ pc'[t] = "sink" /\ op[t] = "log" /\ cur[t].on
              /\ at[t] \in Sinks /\ at'[t] = NextSink(at[t] + 1, cur[t].lvl)
              /\ failed' = IF o = "ok" THEN failed ELSE failed \cup {Failure(t, "write", o)}
            <4>1. pc[t] = "write" /\ pc'[t] = "sink" /\ at'[t] = NextSink(at[t] + 1, cur[t].lvl)
                BY <2>4 DEF SinkLog, AfterFailure, ThreadsOK
            <4>2. op[t] = "log" /\ cur[t].on /\ at[t] \in Sinks
                BY <1>3, <2>1, <4>1 DEF LogOwn, Passing, MutexInv, Locked, InLog
            <4> QED BY <2>4, <4>1, <4>2 DEF SinkLog
        <3>2. at[t] + 1 \in 1..NSinks + 1
            BY <3>1 DEF Sinks
        <3>3. /\ at'[t] \in Nat /\ at[t] < at'[t]
              /\ \A r \in Sinks : at[t] + 1 <= r /\ r < at'[t] => ~(cur[t].lvl >= SinkLevel[r])
            <4>1. NextSink(at[t] + 1, cur[t].lvl) \in (at[t] + 1)..(NSinks + 1)
                  /\ \A r \in Sinks : at[t] + 1 <= r /\ r < NextSink(at[t] + 1, cur[t].lvl) => cur[t].lvl < SinkLevel[r]
                BY <1>0, <3>2, NextSinkIs
            <4>2. NextSink(at[t] + 1, cur[t].lvl) \in Nat /\ at[t] < NextSink(at[t] + 1, cur[t].lvl)
                BY <1>0, <4>1
            <4> QED BY <1>0, <3>1, <4>1, <4>2, LevelsCompare
        <3>4. \A in : ThrewAt(failed', cur[t], s, in)
                  <=> ThrewAt(failed, cur[t], s, in) \/ (o = "std" /\ s = at[t] /\ in = "write")
            <4> TAKE in
            <4>1. failed' = IF o = "ok" THEN failed ELSE failed \cup {Failure(t, "write", o)}
                BY <3>1
            <4>2. ThrewAt(failed', cur[t], s, in)
                  <=> ThrewAt(failed, cur[t], s, in)
                      \/ (o = "std" /\ cur[t] = cur[t] /\ s = at[t] /\ op[t] = "log" /\ in = "write")
                BY <4>1, ThrewMoves
            <4> QED BY <3>1, <4>2
        <3>5. Past(t, s)' <=> s < at'[t]
            BY <3>1 DEF Past
        <3>6. Past(t, s) <=> s < at[t]
            BY <3>1 DEF Past
        <3>7. LogAhead(t, s)'
            <4>1. ~Past(t, s)' => ~Past(t, s) /\ s # at[t]
                BY <1>0, <3>3, <3>5, <3>6
            <4> QED BY <2>1, <2>2, <3>4, <4>1 DEF LogAt, LogAhead
        <3>8. LogCovered(t, s)'
            BY <3>1 DEF LogCovered
        <3>9. LogPast(t, s)'
            <4>1. CASE s # at[t]
                <5>1. got'[s] = got[s]
                    BY <2>4, <4>1 DEF SinkLog, RecordOK
                <5>2. Past(t, s)' /\ Wanted(cur[t], s) <=> Past(t, s) /\ Wanted(cur[t], s)
                    BY <1>0, <3>3, <3>5, <3>6, <4>1 DEF Wanted
                <5>3. ThrewAt(failed', cur[t], s, "write") <=> ThrewAt(failed, cur[t], s, "write")
                    BY <3>4, <4>1
                <5> QED BY <2>1, <2>2, <5>1, <5>2, <5>3 DEF LogAt, LogPast
            <4>2. CASE s = at[t]
                <5>1. Never(got[s], cur[t]) /\ ~ThrewAt(failed, cur[t], s, "write")
                    BY <1>0, <2>1, <3>6, <4>2 DEF LogAt, LogPast, LogAhead
                <5>2. Past(t, s)' /\ Wanted(cur[t], s)
                    <6>1. cur[t].lvl >= SinkLevel[at[t]]
                        BY <1>0, <2>1, <3>1, <4>2 DEF LogOwn
                    <6> QED BY <3>1, <3>3, <3>5, <4>2, <6>1 DEF Wanted
                <5>3. CASE o = "ok"
                    <6>1. ~ThrewAt(failed', cur[t], s, "write")
                        BY <3>4, <5>1, <5>3
                    <6>2. /\ DOMAIN got[s] = 1..Len(got[s]) /\ Len(got[s]) \in Nat
                          /\ DOMAIN got'[s] = 1..Len(got[s]) + 1
                          /\ got'[s][Len(got[s]) + 1] = [m |-> cur[t], op |-> op[t]]
                          /\ \A p \in DOMAIN got[s] : got'[s][p] = got[s][p]
                        BY <2>4, <4>2, <5>3, GotMoves
                    <6>3. Once(got'[s], cur[t])
                        <7>1. /\ Len(got[s]) + 1 \in DOMAIN got'[s]
                              /\ \A r \in DOMAIN got'[s] : r = Len(got[s]) + 1 \/ r \in DOMAIN got[s]
                              /\ Len(got[s]) + 1 \notin DOMAIN got[s]
                            BY <6>2
                        <7>2. got'[s][Len(got[s]) + 1] = Logged(cur[t])
                            BY <3>1, <6>2 DEF Logged
                        <7>3. \A r \in DOMAIN got[s] : got'[s][r] # Logged(cur[t])
                            BY <5>1, <6>2 DEF Never
                        <7> QED BY <7>1, <7>2, <7>3 DEF Once
                    <6> QED BY <2>2, <5>2, <6>1, <6>3 DEF LogPast
                <5>4. CASE o = "std"
                    <6>1. ThrewAt(failed', cur[t], s, "write")
                        BY <3>4, <4>2, <5>4
                    <6>2. got'[s] = got[s]
                        BY <2>4, <5>4 DEF SinkLog
                    <6> QED BY <2>2, <5>1, <6>1, <6>2 DEF LogPast
                <5> QED BY <5>3, <5>4, OutcomesAssumption
            <4> QED BY <4>1, <4>2
        <3> QED BY <1>3, <3>7, <3>8, <3>9 DEF LogAt
    <2>5. ASSUME NEW o \in Outcomes \ {"unknown"}, SinkFlush(t, o) PROVE LogAt(u, s)'
        <3>1. /\ pc[t] = "flushing" /\ pc'[t] = "flush" /\ got' = got
              /\ at[t] \in Sinks /\ at'[t] = at[t] + 1 /\ op[t] = "log"
              /\ failed' = IF o = "ok" THEN failed ELSE failed \cup {Failure(t, "flush", o)}
              /\ flushed' = IF o = "ok" THEN [flushed EXCEPT ![at[t]] = Len(got[at[t]])] ELSE flushed
            <4>1. at[t] \in Sinks
                BY <2>5 DEF SinkFlush, MutexInv, Locked
            <4> QED BY <1>3, <2>5, <4>1 DEF SinkFlush, ThreadsOK, InLog
        <3>2. \A in : ThrewAt(failed', cur[t], s, in)
                  <=> ThrewAt(failed, cur[t], s, in) \/ (o = "std" /\ s = at[t] /\ in = "flush")
            <4> TAKE in
            <4>1. failed' = IF o = "ok" THEN failed ELSE failed \cup {Failure(t, "flush", o)}
                BY <3>1
            <4>2. ThrewAt(failed', cur[t], s, in)
                  <=> ThrewAt(failed, cur[t], s, in)
                      \/ (o = "std" /\ cur[t] = cur[t] /\ s = at[t] /\ op[t] = "log" /\ in = "flush")
                BY <4>1, ThrewMoves
            <4> QED BY <3>1, <4>2
        <3>3. LogPast(t, s)' /\ LogAhead(t, s)'
            BY <2>1, <2>2, <3>1, <3>2 DEF LogAt, LogPast, LogAhead, Past
        <3>4. LogCovered(t, s)'
            <4>1. SUFFICES ASSUME ShouldFlush(cur[t].lvl), s < at[t] + 1
                           PROVE  Covered(got[s], flushed'[s], failed', cur[t], s)
                BY <2>2, <3>1 DEF LogCovered
            <4>2. flushed \in [Sinks -> Nat]
                BY DEF RecordOK
            <4>3. CASE s # at[t]
                <5>1. Covered(got[s], flushed[s], failed, cur[t], s)
                    BY <1>0, <2>1, <3>1, <4>1, <4>3 DEF LogAt, LogCovered
                <5>2. flushed'[s] = flushed[s]
                    BY <3>1, <4>2, <4>3
                <5> QED BY <3>2, <5>1, <5>2 DEF Covered
            <4>4. CASE s = at[t] /\ o = "ok"
                <5>1. flushed'[s] = Len(got[s])
                    BY <3>1, <4>2, <4>4
                <5>2. \A p \in DOMAIN got[s] : p <= Len(got[s])
                    BY EntryOf
                <5> QED BY <5>1, <5>2 DEF Covered
            <4>5. CASE s = at[t] /\ o = "std"
                BY <3>2, <4>5 DEF Covered
            <4> QED BY <4>3, <4>4, <4>5, OutcomesAssumption
        <3> QED BY <1>3, <3>3, <3>4 DEF LogAt
    <2>6. CASE ReadEnabled(t) /\ cur[t].on /\ ToSinks(t, "log", cur[t])
        <3>1. /\ pc[t] = "enabled" /\ pc'[t] = "sink" /\ at'[t] = NextSink(1, cur[t].lvl)
              /\ got' = got /\ failed' = failed
            BY <2>6 DEF ReadEnabled, ToSinks, ThreadsOK, record
        <3>2. at'[t] \in Nat /\ \A r \in Sinks : r < at'[t] => ~(cur[t].lvl >= SinkLevel[r])
            <4>1. 1 \in 1..NSinks + 1
                BY <1>0
            <4>2. NextSink(1, cur[t].lvl) \in 1..NSinks + 1
                  /\ \A r \in Sinks : 1 <= r /\ r < NextSink(1, cur[t].lvl) => cur[t].lvl < SinkLevel[r]
                BY <1>0, <4>1, NextSinkIs
            <4>3. NextSink(1, cur[t].lvl) \in Nat /\ \A r \in Sinks : 1 <= r
                BY <4>2 DEF Sinks
            <4> QED BY <1>0, <3>1, <4>2, <4>3, LevelsCompare
        <3>3. Never(got[s], cur[t]) /\ ~ThrewAt(failed, cur[t], s, "write")
            BY <2>1, <3>1 DEF LogAt, LogPast, LogAhead, Past
        <3>4. Past(t, s)' <=> s < at'[t]
            BY <3>1 DEF Past
        <3>5. LogPast(t, s)' /\ LogAhead(t, s)'
            BY <2>2, <3>1, <3>2, <3>3, <3>4 DEF LogPast, LogAhead, Wanted
        <3>6. LogCovered(t, s)'
            BY <3>1 DEF LogCovered
        <3> QED BY <1>3, <3>5, <3>6 DEF LogAt
    <2>7. CASE ReadEnabled(t) /\ ~cur[t].on /\ pc'[t] = "trace" /\ UNCHANGED <<op, cur, at>>
        <3>1. pc[t] = "enabled" /\ got' = got /\ failed' = failed /\ flushed' = flushed
            BY <2>7 DEF ReadEnabled, record
        <3>2. Never(got[s], cur[t]) /\ ~Wanted(cur[t], s)
            BY <2>1, <2>7, <3>1 DEF LogAt, LogPast, Past, Wanted
        <3>3. LogPast(t, s)' /\ LogAhead(t, s)'
            BY <2>2, <2>7, <3>1, <3>2 DEF LogPast, LogAhead, Past
        <3>4. LogCovered(t, s)'
            BY <2>2, <3>1, <3>2 DEF LogCovered, Covered, Never
        <3> QED BY <1>3, <3>3, <3>4 DEF LogAt
    <2>8. CASE StartFlush(t)
        <3>1. /\ pc[t] = "sink" /\ at[t] = NSinks + 1 /\ pc'[t] = "flush" /\ at'[t] = 1
              /\ got' = got /\ failed' = failed
            BY <2>8 DEF StartFlush, ThreadsOK, record
        <3>2. Past(t, s)
            BY <1>0, <3>1 DEF Past
        <3>3. LogPast(t, s)' /\ LogAhead(t, s)'
            BY <2>1, <2>2, <3>1, <3>2 DEF LogAt, LogPast, LogAhead, Past
        <3>4. LogCovered(t, s)'
            BY <3>1 DEF LogCovered, Sinks
        <3> QED BY <1>3, <3>3, <3>4 DEF LogAt
    <2>9. CASE SinkItReturns(t) /\ pc'[t] = "trace"
        <3>1. /\ at[t] = NSinks + 1 /\ got' = got /\ failed' = failed /\ flushed' = flushed
              /\ pc[t] = "flush" \/ (pc[t] = "sink" /\ ~ShouldFlush(cur[t].lvl))
            BY <2>9 DEF SinkItReturns
        <3>2. Past(t, s)
            BY <1>0, <3>1 DEF Past
        <3>3. LogPast(t, s)' /\ LogAhead(t, s)'
            BY <2>1, <2>2, <2>9, <3>1, <3>2 DEF LogAt, LogPast, LogAhead, Past
        <3>4. LogCovered(t, s)'
            BY <1>0, <2>1, <2>2, <2>9, <3>1 DEF LogAt, LogCovered
        <3> QED BY <1>3, <3>3, <3>4 DEF LogAt
    <2> QED BY <1>3, <2>3, <2>4, <2>5, <2>6, <2>7, <2>8, <2>9, LogMoves
<1> QED BY <1>1, <1>2, <1>3, LogMoves

LEMMA NextLog == LogsInv /\ Next => LogInv'
<1> SUFFICES ASSUME LogsInv, NEW t \in Threads, Calling(t) \/ Locking(t) \/ Running(t)
             PROVE  LogInv'
    BY DEF Next
<1> /\ TypeOK /\ ThreadsOK /\ LocksOK /\ RecordOK /\ MutexInv /\ TracerInv /\ LocksInv
    /\ BegunInv /\ LogInv /\ DoneInv
    BY LogsNow
<1>1. ASSUME NEW u \in Threads, pc'[u] \in {"enabled", "trace"} PROVE op'[u] = "log"
    <2>1. CASE u # t
        BY <1>1, <2>1, Others DEF LogInv
    <2>2. CASE u = t
        <3>1. CASE Calling(t)
            BY <1>1, <2>2, <3>1 DEF Calling, Log, SetLevel, Dump, Flush, Enable, Disable, Call, Goto,
                                    thread, ThreadsOK
        <3>2. CASE Locking(t)
            BY <1>1, <2>2, <3>2 DEF Locking, LockSink, ReadEmpty, Trace, LockTracer, Drain, ToSinks,
                                    Goto, ThreadsOK
        <3>3. CASE ReadEnabled(t)
            BY <1>1, <2>2, <3>3 DEF ReadEnabled, ToSinks, Goto, LogInv, ThreadsOK
        <3>4. CASE StartFlush(t)
            BY <1>1, <2>2, <3>4 DEF StartFlush, ThreadsOK
        <3>5. CASE SinkItReturns(t)
            BY <1>1, <2>2, <3>5 DEF SinkItReturns, Drain, ToSinks, Goto, ThreadsOK
        <3>6. ASSUME NEW o \in Outcomes, SinkLog(t, o) \/ SinkFlush(t, o) PROVE FALSE
            BY <1>1, <2>2, <3>6 DEF SinkLog, SinkFlush, Unwind, Goto, ThreadsOK
        <3> QED BY <3>1, <3>2, <3>3, <3>4, <3>5, <3>6 DEF Running
    <2> QED BY <2>1, <2>2
<1>2. \A u \in Threads : InLog(u)' => LogOwn(u)'
    BY NextLogOwn
<1>3. \A u \in Threads, s \in Sinks : InLog(u)' => LogAt(u, s)'
    BY NextLogAt
<1> QED BY <1>1, <1>2, <1>3 DEF LogInv

\* When the call returns, its loop has passed every sink.
LEMMA NextDone == LogsInv /\ Next => DoneInv'
<1> SUFFICES ASSUME LogsInv, NEW t \in Threads, Calling(t) \/ Locking(t) \/ Running(t),
                    NEW m \in done', NEW s \in Sinks
             PROVE  /\ IF Wanted(m, s) /\ ~ThrewAt(failed', m, s, "write")
                       THEN Once(got'[s], m) ELSE Never(got'[s], m)
                    /\ ShouldFlush(m.lvl) => Covered(got'[s], flushed'[s], failed', m, s)
    BY DEF Next, DoneInv
<1> /\ TypeOK /\ ThreadsOK /\ LocksOK /\ RecordOK /\ MutexInv /\ TracerInv /\ LocksInv
    /\ BegunInv /\ LogInv /\ DoneInv
    BY LogsNow
<1>1. CASE m \in done
    <2>1. m \in Message
        BY <1>1 DEF RecordOK
    <2>2. ~(Locked(t) /\ op[t] = "log" /\ cur[t] = m)
        BY <1>1 DEF LogInv, LogOwn, InLog, Locked
    <2>3. /\ IF Wanted(m, s) /\ ~ThrewAt(failed, m, s, "write") THEN Once(got[s], m) ELSE Never(got[s], m)
          /\ ShouldFlush(m.lvl) => Covered(got[s], flushed[s], failed, m, s)
        BY <1>1 DEF DoneInv
    <2> QED BY <2>1, <2>2, <2>3, Keeps
<1>2. CASE m \notin done
    <2>1. /\ m = cur[t] /\ InLog(t) /\ got' = got /\ flushed' = flushed /\ failed' = failed
          /\ Trace(t) \/ (SinkItReturns(t) /\ op[t] = "log")
        BY <1>2, DoneMoves
    <2>2. LogAt(t, s)
        BY <2>1 DEF LogInv
    <2>3. s \in Nat /\ s < NSinks + 1
        BY DEF Sinks
    <2>4. CASE Trace(t)
        BY <2>1, <2>2, <2>4 DEF Trace, LogAt, LogPast, LogCovered, Past
    <2>5. CASE SinkItReturns(t)
        <3>1. at[t] = NSinks + 1 /\ (pc[t] = "flush" \/ (pc[t] = "sink" /\ ~ShouldFlush(cur[t].lvl)))
            BY <2>5 DEF SinkItReturns
        <3>2. Past(t, s)
            BY <2>3, <3>1 DEF Past
        <3>3. ShouldFlush(cur[t].lvl) => Covered(got[s], flushed[s], failed, cur[t], s)
            BY <2>2, <2>3, <3>1 DEF LogAt, LogCovered
        <3> QED BY <2>1, <2>2, <3>2, <3>3 DEF LogAt, LogPast
    <2> QED BY <2>1, <2>4, <2>5
<1> QED BY <1>1, <1>2

LEMMA InitLogs == Init => LogsInv
<1> SUFFICES ASSUME Init PROVE LogsInv
    OBVIOUS
<1>1. BegunInv
    BY DEF Init, BegunInv, Begun, Line
<1>2. LogInv
    BY DEF Init, LogInv, InLog
<1>3. DoneInv
    BY DEF Init, DoneInv
<1> QED BY <1>1, <1>2, <1>3, InitLocks DEF LogsInv

LEMMA LogsInductive == LogsInv /\ [Next]_vars => LogsInv'
<1> SUFFICES ASSUME LogsInv, [Next]_vars PROVE LogsInv'
    OBVIOUS
<1>1. CASE Next
    BY <1>1, LocksInductive, NextBegun, NextLog, NextDone DEF LogsInv
<1>2. CASE UNCHANGED vars
    <2>1. LocksInv'
        BY <1>2, LocksInductive DEF LogsInv
    <2>2. BegunInv' /\ DoneInv'
        BY <1>2 DEF vars, thread, record, LogsInv, BegunInv, Begun, DoneInv
    <2>3. LogInv'
        BY <1>2 DEF vars, thread, record, LogsInv, LogInv, InLog, LogOwn, LogAt, LogPast, LogAhead,
                    LogCovered, Past, Passing
    <2> QED BY <2>1, <2>2, <2>3 DEF LogsInv
<1> QED BY <1>1, <1>2

LEMMA LogsHold == Spec => []LogsInv
    BY InitLogs, LogsInductive, PTL DEF Spec

\* However many threads log and dump, and whatever the sinks throw: when a log call has
\* returned, each sink whose level lets the message through has written it exactly once,
\* or has itself thrown a std::exception; no other sink has it (logger-inl.h:178-190).
THEOREM DeliversToEachSink == Spec => []Delivered
<1>1. ASSUME LogsInv PROVE Delivered
    <2> SUFFICES ASSUME NEW m \in done, NEW s \in Sinks
                 PROVE  Times(m, "log", s)
                            = IF Wanted(m, s) /\ ~ThrewAt(failed, m, s, "write") THEN 1 ELSE 0
        BY DEF Delivered, Wanted, Threw, ThrewAt
    <2> DEFINE at_m == {p \in DOMAIN got[s] : got[s][p] = Logged(m)}
    <2>1. Times(m, "log", s) = Cardinality(at_m)
        BY DEF Times, Logged
    <2>2. Once(got[s], m) => Cardinality(at_m) = 1
        <3>1. ASSUME NEW p \in DOMAIN got[s], \A r \in DOMAIN got[s] : got[s][r] = Logged(m) <=> r = p
              PROVE  at_m = {p}
            BY <3>1
        <3> QED BY <3>1, FS_Singleton DEF Once
    <2>3. Never(got[s], m) => Cardinality(at_m) = 0
        BY FS_EmptySet DEF Never
    <2>4. IF Wanted(m, s) /\ ~ThrewAt(failed, m, s, "write") THEN Once(got[s], m) ELSE Never(got[s], m)
        BY <1>1 DEF LogsInv, DoneInv
    <2> QED BY <2>1, <2>2, <2>3, <2>4
<1> QED BY <1>1, LogsHold, PTL

\* A message at or above the flush level has been flushed by every sink that has it when
\* its log call returns, whatever other threads write in between (logger-inl.h:192-195).
THEOREM FlushesWhatItLogged == Spec => []FlushCovers
<1>1. ASSUME LogsInv PROVE FlushCovers
    <2> SUFFICES ASSUME NEW m \in done, NEW s \in Sinks, m.lvl >= FlushLevel, m.lvl # LevelOff,
                        NEW p \in DOMAIN got[s], got[s][p] = [m |-> m, op |-> "log"]
                 PROVE  p <= flushed[s] \/ Threw(m, s, "flush")
        BY DEF FlushCovers
    <2>1. Covered(got[s], flushed[s], failed, m, s)
        BY <1>1 DEF LogsInv, DoneInv, ShouldFlush
    <2> QED BY <2>1 DEF Covered, Logged, Threw, ThrewAt
<1> QED BY <1>1, LogsHold, PTL

-----------------------------------------------------------------------------
(* The backtrace.                                                          *)

LEMMA OrderNow ==
    ASSUME OrderInv
    PROVE  /\ LogsInv /\ FailedInv /\ QueueInv /\ DumpedInv /\ CountInv
           /\ ThreadsOK /\ LocksOK /\ RecordOK /\ MutexInv /\ TracerInv /\ LocksInv /\ BegunInv /\ LogInv
    BY DEF OrderInv, LogsInv, LocksInv, TypeOK

\* From idle a thread can only begin a call.
LEMMA IdleCalls ==
    ASSUME LocksInv, NEW t \in Threads, Calling(t) \/ Locking(t) \/ Running(t), pc[t] = "idle"
    PROVE  calls'[t] = calls[t] + 1
<1> USE DEF LocksInv, TypeOK
<1>1. CASE Calling(t)
    BY <1>1 DEF Calling, Log, SetLevel, Dump, Flush, Enable, Disable, Call, ThreadsOK
<1>2. CASE Locking(t)
    BY <1>2 DEF Locking, LockSink, ReadEmpty, Trace, LockTracer
<1>3. CASE Running(t)
    BY <1>3 DEF Running, ReadEnabled, StartFlush, SinkItReturns, SinkLog, SinkFlush
<1> QED BY <1>1, <1>2, <1>3

\* While a dump holds the tracer no other thread changes it.
LEMMA OwnerKeeps ==
    ASSUME LocksInv, NEW t \in Threads, Calling(t) \/ Locking(t) \/ Running(t),
           tracer.owner \in Threads, tracer.owner # t
    PROVE  UNCHANGED tracer
<1>0. tracer.owner # NoOne /\ ~(Passing(t) /\ op[t] = "dump")
    BY DEF LocksInv, TracerInv
<1>1. CASE Calling(t)
    BY <1>0, <1>1 DEF Calling, Log, SetLevel, Dump, Flush, Enable, Disable
<1>2. CASE Locking(t)
    BY <1>0, <1>2 DEF Locking, LockSink, ReadEmpty, Trace, LockTracer
<1>3. CASE ReadEnabled(t) \/ StartFlush(t) \/ SinkItReturns(t)
    BY <1>0, <1>3 DEF ReadEnabled, StartFlush, SinkItReturns, Passing
<1>4. ASSUME NEW o \in Outcomes, SinkLog(t, o) \/ SinkFlush(t, o) PROVE UNCHANGED tracer
    BY <1>0, <1>4 DEF SinkLog, SinkFlush, Unwind, Unwound
<1> QED BY <1>1, <1>2, <1>3, <1>4 DEF Running

\* The backtrace loses its oldest messages and may get the one its thread has logged.
LEMMA QueueShifts ==
    ASSUME LocksInv, NEW t \in Threads, Calling(t) \/ Locking(t) \/ Running(t)
    PROVE  \E d \in Nat : \A i \in DOMAIN tracer'.q :
               \/ i + d \in DOMAIN tracer.q /\ tracer'.q[i] = tracer.q[i + d]
               \/ Trace(t) /\ tracer'.q[i] = cur[t] /\ \A j \in DOMAIN tracer'.q : j <= i
<1> DEFINE Shift(d) == \A i \in DOMAIN tracer'.q :
               \/ i + d \in DOMAIN tracer.q /\ tracer'.q[i] = tracer.q[i + d]
               \/ Trace(t) /\ tracer'.q[i] = cur[t] /\ \A j \in DOMAIN tracer'.q : j <= i
<1>0. tracer.q \in Seq(Message) /\ tracer'.q \in Seq(Message) /\ cur[t] \in Message
    BY NextLocksOK DEF Next, LocksInv, TypeOK, LocksOK, ThreadsOK
<1>1. CASE tracer'.q = tracer.q
    <2>1. Shift(0)
        BY <1>0, <1>1
    <2> QED BY <2>1
<1>2. CASE tracer'.q = <<>>
    <2>1. Shift(0)
        BY <1>2
    <2> QED BY <2>1
<1>3. CASE SinkItReturns(t) /\ op[t] = "dump" /\ tracer'.q = Tail(tracer.q)
    <2>1. tracer.q # <<>>
        BY <1>3 DEF SinkItReturns, LocksInv, TracerInv, Passing
    <2>2. \A i \in DOMAIN tracer'.q : i + 1 \in DOMAIN tracer.q /\ tracer'.q[i] = tracer.q[i + 1]
        BY <1>0, <1>3, <2>1
    <2>3. Shift(1)
        BY <2>2
    <2> QED BY <2>3
<1>4. CASE Trace(t) /\ tracer'.q = PushBack(tracer.q, cur[t])
    <2>1. CASE Len(tracer.q) < QSize
        <3>1. tracer'.q = Append(tracer.q, cur[t])
            BY <1>4, <2>1 DEF PushBack
        <3>2. \A i \in DOMAIN tracer'.q :
                 \/ i + 0 \in DOMAIN tracer.q /\ tracer'.q[i] = tracer.q[i + 0]
                 \/ tracer'.q[i] = cur[t] /\ i = Len(tracer.q) + 1
            BY <1>0, <3>1
        <3>3. \A j \in DOMAIN tracer'.q : j <= Len(tracer.q) + 1
            BY <1>0, <3>1
        <3>4. Shift(0)
            BY <1>4, <3>2, <3>3
        <3> QED BY <3>4
    <2>2. CASE ~(Len(tracer.q) < QSize)
        <3> DEFINE r == Tail(tracer.q)
        <3>1. /\ r \in Seq(Message) /\ Len(r) \in Nat
              /\ \A i \in DOMAIN r : i + 1 \in DOMAIN tracer.q /\ r[i] = tracer.q[i + 1]
            BY <1>0, <2>2
        <3>2. tracer'.q = Append(r, cur[t])
            BY <1>4, <2>2 DEF PushBack
        <3>3. \A i \in DOMAIN tracer'.q :
                 \/ i \in DOMAIN r /\ tracer'.q[i] = r[i]
                 \/ tracer'.q[i] = cur[t] /\ i = Len(r) + 1
            <4> HIDE DEF r
            <4> QED BY <1>0, <3>1, <3>2
        <3>4. \A j \in DOMAIN tracer'.q : j <= Len(r) + 1
            <4> HIDE DEF r
            <4> QED BY <1>0, <3>1, <3>2
        <3>5. Shift(1)
            <4> HIDE DEF r
            <4> QED BY <1>4, <3>1, <3>3, <3>4
        <3> QED BY <3>5
    <2> QED BY <2>1, <2>2
<1> QED BY <1>1, <1>2, <1>3, <1>4, QueueMoves

LEMMA NextFailed == OrderInv /\ Next => FailedInv'
<1> SUFFICES ASSUME OrderInv, NEW t \in Threads, Calling(t) \/ Locking(t) \/ Running(t)
             PROVE  FailedInv'
    BY DEF Next
<1> /\ LogsInv /\ FailedInv /\ QueueInv /\ DumpedInv /\ CountInv
    /\ ThreadsOK /\ LocksOK /\ RecordOK /\ MutexInv /\ TracerInv /\ LocksInv /\ BegunInv /\ LogInv
    BY OrderNow
<1>1. CASE UNCHANGED failed
    <2>1. ASSUME NEW f \in failed
          PROVE  /\ f.call <= calls'[f.by]
                 /\ f.how = "unknown" /\ f.call = calls'[f.by] => pc'[f.by] = "idle"
        <3>1. /\ f.by \in Threads /\ f.call \in Nat
              /\ f.call <= calls[f.by] /\ (f.how = "unknown" /\ f.call = calls[f.by] => pc[f.by] = "idle")
            BY DEF RecordOK, FailedInv
        <3>2. calls[f.by] \in Nat /\ calls'[f.by] \in Nat /\ calls[f.by] <= calls'[f.by]
            BY <3>1, CallsGrow
        <3>3. CASE f.by = t
            BY <3>1, <3>2, <3>3, IdleCalls
        <3>4. CASE f.by # t
            BY <3>1, <3>2, <3>4, Others
        <3> QED BY <3>3, <3>4
    <2> QED BY <1>1, <2>1 DEF FailedInv
<1>2. ASSUME NEW o \in Outcomes, NEW in,
             (SinkLog(t, o) /\ in = "write") \/ (SinkFlush(t, o) /\ in = "flush")
      PROVE  FailedInv'
    <2>1. /\ failed' = IF o = "ok" THEN failed ELSE failed \cup {Failure(t, in, o)}
          /\ calls' = calls /\ pc[t] # "idle"
          /\ o = "unknown" => pc'[t] = "idle"
        BY <1>2 DEF SinkLog, SinkFlush, Unwind, Goto, ThreadsOK
    <2>2. IsFiniteSet(failed')
        BY <2>1, FS_AddElement DEF FailedInv
    <2>3. ASSUME NEW f \in failed
          PROVE  /\ f.call <= calls[f.by]
                 /\ f.how = "unknown" /\ f.call = calls[f.by] => pc'[f.by] = "idle"
        <3>1. /\ f.by \in Threads
              /\ f.call <= calls[f.by] /\ (f.how = "unknown" /\ f.call = calls[f.by] => pc[f.by] = "idle")
            BY DEF RecordOK, FailedInv
        <3>2. CASE f.by = t
            BY <2>1, <3>1, <3>2
        <3>3. CASE f.by # t
            BY <3>1, <3>3, Others
        <3> QED BY <3>2, <3>3
    <2>4. /\ Failure(t, in, o).call = calls[t] /\ Failure(t, in, o).by = t
          /\ Failure(t, in, o).how = o /\ calls[t] \in Nat
        BY DEF Failure, ThreadsOK
    <2>5. Failure(t, in, o).call <= calls[Failure(t, in, o).by]
        BY <2>4
    <2>6. ASSUME NEW f \in failed'
          PROVE  /\ f.call <= calls[f.by]
                 /\ f.how = "unknown" /\ f.call = calls[f.by] => pc'[f.by] = "idle"
        <3>1. f \in failed \/ f = Failure(t, in, o)
            BY <2>1
        <3>2. CASE f \in failed
            BY <2>3, <3>2
        <3>3. CASE f = Failure(t, in, o)
            BY <2>1, <2>4, <2>5, <3>3
        <3> QED BY <3>1, <3>2, <3>3
    <2> QED BY <2>1, <2>2, <2>6 DEF FailedInv
<1>3. ASSUME NEW o \in Outcomes, SinkLog(t, o) \/ SinkFlush(t, o) PROVE FailedInv'
    <2>1. CASE SinkLog(t, o)
        BY <1>2, <2>1
    <2>2. CASE SinkFlush(t, o)
        BY <1>2, <2>2
    <2> QED BY <1>3, <2>1, <2>2
<1> QED BY <1>1, <1>3, RecordMoves

\* Older, in the next state.
OlderNext(m) ==
    op'[m.by] = "log" /\ pc'[m.by] \in {"enabled", "sink", "write", "flush", "flushing", "trace"}
        => m.n < calls'[m.by]

\* What is older than a log call stays older, also when its thread begins another.
LEMMA OlderStays ==
    ASSUME LogsInv, NEW t \in Threads, Calling(t) \/ Locking(t) \/ Running(t),
           NEW m \in Message, Begun(m), Older(m)
    PROVE  OlderNext(m)
<1> /\ TypeOK /\ ThreadsOK /\ LocksOK /\ RecordOK /\ MutexInv /\ TracerInv /\ LocksInv
    /\ BegunInv /\ LogInv /\ DoneInv
    BY LogsNow
<1>1. CASE m.by # t
    <2>1. m.by \in Threads
        BY LevelOfMessage
    <2> QED BY <1>1, <2>1, Others DEF InLog, Older, OlderNext
<1>2. CASE m.by = t
    <2>1. m.n \in Nat /\ m.n <= calls[t] /\ calls[t] \in Nat /\ calls'[t] \in Nat /\ calls[t] <= calls'[t]
        BY <1>2, LevelOfMessage, CallsGrow DEF Begun
    <2>2. SUFFICES ASSUME InLog(t)' PROVE m.n < calls'[t]
        BY <1>2 DEF OlderNext, InLog
    <2>3. CASE InLog(t)
        BY <1>2, <2>1, <2>3 DEF Older
    <2>4. ASSUME NEW lvl \in CallLevels, Log(t, lvl) PROVE m.n < calls'[t]
        <3>1. calls'[t] = calls[t] + 1
            BY <2>4 DEF Log, Call, ThreadsOK
        <3> QED BY <2>1, <3>1
    <2> QED BY <2>2, <2>3, <2>4, LogMoves
<1> QED BY <1>1, <1>2

\* The message of a log call that goes to the backtrace is newer than all its thread's.
LEMMA TracedIsNew ==
    ASSUME LogsInv, NEW t \in Threads, Trace(t)
    PROVE  /\ cur[t] \in Message /\ cur[t].by = t
           /\ \A m \in Message : Older(m) => InOrder(m, cur[t]) /\ m # cur[t]
<1> /\ TypeOK /\ ThreadsOK /\ LocksOK /\ RecordOK /\ MutexInv /\ TracerInv /\ LocksInv
    /\ BegunInv /\ LogInv /\ DoneInv
    BY LogsNow
<1>1. InLog(t) /\ cur[t] \in Message
    BY DEF Trace, InLog, LogInv, ThreadsOK
<1>2. cur[t].by = t /\ cur[t].n = calls[t] /\ calls[t] \in Nat
    BY <1>1 DEF LogInv, LogOwn, ThreadsOK
<1>3. ASSUME NEW m \in Message, Older(m), m.by = t PROVE m.n < cur[t].n /\ m.n # cur[t].n
    BY <1>1, <1>2, <1>3, LevelOfMessage DEF Older
<1> QED BY <1>1, <1>2, <1>3 DEF InOrder

LEMMA NextQueue == OrderInv /\ Next => QueueInv'
<1> SUFFICES ASSUME OrderInv, NEW t \in Threads, Calling(t) \/ Locking(t) \/ Running(t)
             PROVE  QueueInv'
    BY DEF Next
<1> /\ LogsInv /\ FailedInv /\ QueueInv /\ DumpedInv /\ CountInv
    /\ ThreadsOK /\ LocksOK /\ RecordOK /\ MutexInv /\ TracerInv /\ LocksInv /\ BegunInv /\ LogInv
    BY OrderNow
<1>1. PICK d \in Nat : \A i \in DOMAIN tracer'.q :
               \/ i + d \in DOMAIN tracer.q /\ tracer'.q[i] = tracer.q[i + d]
               \/ Trace(t) /\ tracer'.q[i] = cur[t] /\ \A j \in DOMAIN tracer'.q : j <= i
    BY QueueShifts
<1>2. tracer.q \in Seq(Message) /\ \A k \in DOMAIN tracer.q : tracer.q[k] \in Message
    BY DEF LocksOK
<1>3. DOMAIN tracer'.q \subseteq Nat
    BY NextLocksOK DEF Next, LocksOK
<1>4. ASSUME NEW i \in DOMAIN tracer'.q
      PROVE  OlderNext(tracer'.q[i])
    <2>1. CASE i + d \in DOMAIN tracer.q /\ tracer'.q[i] = tracer.q[i + d]
        <3>1. PICK m \in Message : m = tracer'.q[i] /\ Begun(m) /\ Older(m)
            BY <1>2, <2>1 DEF BegunInv, QueueInv
        <3> QED BY <3>1, OlderStays
    <2>2. CASE Trace(t) /\ tracer'.q[i] = cur[t]
        <3>1. cur[t].by = t /\ pc'[t] = "idle"
            BY <2>2, TracedIsNew DEF Trace, Goto, ThreadsOK
        <3> QED BY <2>2, <3>1 DEF OlderNext
    <2> QED BY <1>1, <2>1, <2>2
<1>5. ASSUME NEW i \in DOMAIN tracer'.q, NEW j \in DOMAIN tracer'.q, i < j, tracer'.q[i].by = tracer'.q[j].by
      PROVE  tracer'.q[i].n < tracer'.q[j].n
    <2>1. i + d \in DOMAIN tracer.q /\ tracer'.q[i] = tracer.q[i + d]
        BY <1>1, <1>3, <1>5
    <2>2. CASE j + d \in DOMAIN tracer.q /\ tracer'.q[j] = tracer.q[j + d]
        <3>1. i + d < j + d
            BY <1>3, <1>5
        <3> QED BY <1>5, <2>1, <2>2, <3>1 DEF QueueInv
    <2>3. CASE Trace(t) /\ tracer'.q[j] = cur[t]
        <3>1. /\ tracer.q[i + d] \in Message /\ Older(tracer.q[i + d])
            BY <1>2, <2>1 DEF QueueInv
        <3>2. InOrder(tracer.q[i + d], cur[t]) /\ tracer.q[i + d] # cur[t]
            BY <2>3, <3>1, TracedIsNew
        <3> QED BY <1>5, <2>1, <2>3, <3>2 DEF InOrder
    <2> QED BY <1>1, <2>2, <2>3
<1> QED BY <1>4, <1>5 DEF QueueInv, Older, InLog, OlderNext

\* What a dump writes is the oldest message kept, after all of its thread dumped before.
LEMMA NextDumped == OrderInv /\ Next => DumpedInv'
<1> SUFFICES ASSUME OrderInv, NEW t \in Threads, Calling(t) \/ Locking(t) \/ Running(t),
                    NEW s \in Sinks, NEW p \in DOMAIN got'[s], got'[s][p].op = "dump"
             PROVE  /\ OlderNext(got'[s][p].m)
                    /\ \A i \in DOMAIN tracer'.q :
                          InOrder(got'[s][p].m, tracer'.q[i]) /\ (i # 1 => got'[s][p].m # tracer'.q[i])
                    /\ \A r \in DOMAIN got'[s] :
                          p < r /\ got'[s][r].op = "dump" => InOrder(got'[s][p].m, got'[s][r].m)
    BY DEF Next, DumpedInv, Older, OlderNext, InLog
<1> /\ LogsInv /\ FailedInv /\ QueueInv /\ DumpedInv /\ CountInv
    /\ ThreadsOK /\ LocksOK /\ RecordOK /\ MutexInv /\ TracerInv /\ LocksInv /\ BegunInv /\ LogInv
    BY OrderNow
<1>0. tracer.q \in Seq(Message) /\ \A k \in DOMAIN tracer.q : tracer.q[k] \in Message /\ k \in Nat
    BY DEF LocksOK
<1>00. DOMAIN tracer'.q \subseteq Nat \ {0}
    BY NextLocksOK DEF Next, LocksOK
\* The files stay: the backtrace may lose its oldest, and get a new message.
<1>1. CASE UNCHANGED got
    <2>1. PICK m \in Message : m = got[s][p].m /\ Begun(m) /\ Older(m)
        BY <1>1, EntryOf DEF Entry, BegunInv, DumpedInv
    <2>2. OlderNext(m)
        BY <2>1, OlderStays
    <2>3. PICK d \in Nat : \A i \in DOMAIN tracer'.q :
               \/ i + d \in DOMAIN tracer.q /\ tracer'.q[i] = tracer.q[i + d]
               \/ Trace(t) /\ tracer'.q[i] = cur[t] /\ \A j \in DOMAIN tracer'.q : j <= i
        BY QueueShifts
    <2>4. ASSUME NEW i \in DOMAIN tracer'.q
          PROVE  InOrder(m, tracer'.q[i]) /\ (i # 1 => m # tracer'.q[i])
        <3>1. CASE i + d \in DOMAIN tracer.q /\ tracer'.q[i] = tracer.q[i + d]
            <4>1. i # 1 => i + d # 1
                BY <1>00
            <4>2. InOrder(m, tracer.q[i + d]) /\ (i + d # 1 => m # tracer.q[i + d])
                BY <1>1, <2>1, <3>1 DEF DumpedInv
            <4> QED BY <3>1, <4>1, <4>2
        <3>2. CASE Trace(t) /\ tracer'.q[i] = cur[t]
            BY <2>1, <3>2, TracedIsNew
        <3> QED BY <2>3, <3>1, <3>2
    <2>5. ASSUME NEW r \in DOMAIN got[s], p < r, got[s][r].op = "dump"
          PROVE  InOrder(m, got[s][r].m)
        BY <1>1, <2>1, <2>5 DEF DumpedInv
    <2> QED BY <1>1, <2>1, <2>2, <2>4, <2>5
\* A sink writes: the backtrace stays.
<1>2. ASSUME NEW o \in Outcomes, SinkLog(t, o)
      PROVE  /\ OlderNext(got'[s][p].m)
             /\ \A i \in DOMAIN tracer'.q :
                   InOrder(got'[s][p].m, tracer'.q[i]) /\ (i # 1 => got'[s][p].m # tracer'.q[i])
             /\ \A r \in DOMAIN got'[s] :
                   p < r /\ got'[s][r].op = "dump" => InOrder(got'[s][p].m, got'[s][r].m)
    <2>1. tracer'.q = tracer.q
        BY <1>2, SinksKeepQueue
    <2>2. op[t] = "dump" => tracer.q # <<>> /\ 1 \in DOMAIN tracer.q /\ cur[t] = tracer.q[1]
        BY <1>0, <1>2 DEF SinkLog, TracerInv, Passing
    <2>3. /\ DOMAIN got[s] = 1..Len(got[s]) /\ Len(got[s]) \in Nat
          /\ \A r \in DOMAIN got[s] : r \in DOMAIN got'[s] /\ got'[s][r] = got[s][r]
        BY <1>2, GotMoves
    <2>4. \A r \in DOMAIN got'[s] :
             \/ r \in DOMAIN got[s]
             \/ r = Len(got[s]) + 1 /\ got'[s][r] = [m |-> cur[t], op |-> op[t]]
        <3>1. CASE o = "ok" /\ s = at[t]
            <4>1. DOMAIN got'[s] = 1..Len(got[s]) + 1 /\ got'[s][Len(got[s]) + 1] = [m |-> cur[t], op |-> op[t]]
                BY <1>2, <3>1, GotMoves
            <4> QED BY <2>3, <4>1
        <3>2. CASE ~(o = "ok" /\ s = at[t])
            <4>1. got'[s] = got[s]
                BY <1>2, <3>2, GotStays
            <4> QED BY <4>1
        <3> QED BY <3>1, <3>2
    <2>5. CASE p \in DOMAIN got[s]
        <3>1. PICK m \in Message : m = got[s][p].m /\ Begun(m) /\ Older(m) /\ got[s][p].op = "dump"
            BY <2>3, <2>5, EntryOf DEF Entry, BegunInv, DumpedInv
        <3>2. OlderNext(m)
            BY <3>1, OlderStays
        <3>3. \A i \in DOMAIN tracer.q : InOrder(m, tracer.q[i]) /\ (i # 1 => m # tracer.q[i])
            BY <2>5, <3>1 DEF DumpedInv
        <3>4. ASSUME NEW r \in DOMAIN got'[s], p < r, got'[s][r].op = "dump"
              PROVE  InOrder(m, got'[s][r].m)
            <4>1. CASE r \in DOMAIN got[s]
                BY <2>3, <2>5, <3>1, <3>4, <4>1 DEF DumpedInv
            <4>2. CASE got'[s][r] = [m |-> cur[t], op |-> op[t]]
                BY <2>2, <3>3, <3>4, <4>2
            <4> QED BY <2>4, <4>1, <4>2
        <3> QED BY <2>1, <2>3, <2>5, <3>1, <3>2, <3>3, <3>4
    <2>6. CASE p = Len(got[s]) + 1 /\ got'[s][p] = [m |-> cur[t], op |-> op[t]]
        <3>1. /\ tracer.q # <<>> /\ 1 \in DOMAIN tracer.q /\ cur[t] = tracer.q[1]
              /\ got'[s][p].m = cur[t]
            BY <2>2, <2>6
        <3>2. PICK m \in Message : m = tracer.q[1] /\ Begun(m) /\ Older(m)
            BY <1>0, <3>1 DEF BegunInv, QueueInv
        <3>3. OlderNext(m)
            BY <3>2, OlderStays
        <3>4. ASSUME NEW i \in DOMAIN tracer.q
              PROVE  InOrder(m, tracer.q[i]) /\ (i # 1 => m # tracer.q[i])
            <4>1. CASE i = 1
                BY <3>2, <4>1 DEF InOrder
            <4>2. CASE i # 1
                <5>1. 1 < i
                    BY <1>0, <4>2
                <5>2. m.by = tracer.q[i].by => m.n < tracer.q[i].n
                    BY <3>1, <3>2, <5>1 DEF QueueInv
                <5>3. tracer.q[i].n \in Nat
                    BY <1>0, LevelOfMessage
                <5> QED BY <5>2, <5>3 DEF InOrder
            <4> QED BY <4>1, <4>2
        <3>5. \A r \in DOMAIN got'[s] : ~(p < r)
            BY <2>3, <2>4, <2>6
        <3> QED BY <2>1, <3>1, <3>2, <3>3, <3>4, <3>5
    <2> QED BY <2>4, <2>5, <2>6
<1> QED BY <1>1, <1>2, RecordMoves DEF SinkFlush

-----------------------------------------------------------------------------
(* How often a message is dumped.                                          *)

LEMMA CountsAreNumbers ==
    ASSUME RecordOK, IsFiniteSet(failed), NEW m, NEW s \in Sinks
    PROVE  /\ IsFiniteSet(Dumps(got[s], m)) /\ Cardinality(Dumps(got[s], m)) \in Nat
           /\ IsFiniteSet(Escapes(failed, m)) /\ Cardinality(Escapes(failed, m)) \in Nat
<1>1. IsFiniteSet(Dumps(got[s], m))
    <2>1. Dumps(got[s], m) \subseteq 1..Len(got[s]) /\ Len(got[s]) \in Nat
        BY EntryOf DEF Dumps
    <2>2. IsFiniteSet(1..Len(got[s]))
        BY <2>1, FS_Interval
    <2> QED BY <2>1, <2>2, FS_Subset
<1>2. IsFiniteSet(Escapes(failed, m))
    BY FS_Subset DEF Escapes
<1> QED BY <1>1, <1>2, FS_CardinalityType

\* A sink adds one to the count of the message it writes for a dump.
LEMMA DumpsMove ==
    ASSUME OrderInv, NEW t \in Threads, NEW o \in Outcomes, SinkLog(t, o), NEW m, NEW s \in Sinks
    PROVE  Cardinality(Dumps(got'[s], m))
               = Cardinality(Dumps(got[s], m))
                 + IF o = "ok" /\ s = at[t] /\ op[t] = "dump" /\ m = cur[t] THEN 1 ELSE 0
<1> /\ LogsInv /\ FailedInv /\ QueueInv /\ DumpedInv /\ CountInv
    /\ ThreadsOK /\ LocksOK /\ RecordOK /\ MutexInv /\ TracerInv /\ LocksInv /\ BegunInv /\ LogInv
    BY OrderNow
<1>1. /\ DOMAIN got[s] = 1..Len(got[s]) /\ Len(got[s]) \in Nat
      /\ \A r \in DOMAIN got[s] : r \in DOMAIN got'[s] /\ got'[s][r] = got[s][r]
    BY GotMoves
<1>2. IsFiniteSet(Dumps(got[s], m)) /\ Cardinality(Dumps(got[s], m)) \in Nat
    BY CountsAreNumbers DEF FailedInv
<1>3. CASE o = "ok" /\ s = at[t]
    <2>1. DOMAIN got'[s] = 1..Len(got[s]) + 1 /\ got'[s][Len(got[s]) + 1] = [m |-> cur[t], op |-> op[t]]
        BY <1>3, GotMoves
    <2>2. /\ Len(got[s]) + 1 \in DOMAIN got'[s] /\ Len(got[s]) + 1 \notin DOMAIN got[s]
          /\ \A r \in DOMAIN got'[s] : r \in DOMAIN got[s] \/ r = Len(got[s]) + 1
        BY <1>1, <2>1
    <2>3. CASE op[t] = "dump" /\ m = cur[t]
        <3>1. Dumps(got'[s], m) = Dumps(got[s], m) \cup {Len(got[s]) + 1}
              /\ Len(got[s]) + 1 \notin Dumps(got[s], m)
            BY <1>1, <2>1, <2>2, <2>3 DEF Dumps
        <3>2. Cardinality(Dumps(got'[s], m)) = Cardinality(Dumps(got[s], m)) + 1
            BY <1>2, <3>1, FS_AddElement
        <3> QED BY <1>3, <2>3, <3>2
    <2>4. CASE ~(op[t] = "dump" /\ m = cur[t])
        <3>1. Dumps(got'[s], m) = Dumps(got[s], m)
            BY <1>1, <2>1, <2>2, <2>4 DEF Dumps
        <3> QED BY <1>2, <2>4, <3>1
    <2> QED BY <2>3, <2>4
<1>4. CASE ~(o = "ok" /\ s = at[t])
    <2>1. got'[s] = got[s]
        BY <1>4, GotStays
    <2> QED BY <1>2, <1>4, <2>1
<1> QED BY <1>3, <1>4

\* An exception that leaves a dump adds one to the escapes of its message.
LEMMA EscapesMove ==
    ASSUME OrderInv, NEW t \in Threads, NEW o \in Outcomes, SinkLog(t, o) \/ SinkFlush(t, o), NEW m
    PROVE  Cardinality(Escapes(failed', m))
               = Cardinality(Escapes(failed, m))
                 + IF o = "unknown" /\ op[t] = "dump" /\ m = cur[t] THEN 1 ELSE 0
<1> /\ LogsInv /\ FailedInv /\ QueueInv /\ DumpedInv /\ CountInv
    /\ ThreadsOK /\ LocksOK /\ RecordOK /\ MutexInv /\ TracerInv /\ LocksInv /\ BegunInv /\ LogInv
    BY OrderNow
<1>1. PICK in : failed' = IF o = "ok" THEN failed ELSE failed \cup {Failure(t, in, o)}
    BY DEF SinkLog, SinkFlush
<1>2. IsFiniteSet(Escapes(failed, m)) /\ Cardinality(Escapes(failed, m)) \in Nat
    BY FS_Subset, FS_CardinalityType DEF Escapes, FailedInv
<1>3. /\ Failure(t, in, o).m = cur[t] /\ Failure(t, in, o).op = op[t] /\ Failure(t, in, o).how = o
      /\ Failure(t, in, o).by = t /\ Failure(t, in, o).call = calls[t]
    BY DEF Failure
<1>4. CASE o = "unknown" /\ op[t] = "dump" /\ m = cur[t]
    <2>1. Failure(t, in, o) \notin failed
        <3>1. pc[t] # "idle"
            BY DEF SinkLog, SinkFlush
        <3> QED BY <1>3, <1>4, <3>1 DEF FailedInv
    <2>2. Escapes(failed', m) = Escapes(failed, m) \cup {Failure(t, in, o)}
          /\ Failure(t, in, o) \notin Escapes(failed, m)
        BY <1>1, <1>3, <1>4, <2>1 DEF Escapes
    <2>3. Cardinality(Escapes(failed', m)) = Cardinality(Escapes(failed, m)) + 1
        BY <1>2, <2>2, FS_AddElement
    <2> QED BY <1>4, <2>3
<1>5. CASE ~(o = "unknown" /\ op[t] = "dump" /\ m = cur[t])
    <2>1. Escapes(failed', m) = Escapes(failed, m)
        BY <1>1, <1>3, <1>5 DEF Escapes
    <2> QED BY <1>2, <1>5, <2>1
<1> QED BY <1>4, <1>5

\* A message that is not the oldest one kept has not been dumped.
LEMMA NotYetDumped ==
    ASSUME RecordOK, NEW m, NEW s \in Sinks,
           \A p \in DOMAIN got[s] : got[s][p].op = "dump" => got[s][p].m # m
    PROVE  Cardinality(Dumps(got[s], m)) = 0
<1>1. Dumps(got[s], m) = {}
    BY DEF Dumps
<1> QED BY <1>1, FS_EmptySet

\* The loop goes on after a sink, also when it threw a std::exception: it has passed it.
LEMMA GoesOn ==
    ASSUME LocksInv, NEW t \in Threads, NEW o \in Outcomes, SinkLog(t, o) \/ SinkFlush(t, o), o # "unknown",
           NEW s \in Sinks, Past(t, s) \/ s = at[t]
    PROVE  Past(t, s)'
<1> USE DEF LocksInv, TypeOK
<1>1. CASE SinkFlush(t, o)
    BY <1>1 DEF SinkFlush, Past, ThreadsOK
<1>2. CASE SinkLog(t, o)
    <2>1. /\ pc[t] = "write" /\ pc'[t] = "sink" /\ at'[t] = NextSink(at[t] + 1, cur[t].lvl)
          /\ at[t] \in Sinks /\ cur[t].lvl \in Lvls
        BY <1>2, LevelOfMessage DEF SinkLog, AfterFailure, MutexInv, Locked, ThreadsOK
    <2>2. at[t] + 1 \in 1..NSinks + 1
        BY <2>1 DEF Sinks
    <2>3. NextSink(at[t] + 1, cur[t].lvl) \in (at[t] + 1)..(NSinks + 1)
        BY <2>1, <2>2, NextSinkIs
    <2>4. s <= at[t] /\ s \in Nat /\ at[t] \in Nat
        BY <2>1 DEF Past, Sinks
    <2>5. s < at'[t]
        BY <2>1, <2>3, <2>4
    <2> QED BY <2>1, <2>5 DEF Past
<1> QED BY <1>1, <1>2

LEMMA NextCount == OrderInv /\ Next => CountInv'
<1> SUFFICES ASSUME OrderInv, NEW t \in Threads, Calling(t) \/ Locking(t) \/ Running(t), NEW s \in Sinks
             PROVE  /\ \A m \in Message :
                          Cardinality(Dumps(got'[s], m)) <= Cardinality(Escapes(failed', m)) + 1
                    /\ tracer'.q # <<>> /\ ~Dumping(s)' =>
                          Cardinality(Dumps(got'[s], tracer'.q[1])) <= Cardinality(Escapes(failed', tracer'.q[1]))
    BY DEF Next, CountInv
<1> /\ LogsInv /\ FailedInv /\ QueueInv /\ DumpedInv /\ CountInv
    /\ ThreadsOK /\ LocksOK /\ RecordOK /\ MutexInv /\ TracerInv /\ LocksInv /\ BegunInv /\ LogInv
    BY OrderNow
<1>0. \A m : Cardinality(Dumps(got[s], m)) \in Nat /\ Cardinality(Escapes(failed, m)) \in Nat
    BY CountsAreNumbers DEF FailedInv
<1>1. tracer.q \in Seq(Message) /\ (tracer.q # <<>> => 1 \in DOMAIN tracer.q /\ tracer.q[1] \in Message)
    BY DEF LocksOK
\* Another thread's step leaves a dump where it is.
<1>2. ASSUME tracer.owner \in Threads, tracer.owner # t PROVE UNCHANGED tracer /\ (Dumping(s)' <=> Dumping(s))
    <2>1. UNCHANGED tracer
        BY <1>2, OwnerKeeps
    <2>2. pc'[tracer.owner] = pc[tracer.owner] /\ at'[tracer.owner] = at[tracer.owner]
        BY <1>2, Others
    <2> QED BY <2>1, <2>2 DEF Dumping, Past
\* The sinks are left alone: the oldest one kept stays, or it is one not dumped yet.
<1>3. CASE UNCHANGED <<got, flushed, failed>>
    <2>1. \A m \in Message : Cardinality(Dumps(got'[s], m)) <= Cardinality(Escapes(failed', m)) + 1
        BY <1>3 DEF CountInv
    <2>2. SUFFICES ASSUME tracer'.q # <<>>, ~Dumping(s)'
                   PROVE  Cardinality(Dumps(got[s], tracer'.q[1])) <= Cardinality(Escapes(failed, tracer'.q[1]))
        BY <1>3, <2>1
    <2>3. 1 \in DOMAIN tracer'.q
        BY <2>2, NextLocksOK DEF Next, LocksOK
    <2>4. CASE Trace(t) /\ tracer'.q[1] = cur[t]
        <3>1. ASSUME NEW p \in DOMAIN got[s], got[s][p].op = "dump" PROVE got[s][p].m # cur[t]
            <4>1. got[s][p].m \in Message /\ Older(got[s][p].m)
                BY <3>1, EntryOf DEF Entry, DumpedInv
            <4> QED BY <2>4, <4>1, TracedIsNew
        <3>2. Cardinality(Dumps(got[s], cur[t])) = 0
            BY <3>1, NotYetDumped
        <3> QED BY <1>0, <2>4, <3>2
    <2>5. ASSUME NEW i \in DOMAIN tracer.q, i # 1, tracer'.q[1] = tracer.q[i]
          PROVE  Cardinality(Dumps(got[s], tracer'.q[1])) <= Cardinality(Escapes(failed, tracer'.q[1]))
        <3>1. Cardinality(Dumps(got[s], tracer.q[i])) = 0
            BY <2>5, NotYetDumped DEF DumpedInv
        <3> QED BY <1>0, <2>5, <3>1
    <2>6. CASE SinkItReturns(t) /\ op[t] = "dump"
        <3>1. tracer.q # <<>>
            BY <2>6 DEF SinkItReturns, TracerInv, Passing
        <3>2. tracer'.q = Tail(tracer.q)
            BY <2>6 DEF SinkItReturns, Drain, Popped, LocksOK
        <3>3. 2 \in DOMAIN tracer.q /\ tracer'.q[1] = tracer.q[2]
            BY <1>1, <2>3, <3>1, <3>2
        <3> QED BY <2>5, <3>3
    <2>7. CASE tracer.q # <<>> /\ tracer'.q[1] = tracer.q[1] /\ ~(SinkItReturns(t) /\ op[t] = "dump")
        <3>1. ~Dumping(s)
            <4>1. SUFFICES ASSUME Dumping(s), tracer.owner = t PROVE FALSE
                BY <1>2, <2>2 DEF Dumping
            <4>2. Passing(t) /\ op[t] = "dump" /\ Past(t, s)
                BY <4>1 DEF Dumping, TracerInv
            <4>3. LockSink(t) \/ StartFlush(t)
                <5>1. ~Calling(t)
                    BY <4>2 DEF Calling, Log, SetLevel, Dump, Flush, Enable, Disable, Call, Passing
                <5>2. ~(ReadEmpty(t) \/ Trace(t) \/ LockTracer(t) \/ ReadEnabled(t))
                    BY <4>2 DEF ReadEmpty, Trace, LockTracer, ReadEnabled, Passing
                <5>3. ASSUME NEW o \in Outcomes, SinkLog(t, o) \/ SinkFlush(t, o)
                      PROVE  LockSink(t) \/ StartFlush(t)
                    <6>1. mutex[at[t]] = t /\ at[t] \in Sinks /\ mutex'[at[t]] = NoOne
                        BY <5>3 DEF SinkLog, SinkFlush, MutexInv, Locked, LocksOK
                    <6>2. CASE o = "unknown"
                        <7>1. ASSUME NEW m PROVE Cardinality(Escapes(failed, m)) \in Nat
                            BY <1>0
                        <7>2. Cardinality(Escapes(failed', cur[t])) = Cardinality(Escapes(failed, cur[t])) + 1
                            BY <4>2, <5>3, <6>2, EscapesMove
                        <7> QED BY <1>0, <1>3, <7>2
                    <6>3. CASE o # "unknown"
                        <7>1. tracer' = tracer /\ op'[t] = op[t]
                            BY <5>3, <6>3, SinksKeepQueue DEF SinkLog, SinkFlush
                        <7>2. Past(t, s)'
                            BY <4>2, <5>3, <6>3, GoesOn
                        <7> QED BY <2>2, <4>1, <7>1, <7>2 DEF Dumping
                    <6> QED BY <6>2, <6>3
                <5> QED BY <2>7, <4>2, <5>1, <5>2, <5>3 DEF Locking, Running
            <4>4. UNCHANGED tracer /\ Past(t, s)'
                BY <4>2, <4>3 DEF LockSink, StartFlush, Goto, Past, ThreadsOK
            <4> QED BY <2>2, <4>1, <4>4 DEF Dumping
        <3> QED BY <2>7, <3>1 DEF CountInv
    <2> QED
        <3>1. PICK d \in Nat :
                  \/ 1 + d \in DOMAIN tracer.q /\ tracer'.q[1] = tracer.q[1 + d]
                  \/ Trace(t) /\ tracer'.q[1] = cur[t]
            BY <2>3, QueueShifts
        <3>2. CASE d = 0 /\ 1 + d \in DOMAIN tracer.q /\ tracer'.q[1] = tracer.q[1 + d]
            <4>1. tracer.q # <<>> /\ tracer'.q[1] = tracer.q[1]
                BY <3>2
            <4> QED BY <2>6, <2>7, <4>1
        <3>3. CASE d # 0 /\ 1 + d \in DOMAIN tracer.q /\ tracer'.q[1] = tracer.q[1 + d]
            <4>1. 1 + d # 1
                BY <3>3
            <4> QED BY <2>5, <3>3, <4>1
        <3> QED BY <2>4, <3>1, <3>2, <3>3
\* A sink is called: the backtrace stays.
<1>4. ASSUME NEW o \in Outcomes, SinkLog(t, o) \/ SinkFlush(t, o)
      PROVE  /\ \A m \in Message :
                   Cardinality(Dumps(got'[s], m)) <= Cardinality(Escapes(failed', m)) + 1
             /\ tracer'.q # <<>> /\ ~Dumping(s)' =>
                   Cardinality(Dumps(got'[s], tracer'.q[1])) <= Cardinality(Escapes(failed', tracer'.q[1]))
    <2>1. tracer'.q = tracer.q /\ Passing(t)
        BY <1>4, SinksKeepQueue DEF SinkLog, SinkFlush, Passing
    <2>2. op[t] = "dump" => tracer.owner = t /\ tracer.q # <<>> /\ cur[t] = tracer.q[1]
        BY <1>1, <2>1 DEF TracerInv
    <2>3. \A m : Cardinality(Escapes(failed', m))
                    = Cardinality(Escapes(failed, m))
                      + IF o = "unknown" /\ op[t] = "dump" /\ m = cur[t] THEN 1 ELSE 0
        BY <1>4, EscapesMove
    \* Before a sink writes the message it has not passed the sink.
    <2>4. \A m :
                \/ Cardinality(Dumps(got'[s], m)) = Cardinality(Dumps(got[s], m))
                \/ /\ Cardinality(Dumps(got'[s], m)) = Cardinality(Dumps(got[s], m)) + 1
                   /\ SinkLog(t, o) /\ o = "ok" /\ s = at[t] /\ op[t] = "dump" /\ m = cur[t]
        <3>1. CASE SinkLog(t, o)
            <4> TAKE m
            <4>1. CASE o = "ok" /\ s = at[t] /\ op[t] = "dump" /\ m = cur[t]
                BY <3>1, <4>1, DumpsMove
            <4>2. CASE ~(o = "ok" /\ s = at[t] /\ op[t] = "dump" /\ m = cur[t])
                <5>1. Cardinality(Dumps(got'[s], m)) = Cardinality(Dumps(got[s], m)) + 0
                    BY <3>1, <4>2, DumpsMove
                <5> QED BY <1>0, <5>1
            <4> QED BY <4>1, <4>2
        <3>2. CASE SinkFlush(t, o)
            BY <3>2 DEF SinkFlush
        <3> QED BY <1>4, <3>1, <3>2
    <2>5. ASSUME SinkLog(t, o), o = "ok", s = at[t], op[t] = "dump"
          PROVE  ~Dumping(s) /\ Dumping(s)'
        <3>1. ~Past(t, s) /\ s \in Nat
            BY <2>5 DEF SinkLog, Past, Sinks, ThreadsOK
        <3>2. Past(t, s)' /\ tracer' = tracer
            BY <1>4, <2>5, GoesOn, SinksKeepQueue DEF SinkLog
        <3> QED BY <2>2, <2>5, <3>1, <3>2 DEF Dumping
    <2>6. ASSUME NEW m \in Message
          PROVE  Cardinality(Dumps(got'[s], m)) <= Cardinality(Escapes(failed', m)) + 1
        <3>1. Cardinality(Escapes(failed, m)) <= Cardinality(Escapes(failed', m))
              /\ Cardinality(Escapes(failed', m)) \in Nat
            BY <1>0, <2>3
        <3>2. CASE Cardinality(Dumps(got'[s], m)) = Cardinality(Dumps(got[s], m))
            <4>1. Cardinality(Dumps(got[s], m)) <= Cardinality(Escapes(failed, m)) + 1
                BY <2>6 DEF CountInv
            <4> QED BY <1>0, <3>1, <3>2, <4>1
        <3>3. CASE /\ Cardinality(Dumps(got'[s], m)) = Cardinality(Dumps(got[s], m)) + 1
                   /\ SinkLog(t, o) /\ o = "ok" /\ s = at[t] /\ op[t] = "dump" /\ m = cur[t]
            <4>1. Cardinality(Dumps(got[s], m)) <= Cardinality(Escapes(failed, m))
                BY <2>2, <2>5, <3>3 DEF CountInv
            <4> QED BY <1>0, <3>1, <3>3, <4>1
        <3> QED BY <2>4, <3>2, <3>3
    <2>7. ASSUME tracer.q # <<>>, ~Dumping(s)'
          PROVE  Cardinality(Dumps(got'[s], tracer.q[1])) <= Cardinality(Escapes(failed', tracer.q[1]))
        <3> DEFINE h == tracer.q[1]
        <3>1. Cardinality(Dumps(got'[s], h)) = Cardinality(Dumps(got[s], h))
            BY <2>4, <2>5, <2>7
        <3>2. CASE ~Dumping(s)
            <4>1. Cardinality(Dumps(got[s], h)) <= Cardinality(Escapes(failed, h))
                BY <2>7, <3>2 DEF CountInv
            <4>2. Cardinality(Escapes(failed, h)) <= Cardinality(Escapes(failed', h))
                  /\ Cardinality(Escapes(failed', h)) \in Nat
                BY <1>0, <2>3
            <4> QED BY <1>0, <3>1, <4>1, <4>2
        <3>3. CASE Dumping(s)
            <4>1. tracer.owner = t
                BY <1>2, <2>7, <3>3 DEF Dumping
            <4>2. Passing(t) /\ op[t] = "dump" /\ cur[t] = h /\ Past(t, s)
                BY <1>1, <3>3, <4>1 DEF Dumping, TracerInv
            <4>3. o = "unknown"
                <5>1. SUFFICES ASSUME o # "unknown" PROVE FALSE
                    OBVIOUS
                <5>2. tracer' = tracer /\ Past(t, s)'
                    BY <1>4, <4>2, <5>1, GoesOn, SinksKeepQueue
                <5> QED BY <2>7, <4>1, <5>2 DEF Dumping
            <4>4. Cardinality(Escapes(failed', h)) = Cardinality(Escapes(failed, h)) + 1
                BY <2>3, <4>2, <4>3
            <4>5. Cardinality(Dumps(got[s], h)) <= Cardinality(Escapes(failed, h)) + 1
                BY <1>1, <2>7 DEF CountInv
            <4> QED BY <1>0, <3>1, <4>4, <4>5
        <3> QED BY <3>2, <3>3
    <2> QED BY <2>1, <2>6, <2>7
<1> QED BY <1>3, <1>4, RecordMoves

LEMMA InitOrder == Init => OrderInv
<1> SUFFICES ASSUME Init PROVE OrderInv
    OBVIOUS
<1>1. FailedInv
    BY FS_EmptySet DEF Init, FailedInv
<1>2. QueueInv
    BY DEF Init, QueueInv
<1>3. DumpedInv
    BY DEF Init, DumpedInv
<1>4. CountInv
    <2>1. tracer.q = <<>>
        BY DEF Init
    <2>2. ASSUME NEW m, NEW s \in Sinks
          PROVE  Cardinality(Dumps(got[s], m)) = 0 /\ Cardinality(Escapes(failed, m)) = 0
        <3>1. Dumps(got[s], m) = {}
            BY DEF Init, Dumps
        <3>2. Escapes(failed, m) = {}
            BY DEF Init, Escapes
        <3> QED BY <3>1, <3>2, FS_EmptySet
    <2> QED BY <2>1, <2>2 DEF CountInv
<1> QED BY <1>1, <1>2, <1>3, <1>4, InitLogs DEF OrderInv

LEMMA OrderInductive == OrderInv /\ [Next]_vars => OrderInv'
<1> SUFFICES ASSUME OrderInv, [Next]_vars PROVE OrderInv'
    OBVIOUS
<1>1. CASE Next
    BY <1>1, LogsInductive, NextFailed, NextQueue, NextDumped, NextCount DEF OrderInv
<1>2. CASE UNCHANGED vars
    <2>1. LogsInv'
        BY <1>2, LogsInductive DEF OrderInv
    <2>2. FailedInv' /\ QueueInv' /\ DumpedInv'
        BY <1>2 DEF vars, thread, record, OrderInv, FailedInv, QueueInv, DumpedInv, Older, InLog
    <2>3. CountInv'
        BY <1>2 DEF vars, thread, record, OrderInv, CountInv, Dumping, Past
    <2> QED BY <2>1, <2>2, <2>3 DEF OrderInv
<1> QED BY <1>1, <1>2

LEMMA OrderHolds == Spec => []OrderInv
    BY InitOrder, OrderInductive, PTL DEF Spec

\* However many threads log, dump, enable and disable, a sink gets the traced messages of
\* a thread in the order it logged them, each once, and once more for each exception that
\* left foreach_pop before pop_front (backtracer-inl.h:60-69).
THEOREM DumpsInOrder == Spec => []DumpedInOrder
<1>1. ASSUME OrderInv PROVE DumpedInOrder
    <2> SUFFICES ASSUME NEW s \in Sinks, NEW p \in DOMAIN got[s], NEW r \in DOMAIN got[s], p < r,
                        got[s][p].op = "dump", got[s][r].op = "dump", got[s][p].m.by = got[s][r].m.by
                 PROVE  \/ got[s][p].m.n < got[s][r].m.n
                        \/ /\ got[s][p].m = got[s][r].m
                           /\ Times(got[s][p].m, "dump", s) <= 1 + Escaped(got[s][p].m)
        BY DEF DumpedInOrder
    <2>1. InOrder(got[s][p].m, got[s][r].m)
        BY <1>1 DEF OrderInv, DumpedInv
    <2>2. got[s][p].m \in Message
        BY <1>1, OrderNow, EntryOf DEF Entry
    <2>3. /\ Times(got[s][p].m, "dump", s) = Cardinality(Dumps(got[s], got[s][p].m))
          /\ Escaped(got[s][p].m) = Cardinality(Escapes(failed, got[s][p].m))
        BY DEF Times, Escaped, Dumps, Escapes
    <2>4. Cardinality(Escapes(failed, got[s][p].m)) \in Nat /\ Cardinality(Dumps(got[s], got[s][p].m)) \in Nat
        BY <1>1, OrderNow, CountsAreNumbers DEF FailedInv
    <2>5. Cardinality(Dumps(got[s], got[s][p].m)) <= Cardinality(Escapes(failed, got[s][p].m)) + 1
        BY <1>1, <2>2 DEF OrderInv, CountInv
    <2> QED BY <2>1, <2>3, <2>4, <2>5 DEF InOrder
<1> QED BY <1>1, OrderHolds, PTL
=============================================================================
