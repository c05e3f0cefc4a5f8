------------------------------ MODULE Registry ------------------------------
(***************************************************************************)
(* spdlog's registry of loggers and its periodic flusher:                  *)
(* details/registry-inl.h, details/periodic_worker-inl.h and async.h under *)
(* src/include/spdlog.  Several threads call the registry; each periodic   *)
(* worker is a thread that flushes all registered loggers now and then.    *)
(*                                                                         *)
(* Mutexes: logger_map_mutex_ guards the map and is kept while flush_all   *)
(* goes through it; flusher_mutex_ is kept while a periodic worker is      *)
(* replaced and joined; tp_mutex_ is kept while an asynchronous logger is  *)
(* created; the mutex_ of a worker is kept while it flushes.  A thread     *)
(* pool is what ThreadPool shows it to be: a logger posts to it in one     *)
(* step, or throws when the registry has dropped it.  A user's get() and   *)
(* flush_all() lock the map once and change nothing here: they are left    *)
(* out.                                                                    *)
(***************************************************************************)
EXTENDS Naturals, FiniteSets

CONSTANTS
    Callers,   \* threads that call the registry
    Loggers,   \* logger objects
    Async,     \* those that are asynchronous
    Defaults,  \* what the constructor makes: one of them, or None if it is built to
               \* make none (SPDLOG_DISABLE_DEFAULT_LOGGER)
    Names, NameOf,  \* the names of loggers
    FlushLevels, Registrations, \* values the two settings are given
    Pools,     \* thread pool objects
    Workers,   \* periodic_worker objects
    None       \* a null pointer

ASSUME NamesAssumption == NameOf \in [Loggers -> Names] /\ Async \subseteq Loggers
ASSUME DefaultAssumption == Defaults \subseteq (Loggers \ Async) \cup {None}
ASSUME NoneAssumption == None \notin Callers \cup Loggers \cup Pools \cup Workers
ASSUME FlagsAssumption == FlushLevels \cup Registrations \subseteq BOOLEAN
ASSUME ThreadsAssumption == Callers \cap Workers = {}

VARIABLES
    loggers_,           \* the map: a logger of each name, or None
    default_logger_,
    flush_level_,       \* whether loggers shall flush (a setting of the registry)
    automatic_registration_,
    tp_,                \* the registry's thread pool
    periodic_flusher_,
    flushOn,            \* of each logger: its own copy of the setting
    thread_pool_,       \* of each logger: the pool it posts to
    made,               \* loggers constructed so far
    pools,              \* thread pools constructed so far
    mapOwner, flusherOwner, tpOwner, \* owners of the mutexes
    pc,                 \* where each thread is
    old,                \* the worker a caller is destroying
    active_,            \* of each periodic worker
    todo,               \* loggers flush_all has still to flush, of each worker
    byHand,             \* history: loggers put in the map uninitialised
    misused,            \* history: a caller orphaned a logger, see below
    late,               \* history: see Enters
    alive               \* FALSE after std::terminate

map == <<loggers_, default_logger_, byHand>>
settings == <<flush_level_, automatic_registration_, flushOn>>
tps == <<tp_, thread_pool_, made, pools>>
flushers == <<periodic_flusher_, active_, todo>>
locks == <<mapOwner, flusherOwner, tpOwner>>
faults == <<misused, late>>
vars == <<map, settings, tps, flushers, locks, pc, old, faults, alive>>

Init ==
    /\ default_logger_ \in Defaults
    /\ loggers_ = [n \in Names |->
          IF default_logger_ # None /\ NameOf[default_logger_] = n THEN default_logger_ ELSE None]
    /\ flush_level_ = FALSE /\ automatic_registration_ = TRUE
    /\ tp_ = None /\ periodic_flusher_ = None
    /\ flushOn = [l \in Loggers |-> FALSE]
    /\ thread_pool_ = [l \in Loggers |-> None]
    /\ made = {default_logger_} \ {None} /\ pools = {}
    /\ mapOwner = None /\ flusherOwner = None /\ tpOwner = None
    /\ pc = [t \in Callers \cup Workers |-> IF t \in Callers THEN "idle" ELSE "unborn"]
    /\ old = [c \in Callers |-> None]
    /\ active_ = [w \in Workers |-> FALSE]
    /\ todo = [w \in Workers |-> {}]
    /\ byHand = {} /\ misused = FALSE /\ late = FALSE /\ alive = TRUE

Registered == {loggers_[n] : n \in Names} \ {None}

\* A logger whose pool the registry no longer has cannot post (weak_ptr).
Orphan(l) == l \in Async /\ thread_pool_[l] # tp_

At(t, place) == alive /\ pc[t] = place
Goto(t, place) == pc' = [pc EXCEPT ![t] = place]

\* What no registry can mend: a caller who registers an asynchronous logger whose
\* pool is gone, or replaces the pool of loggers in use.
Misuse(how) == misused' = (misused \/ how)

\* Logger l is put in the map.  An asynchronous one is late when a shutdown has
\* emptied the map already and not yet dropped the pool.
Enters(l) == late' = (late \/ (l \in Async /\ \E c \in Callers : pc[c] = "drop_tp"))

-----------------------------------------------------------------------------
(* Calls that are one critical section of logger_map_mutex_.               *)

WithMap(c) == At(c, "idle") /\ mapOwner = None

\* The map with logger l under its name.
Entered(l) == [loggers_ EXCEPT ![NameOf[l]] = l]

\* register_logger: throws if the name is taken.
register_logger(c, l) ==
    /\ WithMap(c) /\ l \in made
    /\ loggers_[NameOf[l]] = None
    /\ loggers_' = Entered(l)
    /\ byHand' = byHand \cup {l}
    /\ Misuse(Orphan(l)) /\ Enters(l)
    /\ UNCHANGED <<default_logger_, settings, tps, flushers, locks, pc, old, alive>>

\* The map without the default logger's name.
WithoutDefault ==
    IF default_logger_ = None THEN loggers_
    ELSE [loggers_ EXCEPT ![NameOf[default_logger_]] = None]

set_default_logger(c, l) ==
    /\ WithMap(c) /\ l \in made \cup {None}
    /\ loggers_' = IF l = None THEN WithoutDefault
                   ELSE [WithoutDefault EXCEPT ![NameOf[l]] = l]
    /\ default_logger_' = l
    /\ byHand' = (byHand \cup ({l} \ (Registered \cup {None}))) \cap {loggers_'[n] : n \in Names}
    /\ Misuse(Orphan(l)) /\ Enters(l)
    /\ UNCHANGED <<settings, tps, flushers, locks, pc, old, alive>>

\* The default logger after a drop.  (Variant: it is kept.)
DefaultWithout_Kept(n) == default_logger_
DefaultWithout(n) ==
    IF default_logger_ # None /\ NameOf[default_logger_] = n THEN None ELSE default_logger_

drop(c, n) ==
    /\ WithMap(c)
    /\ loggers_' = [loggers_ EXCEPT ![n] = None]
    /\ default_logger_' = DefaultWithout(n)
    /\ byHand' = byHand \ {loggers_[n]}
    /\ UNCHANGED <<settings, tps, flushers, locks, pc, old, faults, alive>>

\* flush_on; set_formatter, set_error_handler and the backtrace go the same way.
flush_on(c, on) ==
    /\ WithMap(c)
    /\ flushOn' = [l \in Loggers |-> IF l \in Registered THEN on ELSE flushOn[l]]
    /\ flush_level_' = on
    /\ byHand' = {}
    /\ UNCHANGED <<loggers_, default_logger_, automatic_registration_, tps, flushers, locks, pc, old, faults, alive>>

set_automatic_registration(c, on) ==
    /\ WithMap(c)
    /\ automatic_registration_' = on
    /\ UNCHANGED <<map, flush_level_, flushOn, tps, flushers, locks, pc, old, faults, alive>>

-----------------------------------------------------------------------------
(* Creating loggers: async_factory_impl::create, synchronous_factory.      *)

\* Under tp_mutex_ the registry's pool is taken, or made.
create_async(c, l) ==
    /\ At(c, "idle") /\ tpOwner = None
    /\ l \in Async \ made
    /\ made' = made \cup {l}
    /\ \E p \in IF tp_ = None THEN Pools \ pools ELSE {tp_} :
          /\ tp_' = p
          /\ thread_pool_' = [thread_pool_ EXCEPT ![l] = p]
          /\ pools' = pools \cup {p}
    /\ tpOwner' = c
    /\ pc' = [pc EXCEPT ![c] = "initialize"]
    /\ old' = [old EXCEPT ![c] = l]
    /\ UNCHANGED <<map, settings, flushers, mapOwner, flusherOwner, faults, alive>>

\* The setting a new logger gets.  (Variant: it keeps its own.)
Initial_Own(l) == flushOn[l]
Initial(l) == flush_level_

\* Whether initialize_logger puts logger l in the map.
Registers(l) == automatic_registration_ /\ loggers_[NameOf[l]] = None

\* initialize_logger: registers the logger, throws if the name is taken.
Initialize(l) ==
    /\ mapOwner = None
    /\ flushOn' = [flushOn EXCEPT ![l] = Initial(l)]
    /\ loggers_' = IF Registers(l) THEN Entered(l) ELSE loggers_
    /\ UNCHANGED <<default_logger_, byHand, flush_level_, automatic_registration_>>

initialize_logger(c) ==
    /\ At(c, "initialize")
    /\ Initialize(old[c])
    /\ IF Registers(old[c]) THEN Enters(old[c]) ELSE UNCHANGED late
    /\ tpOwner' = None
    /\ Goto(c, "idle")
    /\ old' = [old EXCEPT ![c] = None]
    /\ UNCHANGED <<tps, flushers, mapOwner, flusherOwner, misused, alive>>

create(c, l) ==
    /\ At(c, "idle")
    /\ l \in Loggers \ (Async \cup made)
    /\ made' = made \cup {l}
    /\ Initialize(l)
    /\ UNCHANGED <<tp_, thread_pool_, pools, flushers, locks, pc, old, faults, alive>>

\* init_thread_pool: the pool it replaces is gone for the loggers that use it.
set_tp(c, p) ==
    /\ At(c, "idle") /\ tpOwner = None
    /\ p \in Pools \ pools
    /\ pools' = pools \cup {p}
    /\ tp_' = p
    /\ Misuse(tp_ # None)
    /\ UNCHANGED <<thread_pool_, made, map, settings, flushers, locks, pc, old, late, alive>>

-----------------------------------------------------------------------------
(* Replacing the periodic worker, and shutdown.                            *)

\* flush_every: the new worker runs before the old one is destroyed.  One with no
\* interval (on = FALSE) has no thread: it counts as ended.
flush_every(c, w, on) ==
    /\ At(c, "idle") /\ flusherOwner = None
    /\ pc[w] = "unborn"
    /\ periodic_flusher_' = w
    /\ active_' = [active_ EXCEPT ![w] = on]
    /\ LET stage == IF on THEN "check" ELSE "exited"
       IN  IF periodic_flusher_ = None
           THEN /\ pc' = [pc EXCEPT ![w] = stage]
                /\ UNCHANGED <<flusherOwner, old>>
           ELSE /\ pc' = [pc EXCEPT ![w] = stage, ![c] = "deactivate"]
                /\ flusherOwner' = c
                /\ old' = [old EXCEPT ![c] = periodic_flusher_]
    /\ UNCHANGED <<map, settings, tps, todo, mapOwner, tpOwner, faults, alive>>

\* ~periodic_worker: active_ under the worker's mutex_, which a flush keeps.
Deactivate(c, from, to) ==
    /\ At(c, from)
    /\ pc[old[c]] \notin {"flush_all", "flushing"}
    /\ active_' = [active_ EXCEPT ![old[c]] = FALSE]
    /\ Goto(c, to)
    /\ UNCHANGED <<map, settings, tps, periodic_flusher_, todo, locks, old, faults, alive>>

deactivate(c) == Deactivate(c, "deactivate", "join_old")

\* The thread that is destroyed has ended.  (Variant: it is not waited for.)
Joined_Always(w) == TRUE
Joined(w) == pc[w] = "exited"

join_old(c) ==
    /\ At(c, "join_old") /\ Joined(old[c])
    /\ Goto(c, "idle")
    /\ old' = [old EXCEPT ![c] = None]
    /\ flusherOwner' = None
    /\ UNCHANGED <<map, settings, tps, flushers, mapOwner, tpOwner, faults, alive>>

\* shutdown: the flusher first, then the loggers, then the pool.
shutdown(c) ==
    /\ At(c, "idle") /\ flusherOwner = None
    /\ IF periodic_flusher_ = None
       THEN Goto(c, "drop_all") /\ UNCHANGED <<flusherOwner, old>>
       ELSE /\ Goto(c, "stop")
            /\ flusherOwner' = c
            /\ old' = [old EXCEPT ![c] = periodic_flusher_]
    /\ periodic_flusher_' = None
    /\ UNCHANGED <<map, settings, tps, active_, todo, mapOwner, tpOwner, faults, alive>>

stop(c) == Deactivate(c, "stop", "join")

join(c) ==
    /\ At(c, "join") /\ Joined(old[c])
    /\ Goto(c, "drop_all")
    /\ old' = [old EXCEPT ![c] = None]
    /\ flusherOwner' = None
    /\ UNCHANGED <<map, settings, tps, flushers, mapOwner, tpOwner, faults, alive>>

\* loggers_.clear().  (Variant: only the default logger is reset.)
Cleared_Not == loggers_
Cleared == [n \in Names |-> None]

EmptyMap ==
    /\ mapOwner = None
    /\ loggers_' = Cleared
    /\ default_logger_' = None
    /\ byHand' = {}

\* drop_all, called by a user ...
drop_all(c) ==
    /\ At(c, "idle")
    /\ EmptyMap
    /\ UNCHANGED <<settings, tps, flushers, locks, pc, old, faults, alive>>

\* ... and by shutdown.
drop_loggers(c) ==
    /\ At(c, "drop_all")
    /\ EmptyMap
    /\ Goto(c, "drop_tp")
    /\ UNCHANGED <<settings, tps, flushers, locks, old, faults, alive>>

drop_tp(c) ==
    /\ At(c, "drop_tp") /\ tpOwner = None
    /\ tp_' = None
    /\ Goto(c, "idle")
    /\ UNCHANGED <<thread_pool_, made, pools, map, settings, flushers, locks, old, faults, alive>>

-----------------------------------------------------------------------------
(* The thread of a periodic worker.                                        *)

\* wait_for tests active_ under mutex_, and after it waited the interval again.
Check(w) ==
    /\ At(w, "check")
    /\ Goto(w, IF active_[w] THEN "wait" ELSE "exited")
    /\ UNCHANGED <<map, settings, tps, flushers, locks, old, faults, alive>>

Timeout(w) ==
    /\ At(w, "wait")
    /\ Goto(w, IF active_[w] THEN "flush_all" ELSE "exited")
    /\ UNCHANGED <<map, settings, tps, flushers, locks, old, faults, alive>>

\* What flush_all locks.  (Variant: flusher_mutex_ too.)
Unlocked_Both == mapOwner = None /\ flusherOwner = None
Unlocked == mapOwner = None

\* flush_all
LockMap(w) ==
    /\ At(w, "flush_all") /\ Unlocked
    /\ mapOwner' = w
    /\ todo' = [todo EXCEPT ![w] = Registered]
    /\ Goto(w, "flushing")
    /\ UNCHANGED <<map, settings, tps, periodic_flusher_, active_, flusherOwner, tpOwner, old, faults, alive>>

\* logger::flush: an asynchronous logger without a pool throws, out of the thread.
Flush(w, l) ==
    /\ At(w, "flushing") /\ l \in todo[w]
    /\ todo' = [todo EXCEPT ![w] = @ \ {l}]
    /\ alive' = ~Orphan(l)
    /\ UNCHANGED <<map, settings, tps, periodic_flusher_, active_, locks, pc, old, faults>>

UnlockMap(w) ==
    /\ At(w, "flushing") /\ todo[w] = {}
    /\ mapOwner' = None
    /\ Goto(w, "check")
    /\ UNCHANGED <<map, settings, tps, flushers, flusherOwner, tpOwner, old, faults, alive>>

-----------------------------------------------------------------------------
CallStep(c) ==
    \/ initialize_logger(c) \/ deactivate(c) \/ join_old(c)
    \/ stop(c) \/ join(c) \/ drop_loggers(c) \/ drop_tp(c)
WorkStep(w) ==
    \/ Check(w) \/ Timeout(w) \/ LockMap(w) \/ UnlockMap(w)
    \/ \E l \in Loggers : Flush(w, l)

Next ==
    \/ \E c \in Callers, l \in Loggers :
          register_logger(c, l) \/ create_async(c, l) \/ create(c, l)
    \/ \E c \in Callers, l \in Loggers \cup {None} : set_default_logger(c, l)
    \/ \E c \in Callers, n \in Names : drop(c, n)
    \/ \E c \in Callers, on \in FlushLevels : flush_on(c, on)
    \/ \E c \in Callers, on \in Registrations : set_automatic_registration(c, on)
    \/ \E c \in Callers, p \in Pools : set_tp(c, p)
    \/ \E c \in Callers, w \in Workers, on \in BOOLEAN : flush_every(c, w, on)
    \/ \E c \in Callers : drop_all(c) \/ shutdown(c) \/ CallStep(c)
    \/ \E w \in Workers : WorkStep(w)

Spec == Init /\ [][Next]_vars

\* A call that has begun goes on, and time passes for the workers.  They sleep for
\* an interval between two flushes, so a mutex they keep taking can be had.
FairSpec ==
    /\ Spec
    /\ \A c \in Callers : SF_vars(CallStep(c))
    /\ \A w \in Workers : SF_vars(WorkStep(w))

-----------------------------------------------------------------------------
(* Properties.                                                             *)

Places == {"idle", "initialize", "deactivate", "join_old", "stop", "join", "drop_all", "drop_tp"}
Stages == {"unborn", "check", "wait", "flush_all", "flushing", "exited"}

MapOK ==
    /\ loggers_ \in [Names -> Loggers \cup {None}]
    /\ \A n \in Names : loggers_[n] \in made \cup {None}
    /\ default_logger_ \in made \cup {None}
    /\ byHand \subseteq Loggers
SettingsOK ==
    /\ flush_level_ \in BOOLEAN /\ automatic_registration_ \in BOOLEAN
    /\ flushOn \in [Loggers -> BOOLEAN]
    /\ misused \in BOOLEAN /\ late \in BOOLEAN /\ alive \in BOOLEAN
PoolsOK ==
    /\ tp_ \in pools \cup {None} /\ pools \subseteq Pools /\ made \subseteq Loggers
    /\ thread_pool_ \in [Loggers -> Pools \cup {None}]
FlushersOK ==
    /\ periodic_flusher_ \in Workers \cup {None}
    /\ active_ \in [Workers -> BOOLEAN] /\ todo \in [Workers -> SUBSET Loggers]
PlacesOK ==
    /\ pc \in [Callers \cup Workers -> Places \cup Stages]
    /\ old \in [Callers -> Workers \cup Loggers \cup {None}]
    /\ mapOwner \in Workers \cup {None}
    /\ flusherOwner \in Callers \cup {None} /\ tpOwner \in Callers \cup {None}
    /\ \A c \in Callers :
          /\ pc[c] \in Places
          /\ tpOwner = c <=> pc[c] = "initialize"
          /\ flusherOwner = c <=> pc[c] \in {"deactivate", "join_old", "stop", "join"}
    /\ \A w \in Workers : pc[w] \in Stages /\ (mapOwner = w <=> pc[w] = "flushing")

\* Every variable has its type, and who owns a mutex says where a thread is.
TypeOK == MapOK /\ SettingsOK /\ PoolsOK /\ FlushersOK /\ PlacesOK

\* The default logger is also in the map (registry-inl.h:111), whatever
\* registrations, drops and replacements of other loggers came in between.
DefaultRegistered ==
    default_logger_ # None => loggers_[NameOf[default_logger_]] = default_logger_

\* A logger that the registry initialised has the registry's setting, however its
\* creation and the settings of other threads were interleaved; one that was put
\* in by hand has it from the next setting on (registry-inl.h:181-189).
SettingsReach == \A l \in Registered \ byHand : flushOn[l] = flush_level_

\* A periodic worker runs only while the registry has it or a call is about to
\* join it: none flushes after flush_every or shutdown came back (registry.h:64-70).
OneFlusher ==
    \A w \in Workers :
        pc[w] \notin {"unborn", "exited"} =>
            \/ periodic_flusher_ = w
            \/ \E c \in Callers : old[c] = w /\ flusherOwner = c

\* The flusher thread ends the process, by the exception of a logger without a
\* pool, only after a misuse or when an asynchronous logger was registered in the
\* middle of a shutdown, between drop_all and the reset of the pool: not because
\* shutdown, flushes, drops and creations follow or meet each other in any other
\* way (registry-inl.h:237-250, async_logger-inl.h:48).
EndsOnlyIfOrphaned == alive \/ misused \/ late

\* "This class is thread safe" (registry.h:9): calls that meet do not end the
\* process, only misuses do.  The registration in the middle of a shutdown is a
\* counterexample.
EndsOnlyByMisuse == alive \/ misused

\* A thread that waits for a mutex or for the end of another one, or a worker that
\* nobody has told to end.
Waiting(t) ==
    \/ pc[t] \in {"initialize", "drop_all"} /\ mapOwner # None
    \/ pc[t] = "drop_tp" /\ tpOwner # None
    \/ pc[t] \in {"deactivate", "stop"} /\ pc[old[t]] \in {"flush_all", "flushing"}
    \/ pc[t] \in {"join_old", "join"} /\ ~Joined(old[t])
    \/ pc[t] = "flush_all" /\ ~Unlocked
    \/ pc[t] \in {"check", "wait"} /\ active_[t]
    \/ pc[t] \in {"unborn", "exited"}

\* Those a call waits for, one behind the other: the worker it ends, or who creates
\* a logger, and the worker that flushes with the map's mutex.
Ahead(c) ==
    {c, mapOwner} \cup
        CASE pc[c] \in {"deactivate", "join_old", "stop", "join"} -> {old[c]}
          [] pc[c] = "drop_tp" -> {tpOwner}
          [] OTHER -> {}

\* No threads wait for each other's mutexes or ends: of those ahead of a call one
\* goes on, and a worker that is joined has been told to end (registry.h:67,
\* periodic_worker-inl.h:12-21).
NoDeadlock ==
    alive => \A c \in Callers : pc[c] # "idle" => \E t \in Ahead(c) \ {None} : ~Waiting(t)

\* No two threads wait for each other's mutexes, and every worker joined ends.
CallsReturn == \A c \in Callers : (pc[c] # "idle") ~> (pc[c] = "idle" \/ ~alive)
=============================================================================
