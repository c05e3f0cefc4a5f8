--------------------------- MODULE RegistryProofs ---------------------------
(***************************************************************************)
(* Proofs about Registry, for any numbers of callers, loggers, names,      *)
(* pools and periodic workers.                                             *)
(***************************************************************************)
EXTENDS Registry, TLAPS

USE NamesAssumption, DefaultAssumption, NoneAssumption, FlagsAssumption, ThreadsAssumption

\* What a caller keeps in old: the logger it creates, or the worker it destroys.
OldShape ==
    \A c \in Callers :
        /\ pc[c] = "initialize" => old[c] \in Async \cap made
        /\ pc[c] \in {"deactivate", "join_old", "stop", "join"} => old[c] \in Workers

TypeInv == TypeOK /\ OldShape

-----------------------------------------------------------------------------
(* The type invariant.                                                     *)

LEMMA InitTypeInv == Init => TypeInv
<1> SUFFICES ASSUME Init PROVE TypeInv
    OBVIOUS
<1>1. pc \in [Callers \cup Workers -> Places \cup Stages]
    BY DEF Init, Places, Stages
<1>2. \A c \in Callers : pc[c] = "idle"
    BY DEF Init
<1>3. \A w \in Workers : pc[w] = "unborn"
    BY DEF Init
<1>4. loggers_ \in [Names -> Loggers \cup {None}] /\ \A n \in Names : loggers_[n] \in made \cup {None}
    BY DEF Init
<1>5. TypeOK
    <2>1. MapOK /\ PoolsOK
        BY <1>4 DEF Init, MapOK, PoolsOK
    <2>2. SettingsOK /\ FlushersOK
        BY DEF Init, SettingsOK, FlushersOK
    <2>3. PlacesOK
        BY <1>1, <1>2, <1>3 DEF Init, PlacesOK, Places, Stages
    <2> QED BY <2>1, <2>2, <2>3 DEF TypeOK
<1>6. OldShape
    BY <1>2 DEF OldShape
<1> QED BY <1>5, <1>6 DEF TypeInv

\* The map keeps its type when a logger is entered or entries are removed.
LEMMA MapTypes ==
    ASSUME TypeOK, NEW l \in made, NEW n \in Names
    PROVE  /\ Entered(l) \in [Names -> Loggers \cup {None}]
           /\ \A m \in Names : Entered(l)[m] \in made \cup {None}
           /\ [loggers_ EXCEPT ![n] = None] \in [Names -> Loggers \cup {None}]
           /\ \A m \in Names : [loggers_ EXCEPT ![n] = None][m] \in made \cup {None}
    BY DEF TypeOK, MapOK, PoolsOK, Entered

\* What an action leaves alone keeps its type.
LEMMA FrameOK ==
    ASSUME TypeOK
    PROVE  /\ UNCHANGED <<map, made>> => MapOK'
           /\ UNCHANGED <<settings, faults, alive>> => SettingsOK'
           /\ UNCHANGED tps => PoolsOK'
           /\ UNCHANGED flushers => FlushersOK'
           /\ UNCHANGED <<locks, pc, old>> => PlacesOK'
    BY DEF TypeOK, MapOK, SettingsOK, PoolsOK, FlushersOK, PlacesOK, map, settings, tps, flushers, locks, faults

LEMMA NextTypeInv == TypeInv /\ [Next]_vars => TypeInv'
<1> SUFFICES ASSUME TypeInv, [Next]_vars PROVE TypeInv'
    OBVIOUS
<1> USE DEF TypeInv
<1>1. ASSUME NEW c \in Callers, NEW l \in Loggers, register_logger(c, l) PROVE TypeInv'
    <2>1. MapOK'
        BY <1>1, MapTypes DEF register_logger, TypeOK, MapOK, PoolsOK, tps
    <2>2. SettingsOK'
        BY <1>1 DEF register_logger, TypeOK, SettingsOK, Misuse, Enters, Orphan, settings
    <2>3. PoolsOK' /\ FlushersOK' /\ PlacesOK' /\ OldShape'
        BY <1>1, FrameOK DEF register_logger, OldShape, tps
    <2> QED BY <2>1, <2>2, <2>3 DEF TypeOK
<1>2. ASSUME NEW c \in Callers, NEW l \in Loggers \cup {None}, set_default_logger(c, l) PROVE TypeInv'
    <2>1. MapOK'
        BY <1>2 DEF set_default_logger, TypeOK, MapOK, PoolsOK, tps, WithoutDefault, Registered
    <2>2. SettingsOK'
        BY <1>2 DEF set_default_logger, TypeOK, SettingsOK, Misuse, Enters, Orphan, settings
    <2>3. PoolsOK' /\ FlushersOK' /\ PlacesOK' /\ OldShape'
        BY <1>2, FrameOK DEF set_default_logger, OldShape, tps
    <2> QED BY <2>1, <2>2, <2>3 DEF TypeOK
<1>3. ASSUME NEW c \in Callers, NEW n \in Names, drop(c, n) PROVE TypeInv'
    <2>1. MapOK'
        BY <1>3 DEF drop, TypeOK, MapOK, PoolsOK, tps, DefaultWithout
    <2>2. SettingsOK'
        BY <1>3 DEF drop, TypeOK, SettingsOK, faults, settings
    <2>3. PoolsOK' /\ FlushersOK' /\ PlacesOK' /\ OldShape'
        BY <1>3, FrameOK DEF drop, OldShape, tps
    <2> QED BY <2>1, <2>2, <2>3 DEF TypeOK
<1>4. ASSUME NEW c \in Callers, NEW on \in FlushLevels, flush_on(c, on) PROVE TypeInv'
    <2>1. MapOK'
        BY <1>4 DEF flush_on, TypeOK, MapOK, tps
    <2>2. SettingsOK'
        BY <1>4 DEF flush_on, TypeOK, SettingsOK, faults
    <2>3. PoolsOK' /\ FlushersOK' /\ PlacesOK' /\ OldShape'
        BY <1>4, FrameOK DEF flush_on, OldShape, tps
    <2> QED BY <2>1, <2>2, <2>3 DEF TypeOK
<1>5. ASSUME NEW c \in Callers, NEW on \in Registrations, set_automatic_registration(c, on)
      PROVE  TypeInv'
    <2>1. SettingsOK'
        BY <1>5 DEF set_automatic_registration, TypeOK, SettingsOK, faults
    <2>2. MapOK' /\ PoolsOK' /\ FlushersOK' /\ PlacesOK' /\ OldShape'
        BY <1>5, FrameOK DEF set_automatic_registration, OldShape, tps
    <2> QED BY <2>1, <2>2 DEF TypeOK
<1>6. ASSUME NEW c \in Callers, NEW l \in Loggers, create_async(c, l) PROVE TypeInv'
    <2>1. MapOK'
        BY <1>6 DEF create_async, TypeOK, MapOK, map
    <2>2. SettingsOK'
        BY <1>6 DEF create_async, TypeOK, SettingsOK, faults, settings
    <2>3. PoolsOK'
        BY <1>6 DEF create_async, TypeOK, PoolsOK
    <2>4. FlushersOK' /\ mapOwner' = mapOwner /\ flusherOwner' = flusherOwner
        BY <1>6, FrameOK DEF create_async
    <2>5. pc' = [pc EXCEPT ![c] = "initialize"] /\ old' = [old EXCEPT ![c] = l]
          /\ tpOwner' = c /\ tpOwner = None /\ pc[c] = "idle" /\ l \in Async /\ made' = made \cup {l}
        BY <1>6 DEF create_async, At
    <2>6. PlacesOK' /\ OldShape'
        BY <2>4, <2>5 DEF TypeOK, PlacesOK, OldShape, Places
    <2> QED BY <2>1, <2>2, <2>3, <2>4, <2>6 DEF TypeOK
<1>7. ASSUME NEW c \in Callers, NEW l \in Loggers, create(c, l) PROVE TypeInv'
    <2>1. MapOK'
        BY <1>7 DEF create, Initialize, Registers, Entered, TypeOK, MapOK, PoolsOK
    <2>2. SettingsOK'
        BY <1>7 DEF create, Initialize, Initial, TypeOK, SettingsOK, faults
    <2>3. PoolsOK'
        BY <1>7 DEF create, TypeOK, PoolsOK
    <2>4. FlushersOK' /\ PlacesOK' /\ OldShape'
        BY <1>7, FrameOK DEF create, OldShape
    <2> QED BY <2>1, <2>2, <2>3, <2>4 DEF TypeOK
<1>8. ASSUME NEW c \in Callers, NEW p \in Pools, set_tp(c, p) PROVE TypeInv'
    <2>1. SettingsOK'
        BY <1>8 DEF set_tp, TypeOK, SettingsOK, Misuse, settings
    <2>2. PoolsOK'
        BY <1>8 DEF set_tp, TypeOK, PoolsOK
    <2>3. MapOK' /\ FlushersOK' /\ PlacesOK' /\ OldShape'
        BY <1>8, FrameOK DEF set_tp, OldShape
    <2> QED BY <2>1, <2>2, <2>3 DEF TypeOK
<1>9. ASSUME NEW c \in Callers, NEW w \in Workers, NEW on \in BOOLEAN, flush_every(c, w, on) PROVE TypeInv'
    <2>1. SettingsOK'
        BY <1>9 DEF flush_every, TypeOK, SettingsOK, faults, settings
    <2>2. FlushersOK'
        BY <1>9 DEF flush_every, TypeOK, FlushersOK
    <2>3. MapOK' /\ PoolsOK' /\ made' = made
        BY <1>9, FrameOK DEF flush_every, tps
    <2>4. pc[c] = "idle" /\ pc[w] = "unborn" /\ flusherOwner = None /\ UNCHANGED <<mapOwner, tpOwner>>
        BY <1>9 DEF flush_every, At
    <2>5. CASE periodic_flusher_ = None
        <3>1. pc' = [pc EXCEPT ![w] = IF on THEN "check" ELSE "exited"] /\ UNCHANGED <<flusherOwner, old>>
            BY <1>9, <2>5 DEF flush_every
        <3>2. PlacesOK' /\ OldShape'
            BY <2>3, <2>4, <3>1 DEF TypeOK, PlacesOK, OldShape, Stages
        <3> QED BY <2>1, <2>2, <2>3, <3>2 DEF TypeOK
    <2>6. CASE periodic_flusher_ # None
        <3>1. pc' = [pc EXCEPT ![w] = IF on THEN "check" ELSE "exited", ![c] = "deactivate"]
              /\ flusherOwner' = c /\ old' = [old EXCEPT ![c] = periodic_flusher_]
            BY <1>9, <2>6 DEF flush_every
        <3>2. periodic_flusher_ \in Workers
            BY <2>6 DEF TypeOK, FlushersOK
        <3>3. PlacesOK' /\ OldShape'
            BY <2>3, <2>4, <3>1, <3>2 DEF TypeOK, PlacesOK, OldShape, Stages, Places
        <3> QED BY <2>1, <2>2, <2>3, <3>3 DEF TypeOK
    <2> QED BY <2>5, <2>6
<1>10. ASSUME NEW c \in Callers, shutdown(c) PROVE TypeInv'
    <2>1. SettingsOK'
        BY <1>10 DEF shutdown, TypeOK, SettingsOK, faults, settings
    <2>2. FlushersOK'
        BY <1>10 DEF shutdown, TypeOK, FlushersOK
    <2>3. MapOK' /\ PoolsOK' /\ made' = made
        BY <1>10, FrameOK DEF shutdown, tps
    <2>4. pc[c] = "idle" /\ flusherOwner = None /\ UNCHANGED <<mapOwner, tpOwner>>
        BY <1>10 DEF shutdown, At
    <2>5. PlacesOK' /\ OldShape'
        <3>1. CASE periodic_flusher_ = None
            BY <1>10, <2>3, <2>4, <3>1 DEF shutdown, Goto, TypeOK, PlacesOK, OldShape, Places
        <3>2. CASE periodic_flusher_ # None
            BY <1>10, <2>3, <2>4, <3>2 DEF shutdown, Goto, TypeOK, FlushersOK, PlacesOK, OldShape, Places
        <3> QED BY <3>1, <3>2
    <2> QED BY <2>1, <2>2, <2>3, <2>5 DEF TypeOK
<1>11. ASSUME NEW c \in Callers, CallStep(c) PROVE TypeInv'
    <2>1. ASSUME initialize_logger(c) PROVE TypeInv'
        <3>1. old[c] \in made /\ old[c] \in Loggers
            BY <2>1 DEF initialize_logger, At, OldShape, TypeOK, PoolsOK
        <3>2. MapOK'
            BY <2>1, <3>1 DEF initialize_logger, Initialize, Registers, Entered, TypeOK, MapOK, PoolsOK, tps
        <3>3. SettingsOK'
            BY <2>1, <3>1 DEF initialize_logger, Initialize, Initial, Enters, TypeOK, SettingsOK
        <3>4. PoolsOK' /\ FlushersOK'
            BY <2>1, FrameOK DEF initialize_logger
        <3>5. PlacesOK' /\ OldShape'
            BY <2>1 DEF initialize_logger, At, Goto, tps, TypeOK, PlacesOK, OldShape, Places
        <3> QED BY <3>2, <3>3, <3>4, <3>5 DEF TypeOK
    <2>2. ASSUME deactivate(c) \/ stop(c) PROVE TypeInv'
        <3>1. PICK to \in {"join_old", "join"} : Deactivate(c, IF to = "join" THEN "stop" ELSE "deactivate", to)
            BY <2>2 DEF deactivate, stop
        <3>2. FlushersOK'
            BY <3>1 DEF Deactivate, TypeOK, FlushersOK
        <3>3. MapOK' /\ SettingsOK' /\ PoolsOK'
            BY <3>1, FrameOK DEF Deactivate, tps
        <3>4. PlacesOK' /\ OldShape'
            BY <3>1 DEF Deactivate, At, Goto, tps, locks, TypeOK, PlacesOK, OldShape, Places
        <3> QED BY <3>2, <3>3, <3>4 DEF TypeOK
    <2>3. ASSUME join_old(c) \/ join(c) PROVE TypeInv'
        <3>1. MapOK' /\ SettingsOK' /\ PoolsOK' /\ FlushersOK'
            BY <2>3, FrameOK DEF join_old, join, tps
        <3>2. PlacesOK' /\ OldShape'
            BY <2>3 DEF join_old, join, At, Goto, tps, TypeOK, PlacesOK, OldShape, Places
        <3> QED BY <3>1, <3>2 DEF TypeOK
    <2>4. ASSUME drop_loggers(c) PROVE TypeInv'
        <3>1. MapOK'
            BY <2>4 DEF drop_loggers, EmptyMap, Cleared, tps, TypeOK, MapOK
        <3>2. SettingsOK' /\ PoolsOK' /\ FlushersOK'
            BY <2>4, FrameOK DEF drop_loggers
        <3>3. PlacesOK' /\ OldShape'
            BY <2>4 DEF drop_loggers, At, Goto, tps, locks, TypeOK, PlacesOK, OldShape, Places
        <3> QED BY <3>1, <3>2, <3>3 DEF TypeOK
    <2>5. ASSUME drop_tp(c) PROVE TypeInv'
        <3>1. PoolsOK'
            BY <2>5 DEF drop_tp, TypeOK, PoolsOK
        <3>2. MapOK' /\ SettingsOK' /\ FlushersOK'
            BY <2>5, FrameOK DEF drop_tp
        <3>3. PlacesOK' /\ OldShape'
            BY <2>5 DEF drop_tp, At, Goto, locks, TypeOK, PlacesOK, OldShape, Places
        <3> QED BY <3>1, <3>2, <3>3 DEF TypeOK
    <2> QED BY <1>11, <2>1, <2>2, <2>3, <2>4, <2>5 DEF CallStep
<1>12. ASSUME NEW w \in Workers, WorkStep(w) PROVE TypeInv'
    <2>1. ASSUME Check(w) \/ Timeout(w) PROVE TypeInv'
        <3>1. MapOK' /\ SettingsOK' /\ PoolsOK' /\ FlushersOK'
            BY <2>1, FrameOK DEF Check, Timeout, tps
        <3>2. PICK place \in {"wait", "flush_all", "exited"} :
                 /\ pc' = [pc EXCEPT ![w] = place] /\ pc[w] \in {"check", "wait"}
                 /\ UNCHANGED <<locks, old, made>>
            BY <2>1 DEF Check, Timeout, At, Goto, tps
        <3>3. PlacesOK' /\ OldShape'
            BY <3>2 DEF locks, TypeOK, PlacesOK, OldShape, Stages
        <3> QED BY <3>1, <3>3 DEF TypeOK
    <2>2. ASSUME LockMap(w) PROVE TypeInv'
        <3>1. FlushersOK'
            BY <2>2 DEF LockMap, Registered, TypeOK, FlushersOK, MapOK
        <3>2. MapOK' /\ SettingsOK' /\ PoolsOK'
            BY <2>2, FrameOK DEF LockMap, tps
        <3>3. PlacesOK' /\ OldShape'
            BY <2>2 DEF LockMap, Unlocked, At, Goto, tps, TypeOK, PlacesOK, OldShape, Stages
        <3> QED BY <3>1, <3>2, <3>3 DEF TypeOK
    <2>3. ASSUME NEW l \in Loggers, Flush(w, l) PROVE TypeInv'
        <3>1. FlushersOK'
            BY <2>3 DEF Flush, TypeOK, FlushersOK
        <3>2. SettingsOK'
            BY <2>3 DEF Flush, Orphan, settings, faults, TypeOK, SettingsOK
        <3>3. MapOK' /\ PoolsOK' /\ PlacesOK' /\ OldShape'
            BY <2>3, FrameOK DEF Flush, tps, OldShape
        <3> QED BY <3>1, <3>2, <3>3 DEF TypeOK
    <2>4. ASSUME UnlockMap(w) PROVE TypeInv'
        <3>1. MapOK' /\ SettingsOK' /\ PoolsOK' /\ FlushersOK'
            BY <2>4, FrameOK DEF UnlockMap, tps
        <3>2. PlacesOK' /\ OldShape'
            BY <2>4 DEF UnlockMap, At, Goto, tps, TypeOK, PlacesOK, OldShape, Stages
        <3> QED BY <3>1, <3>2 DEF TypeOK
    <2> QED BY <1>12, <2>1, <2>2, <2>3, <2>4 DEF WorkStep
<1>13. ASSUME NEW c \in Callers, drop_all(c) PROVE TypeInv'
    <2>1. MapOK'
        BY <1>13 DEF drop_all, EmptyMap, Cleared, tps, TypeOK, MapOK
    <2>2. SettingsOK' /\ PoolsOK' /\ FlushersOK' /\ PlacesOK' /\ OldShape'
        BY <1>13, FrameOK DEF drop_all, OldShape, tps
    <2> QED BY <2>1, <2>2 DEF TypeOK
<1>14. CASE UNCHANGED vars
    BY <1>14, FrameOK DEF vars, TypeOK, OldShape, tps
<1> QED
    BY <1>1, <1>2, <1>3, <1>4, <1>5, <1>6, <1>7, <1>8, <1>9, <1>10, <1>11, <1>12, <1>13, <1>14 DEF Next

\* Every variable keeps its type, and a mutex is owned exactly by the thread that
\* is between its lock and its unlock (registry-inl.h:48-250).
THEOREM TypeCorrect == Spec => []TypeOK
<1>1. Init => TypeInv
    BY InitTypeInv
<1>2. TypeInv /\ [Next]_vars => TypeInv'
    BY NextTypeInv
<1>3. TypeInv => TypeOK
    BY DEF TypeInv
<1> QED BY <1>1, <1>2, <1>3, PTL DEF Spec

-----------------------------------------------------------------------------
(* The map: the default logger and the settings.                           *)

\* A logger is in the map under its own name.
OwnName == \A n \in Names : loggers_[n] # None => NameOf[loggers_[n]] = n

MapInv == DefaultRegistered /\ OwnName /\ SettingsReach

\* No action of a flusher or of the pools touches the map or the settings.
LEMMA FrameMap == MapInv /\ UNCHANGED <<map, settings>> => MapInv'
    BY DEF MapInv, DefaultRegistered, OwnName, SettingsReach, Registered, map, settings

\* A new logger gets the setting and its name, if that is free.
LEMMA InitializeMap ==
    ASSUME TypeOK, MapInv, NEW l \in Loggers, Initialize(l)
    PROVE  MapInv'
<1> USE DEF TypeOK, MapOK, SettingsOK, MapInv
<1>1. DefaultRegistered' /\ OwnName'
    BY DEF Initialize, Registers, Entered, DefaultRegistered, OwnName
<1>2. SettingsReach'
    <2> SUFFICES ASSUME NEW m \in Registered' \ byHand PROVE flushOn'[m] = flush_level_
        BY DEF Initialize, SettingsReach
    <2>1. m \in Registered \cup {l} /\ m \in Loggers
        BY DEF Initialize, Registers, Entered, Registered
    <2>2. flushOn'[m] = IF m = l THEN flush_level_ ELSE flushOn[m]
        BY <2>1 DEF Initialize, Initial
    <2> QED BY <2>1, <2>2 DEF SettingsReach
<1> QED BY <1>1, <1>2

LEMMA NextMapInv == TypeInv /\ MapInv /\ [Next]_vars => MapInv'
<1> SUFFICES ASSUME TypeInv, MapInv, [Next]_vars PROVE MapInv'
    OBVIOUS
<1> USE DEF TypeInv
<1>1. ASSUME NEW c \in Callers, NEW l \in Loggers, register_logger(c, l) PROVE MapInv'
    <2>1. DefaultRegistered' /\ OwnName'
        BY <1>1 DEF register_logger, Entered, TypeOK, MapOK, MapInv, DefaultRegistered, OwnName
    <2>2. SettingsReach'
        <3>1. Registered' \subseteq Registered \cup {l} /\ byHand' = byHand \cup {l}
            BY <1>1 DEF register_logger, Entered, Registered, TypeOK, MapOK
        <3> QED BY <1>1, <3>1 DEF register_logger, settings, MapInv, SettingsReach
    <2> QED BY <2>1, <2>2 DEF MapInv
<1>2. ASSUME NEW c \in Callers, NEW l \in Loggers \cup {None}, set_default_logger(c, l) PROVE MapInv'
    <2>1. DefaultRegistered' /\ OwnName'
        BY <1>2 DEF set_default_logger, WithoutDefault, TypeOK, MapOK, PoolsOK, MapInv, DefaultRegistered, OwnName
    <2>2. Registered' \subseteq Registered \cup ({l} \ {None})
        BY <1>2 DEF set_default_logger, WithoutDefault, Registered, TypeOK, MapOK
    <2>3. \A m \in Registered' : m \in byHand \/ m \notin Registered => m \in byHand'
        BY <1>2, <2>2 DEF set_default_logger, Registered
    <2>4. SettingsReach'
        BY <1>2, <2>2, <2>3 DEF set_default_logger, settings, MapInv, SettingsReach
    <2> QED BY <2>1, <2>4 DEF MapInv
<1>3. ASSUME NEW c \in Callers, NEW n \in Names, drop(c, n) PROVE MapInv'
    <2>1. DefaultRegistered' /\ OwnName'
        BY <1>3 DEF drop, DefaultWithout, TypeOK, MapOK, PoolsOK, MapInv, DefaultRegistered, OwnName
    <2>2. Registered' \subseteq Registered
        BY <1>3 DEF drop, Registered, TypeOK, MapOK
    <2>3. loggers_[n] \notin Registered'
        BY <1>3 DEF drop, Registered, TypeOK, MapOK, MapInv, OwnName
    <2>4. SettingsReach'
        BY <1>3, <2>2, <2>3 DEF drop, settings, MapInv, SettingsReach
    <2> QED BY <2>1, <2>4 DEF MapInv
<1>4. ASSUME NEW c \in Callers, NEW on \in FlushLevels, flush_on(c, on) PROVE MapInv'
    <2>1. UNCHANGED <<loggers_, default_logger_>> /\ Registered' = Registered /\ Registered \subseteq Loggers
        BY <1>4 DEF flush_on, Registered, TypeOK, MapOK
    <2>2. SettingsReach'
        BY <1>4, <2>1 DEF flush_on, SettingsReach
    <2> QED BY <2>1, <2>2 DEF MapInv, DefaultRegistered, OwnName
<1>5. ASSUME NEW c \in Callers, NEW on \in Registrations, set_automatic_registration(c, on) PROVE MapInv'
    BY <1>5 DEF set_automatic_registration, map, MapInv, DefaultRegistered, OwnName, SettingsReach, Registered
<1>6. ASSUME NEW c \in Callers, NEW l \in Loggers, create(c, l) PROVE MapInv'
    BY <1>6, InitializeMap DEF create
<1>7. ASSUME NEW c \in Callers, initialize_logger(c) PROVE MapInv'
    <2>1. old[c] \in Loggers
        BY <1>7 DEF initialize_logger, At, OldShape, TypeOK, PoolsOK
    <2> QED BY <1>7, <2>1, InitializeMap DEF initialize_logger
<1>8. ASSUME NEW c \in Callers, drop_all(c) \/ drop_loggers(c) PROVE MapInv'
    BY <1>8 DEF drop_all, drop_loggers, EmptyMap, Cleared, MapInv, DefaultRegistered, OwnName, SettingsReach, Registered
<1>9. ASSUME NEW c \in Callers,
             \/ \E l \in Loggers : create_async(c, l)
             \/ \E p \in Pools : set_tp(c, p)
             \/ \E w \in Workers, on \in BOOLEAN : flush_every(c, w, on)
             \/ shutdown(c) \/ deactivate(c) \/ join_old(c) \/ stop(c) \/ join(c) \/ drop_tp(c)
      PROVE  MapInv'
    <2>1. UNCHANGED <<map, settings>>
        BY <1>9 DEF create_async, set_tp, flush_every, shutdown, deactivate, stop, Deactivate,
                    join_old, join, drop_tp
    <2> QED BY <2>1, FrameMap
<1>10. ASSUME NEW w \in Workers, WorkStep(w) PROVE MapInv'
    <2>1. UNCHANGED <<map, settings>>
        BY <1>10 DEF WorkStep, Check, Timeout, LockMap, UnlockMap, Flush
    <2> QED BY <2>1, FrameMap
<1>11. CASE UNCHANGED vars
    BY <1>11, FrameMap DEF vars
<1> QED
    BY <1>1, <1>2, <1>3, <1>4, <1>5, <1>6, <1>7, <1>8, <1>9, <1>10, <1>11 DEF Next, CallStep

LEMMA MapAlways == Spec => [](TypeInv /\ MapInv)
<1>1. ASSUME Init PROVE MapInv
    <2>1. \A n \in Names :
              loggers_[n] = IF default_logger_ # None /\ NameOf[default_logger_] = n
                            THEN default_logger_ ELSE None
        BY <1>1 DEF Init
    <2>2. DefaultRegistered /\ OwnName
        BY <1>1, <2>1 DEF Init, DefaultRegistered, OwnName
    <2>3. Registered \subseteq Loggers
        BY <1>1, InitTypeInv DEF Registered, TypeInv, TypeOK, MapOK
    <2>4. SettingsReach
        BY <1>1, <2>3 DEF Init, SettingsReach
    <2> QED BY <2>2, <2>4 DEF MapInv
<1> QED BY <1>1, InitTypeInv, NextTypeInv, NextMapInv, PTL DEF Spec

\* The default logger is in the map under its own name, always (registry-inl.h:111).
THEOREM DefaultCorrect == Spec => []DefaultRegistered
<1>1. MapInv => DefaultRegistered
    BY DEF MapInv
<1> QED BY <1>1, MapAlways, PTL

\* No logger that the registry initialised misses a setting (registry-inl.h:75, 181).
THEOREM SettingsCorrect == Spec => []SettingsReach
<1>1. MapInv => SettingsReach
    BY DEF MapInv
<1> QED BY <1>1, MapAlways, PTL

-----------------------------------------------------------------------------
(* One flusher.                                                            *)

\* Workers that do not begin and callers that keep what they destroy.
LEMMA FrameFlusher ==
    ASSUME OneFlusher, UNCHANGED <<periodic_flusher_, flusherOwner>>,
           \A w \in Workers : pc[w] \in {"unborn", "exited"} => pc'[w] = pc[w],
           \A c \in Callers : flusherOwner = c => old'[c] = old[c]
    PROVE  OneFlusher'
    BY DEF OneFlusher

LEMMA NextOneFlusher == TypeInv /\ OneFlusher /\ [Next]_vars => OneFlusher'
<1> SUFFICES ASSUME TypeInv, OneFlusher, [Next]_vars PROVE OneFlusher'
    OBVIOUS
<1> USE DEF TypeInv, TypeOK
<1>1. ASSUME NEW c \in Callers, NEW w \in Workers, NEW on \in BOOLEAN, flush_every(c, w, on) PROVE OneFlusher'
    <2>1. flusherOwner = None /\ periodic_flusher_' = w /\ pc \in [Callers \cup Workers -> Places \cup Stages]
          /\ old \in [Callers -> Workers \cup Loggers \cup {None}]
        BY <1>1 DEF flush_every, PlacesOK
    <2>2. CASE periodic_flusher_ = None
        BY <1>1, <2>1, <2>2 DEF flush_every, OneFlusher
    <2>3. CASE periodic_flusher_ # None
        BY <1>1, <2>1, <2>3 DEF flush_every, OneFlusher
    <2> QED BY <2>2, <2>3
<1>2. ASSUME NEW c \in Callers, shutdown(c) PROVE OneFlusher'
    <2>1. flusherOwner = None /\ \A w \in Workers : pc'[w] = pc[w]
        BY <1>2 DEF shutdown, Goto, PlacesOK
    <2>2. CASE periodic_flusher_ = None
        BY <1>2, <2>1, <2>2 DEF shutdown, OneFlusher
    <2>3. CASE periodic_flusher_ # None
        <3>1. flusherOwner' = c /\ old'[c] = periodic_flusher_
            BY <1>2, <2>3 DEF shutdown, PlacesOK
        <3> QED BY <2>1, <3>1 DEF OneFlusher
    <2> QED BY <2>2, <2>3
<1>3. ASSUME NEW c \in Callers, join_old(c) \/ join(c) PROVE OneFlusher'
    <2>1. pc[old[c]] = "exited" /\ flusherOwner = c /\ UNCHANGED periodic_flusher_
          /\ \A w \in Workers : pc'[w] = pc[w]
        BY <1>3 DEF join_old, join, Joined, At, Goto, flushers, PlacesOK
    <2> QED BY <2>1 DEF OneFlusher
<1>4. ASSUME NEW c \in Callers,
             \/ \E l \in Loggers : register_logger(c, l) \/ create_async(c, l) \/ create(c, l)
             \/ \E l \in Loggers \cup {None} : set_default_logger(c, l)
             \/ \E n \in Names : drop(c, n)
             \/ \E on \in FlushLevels : flush_on(c, on)
             \/ \E on \in Registrations : set_automatic_registration(c, on)
             \/ \E p \in Pools : set_tp(c, p)
             \/ initialize_logger(c) \/ deactivate(c) \/ stop(c) \/ drop_all(c) \/ drop_loggers(c) \/ drop_tp(c)
      PROVE  OneFlusher'
    <2>1. UNCHANGED <<periodic_flusher_, flusherOwner>>
        BY <1>4 DEF register_logger, create_async, create, set_default_logger, drop, flush_on,
                    set_automatic_registration, set_tp, initialize_logger, deactivate, stop, Deactivate,
                    drop_all, drop_loggers, drop_tp, flushers, locks
    <2>2. \A w \in Workers : pc'[w] = pc[w]
        BY <1>4 DEF register_logger, create_async, create, set_default_logger, drop, flush_on,
                    set_automatic_registration, set_tp, initialize_logger, deactivate, stop, Deactivate,
                    drop_all, drop_loggers, drop_tp, Goto, PlacesOK
    <2>3. \A d \in Callers : flusherOwner = d => old'[d] = old[d]
        BY <1>4 DEF register_logger, create_async, create, set_default_logger, drop, flush_on,
                    set_automatic_registration, set_tp, initialize_logger, deactivate, stop, Deactivate,
                    drop_all, drop_loggers, drop_tp, At, PlacesOK
    <2> QED BY <2>1, <2>2, <2>3, FrameFlusher
<1>5. ASSUME NEW w \in Workers, WorkStep(w) PROVE OneFlusher'
    <2>1. UNCHANGED <<periodic_flusher_, flusherOwner, old>> /\ pc[w] \notin {"unborn", "exited"}
          /\ \A v \in Workers \ {w} : pc'[v] = pc[v]
        BY <1>5 DEF WorkStep, Check, Timeout, LockMap, UnlockMap, Flush, At, Goto, flushers, locks, PlacesOK
    <2> QED BY <2>1, FrameFlusher
<1>6. CASE UNCHANGED vars
    BY <1>6, FrameFlusher DEF vars, flushers, locks
<1> QED
    BY <1>1, <1>2, <1>3, <1>4, <1>5, <1>6 DEF Next, CallStep

LEMMA FlusherAlways == Spec => [](TypeInv /\ OneFlusher)
<1>1. Init => OneFlusher
    BY DEF Init, OneFlusher
<1> QED BY <1>1, InitTypeInv, NextTypeInv, NextOneFlusher, PTL DEF Spec

\* No worker flushes after the call that replaced or ended it (registry.h:64-70).
THEOREM FlusherCorrect == Spec => []OneFlusher
    BY FlusherAlways, PTL

-----------------------------------------------------------------------------
(* Who ends the process: a flusher meets a logger that cannot post only if  *)
(* a caller orphaned it or registered it in the middle of a shutdown.      *)

\* A flusher that keeps the map's mutex flushes only what is in the map.
TodoRegistered == \A w \in Workers : pc[w] = "flushing" => todo[w] \subseteq Registered

\* An asynchronous logger is made with a pool.
MadeWithPool == \A l \in made \cap Async : thread_pool_[l] # None

\* Whoever is about to drop the pool has emptied the map: no asynchronous logger
\* is in it.
WindowEmpty == \A c \in Callers : pc[c] = "drop_tp" => Registered \cap Async = {}

\* Every logger in the map or on its way there has the pool of the registry.
PoolsHeld ==
    /\ \A l \in Registered : ~Orphan(l)
    /\ \A c \in Callers : pc[c] = "initialize" => thread_pool_[old[c]] = tp_

\* While a flusher is in the map nobody else changes it, and it only gets less
\* to do.
LEMMA NextTodo == TypeInv /\ TodoRegistered /\ [Next]_vars => TodoRegistered'
<1> SUFFICES ASSUME TypeInv, TodoRegistered, [Next]_vars,
                    NEW w \in Workers, pc'[w] = "flushing"
             PROVE  todo'[w] \subseteq Registered'
    BY DEF TodoRegistered
<1> USE DEF TypeInv, TypeOK
<1>1. CASE \E v \in Workers : LockMap(v)
    <2>1. PICK v \in Workers : LockMap(v)
        BY <1>1
    <2>2. mapOwner = None /\ Registered' = Registered /\ todo' = [todo EXCEPT ![v] = Registered]
          /\ pc' = [pc EXCEPT ![v] = "flushing"]
        BY <2>1 DEF LockMap, Unlocked, Registered, map, Goto
    <2>3. w = v
        BY <2>2 DEF PlacesOK
    <2> QED BY <2>2, <2>3 DEF FlushersOK
<1>2. CASE ~ \E v \in Workers : LockMap(v)
    <2>1. pc[w] = "flushing" /\ todo'[w] \subseteq todo[w]
        <3>1. ASSUME NEW v \in Workers, WorkStep(v) PROVE pc[w] = "flushing" /\ todo'[w] \subseteq todo[w]
            <4>1. pc[w] = "flushing"
                BY <1>2, <3>1 DEF WorkStep, Check, Timeout, Flush, UnlockMap, Goto, PlacesOK
            <4>2. todo' = todo \/ \E l \in Loggers : todo' = [todo EXCEPT ![v] = @ \ {l}]
                BY <1>2, <3>1 DEF WorkStep, Check, Timeout, Flush, UnlockMap, flushers
            <4> QED BY <4>1, <4>2 DEF FlushersOK
        <3>2. ASSUME ~ \E v \in Workers : WorkStep(v) PROVE pc[w] = "flushing" /\ todo' = todo
            <4>1. todo' = todo
                BY <3>2 DEF Next, CallStep, vars, register_logger, create_async, create, set_default_logger,
                    drop, flush_on, set_automatic_registration, set_tp, flush_every, shutdown,
                    initialize_logger, deactivate, join_old, stop, join, Deactivate, drop_all, drop_loggers, drop_tp, flushers
            <4>2. pc'[w] \in {pc[w], "check", "exited"}
                <5>1. ASSUME NEW c \in Callers, CallStep(c) PROVE pc'[w] \in {pc[w], "check", "exited"}
                    <6>1. CASE join_old(c)
                        BY <6>1 DEF join_old, Goto, PlacesOK
                    <6>2. CASE deactivate(c) \/ stop(c)
                        BY <6>2 DEF deactivate, stop, Deactivate, Goto, PlacesOK
                    <6>3. CASE initialize_logger(c) \/ join(c)
                        BY <6>3 DEF initialize_logger, join, Goto, PlacesOK
                    <6>4. CASE drop_loggers(c) \/ drop_tp(c)
                        BY <6>4 DEF drop_loggers, drop_tp, Goto, PlacesOK
                    <6> QED BY <5>1, <6>1, <6>2, <6>3, <6>4 DEF CallStep
                <5>2. CASE ~ \E c \in Callers : CallStep(c)
                    <6>1. ASSUME NEW c \in Callers, NEW v \in Workers, NEW on \in BOOLEAN, flush_every(c, v, on)
                          PROVE  pc'[w] \in {pc[w], "check", "exited"}
                        BY <6>1 DEF flush_every, PlacesOK
                    <6>2. CASE ~ \E c \in Callers, v \in Workers, on \in BOOLEAN : flush_every(c, v, on)
                        <7>1. pc' = pc \/ \E c \in Callers : \E place : pc' = [pc EXCEPT ![c] = place]
                            BY <3>2, <5>2, <6>2 DEF Next, vars, register_logger, create_async, create,
                               set_default_logger, drop, flush_on, set_automatic_registration, set_tp, shutdown, drop_all, Goto
                        <7> QED BY <7>1 DEF PlacesOK
                    <6> QED BY <6>1, <6>2
                <5> QED BY <5>1, <5>2
            <4> QED BY <4>1, <4>2
        <3> QED BY <3>1, <3>2
    <2>2. mapOwner # None
        BY <2>1 DEF PlacesOK
    <2>3. loggers_' = loggers_
        BY <1>2, <2>2 DEF Next, CallStep, WorkStep, vars, register_logger, create_async, create, set_default_logger,
                    drop, flush_on, set_automatic_registration, set_tp, flush_every, shutdown, WithMap,
                    initialize_logger, Initialize, deactivate, join_old, stop, join, Deactivate, drop_all, drop_loggers,
                    EmptyMap, drop_tp,
                    Check, Timeout, Flush, UnlockMap, map
    <2> QED BY <2>1, <2>3 DEF TodoRegistered, Registered
<1> QED BY <1>1, <1>2

LEMMA NextMadeWithPool == TypeInv /\ MadeWithPool /\ [Next]_vars => MadeWithPool'
<1> SUFFICES ASSUME TypeInv, MadeWithPool, [Next]_vars PROVE MadeWithPool'
    OBVIOUS
<1> USE DEF TypeInv, TypeOK
<1>1. ASSUME NEW c \in Callers, NEW l \in Loggers, create_async(c, l) PROVE MadeWithPool'
    <2>1. PICK p \in Pools : made' = made \cup {l} /\ thread_pool_' = [thread_pool_ EXCEPT ![l] = p]
        BY <1>1 DEF create_async, PoolsOK
    <2> QED BY <2>1 DEF MadeWithPool, PoolsOK
<1>2. ASSUME NEW c \in Callers, NEW l \in Loggers, create(c, l) PROVE MadeWithPool'
    BY <1>2 DEF create, MadeWithPool
<1>3. CASE UNCHANGED <<thread_pool_, made>>
    BY <1>3 DEF MadeWithPool
<1> QED
    BY <1>1, <1>2, <1>3
       DEF Next, CallStep, WorkStep, vars, register_logger, set_default_logger,
           drop, flush_on, set_automatic_registration, set_tp, flush_every, shutdown,
           initialize_logger, deactivate, join_old, stop, join, Deactivate, drop_all, drop_loggers, drop_tp,
           Check, Timeout, LockMap, Flush, UnlockMap, tps

ShutdownInv == ~misused /\ ~late => WindowEmpty /\ PoolsHeld

\* Loggers leave the map, and nobody comes to a creation or to the pool's drop.
LEMMA LessRegistered ==
    ASSUME ShutdownInv, misused => misused', late => late',
           Registered' \subseteq Registered, UNCHANGED <<thread_pool_, tp_>>,
           \A c \in Callers : pc'[c] = "drop_tp" => pc[c] = "drop_tp",
           \A c \in Callers : pc'[c] = "initialize" => pc[c] = "initialize" /\ old'[c] = old[c]
    PROVE  ShutdownInv'
    BY DEF ShutdownInv, WindowEmpty, PoolsHeld, Orphan

\* A logger that has its pool enters the map.
LEMMA OneRegistered ==
    ASSUME ShutdownInv, NEW l, Enters(l), misused => misused', ~misused /\ ~late /\ ~misused' => ~Orphan(l),
           late \in BOOLEAN, Registered' \subseteq Registered \cup {l}, UNCHANGED <<thread_pool_, tp_>>,
           \A c \in Callers : pc'[c] = "drop_tp" => pc[c] = "drop_tp",
           \A c \in Callers : pc'[c] = "initialize" => pc[c] = "initialize" /\ old'[c] = old[c]
    PROVE  ShutdownInv'
<1> SUFFICES ASSUME ~misused', ~late' PROVE WindowEmpty' /\ PoolsHeld'
    BY DEF ShutdownInv
<1>1. ~late /\ (l \in Async => \A c \in Callers : pc[c] # "drop_tp")
    BY DEF Enters
<1>2. ~misused /\ ~Orphan(l) /\ WindowEmpty /\ PoolsHeld
    BY <1>1 DEF ShutdownInv
<1> QED BY <1>1, <1>2 DEF WindowEmpty, PoolsHeld, Orphan

LEMMA NextShutdown == TypeInv /\ MadeWithPool /\ ShutdownInv /\ [Next]_vars => ShutdownInv'
<1> SUFFICES ASSUME TypeInv, MadeWithPool, ShutdownInv, [Next]_vars PROVE ShutdownInv'
    OBVIOUS
<1> USE DEF TypeInv, TypeOK
<1>0. misused \in BOOLEAN /\ late \in BOOLEAN /\ Registered \subseteq made
    BY DEF SettingsOK, MapOK, Registered
<1>1. ASSUME NEW c \in Callers, NEW l \in Loggers, register_logger(c, l) PROVE ShutdownInv'
    <2>1. Registered' \subseteq Registered \cup {l} /\ UNCHANGED <<pc, old, tp_, thread_pool_>>
        BY <1>1 DEF register_logger, Entered, Registered, MapOK, tps
    <2>2. Enters(l) /\ (misused => misused') /\ (~misused' => ~Orphan(l))
        BY <1>1 DEF register_logger, Misuse
    <2> QED BY <1>0, <2>1, <2>2, OneRegistered
<1>2. ASSUME NEW c \in Callers, NEW l \in Loggers \cup {None}, set_default_logger(c, l) PROVE ShutdownInv'
    <2>1. Registered' \subseteq Registered \cup {l} /\ UNCHANGED <<pc, old, tp_, thread_pool_>>
        BY <1>2 DEF set_default_logger, WithoutDefault, Registered, MapOK, tps
    <2>2. Enters(l) /\ (misused => misused') /\ (~misused' => ~Orphan(l))
        BY <1>2 DEF set_default_logger, Misuse
    <2> QED BY <1>0, <2>1, <2>2, OneRegistered
<1>3. ASSUME NEW c \in Callers,
             \/ \E n \in Names : drop(c, n)
             \/ \E on \in FlushLevels : flush_on(c, on)
             \/ \E on \in Registrations : set_automatic_registration(c, on)
             \/ drop_all(c)
      PROVE  ShutdownInv'
    <2>1. UNCHANGED <<misused, late, pc, old, tp_, thread_pool_>>
        BY <1>3 DEF drop, flush_on, set_automatic_registration, drop_all, tps, faults
    <2>2. \A n \in Names : loggers_'[n] \in {loggers_[n], None}
        BY <1>3 DEF drop, flush_on, set_automatic_registration, drop_all, EmptyMap, Cleared, MapOK, map
    <2>3. Registered' \subseteq Registered
        BY <2>2 DEF Registered
    <2> QED BY <2>1, <2>3, LessRegistered
<1>4. ASSUME NEW c \in Callers, NEW l \in Loggers, create_async(c, l) PROVE ShutdownInv'
    <2> SUFFICES ASSUME ~misused', ~late' PROVE WindowEmpty' /\ PoolsHeld'
        BY DEF ShutdownInv
    <2>1. WindowEmpty /\ PoolsHeld
        BY <1>4 DEF create_async, faults, ShutdownInv
    <2>2. PICK p \in Pools : /\ (tp_ # None => p = tp_) /\ tp_' = p
                             /\ thread_pool_' = [thread_pool_ EXCEPT ![l] = p]
        BY <1>4 DEF create_async, PoolsOK
    <2>3. Registered' = Registered /\ l \notin made /\ tpOwner = None
          /\ pc' = [pc EXCEPT ![c] = "initialize"] /\ old' = [old EXCEPT ![c] = l]
        BY <1>4 DEF create_async, map, Registered
    <2>4. WindowEmpty'
        BY <2>1, <2>3 DEF WindowEmpty, PlacesOK
    <2>5. ASSUME NEW m \in Registered PROVE ~Orphan(m)'
        <3>1. m # l /\ ~Orphan(m) /\ m \in made
            BY <1>0, <2>1, <2>3 DEF PoolsHeld
        <3>2. m \in Async => thread_pool_[m] = tp_ /\ tp_ # None
            BY <3>1 DEF Orphan, MadeWithPool
        <3> QED BY <2>2, <3>1, <3>2 DEF Orphan, PoolsOK
    <2>6. \A d \in Callers : pc'[d] = "initialize" => d = c
        BY <2>3 DEF PlacesOK
    <2>7. thread_pool_'[old'[c]] = tp_'
        BY <2>2, <2>3 DEF PoolsOK, PlacesOK
    <2> QED BY <2>3, <2>4, <2>5, <2>6, <2>7 DEF PoolsHeld
<1>5. ASSUME NEW c \in Callers, NEW l \in Loggers, create(c, l) PROVE ShutdownInv'
    <2> SUFFICES ASSUME ~misused', ~late' PROVE WindowEmpty' /\ PoolsHeld'
        BY DEF ShutdownInv
    <2>1. WindowEmpty /\ PoolsHeld
        BY <1>5 DEF create, faults, ShutdownInv
    <2>2. Registered' \subseteq Registered \cup {l} /\ l \notin Async /\ UNCHANGED <<pc, old, tp_, thread_pool_>>
        BY <1>5 DEF create, Initialize, Registers, Entered, Registered, MapOK
    <2> QED BY <2>1, <2>2 DEF WindowEmpty, PoolsHeld, Orphan
<1>6. ASSUME NEW c \in Callers, NEW p \in Pools, set_tp(c, p) PROVE ShutdownInv'
    <2> SUFFICES ASSUME ~misused', ~late' PROVE WindowEmpty' /\ PoolsHeld'
        BY DEF ShutdownInv
    <2>1. ~misused /\ ~late /\ tp_ = None
        BY <1>6 DEF set_tp, Misuse
    <2>2. Registered' = Registered /\ tpOwner = None /\ UNCHANGED <<pc, old, thread_pool_>>
        BY <1>6 DEF set_tp, map, Registered
    <2>3. \A m \in Registered : m \notin Async
        BY <1>0, <2>1 DEF ShutdownInv, PoolsHeld, Orphan, MadeWithPool
    <2>4. \A d \in Callers : pc[d] # "initialize"
        BY <2>2 DEF PlacesOK
    <2> QED BY <2>1, <2>2, <2>3, <2>4 DEF ShutdownInv, WindowEmpty, PoolsHeld, Orphan
<1>7. ASSUME NEW c \in Callers,
             \/ \E w \in Workers, on \in BOOLEAN : flush_every(c, w, on)
             \/ shutdown(c) \/ deactivate(c) \/ join_old(c) \/ stop(c) \/ join(c)
      PROVE  ShutdownInv'
    <2>1. Registered' = Registered /\ UNCHANGED <<misused, late, tp_, thread_pool_>>
        BY <1>7 DEF flush_every, shutdown, deactivate, stop, Deactivate, join_old, join, map, tps, faults, Registered
    <2>2. pc[c] # "initialize" /\ \A d \in Callers \ {c} : pc'[d] = pc[d] /\ old'[d] = old[d]
        BY <1>7 DEF flush_every, shutdown, deactivate, stop, Deactivate, join_old, join, At, Goto, PlacesOK
    <2>3. pc'[c] \in {"deactivate", "stop", "drop_all", "join_old", "join", "idle"}
        BY <1>7 DEF flush_every, shutdown, deactivate, stop, Deactivate, join_old, join, At, Goto, PlacesOK
    <2> QED BY <2>1, <2>2, <2>3, LessRegistered
<1>8. ASSUME NEW c \in Callers, initialize_logger(c) PROVE ShutdownInv'
    <2>1. pc[c] = "initialize" /\ UNCHANGED <<misused, tp_, thread_pool_>>
          /\ pc' = [pc EXCEPT ![c] = "idle"] /\ old' = [old EXCEPT ![c] = None]
        BY <1>8 DEF initialize_logger, At, Goto, tps
    <2>2. \A d \in Callers : /\ pc'[d] = "drop_tp" => pc[d] = "drop_tp"
                             /\ pc'[d] = "initialize" => pc[d] = "initialize" /\ old'[d] = old[d]
        BY <2>1 DEF PlacesOK
    <2>3. CASE Registers(old[c])
        <3>1. Registered' \subseteq Registered \cup {old[c]} /\ Enters(old[c])
            BY <1>8, <2>3 DEF initialize_logger, Initialize, Entered, Registered, MapOK
        <3>2. ~misused /\ ~late => ~Orphan(old[c])
            BY <2>1 DEF ShutdownInv, PoolsHeld, Orphan
        <3> QED BY <1>0, <2>1, <2>2, <3>1, <3>2, OneRegistered
    <2>4. CASE ~Registers(old[c])
        <3>1. Registered' = Registered /\ UNCHANGED late
            BY <1>8, <2>4 DEF initialize_logger, Initialize, Registered
        <3> QED BY <2>1, <2>2, <3>1, LessRegistered
    <2> QED BY <2>3, <2>4
<1>9. ASSUME NEW c \in Callers, drop_loggers(c) PROVE ShutdownInv'
    <2>1. Registered' = {}
        BY <1>9 DEF drop_loggers, EmptyMap, Cleared, Registered
    <2>2. UNCHANGED <<misused, late, old, tp_, thread_pool_>> /\ pc' = [pc EXCEPT ![c] = "drop_tp"]
        BY <1>9 DEF drop_loggers, Goto, tps, faults
    <2> QED BY <2>1, <2>2 DEF ShutdownInv, WindowEmpty, PoolsHeld, PlacesOK
<1>10. ASSUME NEW c \in Callers, drop_tp(c) PROVE ShutdownInv'
    <2> SUFFICES ASSUME ~misused', ~late' PROVE WindowEmpty' /\ PoolsHeld'
        BY DEF ShutdownInv
    <2>1. Registered' = Registered /\ Registered \cap Async = {}
        BY <1>10 DEF drop_tp, At, map, faults, Registered, ShutdownInv, WindowEmpty
    <2>2. \A d \in Callers : pc'[d] # "initialize"
        BY <1>10 DEF drop_tp, Goto, PlacesOK
    <2> QED BY <2>1, <2>2 DEF WindowEmpty, PoolsHeld, Orphan
<1>11. ASSUME NEW w \in Workers, WorkStep(w) PROVE ShutdownInv'
    <2>1. UNCHANGED <<misused, late, loggers_, thread_pool_, tp_, old>>
        BY <1>11 DEF WorkStep, Check, Timeout, LockMap, UnlockMap, Flush, map, tps, faults
    <2>2. \A c \in Callers : pc'[c] = pc[c]
        BY <1>11 DEF WorkStep, Check, Timeout, LockMap, UnlockMap, Flush, Goto, PlacesOK
    <2> QED BY <2>1, <2>2, LessRegistered DEF Registered
<1>12. CASE UNCHANGED vars
    BY <1>12, LessRegistered DEF vars, map, tps, faults, Registered
<1> QED
    BY <1>1, <1>2, <1>3, <1>4, <1>5, <1>6, <1>7, <1>8, <1>9, <1>10, <1>11, <1>12
       DEF Next, CallStep

EndsInv == TodoRegistered /\ MadeWithPool /\ ShutdownInv /\ EndsOnlyIfOrphaned

\* A flusher throws only for a logger in the map, and that has its pool unless
\* a caller orphaned it or it came in the middle of a shutdown.
LEMMA NextEnds == TypeInv /\ EndsInv /\ [Next]_vars => EndsOnlyIfOrphaned'
<1> SUFFICES ASSUME TypeInv, EndsInv, [Next]_vars PROVE EndsOnlyIfOrphaned'
    OBVIOUS
<1> USE DEF EndsInv
<1>1. misused \in BOOLEAN /\ late \in BOOLEAN
    BY DEF TypeInv, TypeOK, SettingsOK
<1>2. ASSUME NEW w \in Workers, NEW l \in Loggers, Flush(w, l) PROVE EndsOnlyIfOrphaned'
    <2>1. l \in Registered
        BY <1>2 DEF Flush, At, TodoRegistered
    <2>2. ~misused /\ ~late => ~Orphan(l)
        BY <2>1 DEF ShutdownInv, PoolsHeld
    <2> QED BY <1>1, <1>2, <2>2 DEF Flush, faults, EndsOnlyIfOrphaned
<1>3. CASE alive' = alive /\ (misused => misused') /\ (late => late')
    BY <1>3 DEF EndsOnlyIfOrphaned
<1> QED
    BY <1>1, <1>2, <1>3
       DEF Next, CallStep, WorkStep, vars, register_logger, create_async, create, set_default_logger,
           drop, flush_on, set_automatic_registration, set_tp, flush_every, shutdown, Misuse, Enters, faults,
           initialize_logger, deactivate, join_old, stop, join, Deactivate, drop_all, drop_loggers, drop_tp,
           Check, Timeout, LockMap, UnlockMap

\* The flusher thread ends the process only after a misuse or when an asynchronous
\* logger was registered between drop_all and the reset of the pool in a shutdown,
\* however else calls and flushes meet (registry-inl.h:237-250,
\* async_logger-inl.h:48).
THEOREM EndsCorrect == Spec => []EndsOnlyIfOrphaned
<1>1. ASSUME Init PROVE EndsInv
    <2>1. Registered \cap Async = {} /\ \A c \in Callers : pc[c] = "idle"
        BY <1>1 DEF Init, Registered
    <2>2. TodoRegistered /\ MadeWithPool /\ EndsOnlyIfOrphaned
        BY <1>1 DEF Init, TodoRegistered, MadeWithPool, EndsOnlyIfOrphaned
    <2>3. ShutdownInv
        BY <2>1 DEF ShutdownInv, WindowEmpty, PoolsHeld, Orphan
    <2> QED BY <2>2, <2>3 DEF EndsInv
<1>2. TypeInv /\ EndsInv /\ [Next]_vars => EndsInv'
    BY NextTodo, NextMadeWithPool, NextShutdown, NextEnds DEF EndsInv
<1>3. EndsInv => EndsOnlyIfOrphaned
    BY DEF EndsInv
<1> QED BY <1>1, <1>2, <1>3, InitTypeInv, NextTypeInv, PTL DEF Spec

-----------------------------------------------------------------------------
(* No threads wait for each other: whoever is ahead of a call goes on.     *)

FlusherPlaces == {"deactivate", "join_old", "stop", "join"}

\* The registry's worker has begun, and so has one that is being destroyed; who
\* joins it has told it to end, and nobody starts it again.
EndInv ==
    /\ periodic_flusher_ # None => pc[periodic_flusher_] # "unborn"
    /\ \A c \in Callers :
          /\ pc[c] \in FlusherPlaces => pc[old[c]] # "unborn"
          /\ pc[c] \in {"join_old", "join"} => ~active_[old[c]]

\* Workers go on and no caller comes to a place where it destroys one.
LEMMA FrameEnd ==
    ASSUME TypeInv, EndInv, UNCHANGED <<periodic_flusher_, active_>>,
           \A w \in Workers : pc[w] # "unborn" => pc'[w] # "unborn",
           \A c \in Callers :
              pc'[c] \in FlusherPlaces => pc'[c] = pc[c] /\ old'[c] = old[c]
    PROVE  EndInv'
<1>1. periodic_flusher_ \in Workers \cup {None}
    BY DEF TypeInv, TypeOK, FlushersOK
<1>2. \A c \in Callers : pc[c] \in FlusherPlaces => old[c] \in Workers
    BY DEF TypeInv, OldShape, FlusherPlaces
<1> QED BY <1>1, <1>2 DEF EndInv, FlusherPlaces

LEMMA NextEndInv == TypeInv /\ EndInv /\ [Next]_vars => EndInv'
<1> SUFFICES ASSUME TypeInv, EndInv, [Next]_vars PROVE EndInv'
    OBVIOUS
<1> USE DEF TypeInv, TypeOK
<1>0. /\ pc \in [Callers \cup Workers -> Places \cup Stages]
      /\ old \in [Callers -> Workers \cup Loggers \cup {None}]
      /\ active_ \in [Workers -> BOOLEAN]
      /\ periodic_flusher_ \in Workers \cup {None}
      /\ \A c \in Callers : pc[c] \in FlusherPlaces => old[c] \in Workers
    BY DEF PlacesOK, FlushersOK, OldShape, FlusherPlaces
<1>1. ASSUME NEW c \in Callers, NEW w \in Workers, NEW on \in BOOLEAN, flush_every(c, w, on) PROVE EndInv'
    <2>1. pc[w] = "unborn" /\ periodic_flusher_' = w /\ active_' = [active_ EXCEPT ![w] = on]
        BY <1>1 DEF flush_every
    <2>2. \A v \in Workers : IF v = w THEN pc'[v] \in {"check", "exited"} ELSE pc'[v] = pc[v]
        BY <1>0, <1>1 DEF flush_every
    <2>3. \A d \in Callers : pc'[d] \in FlusherPlaces =>
              \/ pc'[d] = pc[d] /\ old'[d] = old[d]
              \/ pc'[d] = "deactivate" /\ old'[d] = periodic_flusher_ /\ periodic_flusher_ # None
        BY <1>0, <1>1 DEF flush_every
    <2>4. pc'[periodic_flusher_'] # "unborn"
        BY <2>1, <2>2
    <2>5. ASSUME NEW d \in Callers, pc'[d] \in FlusherPlaces
          PROVE  /\ pc'[old'[d]] # "unborn"
                 /\ pc'[d] \in {"join_old", "join"} => ~active_'[old'[d]]
        <3>1. CASE pc'[d] = pc[d] /\ old'[d] = old[d]
            <4>1. old[d] \in Workers /\ pc[old[d]] # "unborn"
                BY <1>0, <2>5, <3>1 DEF EndInv
            <4>2. pc[d] \in {"join_old", "join"} => ~active_[old[d]]
                BY DEF EndInv
            <4> QED BY <1>0, <2>1, <2>2, <3>1, <4>1, <4>2
        <3>2. CASE pc'[d] = "deactivate" /\ old'[d] = periodic_flusher_ /\ periodic_flusher_ # None
            BY <1>0, <2>2, <3>2 DEF EndInv
        <3> QED BY <2>3, <2>5, <3>1, <3>2
    <2> QED BY <2>4, <2>5 DEF EndInv, FlusherPlaces
<1>2. ASSUME NEW c \in Callers, shutdown(c) PROVE EndInv'
    <2>1. UNCHANGED active_ /\ periodic_flusher_' = None /\ \A w \in Workers : pc'[w] = pc[w]
        BY <1>0, <1>2 DEF shutdown, Goto
    <2>2. \A d \in Callers : pc'[d] \in FlusherPlaces =>
              \/ pc'[d] = pc[d] /\ old'[d] = old[d]
              \/ pc'[d] = "stop" /\ old'[d] = periodic_flusher_ /\ periodic_flusher_ # None
        BY <1>0, <1>2 DEF shutdown, Goto, FlusherPlaces
    <2>3. ASSUME NEW d \in Callers, pc'[d] \in FlusherPlaces
          PROVE  /\ pc'[old'[d]] # "unborn"
                 /\ pc'[d] \in {"join_old", "join"} => ~active_'[old'[d]]
        BY <1>0, <2>1, <2>2, <2>3 DEF EndInv
    <2> QED BY <2>1, <2>3 DEF EndInv, FlusherPlaces
<1>3. ASSUME NEW c \in Callers, deactivate(c) \/ stop(c) PROVE EndInv'
    <2>1. PICK to \in {"join_old", "join"} :
             /\ pc' = [pc EXCEPT ![c] = to]
             /\ active_' = [active_ EXCEPT ![old[c]] = FALSE]
             /\ pc[c] \in FlusherPlaces
             /\ UNCHANGED <<periodic_flusher_, old>>
        BY <1>3 DEF deactivate, stop, Deactivate, At, Goto, FlusherPlaces
    <2>2. old[c] \in Workers /\ pc[old[c]] # "unborn"
        BY <1>0, <2>1 DEF EndInv
    <2>3. \A w \in Workers : pc'[w] = pc[w] /\ (active_'[w] => active_[w])
        BY <1>0, <2>1, <2>2
    <2>4. ASSUME NEW d \in Callers, pc'[d] \in FlusherPlaces
          PROVE  /\ pc'[old'[d]] # "unborn"
                 /\ pc'[d] \in {"join_old", "join"} => ~active_'[old'[d]]
        <3>1. CASE d = c
            BY <1>0, <2>1, <2>2, <2>3, <3>1
        <3>2. CASE d # c
            BY <1>0, <2>1, <2>3, <2>4, <3>2 DEF EndInv
        <3> QED BY <3>1, <3>2
    <2> QED BY <1>0, <2>1, <2>3, <2>4 DEF EndInv, FlusherPlaces
<1>4. ASSUME NEW c \in Callers,
             \/ \E l \in Loggers : register_logger(c, l) \/ create_async(c, l) \/ create(c, l)
             \/ \E l \in Loggers \cup {None} : set_default_logger(c, l)
             \/ \E n \in Names : drop(c, n)
             \/ \E on \in FlushLevels : flush_on(c, on)
             \/ \E on \in Registrations : set_automatic_registration(c, on)
             \/ \E p \in Pools : set_tp(c, p)
             \/ initialize_logger(c) \/ join_old(c) \/ join(c) \/ drop_all(c) \/ drop_loggers(c) \/ drop_tp(c)
      PROVE  EndInv'
    <2>1. UNCHANGED <<periodic_flusher_, active_>>
        BY <1>4 DEF register_logger, create_async, create, set_default_logger, drop, flush_on,
                    set_automatic_registration, set_tp, initialize_logger, join_old, join,
                    drop_all, drop_loggers, drop_tp, flushers
    <2>2. \/ UNCHANGED <<pc, old>>
          \/ /\ \E to \in {"initialize", "idle", "drop_all", "drop_tp"} : pc' = [pc EXCEPT ![c] = to]
             /\ \E o : old' = [old EXCEPT ![c] = o]
          \/ /\ \E to \in {"initialize", "idle", "drop_all", "drop_tp"} : pc' = [pc EXCEPT ![c] = to]
             /\ old' = old
        BY <1>4 DEF register_logger, create_async, create, set_default_logger, drop, flush_on,
                    set_automatic_registration, set_tp, initialize_logger, join_old, join,
                    drop_all, drop_loggers, drop_tp, Goto
    <2>3. \A w \in Workers : pc'[w] = pc[w]
        BY <1>0, <2>2
    <2>4. \A d \in Callers : pc'[d] \in FlusherPlaces => pc'[d] = pc[d] /\ old'[d] = old[d]
        BY <1>0, <2>2 DEF FlusherPlaces
    <2> QED BY <2>1, <2>3, <2>4, FrameEnd
<1>5. ASSUME NEW w \in Workers, WorkStep(w) PROVE EndInv'
    <2>1. UNCHANGED <<periodic_flusher_, active_, old>>
        BY <1>5 DEF WorkStep, Check, Timeout, LockMap, UnlockMap, Flush, flushers
    <2>2. pc' = pc \/ \E to \in Stages \ {"unborn"} : pc' = [pc EXCEPT ![w] = to]
        BY <1>5 DEF WorkStep, Check, Timeout, LockMap, UnlockMap, Flush, Goto, Stages
    <2>3. \A v \in Workers : pc[v] # "unborn" => pc'[v] # "unborn"
        BY <1>0, <2>2
    <2>4. \A d \in Callers : pc'[d] = pc[d]
        BY <1>0, <2>2
    <2> QED BY <2>1, <2>3, <2>4, FrameEnd
<1>6. CASE UNCHANGED vars
    BY <1>6, FrameEnd DEF vars, flushers
<1> QED
    BY <1>1, <1>2, <1>3, <1>4, <1>5, <1>6 DEF Next, CallStep

\* The worker with the map's mutex flushes; it waits for nobody.
LEMMA MapOwnerGoesOn ==
    ASSUME TypeInv, mapOwner # None
    PROVE  mapOwner \in Workers /\ ~Waiting(mapOwner)
<1>1. mapOwner \in Workers /\ pc[mapOwner] = "flushing"
    BY DEF TypeInv, TypeOK, PlacesOK
<1> QED BY <1>1 DEF Waiting

\* A worker that has begun and was told to end goes on, or the map's mutex is held.
LEMMA EndedGoesOn ==
    ASSUME TypeInv, NEW w \in Workers, ~active_[w], pc[w] \notin {"unborn", "exited"}, mapOwner = None
    PROVE  ~Waiting(w)
<1>1. pc[w] \in {"check", "wait", "flush_all", "flushing"}
    BY DEF TypeInv, TypeOK, PlacesOK, Stages
<1> QED BY <1>1 DEF Waiting, Unlocked

LEMMA SomeoneAheadGoesOn ==
    ASSUME TypeInv, EndInv, NEW c \in Callers, pc[c] # "idle"
    PROVE  \E t \in Ahead(c) \ {None} : ~Waiting(t)
<1>1. CASE mapOwner # None
    <2>1. mapOwner \in Ahead(c)
        BY DEF Ahead
    <2> QED BY <1>1, <2>1, MapOwnerGoesOn
<1>2. CASE mapOwner = None
    <2>0. c \in Ahead(c) \ {None} /\ pc[c] \in Places
        BY NoneAssumption DEF Ahead, TypeInv, TypeOK, PlacesOK
    <2>1. CASE pc[c] \in {"initialize", "drop_all"}
        <3>1. ~Waiting(c)
            BY <1>2, <2>1 DEF Waiting
        <3> QED BY <2>0, <3>1
    <2>2. CASE pc[c] = "drop_tp"
        <3>1. CASE tpOwner = None
            <4>1. ~Waiting(c)
                BY <2>2, <3>1 DEF Waiting
            <4> QED BY <2>0, <4>1
        <3>2. CASE tpOwner # None
            <4>1. tpOwner \in Callers /\ pc[tpOwner] = "initialize"
                BY <3>2 DEF TypeInv, TypeOK, PlacesOK
            <4>2. ~Waiting(tpOwner)
                BY <1>2, <4>1 DEF Waiting
            <4>3. tpOwner \in Ahead(c)
                BY <2>2 DEF Ahead
            <4> QED BY <3>2, <4>2, <4>3
        <3> QED BY <3>1, <3>2
    <2>3. CASE pc[c] \in FlusherPlaces
        <3>1. old[c] \in Workers /\ pc[old[c]] # "unborn" /\ old[c] # None
            BY <2>3, NoneAssumption DEF TypeInv, OldShape, EndInv, FlusherPlaces
        <3>2. old[c] \in Ahead(c)
            BY <2>3 DEF Ahead, FlusherPlaces
        <3>3. CASE pc[c] \in {"deactivate", "stop"}
            <4>1. CASE pc[old[c]] \in {"flush_all", "flushing"}
                <5>1. ~Waiting(old[c])
                    BY <1>2, <4>1 DEF Waiting, Unlocked
                <5> QED BY <3>1, <3>2, <5>1
            <4>2. CASE pc[old[c]] \notin {"flush_all", "flushing"}
                <5>1. ~Waiting(c)
                    BY <3>3, <4>2 DEF Waiting
                <5> QED BY <2>0, <5>1
            <4> QED BY <4>1, <4>2
        <3>4. CASE pc[c] \in {"join_old", "join"}
            <4>1. CASE pc[old[c]] = "exited"
                <5>1. ~Waiting(c)
                    BY <3>4, <4>1 DEF Waiting, Joined
                <5> QED BY <2>0, <5>1
            <4>2. CASE pc[old[c]] # "exited"
                <5>1. ~active_[old[c]]
                    BY <3>4 DEF EndInv
                <5>2. ~Waiting(old[c])
                    BY <1>2, <3>1, <4>2, <5>1, EndedGoesOn
                <5> QED BY <3>1, <3>2, <5>2
            <4> QED BY <4>1, <4>2
        <3> QED BY <2>3, <3>3, <3>4 DEF FlusherPlaces
    <2> QED BY <2>0, <2>1, <2>2, <2>3 DEF Places, FlusherPlaces
<1> QED BY <1>1, <1>2

\* Of those a call waits for, one behind the other, one goes on: flush_every and
\* shutdown may join a worker under flusher_mutex_ (registry.h:67,
\* registry-inl.h:241, periodic_worker-inl.h:12-21).
THEOREM NeverDeadlocks == Spec => []NoDeadlock
<1>1. Init => EndInv
    BY DEF Init, EndInv, FlusherPlaces
<1>2. TypeInv /\ EndInv => NoDeadlock
    BY SomeoneAheadGoesOn DEF NoDeadlock
<1> QED BY <1>1, <1>2, InitTypeInv, NextTypeInv, NextEndInv, PTL DEF Spec
=============================================================================
