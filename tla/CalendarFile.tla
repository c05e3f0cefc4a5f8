---------------------------- MODULE CalendarFile ----------------------------
(***************************************************************************)
(* spdlog's daily and hourly file sinks over file_helper                   *)
(* (sinks/daily_file_sink.h, sinks/hourly_file_sink.h): one file a day or  *)
(* an hour, named after it, of which the newest max_files are kept.        *)
(*                                                                         *)
(* A message carries the time at which it was logged and reaches the sink  *)
(* later, in any order: it waits for the sink's mutex or in the queue of a *)
(* thread pool.  The sink compares that time with rotation_tp_, but takes  *)
(* the next rotation_tp_ from the clock.                                   *)
(*                                                                         *)
(* Time is counted in ticks, Period of them in a day (or an hour); a file  *)
(* is named by the number of its period.  What the stream still buffers    *)
(* counts as written (RotatingFile is about that).                         *)
(***************************************************************************)
EXTENDS Naturals, Sequences, FiniteSets, FiniteSetsExt, SequencesExt

CONSTANTS
    Period,      \* ticks in a period
    Arguments,   \* arguments a program may construct the sink with
    MaxTime,     \* bound of the model: the clock
    MaxMsgs,     \* bound of the model: messages
    MaxFaults    \* bound of the model: failed calls and process ends

\* hourly: of the two sinks; rotation: rotation_hour and rotation_minute, 0 for
\* midnight and for the hourly sink.
Argument == [hourly : BOOLEAN, rotation : 0..Period - 1, truncate : BOOLEAN, max_files : Nat]

ASSUME PeriodAssumption   == Period \in Nat \ {0}
ASSUME ArgumentAssumption ==
    Arguments \subseteq Argument /\ \A a \in Arguments : a.hourly => a.rotation = 0
ASSUME BoundAssumption    == MaxTime \in Nat /\ MaxMsgs \in Nat /\ MaxFaults \in Nat

Times    == 0..MaxTime
PeriodOf(t) == t \div Period
Names    == 0..PeriodOf(MaxTime)
Messages == [id : 1..MaxMsgs, time : Times]

VARIABLES
    arg,                \* the arguments, the same after every restart
    now,                \* log_clock
    logged,             \* messages logged so far
    pending,            \* messages on their way to the sink
    pc,                 \* "down", "up", or "undefined" after undefined behaviour
    filename,           \* file_helper_.filename()
    fd_,                \* the stream is open
    rotation_tp_,
    filenames_q_,
    remove_init_file_,  \* of the hourly sink
    files,              \* for every name: whether the file exists, and its messages
    faults,
    opened,             \* history: names the present sink has opened
    untracked,          \* history: of these, those no deletion will come back to
    late                \* history: names opened when their time was already over

world   == <<arg, logged>>
sink    == <<filename, fd_, rotation_tp_, filenames_q_, remove_init_file_>>
history == <<opened, untracked, late>>
vars    == <<world, now, pending, pc, sink, files, faults, history>>

NoFile == [exists |-> FALSE, data |-> {}]
Exists == {n \in Names : files[n].exists}

TypeOK ==
    /\ arg \in Arguments
    /\ now \in Times /\ logged \in 0..MaxMsgs
    /\ pending \subseteq Messages /\ \A m \in pending : m.time <= now
    /\ pc \in {"down", "up", "undefined"}
    /\ filename \in Names /\ fd_ \in BOOLEAN
    /\ (fd_ => pc = "up" /\ files[filename].exists)
    /\ rotation_tp_ \in Nat /\ rotation_tp_ % Period = arg.rotation
    /\ filenames_q_ \in Seq(Names) /\ Len(filenames_q_) <= arg.max_files
    /\ remove_init_file_ \in BOOLEAN
    /\ files \in [Names -> [exists : BOOLEAN, data : SUBSET Messages]]
    /\ \A n \in Names : files[n].exists \/ files[n].data = {}
    /\ faults \in 0..MaxFaults
    /\ opened \subseteq Names /\ untracked \subseteq Names /\ late \subseteq Names

Init ==
    /\ arg \in Arguments
    /\ now = 0 /\ logged = 0 /\ pending = {}
    /\ pc = "down"
    /\ filename = 0 /\ fd_ = FALSE
    /\ rotation_tp_ = arg.rotation
    /\ filenames_q_ = <<>>
    /\ remove_init_file_ = FALSE
    /\ files = [n \in Names |-> NoFile]
    /\ faults = 0
    /\ opened = {} /\ untracked = {} /\ late = {}

-----------------------------------------------------------------------------
(* Helpers.                                                                *)

\* A call of the file system fails, or the process ends.
Fault == faults < MaxFaults /\ faults' = faults + 1

\* next_rotation_tp_ at time t.  (Variant: rotation_time >= now.)
NextRotation_Same(t) ==
    LET time == PeriodOf(t) * Period + arg.rotation
    IN  IF time >= t THEN time ELSE time + Period
NextRotation(t) ==
    LET time == PeriodOf(t) * Period + arg.rotation
    IN  IF time > t THEN time ELSE time + Period

\* should_rotate.  (Variant: time > rotation_tp_.)
ShouldRotate_After(time) == time > rotation_tp_
ShouldRotate(time) == time >= rotation_tp_

\* The files after open(name, truncate_) succeeded.  (Variant: it always
\* truncates.)
Opened_Emptied(name, fs) == [fs EXCEPT ![name] = [exists |-> TRUE, data |-> {}]]
Opened(name, fs) ==
    [fs EXCEPT ![name] = [exists |-> TRUE, data |-> IF arg.truncate THEN {} ELSE @.data]]

\* The files after it failed: nothing is opened, but the file may have been
\* emptied or created by the attempt to truncate it.
OpenFailed(name, fs) ==
    {fs} \cup (IF arg.truncate THEN {Opened(name, fs)} ELSE {})

\* The time in which a file is written to has passed at time t.
Over(name, t) == t >= (name + 1) * Period + arg.rotation

\* init_filenames_q_ at time t: the unbroken row of files back from t, at most
\* max_files of them, the oldest first.
InitialQueue(t, fs) ==
    LET today == PeriodOf(t)
        count == Max({c \in 0..today + 1 :
                        c <= arg.max_files /\ \A k \in today + 1 - c..today : fs[k].exists})
    IN  [i \in 1..count |-> today + i - count]

\* filenames_q_ after delete_old_, given whether the old file could be removed.
\* (Variant: when it could not, the current file is not entered.)
QueueAfterDelete_Forgets(q, current, ok) ==
    IF Len(q) < arg.max_files THEN Append(q, current)
    ELSE IF ok THEN Append(Tail(q), current) ELSE Tail(q)
QueueAfterDelete(q, current, ok) ==
    Append(IF Len(q) = arg.max_files THEN Tail(q) ELSE q, current)

-----------------------------------------------------------------------------
(* The world around the sink.                                              *)

Tick ==
    /\ now < MaxTime /\ pc # "undefined"
    /\ now' = now + 1
    /\ UNCHANGED <<world, pending, pc, sink, files, faults, history>>

\* A log_msg is made, with the time of the clock.
Log ==
    /\ pc = "up" /\ logged < MaxMsgs
    /\ logged' = logged + 1
    /\ pending' = pending \cup {[id |-> logged + 1, time |-> now]}
    /\ UNCHANGED <<arg, now, pc, sink, files, faults, history>>

\* The process ends; its messages end with it.
ProcessEnds ==
    /\ pc = "up" /\ Fault
    /\ pc' = "down" /\ fd_' = FALSE /\ pending' = {}
    /\ UNCHANGED <<world, now, filename, rotation_tp_, filenames_q_, remove_init_file_, files, history>>

\* The constructor reads the clock for the name of the file, at t in
\* next_rotation_tp_ and at u in init_filenames_q_; it may go on in between.
Construct(t, u) ==
    /\ pc = "down" /\ now <= t /\ t <= u
    /\ now' = u
    /\ LET name == PeriodOf(now)
       IN  /\ files' = Opened(name, files)
           /\ filename' = name /\ fd_' = TRUE
           /\ remove_init_file_' = (arg.hourly /\ files'[name].data = {})
           /\ filenames_q_' = IF arg.max_files = 0 THEN <<>> ELSE InitialQueue(u, files')
           /\ opened' = {name}
           /\ untracked' = {name} \ ToSet(filenames_q_')
           /\ late' = IF Over(name, t) THEN late \cup {name} ELSE late
    /\ rotation_tp_' = NextRotation(t)
    /\ pc' = "up"
    /\ UNCHANGED <<world, pending, faults>>

ConstructThrows ==
    /\ pc = "down" /\ Fault
    /\ files' \in OpenFailed(PeriodOf(now), files)
    /\ UNCHANGED <<world, now, pending, pc, sink, history>>

-----------------------------------------------------------------------------
(* sink_it_, under the mutex of the sink.                                  *)

Take(m) ==
    /\ pc = "up"
    /\ pending' = pending \ {m}
    /\ UNCHANGED <<world, now>>

\* The message goes to the open file, or fwrite fails and it is lost.
Write(m) ==
    /\ Take(m) /\ ~ShouldRotate(m.time) /\ fd_
    /\ \/ files' = [files EXCEPT ![filename].data = @ \cup {m}] /\ UNCHANGED faults
       \/ Fault /\ UNCHANGED files
    /\ remove_init_file_' = FALSE
    /\ UNCHANGED <<pc, filename, fd_, rotation_tp_, filenames_q_, history>>

\* After a rotation that could not open its file, a message from before that
\* rotation is written through a null stream, which is undefined; the C library
\* of the build ends the process.
WriteToNull(m) ==
    /\ Take(m) /\ ~ShouldRotate(m.time) /\ ~fd_
    /\ pc' = "undefined"
    /\ UNCHANGED <<sink, files, faults, history>>

\* The files when the hourly sink has removed the file its constructor opened
\* and nothing was written to; whether that worked is not looked at.
InitRemoved ==
    IF ~remove_init_file_ THEN {files}
    ELSE {[files EXCEPT ![filename] = NoFile]} \cup (IF faults < MaxFaults THEN {files} ELSE {})

\* The file of the message's period cannot be opened.
RotateThrows(m) ==
    /\ Take(m) /\ ShouldRotate(m.time) /\ Fault
    /\ \E fs \in InitRemoved : files' \in OpenFailed(PeriodOf(m.time), fs)
    /\ filename' = PeriodOf(m.time) /\ fd_' = FALSE
    /\ UNCHANGED <<pc, rotation_tp_, filenames_q_, remove_init_file_, history>>

\* It is opened.
Rotate(m) ==
    /\ Take(m) /\ ShouldRotate(m.time)
    /\ filename' = PeriodOf(m.time) /\ fd_' = TRUE
    /\ rotation_tp_' = NextRotation(now)
    /\ remove_init_file_' = FALSE
    /\ opened' = opened \cup {filename'}
    /\ late' = IF Over(filename', now) THEN late \cup {filename'} ELSE late
    /\ UNCHANGED pc

\* fwrite fails: delete_old_ is not reached and the new file not entered.
RotateWriteThrows(m) ==
    /\ Rotate(m) /\ Fault
    /\ \E fs \in InitRemoved : files' = Opened(filename', fs)
    /\ untracked' = untracked \cup {filename'}
    /\ UNCHANGED filenames_q_

\* It is written, and delete_old_ has nothing to delete.
RotateOnly(m) ==
    /\ Rotate(m)
    /\ Len(filenames_q_) < arg.max_files \/ arg.max_files = 0
    /\ \E fs \in InitRemoved : files' = [Opened(filename', fs) EXCEPT ![filename'].data = @ \cup {m}]
    /\ filenames_q_' = IF arg.max_files = 0 THEN <<>>
                       ELSE QueueAfterDelete(filenames_q_, filename', TRUE)
    /\ UNCHANGED <<faults, untracked>>

\* The old file is deleted; a file that is open cannot be on this system.
RotateDelete(m) ==
    /\ Rotate(m)
    /\ arg.max_files > 0 /\ Len(filenames_q_) = arg.max_files
    /\ Head(filenames_q_) # filename'
    /\ \E fs \in InitRemoved :
          files' = [Opened(filename', fs) EXCEPT ![filename'].data = @ \cup {m},
                                                 ![Head(filenames_q_)] = NoFile]
    /\ filenames_q_' = QueueAfterDelete(filenames_q_, filename', TRUE)
    /\ UNCHANGED <<faults, untracked>>

\* It cannot be deleted: delete_old_ throws, and will not try this file again.
RotateDeleteThrows(m) ==
    /\ Rotate(m)
    /\ arg.max_files > 0 /\ Len(filenames_q_) = arg.max_files
    /\ IF Head(filenames_q_) = filename' THEN UNCHANGED faults ELSE Fault
    /\ \E fs \in InitRemoved :
          /\ fs[Head(filenames_q_)].exists
          /\ files' = [Opened(filename', fs) EXCEPT ![filename'].data = @ \cup {m}]
    /\ filenames_q_' = QueueAfterDelete(filenames_q_, filename', FALSE)
    /\ untracked' = untracked \cup {Head(filenames_q_)}

-----------------------------------------------------------------------------
SinkIt ==
    \E m \in pending :
        \/ Write(m) \/ WriteToNull(m)
        \/ RotateThrows(m) \/ RotateWriteThrows(m)
        \/ RotateOnly(m) \/ RotateDelete(m) \/ RotateDeleteThrows(m)

Next ==
    \/ Tick \/ Log \/ ProcessEnds
    \/ \E t, u \in now..MaxTime : Construct(t, u)
    \/ ConstructThrows
    \/ SinkIt

Spec == Init /\ [][Next]_vars

-----------------------------------------------------------------------------
(* Properties.                                                             *)

\* No message gets into the file of a period that was over when it was logged,
\* however late it comes (daily_file_sink.h:157-163): unless the file itself was
\* opened when its time was over, by a late message or by a constructor that
\* midnight went past.
NeverBackdated ==
    \A n \in Names \ late : \A m \in files[n].data : ~Over(n, m.time)

\* "If max_files > 0, retain only the last max_files and delete previous"
\* (daily_file_sink.h:115): of the files a sink has opened there are never more
\* than that, those aside whose deletion or whose entry in the queue failed.
WithinMax ==
    pc = "up" /\ arg.max_files > 0 =>
        Cardinality((opened \ untracked) \cap Exists) <= arg.max_files

\* ... and never fewer: when a file with messages is deleted (daily_file_sink.h:238,
\* hourly_file_sink.h:164), max_files are left.  One fewer for the hourly sink,
\* whose queue counts the empty file it has removed itself.  A rotation at
\* another time than midnight enters a day twice and deletes one file too many:
\* for that line 115 is not kept, and the property leaves it out.
KeepsMaxFiles ==
    [][(arg.rotation = 0 /\ \E n \in Names : files[n].data # {} /\ ~files'[n].exists)
        => Cardinality(Exists') >= IF arg.hourly THEN arg.max_files - 1 ELSE arg.max_files]_vars

\* A file loses its messages only as a whole, or to a constructor that truncates:
\* no rotation opens a file a second time, with late messages, failures and
\* restarts (daily_file_sink.h:162).  A rotation at another time than midnight does,
\* and then truncate_ must be off.
NothingTruncated ==
    [][(arg.rotation = 0 \/ ~arg.truncate) /\ ~(pc = "down" /\ arg.truncate) =>
        \A n \in Names : files[n].data \subseteq files'[n].data \/ ~files'[n].exists]_vars
=============================================================================
