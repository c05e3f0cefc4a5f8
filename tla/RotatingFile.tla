---------------------------- MODULE RotatingFile ----------------------------
(***************************************************************************)
(* spdlog's rotating file sink over file_helper                            *)
(* (sinks/rotating_file_sink-inl.h, details/file_helper-inl.h): the files  *)
(* log.txt, log.1.txt, ... and the stream that the current one is written  *)
(* through.  Every call of the file system may fail, and the process may   *)
(* end between any two of them and start again.                            *)
(*                                                                         *)
(* The sink is entered under its mutex (base_sink), so there is one caller *)
(* at a time.  Of a message only its number and its length matter.         *)
(***************************************************************************)
EXTENDS Naturals, Sequences, SequencesExt

CONSTANTS
    MaxSize,       \* max_size: bytes of one file
    MaxFiles,      \* max_files: rotated files kept
    RotateOnOpen,  \* values of rotate_on_open a process may start with
    Lengths,       \* lengths of formatted messages
    MaxMsgs,       \* bound of the model: messages
    MaxFaults      \* bound of the model: failed calls and crashes

ASSUME SizeAssumption   == MaxSize \in Nat \ {0} /\ MaxFiles \in Nat
ASSUME OpenAssumption   == RotateOnOpen \subseteq BOOLEAN
ASSUME LengthAssumption == Lengths \subseteq Nat \ {0}
ASSUME BoundAssumption  == MaxMsgs \in Nat /\ MaxFaults \in Nat

Indices == 0..MaxFiles  \* calc_filename: 0 is log.txt, n is log.n.txt

\* What there is of a message in a file: len bytes, all of them or not.
Piece == [id : 1..MaxMsgs, len : Nat \ {0}, whole : BOOLEAN]

VARIABLES
    pc,             \* where the sink is; "down" when there is none
    why,            \* what rotate_ was entered for: a message ("log"), or on open
    round,          \* round of the loop of rotate_
    msg,            \* the message sink_it_ has been given
    new_size,       \* of sink_it_
    current_size_,  \* the sink's idea of the size of log.txt
    fd_,            \* the stream is open
    buf,            \* pieces the stream has not yet given to the file
    files,          \* for every index: whether the file exists, and its pieces
    faults          \* failed calls and crashes so far

loop    == <<why, round>>
message == <<msg, new_size>>
stream  == <<fd_, buf>>
vars    == <<pc, loop, message, current_size_, stream, files, faults>>

NoFile    == [exists |-> FALSE, data |-> <<>>]

TypeOK ==
    /\ pc \in {"down", "idle", "write", "remove", "rename", "reopen", "truncate", "undefined"}
    /\ why \in {"log", "open"}
    /\ round \in 1..MaxFiles + 1
    /\ (pc \in {"remove", "rename"} => round <= MaxFiles)
    /\ msg \in [id : 0..MaxMsgs, len : Nat]
    /\ new_size \in Nat /\ current_size_ \in Nat
    /\ fd_ \in BOOLEAN
    /\ buf \in Seq(Piece)
    /\ files \in [Indices -> [exists : BOOLEAN, data : Seq(Piece)]]
    /\ \A n \in Indices : files[n].exists \/ files[n].data = <<>>
    /\ (fd_ => files[0].exists) /\ (~fd_ => buf = <<>>)
    /\ faults \in 0..MaxFaults

Init ==
    /\ pc = "down" /\ why = "open" /\ round = 1
    /\ msg = [id |-> 0, len |-> 0] /\ new_size = 0
    /\ current_size_ = 0
    /\ fd_ = FALSE /\ buf = <<>>
    /\ files = [n \in Indices |-> NoFile]
    /\ faults = 0

-----------------------------------------------------------------------------
(* Helpers.                                                                *)

Total(numbers) ==
    LET sum[i \in 0..Len(numbers)] == IF i = 0 THEN 0 ELSE sum[i - 1] + numbers[i]
    IN  sum[Len(numbers)]

\* All bytes, and those of messages that are there as a whole.
Bytes(pieces)      == Total([i \in DOMAIN pieces |-> pieces[i].len])
WholeBytes(pieces) == Total([i \in DOMAIN pieces |-> IF pieces[i].whole THEN pieces[i].len ELSE 0])

\* The files after the stream's buffer has reached log.txt.  (Variant: a stream
\* that writes at the beginning of the file.)
Drained_Front == [files EXCEPT ![0].data = buf \o @]
Drained == [files EXCEPT ![0].data = @ \o buf]

\* A call of the file system fails, or the process ends.
Fault == faults < MaxFaults /\ faults' = faults + 1

\* current_size_ when log.txt has been opened.  (Variant: as if it were empty.)
OpenedSize_Zero == 0
OpenedSize == Bytes(files[0].data)

\* for (i = max_files_; i > 0; --i): i in each round of rotate_.  (Variant: from
\* the newest file to the oldest.)
Round_Up(r) == r
Round(r) == MaxFiles + 1 - r

\* The loop of rotate_ is over.
LoopOver(r) == r > MaxFiles

\* log.txt after open with truncate.
Emptied == [files EXCEPT ![0] = [exists |-> TRUE, data |-> <<>>]]

\* The next round.
GoOn(r) ==
    /\ round' = r
    /\ pc' = IF LoopOver(r) THEN "reopen" ELSE "remove"

\* rotate_ is entered for the given reason; it begins with close().
Rotate(reason) ==
    /\ why' = reason
    /\ GoOn(1)
    /\ fd_' = FALSE /\ buf' = <<>>

\* An exception leaves the sink; the constructor's closes the stream as well.
Throw(open) ==
    /\ pc' = IF why = "open" THEN "down" ELSE "idle"
    /\ fd_' = (open /\ why = "log")
    /\ UNCHANGED <<loop, message, buf>>

-----------------------------------------------------------------------------
(* The constructor, and the end of the process.                            *)

\* Opens log.txt for appending, takes its size, rotates when asked to.
Construct(rotate_on_open) ==
    /\ pc = "down"
    /\ current_size_' = OpenedSize
    /\ files' = [files EXCEPT ![0].exists = TRUE]
    /\ IF rotate_on_open /\ OpenedSize > 0
       THEN Rotate("open")
       ELSE pc' = "idle" /\ fd_' = TRUE /\ UNCHANGED <<loop, buf>>
    /\ UNCHANGED <<message, faults>>

\* The process ends anywhere: what the stream still holds is lost.
ProcessEnds ==
    /\ pc \notin {"down", "undefined"} /\ Fault
    /\ pc' = "down" /\ fd_' = FALSE /\ buf' = <<>>
    /\ UNCHANGED <<loop, message, current_size_, files>>

-----------------------------------------------------------------------------
(* sink_it_ and flush_.                                                    *)

\* A message arrives.
Take(len) ==
    /\ pc = "idle" /\ msg.id < MaxMsgs
    /\ msg' = [id |-> msg.id + 1, len |-> len]
    /\ new_size' = current_size_ + len

\* It fits, going by current_size_.
TakeFitting(len) ==
    /\ Take(len) /\ current_size_ + len <= MaxSize
    /\ pc' = "write"
    /\ UNCHANGED <<loop, current_size_, stream, files, faults>>

\* It does not: flush, and rotate if log.txt really holds something.
TakeExceeding(len) ==
    /\ Take(len) /\ current_size_ + len > MaxSize /\ fd_
    /\ files' = Drained
    /\ IF Bytes(Drained[0].data) > 0
       THEN Rotate("log")
       ELSE pc' = "write" /\ buf' = <<>> /\ UNCHANGED <<loop, fd_>>
    /\ UNCHANGED <<current_size_, faults>>

\* The flush fails, or there is no stream and size() throws: the message is
\* dropped.
TakeThrows(len) ==
    /\ Take(len) /\ current_size_ + len > MaxSize
    /\ IF fd_ THEN Fault ELSE UNCHANGED faults
    /\ UNCHANGED <<pc, loop, current_size_, stream, files>>

Write ==
    /\ pc = "write" /\ fd_
    /\ buf' = Append(buf, [id |-> msg.id, len |-> msg.len, whole |-> TRUE])
    /\ current_size_' = new_size
    /\ pc' = "idle"
    /\ UNCHANGED <<loop, message, fd_, files, faults>>

\* fwrite takes less than the whole message.
WriteThrows ==
    /\ pc = "write" /\ fd_ /\ Fault
    /\ \/ buf' = buf
       \/ \E len \in 1..msg.len - 1 :
            buf' = Append(buf, [id |-> msg.id, len |-> len, whole |-> FALSE])
    /\ pc' = "idle"
    /\ UNCHANGED <<loop, message, current_size_, fd_, files>>

\* fwrite through a null stream is undefined; the C library of the build ends
\* the process.
WriteToNull ==
    /\ pc = "write" /\ ~fd_
    /\ pc' = "undefined"
    /\ UNCHANGED <<loop, message, current_size_, stream, files, faults>>

\* The stream's buffer reaches the file: by flush_, or because it was full.
Flush ==
    /\ pc \in {"idle", "write"} /\ fd_
    /\ files' = Drained /\ buf' = <<>>
    /\ UNCHANGED <<pc, loop, message, current_size_, fd_, faults>>

-----------------------------------------------------------------------------
(* rotate_.                                                                *)

\* path_exists(src), and the target is removed; whether that worked is not
\* looked at.
RemoveTarget ==
    /\ pc = "remove"
    /\ IF files[Round(round) - 1].exists
       THEN /\ pc' = "rename" /\ UNCHANGED round
            /\ \/ files' = [files EXCEPT ![Round(round)] = NoFile]
               \/ faults < MaxFaults /\ UNCHANGED files
       ELSE GoOn(round + 1) /\ UNCHANGED files
    /\ UNCHANGED <<why, message, current_size_, stream, faults>>

\* The source gets the target's name, at the first or the second attempt.
Rename ==
    /\ pc = "rename" /\ ~files[Round(round)].exists
    /\ files' = [files EXCEPT ![Round(round)] = files[Round(round) - 1],
                              ![Round(round) - 1] = NoFile]
    /\ GoOn(round + 1)
    /\ UNCHANGED <<why, message, current_size_, stream, faults>>

RenameFails ==
    /\ pc = "rename" /\ Fault
    /\ pc' = "truncate"
    /\ UNCHANGED <<loop, message, current_size_, stream, files>>

\* reopen(true) after a failed rename, then an exception: log.txt is emptied
\* although nothing was made of it.
Truncate ==
    /\ pc = "truncate"
    /\ files' = Emptied
    /\ current_size_' = 0
    /\ Throw(TRUE)
    /\ UNCHANGED faults

\* reopen(true) after the loop.  The constructor sets current_size_ to 0, for a
\* message new_size starts again.
Reopen ==
    /\ pc = "reopen"
    /\ files' = Emptied
    /\ fd_' = TRUE
    /\ IF why = "open"
       THEN pc' = "idle" /\ current_size_' = 0 /\ UNCHANGED new_size
       ELSE pc' = "write" /\ new_size' = msg.len /\ UNCHANGED current_size_
    /\ UNCHANGED <<loop, msg, buf, faults>>

\* All five attempts to open the file fail, after or before it was emptied.
ReopenThrows ==
    /\ pc \in {"reopen", "truncate"} /\ Fault
    /\ files' \in {files, Emptied}
    /\ Throw(FALSE)
    /\ UNCHANGED current_size_

-----------------------------------------------------------------------------
SinkIt == \E len \in Lengths : TakeFitting(len) \/ TakeExceeding(len) \/ TakeThrows(len)

Next ==
    \/ \E rotate_on_open \in RotateOnOpen : Construct(rotate_on_open)
    \/ ProcessEnds
    \/ SinkIt \/ Write \/ WriteThrows \/ WriteToNull \/ Flush
    \/ RemoveTarget \/ Rename \/ RenameFails \/ Truncate \/ Reopen \/ ReopenThrows

Spec == Init /\ [][Next]_vars

-----------------------------------------------------------------------------
(* Properties.                                                             *)

\* What the files hold, log.txt with what the stream has not yet given to it.
Contents == [n \in Indices |-> IF n = 0 THEN files[0].data \o buf ELSE files[n].data]

InOrder(s)   == \A i, j \in DOMAIN s : i < j => s[i].id < s[j].id
Before(s, t) == \A p \in ToSet(s), q \in ToSet(t) : p.id < q.id

\* Read from log.<max_files>.txt to log.txt the messages are in the order they
\* were logged, none twice, after every failure and crash in between two renames
\* (rotating_file_sink-inl.h:103-107).
FilesOrdered ==
    /\ \A n \in Indices : InOrder(Contents[n])
    /\ \A n, k \in Indices : n > k => Before(Contents[n], Contents[k])

\* The messages a file has got as a whole fit into max_size, or there is only
\* one (rotating_file_sink-inl.h:79-94), over restarts too: current_size_ never
\* forgets any of them.
WithinLimit ==
    \A n \in Indices :
        \/ \A i, j \in DOMAIN Contents[n] :
              Contents[n][i].whole /\ Contents[n][j].whole => i = j
        \/ WholeBytes(Contents[n]) <= MaxSize

Kept == UNION {ToSet(files[n].data) : n \in Indices}

\* What has reached a file is lost only as a whole file log.<max_files>.txt
\* (rotating_file_sink-inl.h:107), or from log.txt after a failed rename (line 132).
OnlyOldestDropped ==
    [][\/ Kept \ Kept' \in {{}, ToSet(files[MaxFiles].data)}
       \/ pc = "truncate" /\ Kept \ Kept' \subseteq ToSet(files[0].data)]_vars
=============================================================================
