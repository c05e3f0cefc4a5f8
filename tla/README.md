# LogMaker: specifications, model checking and proofs

LogMaker is a Windows dialog program (MFC) that produces log messages, from ten
rows of Send buttons and from two sender threads, and writes them through an
spdlog logger to the console, a file, its own edit window and a PostgreSQL
database. The repository also vendors the spdlog headers the logger is built
from. This directory holds TLA+ models of the program and of the parts of
spdlog it runs through, the TLC configurations that check them, and TLAPS proofs.

## 1. Inventory

| part | source | state it keeps | operations |
|---|---|---|---|
| dialog | `LogMakerDlg.cpp`, `.h` | `m_bSendRep`, the check box, `m_pThreadSend`, `m_pThreadSend2`, the edit window's text, `g_nSendCnt` | one handler per button, `OnBnClickedCheckSendrep`, `OnBnClickedOk`, `OnClose`, `callbackLog` |
| sender threads | `LogMakerDlg.cpp:464-506` | a batch in progress | `sendThread`, `sendThread2`, `sendLogAllMsg1`, `2`, `sendLogMsg1` |
| message rows | `LogMakerDlg.cpp:105-203, 421-435`, `LogMaker.rc` | the controls, `strLevel1..10`, `strMsg1..10`, `nCnt1..10` | `DoDataExchange`, `initMsgs`, `toSpdLog` |
| logger facade | `include/CleLogger.h` | the sinks that are on | `initCleLogger`, `setLevels` (in a DLL without source), callback and PostgreSQL sinks |
| logger | `spdlog/logger.h`, `logger-inl.h`, `base_sink-inl.h` | levels, sinks, each sink's mutex | `log_`, `sink_it_`, `flush_`, `dump_backtrace_`, `set_level` |
| backtracer | `details/backtracer-inl.h` | `enabled_`, `messages_`, a mutex | `enable`, `disable`, `push_back`, `foreach_pop` |
| circular queue | `details/circular_q.h` | a ring, two indices, a count of losses | `push_back`, `pop_front`, copies and moves |
| rotating file sink | `rotating_file_sink-inl.h`, `file_helper-inl.h` | the stream, `current_size_`, the files on disk | constructor, `sink_it_`, `flush_`, `rotate_` |
| asynchronous logger, thread pool, blocking queue | `async_logger-inl.h`, `details/thread_pool-inl.h`, `mpmc_blocking_q.h` | the queue with its mutex and two condition variables, worker threads, who holds the pool | post (block, overrun), flush request, `worker_loop_`, destructor |
| registry, periodic flusher | `details/registry-inl.h`, `periodic_worker-inl.h`, `async.h` | the loggers by name, the default one, the settings, the pool, the flusher; three mutexes | register, drop, settings, create, `flush_every`, `flush_all`, `drop_all`, `shutdown` |
| daily and hourly file sinks | `sinks/daily_file_sink.h`, `hourly_file_sink.h` | the open file, `rotation_tp_`, the queue of files to delete, the files on disk | constructor, `sink_it_`, `delete_old_` |
| pattern formatter | `pattern_formatter-inl.h` | the compiled flags, `cached_tm_`, `last_log_secs_`, the caches of `%z` and `%+` | `compile_pattern_`, `format`, `set_pattern`, `clone` |
| other sinks, fmt, libpqxx, resources | | | see section 8 |

**How they interact.** A handler or a sender calls the logger, which calls every
sink in turn under that sink's own mutex. The callback sink calls `callbackLog`
in the dialog, still under its mutex; `callbackLog` reads the edit window, puts
a line in front and writes it back. On the GUI thread that is a direct call; on
a sender it is a synchronous `SendMessage`, which returns only when the GUI
thread is in a message loop. The check box starts the senders with
`AfxBeginThread`, stops them with `SuspendThread`, and resumes them. A logger
passes messages to its backtracer's circular queue as well, and a dump passes
them back to the sinks.

An asynchronous logger posts to the queue of a thread pool instead, and a worker
calls the sinks; the pool belongs to the registry and, for the time of a post,
to the thread that posts. The registry gives the loggers their settings, and
its periodic flusher goes through them with the map's mutex held. Under its
mutex a sink asks its formatter for the line and, for some sinks, moves on to
another file. The program itself makes a synchronous logger without the
registry; what a call of the library may do is modelled for any program.

**What is hard.** Two kinds of waiting meet in one call, mutexes and
`SendMessage`; a thread may be suspended or lose its window at any instruction;
objects delete themselves (`CWinThread`) while pointers to them stay; the
validation of the rows breaks off in the middle and its result is ignored;
sinks fail one by one; a rotation is several renames, with a failure or the
end of the process between any two. A notification of a condition variable wakes
one thread of several; the last owner of a pool is any thread that logs; a
shutdown passes three mutexes while a flusher holds two. A message reaches a
sink later than it was logged and behind younger ones, and the clock the sink
reads then is not the message's.

**What makes each part correct.**

- Dialog and senders: a sink's mutex belongs to the thread inside the sink;
  no line of the edit window is lost; after a handled stop (start) every
  sender that can still be reached is suspended once (runs); each message
  passes all sinks; each handler returns.
- Rows: a Send logs the level and the count its row shows, unless a row above it
  is invalid.
- Logger: when a call returns, every sink that wants the message has it once
  or has failed, and has flushed it if the level asks for it; a dump gives
  each traced message once, in order; calls return, whatever the sinks throw.
- Circular queue: it holds the newest messages in order and counts the rest.
- Rotating sink: the files, read oldest first, are in order; no file outgrows
  its limit; only the oldest file is given up.
- Thread pool: it hands messages on in order, loses only what overran and counts
  it; a flush request comes behind all before it; every post and the destructor
  return, and the destructor leaves nothing behind.
- Registry: the default logger is in the map; every logger it initialised has
  its settings; one flusher at a time, and none after the call that ended it;
  calls that meet do not end the process (but for one case, section 5), and return.
- Daily and hourly sinks: a message is in the file of its time; the newest
  `max_files` are kept, no more and no fewer; no rotation truncates a file it has
  opened before. Section 5 says where the code fails to.
- Pattern formatter: a line is what the pattern says, and the time in it is that
  of its message.

`PROJECT.json` lists the hazards at their lines, each with the properties that
would catch it; where the code itself goes wrong, the note of the hazard and
section 5 say how.

## 2. Modules

| module | what it is |
|---|---|
| `LogMakerDlg` | dialog, sender threads and the log call, with the GUI thread's message loop |
| `LogFields` | rows, validation, conversion of levels and counts |
| `SpdLogger` | logger and backtracer shared by threads, over sinks that throw |
| `RotatingFile` | rotating file sink and the files on disk |
| `LogChannel` | abstract channel: what an asynchronous logger relies on |
| `ThreadPool` | queue, posting threads, workers and destruction; refines `LogChannel` |
| `Registry` | registry, its thread pool and its periodic flusher |
| `CalendarFile` | daily and hourly file sinks over a clock and late messages |
| `PatternFormatter` | patterns, padding and the caches of the time |
| `BoundedQueue` | abstract queue: what a circular queue promises |
| `CircularQ` | the ring of `circular_q.h`; refines `BoundedQueue` |
| `...Proofs` | the theorems about the module of that name, with their inductive invariants (section 6); those of `LogFields` are in `LogMakerDlgProofs` |
| `MC...` | values of the constants for TLC |

Operators whose name ends in `_` and a word (`Released_EarlyReturn`,
`After_NoWrap`, ...) are not part of the models. Each is the operator it stands
in front of with a plausible mistake in it; putting it in that operator's place
must break a property, so they document what each property is able to see.

`SpdLogger` is not composed with `LogMakerDlg`: the dialog's model has its own
log call, reduced to the sinks' mutexes, because the tracer and failing sinks
do not touch the GUI thread. It is the same loop (`Lock`, `Write`, `LeaveSink`
against `LockSink`, `SinkLog`). Likewise `RotatingFile` is what happens inside
one `Write` of the file sink, and `SpdLogger`'s `PushBack` is the `Push` of
`BoundedQueue`. `ThreadPool` takes the ring for the sequence `CircularQ` is shown
to be, and a sink for a write that may fail. `Registry` takes a pool for what
`ThreadPool` is shown to be: a post is one step, and throws when the pool is
gone. `CalendarFile` leaves to `RotatingFile` what is still in a stream's buffer.

Every module has a `TypeOK` (`FieldsTypeOK` in `LogFields`) that says what its
variables range over, all of them proved; those of `LogMakerDlg` and `CircularQ`,
whose counters wrap, are also in a run.

### LogMakerDlg

The GUI thread's `phase` is its place in a handler: `pump` (the dialog's message
loop), `msgbox` (a message box, which has a loop of its own), `send` (inside
`sendLogMsgCnt`), `starting` and `stopping` (inside `OnBnClickedCheckSendrep`,
one thread per step), `gone` (`DoModal` has returned), `exited`, `crashed`. A
thread in a log call has `pc` and the sink `k` it is at: `load`, `store` (the
two halves of `g_nSendCnt++`), `lock`, then `write`, or `get` and `set` in
`callbackLog`; `show` is a sender's `SetWindowText` of the count, `top` the
`while` of its loop. `msg[t]` is the thread's `SendMessage`: sent, answered,
or none. For each sender there are the operating system's thread (`th`), the
object `m_pThreadSend` points to (`obj`: null, valid, freed) and the suspend
count (`susp`).

- Buttons: `ClickSend`, `ClickCheck` followed by one `StartOrResume` per
  thread, `ClickUncheck` followed by one `Suspend` per thread, `ClickOk`,
  `Close`, `Escape`, `DismissBox`.
- Log call: `Load`, `Store`, `Lock`, `Write`, `GetTextDirect`,
  `SetTextDirect`, `CallGui`, `Dispatch`, `Return`.
- Loop and end: `LoopTop`, `Exit`, `DispatchGone`.
- Undefined behaviour is a choice between no effect and `Crash`: `StaleHandle`
  (resume or suspend through a freed object), `DoubleDelete`, `EndStale`,
  `CallStale`, `RacyExchange` (`UpdateData` against a sender that copies the
  same `CString`s) and `UseDestroyed`.

Abstractions: `SuspendThread` takes effect at once (Windows may let the thread
run on for a moment; a later stop is an allowed order of the same steps);
`AfxBeginThread` succeeds; while the validation's message box is open the GUI
thread is in a message loop and nothing of the handler has happened, which is
time spent in `pump` (for `ClickOk`, where `closeAll` comes first, in `msgbox`); the number shown in `IDC_EDIT_SendCnt` is not kept; a
line of the edit window is who logged it.

### LogFields

`ctlLevel`, `ctlCnt` are the controls; `strLevel`, `nCnt` the members of the
dialog. `UpdateData` copies all levels and then the counts up to the first one
that cannot be read or is out of range, and that one too if it could be read
(`DDX_Text` stores before `DDV_MinMaxInt` refuses). `Send` logs what the
members say after that, with the count converted to `UINT`. The controls'
entries are those of `LogMaker.rc`: row 1 has no `Off`. A count field may hold
a negative number, because `ES_NUMBER` filters keys and not the clipboard, or
nothing readable (`Bad`). A row set to `Off` is logged as trace, since
`toSpdLog` has no branch for it; `LevelAsShown` leaves this level out.

### SpdLogger

A thread is in one call: `Log`, `Flush`, `Dump`, `Enable`, `Disable`,
`SetLevel`. `Log` reads the logger's level, `ReadEnabled` the tracer's flag, and
formats the message: if that throws (`logger.h:368-380`), or neither wants the
message, the call ends with nothing logged or traced;
`LockSink`, `SinkLog`, `StartFlush`, `SinkFlush`, `SinkItReturns` are the loops
of `sink_it_` and `flush_`; `Trace` is the tracer's `push_back`; `Dump`,
`ReadEmpty`, `LockTracer` and `Drain` are `dump_backtrace_`, which holds the
tracer's mutex while it goes through all sinks with each message. A sink ends
`ok`, with a `std::exception` (caught for this sink alone), or with anything
else (rethrown through all frames). Left out: the text and the rate limit of
`err_handler_`, custom error handlers, cloning and moving.

### RotatingFile

The sink is under `base_sink`'s mutex, so there is one caller. `pc` is the
place in the constructor, `sink_it_` or `rotate_`; `files` are the files by
index with the pieces in them, `buf` what the stream has not yet written.
`TakeFitting`, `TakeExceeding`, `TakeThrows` are the beginning of `sink_it_` up
to the write; `RemoveTarget`, `Rename`, `RenameFails`, `Truncate`, `Reopen`,
`ReopenThrows` the steps of `rotate_`. Every call of the file system may fail,
a write may be partial, and `ProcessEnds` ends the process anywhere, losing
`buf`; `Construct` is the next start. The file system is Windows': a rename
fails if its target exists. The two attempts at a rename are one step, whose
removal and rename each have the outcome of the pair. A stream may empty its
buffer at any time (`Flush`). Left out: event handlers, `sync()`, file names,
parameters the constructor refuses, the loss of disk contents.

### ThreadPool and LogChannel

What runs under `queue_mutex_` is one action and the notification that follows
the unlock is another. A posting thread is `idle`, in `enqueue`, waiting for
`room`, or has `pushed`; a worker is in `dequeue`, waiting for an `item`, has
`taken` one, or is in `write`, `flush`, or `exited`. `NotifyOne` wakes one of
those that wait on the condition variable, which then tests its condition
again; `Spurious` is a wake-up without a notification. `Call` takes a
`shared_ptr` (`owners`), `NotifyPush` gives it back, `Drop` is the registry's;
whoever is the last goes to `destruct`: `PostTerminate` once for every worker,
then `Join`. `Refused` is a call whose pool is gone. A worker's sink may throw a
`std::exception`, which is reported, or anything else, which ends the process
(`Abort`). A post of an overrunning logger is `enqueue_nowait`, which never waits
and never refuses. Left out: `dequeue_for`, which nothing calls, callbacks at a thread's
start and end, a constructor that throws.

`LogChannel` is a bounded queue, the set of what was handed on and not yet dealt
with, and a count of what was pushed out. The mapping drops the terminate
messages from the queue, so that the refinement also says that a terminate
message overruns nothing and that nothing is taken after the channel is closed.

### Registry

Actions carry the names of the functions. A call that is one critical section
of `logger_map_mutex_` is one action (`register_logger`, `set_default_logger`,
`drop`, `flush_on`, `set_automatic_registration`). `create_async` keeps
`tp_mutex_` until `initialize_logger` has registered the logger. `flush_every`
and `shutdown` keep `flusher_mutex_` over `deactivate`/`stop` and
`join_old`/`join`; `drop_loggers` and `drop_tp` finish a shutdown, and `drop_all`
is the call of a user. A periodic worker without an interval (`flush_every` with
`on = FALSE`) has no thread and is stopped and joined like one that has ended. The thread of a
periodic worker goes through `Check`, `Timeout`, `LockMap`, one `Flush` per logger
and `UnlockMap`; its own mutex is kept exactly in `flush_all` and `flushing`, and
so is not a variable. `flush_level_` and `flushOn` stand for all settings that
are copied to each logger. Any call may come at any time, in the middle of
another thread's shutdown too. `misused` remembers a pool replaced under the
loggers that use it, or a logger registered whose pool is gone, which no registry
can mend; `late` that an asynchronous logger was registered when a shutdown had
emptied the map and not yet dropped the pool, which is no caller's fault (section
5). Left out: a user's `get` and `flush_all`, which lock the map once and change
nothing that is modelled; levels by name, `apply_all`, a logger's own `flush_on`
and `set_level`, the unlocked `get_default_raw`.

### CalendarFile

The sink is under its mutex, so `sink_it_` is one step, with the place where it
throws: `Write`, `WriteToNull` (undefined behaviour: the end of the process),
`RotateThrows`, `RotateWriteThrows`, `RotateOnly`, `RotateDelete`,
`RotateDeleteThrows`. A message waits in `pending` with its time and is taken in
any order; `Tick` is the clock. The constructor reads the clock three times, and
`Construct(t, u)` lets it go on in between. `rotation_tp_` is the next rotation;
`filenames_q_` the queue of `init_filenames_q_` and `delete_old_`. A file is named
by its day or hour. The files are Windows': an open one is not deleted. Left out:
the clock set back, daylight saving, event handlers.

### PatternFormatter

A pattern is given as the elements its writer means (`elements`) and written out
(`Pattern`); `Compile` reads that text the way `compile_pattern_`,
`handle_padspec_` and `handle_flag_` do, digits, sides and the mark of truncation
included. A line is a sequence of cells: a space, a character of the pattern, or
the n-th character of a field with the time it was made from, so that a property
can say whose characters and whose time they are. `Appended` is a flag formatter
with its `scoped_padder`, which goes by the size the flag declares. Of the flags
there is one of each kind: `v` (measured), `S` (two digits of the time), `D`
(which miscounts), `z`, `+` (own caches), `!` (without a source location it is
empty), `%`; `Letters` are the characters that mean nothing but themselves. The
ten digits are the code's, and `Number` is their number. Messages are not from the
first `Refresh` half seconds of the epoch (`TimeAssumption`): the stamps of the
caches start at 0 and would pass for recent there. `WellFormed` is what a writer
can mean: a literal is any character but the percent sign, digits and marks
included, and a truncation has a width. `Plain` patterns are those of which
`ShownAsWritten` speaks; it leaves out a function name with a width before a flag
or at the end, and a `%D` with a width. `%+` and `%%` take no width, as in the
code, so `%+8!X` is written as `%+` and the text `8!X`. Left out: the wording of fields, elapsed times, colour ranges, custom
flags, UTC.

### CircularQ and BoundedQueue

`CircularQ` has one variable per member, each a function of the queue object,
and one action per member function. `pop_front` of an empty queue is undefined
and guarded; moving or copying a queue to itself is left out. The refinement
mapping reads the contents through `size()` and `at()`.

## 3. Runs

| run | configuration | checks |
|---|---|---|
| `dialog_safety` | `DialogSafety` | `TypeOK`, `MutexOwner`, `EditIntact`, `StopQuiesces`, `StartResumes` |
| `dialog_liveness` | `DialogLiveness` | `MessageArrives`, `HandlersReturn` |
| `fields_safety` | `FieldsSafety` | `FreshAboveInvalid`, `LevelAsShown` |
| `logger_safety` | `LoggerSafety` | `Delivered`, `FlushCovers`, `DumpedInOrder`, `NoDeadlock` |
| `rotating_safety` | `RotatingSafety` | `FilesOrdered`, `WithinLimit`, `OnlyOldestDropped` |
| `circular_q` | `CircularQ` | `TypeOK`, `SizesAgree`, `KeepsNewest` |
| `pool_safety` | `PoolSafety` | `NothingForgotten`, `FlushCovers`, `WrittenInOrder`, `IsChannel`, `NoLostWakeup` |
| `pool_liveness` | `PoolLiveness` | `CallsReturn`, `EveryPostDealt` |
| `registry_calls` | `RegistryCalls` | `DefaultRegistered`, `SettingsReach`, `OneFlusher`, `EndsOnlyIfOrphaned`, `NoDeadlock`, `CallsReturn` |
| `calendar_safety` | `CalendarSafety` | `NeverBackdated`, `WithinMax`, `KeepsMaxFiles`, `NothingTruncated` |
| `pattern_safety` | `PatternSafety` | `ShownAsWritten`, `TimeOfMessage`, `OffsetRecent` |

All of these hold; each property is broken by a mistake in the model (section 2).
One more run, `registry_shutdown` (`RegistryShutdown`), takes `registry.h:9`, "This
class is thread safe", at its word: `EndsOnlyByMisuse` says that no meeting of calls
ends the process, and TLC finds the meeting that does (section 5).

**Bounds, and why they are enough.**

- Dialog: `NSenders = 2` as in the code. `NSinks = 2`, the callback sink behind
  one other: an order of two mutexes and a place before and inside the
  callback are what deadlocks need; the other sinks are alike. `Batch = 1`
  instead of 5: a batch of one already returns to `top` between any two
  messages. `Counts = {-1, 0, 1}` are the three branches of the loop in
  `sendLogMsgCnt`. `UIntMod = 3` stands for 2^32: the counter wraps and -1
  becomes a positive count. `TextCap = 2` lines keep the order of two writers
  visible; the list is cut behind them. For liveness it is 0: the text decides
  nothing there. Suspension, resumption and restarts are unbounded, and the user
  may click anything in both runs.
- Rows: two rows, so one is above the other; the limit 999999 is scaled to 2
  and the counts to below it, at it, above it, negative, unreadable.
- Logger: two threads with two calls each, which includes a log against a
  dump, a flush, an enabling; sinks with different levels; two failures, each of
  either kind; a tracer of capacity 2.
- Rotating file: three files, messages of lengths 1, 2 and 4 with
  `MaxSize = 3`, so that a message may fit, need a rotation, or be too large
  for any file; five messages are two full rotations and more; three failures.
- Circular queue: capacities 0, 1 and 2, two queues, so that one is moved
  or copied over the other in all its states; `MaxLost` caps the counter.
- Thread pool: two posting threads, blocking, overrunning or one of each, and
  one or two workers. Safety has a queue of two, so that there is an order in
  it, and three posts, one more than fit, apart from the terminate messages.
  Liveness has a queue of one and three posts: two producers can wait for room
  at once, and the destructor behind them, which is when a notification could
  reach the wrong one. A full queue of one also makes the destructor wait.
- Registry: two threads, so any call meets any other; two flushers, one to
  replace; an asynchronous logger and another of its name, so that each can drive
  the other out of the map; the other is made by the constructor or, when that makes
  none (`SPDLOG_DISABLE_DEFAULT_LOGGER`), by a thread (`create`); one pool, which a shutdown or a second
  `init_thread_pool` takes away. Only the changes of a setting are given, each of
  which a thread may repeat. More loggers, names and pools decide only who takes
  a mutex, so they add nothing to `CallsReturn`; the five invariants are proved for
  any number of them (section 6).
- Calendar files: a period of two ticks, so a rotation may be at midnight or at
  noon; four periods with `max_files` up to 2 delete files twice; three messages,
  of which the later ones can be late or overtaken; two failures or restarts in
  any combination. For the daily sink 1 and 2 files, for the hourly one 0 too.
- Patterns: each flag alone, behind a character, and before a letter, a `v`, a
  digit, a minus sign, a `!` and a `%%`, and `%+` before a whole `5!v`; widths 0, 1 (shorter than the field), 5 (an odd number of spaces
  around it) and 70 (limited to 64); messages one half second apart over the
  change of the clock at `Switch`, eight of them, with `Refresh` scaled from 20
  to 3.

`CHECK_DEADLOCK FALSE` is set where the system may really stop: the program
exits or crashes; all calls a thread may make (a bound) are made; the messages
of a sink or the loggers, pools and flushers there are have been used up, or the
process is dead; a formatter whose destructor threw has ended the process.

## 4. Fairness

Nothing the user does is fair, so no property relies on a click. In
`LogMakerDlg` a handler that has begun goes on (`WF` of `HandlerStep` and of
the direct window accesses), and a thread that runs executes its next
instruction (`WF` of `LogStep`). A sender's other steps are strongly fair,
because a suspension disables them again and again without any fault of the
scheduler's. `Lock` is strongly fair: a mutex that is free again and again is
got in the end; SRW locks and critical sections are not strictly fair, but
Windows' scheduler boosts starved threads. `GuiServes` is strongly fair: a
message loop takes a sent message before any posted one. Without the last two
a sender could be overtaken forever by the other one.

`ThreadPool` has `WF` for every thread inside a call and every worker: `notify`
has woken the thread that is at `enqueue` again, and its step stays possible or
the queue has changed. That needs the calls to be bounded; with producers that
post forever, one that waits for room could be overtaken forever, since
`condition_variable` promises no order. Spurious wake-ups are not fair, so no
progress rests on them.

`Registry` has `SF` for a call that has begun and for a flusher: what they wait
for are mutexes, which the flushers take again and again. A flusher sleeps for
whole seconds between two flushes, so a mutex it takes can be had.

`SpdLogger` needs none. A call there has finitely many steps, so every call
returns, if the threads that can run do, exactly when at no time all threads
inside a call wait for mutexes; this is the invariant `NoDeadlock`.

## 5. Seen while modelling

These are what the code does; the models do the same, and the properties leave
them out where they say so. Where the repository says otherwise, its line is named.

- Send while a sender runs hangs both (`LogMakerDlg.cpp:330`): the GUI thread
  waits for the callback sink's mutex without dispatching messages; its owner
  waits in `GetWindowText` for the GUI thread. Send after a stop hangs too
  (`:531`): a suspended sender may hold a sink's mutex. `Hung` names exactly these
  two states, and the liveness properties say that a handler returns, and a
  message passes its sinks, unless one of them is reached.
- A sender that leaves its loop before it is suspended is never started again
  (`:530`): MFC deletes its object, the pointer stays, and the next start resumes
  a deleted object while the box reads "stop".
- `closeAll` deletes the first thread's object twice and never ends the second
  thread; `g_nSendCnt++` loses increments.
- A refused count is sent all the same (`:329`), a negative one as one near 2^32;
  a row set to `Off` is logged as trace.
- A dump hit by an exception that is not a `std::exception` repeats its message.
- A rotation that cannot reopen the file leaves a sink without a stream
  (`file_helper-inl.h:124`); the next message that needs no rotation is written
  through a null pointer. All three file sinks do this.
- `logger::flush` has no `try` of its own, so an asynchronous logger whose pool
  was replaced (`init_thread_pool` a second time) throws out of the flusher's
  thread, which ends the process. A queue of size 0 never has room.
- `shutdown` empties the map and drops the pool in two critical sections
  (`registry-inl.h:244-249`). An asynchronous logger created in between, by a
  thread that has not heard of the shutdown, stays in the map without a pool, and
  the next flush of a periodic worker started likewise ends the process:
  `registry_shutdown`. `EndsOnlyIfOrphaned` says that this is the only such meeting
  of calls.
- `mpmc_blocking_q.h` contradicts itself. Its head (lines 8-9) says that
  `enqueue_nowait` "will return immediately with false if no room left in the
  queue"; the function returns nothing and overwrites the oldest message, which is
  what line 44 says of it. `IsChannel` and `NothingForgotten` follow the code: what
  an overrunning logger pushes out is lost, and counted.
- The daily sink with a rotation at another time than midnight, started before
  that time, opens the file of the day a second time: with `truncate` it is
  emptied, and it stands twice in the queue, so files are deleted early and fewer
  than the "last max_files" that `daily_file_sink.h:115` promises stay.
  `KeepsMaxFiles` and `NothingTruncated` leave such rotations out.
- After a restart the queue holds the unbroken row of files back from today only:
  files older than a day without messages are never deleted. A write that fails
  in a rotation leaves the new file out of the queue.
- A message that comes after midnight with a time before it is where the next
  rotation is taken from the clock: the file of the old day gets the whole new
  one (`daily_file_sink.h:163`). Midnight between two readings of the
  constructor's clock does the same, or leaves the file out of the queue.
  Line 121, "rotates on given time", is not true then. `NeverBackdated` sets the files opened late aside.
- The hourly sink removes the empty file it started with, but not its place in
  the queue, and so keeps one file fewer once.
- A padded `%D` declares 10 characters and has 8: truncation cuts two too many,
  off the date or the field before it, or throws from a destructor when there is
  nothing to cut. So `%8!D`, a pad spec of `pattern_formatter-inl.h:1335`, shows six
  of the eight characters.
- `%+8!X`, the last example of that line, is no pad spec: the code knows the marks
  `-` and `=` only, and shows the full format and the text `8!X`.
- `%10!` at the end of a pattern or before a letter that is a flag is read as
  truncation and not as the function name.

## 6. Proofs

The theorems hold for every value of the constants that the assumptions of the
modules allow; no proof assumes anything else. A theorem that names a property
states it as the run checks it. Every inductive invariant below was first checked
by TLC as an invariant of the module's run.

The library's induction theorems have an operator as a parameter, which no
installed prover instantiates. Where a proof needs induction it is over a set of
numbers: `LeastNumber`, that a set of natural numbers has a least one, follows from
the library's well-foundedness of strict inclusion between finite sets, and the
claim for all numbers follows from it by taking the least that fails. A function
defined by recursion is first shown to exist in the same way; then it is what its
equation says.

| module | theorems | properties |
|---|---|---|
| `LogMakerDlgProofs` | `TypeCorrect`, `MutexCorrect`, `EditCorrect`, `StopCorrect`, `StartCorrect` | `TypeOK`, `MutexOwner`, `EditIntact`, `StopQuiesces`, `StartResumes` |
| the same, of `LogFields` | `FreshCorrect`, `LevelCorrect` | `FreshAboveInvalid`, `LevelAsShown` |
| `SpdLoggerProofs` | `TypeCorrect`, `NeverDeadlocks`, `DeliversToEachSink`, `FlushesWhatItLogged`, `DumpsInOrder` | `TypeOK`, `NoDeadlock`, `Delivered`, `FlushCovers`, `DumpedInOrder` |
| `CircularQProofs` | `TypeCorrect`, `SizesCorrect`, `Refinement` | `TypeOK`, `SizesAgree`, `KeepsNewest` |
| `ThreadPoolProofs` | `TypeCorrect`, `DestructorForgetsNothing`, `FlushCoversEarlier`, `WritesInOrder`, `PoolIsChannel`, `WakesSomeone` | `TypeOK`, `NothingForgotten`, `FlushCovers`, `WrittenInOrder`, `IsChannel`, `NoLostWakeup` |
| `RegistryProofs` | `TypeCorrect`, `DefaultCorrect`, `SettingsCorrect`, `FlusherCorrect`, `EndsCorrect`, `NeverDeadlocks` | `TypeOK`, `DefaultRegistered`, `SettingsReach`, `OneFlusher`, `EndsOnlyIfOrphaned`, `NoDeadlock` |
| `RotatingFileProofs` | `TypeCorrect`, `LimitCorrect`, `OrderCorrect`, `DropCorrect` | `TypeOK`, `WithinLimit`, `FilesOrdered`, `OnlyOldestDropped` |
| `CalendarFileProofs` | `TypeCorrect`, `BackdatedCorrect`, `MaxCorrect`, `KeepsCorrect`, `TruncationCorrect` | `TypeOK`, `NeverBackdated`, `WithinMax`, `KeepsMaxFiles`, `NothingTruncated` |
| `PatternFormatterProofs` | `TypeCorrect`, `TimeCorrect`, `OffsetCorrect`, `ShownCorrect` | `TypeOK`, `TimeOfMessage`, `OffsetRecent`, `ShownAsWritten` |

Each module has one lemma per action (or group of alike actions) that says what
the action does, then one per part of the invariant, then the theorems.

**LogMakerDlg.** `TypeOK` alone is not inductive: a message's end decrements
`batch`, so `TypeInv` adds that the batch is positive inside a log call
(`BatchLeft`). `EditIntact` needs that two threads are never both between `get`
and `set`; they would both be inside the callback sink, whose mutex has one
owner. So `SafetyInv` joins `TypeInv`, `MutexOwner` and `EditIntact` with
`CallShape` (only the callback sink touches the window, and a `SendMessage` is
under way only there or in `show`) and `GuiIdle` (the GUI thread is outside a log
call except in the Send handler). `StopQuiesces` and
`StartResumes` speak of the end of a handler that goes through the threads one by
one; `ThreadInv` says what holds in its middle: a sender below `gi` has had this
click applied, the others are still as the last one left them, and a thread that
has ended has taken its object with it.

**LogFields.** `FieldsInv` adds to `FieldsTypeOK` what the record of the last Send says:
the call its level selects, and, when no row above had broken the exchange off and
the row's own field held an integer, that integer as a `UINT`, refused or not. `Reached` says that the exchange gets to a row by what is
above it, as the code's early exit does, and so needs no choice of a first invalid
row. `Limit < UIntValues` is needed: a valid count must survive its conversion to
`UINT`.

**SpdLogger.** `LocksInv`: a sink's mutex belongs to the thread whose loop is at
it, and the tracer's to the thread that passes its oldest message on. `NoDeadlock`
follows: who owns a sink's mutex waits for nothing, so a thread in the loop over
the sinks waits at most for one that runs, and a thread outside it for the
tracer's owner, which is in that loop. `LogsInv` follows one log call through the
sinks: those it has passed have the message once or threw, those ahead have not,
and messages are numbered by call, so that a new one is new everywhere. `OrderInv`
compares the tracer's messages with what the sinks have of earlier dumps; the
oldest kept message may be in a file already, but only as often as an exception
has left its dump. For that count `failed` holds a record for each exception, with
the call it ended; counted by message and sink, two exceptions in two dumps of
one message would be one, and `DumpedInOrder` would not bound what the code does in
a longer run.

**CircularQ.** `RingsOK`, the part of `TypeOK` about the arrays and indices, is
inductive. `Filled`, that every slot between the indices holds an item, is not by
itself simple to keep while a ring is moved; it follows from the refinement: a
step leaves contents that the abstract queue has too, and those are items
(`NewestType`, `StepFilled`). The refinement is one lemma per operation;
what carries it are `PushContents` and `PopContents`, the effect of a push and a
pop on the contents read through the ring, which need `NextIndex` and `IndexAt`,
the remainders of an index and of an index plus an offset.

**ThreadPool.** Five parts are inductive together. `OwnersInv`: whoever posts
holds the pool, and whoever destroys it is alone. `QueueInv`: the queue is the
newest messages in the order of their posts, then terminate messages, one per
worker in the end. `PostedInv`: no message is posted twice. `PlacesInv`: a message
that has left the queue was overrun, is in one worker's hands, or was dealt with.
A notification moves another thread as well; `Alike` and `Moves` say that it only
sends it back to test its condition, so that no part can be disturbed by it. The
refinement of `LogChannel` then goes by the actions: a push is a push, an overrun
a loss, a sink's end a delivery, everything else a stutter.

`WakesSomeone` adds `WakeInv`, which counts the threads at a place. While one waits
for room, each free place of the queue is matched by a producer about to test the
queue again or by a worker that has taken an entry and has its notification still
to give; while one waits for an item, so is each entry by a worker about to test
or a producer that has pushed. `NotifyOne` moves a thread from waiting to testing
and uses up one notification, so it keeps the counts. If all threads slept, the
queue would be full for the producers and empty for the workers; with terminate
messages and the join, `QueueInv` says that every worker has ended or has its
terminate message in the queue (`SleepersIdle`). The counts need finitely many
producers, which `ThreadsAssumption` states.

**Registry.** `TypeInv` adds what a caller keeps between two steps (the logger it
creates, the worker it destroys). `MapInv` proves the default logger and the
settings together with `OwnName`: a logger is in the map under its own name, so
what is dropped or replaced by name is the logger that is meant. `EndsInv`: a
flusher in the map flushes only what is registered; an asynchronous logger is made
with a pool; and while nothing was misused or late, no asynchronous logger is in
the map when a shutdown is about to drop the pool (`WindowEmpty`), and every one
in the map posts to the registry's pool (`PoolsHeld`), so every flush finds one.
Two shutdowns at once, and a `drop_all` or a creation inside one, are covered.
`NeverDeadlocks` follows who waits for whom: `MapOwnerGoesOn`, the owner of the map's
mutex flushes and waits for nobody; whoever holds `tp_mutex_` waits at most for it;
and by `EndInv` a worker that is being destroyed has begun, and one that is joined
has been told to end and is not started again, so it too waits at most for the
map's mutex (`EndedGoesOn`), never for `flusher_mutex_`, which its joiner keeps.

**RotatingFile.** `Holding(c, m)` says of files that hold `c` that they are in
order and from before message `m`; it is kept when a file loses its end, is
removed, moves to an index where there is none, or gets message `m`
(`HoldingLess`, `HoldingMoved`, `HoldingMore`). `RotateInv` is why a rename finds
no file in its way after the first round and why only the first round drops one:
the round before has moved that file or found none. That exactly the oldest file
is lost, and nothing besides it is, uses the order again: no message is in two
files. `ShapeInv` is `TypeOK` without the two sizes;
`SizeInv` adds them, and `WithinLimit`: the whole messages of a file fit into
`MaxSize` or are one message; `current_size_` is at least the length of those in
log.txt and the buffer; and a write is under way only when the message fits by that
size, or into an empty file. `current_size_` may be more, by parts of messages and
by what a failed write has lost, so a rotation may come early and never late.
`Bytes` and `WholeBytes` are sums over sequences (`Total`); `TotalOfMore` and
`TotalOfOneMore` are the sum of a beginning of a sequence and that of one with an
element more, which is what a lost end and a write leave.

**CalendarFile.** `Division`, `PeriodIs` and `NextRotationIs` are the arithmetic
of periods with a rotation time inside them. `NamesInv` (no file is older than its
period; what is not rotated for is in the open file's time, by `DueInv`) gives
`NeverBackdated`. `KeptInv` adds the queue: `OpenedInv`, every counted file the
sink has opened is queued or deleted, so `max_files` places bound them; `AheadInv`,
with a rotation at midnight the next file has never been opened and has no
messages, which is why a rotation empties nothing; `QueueInv`, the queue is then in order
without repetition and at most one of its files is missing, the one the hourly
sink has removed (`InitFileInv`), so a full queue is `max_files` files or one
fewer. `WithinMax` holds for every rotation time, the other two for midnight,
where the properties say so. `InitialQueue` is written with the length of the
unbroken row of files instead of a sorted set, so that it can be reasoned about;
TLC finds the same states.

**PatternFormatter.** The types and the two properties of the time need one
invariant, `PatternInv`. `FormattersInv`: the formatters are those `Compile` makes of
the pattern's text, but for their caches, each of which is the broken-down time of
its stamp (`Kept`). `ClockInv`: `cached_tm_` is the time of `last_log_secs_`, or
nothing at 0. `LineInv`: each cell of the line has the time of its message, or an
offset young enough. A `set_pattern` keeps the cached time, and a `clone` does
not; neither breaks it.

`ShownCorrect` is about the text in between. One half is the line: `ShownBy` is
what one formatter shows, and when all of them tell the padder the size they
have (`Measured`) a truncation cuts no more than its own field (`CutBehind`), so
that the line is theirs put together (`LineShows`). The other half is the reading
of the pattern. The pattern is the elements written out in a row, and an element
knows the place where it begins (`JoinedPlaces`). `ReadsWritten` goes from the last
element to the first: what `Compile` makes of the text from an element's place on
shows that element and then what the rest shows. `ReadsChar` is the step of a
character, which may join the text of the characters behind it; `ReadsFlag` that
of a flag, whose digits end where the mark of truncation or the flag is
(`LaidOut`, `SpecRead`); `ReadsName` that of a function name with a width, whose
`!` is read as the mark of truncation and set right when the next character is no
flag. Without that condition, which is `Plain`'s, this step is false; the code
says so too (issue 1617). `Measured` needs that no `%D` has a width.

## 7. Model-checked only

- Liveness: `MessageArrives`, `HandlersReturn`, `EveryPostDealt` and the two
  `CallsReturn`. They need `ENABLED` under fairness, which the provers do not have.
  What is proved of the two `CallsReturn` is that nobody is stuck: `NoLostWakeup` and
  `NoDeadlock`. Separate runs of TLC compared their `Asleep` and `Waiting` with
  `ENABLED` of the thread's step, in every state in which the process is alive; for
  a thread inside a call and a worker with work before it they are exactly its
  negation. (`Waiting` also counts a flusher that nobody has told to end as one not to
  rely on.) The rest, that the threads which can go on get there in the end, is
  fairness.

Every invariant and every action property of the passing runs is proved as well, and so
are the two refinements.

## 8. Not modelled

- `SpdLogDLL` (`initCleLogger`, `setLevels`, `LogDAO`): declared in `CleLogger.h`,
  the source is not in the repository. The PostgreSQL sink is a mutex with
  a write, and a sink that may fail.
- `database_logger_sink.h` (SQLite): not included by any file.
- The bundled fmt and the libpqxx headers: third-party libraries, seven tenths of
  the lines of the repository, and not this program's logic. fmt makes text, which
  is abstract in every module here; libpqxx talks to a database through a
  connection that only the missing DLL opens.
- Console, system and network sinks: a mutex and a write to their callers.
- The duplicate filter, the distributing and the ring-buffer sink: next in the
  plan. (The example in `dup_filter_sink.h` counts a message more than the code
  skips.)
- Of the parts that are modelled: see "left out" in section 2.
- Painting, the About box, resources: no state a property is about.

## 9. Plan

What is left, none of which the sections above rest on:

1. `dup_filter_sink` with the `dist_sink` it is made from, and its order of
   messages proved.
2. The tracer of `SpdLogger` shown to implement `BoundedQueue`; for that
   `SpdLogger` would have to keep the capacity and the losses of the queue, which
   no logger asks for.
3. The dialog's log call shown to be a projection of `SpdLogger`'s.
4. A PostgreSQL sink that queues, if the source of the DLL becomes available.
