-------------------------- MODULE PatternFormatter --------------------------
(***************************************************************************)
(* spdlog's pattern_formatter (pattern_formatter.h,                        *)
(* pattern_formatter-inl.h): compile_pattern_ makes a sequence of flag     *)
(* formatters of a pattern, format appends to the line what each of them   *)
(* makes of a message, padded and truncated, with three caches of the      *)
(* broken-down time between messages.                                      *)
(*                                                                         *)
(* A line is a sequence of cells: a space, a character of the pattern      *)
(* (both with n = 0), or the n-th character of the field of a flag with    *)
(* the time it was made from.  Messages come in any order of their times:  *)
(* they wait for the mutex of the sink or in the queue of a thread pool.   *)
(* The clock is counted in half seconds; it is put back one second at      *)
(* Switch.                                                                 *)
(***************************************************************************)
EXTENDS Integers, Sequences, FiniteSetsExt

CONSTANTS
    Letters,    \* characters that mean nothing in a pattern but themselves
    Patterns,   \* patterns (as elements) a formatter is constructed with
    Later,      \* patterns given to set_pattern
    Messages,   \* times of messages in half seconds, their lengths and those of
                \* function names, 0 without a source location
    Switch,     \* the second in which daylight saving ends
    Refresh     \* half seconds that %z keeps the offset: 20 in the code

SecsOf(t) == t \div 2

MaxWidth == 64
NoPad   == [enabled |-> FALSE, width |-> 0, side |-> "left", truncate |-> FALSE]
Padding == [enabled : BOOLEAN, width : Nat, side : {"left", "right", "center"}, truncate : BOOLEAN]
Flags   == {"v", "S", "D", "z", "+", "!", "%"}
Digits  == {"0", "1", "2", "3", "4", "5", "6", "7", "8", "9"}
Value   == [c \in Digits |->
    CASE c = "0" -> 0 [] c = "1" -> 1 [] c = "2" -> 2 [] c = "3" -> 3 [] c = "4" -> 4
      [] c = "5" -> 5 [] c = "6" -> 6 [] c = "7" -> 7 [] c = "8" -> 8 [] OTHER -> 9]

Chars == Flags \cup Digits \cup {"-", "="} \cup Letters

\* What the writer of a pattern means: a character to be shown as it is, or a
\* flag, with the digits and marks of its padding.
Element == [literal : BOOLEAN, char : Chars, mark : {"", "-", "="}, digits : Seq(Digits), truncate : BOOLEAN]

\* Any character but the percent sign, or a flag, truncated to a width.
WellFormed(e) ==
    /\ e.literal  => e.char # "%"
    /\ ~e.literal => e.char \in Flags
    /\ e.truncate => e.digits # <<>>

ASSUME PatternAssumption == \A es \in Patterns \cup Later :
    es \in Seq(Element) /\ \A i \in DOMAIN es : WellFormed(es[i])
ASSUME TimeAssumption ==
    /\ Switch \in Nat /\ Refresh \in Nat \ {0}
    /\ Messages \subseteq [time : Nat, payload : Nat, func : Nat]
    /\ \A m \in Messages : SecsOf(m.time) > 0 /\ m.time >= Refresh  \* not near the epoch

VARIABLES
    elements,        \* what the pattern means
    formatters_,     \* the flag formatters, with the caches of %z and %+
    need_localtime_,
    cached_tm_, last_log_secs_,
    msg, dest,       \* the last message and its line
    terminated       \* an exception has left a destructor

compiled == <<elements, formatters_, need_localtime_>>
vars     == <<compiled, cached_tm_, last_log_secs_, msg, dest, terminated>>

NoTime == [clock |-> 0, isdst |-> FALSE]  \* memset of cached_tm_
NoMemo == [stamp |-> 0, tm |-> NoTime]
NoMsg  == [time |-> 0, payload |-> 0, func |-> 0]
Space  == [of |-> "", n |-> 0, tm |-> NoTime]

Tm == [clock : Nat, isdst : BOOLEAN]

TypeOK ==
    /\ elements \in Patterns \cup Later
    /\ \A i \in DOMAIN formatters_ :
          /\ formatters_[i].pad \in Padding /\ formatters_[i].pad.width <= MaxWidth
          /\ formatters_[i].memo \in [stamp : Nat, tm : Tm]
          /\ (formatters_[i].flag \in {"S", "D", "z", "+"} => need_localtime_)
    /\ need_localtime_ \in BOOLEAN
    /\ cached_tm_ \in Tm /\ last_log_secs_ \in Nat
    /\ (last_log_secs_ = 0) = (cached_tm_ = NoTime)
    /\ \A i \in DOMAIN dest : dest[i].tm \in Tm
    /\ terminated \in BOOLEAN

-----------------------------------------------------------------------------
(* compile_pattern_.                                                       *)

IsDigit(p, k) == k <= Len(p) /\ p[k] \in Digits

Number(digits) ==
    LET number[i \in 0..Len(digits)] == IF i = 0 THEN 0 ELSE 10 * number[i - 1] + Value[digits[i]]
    IN  number[Len(digits)]

\* The width, limited to the spaces there are.
Width(digits) == IF Number(digits) < MaxWidth THEN Number(digits) ELSE MaxWidth

\* handle_padspec_: the padding written from position i, and where it ends.
PadSpec(p, i) ==
    LET side == IF i > Len(p) THEN "left"
                ELSE CASE p[i] = "-" -> "right" [] p[i] = "=" -> "center" [] OTHER -> "left"
        j    == IF side = "left" THEN i ELSE i + 1
        k    == Min({n \in j..Len(p) + 1 : ~IsDigit(p, n)})
        mark == k <= Len(p) /\ p[k] = "!"
    IN  IF k = j THEN [it |-> j, pad |-> NoPad]
        ELSE [it |-> IF mark THEN k + 1 ELSE k,
              pad |-> [enabled |-> TRUE, width |-> Width(SubSeq(p, j, k - 1)),
                       side |-> side, truncate |-> mark]]

Formatter(flag, pad) == [flag |-> flag, text |-> <<>>, pad |-> pad, memo |-> NoMemo]
Text(chars) == [flag |-> "text", text |-> chars, pad |-> NoPad, memo |-> NoMemo]

\* handle_flag_: a flag nobody knows is shown with its percent sign, unless the
\* mark of truncation before it was meant as the flag.
HandleFlag(flag, pad) ==
    CASE flag = "%"    -> <<Text(<<"%">>)>>
      [] flag \in Flags \ {"%"} -> <<Formatter(flag, pad)>>
      [] OTHER -> IF pad.truncate
                  THEN <<Formatter("!", [pad EXCEPT !.truncate = FALSE]), Text(<<flag>>)>>
                  ELSE <<Text(<<"%", flag>>)>>

Compile(p) ==
    LET from[i \in 1..Len(p) + 1] ==
            LET next == Min({k \in i..Len(p) + 1 : k = Len(p) + 1 \/ p[k] = "%"})
                spec == PadSpec(p, i + 1)
            IN  CASE i > Len(p) \/ (next = i /\ spec.it > Len(p)) -> <<>>
                  [] next > i -> <<Text(SubSeq(p, i, next - 1))>> \o from[next]
                  [] OTHER    -> HandleFlag(p[spec.it], spec.pad) \o from[spec.it + 1]
    IN  from[1]

NeedsLocaltime(fs) == \E i \in DOMAIN fs : fs[i].flag \in {"S", "D", "z", "+"}

Joined(seqs) ==
    LET from[i \in 1..Len(seqs) + 1] == IF i > Len(seqs) THEN <<>> ELSE seqs[i] \o from[i + 1]
    IN  from[1]

\* The pattern that says what is meant.
Written(e) ==
    IF e.literal THEN <<e.char>>
    ELSE <<"%">> \o (IF e.mark = "" THEN <<>> ELSE <<e.mark>>) \o e.digits
            \o (IF e.truncate THEN <<"!">> ELSE <<>>) \o <<e.char>>
Pattern(es) == Joined([i \in DOMAIN es |-> Written(es[i])])

-----------------------------------------------------------------------------
(* The flag formatters.                                                    *)

\* localtime of a second.
LocalTime(secs) ==
    [clock |-> IF secs < Switch THEN secs + 1 ELSE secs, isdst |-> secs < Switch]

\* Characters a field has, and those it tells the padder; %D miscounts.
Size(flag, m) ==
    CASE flag = "v" -> m.payload [] flag = "!" -> m.func [] flag = "S" -> 2
      [] flag = "D" -> 8 [] flag = "z" -> 6 [] flag = "+" -> m.payload
Declared(flag, m) == IF flag = "D" THEN 10 ELSE Size(flag, m)

\* The offset of %z is kept for ten seconds.  (Variant: and a moment more.)
OffsetStale_After(f, m) == m.time - f.memo.stamp > Refresh
OffsetStale(f, m) == m.time - f.memo.stamp >= Refresh

\* The caches after a message: %z keeps the offset that the broken-down time
\* says, %+ the date and time of a second.
Memo(f, m, tm) ==
    CASE f.flag = "z" /\ OffsetStale(f, m) ->
            [stamp |-> m.time, tm |-> [clock |-> 0, isdst |-> tm.isdst]]
      [] f.flag = "+" /\ f.memo.stamp # SecsOf(m.time) ->
            [stamp |-> SecsOf(m.time), tm |-> tm]
      [] OTHER -> f.memo

\* The field of a formatter whose caches are up to date.
Field(f, m, tm) ==
    LET shown == CASE f.flag \in {"S", "D"} -> tm [] f.flag = "z" -> f.memo.tm [] OTHER -> NoTime
    IN  CASE f.flag = "text" -> [i \in DOMAIN f.text |-> [of |-> f.text[i], n |-> 0, tm |-> NoTime]]
          [] f.flag = "+" -> [i \in 1..m.payload + 1 |->
                                [of |-> "+", n |-> i, tm |-> IF i = 1 THEN f.memo.tm ELSE NoTime]]
          [] OTHER -> [i \in 1..Size(f.flag, m) |-> [of |-> f.flag, n |-> i, tm |-> shown]]

\* scoped_padder: spaces before the field, and what remains for after it.
\* (Variant: of an odd number of spaces one is lost.)
PadBefore(pad, remaining) ==
    CASE remaining > 0 /\ pad.side = "left"   -> remaining
      [] remaining > 0 /\ pad.side = "center" -> remaining \div 2
      [] OTHER                                -> 0
PadAfter_Half(pad, remaining) ==
    IF remaining > 0 /\ pad.side = "center" THEN remaining \div 2
    ELSE remaining - PadBefore(pad, remaining)
PadAfter(pad, remaining) == remaining - PadBefore(pad, remaining)

Spaces(n) == [i \in 1..n |-> Space]

\* A formatter adds its field to the line.  The destructor of the padder cuts the
\* line; a size below zero is one no buffer can have, and the exception ends the
\* process.
Appended(line, f, m, tm) ==
    LET remaining == f.pad.width - Declared(f.flag, m)
        field     == line.dest \o Spaces(PadBefore(f.pad, remaining)) \o Field(f, m, tm)
        after     == PadAfter(f.pad, remaining)
        cut       == f.pad.truncate /\ after < 0
    IN  IF line.dead \/ ~f.pad.enabled \/ f.flag = "+"
        THEN [line EXCEPT !.dest = @ \o Field(f, m, tm)]
        ELSE CASE ~cut -> [line EXCEPT !.dest = field \o Spaces(after)]
               [] cut /\ Len(field) + after >= 0 ->
                     [line EXCEPT !.dest = SubSeq(field, 1, Len(field) + after)]
               [] OTHER -> [line EXCEPT !.dead = TRUE]

-----------------------------------------------------------------------------
(* The operations; the sink calls them under its mutex.                    *)

Compiled(es, fs) ==
    /\ elements' = es
    /\ formatters_' = fs
    /\ msg' = NoMsg /\ dest' = <<>>
    /\ UNCHANGED terminated

Init ==
    /\ elements \in Patterns
    /\ formatters_ = Compile(Pattern(elements))
    /\ need_localtime_ = NeedsLocaltime(formatters_)
    /\ cached_tm_ = NoTime /\ last_log_secs_ = 0
    /\ msg = NoMsg /\ dest = <<>> /\ terminated = FALSE

\* set_pattern keeps the cached time.
SetPattern(es) ==
    /\ ~terminated
    /\ Compiled(es, Compile(Pattern(es)))
    /\ need_localtime_' = NeedsLocaltime(formatters_')
    /\ UNCHANGED <<cached_tm_, last_log_secs_>>

\* clone, as a logger makes one for every sink: compiled anew, the caches empty.
Clone ==
    /\ ~terminated
    /\ Compiled(elements, Compile(Pattern(elements)))
    /\ cached_tm_' = NoTime /\ last_log_secs_' = 0
    /\ UNCHANGED need_localtime_

\* Whether cached_tm_ has to be made anew.
TimeStale(m) == need_localtime_ /\ SecsOf(m.time) # last_log_secs_

\* last_log_secs_ after a message.  (Variant: set although cached_tm_ is not.)
LastSecs_Always(m) == SecsOf(m.time)
LastSecs(m) == IF TimeStale(m) THEN SecsOf(m.time) ELSE last_log_secs_

Format(m) ==
    /\ ~terminated
    /\ cached_tm_' = IF TimeStale(m) THEN LocalTime(SecsOf(m.time)) ELSE cached_tm_
    /\ last_log_secs_' = LastSecs(m)
    /\ formatters_' = [i \in DOMAIN formatters_ |->
                         [formatters_[i] EXCEPT !.memo = Memo(formatters_[i], m, cached_tm_')]]
    /\ LET line[i \in 0..Len(formatters_)] ==
               IF i = 0 THEN [dest |-> <<>>, dead |-> FALSE]
               ELSE Appended(line[i - 1], formatters_'[i], m, cached_tm_')
       IN  dest' = line[Len(formatters_)].dest /\ terminated' = line[Len(formatters_)].dead
    /\ msg' = m
    /\ UNCHANGED <<elements, need_localtime_>>

Next ==
    \/ \E es \in Later : SetPattern(es)
    \/ Clone
    \/ \E m \in Messages : Format(m)

Spec == Init /\ [][Next]_vars

-----------------------------------------------------------------------------
(* Properties.                                                             *)

\* What an element should show of a message: the field itself, its first
\* characters when it is truncated, or with as many spaces as it is too short.
Shown(e, m) ==
    LET width == Min({Number(e.digits), MaxWidth})
        size  == Size(e.char, m)
        cells == IF e.truncate THEN Min({size, width}) ELSE size
        pads  == IF e.digits # <<>> /\ size < width THEN width - size ELSE 0
        left  == CASE e.mark = "" -> pads [] e.mark = "=" -> pads \div 2 [] OTHER -> 0
    IN  CASE e.literal \/ e.char = "%" -> <<<<e.char, 0>>>>
          [] ~e.literal /\ e.char = "+" -> [i \in 1..size + 1 |-> <<"+", i>>]
          [] OTHER -> [i \in 1..pads + cells |->
                IF i <= left \/ i > left + cells THEN <<"", 0>> ELSE <<e.char, i - left>>]

\* All patterns but two kinds: a function name with a width before a flag or at the
\* end, whose mark is read as that of truncation (issue #1617 in
\* pattern_formatter-inl.h:1320), and a %D with a width, which tells the padder two
\* characters too many (line 306).
Plain(es) ==
    \A i \in DOMAIN es : ~es[i].literal /\ es[i].digits # <<>> =>
        /\ es[i].char # "D"
        /\ es[i].char = "!" /\ ~es[i].truncate =>
             i < Len(es) /\ es[i + 1].literal /\ es[i + 1].char \notin Flags

\* The line of a plain pattern shows what it means, and the process lives
\* (pattern_formatter-inl.h:60, 1351-1387): a field that takes a width has it, on
\* the side asked for, and no padding or truncation touches another field or a
\* character of the pattern.  %+ and %% take no width: the %+8!X that line 1335 has
\* for an example is a %+ and the characters 8!X.
ShownAsWritten ==
    msg # NoMsg /\ Plain(elements) =>
        /\ ~terminated
        /\ [i \in DOMAIN dest |-> <<dest[i].of, dest[i].n>>]
             = Joined([i \in DOMAIN elements |-> Shown(elements[i], msg)])

\* The date and time in a line are those of its message, whatever messages and
\* patterns came before (pattern_formatter-inl.h:1068, 951).
TimeOfMessage ==
    \A i \in DOMAIN dest :
        (dest[i].of \in {"S", "D"} /\ dest[i].n > 0) \/ (dest[i].of = "+" /\ dest[i].n = 1) =>
            dest[i].tm = LocalTime(SecsOf(msg.time))

\* The offset in a line is never ten seconds old (pattern_formatter-inl.h:634):
\* it may be that of a later moment when messages come late.
OffsetRecent ==
    \A i \in DOMAIN dest : dest[i].of = "z" /\ dest[i].n > 0 =>
        \E m \in Messages :
            m.time > msg.time - Refresh /\ dest[i].tm.isdst = LocalTime(SecsOf(m.time)).isdst
=============================================================================
