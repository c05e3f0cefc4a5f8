------------------------- MODULE CalendarFileProofs -------------------------
(***************************************************************************)
(* Proofs about CalendarFile: which file a message goes to, which files    *)
(* are kept and which are emptied, for every period, argument and bound of *)
(* the model.                                                              *)
(***************************************************************************)
EXTENDS CalendarFile, FiniteSetTheorems, SequenceTheorems, WellFoundedInduction, TLAPS

Queued == ToSet(filenames_q_)

Increasing(q) == \A i, j \in DOMAIN q : i < j => q[i] < q[j]

\* No file is older than its period: names are made of times that have come.
CreatedInv ==
    \A n \in Names : files[n].exists => n <= PeriodOf(now)

\* What sink_it_ does not rotate for may go to the file that is open.
DueInv ==
    fd_ /\ filename \notin late => \A t \in Times : t < rotation_tp_ => ~Over(filename, t)

\* The next rotation opens no name that lies before those opened or queued; what
\* has left the queue has been deleted, or is not counted, and is not opened again.
OpenedInv ==
    pc = "up" =>
        /\ fd_ => filename \in opened
        /\ \A n \in opened \cup Queued : n <= PeriodOf(rotation_tp_)
        /\ arg.max_files > 0 =>
              \A n \in opened \ untracked :
                  n \in Queued \/ (~files[n].exists /\ n < PeriodOf(rotation_tp_))

\* With a rotation at midnight it opens a name that has never been opened, and
\* whose file is empty if there is one.
AheadInv ==
    pc = "up" /\ arg.rotation = 0 =>
        \A n \in Names :
            n \in opened \/ n \in Queued \/ files[n].data # {} => n < PeriodOf(rotation_tp_)

\* The file the hourly sink is going to remove is empty: it is the one of the
\* constructor, or of a rotation that failed.
InitFileInv ==
    /\ remove_init_file_ => arg.hourly
    /\ pc = "up" /\ remove_init_file_ =>
          /\ files[filename].data = {}
          /\ filename \in opened \/ filename >= PeriodOf(rotation_tp_)
          /\ \E k \in Names : opened = {k} /\ Queued \ Exists \subseteq {k}

\* With a rotation at midnight the queue holds names in order, each once, and their
\* files exist, the one aside that the hourly sink has removed.
QueueInv ==
    pc = "up" /\ arg.rotation = 0 =>
        /\ Increasing(filenames_q_)
        /\ \E k \in Names : Queued \ Exists \subseteq {k}
        /\ ~arg.hourly => Queued \subseteq Exists

NamesInv == TypeOK /\ CreatedInv /\ DueInv /\ NeverBackdated
KeptInv  == NamesInv /\ OpenedInv /\ AheadInv /\ InitFileInv /\ QueueInv

-----------------------------------------------------------------------------
(* Periods and rotations.                                                  *)

LEMMA Division ==
    ASSUME NEW t \in Nat
    PROVE  /\ PeriodOf(t) \in Nat
           /\ PeriodOf(t) * Period <= t
           /\ t < PeriodOf(t) * Period + Period
  BY PeriodAssumption, SMT DEF PeriodOf

LEMMA Multiples ==
    ASSUME NEW j \in Nat, NEW k \in Nat
    PROVE  /\ j * Period \in Nat /\ k * Period \in Nat
           /\ j <= k => j * Period <= k * Period
           /\ j < k => j * Period + Period <= k * Period
           /\ (k + 1) * Period = k * Period + Period
<1>1. Period \in Nat /\ Period > 0
  BY PeriodAssumption
<1>2. j * Period \in Nat /\ k * Period \in Nat /\ (k + 1) * Period = k * Period + Period
  BY <1>1, SMT
<1>3. \A d \in Nat : (j + d) * Period = j * Period + d * Period /\ d * Period \in Nat
  BY <1>1, SMT
<1>4. \A d \in Nat \ {0} : d * Period >= Period
  BY <1>1, SMT
<1>5. j <= k => j * Period <= k * Period
  <2> SUFFICES ASSUME j <= k PROVE j * Period <= k * Period
    OBVIOUS
  <2>1. k - j \in Nat /\ j + (k - j) = k
    OBVIOUS
  <2>2. k * Period = j * Period + (k - j) * Period /\ (k - j) * Period \in Nat
    BY <1>3, <2>1
  <2> QED
    BY <1>2, <2>2
<1>6. j < k => j * Period + Period <= k * Period
  <2> SUFFICES ASSUME j < k PROVE j * Period + Period <= k * Period
    OBVIOUS
  <2>1. k - j \in Nat \ {0} /\ j + (k - j) = k
    OBVIOUS
  <2>2. k * Period = j * Period + (k - j) * Period /\ (k - j) * Period >= Period
           /\ (k - j) * Period \in Nat
    BY <1>3, <1>4, <2>1
  <2> QED
    BY <1>1, <1>2, <2>2
<1> QED
  BY <1>2, <1>5, <1>6

\* The period of a time is the only one the time lies in.
LEMMA PeriodIs ==
    ASSUME NEW t \in Nat, NEW k \in Nat, k * Period <= t, t < k * Period + Period
    PROVE  PeriodOf(t) = k
<1> DEFINE p == PeriodOf(t)
<1>1. p \in Nat /\ p * Period <= t /\ t < p * Period + Period
  BY Division
<1>2. Period \in Nat
  BY PeriodAssumption
<1> HIDE DEF p
<1>3. /\ p * Period \in Nat /\ k * Period \in Nat
      /\ p < k => p * Period + Period <= k * Period
      /\ k < p => k * Period + Period <= p * Period
  BY <1>1, Multiples
<1>4. ~(p < k) /\ ~(k < p)
  BY <1>1, <1>2, <1>3
<1>5. p = k
  BY <1>1, <1>4
<1> QED
  BY <1>5 DEF p

LEMMA PeriodGrows ==
    ASSUME NEW t \in Nat, NEW u \in Nat, t <= u
    PROVE  PeriodOf(t) <= PeriodOf(u)
<1> DEFINE p == PeriodOf(t)
           r == PeriodOf(u)
<1>1. /\ p \in Nat /\ p * Period <= t
      /\ r \in Nat /\ u < r * Period + Period
  BY Division
<1>2. Period \in Nat
  BY PeriodAssumption
<1> HIDE DEF p, r
<1>3. /\ p * Period \in Nat /\ r * Period \in Nat
      /\ r < p => r * Period + Period <= p * Period
  BY <1>1, Multiples
<1>4. p <= r
  BY <1>1, <1>2, <1>3
<1> QED
  BY <1>4 DEF p, r

\* Names are the periods of the model's times.
LEMMA PeriodType == \A t \in Times : t \in Nat /\ PeriodOf(t) \in Names
<1> SUFFICES ASSUME NEW t \in Times PROVE t \in Nat /\ PeriodOf(t) \in Names
  OBVIOUS
<1>1. t \in Nat /\ MaxTime \in Nat /\ t <= MaxTime
  BY BoundAssumption DEF Times
<1>2. PeriodOf(t) \in Nat /\ PeriodOf(MaxTime) \in Nat /\ PeriodOf(t) <= PeriodOf(MaxTime)
  BY <1>1, Division, PeriodGrows
<1> QED
  BY <1>1, <1>2 DEF Names

LEMMA NamesAreNumbers == \A n \in Names : n \in Nat
  BY DEF Names

\* The argument of the sink.
LEMMA ArgumentIs ==
    ASSUME arg \in Arguments
    PROVE  /\ arg.hourly \in BOOLEAN /\ arg.truncate \in BOOLEAN /\ arg.max_files \in Nat
           /\ arg.rotation \in Nat /\ arg.rotation < Period
           /\ Period \in Nat /\ Period > 0
           /\ arg.hourly => arg.rotation = 0
<1>1. arg \in Argument /\ (arg.hourly => arg.rotation = 0) /\ Period \in Nat \ {0}
  BY ArgumentAssumption, PeriodAssumption
<1>2. arg.rotation \in 0..Period - 1 /\ arg.hourly \in BOOLEAN /\ arg.truncate \in BOOLEAN
        /\ arg.max_files \in Nat
  BY <1>1 DEF Argument
<1> QED
  BY <1>1, <1>2

\* The next rotation is the first moment after t at which one may be: it lies in
\* the period of t or the next, and no file is over at it that is not at t.
LEMMA NextRotationIs ==
    ASSUME arg \in Arguments, NEW t \in Nat
    PROVE  /\ NextRotation(t) \in Nat /\ NextRotation(t) > t
           /\ NextRotation(t) % Period = arg.rotation
           /\ PeriodOf(t) <= PeriodOf(NextRotation(t))
           /\ arg.rotation = 0 => PeriodOf(t) < PeriodOf(NextRotation(t))
           /\ \A n \in Nat : ~Over(n, t) => NextRotation(t) <= (n + 1) * Period + arg.rotation
<1> DEFINE p == PeriodOf(t)
           r == arg.rotation
<1>1. r \in Nat /\ r < Period /\ Period \in Nat /\ Period > 0
  BY ArgumentIs
<1>2. p \in Nat /\ p * Period <= t /\ t < p * Period + Period
  BY Division
<1>3. p * Period \in Nat /\ (p + 1) * Period = p * Period + Period
  BY <1>2, Multiples
<1>4. NextRotation(t) = IF p * Period + r > t THEN p * Period + r ELSE p * Period + r + Period
  BY DEF NextRotation
<1> HIDE DEF p, r
<1>5. PICK k \in {p, p + 1} : NextRotation(t) = k * Period + r
  <2>1. NextRotation(t) = p * Period + r \/ NextRotation(t) = (p + 1) * Period + r
    BY <1>1, <1>3, <1>4
  <2> QED
    BY <2>1
<1>6. k \in Nat /\ k * Period \in Nat /\ p <= k
  BY <1>2, Multiples
<1>7. NextRotation(t) \in Nat /\ NextRotation(t) > t
  BY <1>1, <1>2, <1>3, <1>4
<1>8. PeriodOf(NextRotation(t)) = k
  <2>1. k * Period <= NextRotation(t) /\ NextRotation(t) < k * Period + Period
    BY <1>1, <1>5, <1>6
  <2> QED
    BY <1>6, <1>7, <2>1, PeriodIs
<1>9. NextRotation(t) % Period = r
  <2>1. \A x \in Nat : x \div Period = k => x % Period = x - k * Period
    BY <1>1, <1>6, SMT
  <2>2. NextRotation(t) % Period = NextRotation(t) - k * Period
    BY <1>7, <1>8, <2>1 DEF PeriodOf
  <2> QED
    BY <1>1, <1>5, <1>6, <2>2
<1>10. r = 0 => p < k
  <2>1. r = 0 => k # p
    BY <1>1, <1>2, <1>3, <1>5, <1>7
  <2> QED
    BY <1>2, <1>6, <2>1
<1>11. ASSUME NEW n \in Nat, ~Over(n, t)
       PROVE  NextRotation(t) <= (n + 1) * Period + r
  <2>1. t < (n + 1) * Period + r /\ (n + 1) * Period \in Nat
    <3>1. n + 1 \in Nat
      OBVIOUS
    <3>2. (n + 1) * Period \in Nat
      BY <3>1, Multiples
    <3>3. ~(t >= (n + 1) * Period + r)
      BY <1>11 DEF Over, r
    <3> QED
      BY <1>1, <3>2, <3>3
  <2>2. CASE k <= n + 1
    <3>1. k * Period <= (n + 1) * Period
      BY <1>6, <2>2, Multiples
    <3> QED
      BY <1>1, <1>5, <1>6, <2>1, <3>1
  <2>3. CASE n + 1 < k
    <3>1. n + 1 \in Nat /\ n + 1 <= p
      BY <1>2, <2>3
    <3>2. (n + 1) * Period <= p * Period
      BY <1>2, <3>1, Multiples
    <3>3. CASE n + 1 = p
      <4>1. NextRotation(t) = p * Period + r
        BY <1>1, <1>2, <1>3, <1>4, <2>1, <3>3
      <4> QED
        BY <1>1, <1>3, <3>3, <4>1
    <3>4. CASE n + 1 < p
      <4>1. (n + 1) * Period + Period <= p * Period
        BY <1>2, <3>1, <3>4, Multiples
      <4> QED
        BY <1>1, <1>2, <1>3, <2>1, <4>1
    <3> QED
      BY <1>2, <3>1, <3>3, <3>4
  <2> QED
    BY <1>6, <2>2, <2>3
<1> QED
  BY <1>7, <1>8, <1>9, <1>6, <1>10, <1>11 DEF p, r

-----------------------------------------------------------------------------
(* The queue of names.                                                     *)

\* A bounded set of numbers has a greatest one.
LEMMA Greatest ==
    ASSUME NEW N \in Nat, NEW S \in SUBSET (0..N), S # {}
    PROVE  Max(S) \in S
<1> DEFINE Above(x) == {y \in S : y > x}
           U == {Above(x) : x \in S}
<1>1. IsWellFoundedOn(StrictSubsetOrdering(0..N), FiniteSubsetsOf(0..N))
  BY FS_StrictSubsetOrderingWellFounded
<1>2. U \subseteq FiniteSubsetsOf(0..N) /\ U # {}
  <2>1. IsFiniteSet(0..N)
    BY FS_Interval
  <2>2. \A x \in S : Above(x) \in SUBSET (0..N)
    OBVIOUS
  <2>3. FiniteSubsetsOf(0..N) = SUBSET (0..N)
    BY <2>1, FS_FiniteSubsetsOfFinite
  <2>4. U \subseteq SUBSET (0..N) /\ U # {}
    BY <2>2
  <2> QED
    BY <2>3, <2>4
<1>3. PICK u \in U : \A v \in U : ~(<<v, u>> \in StrictSubsetOrdering(0..N))
  <2> HIDE DEF U
  <2> QED
    BY <1>1, <1>2, WFMin
<1>4. PICK x \in S : u = Above(x)
  OBVIOUS
<1>5. ASSUME NEW y \in S, y > x PROVE FALSE
  <2>0. \A z \in S : z \in Nat
    OBVIOUS
  <2>1. /\ Above(y) \subseteq Above(x) /\ y \in Above(x) /\ y \notin Above(y)
        /\ Above(y) \in SUBSET (0..N) /\ Above(x) \in SUBSET (0..N)
    <3>1. \A z \in Above(y) : z \in Above(x)
      BY <1>5, <2>0
    <3>2. y \in Above(x) /\ y \notin Above(y)
      BY <1>5, <2>0
    <3> QED
      BY <3>1, <3>2
  <2>2. <<Above(y), u>> \in StrictSubsetOrdering(0..N)
    BY <2>1, <1>4 DEF StrictSubsetOrdering
  <2> QED
    BY <1>3, <2>2
<1>6. \A y \in S : x >= y
  BY <1>5
<1> QED
  BY <1>6 DEF Max

\* The queue a constructor finds: names in order, up to today, of files that exist.
LEMMA FirstQueue ==
    ASSUME arg \in Arguments, NEW t \in Times, NEW fs
    PROVE  LET q == InitialQueue(t, fs)
           IN  /\ q \in Seq(Names) /\ Len(q) <= arg.max_files
               /\ Increasing(q)
               /\ \A n \in ToSet(q) : n \in Names /\ fs[n].exists
<1> DEFINE today == PeriodOf(t)
           Counts == {c \in 0..today + 1 :
                        c <= arg.max_files /\ \A k \in today + 1 - c..today : fs[k].exists}
           count == Max(Counts)
           q == [i \in 1..count |-> today + i - count]
<1>1. InitialQueue(t, fs) = q
  BY DEF InitialQueue
<1>2. today \in Nat /\ today \in Names /\ PeriodOf(MaxTime) \in Nat
  <2>1. t \in Nat /\ PeriodOf(t) \in Names /\ MaxTime \in Nat
    BY PeriodType, BoundAssumption
  <2>2. PeriodOf(t) \in Nat /\ PeriodOf(MaxTime) \in Nat
    BY <2>1, Division
  <2> QED
    BY <2>1, <2>2
<1>3. arg.max_files \in Nat
  BY ArgumentIs
<1> HIDE DEF today
<1>4. 0 \in Counts
  BY <1>2, <1>3
<1>5. count \in Counts
  <2>1. today + 1 \in Nat /\ Counts \in SUBSET (0..today + 1) /\ Counts # {}
    BY <1>2, <1>4
  <2> HIDE DEF Counts
  <2> QED
    BY <2>1, Greatest
<1> HIDE DEF count
<1>6. /\ count \in Nat /\ count <= today + 1 /\ count <= arg.max_files
      /\ \A k \in today + 1 - count..today : fs[k].exists
  BY <1>2, <1>5
<1>7. \A i \in 1..count : today + i - count \in Names /\ fs[today + i - count].exists
  <2> SUFFICES ASSUME NEW i \in 1..count
               PROVE  today + i - count \in Names /\ fs[today + i - count].exists
    OBVIOUS
  <2>1. today + i - count \in today + 1 - count..today /\ today + i - count \in 0..today
    BY <1>2, <1>6
  <2>2. today <= PeriodOf(MaxTime)
    BY <1>2 DEF Names
  <2> QED
    BY <1>2, <1>6, <2>1, <2>2 DEF Names
<1>8. q \in Seq(Names) /\ Len(q) = count /\ DOMAIN q = 1..count
  BY <1>6, <1>7
<1>9. Increasing(q)
  BY <1>2, <1>6, <1>8 DEF Increasing
<1>10. \A n \in ToSet(q) : n \in Names /\ fs[n].exists
  BY <1>7, <1>8 DEF ToSet
<1> QED
  BY <1>1, <1>6, <1>8, <1>9, <1>10

\* The queue after a rotation: the new name is last, and the first has gone when
\* there were max_files of them.
LEMMA NextQueue ==
    ASSUME arg \in Arguments, arg.max_files > 0, NEW current \in Names, NEW ok,
           NEW q \in Seq(Names), Len(q) <= arg.max_files
    PROVE  LET r == QueueAfterDelete(q, current, ok)
           IN  /\ r \in Seq(Names) /\ Len(r) <= arg.max_files
               /\ Len(q) = arg.max_files => Len(r) = arg.max_files
               /\ current \in ToSet(r) /\ ToSet(r) \subseteq ToSet(q) \cup {current}
               /\ Len(q) < arg.max_files => ToSet(q) \subseteq ToSet(r)
               /\ Len(q) = arg.max_files =>
                     Head(q) \in ToSet(q) /\ ToSet(q) \subseteq ToSet(r) \cup {Head(q)}
               /\ Increasing(q) /\ (\A n \in ToSet(q) : n < current) =>
                     /\ Increasing(r)
                     /\ Len(q) = arg.max_files => Head(q) \notin ToSet(r)
<1> DEFINE r == QueueAfterDelete(q, current, ok)
<1>0. arg.max_files \in Nat /\ Len(q) \in Nat /\ \A n \in Names : n \in Nat
  BY ArgumentIs, NamesAreNumbers
<1>1. CASE Len(q) = arg.max_files
  <2> DEFINE s == Tail(q)
  <2>1. q # <<>>
    BY <1>0, <1>1
  <2>2. /\ Head(q) = q[1] /\ s \in Seq(Names) /\ Len(s) = Len(q) - 1
        /\ \A i \in 1..Len(s) : s[i] = q[i + 1]
    BY <2>1, HeadTailProperties
  <2>3. r = Append(s, current)
    BY <1>1 DEF QueueAfterDelete
  <2> HIDE DEF s
  <2>4. /\ r \in Seq(Names) /\ Len(r) = Len(q)
        /\ \A i \in 1..Len(q) - 1 : r[i] = q[i + 1]
        /\ r[Len(q)] = current
    <3>1. /\ Append(s, current) \in Seq(Names) /\ Len(Append(s, current)) = Len(s) + 1
          /\ \A i \in 1..Len(s) : Append(s, current)[i] = s[i]
          /\ Append(s, current)[Len(s) + 1] = current
      BY <2>2, AppendProperties
    <3>2. Len(s) = Len(q) - 1 /\ Len(s) + 1 = Len(q)
      BY <1>0, <2>2
    <3> HIDE DEF r
    <3> QED
      BY <2>2, <2>3, <3>1, <3>2
  <2> HIDE DEF r
  <2>5. DOMAIN r = 1..Len(q)
    BY <2>4
  <2>6. \A i \in 1..Len(q) : r[i] = IF i = Len(q) THEN current ELSE q[i + 1]
    BY <1>0, <2>4
  <2>7. Len(q) \in 1..Len(q) /\ 1 \in DOMAIN q
    BY <1>0, <1>1
  <2>8. current \in ToSet(r) /\ Head(q) \in ToSet(q)
    BY <2>2, <2>5, <2>6, <2>7 DEF ToSet
  <2>9. ToSet(r) \subseteq ToSet(q) \cup {current}
    <3>1. \A i \in 1..Len(q) : i # Len(q) => i + 1 \in DOMAIN q
      BY <1>0
    <3> QED
      BY <2>5, <2>6, <3>1 DEF ToSet
  <2>10. ToSet(q) \subseteq ToSet(r) \cup {Head(q)}
    <3> SUFFICES ASSUME NEW i \in DOMAIN q, i # 1 PROVE q[i] \in ToSet(r)
      BY <2>2 DEF ToSet
    <3>1. i - 1 \in 1..Len(q) /\ i - 1 # Len(q) /\ (i - 1) + 1 = i
      BY <1>0
    <3>2. r[i - 1] = q[i]
      BY <2>6, <3>1
    <3> QED
      BY <2>5, <3>1, <3>2 DEF ToSet
  <2>11. ASSUME Increasing(q), \A n \in ToSet(q) : n < current
         PROVE  Increasing(r) /\ Head(q) \notin ToSet(r)
    <3>0. \A i \in DOMAIN q : q[i] \in ToSet(q) /\ q[i] \in Names
      BY DEF ToSet
    <3>1. ASSUME NEW i \in 1..Len(q), NEW j \in 1..Len(q), i < j PROVE r[i] < r[j]
      <4>1. i + 1 \in DOMAIN q /\ r[i] = q[i + 1]
        BY <1>0, <2>6, <3>1
      <4>2. CASE j = Len(q)
        <5>1. r[j] = current
          BY <2>6, <4>2
        <5> QED
          BY <2>11, <3>0, <4>1, <5>1
      <4>3. CASE j # Len(q)
        <5>1. j + 1 \in DOMAIN q /\ r[j] = q[j + 1] /\ i + 1 < j + 1
          BY <1>0, <2>6, <3>1, <4>3
        <5> QED
          BY <2>11, <4>1, <5>1 DEF Increasing
      <4> QED
        BY <4>2, <4>3
    <3>2. ASSUME NEW i \in 1..Len(q) PROVE q[1] < r[i]
      <4>1. CASE i = Len(q)
        BY <2>6, <2>7, <2>11, <3>0, <4>1
      <4>2. CASE i # Len(q)
        <5>1. i + 1 \in DOMAIN q /\ r[i] = q[i + 1] /\ 1 < i + 1
          BY <1>0, <2>6, <4>2
        <5> QED
          BY <2>7, <2>11, <5>1 DEF Increasing
      <4> QED
        BY <4>1, <4>2
    <3>3. Increasing(r)
      BY <2>5, <3>1 DEF Increasing
    <3>4. \A i \in 1..Len(q) : r[i] # q[1]
      <4>1. q[1] \in Nat
        BY <1>0, <2>7, <3>0
      <4> QED
        BY <3>2, <4>1
    <3> QED
      BY <2>2, <2>5, <3>3, <3>4 DEF ToSet
  <2>12. Len(r) = arg.max_files
    BY <1>1, <2>4
  <2> QED
    BY <1>0, <1>1, <2>4, <2>8, <2>9, <2>10, <2>11, <2>12 DEF r
<1>2. CASE Len(q) # arg.max_files
  <2>1. r = Append(q, current)
    BY <1>2 DEF QueueAfterDelete
  <2>2. /\ r \in Seq(Names) /\ Len(r) = Len(q) + 1
        /\ \A i \in 1..Len(q) : r[i] = q[i]
        /\ r[Len(q) + 1] = current
    BY <1>0, <2>1, AppendProperties
  <2> HIDE DEF r
  <2>3. DOMAIN r = 1..Len(q) + 1 /\ Len(q) + 1 \in DOMAIN r
    BY <1>0, <2>2
  <2>4. \A i \in DOMAIN r : i \in DOMAIN q \/ i = Len(q) + 1
    BY <1>0, <2>3
  <2>5. \A i \in DOMAIN q : i \in DOMAIN r /\ r[i] = q[i]
    BY <1>0, <2>2, <2>3
  <2>6. /\ current \in ToSet(r) /\ ToSet(r) \subseteq ToSet(q) \cup {current}
        /\ ToSet(q) \subseteq ToSet(r)
    BY <2>2, <2>3, <2>4, <2>5 DEF ToSet
  <2>7. ASSUME Increasing(q), \A n \in ToSet(q) : n < current PROVE Increasing(r)
    <3> SUFFICES ASSUME NEW i \in DOMAIN r, NEW j \in DOMAIN r, i < j PROVE r[i] < r[j]
      BY DEF Increasing
    <3>1. i \in DOMAIN q
      BY <1>0, <2>3
    <3>2. CASE j \in DOMAIN q
      BY <2>5, <2>7, <3>1, <3>2 DEF Increasing
    <3>3. CASE j = Len(q) + 1
      <4>1. q[i] < current
        BY <2>7, <3>1 DEF ToSet
      <4> QED
        BY <2>2, <2>5, <3>1, <3>3, <4>1
    <3> QED
      BY <2>4, <3>2, <3>3
  <2>8. Len(r) <= arg.max_files
    BY <1>0, <1>2, <2>2
  <2> QED
    BY <1>2, <2>2, <2>6, <2>7, <2>8 DEF r
<1> QED
  BY <1>1, <1>2

\* A sequence has at least as many places as elements.
LEMMA ElementsOf ==
    ASSUME NEW q \in Seq(Names)
    PROVE  /\ IsFiniteSet(ToSet(q)) /\ Cardinality(ToSet(q)) <= Len(q)
           /\ Increasing(q) => Cardinality(ToSet(q)) = Len(q)
<1>1. Len(q) \in Nat /\ \A i \in DOMAIN q : q[i] \in Nat
  BY NamesAreNumbers
<1>2. IsFiniteSet(1..Len(q)) /\ Cardinality(1..Len(q)) = Len(q)
  <2>1. /\ IsFiniteSet(1..Len(q))
        /\ Cardinality(1..Len(q)) = IF 1 > Len(q) THEN 0 ELSE Len(q) - 1 + 1
    BY <1>1, FS_Interval
  <2> QED
    BY <1>1, <2>1
<1>3. q \in Surjection(1..Len(q), ToSet(q))
  <2>1. q \in [1..Len(q) -> ToSet(q)]
    BY <1>1 DEF ToSet
  <2> QED
    BY <1>1, <2>1 DEF ToSet, Surjection
<1>4. /\ IsFiniteSet(ToSet(q)) /\ Cardinality(ToSet(q)) <= Cardinality(1..Len(q))
      /\ Cardinality(ToSet(q)) = Cardinality(1..Len(q)) <=> q \in Injection(1..Len(q), ToSet(q))
  BY <1>2, <1>3, FS_Surjection
<1>5. ASSUME Increasing(q) PROVE q \in Injection(1..Len(q), ToSet(q))
  <2>1. \A i, j \in DOMAIN q : q[i] = q[j] => i = j
    BY <1>1, <1>5 DEF Increasing
  <2>2. q \in [1..Len(q) -> ToSet(q)]
    BY <1>3 DEF Surjection
  <2> QED
    BY <2>1, <2>2 DEF Injection, IsInjective
<1> QED
  BY <1>2, <1>4, <1>5

-----------------------------------------------------------------------------
(* The files.                                                              *)

FileState  == [exists : BOOLEAN, data : SUBSET Messages]
FileStates == {fs \in [Names -> FileState] : \A n \in Names : fs[n].exists \/ fs[n].data = {}}

\* The hourly sink may remove this file before a rotation.
Removable(n) == remove_init_file_ /\ n = filename

\* The files gs are those after a rotation has opened name, with or without the
\* message m.
Rotated(gs, name, m) ==
    /\ gs \in FileStates
    /\ \A n \in Names \ {name} : gs[n] = files[n] \/ (gs[n] = NoFile /\ Removable(n))
    /\ gs[name].exists /\ gs[name].data \subseteq files[name].data \cup {m}
    /\ ~arg.truncate /\ ~Removable(name) => files[name].data \subseteq gs[name].data

\* ... or has failed to open it.
Unopened(gs, name) ==
    /\ gs \in FileStates
    /\ \A n \in Names \ {name} : gs[n] = files[n] \/ (gs[n] = NoFile /\ Removable(n))
    /\ gs[name].data \subseteq files[name].data
    /\ ~arg.truncate /\ ~Removable(name) => gs[name] = files[name]

LEMMA FilesType == TypeOK => files \in FileStates
  BY DEF TypeOK, FileStates, FileState

LEMMA RemovedFiles ==
    ASSUME TypeOK, NEW fs \in InitRemoved
    PROVE  /\ fs \in FileStates
           /\ \A n \in Names : fs[n] = files[n] \/ (fs[n] = NoFile /\ Removable(n))
<1>1. files \in FileStates /\ filename \in Names
  BY FilesType DEF TypeOK
<1>2. CASE fs = files
  BY <1>1, <1>2
<1>3. CASE fs # files
  <2>1. fs = [files EXCEPT ![filename] = NoFile] /\ remove_init_file_
    BY <1>3 DEF InitRemoved
  <2>2. NoFile \in FileState /\ NoFile.data = {}
    BY DEF NoFile, FileState
  <2> QED
    BY <1>1, <2>1, <2>2 DEF FileStates, Removable
<1> QED
  BY <1>2, <1>3

LEMMA OpenedFiles ==
    ASSUME arg \in Arguments, NEW fs \in FileStates, NEW name \in Names
    PROVE  /\ Opened(name, fs) \in FileStates
           /\ \A n \in Names \ {name} : Opened(name, fs)[n] = fs[n]
           /\ Opened(name, fs)[name].exists
           /\ Opened(name, fs)[name].data = IF arg.truncate THEN {} ELSE fs[name].data
<1> DEFINE new == [exists |-> TRUE, data |-> IF arg.truncate THEN {} ELSE fs[name].data]
<1>1. fs[name] \in FileState /\ fs \in [Names -> FileState]
  BY DEF FileStates
<1>2. new \in FileState /\ new.exists /\ new.data = IF arg.truncate THEN {} ELSE fs[name].data
  <2>1. fs[name].data \in SUBSET Messages
    BY <1>1 DEF FileState
  <2> QED
    BY <2>1 DEF FileState
<1>3. Opened(name, fs) = [fs EXCEPT ![name] = new]
  BY DEF Opened
<1> HIDE DEF new
<1> QED
  BY <1>1, <1>2, <1>3 DEF FileStates

\* A message written to a file that exists.
LEMMA WrittenFiles ==
    ASSUME NEW fs \in FileStates, NEW name \in Names, fs[name].exists, NEW m \in Messages
    PROVE  LET gs == [fs EXCEPT ![name].data = @ \cup {m}]
           IN  /\ gs \in FileStates
               /\ \A n \in Names \ {name} : gs[n] = fs[n]
               /\ gs[name].exists /\ gs[name].data = fs[name].data \cup {m}
<1> DEFINE new == [fs[name] EXCEPT !.data = @ \cup {m}]
           gs  == [fs EXCEPT ![name].data = @ \cup {m}]
<1>1. fs[name] \in FileState /\ fs \in [Names -> FileState]
  BY DEF FileStates
<1>2. new \in FileState /\ new.exists /\ new.data = fs[name].data \cup {m}
  BY <1>1 DEF FileState
<1>3. gs = [fs EXCEPT ![name] = new]
  OBVIOUS
<1> HIDE DEF new, gs
<1>4. /\ gs \in FileStates
      /\ \A n \in Names \ {name} : gs[n] = fs[n]
      /\ gs[name] = new
  BY <1>1, <1>2, <1>3 DEF FileStates
<1> QED
  BY <1>2, <1>4 DEF gs

LEMMA RotatedFiles ==
    ASSUME TypeOK, NEW fs \in InitRemoved, NEW name \in Names, NEW m \in Messages
    PROVE  /\ Rotated(Opened(name, fs), name, m)
           /\ Rotated([Opened(name, fs) EXCEPT ![name].data = @ \cup {m}], name, m)
<1> DEFINE os == Opened(name, fs)
           gs == [os EXCEPT ![name].data = @ \cup {m}]
<1>1. /\ fs \in FileStates
      /\ \A n \in Names : fs[n] = files[n] \/ (fs[n] = NoFile /\ Removable(n))
  BY RemovedFiles
<1>2. /\ os \in FileStates
      /\ \A n \in Names \ {name} : os[n] = fs[n]
      /\ os[name].exists
      /\ os[name].data = IF arg.truncate THEN {} ELSE fs[name].data
  BY <1>1, OpenedFiles DEF TypeOK
<1> HIDE DEF os
<1>3. /\ gs \in FileStates
      /\ \A n \in Names \ {name} : gs[n] = os[n]
      /\ gs[name].exists /\ gs[name].data = os[name].data \cup {m}
  BY <1>2, WrittenFiles
<1> HIDE DEF gs
<1>4. NoFile.data = {}
  BY DEF NoFile
<1>5. Rotated(os, name, m)
  BY <1>1, <1>2, <1>4 DEF Rotated
<1>6. Rotated(gs, name, m)
  BY <1>1, <1>2, <1>3, <1>4 DEF Rotated
<1> QED
  BY <1>5, <1>6 DEF os, gs

LEMMA UnopenedFiles ==
    ASSUME TypeOK, NEW fs \in InitRemoved, NEW name \in Names, NEW gs \in OpenFailed(name, fs)
    PROVE  Unopened(gs, name)
<1>1. /\ fs \in FileStates
      /\ \A n \in Names : fs[n] = files[n] \/ (fs[n] = NoFile /\ Removable(n))
  BY RemovedFiles
<1>2. NoFile.data = {}
  BY DEF NoFile
<1>3. CASE gs = fs
  BY <1>1, <1>2, <1>3 DEF Unopened
<1>4. CASE gs # fs
  <2>1. gs = Opened(name, fs) /\ arg.truncate
    BY <1>4 DEF OpenFailed
  <2>2. /\ gs \in FileStates
        /\ \A n \in Names \ {name} : gs[n] = fs[n]
        /\ gs[name].data = {}
    BY <1>1, <2>1, OpenedFiles DEF TypeOK
  <2> QED
    BY <1>1, <2>1, <2>2 DEF Unopened
<1> QED
  BY <1>3, <1>4

-----------------------------------------------------------------------------
(* Type correctness.                                                       *)

\* A message on its way, and the name of its file.
LEMMA MessageIs ==
    ASSUME TypeOK, NEW m \in pending
    PROVE  /\ m \in Messages /\ m.time \in Times /\ m.time \in Nat /\ m.time <= now
           /\ now \in Nat /\ rotation_tp_ \in Nat
           /\ PeriodOf(m.time) \in Names /\ PeriodOf(m.time) \in Nat
           /\ PeriodOf(now) \in Names /\ PeriodOf(now) \in Nat
           /\ PeriodOf(m.time) <= PeriodOf(now)
<1>1. m \in Messages /\ m.time <= now /\ now \in Times /\ rotation_tp_ \in Nat
  BY DEF TypeOK
<1>2. m.time \in Times
  BY <1>1 DEF Messages
<1>3. /\ m.time \in Nat /\ now \in Nat
      /\ PeriodOf(m.time) \in Names /\ PeriodOf(now) \in Names
  BY <1>1, <1>2, PeriodType
<1>4. PeriodOf(m.time) \in Nat /\ PeriodOf(now) \in Nat /\ PeriodOf(m.time) <= PeriodOf(now)
  BY <1>1, <1>3, NamesAreNumbers, PeriodGrows
<1> QED
  BY <1>1, <1>2, <1>3, <1>4

\* A rotation goes to a name that does not lie before the time it was due.
LEMMA DueName ==
    ASSUME TypeOK, NEW m \in pending, ShouldRotate(m.time)
    PROVE  /\ PeriodOf(rotation_tp_) \in Nat
           /\ PeriodOf(rotation_tp_) <= PeriodOf(m.time)
           /\ rotation_tp_ <= now
<1>1. /\ m.time \in Nat /\ rotation_tp_ \in Nat /\ now \in Nat /\ m.time <= now
      /\ rotation_tp_ <= m.time
  BY MessageIs DEF ShouldRotate
<1> QED
  BY <1>1, Division, PeriodGrows

\* A name ahead is not one behind.
LEMMA LaterName ==
    ASSUME TypeOK, NEW m \in pending, ShouldRotate(m.time),
           rotation_tp_' = NextRotation(now)
    PROVE  /\ rotation_tp_' \in Nat /\ now < rotation_tp_' /\ rotation_tp_ <= rotation_tp_'
           /\ PeriodOf(rotation_tp_') \in Nat
           /\ PeriodOf(rotation_tp_) <= PeriodOf(rotation_tp_')
           /\ PeriodOf(m.time) <= PeriodOf(rotation_tp_')
           /\ arg.rotation = 0 => PeriodOf(m.time) < PeriodOf(rotation_tp_')
<1>1. /\ now \in Nat /\ rotation_tp_ \in Nat /\ PeriodOf(m.time) \in Nat /\ PeriodOf(now) \in Nat
      /\ PeriodOf(m.time) <= PeriodOf(now) /\ rotation_tp_ <= now
  BY MessageIs, DueName
<1>2. /\ rotation_tp_' \in Nat /\ now < rotation_tp_'
      /\ PeriodOf(now) <= PeriodOf(rotation_tp_')
      /\ arg.rotation = 0 => PeriodOf(now) < PeriodOf(rotation_tp_')
  BY <1>1, NextRotationIs DEF TypeOK
<1>3. PeriodOf(rotation_tp_') \in Nat /\ PeriodOf(rotation_tp_) <= PeriodOf(rotation_tp_')
  BY <1>1, <1>2, Division, PeriodGrows
<1> QED
  BY <1>1, <1>2, <1>3

LEMMA InitType == Init => TypeOK
<1> SUFFICES ASSUME Init PROVE TypeOK
  OBVIOUS
<1>1. arg \in Arguments /\ arg.rotation \in Nat /\ arg.rotation < Period /\ Period \in Nat
        /\ arg.max_files \in Nat
  BY ArgumentIs DEF Init
<1>2. 0 \in Times /\ 0 \in Names
  <2>1. 0 \in Times
    BY BoundAssumption DEF Times
  <2>2. PeriodOf(MaxTime) \in Nat
    BY BoundAssumption, Division
  <2> QED
    BY <2>1, <2>2 DEF Names
<1>3. arg.rotation % Period = arg.rotation
  BY <1>1, SMT
<1>4. files \in FileStates
  BY DEF Init, FileStates, FileState, NoFile
<1>5. <<>> \in Seq(Names) /\ Len(<<>>) = 0
  OBVIOUS
<1>6. /\ rotation_tp_ \in Nat /\ rotation_tp_ % Period = arg.rotation
      /\ filenames_q_ \in Seq(Names) /\ Len(filenames_q_) <= arg.max_files
  <2>1. rotation_tp_ = arg.rotation /\ filenames_q_ = <<>>
    BY DEF Init
  <2> QED
    BY <1>1, <1>3, <1>5, <2>1
<1>7. /\ now \in Times /\ logged \in 0..MaxMsgs /\ faults \in 0..MaxFaults
      /\ pending = {} /\ pc = "down" /\ filename \in Names /\ fd_ = FALSE
      /\ remove_init_file_ = FALSE
      /\ opened = {} /\ untracked = {} /\ late = {}
  BY <1>2, BoundAssumption DEF Init
<1> QED
  BY <1>1, <1>4, <1>6, <1>7 DEF TypeOK, FileStates, FileState

LEMMA FaultType == TypeOK /\ Fault => faults' \in 0..MaxFaults
  BY BoundAssumption DEF TypeOK, Fault

\* The files after any successful rotation, and the queue.
LEMMA RotateType ==
    ASSUME TypeOK, NEW m \in pending, Rotate(m),
           files' \in FileStates, files'[filename'].exists,
           filenames_q_' \in Seq(Names) /\ Len(filenames_q_') <= arg.max_files,
           faults' \in 0..MaxFaults, untracked' \subseteq Names
    PROVE  TypeOK'
<1>1. /\ arg' = arg /\ now' = now /\ logged' = logged /\ pc' = "up" /\ pc = "up"
      /\ pending' \subseteq pending
      /\ filename' = PeriodOf(m.time) /\ fd_' = TRUE /\ rotation_tp_' = NextRotation(now)
      /\ remove_init_file_' = FALSE /\ opened' = opened \cup {filename'}
      /\ late' \subseteq late \cup {filename'}
  BY DEF Rotate, Take, world
<1>2. /\ now \in Nat /\ filename' \in Names
      /\ rotation_tp_' \in Nat /\ rotation_tp_' % Period = arg.rotation
  BY <1>1, MessageIs, NextRotationIs DEF TypeOK
<1>3. /\ arg \in Arguments /\ now \in Times /\ logged \in 0..MaxMsgs
      /\ pending \subseteq Messages /\ \A x \in pending : x.time <= now
      /\ opened \subseteq Names /\ late \subseteq Names
  BY DEF TypeOK
<1>4. opened' \subseteq Names /\ late' \subseteq Names
  BY <1>1, <1>2, <1>3
<1>5. pending' \subseteq Messages /\ \A x \in pending' : x.time <= now'
  BY <1>1, <1>3
<1> QED
  BY <1>1, <1>2, <1>3, <1>4, <1>5 DEF TypeOK, FileStates, FileState

LEMMA ConstructFacts ==
    ASSUME TypeOK, CreatedInv, NEW t \in now..MaxTime, NEW u \in now..MaxTime, Construct(t, u)
    PROVE  LET name == PeriodOf(now)
           IN  /\ arg' = arg /\ logged' = logged /\ pending' = pending /\ faults' = faults
               /\ pc = "down" /\ pc' = "up" /\ filename' = name /\ fd_' = TRUE
               /\ now \in Nat /\ t \in Nat /\ now' = u /\ u \in Times /\ now <= u /\ now <= t
               /\ name \in Names /\ name \in Nat
               /\ PeriodOf(t) \in Nat /\ PeriodOf(u) \in Nat
               /\ name <= PeriodOf(t) /\ name <= PeriodOf(u)
               /\ rotation_tp_' = NextRotation(t)
               /\ files' \in FileStates
               /\ \A n \in Names \ {name} : files'[n] = files[n]
               /\ files'[name].exists /\ files'[name].data \subseteq files[name].data
               /\ ~arg.truncate => files'[name].data = files[name].data
               /\ remove_init_file_' = (arg.hourly /\ files'[name].data = {})
               /\ filenames_q_' \in Seq(Names) /\ Len(filenames_q_') <= arg.max_files
               /\ Increasing(filenames_q_')
               /\ \A n \in ToSet(filenames_q_') : n \in Names /\ files'[n].exists /\ n <= name
               /\ opened' = {name} /\ untracked' = {name} \ ToSet(filenames_q_')
               /\ late' = IF Over(name, t) THEN late \cup {name} ELSE late
<1> DEFINE name == PeriodOf(now)
<1>1. /\ now \in Times /\ now \in Nat /\ MaxTime \in Nat
      /\ t \in Times /\ t \in Nat /\ u \in Times /\ u \in Nat /\ now <= t /\ now <= u
  BY PeriodType, BoundAssumption DEF TypeOK, Times
<1>2. /\ name \in Names /\ name \in Nat /\ PeriodOf(t) \in Nat /\ PeriodOf(u) \in Nat
      /\ name <= PeriodOf(t) /\ name <= PeriodOf(u)
  BY <1>1, PeriodType, NamesAreNumbers, Division, PeriodGrows
<1>3. /\ arg' = arg /\ logged' = logged /\ pending' = pending /\ faults' = faults
      /\ pc = "down" /\ pc' = "up" /\ now' = u
      /\ files' = Opened(name, files) /\ filename' = name /\ fd_' = TRUE
      /\ remove_init_file_' = (arg.hourly /\ files'[name].data = {})
      /\ filenames_q_' = (IF arg.max_files = 0 THEN <<>> ELSE InitialQueue(u, files'))
      /\ opened' = {name} /\ untracked' = {name} \ ToSet(filenames_q_')
      /\ late' = IF Over(name, t) THEN late \cup {name} ELSE late
      /\ rotation_tp_' = NextRotation(t)
  BY DEF Construct, world
<1> HIDE DEF name
<1>4. /\ files' \in FileStates
      /\ \A n \in Names \ {name} : files'[n] = files[n]
      /\ files'[name].exists
      /\ files'[name].data = IF arg.truncate THEN {} ELSE files[name].data
  <2>1. files \in FileStates /\ arg \in Arguments
    BY FilesType DEF TypeOK
  <2>2. /\ Opened(name, files) \in FileStates
        /\ \A n \in Names \ {name} : Opened(name, files)[n] = files[n]
        /\ Opened(name, files)[name].exists
        /\ Opened(name, files)[name].data = IF arg.truncate THEN {} ELSE files[name].data
    BY <1>2, <2>1, OpenedFiles
  <2>3. files' = Opened(name, files)
    BY <1>3
  <2> QED
    BY <2>2, <2>3
<1>5. \A n \in Names : files'[n].exists => n <= name
  <2> SUFFICES ASSUME NEW n \in Names, files'[n].exists, n # name PROVE n <= name
    BY <1>2
  <2>1. files[n].exists
    BY <1>4
  <2> QED
    BY <2>1 DEF CreatedInv, name
<1>6. /\ filenames_q_' \in Seq(Names) /\ Len(filenames_q_') <= arg.max_files
      /\ Increasing(filenames_q_')
      /\ \A n \in ToSet(filenames_q_') : n \in Names /\ files'[n].exists
  <2>1. CASE arg.max_files = 0
    <3>1. filenames_q_' = <<>>
      BY <1>3, <2>1
    <3>2. <<>> \in Seq(Names) /\ Len(<<>>) = 0 /\ Increasing(<<>>) /\ ToSet(<<>>) = {}
      BY DEF Increasing, ToSet
    <3> QED
      BY <2>1, <3>1, <3>2
  <2>2. CASE arg.max_files # 0
    BY <1>1, <1>3, <2>2, FirstQueue DEF TypeOK
  <2> QED
    BY <2>1, <2>2
<1> QED
  BY <1>1, <1>2, <1>3, <1>4, <1>5, <1>6 DEF name

\* The queue and the files after each of the rotations.
LEMMA RotateFacts ==
    ASSUME TypeOK, NEW m \in pending,
           RotateWriteThrows(m) \/ RotateOnly(m) \/ RotateDelete(m) \/ RotateDeleteThrows(m)
    PROVE  /\ Rotate(m) /\ ShouldRotate(m.time) /\ filename' \in Names
           /\ faults' \in 0..MaxFaults /\ arg' = arg /\ now' = now /\ pc = "up" /\ pc' = "up"
           /\ filename' = PeriodOf(m.time) /\ rotation_tp_' = NextRotation(now)
           /\ remove_init_file_' = FALSE /\ opened' = opened \cup {filename'}
           /\ late' = IF Over(filename', now) THEN late \cup {filename'} ELSE late
           /\ \/ /\ Rotated(files', filename', m)
                 /\ untracked' = untracked \cup {filename'} /\ filenames_q_' = filenames_q_
              \/ /\ Rotated(files', filename', m)
                 /\ arg.max_files = 0
                 /\ untracked' = untracked /\ filenames_q_' = <<>>
              \/ /\ Rotated(files', filename', m)
                 /\ arg.max_files > 0 /\ Len(filenames_q_) < arg.max_files
                 /\ untracked' = untracked
                 /\ filenames_q_' = QueueAfterDelete(filenames_q_, filename', TRUE)
              \/ /\ arg.max_files > 0 /\ Len(filenames_q_) = arg.max_files
                 /\ Head(filenames_q_) \in Names \ {filename'}
                 /\ \E gs \in FileStates :
                       /\ Rotated(gs, filename', m)
                       /\ files' = [gs EXCEPT ![Head(filenames_q_)] = NoFile]
                 /\ untracked' = untracked
                 /\ filenames_q_' = QueueAfterDelete(filenames_q_, filename', TRUE)
              \/ /\ Rotated(files', filename', m)
                 /\ arg.max_files > 0 /\ Len(filenames_q_) = arg.max_files
                 /\ Head(filenames_q_) \in Names
                 /\ untracked' = untracked \cup {Head(filenames_q_)}
                 /\ filenames_q_' = QueueAfterDelete(filenames_q_, filename', FALSE)
<1>1. Rotate(m)
  BY DEF RotateWriteThrows, RotateOnly, RotateDelete, RotateDeleteThrows
<1>2. /\ ShouldRotate(m.time) /\ pc = "up" /\ pc' = "up" /\ arg' = arg /\ now' = now
      /\ filename' = PeriodOf(m.time) /\ rotation_tp_' = NextRotation(now)
      /\ remove_init_file_' = FALSE /\ opened' = opened \cup {filename'}
      /\ late' = IF Over(filename', now) THEN late \cup {filename'} ELSE late
  BY <1>1 DEF Rotate, Take, world
<1>3. m \in Messages /\ filename' \in Names
  BY <1>2, MessageIs
<1>4. \A fs \in InitRemoved :
         /\ Rotated(Opened(filename', fs), filename', m)
         /\ Rotated([Opened(filename', fs) EXCEPT ![filename'].data = @ \cup {m}], filename', m)
  BY <1>3, RotatedFiles
<1>5. ASSUME arg.max_files > 0, Len(filenames_q_) = arg.max_files
      PROVE  Head(filenames_q_) \in Names
  <2>1. filenames_q_ \in Seq(Names) /\ filenames_q_ # <<>>
    BY <1>5 DEF TypeOK
  <2> QED
    BY <2>1, HeadTailProperties
<1>6. CASE RotateWriteThrows(m)
  <2>1. Fault /\ untracked' = untracked \cup {filename'} /\ filenames_q_' = filenames_q_
    BY <1>6 DEF RotateWriteThrows
  <2>2. Rotated(files', filename', m)
    BY <1>4, <1>6 DEF RotateWriteThrows
  <2> QED
    BY <1>1, <1>2, <1>3, <2>1, <2>2, FaultType
<1>7. CASE RotateOnly(m)
  <2>1. /\ faults' = faults /\ untracked' = untracked
        /\ Len(filenames_q_) < arg.max_files \/ arg.max_files = 0
        /\ filenames_q_' = IF arg.max_files = 0 THEN <<>>
                           ELSE QueueAfterDelete(filenames_q_, filename', TRUE)
    BY <1>7 DEF RotateOnly
  <2>2. Rotated(files', filename', m)
    BY <1>4, <1>7 DEF RotateOnly
  <2>3. faults' \in 0..MaxFaults /\ arg.max_files \in Nat
    BY <2>1, ArgumentIs DEF TypeOK
  <2>4. CASE arg.max_files = 0
    BY <1>1, <1>2, <1>3, <2>1, <2>2, <2>3, <2>4
  <2>5. CASE arg.max_files # 0
    <3>1. /\ arg.max_files > 0 /\ Len(filenames_q_) < arg.max_files
          /\ filenames_q_' = QueueAfterDelete(filenames_q_, filename', TRUE)
      BY <2>1, <2>3, <2>5
    <3> QED
      BY <1>1, <1>2, <1>3, <2>1, <2>2, <2>3, <3>1
  <2> QED
    BY <2>4, <2>5
<1>8. CASE RotateDelete(m)
  <2> DEFINE h == Head(filenames_q_)
  <2>1. /\ faults' = faults /\ untracked' = untracked
        /\ arg.max_files > 0 /\ Len(filenames_q_) = arg.max_files
        /\ h # filename'
        /\ filenames_q_' = QueueAfterDelete(filenames_q_, filename', TRUE)
    BY <1>8 DEF RotateDelete
  <2>2. PICK fs \in InitRemoved :
           files' = [Opened(filename', fs) EXCEPT ![filename'].data = @ \cup {m}, ![h] = NoFile]
    BY <1>8 DEF RotateDelete
  <2> DEFINE gs == [Opened(filename', fs) EXCEPT ![filename'].data = @ \cup {m}]
  <2>3. Rotated(gs, filename', m) /\ files' = [gs EXCEPT ![h] = NoFile]
    BY <1>4, <2>2
  <2> HIDE DEF gs
  <2>4. gs \in FileStates
    BY <2>3 DEF Rotated
  <2>5. faults' \in 0..MaxFaults /\ h \in Names
    BY <1>5, <2>1 DEF TypeOK
  <2> QED
    BY <1>1, <1>2, <1>3, <2>1, <2>3, <2>4, <2>5
<1>9. CASE RotateDeleteThrows(m)
  <2>1. /\ arg.max_files > 0 /\ Len(filenames_q_) = arg.max_files
        /\ Fault \/ faults' = faults
        /\ untracked' = untracked \cup {Head(filenames_q_)}
        /\ filenames_q_' = QueueAfterDelete(filenames_q_, filename', FALSE)
    BY <1>9 DEF RotateDeleteThrows
  <2>2. Rotated(files', filename', m)
    BY <1>4, <1>9 DEF RotateDeleteThrows
  <2>3. faults' \in 0..MaxFaults
    BY <2>1, FaultType DEF TypeOK
  <2> QED
    BY <1>1, <1>2, <1>3, <1>5, <2>1, <2>2, <2>3
<1> QED
  BY <1>6, <1>7, <1>8, <1>9

\* What all rotations have in common.
LEMMA RotateFiles ==
    ASSUME TypeOK, NEW m \in pending,
           RotateWriteThrows(m) \/ RotateOnly(m) \/ RotateDelete(m) \/ RotateDeleteThrows(m)
    PROVE  /\ files' \in FileStates /\ files'[filename'].exists
           /\ files'[filename'].data \subseteq files[filename'].data \cup {m}
           /\ \A n \in Names \ {filename'} :
                 files'[n].data \subseteq files[n].data /\ (files'[n].exists => files[n].exists)
           /\ filenames_q_' \in Seq(Names) /\ Len(filenames_q_') <= arg.max_files
           /\ untracked' \subseteq Names
<1>1. /\ filename' \in Names /\ arg \in Arguments /\ arg.max_files \in Nat
      /\ untracked \subseteq Names
      /\ filenames_q_ \in Seq(Names) /\ Len(filenames_q_) <= arg.max_files
  BY RotateFacts, ArgumentIs DEF TypeOK
<1>2. \A ok \in BOOLEAN : arg.max_files > 0 =>
        /\ QueueAfterDelete(filenames_q_, filename', ok) \in Seq(Names)
        /\ Len(QueueAfterDelete(filenames_q_, filename', ok)) <= arg.max_files
  BY <1>1, NextQueue
<1>3. filenames_q_' \in Seq(Names) /\ Len(filenames_q_') <= arg.max_files
  <2>1. \/ filenames_q_' = filenames_q_
        \/ filenames_q_' = <<>>
        \/ arg.max_files > 0 /\ filenames_q_' = QueueAfterDelete(filenames_q_, filename', TRUE)
        \/ arg.max_files > 0 /\ filenames_q_' = QueueAfterDelete(filenames_q_, filename', FALSE)
    BY RotateFacts
  <2>2. filenames_q_' = <<>> => filenames_q_' \in Seq(Names) /\ Len(filenames_q_') = 0
    OBVIOUS
  <2>3. TRUE \in BOOLEAN /\ FALSE \in BOOLEAN
    OBVIOUS
  <2>4. CASE filenames_q_' = <<>>
    BY <1>1, <2>2, <2>4
  <2>5. CASE filenames_q_' # <<>>
    BY <1>1, <1>2, <2>1, <2>3, <2>5
  <2> QED
    BY <2>4, <2>5
<1>4. untracked' \subseteq Names
  <2>1. \/ untracked' = untracked
        \/ untracked' = untracked \cup {filename'}
        \/ Head(filenames_q_) \in Names /\ untracked' = untracked \cup {Head(filenames_q_)}
    BY RotateFacts
  <2> QED
    BY <1>1, <2>1
<1>5. ~NoFile.exists /\ NoFile.data = {} /\ NoFile \in FileState
  BY DEF NoFile, FileState
<1>6. ASSUME NEW gs, Rotated(gs, filename', m)
      PROVE  /\ gs \in FileStates /\ gs[filename'].exists
             /\ gs[filename'].data \subseteq files[filename'].data \cup {m}
             /\ \A n \in Names \ {filename'} :
                   gs[n].data \subseteq files[n].data /\ (gs[n].exists => files[n].exists)
  BY <1>5, <1>6 DEF Rotated
<1>7. CASE Rotated(files', filename', m)
  BY <1>3, <1>4, <1>6, <1>7
<1>8. CASE \E gs \in FileStates :
             /\ Head(filenames_q_) \in Names \ {filename'}
             /\ Rotated(gs, filename', m)
             /\ files' = [gs EXCEPT ![Head(filenames_q_)] = NoFile]
  <2> DEFINE h == Head(filenames_q_)
  <2>1. PICK gs \in FileStates :
             h \in Names \ {filename'} /\ Rotated(gs, filename', m) /\ files' = [gs EXCEPT ![h] = NoFile]
    BY <1>8
  <2>2. gs \in [Names -> FileState] /\ \A n \in Names : gs[n].exists \/ gs[n].data = {}
    BY DEF FileStates
  <2>3. files'[h] = NoFile /\ \A n \in Names \ {h} : files'[n] = gs[n]
    BY <2>1, <2>2
  <2>4. files' \in FileStates
    BY <1>5, <2>1, <2>2, <2>3 DEF FileStates
  <2>5. /\ files'[filename'].exists
        /\ files'[filename'].data \subseteq files[filename'].data \cup {m}
    BY <1>1, <1>6, <2>1, <2>3
  <2>6. ASSUME NEW n \in Names \ {filename'}
        PROVE  files'[n].data \subseteq files[n].data /\ (files'[n].exists => files[n].exists)
    <3>1. CASE n = h
      BY <1>5, <2>3, <3>1
    <3>2. CASE n # h
      BY <1>6, <2>1, <2>3, <3>2
    <3> QED
      BY <3>1, <3>2
  <2> QED
    BY <1>3, <1>4, <2>4, <2>5, <2>6
<1>9. \/ Rotated(files', filename', m)
      \/ \E gs \in FileStates :
             /\ Head(filenames_q_) \in Names \ {filename'}
             /\ Rotated(gs, filename', m)
             /\ files' = [gs EXCEPT ![Head(filenames_q_)] = NoFile]
  BY RotateFacts
<1> QED
  BY <1>7, <1>8, <1>9

LEMMA ThrowFacts ==
    ASSUME TypeOK, NEW m \in pending, RotateThrows(m)
    PROVE  /\ ShouldRotate(m.time) /\ pc = "up" /\ pc' = "up"
           /\ arg' = arg /\ now' = now /\ logged' = logged /\ pending' \subseteq pending
           /\ filename' = PeriodOf(m.time) /\ filename' \in Names /\ fd_' = FALSE
           /\ Unopened(files', filename') /\ files' \in FileStates
           /\ \A n \in Names : files'[n].data \subseteq files[n].data
           /\ \A n \in Names \ {filename'} : files'[n].exists => files[n].exists
           /\ faults' \in 0..MaxFaults
           /\ UNCHANGED <<rotation_tp_, filenames_q_, remove_init_file_, opened, untracked, late>>
<1>1. filename' = PeriodOf(m.time) /\ filename' \in Names
  BY MessageIs DEF RotateThrows
<1>2. PICK fs \in InitRemoved : files' \in OpenFailed(filename', fs)
  BY DEF RotateThrows
<1>3. Unopened(files', filename')
  BY <1>1, <1>2, UnopenedFiles
<1>4. /\ files' \in FileStates
      /\ \A n \in Names : files'[n].data \subseteq files[n].data
      /\ \A n \in Names \ {filename'} : files'[n].exists => files[n].exists
  <2>1. ~NoFile.exists /\ NoFile.data = {}
    BY DEF NoFile
  <2>2. /\ files' \in FileStates /\ files'[filename'].data \subseteq files[filename'].data
        /\ \A n \in Names \ {filename'} : files'[n] = files[n] \/ files'[n] = NoFile
    BY <1>3 DEF Unopened
  <2>3. ASSUME NEW n \in Names \ {filename'}
        PROVE  files'[n].data \subseteq files[n].data /\ (files'[n].exists => files[n].exists)
    <3>1. CASE files'[n] = files[n]
      BY <3>1
    <3>2. CASE files'[n] = NoFile
      BY <2>1, <3>2
    <3> QED
      BY <2>2, <3>1, <3>2
  <2>4. ASSUME NEW n \in Names PROVE files'[n].data \subseteq files[n].data
    <3>1. CASE n = filename'
      BY <2>2, <3>1
    <3>2. CASE n # filename'
      BY <2>3, <3>2
    <3> QED
      BY <3>1, <3>2
  <2>5. \A n \in Names \ {filename'} : files'[n].exists => files[n].exists
    BY <2>3
  <2> QED
    BY <2>2, <2>4, <2>5
<1> QED
  BY <1>1, <1>3, <1>4, FaultType DEF RotateThrows, Take, world, history

\* What a Write does.
LEMMA WriteFacts ==
    ASSUME TypeOK, NEW m \in pending, Write(m)
    PROVE  /\ pc = "up" /\ pc' = "up" /\ fd_ = TRUE /\ ~ShouldRotate(m.time)
           /\ arg' = arg /\ now' = now /\ logged' = logged /\ pending' \subseteq pending
           /\ files' \in FileStates
           /\ \A n \in Names :
                 /\ files'[n].exists = files[n].exists
                 /\ files[n].data \subseteq files'[n].data
                 /\ files'[n].data \subseteq files[n].data \cup (IF n = filename THEN {m} ELSE {})
           /\ faults' \in 0..MaxFaults /\ remove_init_file_' = FALSE
           /\ UNCHANGED <<filename, fd_, rotation_tp_, filenames_q_, opened, untracked, late>>
<1>1. files \in FileStates /\ filename \in Names /\ m \in Messages /\ faults \in 0..MaxFaults
  BY FilesType DEF TypeOK
<1>2. /\ fd_ = TRUE /\ files[filename].exists
  BY DEF Write, TypeOK
<1>3. CASE files' = files /\ Fault
  BY <1>1, <1>2, <1>3, FaultType DEF Write, Take, world, history
<1>4. CASE files' = [files EXCEPT ![filename].data = @ \cup {m}] /\ faults' = faults
  <2>1. /\ files' \in FileStates
        /\ \A n \in Names \ {filename} : files'[n] = files[n]
        /\ files'[filename].exists /\ files'[filename].data = files[filename].data \cup {m}
    <3> DEFINE gs == [files EXCEPT ![filename].data = @ \cup {m}]
    <3>1. /\ gs \in FileStates
          /\ \A n \in Names \ {filename} : gs[n] = files[n]
          /\ gs[filename].exists /\ gs[filename].data = files[filename].data \cup {m}
      BY <1>1, <1>2, WrittenFiles
    <3>2. files' = gs
      BY <1>4
    <3> HIDE DEF gs
    <3> QED
      BY <3>1, <3>2
  <2>2. files[filename].exists \in BOOLEAN /\ files'[filename].exists \in BOOLEAN
    BY <1>1, <2>1 DEF FileStates, FileState
  <2>3. \A n \in Names :
                 /\ files'[n].exists = files[n].exists
                 /\ files[n].data \subseteq files'[n].data
                 /\ files'[n].data \subseteq files[n].data \cup (IF n = filename THEN {m} ELSE {})
    BY <1>2, <2>1, <2>2
  <2> QED
    BY <1>1, <1>2, <1>4, <2>1, <2>3 DEF Write, Take, world, history
<1> QED
  BY <1>3, <1>4 DEF Write

LEMMA StepType == TypeOK /\ CreatedInv /\ [Next]_vars => TypeOK'
<1> SUFFICES ASSUME TypeOK, CreatedInv, [Next]_vars PROVE TypeOK'
  OBVIOUS
<1>0. now \in Nat /\ MaxTime \in Nat /\ MaxMsgs \in Nat
  BY PeriodType, BoundAssumption DEF TypeOK
<1>1. CASE Tick
  <2>1. now' = now + 1 /\ now' \in Times
    BY <1>0, <1>1 DEF Tick, Times, TypeOK
  <2>2. /\ UNCHANGED <<arg, logged, pending, pc, filename, fd_, rotation_tp_, filenames_q_,
                       remove_init_file_, files, faults, opened, untracked, late>>
    BY <1>1 DEF Tick, world, sink, history
  <2>3. \A m \in pending : m.time <= now'
    <3>1. \A m \in pending : m.time \in Nat /\ m.time <= now
      BY MessageIs
    <3> QED
      BY <1>0, <2>1, <3>1
  <2> QED
    BY <2>1, <2>2, <2>3 DEF TypeOK
<1>2. CASE Log
  <2>1. /\ UNCHANGED <<arg, now, pc, filename, fd_, rotation_tp_, filenames_q_,
                       remove_init_file_, files, faults, opened, untracked, late>>
        /\ logged' = logged + 1 /\ logged < MaxMsgs
        /\ pending' = pending \cup {[id |-> logged + 1, time |-> now]}
    BY <1>2 DEF Log, sink, history
  <2>2. logged' \in 0..MaxMsgs /\ logged + 1 \in 1..MaxMsgs
    BY <1>0, <2>1 DEF TypeOK
  <2>3. [id |-> logged + 1, time |-> now] \in Messages
    BY <2>2 DEF Messages, TypeOK
  <2>4. pending' \subseteq Messages /\ \A m \in pending' : m.time <= now
    <3>1. [id |-> logged + 1, time |-> now].time <= now
      BY <1>0
    <3> QED
      BY <2>1, <2>3, <3>1 DEF TypeOK
  <2> QED
    BY <2>1, <2>2, <2>4 DEF TypeOK
<1>3. CASE ProcessEnds
  <2>1. /\ UNCHANGED <<arg, logged, now, filename, rotation_tp_, filenames_q_,
                       remove_init_file_, files, opened, untracked, late>>
        /\ pc' = "down" /\ fd_' = FALSE /\ pending' = {} /\ faults' \in 0..MaxFaults
    BY <1>3, FaultType DEF ProcessEnds, world, history
  <2> QED
    BY <2>1 DEF TypeOK
<1>4. ASSUME NEW t \in now..MaxTime, NEW u \in now..MaxTime, Construct(t, u)
      PROVE  TypeOK'
  <2>1. /\ arg' = arg /\ logged' = logged /\ pending' = pending /\ faults' = faults
        /\ pc' = "up" /\ fd_' = TRUE /\ now' \in Times /\ now <= now'
        /\ filename' \in Names /\ files' \in FileStates /\ files'[filename'].exists
        /\ remove_init_file_' \in BOOLEAN
        /\ filenames_q_' \in Seq(Names) /\ Len(filenames_q_') <= arg.max_files
        /\ opened' \subseteq Names /\ untracked' \subseteq Names
    BY <1>4, ConstructFacts
  <2>2. late' \subseteq Names
    <3>1. /\ PeriodOf(now) \in Names
          /\ late' = IF Over(PeriodOf(now), t) THEN late \cup {PeriodOf(now)} ELSE late
      BY <1>4, ConstructFacts
    <3> QED
      BY <3>1 DEF TypeOK
  <2>3. rotation_tp_' \in Nat /\ rotation_tp_' % Period = arg.rotation
    <3>1. t \in Nat /\ rotation_tp_' = NextRotation(t)
      BY <1>4, ConstructFacts
    <3> QED
      BY <3>1, NextRotationIs DEF TypeOK
  <2>4. \A m \in pending : m.time <= now'
    <3>1. \A m \in pending : m.time \in Nat /\ m.time <= now
      BY MessageIs
    <3>2. now' \in Nat
      BY <2>1, PeriodType
    <3> QED
      BY <1>0, <2>1, <3>1, <3>2
  <2> QED
    BY <2>1, <2>2, <2>3, <2>4 DEF TypeOK, FileStates, FileState
<1>5. CASE ConstructThrows
  <2>1. /\ UNCHANGED <<arg, logged, now, pending, pc, filename, fd_, rotation_tp_, filenames_q_,
                       remove_init_file_, opened, untracked, late>>
        /\ pc = "down" /\ faults' \in 0..MaxFaults
        /\ files' = files \/ files' = Opened(PeriodOf(now), files)
    BY <1>5, FaultType DEF ConstructThrows, OpenFailed, world, sink, history
  <2>2. files' \in FileStates
    <3>1. files \in FileStates /\ arg \in Arguments /\ PeriodOf(now) \in Names
      BY FilesType, PeriodType DEF TypeOK
    <3>2. Opened(PeriodOf(now), files) \in FileStates
      BY <3>1, OpenedFiles
    <3> QED
      BY <2>1, <3>1, <3>2
  <2> QED
    BY <2>1, <2>2 DEF TypeOK, FileStates, FileState
<1>6. ASSUME NEW m \in pending, Write(m) PROVE TypeOK'
  <2>1. /\ pc = "up" /\ pc' = "up" /\ arg' = arg /\ now' = now /\ logged' = logged
        /\ pending' \subseteq pending /\ files' \in FileStates
        /\ \A n \in Names : files'[n].exists = files[n].exists
        /\ faults' \in 0..MaxFaults /\ remove_init_file_' = FALSE
        /\ UNCHANGED <<filename, fd_, rotation_tp_, filenames_q_, opened, untracked, late>>
    BY <1>6, WriteFacts
  <2> QED
    BY <2>1 DEF TypeOK, FileStates, FileState
<1>7. ASSUME NEW m \in pending, WriteToNull(m) PROVE TypeOK'
  <2>1. /\ pc' = "undefined" /\ fd_ = FALSE /\ pending' \subseteq pending
        /\ UNCHANGED <<arg, logged, now, filename, fd_, rotation_tp_, filenames_q_,
                       remove_init_file_, files, faults, opened, untracked, late>>
    BY <1>7 DEF WriteToNull, Take, world, sink, history, TypeOK
  <2> QED
    BY <2>1 DEF TypeOK
<1>8. ASSUME NEW m \in pending, RotateThrows(m) PROVE TypeOK'
  <2>1. /\ pc' = "up" /\ arg' = arg /\ now' = now /\ logged' = logged /\ pending' \subseteq pending
        /\ filename' \in Names /\ fd_' = FALSE /\ files' \in FileStates /\ faults' \in 0..MaxFaults
        /\ UNCHANGED <<rotation_tp_, filenames_q_, remove_init_file_, opened, untracked, late>>
    BY <1>8, ThrowFacts
  <2> QED
    BY <2>1 DEF TypeOK, FileStates, FileState
<1>9. ASSUME NEW m \in pending,
             RotateWriteThrows(m) \/ RotateOnly(m) \/ RotateDelete(m) \/ RotateDeleteThrows(m)
      PROVE  TypeOK'
  BY <1>9, RotateFacts, RotateFiles, RotateType
<1>10. CASE UNCHANGED vars
  <2>1. UNCHANGED <<arg, logged, now, pending, pc, filename, fd_, rotation_tp_, filenames_q_,
                    remove_init_file_, files, faults, opened, untracked, late>>
    BY <1>10 DEF vars, world, sink, history
  <2> QED
    BY <2>1 DEF TypeOK
<1> QED
  BY <1>1, <1>2, <1>3, <1>4, <1>5, <1>6, <1>7, <1>8, <1>9, <1>10 DEF Next, SinkIt

-----------------------------------------------------------------------------
(* Which file a message goes to.                                           *)

LEMMA StepCreated == TypeOK /\ CreatedInv /\ [Next]_vars => CreatedInv'
<1> SUFFICES ASSUME TypeOK, CreatedInv, [Next]_vars PROVE CreatedInv'
  OBVIOUS
<1>0. now \in Nat /\ PeriodOf(now) \in Nat /\ PeriodOf(now) \in Names
  BY PeriodType, Division DEF TypeOK
<1>a. \A t \in Nat : now <= t => PeriodOf(now) <= PeriodOf(t) /\ PeriodOf(t) \in Nat
  BY <1>0, PeriodGrows, Division
<1>b. ASSUME now' \in Nat, now <= now',
             \A n \in Names : files'[n].exists => files[n].exists \/ n <= PeriodOf(now)
      PROVE  CreatedInv'
  <2>1. PeriodOf(now) <= PeriodOf(now') /\ PeriodOf(now') \in Nat
    BY <1>a, <1>b
  <2>2. \A n \in Names : files'[n].exists => n <= PeriodOf(now)
    BY <1>b DEF CreatedInv
  <2>3. \A n \in Names : files'[n].exists => n <= PeriodOf(now')
    BY <1>0, <2>1, <2>2, NamesAreNumbers
  <2> QED
    BY <2>3 DEF CreatedInv, PeriodOf
<1>1. CASE Tick
  BY <1>0, <1>1, <1>b DEF Tick
<1>2. CASE Log \/ ProcessEnds
  BY <1>0, <1>2, <1>b DEF Log, ProcessEnds
<1>4. ASSUME NEW t \in now..MaxTime, NEW u \in now..MaxTime, Construct(t, u)
      PROVE  CreatedInv'
  <2>1. /\ now' = u /\ u \in Times /\ now <= u
        /\ \A n \in Names \ {PeriodOf(now)} : files'[n] = files[n]
    BY <1>4, ConstructFacts
  <2>2. u \in Nat
    BY <2>1, PeriodType
  <2> QED
    BY <1>0, <2>1, <2>2, <1>b
<1>5. CASE ConstructThrows
  <2>1. now' = now /\ (files' = files \/ files' = Opened(PeriodOf(now), files))
    BY <1>5 DEF ConstructThrows, OpenFailed
  <2>2. \A n \in Names \ {PeriodOf(now)} : Opened(PeriodOf(now), files)[n] = files[n]
    BY <1>0, FilesType, OpenedFiles DEF TypeOK
  <2> QED
    BY <1>0, <2>1, <2>2, <1>b
<1>6. ASSUME NEW m \in pending, Write(m) PROVE CreatedInv'
  <2>1. now' = now /\ \A n \in Names : files'[n].exists = files[n].exists
    BY <1>6, WriteFacts
  <2> QED
    BY <1>0, <2>1, <1>b
<1>7. ASSUME NEW m \in pending, WriteToNull(m) PROVE CreatedInv'
  BY <1>0, <1>7, <1>b DEF WriteToNull, Take
<1>8. ASSUME NEW m \in pending, RotateThrows(m) PROVE CreatedInv'
  <2>1. filename' <= PeriodOf(now) /\ now' = now
    BY <1>8, ThrowFacts, MessageIs
  <2>2. \A n \in Names \ {filename'} : files'[n].exists => files[n].exists
    BY <1>8, ThrowFacts
  <2> QED
    BY <1>0, <2>1, <2>2, <1>b
<1>9. ASSUME NEW m \in pending,
             RotateWriteThrows(m) \/ RotateOnly(m) \/ RotateDelete(m) \/ RotateDeleteThrows(m)
      PROVE  CreatedInv'
  <2>1. filename' <= PeriodOf(now) /\ now' = now
    BY <1>9, RotateFacts, MessageIs
  <2>2. \A n \in Names \ {filename'} : files'[n].exists => files[n].exists
    BY <1>9, RotateFiles
  <2> QED
    BY <1>0, <2>1, <2>2, <1>b
<1>10. CASE UNCHANGED vars
  BY <1>0, <1>10, <1>b DEF vars
<1> QED
  BY <1>1, <1>2, <1>4, <1>5, <1>6, <1>7, <1>8, <1>9, <1>10 DEF Next, SinkIt

\* A file that is not over at t is not over before the rotation after t.
LEMMA NotOverBefore ==
    ASSUME arg \in Arguments, NEW t \in Nat, NEW name \in Names, ~Over(name, t)
    PROVE  \A s \in Nat : s < NextRotation(t) => ~Over(name, s)
<1>1. name \in Nat /\ arg.rotation \in Nat /\ NextRotation(t) \in Nat
  BY ArgumentIs, NamesAreNumbers, NextRotationIs
<1>2. name + 1 \in Nat /\ (name + 1) * Period \in Nat
  BY <1>1, Multiples
<1>3. NextRotation(t) <= (name + 1) * Period + arg.rotation
  BY <1>1, NextRotationIs
<1> QED
  BY <1>1, <1>2, <1>3 DEF Over

LEMMA OverStays ==
    ASSUME arg \in Arguments, NEW name \in Names, NEW s \in Nat, NEW t \in Nat, s <= t,
           ~Over(name, t)
    PROVE  ~Over(name, s)
<1>1. name \in Nat /\ arg.rotation \in Nat
  BY ArgumentIs, NamesAreNumbers
<1>2. name + 1 \in Nat /\ (name + 1) * Period \in Nat
  BY <1>1, Multiples
<1> QED
  BY <1>1, <1>2 DEF Over

\* Over depends on the arguments of the sink, which never change.
LEMMA StepDue == TypeOK /\ CreatedInv /\ DueInv /\ [Next]_vars => DueInv'
<1> SUFFICES ASSUME TypeOK, CreatedInv, DueInv, [Next]_vars PROVE DueInv'
  OBVIOUS
<1>0. arg \in Arguments /\ \A t \in Times : t \in Nat
  BY PeriodType DEF TypeOK
<1>a. ASSUME UNCHANGED <<arg, fd_, filename, rotation_tp_, late>> PROVE DueInv'
  BY <1>a DEF DueInv, Over
<1>b. ASSUME fd_' = FALSE PROVE DueInv'
  BY <1>b DEF DueInv
<1>c. ASSUME NEW t \in Nat, arg' = arg, filename' \in Names, rotation_tp_' = NextRotation(t),
             Over(filename', t) => filename' \in late'
      PROVE  DueInv'
  <2>1. ASSUME filename' \notin late', NEW s \in Times, s < rotation_tp_'
        PROVE  ~Over(filename', s)
    <3>1. ~Over(filename', t) /\ s \in Nat
      BY <1>0, <1>c, <2>1
    <3> QED
      BY <1>0, <1>c, <2>1, <3>1, NotOverBefore
  <2> QED
    BY <1>c, <2>1 DEF DueInv, Over
<1>1. CASE Tick \/ Log
  BY <1>1, <1>a DEF Tick, Log, world, sink, history
<1>3. CASE ProcessEnds
  BY <1>3, <1>b DEF ProcessEnds
<1>4. ASSUME NEW t \in now..MaxTime, NEW u \in now..MaxTime, Construct(t, u)
      PROVE  DueInv'
  <2>1. /\ t \in Nat /\ arg' = arg /\ filename' \in Names /\ rotation_tp_' = NextRotation(t)
        /\ filename' = PeriodOf(now)
        /\ late' = IF Over(PeriodOf(now), t) THEN late \cup {PeriodOf(now)} ELSE late
    BY <1>4, ConstructFacts
  <2>2. Over(filename', t) => filename' \in late'
    BY <2>1
  <2> QED
    BY <2>1, <2>2, <1>c
<1>5. CASE ConstructThrows
  BY <1>5, <1>a DEF ConstructThrows, world, sink, history
<1>6. ASSUME NEW m \in pending, Write(m) PROVE DueInv'
  BY <1>6, <1>a, WriteFacts
<1>7. ASSUME NEW m \in pending, WriteToNull(m) PROVE DueInv'
  BY <1>7, <1>a DEF WriteToNull, Take, world, sink, history
<1>8. ASSUME NEW m \in pending, RotateThrows(m) PROVE DueInv'
  BY <1>8, <1>b, ThrowFacts
<1>9. ASSUME NEW m \in pending,
             RotateWriteThrows(m) \/ RotateOnly(m) \/ RotateDelete(m) \/ RotateDeleteThrows(m)
      PROVE  DueInv'
  <2>1. /\ now \in Nat /\ arg' = arg /\ filename' \in Names /\ rotation_tp_' = NextRotation(now)
        /\ late' = IF Over(filename', now) THEN late \cup {filename'} ELSE late
    BY <1>9, RotateFacts, MessageIs
  <2>2. Over(filename', now) => filename' \in late'
    BY <2>1
  <2> QED
    BY <2>1, <2>2, <1>c
<1>10. CASE UNCHANGED vars
  BY <1>10, <1>a DEF vars, world, sink, history
<1> QED
  BY <1>1, <1>3, <1>4, <1>5, <1>6, <1>7, <1>8, <1>9, <1>10 DEF Next, SinkIt

LEMMA StepBackdated ==
    TypeOK /\ CreatedInv /\ DueInv /\ NeverBackdated /\ [Next]_vars => NeverBackdated'
<1> SUFFICES ASSUME TypeOK, CreatedInv, DueInv, NeverBackdated, [Next]_vars PROVE NeverBackdated'
  OBVIOUS
<1>0. arg \in Arguments /\ files \in FileStates
  BY FilesType DEF TypeOK
\* It is enough to look at the messages that are new in a file.
<1>a. ASSUME arg' = arg, late \subseteq late',
             \A n \in Names \ late' : \A m \in files'[n].data :
                m \in files[n].data \/ ~Over(n, m.time)
      PROVE  NeverBackdated'
  BY <1>a DEF NeverBackdated, Over
<1>1. CASE Tick \/ Log \/ ProcessEnds
  BY <1>1, <1>a DEF Tick, Log, ProcessEnds, world, history
<1>4. ASSUME NEW t \in now..MaxTime, NEW u \in now..MaxTime, Construct(t, u)
      PROVE  NeverBackdated'
  <2>1. /\ arg' = arg /\ late \subseteq late'
        /\ \A n \in Names : files'[n].data \subseteq files[n].data
    <3>1. /\ arg' = arg
          /\ late' = IF Over(PeriodOf(now), t) THEN late \cup {PeriodOf(now)} ELSE late
          /\ \A n \in Names \ {PeriodOf(now)} : files'[n] = files[n]
          /\ files'[PeriodOf(now)].data \subseteq files[PeriodOf(now)].data
      BY <1>4, ConstructFacts
    <3> QED
      BY <3>1
  <2> QED
    BY <2>1, <1>a
<1>5. CASE ConstructThrows
  <2>1. arg' = arg /\ late' = late /\ (files' = files \/ files' = Opened(PeriodOf(now), files))
    BY <1>5 DEF ConstructThrows, OpenFailed, world, history
  <2>2. \A n \in Names : Opened(PeriodOf(now), files)[n].data \subseteq files[n].data
    <3>1. PeriodOf(now) \in Names
      BY PeriodType DEF TypeOK
    <3>2. /\ \A n \in Names \ {PeriodOf(now)} : Opened(PeriodOf(now), files)[n] = files[n]
          /\ Opened(PeriodOf(now), files)[PeriodOf(now)].data =
                IF arg.truncate THEN {} ELSE files[PeriodOf(now)].data
      BY <1>0, <3>1, OpenedFiles
    <3> QED
      BY <3>2
  <2> QED
    BY <2>1, <2>2, <1>a
<1>6. ASSUME NEW m \in pending, Write(m) PROVE NeverBackdated'
  <2>1. /\ arg' = arg /\ late' = late /\ fd_ = TRUE
        /\ \A n \in Names : files'[n].data \subseteq files[n].data \cup (IF n = filename THEN {m} ELSE {})
    BY <1>6, WriteFacts
  <2>2. filename \notin late => ~Over(filename, m.time)
    <3>1. m.time \in Times /\ m.time \in Nat /\ rotation_tp_ \in Nat /\ ~(m.time >= rotation_tp_)
      BY <1>6, WriteFacts, MessageIs DEF ShouldRotate
    <3>2. m.time < rotation_tp_
      BY <3>1
    <3> QED
      BY <2>1, <3>1, <3>2 DEF DueInv
  <2>3. \A n \in Names \ late' : \A x \in files'[n].data : x \in files[n].data \/ ~Over(n, x.time)
    BY <2>1, <2>2
  <2> QED
    BY <2>1, <2>3, <1>a
<1>7. ASSUME NEW m \in pending, WriteToNull(m) PROVE NeverBackdated'
  BY <1>7, <1>a DEF WriteToNull, Take, world, history
<1>8. ASSUME NEW m \in pending, RotateThrows(m) PROVE NeverBackdated'
  BY <1>8, <1>a, ThrowFacts
<1>9. ASSUME NEW m \in pending,
             RotateWriteThrows(m) \/ RotateOnly(m) \/ RotateDelete(m) \/ RotateDeleteThrows(m)
      PROVE  NeverBackdated'
  <2>1. /\ arg' = arg /\ filename' \in Names
        /\ late' = IF Over(filename', now) THEN late \cup {filename'} ELSE late
    BY <1>9, RotateFacts
  <2>2. /\ files'[filename'].data \subseteq files[filename'].data \cup {m}
        /\ \A n \in Names \ {filename'} : files'[n].data \subseteq files[n].data
    BY <1>9, RotateFiles
  <2>3. ~Over(filename', now) => ~Over(filename', m.time)
    <3>1. m.time \in Nat /\ now \in Nat /\ m.time <= now
      BY MessageIs
    <3> QED
      BY <1>0, <2>1, <3>1, OverStays
  <2>4. \A n \in Names \ late' : \A x \in files'[n].data : x \in files[n].data \/ ~Over(n, x.time)
    BY <2>1, <2>2, <2>3
  <2>5. late \subseteq late'
    BY <2>1
  <2> QED
    BY <2>1, <2>4, <2>5, <1>a
<1>10. CASE UNCHANGED vars
  BY <1>10, <1>a DEF vars, world, history
<1> QED
  BY <1>1, <1>4, <1>5, <1>6, <1>7, <1>8, <1>9, <1>10 DEF Next, SinkIt

LEMMA InitNames == Init => NamesInv
<1> SUFFICES ASSUME Init PROVE NamesInv
  OBVIOUS
<1>1. \A n \in Names : files[n].data = {} /\ ~files[n].exists
  BY DEF Init, NoFile
<1>2. CreatedInv /\ NeverBackdated /\ DueInv
  BY <1>1 DEF CreatedInv, NeverBackdated, DueInv, Init
<1> QED
  BY <1>2, InitType DEF NamesInv

LEMMA NamesCorrect == Spec => []NamesInv
<1>1. NamesInv /\ [Next]_vars => NamesInv'
  BY StepType, StepCreated, StepDue, StepBackdated DEF NamesInv
<1> QED
  BY InitNames, <1>1, PTL DEF Spec

\* The state of the sink is well formed, whatever the period, the arguments and the
\* bounds: rotation_tp_ is a moment of rotation, the queue holds at most max_files
\* names, an open stream has a file (daily_file_sink.h:157-203, file_helper-inl.h:32-73).
THEOREM TypeCorrect == Spec => []TypeOK
<1>1. NamesInv => TypeOK
  BY DEF NamesInv
<1> QED
  BY NamesCorrect, <1>1, PTL

\* No message gets into the file of a period that was over when it was logged, unless
\* that file was opened when its time was over (daily_file_sink.h:157-163).
THEOREM BackdatedCorrect == Spec => []NeverBackdated
<1>1. NamesInv => NeverBackdated
  BY DEF NamesInv
<1> QED
  BY NamesCorrect, <1>1, PTL

-----------------------------------------------------------------------------
(* Which files are kept.                                                   *)

LEMMA QueuedType == TypeOK => Queued \subseteq Names
  BY DEF TypeOK, Queued, ToSet

\* Nothing the four invariants look at changes.
LEMMA KeptSame ==
    ASSUME KeptInv, UNCHANGED <<arg, pc, filename, fd_, rotation_tp_, filenames_q_,
                                remove_init_file_, files, opened, untracked>>
    PROVE  OpenedInv' /\ AheadInv' /\ InitFileInv' /\ QueueInv'
  BY DEF KeptInv, OpenedInv, AheadInv, InitFileInv, QueueInv, Queued, Exists, PeriodOf

\* The sink is not there after the step.
LEMMA KeptDown ==
    ASSUME KeptInv, pc' # "up", UNCHANGED <<arg, remove_init_file_>>
    PROVE  OpenedInv' /\ AheadInv' /\ InitFileInv' /\ QueueInv'
  BY DEF KeptInv, OpenedInv, AheadInv, InitFileInv, QueueInv

\* Removing the file the hourly sink may remove, and opening one that lies ahead,
\* leaves at most one name in the queue without a file.
LEMMA Missing ==
    ASSUME KeptInv, pc = "up", arg.rotation = 0, NEW name \in Names,
           PeriodOf(rotation_tp_) <= name, NEW gs,
           \A n \in Names \ {name} : gs[n] = files[n] \/ (gs[n] = NoFile /\ Removable(n))
    PROVE  /\ \A n \in Queued : n \in Names /\ n < PeriodOf(rotation_tp_) /\ n < name
           /\ \E k \in Names : /\ \A n \in Queued : ~gs[n].exists => n = k
                               /\ remove_init_file_ => opened = {k}
           /\ ~arg.hourly => \A n \in Queued : gs[n].exists
<1>1. /\ TypeOK /\ AheadInv /\ InitFileInv /\ QueueInv
      /\ PeriodOf(rotation_tp_) \in Nat /\ name \in Nat /\ filename \in Names
  BY Division, NamesAreNumbers DEF KeptInv, NamesInv, TypeOK
<1>2. \A n \in Queued : n \in Names /\ n \in Nat /\ n < PeriodOf(rotation_tp_)
  BY <1>1, QueuedType, NamesAreNumbers DEF AheadInv
<1>3. \A n \in Queued : n < name /\ n # name
  BY <1>1, <1>2
<1>4. \A n \in Names : n \in Exists <=> files[n].exists
  BY DEF Exists
<1>5. CASE remove_init_file_
  <2>1. PICK k \in Names : opened = {k} /\ Queued \ Exists \subseteq {k}
    BY <1>1, <1>5 DEF InitFileInv
  <2>2. arg.hourly /\ (filename \in opened \/ filename >= PeriodOf(rotation_tp_))
    BY <1>1, <1>5 DEF InitFileInv
  <2>3. ASSUME NEW n \in Queued, ~gs[n].exists PROVE n = k
    <3>1. CASE gs[n] = files[n]
      BY <1>2, <1>4, <2>1, <2>3, <3>1
    <3>2. CASE n = filename
      <4>1. ~(filename >= PeriodOf(rotation_tp_))
        BY <1>1, <1>2, <3>2
      <4> QED
        BY <2>1, <2>2, <3>2, <4>1
    <3> QED
      BY <1>2, <1>3, <3>1, <3>2 DEF Removable
  <2> QED
    BY <1>2, <1>3, <2>1, <2>2, <2>3
<1>6. CASE ~remove_init_file_
  <2>1. \A n \in Queued : gs[n] = files[n]
    BY <1>2, <1>3, <1>6 DEF Removable
  <2>2. PICK k \in Names : Queued \ Exists \subseteq {k}
    BY <1>1 DEF QueueInv
  <2>3. \A n \in Queued : ~gs[n].exists => n = k
    BY <1>2, <1>4, <2>1, <2>2
  <2>4. ~arg.hourly => \A n \in Queued : gs[n].exists
    BY <1>1, <1>2, <1>4, <2>1 DEF QueueInv
  <2> QED
    BY <1>2, <1>3, <1>6, <2>3, <2>4
<1> QED
  BY <1>5, <1>6

LEMMA ConstructKept ==
    ASSUME KeptInv, NEW t \in now..MaxTime, NEW u \in now..MaxTime, Construct(t, u)
    PROVE  OpenedInv' /\ AheadInv' /\ InitFileInv' /\ QueueInv'
<1> DEFINE name == PeriodOf(now)
<1>1. TypeOK /\ CreatedInv
  BY DEF KeptInv, NamesInv
<1>2. /\ arg' = arg /\ pc' = "up" /\ filename' = name /\ t \in Nat
      /\ name \in Names /\ name \in Nat /\ name <= PeriodOf(t) /\ PeriodOf(t) \in Nat
      /\ rotation_tp_' = NextRotation(t)
      /\ files' \in FileStates
      /\ \A n \in Names \ {name} : files'[n] = files[n]
      /\ remove_init_file_' = (arg.hourly /\ files'[name].data = {})
      /\ filenames_q_' \in Seq(Names) /\ Increasing(filenames_q_')
      /\ \A n \in ToSet(filenames_q_') : n \in Names /\ files'[n].exists /\ n <= name
      /\ opened' = {name} /\ untracked' = {name} \ ToSet(filenames_q_')
  BY <1>1, ConstructFacts
<1>3. /\ NextRotation(t) \in Nat /\ PeriodOf(NextRotation(t)) \in Nat
      /\ PeriodOf(t) <= PeriodOf(NextRotation(t))
      /\ arg.rotation = 0 => PeriodOf(t) < PeriodOf(NextRotation(t))
  BY <1>1, <1>2, NextRotationIs, Division DEF TypeOK
<1> DEFINE p == PeriodOf(rotation_tp_)
<1>4. /\ p' = PeriodOf(NextRotation(t)) /\ p' \in Nat /\ name <= p'
      /\ arg.rotation = 0 => name < p'
  BY <1>2, <1>3 DEF PeriodOf
<1>5. Queued' = ToSet(filenames_q_') /\ \A n \in Names : n \in Nat
  BY NamesAreNumbers DEF Queued
<1>6. \A n \in Queued' : n \in Names /\ n \in Nat /\ n <= name /\ n \in Exists'
  BY <1>2, <1>5 DEF Exists
<1>7. ASSUME NEW n \in Names, files'[n].data # {}
      PROVE  n <= name
  <2> SUFFICES ASSUME n # name PROVE n <= name
    BY <1>2
  <2>1. files[n].data # {} /\ (files[n].exists \/ files[n].data = {})
    BY <1>1, <1>2, <1>7, FilesType DEF FileStates
  <2> QED
    BY <1>1, <2>1 DEF CreatedInv
<1>8. OpenedInv'
  <2>1. \A n \in opened' \cup Queued' : n <= p'
    BY <1>2, <1>4, <1>6
  <2>2. \A n \in opened' \ untracked' : n \in Queued'
    BY <1>2, <1>5
  <2> QED
    BY <1>2, <2>1, <2>2 DEF OpenedInv
<1>9. AheadInv'
  <2>1. ASSUME arg.rotation = 0, NEW n \in Names,
               n \in opened' \/ n \in Queued' \/ files'[n].data # {}
        PROVE  n < p'
    <3>1. n <= name /\ n \in Nat
      BY <1>2, <1>5, <1>6, <1>7, <2>1
    <3> QED
      BY <1>2, <1>4, <2>1, <3>1
  <2> QED
    BY <1>2, <2>1 DEF AheadInv
<1>10. InitFileInv'
  <2>1. name \in Names /\ opened' = {name} /\ Queued' \ Exists' \subseteq {name}
    BY <1>2, <1>6
  <2> QED
    BY <1>2, <2>1 DEF InitFileInv
<1>11. QueueInv'
  <2>1. Queued' \subseteq Exists'
    BY <1>6
  <2> QED
    BY <1>2, <2>1 DEF QueueInv
<1> QED
  BY <1>8, <1>9, <1>10, <1>11

LEMMA WriteKept ==
    ASSUME KeptInv, NEW m \in pending, Write(m)
    PROVE  OpenedInv' /\ AheadInv' /\ InitFileInv' /\ QueueInv'
<1>1. TypeOK /\ OpenedInv /\ AheadInv /\ QueueInv /\ filename \in Names
  BY DEF KeptInv, NamesInv, TypeOK
<1>2. /\ pc = "up" /\ pc' = "up" /\ fd_ = TRUE /\ arg' = arg
      /\ \A n \in Names :
            /\ files'[n].exists = files[n].exists
            /\ files'[n].data \subseteq files[n].data \cup (IF n = filename THEN {m} ELSE {})
      /\ remove_init_file_' = FALSE
      /\ UNCHANGED <<filename, fd_, rotation_tp_, filenames_q_, opened, untracked>>
  BY <1>1, WriteFacts
<1>3. Exists' = Exists /\ Queued' = Queued /\ PeriodOf(rotation_tp_)' = PeriodOf(rotation_tp_)
  BY <1>2 DEF Exists, Queued, PeriodOf
<1>4. filename \in opened
  BY <1>1, <1>2 DEF OpenedInv
<1>5. OpenedInv'
  <2>1. \A n \in opened : n \in Names
    BY <1>1 DEF TypeOK
  <2> QED
    BY <1>1, <1>2, <1>3, <2>1 DEF OpenedInv
<1>6. AheadInv'
  <2>1. \A n \in Names : files'[n].data # {} => files[n].data # {} \/ n \in opened
    BY <1>2, <1>4
  <2> QED
    BY <1>1, <1>2, <1>3, <2>1 DEF AheadInv
<1>7. InitFileInv'
  BY <1>2 DEF InitFileInv
<1>8. QueueInv'
  BY <1>1, <1>2, <1>3 DEF QueueInv
<1> QED
  BY <1>5, <1>6, <1>7, <1>8

LEMMA RotateThrowsKept ==
    ASSUME KeptInv, NEW m \in pending, RotateThrows(m)
    PROVE  OpenedInv' /\ AheadInv' /\ InitFileInv' /\ QueueInv'
<1> DEFINE p == PeriodOf(rotation_tp_)
<1>1. TypeOK /\ OpenedInv /\ AheadInv /\ InitFileInv /\ QueueInv
  BY DEF KeptInv, NamesInv
<1>2. /\ pc = "up" /\ pc' = "up" /\ arg' = arg /\ filename' \in Names /\ fd_' = FALSE
      /\ Unopened(files', filename')
      /\ \A n \in Names : files'[n].data \subseteq files[n].data
      /\ \A n \in Names \ {filename'} : files'[n].exists => files[n].exists
      /\ UNCHANGED <<rotation_tp_, filenames_q_, remove_init_file_, opened, untracked>>
  BY <1>1, ThrowFacts
<1>3. p \in Nat /\ p <= filename' /\ filename' \in Nat
  BY <1>1, <1>2, ThrowFacts, DueName, NamesAreNumbers
<1>4. Queued' = Queued /\ p' = p
  BY <1>2 DEF Queued, PeriodOf
<1>5. opened \subseteq Names /\ Queued \subseteq Names /\ \A n \in Names : n \in Nat
  BY <1>1, QueuedType, NamesAreNumbers DEF TypeOK
<1> HIDE DEF p
<1>6. OpenedInv'
  <2>1. ASSUME arg.max_files > 0, NEW n \in opened \ untracked
        PROVE  n \in Queued \/ (~files'[n].exists /\ n < p)
    <3>1. n \in Queued \/ (~files[n].exists /\ n < p)
      BY <1>1, <1>2, <2>1 DEF OpenedInv, p
    <3>2. n < p => n # filename'
      BY <1>3, <1>5
    <3> QED
      BY <1>2, <1>5, <3>1, <3>2
  <2>2. \A n \in opened \cup Queued : n <= p
    BY <1>1, <1>2 DEF OpenedInv, p
  <2> QED
    BY <1>2, <1>4, <2>1, <2>2 DEF OpenedInv, p
<1>7. AheadInv'
  <2>1. ASSUME arg.rotation = 0, NEW n \in Names,
               n \in opened \/ n \in Queued \/ files'[n].data # {}
        PROVE  n < p
    BY <1>1, <1>2, <2>1 DEF AheadInv, p
  <2> QED
    BY <1>2, <1>4, <2>1 DEF AheadInv, p
<1>8. ASSUME arg.rotation = 0
      PROVE  /\ \E k \in Names : /\ Queued \ Exists' \subseteq {k}
                                 /\ remove_init_file_ => opened = {k}
             /\ ~arg.hourly => Queued \subseteq Exists'
  <2>1. \A n \in Names \ {filename'} :
           files'[n] = files[n] \/ (files'[n] = NoFile /\ Removable(n))
    BY <1>2 DEF Unopened
  <2>2. PICK k \in Names : /\ \A n \in Queued : ~files'[n].exists => n = k
                           /\ remove_init_file_ => opened = {k}
    BY <1>2, <1>3, <1>8, <2>1, Missing DEF p
  <2>3. ~arg.hourly => \A n \in Queued : files'[n].exists
    BY <1>2, <1>3, <1>8, <2>1, Missing DEF p
  <2>4. \A n \in Names : n \in Exists' <=> files'[n].exists
    BY DEF Exists
  <2> QED
    BY <1>5, <2>2, <2>3, <2>4
<1>9. InitFileInv'
  <2>1. remove_init_file_ => arg.hourly /\ arg.rotation = 0
    BY <1>1, ArgumentIs DEF InitFileInv, TypeOK
  <2>2. arg.rotation = 0 => files'[filename'].data = {}
    <3>1. arg.rotation = 0 /\ files[filename'].data # {} => filename' < p
      BY <1>1, <1>2 DEF AheadInv, p
    <3>2. ~(filename' < p)
      BY <1>3
    <3> QED
      BY <1>2, <3>1, <3>2
  <2>3. filename' >= p
    BY <1>3
  <2>4. ASSUME remove_init_file_
        PROVE  \E k \in Names : opened = {k} /\ Queued \ Exists' \subseteq {k}
    BY <1>8, <2>1, <2>4
  <2> QED
    BY <1>2, <1>4, <2>1, <2>2, <2>3, <2>4 DEF InitFileInv, p
<1>10. QueueInv'
  <2>1. arg.rotation = 0 => Increasing(filenames_q_)
    BY <1>1, <1>2 DEF QueueInv
  <2> QED
    BY <1>2, <1>4, <1>8, <2>1 DEF QueueInv
<1> QED
  BY <1>6, <1>7, <1>9, <1>10

LEMMA RotateKept ==
    ASSUME KeptInv, NEW m \in pending,
           RotateWriteThrows(m) \/ RotateOnly(m) \/ RotateDelete(m) \/ RotateDeleteThrows(m)
    PROVE  OpenedInv' /\ AheadInv' /\ InitFileInv' /\ QueueInv'
<1> DEFINE p == PeriodOf(rotation_tp_)
           h == Head(filenames_q_)
           q == filenames_q_
<1>1. TypeOK /\ OpenedInv /\ AheadInv /\ InitFileInv /\ QueueInv
  BY DEF KeptInv, NamesInv
<1>2. /\ pc = "up" /\ pc' = "up" /\ arg' = arg /\ filename' \in Names /\ ShouldRotate(m.time)
      /\ filename' = PeriodOf(m.time) /\ rotation_tp_' = NextRotation(now)
      /\ remove_init_file_' = FALSE /\ opened' = opened \cup {filename'}
  BY <1>1, RotateFacts
<1>3. /\ files'[filename'].exists
      /\ \A n \in Names \ {filename'} :
            files'[n].data \subseteq files[n].data /\ (files'[n].exists => files[n].exists)
      /\ untracked' \subseteq Names
  BY <1>1, RotateFiles
<1>4. /\ p \in Nat /\ filename' \in Nat /\ p' \in Nat
      /\ p <= filename' /\ filename' <= p' /\ p <= p'
      /\ arg.rotation = 0 => filename' < p'
  <2>1. p' = PeriodOf(rotation_tp_')
    BY DEF PeriodOf
  <2> QED
    BY <1>1, <1>2, <2>1, DueName, LaterName, NamesAreNumbers
<1>5. /\ opened \subseteq Names /\ Queued \subseteq Names /\ \A n \in Names : n \in Nat
      /\ arg \in Arguments /\ q \in Seq(Names) /\ Len(q) <= arg.max_files
  BY <1>1, QueuedType, NamesAreNumbers DEF TypeOK
<1>6. \A n \in opened \cup Queued : n <= p /\ n \in Nat /\ n \in Names
  BY <1>1, <1>2, <1>5 DEF OpenedInv
\* What becomes of the queue.
<1>7. ASSUME arg.max_files > 0, NEW ok, filenames_q_' = QueueAfterDelete(q, filename', ok)
      PROVE  /\ filename' \in Queued' /\ Queued' \subseteq Queued \cup {filename'}
             /\ Len(q) < arg.max_files => Queued \subseteq Queued'
             /\ Len(q) = arg.max_files => h \in Queued /\ Queued \subseteq Queued' \cup {h}
             /\ Increasing(q) /\ (\A n \in Queued : n < filename') =>
                   /\ Increasing(filenames_q_')
                   /\ Len(q) = arg.max_files => h \notin Queued'
  BY <1>2, <1>5, <1>7, NextQueue DEF Queued
<1>8. /\ arg.max_files \in Nat
      /\ \/ arg.max_files > 0 /\ filenames_q_' = QueueAfterDelete(q, filename', TRUE)
         \/ arg.max_files > 0 /\ filenames_q_' = QueueAfterDelete(q, filename', FALSE)
         \/ filenames_q_' = q /\ untracked' = untracked \cup {filename'}
         \/ arg.max_files = 0 /\ filenames_q_' = <<>>
  BY <1>1, <1>5, ArgumentIs, RotateFacts
<1>9. Queued' \subseteq Queued \cup {filename'}
  <2>1. filenames_q_' = <<>> => Queued' = {}
    BY DEF Queued, ToSet
  <2>2. filenames_q_' = q => Queued' = Queued
    BY DEF Queued
  <2> QED
    BY <1>7, <1>8, <2>1, <2>2
<1> HIDE DEF p
<1>10. OpenedInv'
  <2>1. \A n \in opened' \cup Queued' : n <= p'
    BY <1>2, <1>4, <1>6, <1>9
  <2>2. ASSUME arg.max_files > 0, NEW n \in opened' \ untracked', n \notin Queued'
        PROVE  ~files'[n].exists /\ n < p'
    <3>1. CASE n = filename'
      <4>1. filename' \notin untracked' /\ filename' \notin Queued'
        BY <2>2, <3>1
      <4>2. arg.max_files > 0 /\ arg.max_files # 0
        BY <1>8, <2>2
      <4>3. \A ok \in BOOLEAN : filenames_q_' # QueueAfterDelete(q, filename', ok)
        BY <1>7, <4>1, <4>2
      <4> QED
        BY <1>8, <4>1, <4>2, <4>3
    <3>2. CASE n # filename'
      <4>1. n \in opened \ untracked /\ n \in Names /\ n \in Nat
        <5>1. untracked \subseteq untracked'
          BY <1>1, RotateFacts
        <5> QED
          BY <1>2, <1>5, <2>2, <3>2, <5>1
      <4>2. CASE n \notin Queued
        <5>1. ~files[n].exists /\ n < p
          BY <1>1, <1>2, <2>2, <4>1, <4>2 DEF OpenedInv, p
        <5> QED
          BY <1>3, <1>4, <3>2, <4>1, <5>1
      <4>3. CASE n \in Queued
        <5>1. n < p'
          BY <1>4, <1>6, <3>2, <4>3
        <5>2. \/ filenames_q_' = q
              \/ arg.max_files = 0
              \/ Len(q) < arg.max_files /\ filenames_q_' = QueueAfterDelete(q, filename', TRUE)
              \/ /\ Len(q) = arg.max_files /\ filenames_q_' = QueueAfterDelete(q, filename', TRUE)
                 /\ \E gs \in FileStates : files' = [gs EXCEPT ![h] = NoFile]
              \/ /\ Len(q) = arg.max_files /\ filenames_q_' = QueueAfterDelete(q, filename', FALSE)
                 /\ untracked' = untracked \cup {h}
          BY <1>1, RotateFacts
        <5>3. filenames_q_' # q
          BY <2>2, <4>3 DEF Queued
        <5>4. CASE Len(q) < arg.max_files /\ filenames_q_' = QueueAfterDelete(q, filename', TRUE)
          BY <1>7, <2>2, <4>3, <5>4
        <5>5. CASE /\ Len(q) = arg.max_files /\ filenames_q_' = QueueAfterDelete(q, filename', TRUE)
                   /\ \E gs \in FileStates : files' = [gs EXCEPT ![h] = NoFile]
          <6>1. n = h
            BY <1>7, <2>2, <4>3, <5>5
          <6>2. files'[n] = NoFile
            BY <4>1, <5>5, <6>1 DEF FileStates
          <6> QED
            BY <5>1, <6>2 DEF NoFile
        <5>6. CASE /\ Len(q) = arg.max_files /\ filenames_q_' = QueueAfterDelete(q, filename', FALSE)
                   /\ untracked' = untracked \cup {h}
          <6>1. n = h
            BY <1>7, <2>2, <4>3, <5>6
          <6> QED
            BY <2>2, <5>6, <6>1
        <5>7. arg.max_files # 0
          BY <1>8, <2>2
        <5> QED
          BY <5>2, <5>3, <5>4, <5>5, <5>6, <5>7
      <4> QED
        BY <4>2, <4>3
    <3> QED
      BY <3>1, <3>2
  <2>3. filename' \in opened'
    BY <1>2
  <2> QED
    BY <1>2, <2>1, <2>2, <2>3 DEF OpenedInv, p
<1>11. AheadInv'
  <2>1. ASSUME arg.rotation = 0, NEW n \in Names,
               n \in opened' \/ n \in Queued' \/ files'[n].data # {}
        PROVE  n < p'
    <3>1. CASE n = filename'
      BY <1>4, <2>1, <3>1
    <3>2. CASE n # filename'
      <4>1. n \in opened \/ n \in Queued \/ files[n].data # {}
        BY <1>2, <1>3, <1>9, <2>1, <3>2
      <4>2. n < p /\ n \in Nat
        BY <1>1, <1>2, <1>5, <2>1, <4>1 DEF AheadInv, p
      <4> QED
        BY <1>4, <4>2
    <3> QED
      BY <3>1, <3>2
  <2> QED
    BY <1>2, <2>1 DEF AheadInv, p
<1>12. InitFileInv'
  BY <1>2 DEF InitFileInv
<1>13. QueueInv'
  <2> SUFFICES ASSUME arg.rotation = 0
               PROVE  /\ Increasing(filenames_q_')
                      /\ \E k \in Names : Queued' \ Exists' \subseteq {k}
                      /\ ~arg.hourly => Queued' \subseteq Exists'
    BY <1>2 DEF QueueInv
  <2>0. \A n \in Names : n \in Exists' <=> files'[n].exists
    BY DEF Exists
  <2>1. Increasing(q) /\ \A n \in Queued : n < filename'
    BY <1>1, <1>2, <1>4, <1>5 DEF QueueInv, AheadInv, p
  <2>2. Increasing(filenames_q_')
    <3>1. filenames_q_' = <<>> => Increasing(filenames_q_')
      BY DEF Increasing
    <3> QED
      BY <1>7, <1>8, <2>1, <3>1
  <2>3. PICK gs : /\ \A n \in Names \ {filename'} :
                        gs[n] = files[n] \/ (gs[n] = NoFile /\ Removable(n))
                  /\ \A n \in Queued' \ {filename'} : files'[n] = gs[n]
    <3>1. CASE Rotated(files', filename', m)
      BY <3>1 DEF Rotated
    <3>2. CASE ~Rotated(files', filename', m)
      <4>1. PICK gs \in FileStates :
              /\ arg.max_files > 0 /\ Len(q) = arg.max_files
              /\ Rotated(gs, filename', m)
              /\ files' = [gs EXCEPT ![h] = NoFile]
              /\ filenames_q_' = QueueAfterDelete(q, filename', TRUE)
        BY <1>1, <3>2, RotateFacts
      <4>2. h \notin Queued'
        BY <1>7, <2>1, <4>1
      <4>3. \A n \in Queued' \ {filename'} : files'[n] = gs[n]
        <5>1. \A n \in Names : n # h => files'[n] = gs[n]
          BY <4>1 DEF FileStates
        <5> QED
          BY <1>5, <1>9, <4>2, <5>1
      <4> QED
        BY <4>1, <4>3 DEF Rotated
    <3> QED
      BY <3>1, <3>2
  <2>4. PICK k \in Names : \A n \in Queued : ~gs[n].exists => n = k
    BY <1>2, <1>4, <2>3, Missing DEF p
  <2>5. ~arg.hourly => \A n \in Queued : gs[n].exists
    BY <1>2, <1>4, <2>3, Missing DEF p
  <2>6. \A n \in Queued' : ~files'[n].exists => n = k
    BY <1>3, <1>9, <2>3, <2>4
  <2>7. ~arg.hourly => \A n \in Queued' : files'[n].exists
    BY <1>3, <1>9, <2>3, <2>5
  <2>8. Queued' \subseteq Names
    BY <1>2, <1>5, <1>9
  <2> QED
    BY <2>0, <2>2, <2>6, <2>7, <2>8
<1> QED
  BY <1>10, <1>11, <1>12, <1>13

LEMMA InitKept == Init => KeptInv
<1> SUFFICES ASSUME Init PROVE KeptInv
  OBVIOUS
<1>1. pc # "up" /\ remove_init_file_ = FALSE
  BY DEF Init
<1> QED
  BY <1>1, InitNames DEF KeptInv, OpenedInv, AheadInv, InitFileInv, QueueInv

LEMMA StepKept == KeptInv /\ [Next]_vars => KeptInv'
<1> SUFFICES ASSUME KeptInv, [Next]_vars PROVE KeptInv'
  OBVIOUS
<1>1. NamesInv'
  BY StepType, StepCreated, StepDue, StepBackdated DEF KeptInv, NamesInv
<1>2. OpenedInv' /\ AheadInv' /\ InitFileInv' /\ QueueInv'
  <2>1. CASE Tick \/ Log \/ UNCHANGED vars
    BY <2>1, KeptSame DEF Tick, Log, vars, world, sink, history
  <2>2. CASE ProcessEnds
    BY <2>2, KeptDown DEF ProcessEnds, world
  <2>3. ASSUME NEW t \in now..MaxTime, NEW u \in now..MaxTime, Construct(t, u)
        PROVE  OpenedInv' /\ AheadInv' /\ InitFileInv' /\ QueueInv'
    BY <2>3, ConstructKept
  <2>4. CASE ConstructThrows
    BY <2>4, KeptDown DEF ConstructThrows, world, sink
  <2>5. ASSUME NEW m \in pending, Write(m)
        PROVE  OpenedInv' /\ AheadInv' /\ InitFileInv' /\ QueueInv'
    BY <2>5, WriteKept
  <2>6. ASSUME NEW m \in pending, WriteToNull(m)
        PROVE  OpenedInv' /\ AheadInv' /\ InitFileInv' /\ QueueInv'
    BY <2>6, KeptDown DEF WriteToNull, Take, world, sink
  <2>7. ASSUME NEW m \in pending, RotateThrows(m)
        PROVE  OpenedInv' /\ AheadInv' /\ InitFileInv' /\ QueueInv'
    BY <2>7, RotateThrowsKept
  <2>8. ASSUME NEW m \in pending,
               RotateWriteThrows(m) \/ RotateOnly(m) \/ RotateDelete(m) \/ RotateDeleteThrows(m)
        PROVE  OpenedInv' /\ AheadInv' /\ InitFileInv' /\ QueueInv'
    BY <2>8, RotateKept
  <2> QED
    BY <2>1, <2>2, <2>3, <2>4, <2>5, <2>6, <2>7, <2>8 DEF Next, SinkIt
<1> QED
  BY <1>1, <1>2 DEF KeptInv

LEMMA KeptCorrect == Spec => []KeptInv
<1> QED
  BY InitKept, StepKept, PTL DEF Spec

\* Of the files a sink has opened there are never more than max_files, those aside
\* whose deletion or whose entry in the queue failed (daily_file_sink.h:115, 228-246).
THEOREM MaxCorrect == Spec => []WithinMax
<1>1. KeptInv => WithinMax
  <2> SUFFICES ASSUME KeptInv, pc = "up", arg.max_files > 0
               PROVE  Cardinality((opened \ untracked) \cap Exists) <= arg.max_files
    BY DEF WithinMax
  <2>1. /\ filenames_q_ \in Seq(Names) /\ Len(filenames_q_) <= arg.max_files
        /\ arg.max_files \in Nat
    BY ArgumentIs DEF KeptInv, NamesInv, TypeOK
  <2>2. (opened \ untracked) \cap Exists \subseteq Queued
    BY DEF KeptInv, OpenedInv, Exists
  <2>3. IsFiniteSet(Queued) /\ Cardinality(Queued) <= Len(filenames_q_)
    BY <2>1, ElementsOf DEF Queued
  <2>4. /\ Cardinality((opened \ untracked) \cap Exists) <= Cardinality(Queued)
        /\ IsFiniteSet((opened \ untracked) \cap Exists)
    BY <2>2, <2>3, FS_Subset
  <2>5. Cardinality((opened \ untracked) \cap Exists) \in Nat /\ Cardinality(Queued) \in Nat
    BY <2>3, <2>4, FS_CardinalityType
  <2>6. Len(filenames_q_) \in Nat
    BY <2>1
  <2> QED
    BY <2>1, <2>3, <2>4, <2>5, <2>6
<1> QED
  BY <1>1, KeptCorrect, PTL

\* The messages of a file that leave it without the file leaving.
LEMMA NothingLost ==
    ASSUME KeptInv, [Next]_vars,
           arg.rotation = 0 \/ ~arg.truncate, ~(pc = "down" /\ arg.truncate)
    PROVE  \A n \in Names : files[n].data \subseteq files'[n].data \/ ~files'[n].exists
<1> SUFFICES ASSUME NEW n \in Names
             PROVE  files[n].data \subseteq files'[n].data \/ ~files'[n].exists
  OBVIOUS
<1>0. /\ TypeOK /\ CreatedInv /\ AheadInv /\ InitFileInv
      /\ arg \in Arguments /\ files \in FileStates
  BY FilesType DEF KeptInv, NamesInv, TypeOK
<1>a. ~NoFile.exists
  BY DEF NoFile
\* A rotation at midnight opens a file without messages; another does not truncate.
<1>b. ASSUME NEW m \in pending, pc = "up", ShouldRotate(m.time), arg.rotation = 0,
             n = PeriodOf(m.time)
      PROVE  files[n].data = {}
  <2>1. PeriodOf(rotation_tp_) \in Nat /\ n \in Nat /\ PeriodOf(rotation_tp_) <= n
    BY <1>0, <1>b, DueName, NamesAreNumbers
  <2>2. files[n].data # {} => n < PeriodOf(rotation_tp_)
    BY <1>0, <1>b DEF AheadInv
  <2> QED
    BY <2>1, <2>2
<1>c. arg.rotation # 0 => ~remove_init_file_
  BY <1>0, ArgumentIs DEF InitFileInv
<1>1. CASE Tick \/ Log \/ ProcessEnds \/ UNCHANGED vars
  BY <1>1 DEF Tick, Log, ProcessEnds, vars
<1>2. ASSUME NEW t \in now..MaxTime, NEW u \in now..MaxTime, Construct(t, u)
      PROVE  files[n].data \subseteq files'[n].data
  <2>1. /\ pc = "down"
        /\ \A k \in Names \ {PeriodOf(now)} : files'[k] = files[k]
        /\ ~arg.truncate => files'[PeriodOf(now)].data = files[PeriodOf(now)].data
    BY <1>0, <1>2, ConstructFacts
  <2> QED
    BY <2>1
<1>3. CASE ConstructThrows
  <2>1. pc = "down" /\ ~arg.truncate
    BY <1>3 DEF ConstructThrows
  <2>2. files' = files
    BY <1>3, <2>1 DEF ConstructThrows, OpenFailed
  <2> QED
    BY <2>2
<1>4. ASSUME NEW m \in pending, Write(m) PROVE files[n].data \subseteq files'[n].data
  BY <1>0, <1>4, WriteFacts
<1>5. ASSUME NEW m \in pending, WriteToNull(m) PROVE files' = files
  BY <1>5 DEF WriteToNull
<1>6. ASSUME NEW m \in pending, RotateThrows(m)
      PROVE  files[n].data \subseteq files'[n].data \/ ~files'[n].exists
  <2>1. /\ ShouldRotate(m.time) /\ pc = "up" /\ filename' = PeriodOf(m.time)
        /\ Unopened(files', filename')
    BY <1>0, <1>6, ThrowFacts
  <2>2. CASE n # filename'
    BY <1>a, <2>1, <2>2 DEF Unopened
  <2>3. CASE n = filename' /\ arg.rotation = 0
    BY <1>b, <2>1, <2>3
  <2>4. CASE n = filename' /\ arg.rotation # 0
    BY <1>c, <2>1, <2>4 DEF Unopened, Removable
  <2> QED
    BY <2>2, <2>3, <2>4
<1>7. ASSUME NEW m \in pending,
             RotateWriteThrows(m) \/ RotateOnly(m) \/ RotateDelete(m) \/ RotateDeleteThrows(m)
      PROVE  files[n].data \subseteq files'[n].data \/ ~files'[n].exists
  <2>1. ShouldRotate(m.time) /\ pc = "up" /\ filename' = PeriodOf(m.time) /\ filename' \in Names
    BY <1>0, <1>7, RotateFacts
  <2>2. ASSUME NEW gs, Rotated(gs, filename', m)
        PROVE  files[n].data \subseteq gs[n].data \/ ~gs[n].exists
    <3>1. CASE n # filename'
      BY <1>a, <2>2, <3>1 DEF Rotated
    <3>2. CASE n = filename' /\ arg.rotation = 0
      BY <1>b, <2>1, <3>2
    <3>3. CASE n = filename' /\ arg.rotation # 0
      BY <1>c, <2>2, <3>3 DEF Rotated, Removable
    <3> QED
      BY <3>1, <3>2, <3>3
  <2>3. CASE Rotated(files', filename', m)
    BY <2>2, <2>3
  <2>4. CASE \E gs \in FileStates : /\ Rotated(gs, filename', m)
                                    /\ files' = [gs EXCEPT ![Head(filenames_q_)] = NoFile]
    <3>1. PICK gs \in FileStates : /\ Rotated(gs, filename', m)
                                   /\ files' = [gs EXCEPT ![Head(filenames_q_)] = NoFile]
      BY <2>4
    <3>2. files'[n] = gs[n] \/ files'[n] = NoFile
      BY <3>1 DEF FileStates
    <3> QED
      BY <1>a, <2>2, <3>1, <3>2
  <2> QED
    BY <1>0, <1>7, <2>3, <2>4, RotateFacts
<1> QED
  BY <1>1, <1>2, <1>3, <1>4, <1>5, <1>6, <1>7 DEF Next, SinkIt

\* A sink that rotates at midnight, or does not truncate, has a file lose messages only
\* as a whole or to a constructor that truncates: none of its rotations empties a file
\* it wrote before (daily_file_sink.h:162).  At another time, with truncate_, one does.
THEOREM TruncationCorrect == Spec => NothingTruncated
<1>1. KeptInv /\ [Next]_vars =>
        [(arg.rotation = 0 \/ ~arg.truncate) /\ ~(pc = "down" /\ arg.truncate) =>
            \A n \in Names : files[n].data \subseteq files'[n].data \/ ~files'[n].exists]_vars
  BY NothingLost
<1> QED
  BY <1>1, KeptCorrect, PTL DEF Spec, NothingTruncated

-----------------------------------------------------------------------------
(* What a rotation leaves.                                                 *)

\* A queue of names in order of which at most one has no file.
LEMMA FilesOfQueue ==
    ASSUME NEW q \in Seq(Names), Increasing(q), NEW E \in SUBSET Names,
           NEW k \in Names, ToSet(q) \ E \subseteq {k}
    PROVE  /\ Cardinality(E) >= Len(q) - 1
           /\ ToSet(q) \subseteq E => Cardinality(E) >= Len(q)
<1>1. IsFiniteSet(ToSet(q)) /\ Cardinality(ToSet(q)) = Len(q) /\ Len(q) \in Nat
  BY ElementsOf
<1>2. IsFiniteSet(E)
  <2>1. PeriodOf(MaxTime) \in Nat
    BY BoundAssumption, Division
  <2>2. IsFiniteSet(Names)
    BY <2>1, FS_Interval DEF Names
  <2> QED
    BY <2>2, FS_Subset
<1>3. Cardinality(E) \in Nat
  BY <1>2, FS_CardinalityType
<1>4. ASSUME ToSet(q) \subseteq E PROVE Cardinality(E) >= Len(q)
  BY <1>1, <1>2, <1>3, <1>4, FS_Subset
<1>5. Cardinality(E) >= Len(q) - 1
  <2> DEFINE S == ToSet(q) \ {k}
  <2>1. S \subseteq E
    OBVIOUS
  <2>2. /\ IsFiniteSet(S)
        /\ Cardinality(S) = IF k \in ToSet(q) THEN Cardinality(ToSet(q)) - 1
                                              ELSE Cardinality(ToSet(q))
    BY <1>1, FS_RemoveElement
  <2>3. Cardinality(S) <= Cardinality(E)
    BY <1>2, <2>1, FS_Subset
  <2> HIDE DEF S
  <2> QED
    BY <1>1, <1>3, <2>2, <2>3
<1> QED
  BY <1>4, <1>5

\* A file with messages goes only to make room for the last name of a full queue.
LEMMA DeletedWhenFull ==
    ASSUME KeptInv, [Next]_vars, arg.rotation = 0,
           NEW n \in Names, files[n].data # {}, ~files'[n].exists
    PROVE  /\ arg' = arg /\ pc' = "up" /\ arg.max_files > 0
           /\ filenames_q_' \in Seq(Names) /\ Len(filenames_q_') = arg.max_files
<1>0. /\ TypeOK /\ CreatedInv /\ AheadInv /\ InitFileInv
      /\ arg \in Arguments /\ files \in FileStates /\ files[n].exists
  BY FilesType DEF KeptInv, NamesInv, TypeOK
\* The file the hourly sink removes has no messages, nor has the one a rotation opens.
<1>1. pc = "up" => ~Removable(n)
  BY <1>0 DEF InitFileInv, Removable
<1>2. ASSUME NEW m \in pending, pc = "up", ShouldRotate(m.time) PROVE n # PeriodOf(m.time)
  <2>1. PeriodOf(rotation_tp_) \in Nat /\ n \in Nat /\ PeriodOf(rotation_tp_) <= PeriodOf(m.time)
    BY <1>0, <1>2, DueName, NamesAreNumbers
  <2>2. n < PeriodOf(rotation_tp_)
    BY <1>0, <1>2 DEF AheadInv
  <2> QED
    BY <2>1, <2>2
<1>3. ~(Tick \/ Log \/ ProcessEnds \/ UNCHANGED vars)
  BY <1>0 DEF Tick, Log, ProcessEnds, vars
<1>4. ASSUME NEW t \in now..MaxTime, NEW u \in now..MaxTime, Construct(t, u) PROVE FALSE
  <2>1. /\ \A k \in Names \ {PeriodOf(now)} : files'[k] = files[k]
        /\ files'[PeriodOf(now)].exists
    BY <1>0, <1>4, ConstructFacts
  <2> QED
    BY <1>0, <2>1
<1>5. ~ConstructThrows
  <2> SUFFICES ASSUME ConstructThrows PROVE FALSE
    OBVIOUS
  <2>1. PeriodOf(now) \in Names /\ files' \in OpenFailed(PeriodOf(now), files)
    BY <1>0, PeriodType DEF ConstructThrows, TypeOK
  <2>2. CASE files' = files
    BY <1>0, <2>2
  <2>3. CASE files' = Opened(PeriodOf(now), files)
    BY <1>0, <2>1, <2>3, OpenedFiles
  <2> QED
    BY <2>1, <2>2, <2>3 DEF OpenFailed
<1>6. ASSUME NEW m \in pending, Write(m) PROVE FALSE
  BY <1>0, <1>6, WriteFacts
<1>7. ASSUME NEW m \in pending, WriteToNull(m) PROVE FALSE
  BY <1>0, <1>7 DEF WriteToNull
<1>8. ASSUME NEW m \in pending, RotateThrows(m) PROVE FALSE
  <2>1. /\ ShouldRotate(m.time) /\ pc = "up" /\ filename' = PeriodOf(m.time)
        /\ Unopened(files', filename')
    BY <1>0, <1>8, ThrowFacts
  <2> QED
    BY <1>0, <1>1, <1>2, <2>1 DEF Unopened
<1>9. ASSUME NEW m \in pending,
             RotateWriteThrows(m) \/ RotateOnly(m) \/ RotateDelete(m) \/ RotateDeleteThrows(m)
      PROVE  /\ arg' = arg /\ pc' = "up" /\ arg.max_files > 0
             /\ filenames_q_' \in Seq(Names) /\ Len(filenames_q_') = arg.max_files
  <2>1. /\ ShouldRotate(m.time) /\ pc = "up" /\ pc' = "up" /\ arg' = arg
        /\ filename' = PeriodOf(m.time) /\ filename' \in Names
    BY <1>0, <1>9, RotateFacts
  <2>2. ~Rotated(files', filename', m)
    BY <1>0, <1>1, <1>2, <2>1 DEF Rotated
  <2>3. /\ arg.max_files > 0 /\ Len(filenames_q_) = arg.max_files
        /\ filenames_q_' = QueueAfterDelete(filenames_q_, filename', TRUE)
    BY <1>0, <1>9, <2>2, RotateFacts
  <2>4. filenames_q_ \in Seq(Names) /\ Len(filenames_q_) <= arg.max_files
    BY <1>0 DEF TypeOK
  <2>5. /\ QueueAfterDelete(filenames_q_, filename', TRUE) \in Seq(Names)
        /\ Len(QueueAfterDelete(filenames_q_, filename', TRUE)) = arg.max_files
    BY <1>0, <2>1, <2>3, <2>4, NextQueue
  <2> QED
    BY <2>1, <2>3, <2>5
<1> QED
  BY <1>3, <1>4, <1>5, <1>6, <1>7, <1>8, <1>9 DEF Next, SinkIt

\* When a sink that rotates at midnight deletes a file with messages, max_files are
\* left, or one fewer of the hourly sink (daily_file_sink.h:228-246,
\* hourly_file_sink.h:154-172).  At another time of rotation fewer can be.
THEOREM KeepsCorrect == Spec => KeepsMaxFiles
<1>1. ASSUME KeptInv, KeptInv', [Next]_vars, arg.rotation = 0,
             NEW n \in Names, files[n].data # {}, ~files'[n].exists
      PROVE  Cardinality(Exists') >= IF arg.hourly THEN arg.max_files - 1 ELSE arg.max_files
  <2>1. /\ arg' = arg /\ pc' = "up" /\ arg.max_files > 0
        /\ filenames_q_' \in Seq(Names) /\ Len(filenames_q_') = arg.max_files
    BY <1>1, DeletedWhenFull
  <2>2. /\ Increasing(filenames_q_')
        /\ \E k \in Names : ToSet(filenames_q_') \ Exists' \subseteq {k}
        /\ ~arg.hourly => ToSet(filenames_q_') \subseteq Exists'
    BY <1>1, <2>1 DEF KeptInv, QueueInv, Queued
  <2>3. Exists' \in SUBSET Names
    BY DEF Exists
  <2>4. /\ Cardinality(Exists') >= Len(filenames_q_') - 1
        /\ ToSet(filenames_q_') \subseteq Exists' => Cardinality(Exists') >= Len(filenames_q_')
    BY <2>1, <2>2, <2>3, FilesOfQueue
  <2>5. CASE arg.hourly
    BY <2>1, <2>4, <2>5
  <2>6. CASE ~arg.hourly
    BY <2>1, <2>2, <2>4, <2>6
  <2> QED
    BY <2>5, <2>6
<1>2. KeptInv /\ KeptInv' /\ [Next]_vars =>
        [(arg.rotation = 0 /\ \E n \in Names : files[n].data # {} /\ ~files'[n].exists)
          => Cardinality(Exists') >= IF arg.hourly THEN arg.max_files - 1 ELSE arg.max_files]_vars
  BY <1>1
<1> QED
  BY <1>2, KeptCorrect, PTL DEF Spec, KeepsMaxFiles
=============================================================================
