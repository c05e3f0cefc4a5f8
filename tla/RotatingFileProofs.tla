------------------------- MODULE RotatingFileProofs -------------------------
(***************************************************************************)
(* Proofs about RotatingFile: the order of the messages in the files and   *)
(* what is lost, for every number of files, every size and every bound of  *)
(* the model, and the size of the files, which is a sum over their pieces. *)
(***************************************************************************)
EXTENDS RotatingFile, SequenceTheorems, FiniteSetTheorems, WellFoundedInduction, TLAPS

Rotating == {"remove", "rename", "reopen", "truncate"}

FileState == [exists : BOOLEAN, data : Seq(Piece)]

\* TypeOK, but for the sizes, which are sums over sequences.
ShapeInv ==
    /\ pc \in {"down", "idle", "write", "undefined"} \cup Rotating
    /\ why \in {"log", "open"}
    /\ round \in 1..MaxFiles + 1
    /\ (pc \in {"remove", "rename"} => round <= MaxFiles)
    /\ msg \in [id : 0..MaxMsgs, len : Nat]
    /\ fd_ \in BOOLEAN
    /\ buf \in Seq(Piece)
    /\ files \in [Indices -> FileState]
    /\ \A n \in Indices : files[n].exists \/ files[n].data = <<>>
    /\ (fd_ => files[0].exists) /\ (~fd_ => buf = <<>>)
    /\ faults \in 0..MaxFaults

\* The sink has a message it has still to write.
Busy == pc = "write" \/ (pc \in Rotating /\ why = "log")

\* rotate_ runs with the stream closed.  What it has renamed in one round has left
\* no file for the next one to remove, and none to be opened again.
RotateInv ==
    /\ Busy => msg.id > 0 /\ msg.len > 0
    /\ pc \in Rotating \cup {"down"} => ~fd_
    /\ pc \in {"remove", "rename"} /\ round > 1 => ~files[Round(round)].exists
    /\ pc = "reopen" /\ MaxFiles > 0 => ~files[0].exists

\* The number of the next message to be written.
Coming == IF Busy THEN msg.id ELSE msg.id + 1

\* Files that hold c have their messages in order, all from before message m.
Holding(c, m) ==
    /\ c \in [Indices -> Seq(Piece)]
    /\ \A n \in Indices : InOrder(c[n])
    /\ \A n, k \in Indices : n > k => Before(c[n], c[k])
    /\ \A n \in Indices : \A p \in ToSet(c[n]) : p.id < m

OrderInv == Holding(Contents, Coming)

FilesInv == ShapeInv /\ RotateInv /\ OrderInv

-----------------------------------------------------------------------------
(* Sequences of pieces.                                                    *)

LEMMA PieceNumber == \A p \in Piece : p.id \in Nat
  BY BoundAssumption DEF Piece

\* The pieces of a sequence are those of its parts.
LEMMA PiecesOfConcat ==
    ASSUME NEW s \in Seq(Piece), NEW t \in Seq(Piece)
    PROVE  s \o t \in Seq(Piece) /\ ToSet(s \o t) = ToSet(s) \cup ToSet(t)
<1>1. s \o t \in Seq(Piece) /\ Len(s \o t) = Len(s) + Len(t)
  BY ConcatProperties
<1>2. ASSUME NEW p \in ToSet(s \o t) PROVE p \in ToSet(s) \cup ToSet(t)
  <2>1. PICK i \in 1..Len(s) + Len(t) : p = (s \o t)[i]
    BY <1>1 DEF ToSet
  <2>2. CASE i <= Len(s)
    BY <2>1, <2>2 DEF ToSet
  <2>3. CASE i > Len(s)
    <3>1. p = t[i - Len(s)] /\ i - Len(s) \in 1..Len(t)
      BY <2>1, <2>3
    <3> QED
      BY <3>1 DEF ToSet
  <2> QED
    BY <2>1, <2>2, <2>3
<1>3. ASSUME NEW p \in ToSet(s) PROVE p \in ToSet(s \o t)
  <2>1. PICK i \in 1..Len(s) : p = s[i]
    BY DEF ToSet
  <2>2. (s \o t)[i] = p /\ i \in 1..Len(s \o t)
    BY <1>1, <2>1
  <2> QED
    BY <1>1, <2>2 DEF ToSet
<1>4. ASSUME NEW p \in ToSet(t) PROVE p \in ToSet(s \o t)
  <2>1. PICK i \in 1..Len(t) : p = t[i]
    BY DEF ToSet
  <2>2. (s \o t)[Len(s) + i] = p /\ Len(s) + i \in 1..Len(s \o t)
    BY <1>1, <2>1
  <2> QED
    BY <1>1, <2>2 DEF ToSet
<1> QED
  BY <1>1, <1>2, <1>3, <1>4

\* One piece more, later than all.
LEMMA PieceAppended ==
    ASSUME NEW s \in Seq(Piece), NEW p \in Piece, InOrder(s), \A q \in ToSet(s) : q.id < p.id
    PROVE  /\ Append(s, p) \in Seq(Piece) /\ InOrder(Append(s, p))
           /\ ToSet(Append(s, p)) = ToSet(s) \cup {p}
<1> DEFINE r == Append(s, p)
<1>1. /\ r \in Seq(Piece) /\ Len(r) = Len(s) + 1 /\ r[Len(s) + 1] = p
      /\ \A i \in 1..Len(s) : r[i] = s[i]
  BY AppendProperties
<1>2. Len(s) \in Nat
  OBVIOUS
<1> HIDE DEF r
<1>3. InOrder(r)
  <2> SUFFICES ASSUME NEW i \in 1..Len(r), NEW j \in 1..Len(r), i < j
               PROVE  r[i].id < r[j].id
    BY <1>1 DEF InOrder
  <2>1. i \in 1..Len(s) /\ r[i] = s[i]
    BY <1>1, <1>2
  <2>2. CASE j \in 1..Len(s)
    BY <1>1, <2>1, <2>2 DEF InOrder
  <2>3. CASE j = Len(s) + 1
    <3>1. s[i] \in ToSet(s)
      BY <2>1 DEF ToSet
    <3> QED
      BY <1>1, <2>1, <2>3, <3>1
  <2> QED
    BY <1>1, <1>2, <2>2, <2>3
<1>4. ToSet(r) = ToSet(s) \cup {p}
  <2>1. ASSUME NEW q \in ToSet(r) PROVE q \in ToSet(s) \cup {p}
    <3>1. PICK i \in 1..Len(r) : q = r[i]
      BY <1>1 DEF ToSet
    <3>2. CASE i \in 1..Len(s)
      BY <1>1, <3>1, <3>2 DEF ToSet
    <3>3. CASE i = Len(s) + 1
      BY <1>1, <3>1, <3>3
    <3> QED
      BY <1>1, <1>2, <3>1, <3>2, <3>3
  <2>2. ASSUME NEW q \in ToSet(s) PROVE q \in ToSet(r)
    <3>1. PICK i \in 1..Len(s) : q = s[i]
      BY DEF ToSet
    <3>2. i \in 1..Len(r) /\ r[i] = q
      BY <1>1, <1>2, <3>1
    <3> QED
      BY <1>1, <3>2 DEF ToSet
  <2>3. p \in ToSet(r)
    <3>1. Len(s) + 1 \in 1..Len(r)
      BY <1>1, <1>2
    <3> QED
      BY <1>1, <3>1 DEF ToSet
  <2> QED
    BY <2>1, <2>2, <2>3
<1> QED
  BY <1>1, <1>3, <1>4 DEF r

LEMMA AppendToConcat ==
    ASSUME NEW s \in Seq(Piece), NEW t \in Seq(Piece), NEW p \in Piece
    PROVE  s \o Append(t, p) = Append(s \o t, p)
<1> DEFINE l == s \o Append(t, p)
           r == Append(s \o t, p)
<1>1. /\ s \o t \in Seq(Piece) /\ Len(s \o t) = Len(s) + Len(t)
      /\ Append(t, p) \in Seq(Piece) /\ Len(Append(t, p)) = Len(t) + 1
      /\ Len(s) \in Nat /\ Len(t) \in Nat
  BY ConcatProperties, AppendProperties
<1>2. /\ l \in Seq(Piece) /\ Len(l) = Len(s) + (Len(t) + 1)
      /\ r \in Seq(Piece) /\ Len(r) = (Len(s) + Len(t)) + 1
  BY <1>1, ConcatProperties, AppendProperties
<1>3. \A i \in 1..Len(l) : l[i] = r[i]
  BY <1>1, <1>2
<1> HIDE DEF l, r
<1>4. Len(l) = Len(r)
  BY <1>1, <1>2
<1>5. l = r
  BY <1>2, <1>3, <1>4, SeqEqual
<1> QED
  BY <1>5 DEF l, r

\* The first part of what is in order.
LEMMA FirstPart ==
    ASSUME NEW s \in Seq(Piece), NEW t \in Seq(Piece), InOrder(s \o t)
    PROVE  InOrder(s)
<1>1. /\ Len(s \o t) = Len(s) + Len(t) /\ s \o t \in Seq(Piece)
      /\ \A i \in 1..Len(s) : (s \o t)[i] = s[i]
  BY ConcatProperties
<1>2. \A i \in 1..Len(s) : i \in 1..Len(s \o t)
  BY <1>1
<1> SUFFICES ASSUME NEW i \in 1..Len(s), NEW j \in 1..Len(s), i < j PROVE s[i].id < s[j].id
  BY DEF InOrder
<1>3. i \in DOMAIN (s \o t) /\ j \in DOMAIN (s \o t)
  BY <1>1, <1>2
<1>4. (s \o t)[i].id < (s \o t)[j].id
  BY <1>3 DEF InOrder
<1> QED
  BY <1>1, <1>4

LEMMA NoPieces == <<>> \in Seq(Piece) /\ ToSet(<<>>) = {} /\ InOrder(<<>>)
  BY DEF ToSet, InOrder

-----------------------------------------------------------------------------
(* What keeps the files in order.                                          *)

LEMMA IndexIsNumber == MaxFiles \in Nat /\ 0 \in Indices /\ \A n \in Indices : n \in Nat
  BY SizeAssumption DEF Indices

\* A later message to come.
LEMMA HoldingLater ==
    ASSUME NEW c, NEW m \in Nat, NEW n \in Nat, Holding(c, m), m <= n
    PROVE  Holding(c, n)
<1>1. \A k \in Indices : \A p \in ToSet(c[k]) : p.id < n
  <2> SUFFICES ASSUME NEW k \in Indices, NEW p \in ToSet(c[k]) PROVE p.id < n
    OBVIOUS
  <2>1. c[k] \in Seq(Piece)
    BY DEF Holding
  <2>2. p \in Piece
    BY <2>1 DEF ToSet
  <2>3. p.id < m /\ p.id \in Nat
    BY <2>2, PieceNumber DEF Holding
  <2> QED
    BY <2>3
<1> QED
  BY <1>1 DEF Holding

\* A file loses the last of its pieces, or all of them.
LEMMA HoldingLess ==
    ASSUME NEW c, NEW m, Holding(c, m), NEW i \in Indices, NEW s \in Seq(Piece),
           InOrder(s), ToSet(s) \subseteq ToSet(c[i])
    PROVE  Holding([c EXCEPT ![i] = s], m)
<1> DEFINE d == [c EXCEPT ![i] = s]
<1>1. /\ d \in [Indices -> Seq(Piece)] /\ d[i] = s
      /\ \A n \in Indices \ {i} : d[n] = c[n]
  BY DEF Holding
<1> HIDE DEF d
<1>2. ASSUME NEW n \in Indices PROVE InOrder(d[n]) /\ ToSet(d[n]) \subseteq ToSet(c[n])
  <2>1. InOrder(c[n])
    BY DEF Holding
  <2>2. CASE n = i
    BY <1>1, <2>2
  <2>3. CASE n # i
    BY <1>1, <2>1, <2>3
  <2> QED
    BY <2>2, <2>3
<1>3. \A n, k \in Indices : n > k => Before(d[n], d[k])
  BY <1>2 DEF Holding, Before
<1>4. \A n \in Indices : \A p \in ToSet(d[n]) : p.id < m
  BY <1>2 DEF Holding
<1> QED
  BY <1>1, <1>2, <1>3, <1>4 DEF Holding, d

\* A file is renamed to the next index, where there was none.
LEMMA HoldingMoved ==
    ASSUME NEW c, NEW m, Holding(c, m), NEW i \in 1..MaxFiles, c[i] = <<>>
    PROVE  Holding([c EXCEPT ![i] = c[i - 1], ![i - 1] = <<>>], m)
<1> DEFINE d == [c EXCEPT ![i] = c[i - 1], ![i - 1] = <<>>]
<1>1. i \in Indices /\ i - 1 \in Indices /\ i \in Nat /\ i # i - 1
  BY IndexIsNumber DEF Indices
<1>2. /\ d \in [Indices -> Seq(Piece)] /\ d[i] = c[i - 1] /\ d[i - 1] = <<>>
      /\ \A n \in Indices \ {i, i - 1} : d[n] = c[n]
  BY <1>1, NoPieces DEF Holding
<1>3. \A n \in Indices : InOrder(c[n]) /\ \A p \in ToSet(c[n]) : p.id < m
  BY DEF Holding
<1> HIDE DEF d
<1>4. \A n \in Indices : InOrder(d[n]) /\ \A p \in ToSet(d[n]) : p.id < m
  BY <1>1, <1>2, <1>3, NoPieces
<1>5. ASSUME NEW n \in Indices, NEW k \in Indices, n > k PROVE Before(d[n], d[k])
  <2>1. \A a, b \in Indices : a > b => Before(c[a], c[b])
    BY DEF Holding
  <2>2. n \in Nat /\ k \in Nat
    BY IndexIsNumber
  <2>3. CASE n = i - 1 \/ k = i - 1
    BY <1>2, <2>3, NoPieces DEF Before
  <2>4. CASE n = i /\ k # i - 1
    <3>1. i - 1 > k
      BY <1>1, <1>5, <2>2, <2>4
    <3>2. k \in Indices \ {i, i - 1}
      BY <1>5, <2>2, <2>4
    <3> QED
      BY <1>1, <1>2, <2>1, <2>4, <3>1, <3>2
  <2>5. CASE k = i /\ n # i - 1
    <3>1. n > i - 1 /\ n # i
      BY <1>1, <1>5, <2>2, <2>5
    <3> QED
      BY <1>1, <1>2, <2>1, <2>5, <3>1
  <2>6. CASE n \notin {i, i - 1} /\ k \notin {i, i - 1}
    BY <1>2, <1>5, <2>1, <2>6
  <2> QED
    BY <2>3, <2>4, <2>5, <2>6
<1> QED
  BY <1>2, <1>4, <1>5 DEF Holding, d

\* The message to come is written to log.txt.
LEMMA HoldingMore ==
    ASSUME NEW c, NEW p \in Piece, Holding(c, p.id)
    PROVE  Holding([c EXCEPT ![0] = Append(@, p)], p.id + 1)
<1> DEFINE d == [c EXCEPT ![0] = Append(@, p)]
<1>1. 0 \in Indices /\ p.id \in Nat
  BY IndexIsNumber, PieceNumber
<1>2. /\ c \in [Indices -> Seq(Piece)] /\ c[0] \in Seq(Piece)
      /\ \A n \in Indices : InOrder(c[n]) /\ \A q \in ToSet(c[n]) : q.id < p.id
      /\ \A n, k \in Indices : n > k => Before(c[n], c[k])
  BY <1>1 DEF Holding
<1>3. /\ Append(c[0], p) \in Seq(Piece) /\ InOrder(Append(c[0], p))
      /\ ToSet(Append(c[0], p)) = ToSet(c[0]) \cup {p}
  BY <1>1, <1>2, PieceAppended
<1>4. /\ d \in [Indices -> Seq(Piece)] /\ d[0] = Append(c[0], p)
      /\ \A n \in Indices \ {0} : d[n] = c[n]
  BY <1>1, <1>2, <1>3
<1> HIDE DEF d
<1>5. \A n \in Indices : InOrder(d[n]) /\ ToSet(d[n]) \subseteq ToSet(c[n]) \cup {p}
  BY <1>2, <1>3, <1>4
<1>6. ASSUME NEW n \in Indices, NEW q \in ToSet(d[n]) PROVE q.id < p.id + 1
  <2>1. q = p \/ (q \in ToSet(c[n]) /\ c[n] \in Seq(Piece))
    BY <1>2, <1>5
  <2>2. CASE q = p
    BY <1>1, <2>2
  <2>3. CASE q \in ToSet(c[n])
    <3>1. q \in Piece
      BY <2>3, <1>2 DEF ToSet
    <3>2. q.id \in Nat /\ q.id < p.id
      BY <1>2, <2>3, <3>1, PieceNumber
    <3> QED
      BY <1>1, <3>2
  <2> QED
    BY <2>1, <2>2, <2>3
<1>7. ASSUME NEW n \in Indices, NEW k \in Indices, n > k PROVE Before(d[n], d[k])
  <2>1. n # 0 /\ d[n] = c[n]
    <3>1. n # 0
      BY <1>7, IndexIsNumber
    <3> QED
      BY <1>4, <3>1
  <2>2. CASE k = 0
    BY <1>2, <1>3, <1>4, <1>7, <2>1, <2>2 DEF Before
  <2>3. CASE k # 0
    BY <1>2, <1>4, <1>7, <2>1, <2>3
  <2> QED
    BY <2>2, <2>3
<1> QED
  BY <1>4, <1>5, <1>6, <1>7 DEF Holding, d

-----------------------------------------------------------------------------
(* The files and the buffer.                                               *)

ContentsOf(fs, b) == [n \in Indices |-> IF n = 0 THEN fs[0].data \o b ELSE fs[n].data]

LEMMA ContentsIs == Contents = ContentsOf(files, buf)
  BY DEF Contents, ContentsOf

LEMMA ContentsType ==
    ASSUME NEW fs \in [Indices -> FileState], NEW b \in Seq(Piece)
    PROVE  /\ \A n \in Indices : fs[n].data \in Seq(Piece) /\ fs[n].exists \in BOOLEAN
           /\ ContentsOf(fs, b) \in [Indices -> Seq(Piece)]
           /\ ContentsOf(fs, b)[0] = fs[0].data \o b
           /\ \A n \in Indices \ {0} : ContentsOf(fs, b)[n] = fs[n].data
<1>1. \A n \in Indices : fs[n] \in FileState
  OBVIOUS
<1>2. \A n \in Indices : fs[n].data \in Seq(Piece) /\ fs[n].exists \in BOOLEAN
  BY <1>1 DEF FileState
<1>3. 0 \in Indices
  BY IndexIsNumber
<1>4. fs[0].data \o b \in Seq(Piece)
  BY <1>2, <1>3, PiecesOfConcat
<1> QED
  BY <1>2, <1>3, <1>4 DEF ContentsOf

\* Without a buffer.
LEMMA ContentsAlone ==
    ASSUME NEW fs \in [Indices -> FileState]
    PROVE  /\ <<>> \in Seq(Piece)
           /\ ContentsOf(fs, <<>>) \in [Indices -> Seq(Piece)]
           /\ \A n \in Indices : ContentsOf(fs, <<>>)[n] = fs[n].data
<1>1. 0 \in Indices /\ <<>> \in Seq(Piece)
  BY IndexIsNumber, NoPieces
<1>2. fs[0].data \in Seq(Piece)
  BY <1>1, ContentsType
<1>3. fs[0].data \o <<>> = fs[0].data
  BY <1>2
<1> QED
  BY <1>1, <1>3, ContentsType

\* The buffer reaches log.txt.
LEMMA DrainedFiles ==
    ASSUME ShapeInv, files[0].exists
    PROVE  /\ Drained \in [Indices -> FileState]
           /\ \A n \in Indices : Drained[n].exists = files[n].exists
           /\ \A n \in Indices : Drained[n].exists \/ Drained[n].data = <<>>
           /\ ContentsOf(Drained, <<>>) = Contents
<1> DEFINE new == [files[0] EXCEPT !.data = @ \o buf]
<1>1. /\ files \in [Indices -> FileState] /\ buf \in Seq(Piece) /\ 0 \in Indices
      /\ \A n \in Indices : files[n].exists \/ files[n].data = <<>>
  BY IndexIsNumber DEF ShapeInv
<1>2. files[0].data \o buf \in Seq(Piece) /\ files[0] \in FileState
  BY <1>1, ContentsType, PiecesOfConcat
<1>3. new \in FileState /\ new.exists = files[0].exists /\ new.data = files[0].data \o buf
  BY <1>2 DEF FileState
<1>4. Drained = [files EXCEPT ![0] = new]
  BY DEF Drained
<1> HIDE DEF new
<1>5. /\ Drained \in [Indices -> FileState] /\ Drained[0] = new
      /\ \A n \in Indices \ {0} : Drained[n] = files[n]
  BY <1>1, <1>3, <1>4
<1>6. /\ \A n \in Indices : Drained[n].exists = files[n].exists
      /\ \A n \in Indices : Drained[n].exists \/ Drained[n].data = <<>>
  BY <1>1, <1>3, <1>5
<1>7. ContentsOf(Drained, <<>>) = ContentsOf(files, buf)
  <2>1. /\ ContentsOf(Drained, <<>>) \in [Indices -> Seq(Piece)]
        /\ \A n \in Indices : ContentsOf(Drained, <<>>)[n] = Drained[n].data
    BY <1>5, ContentsAlone
  <2>2. /\ ContentsOf(files, buf) \in [Indices -> Seq(Piece)]
        /\ ContentsOf(files, buf)[0] = files[0].data \o buf
        /\ \A n \in Indices \ {0} : ContentsOf(files, buf)[n] = files[n].data
    BY <1>1, ContentsType
  <2>3. \A n \in Indices : ContentsOf(Drained, <<>>)[n] = ContentsOf(files, buf)[n]
    BY <1>3, <1>5, <2>1, <2>2
  <2> QED
    BY <2>1, <2>2, <2>3
<1> QED
  BY <1>5, <1>6, <1>7, ContentsIs

\* log.txt is emptied, with the stream closed.
LEMMA EmptiedFiles ==
    ASSUME ShapeInv, ~fd_
    PROVE  /\ Emptied \in [Indices -> FileState]
           /\ Emptied[0].exists /\ Emptied[0].data = <<>>
           /\ \A n \in Indices \ {0} : Emptied[n] = files[n]
           /\ \A n \in Indices : Emptied[n].exists \/ Emptied[n].data = <<>>
           /\ \A m : Holding(Contents, m) => Holding(ContentsOf(Emptied, <<>>), m)
<1>1. /\ files \in [Indices -> FileState] /\ buf = <<>> /\ 0 \in Indices /\ <<>> \in Seq(Piece)
      /\ \A n \in Indices : files[n].exists \/ files[n].data = <<>>
  BY IndexIsNumber, NoPieces DEF ShapeInv
<1>2. /\ Emptied \in [Indices -> FileState]
      /\ Emptied[0].exists /\ Emptied[0].data = <<>>
      /\ \A n \in Indices \ {0} : Emptied[n] = files[n]
  BY <1>1 DEF Emptied, FileState
<1>3. \A n \in Indices : Emptied[n].exists \/ Emptied[n].data = <<>>
  BY <1>1, <1>2
<1>4. /\ ContentsOf(Emptied, <<>>) \in [Indices -> Seq(Piece)]
      /\ \A n \in Indices : ContentsOf(Emptied, <<>>)[n] = Emptied[n].data
      /\ Contents \in [Indices -> Seq(Piece)]
      /\ \A n \in Indices : Contents[n] = files[n].data
  BY <1>1, <1>2, ContentsAlone, ContentsIs
<1>5. ContentsOf(Emptied, <<>>) = [Contents EXCEPT ![0] = <<>>]
  <2>1. [Contents EXCEPT ![0] = <<>>] \in [Indices -> Seq(Piece)]
    BY <1>1, <1>4
  <2>2. ASSUME NEW n \in Indices
        PROVE  ContentsOf(Emptied, <<>>)[n] = [Contents EXCEPT ![0] = <<>>][n]
    <3>1. CASE n = 0
      BY <1>2, <1>4, <3>1
    <3>2. CASE n # 0
      BY <1>2, <1>4, <3>2
    <3> QED
      BY <3>1, <3>2
  <2> QED
    BY <1>4, <2>1, <2>2
<1>6. ASSUME NEW m, Holding(Contents, m) PROVE Holding([Contents EXCEPT ![0] = <<>>], m)
  BY <1>1, <1>6, HoldingLess, NoPieces
<1> QED
  BY <1>2, <1>3, <1>5, <1>6

-----------------------------------------------------------------------------
(* The control of the sink.                                                *)

LEMMA InitFiles == Init => FilesInv
<1> SUFFICES ASSUME Init PROVE FilesInv
  OBVIOUS
<1>1. 1 \in 1..MaxFiles + 1 /\ 0 \in 0..MaxMsgs /\ 0 \in 0..MaxFaults /\ 0 \in Indices
  BY SizeAssumption, BoundAssumption, IndexIsNumber
<1>2. files \in [Indices -> FileState] /\ \A n \in Indices : files[n] = NoFile
  BY NoPieces DEF Init, NoFile, FileState
<1>3. ShapeInv
  <2>1. \A n \in Indices : files[n].data = <<>>
    BY <1>2 DEF NoFile
  <2> QED
    BY <1>1, <1>2, <2>1, NoPieces DEF Init, ShapeInv
<1>4. RotateInv
  BY DEF Init, RotateInv, Busy, Rotating
<1>5. OrderInv
  <2>1. buf = <<>>
    BY DEF Init
  <2>2. /\ Contents \in [Indices -> Seq(Piece)]
        /\ \A n \in Indices : Contents[n] = <<>>
    BY <1>2, <2>1, ContentsAlone, ContentsIs DEF NoFile
  <2> QED
    BY <2>2, NoPieces DEF OrderInv, Holding, Before
<1> QED
  BY <1>3, <1>4, <1>5 DEF FilesInv

LEMMA RoundIs ==
    ASSUME ShapeInv, pc \in {"remove", "rename"}
    PROVE  /\ round \in 1..MaxFiles /\ round + 1 \in 1..MaxFiles + 1
           /\ Round(round) \in 1..MaxFiles /\ Round(round) \in Indices
           /\ Round(round) - 1 \in Indices /\ Round(round) - 1 # Round(round)
           /\ Round(round + 1) = Round(round) - 1
           /\ round = 1 => Round(round) = MaxFiles
           /\ round + 1 > MaxFiles => Round(round) - 1 = 0
  BY SizeAssumption DEF ShapeInv, Round, Indices

LEMMA GoOnFacts ==
    ASSUME NEW r \in 1..MaxFiles + 1, GoOn(r)
    PROVE  /\ round' = r /\ round' \in 1..MaxFiles + 1
           /\ \/ pc' = "remove" /\ r <= MaxFiles
              \/ pc' = "reopen" /\ r > MaxFiles
  BY SizeAssumption DEF GoOn, LoopOver

LEMMA RotateFacts ==
    ASSUME NEW reason, Rotate(reason)
    PROVE  /\ why' = reason /\ fd_' = FALSE /\ buf' = <<>>
           /\ round' = 1 /\ round' \in 1..MaxFiles + 1
           /\ pc' = "remove" \/ pc' = "reopen"
           /\ pc' = "remove" => 1 <= MaxFiles
           /\ pc' = "reopen" => MaxFiles = 0
<1>1. 1 \in 1..MaxFiles + 1 /\ MaxFiles \in Nat
  BY SizeAssumption
<1>2. GoOn(1) /\ why' = reason /\ fd_' = FALSE /\ buf' = <<>>
  BY DEF Rotate
<1>3. /\ round' = 1 /\ round' \in 1..MaxFiles + 1
      /\ (pc' = "remove" /\ 1 <= MaxFiles) \/ (pc' = "reopen" /\ 1 > MaxFiles)
  BY <1>1, <1>2, GoOnFacts
<1> QED
  BY <1>1, <1>2, <1>3

LEMMA ThrowFacts ==
    ASSUME NEW open \in BOOLEAN, Throw(open)
    PROVE  /\ pc' = "down" \/ pc' = "idle"
           /\ fd_' \in BOOLEAN /\ (fd_' => open) /\ (pc' = "down" => ~fd_')
           /\ why' = why /\ round' = round /\ msg' = msg /\ buf' = buf
  BY DEF Throw, loop, message

LEMMA TakeFacts ==
    ASSUME ShapeInv, NEW len \in Lengths, Take(len)
    PROVE  /\ pc = "idle" /\ msg' \in [id : 0..MaxMsgs, len : Nat]
           /\ msg'.id = msg.id + 1 /\ msg.id \in Nat /\ msg'.id > 0 /\ msg'.len > 0
  BY LengthAssumption, BoundAssumption DEF ShapeInv, Take

\* The message to come is never an earlier one.
LEMMA ComingIs ==
    ASSUME ShapeInv
    PROVE  /\ Coming \in Nat /\ msg.id \in Nat
           /\ Coming = msg.id \/ Coming = msg.id + 1
           /\ Busy => Coming = msg.id
           /\ ~Busy => Coming = msg.id + 1
  BY BoundAssumption DEF ShapeInv, Coming

\* Two ways in which the order is kept: nothing goes to a file ...
LEMMA OrderSame ==
    ASSUME ShapeInv, OrderInv, ShapeInv', ContentsOf(files', buf') = Contents,
           (msg'.id = msg.id /\ (Busy' => Busy)) \/ msg'.id > msg.id
    PROVE  OrderInv'
<1>1. /\ Coming \in Nat /\ msg.id \in Nat /\ (Busy => Coming = msg.id)
      /\ (~Busy => Coming = msg.id + 1)
  BY ComingIs
<1>2. msg'.id \in Nat
  BY BoundAssumption DEF ShapeInv
<1>3. Coming' = (IF Busy' THEN msg'.id ELSE msg'.id + 1)
  BY DEF Coming
<1>4. Coming' \in Nat /\ Coming <= Coming'
  BY <1>1, <1>2, <1>3
<1>5. Contents' = Contents
  BY DEF Contents, ContentsOf
<1>6. Holding(Contents, Coming')
  BY <1>1, <1>4, HoldingLater DEF OrderInv
<1> QED
  BY <1>5, <1>6 DEF OrderInv

\* ... or a file loses pieces or moves.
LEMMA OrderLess ==
    ASSUME ShapeInv, OrderInv, ShapeInv',
           \A m : Holding(Contents, m) => Holding(ContentsOf(files', buf'), m),
           msg' = msg, Busy' => Busy
    PROVE  OrderInv'
<1>1. /\ Coming \in Nat /\ msg.id \in Nat /\ (Busy => Coming = msg.id)
      /\ (~Busy => Coming = msg.id + 1)
  BY ComingIs
<1>3. Coming' = (IF Busy' THEN msg.id ELSE msg.id + 1)
  BY DEF Coming
<1>4. Coming' \in Nat /\ Coming <= Coming'
  BY <1>1, <1>3
<1>5. Contents' = ContentsOf(files', buf')
  BY DEF Contents, ContentsOf
<1>6. Holding(Contents, Coming')
  BY <1>1, <1>4, HoldingLater DEF OrderInv
<1> QED
  BY <1>5, <1>6 DEF OrderInv

-----------------------------------------------------------------------------
(* The constructor, the end of the process, and what sink_it_ is given.    *)

LEMMA FilesFacts ==
    ASSUME FilesInv
    PROVE  /\ ShapeInv /\ RotateInv /\ OrderInv
           /\ files \in [Indices -> FileState] /\ buf \in Seq(Piece) /\ 0 \in Indices
           /\ \A n \in Indices : files[n] \in FileState
           /\ \A n \in Indices : files[n].exists \/ files[n].data = <<>>
           /\ \A n \in Indices : files[n].data \in Seq(Piece)
           /\ Contents = ContentsOf(files, buf)
           /\ <<>> \in Seq(Piece)
<1>1. files \in [Indices -> FileState] /\ buf \in Seq(Piece)
  BY DEF FilesInv, ShapeInv
<1> QED
  BY <1>1, ContentsType, ContentsIs, NoPieces, IndexIsNumber DEF FilesInv, ShapeInv

LEMMA ConstructStep ==
    ASSUME FilesInv, NEW rotate_on_open, Construct(rotate_on_open)
    PROVE  FilesInv'
<1>1. /\ ShapeInv /\ RotateInv /\ OrderInv
      /\ files \in [Indices -> FileState] /\ 0 \in Indices /\ files[0] \in FileState
      /\ \A n \in Indices : files[n].exists \/ files[n].data = <<>>
      /\ Contents = ContentsOf(files, buf) /\ <<>> \in Seq(Piece)
  BY FilesFacts
<1>2. /\ pc = "down" /\ msg' = msg /\ faults' = faults
      /\ files' = [files EXCEPT ![0].exists = TRUE]
  BY DEF Construct, message
<1>3. fd_ = FALSE /\ buf = <<>>
  BY <1>1, <1>2 DEF RotateInv, ShapeInv
<1>4. /\ buf' = <<>> /\ fd_' \in BOOLEAN
      /\ why' \in {"log", "open"} /\ round' \in 1..MaxFiles + 1
      /\ \/ pc' = "idle"
         \/ /\ pc' \in {"remove", "reopen"} /\ why' = "open" /\ fd_' = FALSE /\ round' = 1
            /\ (pc' = "remove" => 1 <= MaxFiles) /\ (pc' = "reopen" => MaxFiles = 0)
  <2>1. CASE Rotate("open")
    BY <2>1, RotateFacts
  <2>2. CASE pc' = "idle" /\ fd_' = TRUE /\ UNCHANGED <<loop, buf>>
    BY <1>1, <1>3, <2>2 DEF loop, ShapeInv
  <2> QED
    BY <2>1, <2>2 DEF Construct
<1> DEFINE new == [files[0] EXCEPT !.exists = TRUE]
<1>5. new \in FileState /\ new.exists /\ new.data = files[0].data
  BY <1>1 DEF FileState
<1>6. files' = [files EXCEPT ![0] = new]
  BY <1>2
<1> HIDE DEF new
<1>7. /\ files' \in [Indices -> FileState] /\ files'[0] = new
      /\ \A n \in Indices \ {0} : files'[n] = files[n]
  BY <1>1, <1>5, <1>6
<1>8. \A n \in Indices : files'[n].data = files[n].data
                           /\ (files'[n].exists \/ files'[n].data = <<>>)
  BY <1>1, <1>5, <1>7
<1>9. ContentsOf(files', buf') = Contents
  BY <1>1, <1>3, <1>4, <1>8 DEF ContentsOf
<1>10. ShapeInv'
  <2>1. files'[0].exists
    BY <1>5, <1>7
  <2> QED
    BY <1>1, <1>2, <1>4, <1>7, <1>8, <2>1 DEF ShapeInv, Rotating
<1>11. RotateInv' /\ ~Busy'
  BY <1>4 DEF RotateInv, Busy, Rotating
<1>12. OrderInv'
  BY <1>1, <1>2, <1>9, <1>10, <1>11, OrderSame
<1> QED
  BY <1>10, <1>11, <1>12 DEF FilesInv

LEMMA ProcessEndsStep ==
    ASSUME FilesInv, ProcessEnds
    PROVE  FilesInv'
<1>1. /\ ShapeInv /\ RotateInv /\ OrderInv
      /\ files \in [Indices -> FileState] /\ buf \in Seq(Piece) /\ 0 \in Indices
      /\ files[0].data \in Seq(Piece) /\ <<>> \in Seq(Piece)
      /\ Contents = ContentsOf(files, buf)
  BY FilesFacts
<1>2. /\ pc' = "down" /\ fd_' = FALSE /\ buf' = <<>> /\ files' = files
      /\ why' = why /\ round' = round /\ msg' = msg
      /\ faults' \in 0..MaxFaults
  BY <1>1, BoundAssumption DEF ProcessEnds, Fault, loop, message, ShapeInv
<1>3. ShapeInv'
  BY <1>1, <1>2 DEF ShapeInv, Rotating
<1>4. RotateInv' /\ ~Busy'
  BY <1>2 DEF RotateInv, Busy, Rotating
<1>5. ASSUME NEW m, Holding(Contents, m) PROVE Holding(ContentsOf(files, <<>>), m)
  <2>1. Contents[0] = files[0].data \o buf /\ InOrder(Contents[0])
    BY <1>1, <1>5, ContentsType DEF Holding
  <2>2. InOrder(files[0].data) /\ ToSet(files[0].data) \subseteq ToSet(Contents[0])
    BY <1>1, <2>1, FirstPart, PiecesOfConcat
  <2>3. Holding([Contents EXCEPT ![0] = files[0].data], m)
    BY <1>1, <1>5, <2>2, HoldingLess
  <2>4. ContentsOf(files, <<>>) = [Contents EXCEPT ![0] = files[0].data]
    <3>1. /\ Contents \in [Indices -> Seq(Piece)]
          /\ \A n \in Indices \ {0} : Contents[n] = files[n].data
      BY <1>1, ContentsType
    <3>2. /\ ContentsOf(files, <<>>) \in [Indices -> Seq(Piece)]
          /\ \A n \in Indices : ContentsOf(files, <<>>)[n] = files[n].data
      BY <1>1, ContentsAlone
    <3>3. [Contents EXCEPT ![0] = files[0].data] \in [Indices -> Seq(Piece)]
      BY <1>1, <3>1
    <3> QED
      BY <1>1, <3>1, <3>2, <3>3
  <2> QED
    BY <2>3, <2>4
<1>6. OrderInv'
  BY <1>1, <1>2, <1>3, <1>4, <1>5, OrderLess
<1> QED
  BY <1>3, <1>4, <1>6 DEF FilesInv

LEMMA TakeStep ==
    ASSUME FilesInv, NEW len \in Lengths,
           TakeFitting(len) \/ TakeExceeding(len) \/ TakeThrows(len)
    PROVE  FilesInv'
<1>1. /\ ShapeInv /\ RotateInv /\ OrderInv
      /\ Contents = ContentsOf(files, buf) /\ <<>> \in Seq(Piece)
  BY FilesFacts
<1>2. Take(len)
  BY DEF TakeFitting, TakeExceeding, TakeThrows
<1>3. /\ pc = "idle" /\ msg' \in [id : 0..MaxMsgs, len : Nat]
      /\ msg'.id = msg.id + 1 /\ msg.id \in Nat /\ msg'.id > 0 /\ msg'.len > 0
  BY <1>1, <1>2, TakeFacts
<1>4. msg'.id > msg.id
  BY <1>3
<1>5. CASE TakeFitting(len) \/ TakeThrows(len)
  <2>1. /\ pc' \in {"idle", "write"} /\ why' = why /\ round' = round /\ fd_' = fd_
        /\ buf' = buf /\ files' = files /\ faults' \in 0..MaxFaults
    BY <1>1, <1>3, <1>5, BoundAssumption
       DEF TakeFitting, TakeThrows, loop, stream, Fault, ShapeInv
  <2>2. ShapeInv'
    BY <1>1, <1>3, <2>1 DEF ShapeInv
  <2>3. RotateInv'
    BY <1>3, <2>1 DEF RotateInv, Rotating
  <2>4. OrderInv'
    BY <1>1, <1>4, <2>1, <2>2, OrderSame
  <2> QED
    BY <2>2, <2>3, <2>4 DEF FilesInv
<1>6. CASE TakeExceeding(len)
  <2>1. fd_ /\ files' = Drained /\ faults' = faults /\ files[0].exists
    BY <1>1, <1>6 DEF TakeExceeding, ShapeInv
  <2>2. /\ Drained \in [Indices -> FileState]
        /\ \A n \in Indices : Drained[n].exists = files[n].exists
        /\ \A n \in Indices : Drained[n].exists \/ Drained[n].data = <<>>
        /\ ContentsOf(Drained, <<>>) = Contents
    BY <1>1, <2>1, DrainedFiles
  <2>3. /\ buf' = <<>> /\ fd_' \in BOOLEAN
        /\ why' \in {"log", "open"} /\ round' \in 1..MaxFiles + 1
        /\ \/ pc' = "write"
           \/ /\ pc' \in {"remove", "reopen"} /\ fd_' = FALSE /\ round' = 1
              /\ (pc' = "remove" => 1 <= MaxFiles) /\ (pc' = "reopen" => MaxFiles = 0)
    <3>1. CASE Rotate("log")
      BY <3>1, RotateFacts
    <3>2. CASE pc' = "write" /\ buf' = <<>> /\ UNCHANGED <<loop, fd_>>
      BY <1>1, <3>2 DEF loop, ShapeInv
    <3> QED
      BY <1>6, <3>1, <3>2 DEF TakeExceeding
  <2>4. ShapeInv'
    <3>1. files'[0].exists
      BY <2>1, <2>2, IndexIsNumber
    <3> QED
      BY <1>1, <1>3, <2>1, <2>2, <2>3, <3>1 DEF ShapeInv, Rotating
  <2>5. RotateInv'
    BY <1>3, <2>3 DEF RotateInv, Rotating
  <2>6. OrderInv'
    BY <1>1, <1>4, <2>1, <2>2, <2>3, <2>4, OrderSame
  <2> QED
    BY <2>4, <2>5, <2>6 DEF FilesInv
<1> QED
  BY <1>5, <1>6

LEMMA FlushStep ==
    ASSUME FilesInv, Flush
    PROVE  FilesInv'
<1>1. ShapeInv /\ RotateInv /\ OrderInv /\ <<>> \in Seq(Piece)
  BY FilesFacts
<1>2. /\ pc \in {"idle", "write"} /\ fd_ /\ files[0].exists /\ files' = Drained /\ buf' = <<>>
      /\ pc' = pc /\ why' = why /\ round' = round /\ msg' = msg /\ fd_' = fd_ /\ faults' = faults
  BY <1>1 DEF Flush, loop, message, ShapeInv
<1>3. /\ Drained \in [Indices -> FileState]
      /\ \A n \in Indices : Drained[n].exists = files[n].exists
      /\ \A n \in Indices : Drained[n].exists \/ Drained[n].data = <<>>
      /\ ContentsOf(Drained, <<>>) = Contents
  BY <1>1, <1>2, DrainedFiles
<1>4. ShapeInv'
  BY <1>1, <1>2, <1>3, IndexIsNumber DEF ShapeInv
<1>5. RotateInv' /\ Busy' = Busy
  BY <1>1, <1>2 DEF RotateInv, Rotating, Busy
<1>6. OrderInv'
  BY <1>1, <1>2, <1>3, <1>4, <1>5, OrderSame
<1> QED
  BY <1>4, <1>5, <1>6 DEF FilesInv

-----------------------------------------------------------------------------
(* Writing.                                                                *)

\* A piece of the message goes to the stream's buffer.
LEMMA PieceWritten ==
    ASSUME FilesInv, pc = "write", NEW p \in Piece, p.id = msg.id
    PROVE  /\ Append(buf, p) \in Seq(Piece)
           /\ Holding(ContentsOf(files, Append(buf, p)), msg.id + 1)
<1>1. /\ ShapeInv /\ OrderInv /\ 0 \in Indices
      /\ files \in [Indices -> FileState] /\ buf \in Seq(Piece) /\ files[0].data \in Seq(Piece)
      /\ Contents = ContentsOf(files, buf)
  BY FilesFacts
<1>2. Append(buf, p) \in Seq(Piece)
  BY <1>1
<1>3. Holding(Contents, p.id)
  BY <1>1, ComingIs DEF OrderInv, Busy
<1>4. Holding([Contents EXCEPT ![0] = Append(@, p)], p.id + 1)
  BY <1>3, HoldingMore
<1>5. /\ Contents \in [Indices -> Seq(Piece)] /\ Contents[0] = files[0].data \o buf
      /\ \A n \in Indices \ {0} : Contents[n] = files[n].data
  BY <1>1, ContentsType
<1>6. /\ ContentsOf(files, Append(buf, p)) \in [Indices -> Seq(Piece)]
      /\ ContentsOf(files, Append(buf, p))[0] = files[0].data \o Append(buf, p)
      /\ \A n \in Indices \ {0} : ContentsOf(files, Append(buf, p))[n] = files[n].data
  BY <1>1, <1>2, ContentsType
<1>7. files[0].data \o Append(buf, p) = Append(files[0].data \o buf, p)
  BY <1>1, AppendToConcat
<1>8. Append(Contents[0], p) \in Seq(Piece)
  BY <1>1, <1>5
<1>9. ContentsOf(files, Append(buf, p)) = [Contents EXCEPT ![0] = Append(@, p)]
  BY <1>1, <1>5, <1>6, <1>7, <1>8
<1> QED
  BY <1>2, <1>4, <1>9

LEMMA WriteStep ==
    ASSUME FilesInv, Write \/ WriteThrows
    PROVE  FilesInv'
<1>1. /\ ShapeInv /\ RotateInv /\ OrderInv
      /\ files \in [Indices -> FileState] /\ buf \in Seq(Piece)
      /\ Contents = ContentsOf(files, buf)
  BY FilesFacts
<1>2. /\ pc = "write" /\ fd_ /\ pc' = "idle" /\ files' = files /\ fd_' = fd_
      /\ why' = why /\ round' = round /\ msg' = msg
      /\ faults' \in 0..MaxFaults
  BY <1>1, BoundAssumption DEF Write, WriteThrows, Fault, loop, message, ShapeInv
<1>3. /\ msg.id \in 1..MaxMsgs /\ msg.len \in Nat \ {0} /\ msg.id \in Nat
  BY <1>1, <1>2, BoundAssumption DEF ShapeInv, RotateInv, Busy
<1>4. \/ buf' = buf
      \/ \E p \in Piece : p.id = msg.id /\ buf' = Append(buf, p)
  <2>1. CASE Write
    <3>1. [id |-> msg.id, len |-> msg.len, whole |-> TRUE] \in Piece
      BY <1>3 DEF Piece
    <3> QED
      BY <2>1, <3>1 DEF Write
  <2>2. CASE WriteThrows /\ buf' # buf
    <3>1. PICK len \in 1..msg.len - 1 :
             buf' = Append(buf, [id |-> msg.id, len |-> len, whole |-> FALSE])
      BY <2>2 DEF WriteThrows
    <3>2. [id |-> msg.id, len |-> len, whole |-> FALSE] \in Piece
      BY <1>3 DEF Piece
    <3> QED
      BY <3>1, <3>2
  <2> QED
    BY <2>1, <2>2
<1>5. buf' \in Seq(Piece) /\ Holding(ContentsOf(files', buf'), msg.id + 1)
  <2>1. CASE buf' = buf
    <3>1. Holding(Contents, msg.id) /\ Holding(Contents, msg.id + 1)
      BY <1>1, <1>2, <1>3, ComingIs, HoldingLater DEF OrderInv, Busy
    <3> QED
      BY <1>1, <1>2, <2>1, <3>1
  <2>2. CASE \E p \in Piece : p.id = msg.id /\ buf' = Append(buf, p)
    BY <1>2, <2>2, PieceWritten
  <2> QED
    BY <1>4, <2>1, <2>2
<1>6. ShapeInv'
  BY <1>1, <1>2, <1>5 DEF ShapeInv, Rotating
<1>7. RotateInv' /\ ~Busy'
  BY <1>2 DEF RotateInv, Busy, Rotating
<1>8. OrderInv'
  <2>1. Contents' = ContentsOf(files', buf')
    BY DEF Contents, ContentsOf
  <2>2. Coming' = msg.id + 1
    BY <1>2, <1>7 DEF Coming
  <2> QED
    BY <1>5, <2>1, <2>2 DEF OrderInv
<1> QED
  BY <1>6, <1>7, <1>8 DEF FilesInv

LEMMA WriteToNullStep ==
    ASSUME FilesInv, WriteToNull
    PROVE  FilesInv'
<1>1. ShapeInv /\ RotateInv /\ OrderInv /\ Contents = ContentsOf(files, buf)
  BY FilesFacts
<1>2. /\ pc' = "undefined" /\ files' = files /\ buf' = buf /\ fd_' = fd_
      /\ why' = why /\ round' = round /\ msg' = msg /\ faults' = faults
  BY DEF WriteToNull, loop, message, stream
<1>3. ShapeInv'
  BY <1>1, <1>2 DEF ShapeInv
<1>4. RotateInv' /\ ~Busy'
  BY <1>2 DEF RotateInv, Busy, Rotating
<1>5. OrderInv'
  BY <1>1, <1>2, <1>3, <1>4, OrderSame
<1> QED
  BY <1>3, <1>4, <1>5 DEF FilesInv

-----------------------------------------------------------------------------
(* rotate_.                                                                *)

\* The stream is closed, and the files are as they are.
LEMMA ClosedFacts ==
    ASSUME FilesInv, pc \in Rotating
    PROVE  /\ fd_ = FALSE /\ buf = <<>> /\ Contents = ContentsOf(files, <<>>)
           /\ Contents \in [Indices -> Seq(Piece)]
           /\ \A n \in Indices : Contents[n] = files[n].data
<1>1. fd_ = FALSE /\ buf = <<>>
  BY DEF FilesInv, ShapeInv, RotateInv
<1> QED
  BY <1>1, FilesFacts, ContentsAlone

LEMMA NoFileIs == NoFile \in FileState /\ ~NoFile.exists /\ NoFile.data = <<>>
  BY NoPieces DEF NoFile, FileState

\* A file is removed.
LEMMA FileRemoved ==
    ASSUME FilesInv, pc \in Rotating, NEW i \in Indices
    PROVE  LET fs == [files EXCEPT ![i] = NoFile]
           IN  /\ fs \in [Indices -> FileState] /\ fs[i] = NoFile
               /\ \A n \in Indices \ {i} : fs[n] = files[n]
               /\ \A n \in Indices : fs[n].exists \/ fs[n].data = <<>>
               /\ \A m : Holding(Contents, m) => Holding(ContentsOf(fs, <<>>), m)
<1> DEFINE fs == [files EXCEPT ![i] = NoFile]
<1>1. /\ files \in [Indices -> FileState]
      /\ \A n \in Indices : files[n].exists \/ files[n].data = <<>>
      /\ Contents \in [Indices -> Seq(Piece)]
      /\ \A n \in Indices : Contents[n] = files[n].data
  BY FilesFacts, ClosedFacts
<1>2. /\ fs \in [Indices -> FileState] /\ fs[i] = NoFile
      /\ \A n \in Indices \ {i} : fs[n] = files[n]
  BY <1>1, NoFileIs
<1> HIDE DEF fs
<1>3. \A n \in Indices : fs[n].exists \/ fs[n].data = <<>>
  BY <1>1, <1>2, NoFileIs
<1>4. ContentsOf(fs, <<>>) = [Contents EXCEPT ![i] = <<>>]
  <2>1. /\ ContentsOf(fs, <<>>) \in [Indices -> Seq(Piece)]
        /\ \A n \in Indices : ContentsOf(fs, <<>>)[n] = fs[n].data
    BY <1>2, ContentsAlone
  <2>2. [Contents EXCEPT ![i] = <<>>] \in [Indices -> Seq(Piece)]
    BY <1>1, NoPieces
  <2>3. \A n \in Indices : fs[n].data = IF n = i THEN <<>> ELSE files[n].data
    BY <1>2, NoFileIs
  <2>4. /\ i \in Indices /\ Contents \in [Indices -> Seq(Piece)]
        /\ \A n \in Indices : Contents[n] = files[n].data
    BY <1>1, <1>2
  <2>5. \A n \in Indices : [Contents EXCEPT ![i] = <<>>][n] = IF n = i THEN <<>> ELSE files[n].data
    BY <2>4
  <2> QED
    BY <2>1, <2>2, <2>3, <2>5
<1>5. ASSUME NEW m, Holding(Contents, m) PROVE Holding(ContentsOf(fs, <<>>), m)
  <2>1. Holding([Contents EXCEPT ![i] = <<>>], m)
    BY <1>5, HoldingLess, NoPieces
  <2> QED
    BY <1>4, <2>1
<1> QED
  BY <1>2, <1>3, <1>5 DEF fs

\* A file is renamed to an index where there is none.
LEMMA FileRenamed ==
    ASSUME FilesInv, pc \in Rotating, NEW i \in 1..MaxFiles, ~files[i].exists
    PROVE  LET fs == [files EXCEPT ![i] = files[i - 1], ![i - 1] = NoFile]
           IN  /\ fs \in [Indices -> FileState] /\ fs[i] = files[i - 1] /\ fs[i - 1] = NoFile
               /\ \A n \in Indices \ {i, i - 1} : fs[n] = files[n]
               /\ \A n \in Indices : fs[n].exists \/ fs[n].data = <<>>
               /\ \A m : Holding(Contents, m) => Holding(ContentsOf(fs, <<>>), m)
<1> DEFINE fs == [files EXCEPT ![i] = files[i - 1], ![i - 1] = NoFile]
<1>0. i \in Indices /\ i - 1 \in Indices /\ i # i - 1
  BY SizeAssumption DEF Indices
<1>1. /\ files \in [Indices -> FileState] /\ \A n \in Indices : files[n] \in FileState
      /\ \A n \in Indices : files[n].exists \/ files[n].data = <<>>
      /\ Contents \in [Indices -> Seq(Piece)]
      /\ \A n \in Indices : Contents[n] = files[n].data
  BY FilesFacts, ClosedFacts
<1>2. /\ fs \in [Indices -> FileState] /\ fs[i] = files[i - 1] /\ fs[i - 1] = NoFile
      /\ \A n \in Indices \ {i, i - 1} : fs[n] = files[n]
  BY <1>0, <1>1, NoFileIs
<1> HIDE DEF fs
<1>3. \A n \in Indices : fs[n].exists \/ fs[n].data = <<>>
  BY <1>0, <1>1, <1>2, NoFileIs
<1> DEFINE d == [Contents EXCEPT ![i] = Contents[i - 1], ![i - 1] = <<>>]
<1>4. ContentsOf(fs, <<>>) = d
  <2>1. /\ ContentsOf(fs, <<>>) \in [Indices -> Seq(Piece)]
        /\ \A n \in Indices : ContentsOf(fs, <<>>)[n] = fs[n].data
    BY <1>2, ContentsAlone
  <2>2. /\ d \in [Indices -> Seq(Piece)] /\ d[i] = Contents[i - 1] /\ d[i - 1] = <<>>
        /\ \A n \in Indices \ {i, i - 1} : d[n] = Contents[n]
    BY <1>0, <1>1, NoPieces
  <2> HIDE DEF d
  <2>3. ASSUME NEW n \in Indices PROVE ContentsOf(fs, <<>>)[n] = d[n]
    <3>1. ContentsOf(fs, <<>>)[n] = fs[n].data
      BY <2>1
    <3>2. CASE n = i
      BY <1>0, <1>1, <1>2, <2>2, <3>1, <3>2
    <3>3. CASE n = i - 1
      BY <1>2, <2>2, <3>1, <3>3, NoFileIs
    <3>4. CASE n \notin {i, i - 1}
      BY <1>1, <1>2, <2>2, <3>1, <3>4
    <3> QED
      BY <3>2, <3>3, <3>4
  <2> QED
    BY <2>1, <2>2, <2>3
<1>5. ASSUME NEW m, Holding(Contents, m) PROVE Holding(ContentsOf(fs, <<>>), m)
  <2>1. Contents[i] = <<>>
    BY <1>0, <1>1
  <2>2. Holding(d, m)
    BY <1>5, <2>1, HoldingMoved
  <2> QED
    BY <1>4, <2>2
<1> QED
  BY <1>2, <1>3, <1>5 DEF fs

LEMMA RemoveTargetStep ==
    ASSUME FilesInv, RemoveTarget
    PROVE  FilesInv'
<1> DEFINE i == Round(round)
<1>1. /\ ShapeInv /\ RotateInv /\ OrderInv /\ pc = "remove" /\ pc \in Rotating
      /\ fd_ = FALSE /\ buf = <<>> /\ Contents = ContentsOf(files, <<>>)
  BY FilesFacts, ClosedFacts DEF RemoveTarget, Rotating
<1>2. /\ why' = why /\ msg' = msg /\ fd_' = FALSE /\ buf' = <<>> /\ faults' = faults
  BY <1>1 DEF RemoveTarget, message, stream
<1>3. /\ round \in 1..MaxFiles /\ round + 1 \in 1..MaxFiles + 1 /\ i \in Indices
      /\ Round(round + 1) = i - 1 /\ (round + 1 > MaxFiles => i - 1 = 0)
  BY <1>1, RoundIs
<1>4. CASE files[i - 1].exists
  <2>1. pc' = "rename" /\ round' = round
    BY <1>4 DEF RemoveTarget
  <2>2. files' = [files EXCEPT ![i] = NoFile] \/ files' = files
    BY <1>4 DEF RemoveTarget
  <2>3. /\ files' \in [Indices -> FileState]
        /\ \A n \in Indices : files'[n].exists \/ files'[n].data = <<>>
        /\ ~files[i].exists => ~files'[i].exists
        /\ \A m : Holding(Contents, m) => Holding(ContentsOf(files', <<>>), m)
    <3>1. CASE files' = [files EXCEPT ![i] = NoFile]
      BY <1>1, <1>3, <3>1, FileRemoved, NoFileIs
    <3>2. CASE files' = files
      BY <1>1, <3>2 DEF ShapeInv
    <3> QED
      BY <2>2, <3>1, <3>2
  <2>4. ShapeInv'
    BY <1>1, <1>2, <1>3, <2>1, <2>3 DEF ShapeInv, Rotating
  <2>5. RotateInv'
    <3>1. round' > 1 => ~files'[Round(round')].exists
      BY <1>1, <2>1, <2>3 DEF RotateInv
    <3> QED
      BY <1>1, <1>2, <2>1, <3>1 DEF RotateInv, Busy, Rotating
  <2>6. Busy' => Busy
    BY <1>1, <1>2, <2>1 DEF Busy
  <2>7. OrderInv'
    BY <1>1, <1>2, <2>3, <2>4, <2>6, OrderLess
  <2> QED
    BY <2>4, <2>5, <2>7 DEF FilesInv
<1>5. CASE ~files[i - 1].exists
  <2>1. GoOn(round + 1) /\ files' = files
    BY <1>5 DEF RemoveTarget
  <2>2. /\ round' = round + 1 /\ round' \in 1..MaxFiles + 1
        /\ \/ pc' = "remove" /\ round' <= MaxFiles
           \/ pc' = "reopen" /\ round + 1 > MaxFiles
    BY <1>3, <2>1, GoOnFacts
  <2>3. ShapeInv'
    BY <1>1, <1>2, <2>1, <2>2 DEF ShapeInv, Rotating
  <2>4. RotateInv'
    <3>1. Round(round') = i - 1
      BY <1>3, <2>2
    <3>2. /\ ~files'[Round(round')].exists
          /\ pc' = "reopen" => ~files'[0].exists
      BY <1>3, <1>5, <2>1, <2>2, <3>1
    <3> QED
      BY <1>1, <1>2, <2>2, <3>2 DEF RotateInv, Busy, Rotating
  <2>5. Busy' => Busy
    BY <1>1, <1>2, <2>2 DEF Busy
  <2>6. OrderInv'
    BY <1>1, <1>2, <2>1, <2>3, <2>5, OrderSame
  <2> QED
    BY <2>3, <2>4, <2>6 DEF FilesInv
<1> QED
  BY <1>4, <1>5

LEMMA RenameStep ==
    ASSUME FilesInv, Rename
    PROVE  FilesInv'
<1> DEFINE i == Round(round)
<1>1. /\ ShapeInv /\ RotateInv /\ OrderInv /\ pc = "rename" /\ pc \in Rotating
      /\ fd_ = FALSE /\ buf = <<>>
  BY FilesFacts, ClosedFacts DEF Rename, Rotating
<1>2. /\ why' = why /\ msg' = msg /\ fd_' = FALSE /\ buf' = <<>> /\ faults' = faults
      /\ ~files[i].exists /\ GoOn(round + 1)
      /\ files' = [files EXCEPT ![i] = files[i - 1], ![i - 1] = NoFile]
  BY <1>1 DEF Rename, message, stream
<1>3. /\ round \in 1..MaxFiles /\ round + 1 \in 1..MaxFiles + 1 /\ i \in 1..MaxFiles
      /\ Round(round + 1) = i - 1 /\ (round + 1 > MaxFiles => i - 1 = 0)
  BY <1>1, RoundIs
<1>4. /\ files' \in [Indices -> FileState] /\ files'[i - 1] = NoFile
      /\ \A n \in Indices : files'[n].exists \/ files'[n].data = <<>>
      /\ \A m : Holding(Contents, m) => Holding(ContentsOf(files', <<>>), m)
  BY <1>1, <1>2, <1>3, FileRenamed
<1>5. /\ round' = round + 1 /\ round' \in 1..MaxFiles + 1
      /\ \/ pc' = "remove" /\ round' <= MaxFiles
         \/ pc' = "reopen" /\ round + 1 > MaxFiles
  BY <1>2, <1>3, GoOnFacts
<1>6. ShapeInv'
  BY <1>1, <1>2, <1>4, <1>5 DEF ShapeInv, Rotating
<1>7. RotateInv'
  <2>1. Round(round') = i - 1
    BY <1>3, <1>5
  <2>2. /\ ~files'[Round(round')].exists
        /\ pc' = "reopen" => ~files'[0].exists
    BY <1>3, <1>4, <1>5, <2>1, NoFileIs
  <2> QED
    BY <1>1, <1>2, <1>5, <2>2 DEF RotateInv, Busy, Rotating
<1>8. Busy' => Busy
  BY <1>1, <1>2, <1>5 DEF Busy
<1>9. OrderInv'
  BY <1>1, <1>2, <1>4, <1>6, <1>8, OrderLess
<1> QED
  BY <1>6, <1>7, <1>9 DEF FilesInv

LEMMA RenameFailsStep ==
    ASSUME FilesInv, RenameFails
    PROVE  FilesInv'
<1>1. /\ ShapeInv /\ RotateInv /\ OrderInv /\ pc = "rename"
      /\ Contents = ContentsOf(files, buf)
  BY FilesFacts DEF RenameFails
<1>2. /\ pc' = "truncate" /\ files' = files /\ buf' = buf /\ fd_' = fd_
      /\ why' = why /\ round' = round /\ msg' = msg /\ faults' \in 0..MaxFaults
  BY <1>1, BoundAssumption DEF RenameFails, Fault, loop, message, stream, ShapeInv
<1>3. ShapeInv'
  BY <1>1, <1>2 DEF ShapeInv, Rotating
<1>4. RotateInv' /\ (Busy' => Busy)
  BY <1>1, <1>2 DEF RotateInv, Busy, Rotating
<1>5. OrderInv'
  BY <1>1, <1>2, <1>3, <1>4, OrderSame
<1> QED
  BY <1>3, <1>4, <1>5 DEF FilesInv

\* log.txt is opened again, or an exception ends the rotation.
LEMMA OpenStep ==
    ASSUME FilesInv, Truncate \/ Reopen \/ ReopenThrows
    PROVE  FilesInv'
<1>1. /\ ShapeInv /\ RotateInv /\ OrderInv /\ pc \in {"reopen", "truncate"} /\ pc \in Rotating
      /\ fd_ = FALSE /\ buf = <<>> /\ Contents = ContentsOf(files, <<>>)
  BY FilesFacts, ClosedFacts DEF Truncate, Reopen, ReopenThrows, Rotating
<1>2. /\ Emptied \in [Indices -> FileState] /\ Emptied[0].exists
      /\ \A n \in Indices : Emptied[n].exists \/ Emptied[n].data = <<>>
      /\ \A m : Holding(Contents, m) => Holding(ContentsOf(Emptied, <<>>), m)
  BY <1>1, EmptiedFiles
<1>3. /\ why' = why /\ round' = round /\ msg' = msg /\ buf' = <<>> /\ faults' \in 0..MaxFaults
      /\ files' = Emptied \/ (files' = files /\ fd_' = FALSE)
      /\ fd_' \in BOOLEAN /\ (pc' = "down" => ~fd_')
      /\ pc' \in {"down", "idle", "write"} /\ (pc' = "write" => why = "log")
  <2>1. CASE Truncate
    <3>1. Throw(TRUE) /\ files' = Emptied /\ faults' = faults
      BY <2>1 DEF Truncate
    <3>2. /\ pc' = "down" \/ pc' = "idle"
          /\ fd_' \in BOOLEAN /\ (pc' = "down" => ~fd_')
          /\ why' = why /\ round' = round /\ msg' = msg /\ buf' = buf
      BY <3>1, ThrowFacts
    <3> QED
      BY <1>1, <3>1, <3>2 DEF ShapeInv
  <2>2. CASE Reopen
    BY <1>1, <2>2 DEF Reopen, loop, ShapeInv
  <2>3. CASE ReopenThrows
    <3>1. Throw(FALSE) /\ (files' = files \/ files' = Emptied) /\ Fault
      BY <2>3 DEF ReopenThrows
    <3>2. faults' \in 0..MaxFaults
      BY <1>1, <3>1, BoundAssumption DEF Fault, ShapeInv
    <3>3. /\ pc' = "down" \/ pc' = "idle"
          /\ fd_' = FALSE
          /\ why' = why /\ round' = round /\ msg' = msg /\ buf' = buf
      BY <3>1, ThrowFacts
    <3> QED
      BY <1>1, <3>1, <3>2, <3>3 DEF ShapeInv
  <2> QED
    BY <2>1, <2>2, <2>3
<1>4. /\ files' \in [Indices -> FileState] /\ (fd_' => files'[0].exists)
      /\ \A n \in Indices : files'[n].exists \/ files'[n].data = <<>>
      /\ \A m : Holding(Contents, m) => Holding(ContentsOf(files', <<>>), m)
  <2>1. CASE files' = Emptied
    BY <1>2, <2>1
  <2>2. CASE files' = files /\ fd_' = FALSE
    BY <1>1, <2>2 DEF ShapeInv
  <2> QED
    BY <1>3, <2>1, <2>2
<1>5. ShapeInv'
  BY <1>1, <1>3, <1>4 DEF ShapeInv
<1>6. RotateInv' /\ (Busy' => Busy)
  BY <1>1, <1>3 DEF RotateInv, Busy, Rotating
<1>7. OrderInv'
  BY <1>1, <1>3, <1>4, <1>5, <1>6, OrderLess
<1> QED
  BY <1>5, <1>6, <1>7 DEF FilesInv

-----------------------------------------------------------------------------
(* The order of the messages.                                              *)

LEMMA StepFiles == FilesInv /\ [Next]_vars => FilesInv'
<1> SUFFICES ASSUME FilesInv, [Next]_vars PROVE FilesInv'
  OBVIOUS
<1>1. CASE UNCHANGED vars
  BY <1>1 DEF vars, loop, message, stream, FilesInv, ShapeInv, RotateInv, OrderInv,
              Contents, Coming, Busy
<1>2. ASSUME NEW rotate_on_open \in RotateOnOpen, Construct(rotate_on_open) PROVE FilesInv'
  BY <1>2, ConstructStep
<1>3. ASSUME NEW len \in Lengths, TakeFitting(len) \/ TakeExceeding(len) \/ TakeThrows(len)
      PROVE  FilesInv'
  BY <1>3, TakeStep
<1>4. CASE ProcessEnds
  BY <1>4, ProcessEndsStep
<1>5. CASE Write \/ WriteThrows
  BY <1>5, WriteStep
<1>6. CASE WriteToNull
  BY <1>6, WriteToNullStep
<1>7. CASE Flush
  BY <1>7, FlushStep
<1>8. CASE RemoveTarget
  BY <1>8, RemoveTargetStep
<1>9. CASE Rename
  BY <1>9, RenameStep
<1>10. CASE RenameFails
  BY <1>10, RenameFailsStep
<1>11. CASE Truncate \/ Reopen \/ ReopenThrows
  BY <1>11, OpenStep
<1> QED
  BY <1>1, <1>2, <1>3, <1>4, <1>5, <1>6, <1>7, <1>8, <1>9, <1>10, <1>11 DEF Next, SinkIt

LEMMA FilesCorrect == Spec => []FilesInv
<1> QED
  BY InitFiles, StepFiles, PTL DEF Spec

\* Read from log.<max_files>.txt to log.txt the messages are in the order they were
\* logged, none twice, after every failure and crash (rotating_file_sink-inl.h:103-107).
THEOREM OrderCorrect == Spec => []FilesOrdered
<1>1. FilesInv => FilesOrdered
  BY DEF FilesInv, OrderInv, Holding, FilesOrdered
<1> QED
  BY <1>1, FilesCorrect, PTL

-----------------------------------------------------------------------------
(* Sums.                                                                   *)

\* A set of numbers has a least one.
LEMMA LeastNumber ==
    ASSUME NEW T \in SUBSET Nat, T # {}
    PROVE  \E x \in T : \A y \in T : x <= y
<1> DEFINE U == {0..x : x \in T}
<1>1. IsWellFoundedOn(StrictSubsetOrdering(Nat), FiniteSubsetsOf(Nat))
  BY FS_StrictSubsetOrderingWellFounded
<1>2. U \subseteq FiniteSubsetsOf(Nat) /\ U # {}
  <2>1. \A x \in T : 0..x \in SUBSET Nat /\ IsFiniteSet(0..x)
    BY FS_Interval
  <2> QED
    BY <2>1 DEF FiniteSubsetsOf
<1>3. PICK u \in U : \A v \in U : ~(<<v, u>> \in StrictSubsetOrdering(Nat))
  <2> HIDE DEF U
  <2> QED
    BY <1>1, <1>2, WFMin
<1>4. PICK x \in T : u = 0..x
  OBVIOUS
<1>5. ASSUME NEW y \in T, y < x PROVE FALSE
  <2>1. /\ 0..y \subseteq 0..x /\ x \in 0..x /\ x \notin 0..y
        /\ 0..y \in SUBSET Nat /\ 0..x \in SUBSET Nat
    BY <1>5
  <2>2. <<0..y, u>> \in StrictSubsetOrdering(Nat)
    BY <2>1, <1>4 DEF StrictSubsetOrdering
  <2> QED
    BY <1>3, <2>2
<1> QED
  BY <1>5

\* Induction, for the numbers up to n that are in a set.
LEMMA CountedUp ==
    ASSUME NEW S, NEW n \in Nat, 0 \in S, \A k \in 0..n - 1 : k \in S => k + 1 \in S
    PROVE  \A k \in 0..n : k \in S
<1> DEFINE T == {k \in 0..n : k \notin S}
<1> SUFFICES ASSUME T # {} PROVE FALSE
  OBVIOUS
<1>1. PICK x \in T : \A y \in T : x <= y
  <2>1. T \in SUBSET Nat
    OBVIOUS
  <2> HIDE DEF T
  <2> QED
    BY <2>1, LeastNumber
<1>2. x \in 0..n /\ x \notin S /\ x # 0
  BY <1>1
<1>3. x - 1 \in 0..n - 1 /\ x - 1 \notin T
  BY <1>1, <1>2
<1>4. x - 1 \in S
  BY <1>2, <1>3
<1>5. (x - 1) + 1 \in S
  BY <1>3, <1>4
<1> QED
  BY <1>2, <1>5

\* The partial sums of numbers.
IsSums(f, numbers) ==
    f = [i \in 0..Len(numbers) |-> IF i = 0 THEN 0 ELSE f[i - 1] + numbers[i]]

LEMMA SumsExist ==
    ASSUME NEW s \in Seq(Nat)
    PROVE  \E f : IsSums(f, s)
<1> DEFINE Up(n) == \E f : f = [i \in 0..n |-> IF i = 0 THEN 0 ELSE f[i - 1] + s[i]]
           S == {n \in Nat : Up(n)}
<1>0. Len(s) \in Nat
  OBVIOUS
<1>1. 0 \in S
  <2> DEFINE f == [i \in 0..0 |-> 0]
  <2>1. f = [i \in 0..0 |-> IF i = 0 THEN 0 ELSE f[i - 1] + s[i]]
    OBVIOUS
  <2> HIDE DEF f
  <2> QED
    BY <2>1
<1>2. ASSUME NEW k \in 0..Len(s) - 1, k \in S PROVE k + 1 \in S
  <2>1. PICK f : f = [i \in 0..k |-> IF i = 0 THEN 0 ELSE f[i - 1] + s[i]]
    BY <1>2
  <2> DEFINE g == [i \in 0..k + 1 |-> IF i = k + 1 THEN f[k] + s[k + 1] ELSE f[i]]
  <2>2. k \in Nat /\ k + 1 \in Nat
    BY <1>0
  <2>3. \A i \in 0..k : g[i] = f[i]
    BY <2>2
  <2>4. g[k + 1] = f[k] + s[k + 1]
    BY <2>2
  <2>5. \A i \in 0..k + 1 : g[i] = IF i = 0 THEN 0 ELSE g[i - 1] + s[i]
    <3> TAKE i \in 0..k + 1
    <3>1. CASE i = k + 1
      <4>1. i # 0 /\ i - 1 = k /\ k \in 0..k
        BY <2>2, <3>1
      <4>2. g[k] = f[k]
        BY <2>3, <4>1
      <4> HIDE DEF g
      <4> QED
        BY <2>4, <3>1, <4>1, <4>2
    <3>2. CASE i \in 0..k /\ i # 0
      <4>1. i - 1 \in 0..k
        BY <2>2, <3>2
      <4>2. g[i] = f[i] /\ g[i - 1] = f[i - 1]
        BY <2>3, <3>2, <4>1
      <4>3. f[i] = f[i - 1] + s[i]
        BY <2>1, <3>2
      <4> HIDE DEF g
      <4> QED
        BY <3>2, <4>2, <4>3
    <3>3. CASE i = 0
      <4>1. 0 \in 0..k
        BY <2>2
      <4>2. g[0] = f[0] /\ f[0] = 0
        BY <2>1, <2>3, <4>1
      <4> HIDE DEF g
      <4> QED
        BY <3>3, <4>2
    <3> QED
      BY <2>2, <3>1, <3>2, <3>3
  <2>6. g = [i \in 0..k + 1 |-> IF i = 0 THEN 0 ELSE g[i - 1] + s[i]]
    BY <2>5
  <2> HIDE DEF g
  <2> QED
    BY <2>2, <2>6
<1>3. \A k \in 0..Len(s) : k \in S
  <2> HIDE DEF S
  <2> QED
    BY <1>0, <1>1, <1>2, CountedUp
<1> QED
  BY <1>0, <1>3 DEF IsSums

\* What sums are: every number adds itself to those before it.
LEMMA SumsAre ==
    ASSUME NEW s \in Seq(Nat), NEW f, IsSums(f, s)
    PROVE  /\ f[0] = 0
           /\ \A i \in 1..Len(s) : f[i] = f[i - 1] + s[i]
           /\ \A i \in 0..Len(s) : f[i] \in Nat
<1>0. Len(s) \in Nat /\ \A i \in 1..Len(s) : s[i] \in Nat
  OBVIOUS
<1>1. f[0] = 0
  BY <1>0 DEF IsSums
<1>2. \A i \in 1..Len(s) : f[i] = f[i - 1] + s[i]
  <2> TAKE i \in 1..Len(s)
  <2>1. i \in 0..Len(s) /\ i # 0
    BY <1>0
  <2>2. f[i] = IF i = 0 THEN 0 ELSE f[i - 1] + s[i]
    BY <2>1 DEF IsSums
  <2> QED
    BY <2>1, <2>2
<1> DEFINE S == {i \in 0..Len(s) : f[i] \in Nat}
<1>3. 0 \in S
  BY <1>0, <1>1
<1>4. ASSUME NEW k \in 0..Len(s) - 1, k \in S PROVE k + 1 \in S
  <2>1. k + 1 \in 1..Len(s) /\ k + 1 \in 0..Len(s) /\ (k + 1) - 1 = k
    BY <1>0
  <2>2. f[k + 1] = f[k] + s[k + 1]
    BY <1>2, <2>1
  <2> QED
    BY <1>0, <1>4, <2>1, <2>2
<1>5. \A k \in 0..Len(s) : k \in S
  <2> HIDE DEF S
  <2> QED
    BY <1>0, <1>3, <1>4, CountedUp
<1> QED
  BY <1>1, <1>2, <1>5

LEMMA TotalIs ==
    ASSUME NEW s \in Seq(Nat)
    PROVE  \E f : IsSums(f, s) /\ Total(s) = f[Len(s)]
<1> DEFINE F == CHOOSE f : IsSums(f, s)
<1>1. IsSums(F, s)
  BY SumsExist
<1>2. Total(s) = F[Len(s)]
  BY DEF Total, IsSums
<1> QED
  BY <1>1, <1>2

LEMMA SumLess ==
    ASSUME NEW a \in Nat, NEW b \in Nat, NEW c \in Nat, NEW d \in Nat, a <= c, b <= d
    PROVE  a + b <= c + d
  OBVIOUS

\* Sums of greater numbers are greater.
LEMMA SumsCompare ==
    ASSUME NEW s \in Seq(Nat), NEW t \in Seq(Nat), NEW f, NEW g, IsSums(f, s), IsSums(g, t),
           Len(s) <= Len(t), \A i \in 1..Len(s) : s[i] <= t[i]
    PROVE  \A k \in 0..Len(s) : f[k] <= g[k]
<1>0. /\ Len(s) \in Nat /\ Len(t) \in Nat
      /\ \A i \in 1..Len(s) : s[i] \in Nat
      /\ \A i \in 1..Len(t) : t[i] \in Nat
  OBVIOUS
<1>1. /\ f[0] = 0 /\ g[0] = 0
      /\ \A i \in 1..Len(s) : f[i] = f[i - 1] + s[i]
      /\ \A i \in 1..Len(t) : g[i] = g[i - 1] + t[i]
      /\ \A i \in 0..Len(s) : f[i] \in Nat
      /\ \A i \in 0..Len(t) : g[i] \in Nat
  BY SumsAre
<1> DEFINE S == {i \in 0..Len(s) : f[i] <= g[i]}
<1>2. 0 \in S
  BY <1>0, <1>1
<1>3. ASSUME NEW k \in 0..Len(s) - 1, k \in S PROVE k + 1 \in S
  <2>1. /\ k + 1 \in 1..Len(s) /\ k + 1 \in 1..Len(t) /\ k + 1 \in 0..Len(s) /\ (k + 1) - 1 = k
        /\ k \in 0..Len(s) /\ k \in 0..Len(t)
    BY <1>0
  <2>2. f[k + 1] = f[k] + s[k + 1] /\ g[k + 1] = g[k] + t[k + 1]
    BY <1>1, <2>1
  <2>3. /\ f[k] \in Nat /\ g[k] \in Nat /\ s[k + 1] \in Nat /\ t[k + 1] \in Nat
        /\ f[k] <= g[k] /\ s[k + 1] <= t[k + 1]
    BY <1>0, <1>1, <1>3, <2>1
  <2>4. f[k + 1] <= g[k + 1]
    <3>1. f[k] + s[k + 1] <= g[k] + t[k + 1]
      BY <2>3, SumLess
    <3> QED
      BY <2>2, <3>1
  <2> QED
    BY <2>1, <2>4
<1>4. \A k \in 0..Len(s) : k \in S
  <2> HIDE DEF S
  <2> QED
    BY <1>0, <1>2, <1>3, CountedUp
<1> QED
  BY <1>4

LEMMA TotalOfMore ==
    ASSUME NEW s \in Seq(Nat), NEW t \in Seq(Nat), Len(s) <= Len(t),
           \A i \in 1..Len(s) : s[i] <= t[i]
    PROVE  Total(s) \in Nat /\ Total(t) \in Nat /\ Total(s) <= Total(t)
<1>0. Len(s) \in Nat /\ Len(t) \in Nat /\ \A i \in 1..Len(t) : t[i] \in Nat
  OBVIOUS
<1>1. PICK f : IsSums(f, s) /\ Total(s) = f[Len(s)]
  BY TotalIs
<1>2. PICK g : IsSums(g, t) /\ Total(t) = g[Len(t)]
  BY TotalIs
<1>3. f[Len(s)] \in Nat /\ f[Len(s)] <= g[Len(s)]
  <2>1. Len(s) \in 0..Len(s)
    BY <1>0
  <2>2. f[Len(s)] \in Nat
    BY <1>1, <2>1, SumsAre
  <2>3. \A k \in 0..Len(s) : f[k] <= g[k]
    BY <1>1, <1>2, SumsCompare
  <2> QED
    BY <2>1, <2>2, <2>3
<1>4. /\ \A i \in 1..Len(t) : g[i] = g[i - 1] + t[i]
      /\ \A i \in 0..Len(t) : g[i] \in Nat
  BY <1>2, SumsAre
<1> DEFINE S == {i \in 0..Len(t) - Len(s) : g[Len(s)] <= g[Len(s) + i]}
<1>5. 0 \in S
  BY <1>0, <1>4
<1>6. ASSUME NEW k \in 0..(Len(t) - Len(s)) - 1, k \in S PROVE k + 1 \in S
  <2>1. /\ Len(s) + (k + 1) \in 1..Len(t) /\ k + 1 \in 0..Len(t) - Len(s)
        /\ (Len(s) + (k + 1)) - 1 = Len(s) + k /\ Len(s) \in 0..Len(t)
        /\ Len(s) + (k + 1) \in 0..Len(t) /\ Len(s) + k \in 0..Len(t)
    BY <1>0
  <2>2. g[Len(s) + (k + 1)] = g[Len(s) + k] + t[Len(s) + (k + 1)]
    BY <1>4, <2>1
  <2>3. /\ g[Len(s)] \in Nat /\ g[Len(s) + k] \in Nat /\ t[Len(s) + (k + 1)] \in Nat
        /\ g[Len(s)] <= g[Len(s) + k]
    BY <1>0, <1>4, <1>6, <2>1
  <2> QED
    BY <2>1, <2>2, <2>3
<1>7. \A k \in 0..Len(t) - Len(s) : k \in S
  <2>1. Len(t) - Len(s) \in Nat
    BY <1>0
  <2> HIDE DEF S
  <2> QED
    BY <2>1, <1>5, <1>6, CountedUp
<1>8. g[Len(s)] <= g[Len(t)]
  <2>1. Len(t) - Len(s) \in 0..Len(t) - Len(s) /\ Len(s) + (Len(t) - Len(s)) = Len(t)
    BY <1>0
  <2>2. g[Len(s)] <= g[Len(s) + (Len(t) - Len(s))]
    BY <1>7, <2>1
  <2> QED
    BY <2>1, <2>2
<1>9. g[Len(s)] \in Nat /\ g[Len(t)] \in Nat
  BY <1>0, <1>4
<1> QED
  BY <1>1, <1>2, <1>3, <1>8, <1>9

\* One number more.
LEMMA TotalOfOneMore ==
    ASSUME NEW s \in Seq(Nat), NEW t \in Seq(Nat), Len(t) = Len(s) + 1,
           \A i \in 1..Len(s) : s[i] = t[i]
    PROVE  Total(t) = Total(s) + t[Len(t)]
<1>0. /\ Len(s) \in Nat /\ Len(t) \in Nat
      /\ \A i \in 1..Len(s) : s[i] \in Nat
      /\ \A i \in 1..Len(t) : t[i] \in Nat
  OBVIOUS
<1>1. PICK f : IsSums(f, s) /\ Total(s) = f[Len(s)]
  BY TotalIs
<1>2. PICK g : IsSums(g, t) /\ Total(t) = g[Len(t)]
  BY TotalIs
<1>3. g[Len(t)] = g[Len(s)] + t[Len(t)]
  <2>1. Len(t) \in 1..Len(t) /\ Len(t) - 1 = Len(s)
    BY <1>0
  <2> QED
    BY <1>2, <2>1, SumsAre
<1>4. \A k \in 0..Len(s) : f[k] = g[k]
  <2>1. /\ f[0] = 0 /\ g[0] = 0
        /\ \A i \in 1..Len(s) : f[i] = f[i - 1] + s[i]
        /\ \A i \in 1..Len(t) : g[i] = g[i - 1] + t[i]
    BY <1>1, <1>2, SumsAre
  <2> DEFINE S == {i \in 0..Len(s) : f[i] = g[i]}
  <2>2. 0 \in S
    BY <1>0, <2>1
  <2>3. ASSUME NEW k \in 0..Len(s) - 1, k \in S PROVE k + 1 \in S
    <3>1. /\ k + 1 \in 1..Len(s) /\ k + 1 \in 1..Len(t) /\ k + 1 \in 0..Len(s) /\ (k + 1) - 1 = k
      BY <1>0
    <3>2. f[k + 1] = f[k] + s[k + 1] /\ g[k + 1] = g[k] + t[k + 1]
      BY <2>1, <3>1
    <3> QED
      BY <2>3, <3>1, <3>2
  <2>4. \A k \in 0..Len(s) : k \in S
    <3> HIDE DEF S
    <3> QED
      BY <1>0, <2>2, <2>3, CountedUp
  <2> QED
    BY <2>4
<1> QED
  BY <1>0, <1>1, <1>2, <1>3, <1>4

-----------------------------------------------------------------------------
(* The bytes of pieces.                                                    *)

\* The two sequences of numbers that are added up.
Lens(s) == [i \in DOMAIN s |-> s[i].len]
Wholes(s) == [i \in DOMAIN s |-> IF s[i].whole THEN s[i].len ELSE 0]

LEMMA BytesAre ==
    ASSUME NEW s \in Seq(Piece)
    PROVE  /\ Len(s) \in Nat /\ DOMAIN s = 1..Len(s)
           /\ \A i \in 1..Len(s) : s[i] \in Piece /\ s[i].len \in Nat \ {0}
           /\ Lens(s) \in Seq(Nat) /\ Len(Lens(s)) = Len(s) /\ Bytes(s) = Total(Lens(s))
           /\ Wholes(s) \in Seq(Nat) /\ Len(Wholes(s)) = Len(s) /\ WholeBytes(s) = Total(Wholes(s))
           /\ \A i \in 1..Len(s) :
                 /\ Lens(s)[i] = s[i].len
                 /\ Wholes(s)[i] = IF s[i].whole THEN s[i].len ELSE 0
<1>1. /\ Len(s) \in Nat /\ DOMAIN s = 1..Len(s)
      /\ \A i \in 1..Len(s) : s[i] \in Piece /\ s[i].len \in Nat \ {0}
  <2>1. Len(s) \in Nat /\ DOMAIN s = 1..Len(s) /\ \A i \in 1..Len(s) : s[i] \in Piece
    OBVIOUS
  <2>2. \A p \in Piece : p.len \in Nat \ {0}
    BY DEF Piece
  <2> QED
    BY <2>1, <2>2
<1>2. /\ Lens(s) = [i \in 1..Len(s) |-> s[i].len]
      /\ Wholes(s) = [i \in 1..Len(s) |-> IF s[i].whole THEN s[i].len ELSE 0]
  BY <1>1 DEF Lens, Wholes
<1>3. Lens(s) \in [1..Len(s) -> Nat] /\ Wholes(s) \in [1..Len(s) -> Nat]
  <2>1. \A i \in 1..Len(s) : s[i].len \in Nat /\ (IF s[i].whole THEN s[i].len ELSE 0) \in Nat
    BY <1>1
  <2> QED
    BY <1>2, <2>1
<1>4. /\ Lens(s) \in Seq(Nat) /\ Len(Lens(s)) = Len(s)
      /\ Wholes(s) \in Seq(Nat) /\ Len(Wholes(s)) = Len(s)
  <2>1. \A f \in [1..Len(s) -> Nat] : f \in Seq(Nat) /\ Len(f) = Len(s)
    BY <1>1
  <2> QED
    BY <1>3, <2>1
<1>5. Bytes(s) = Total(Lens(s)) /\ WholeBytes(s) = Total(Wholes(s))
  BY DEF Bytes, WholeBytes, Lens, Wholes
<1>6. \A i \in 1..Len(s) : /\ Lens(s)[i] = s[i].len
                          /\ Wholes(s)[i] = IF s[i].whole THEN s[i].len ELSE 0
  BY <1>2
<1> QED
  BY <1>1, <1>4, <1>5, <1>6

LEMMA BytesAreNumbers ==
    ASSUME NEW s \in Seq(Piece)
    PROVE  Bytes(s) \in Nat /\ WholeBytes(s) \in Nat /\ WholeBytes(s) <= Bytes(s)
<1> DEFINE a == Wholes(s)
           b == Lens(s)
<1>1. /\ Len(s) \in Nat /\ \A i \in 1..Len(s) : s[i].len \in Nat \ {0}
      /\ a \in Seq(Nat) /\ Len(a) = Len(s) /\ WholeBytes(s) = Total(a)
      /\ b \in Seq(Nat) /\ Len(b) = Len(s) /\ Bytes(s) = Total(b)
      /\ \A i \in 1..Len(s) : b[i] = s[i].len /\ a[i] = IF s[i].whole THEN s[i].len ELSE 0
  BY BytesAre
<1> HIDE DEF a, b
<1>2. ASSUME NEW i \in 1..Len(a) PROVE a[i] <= b[i]
  <2>1. i \in 1..Len(s)
    BY <1>1
  <2>2. b[i] = s[i].len /\ a[i] = IF s[i].whole THEN s[i].len ELSE 0
    BY <1>1, <2>1
  <2>3. s[i].len \in Nat
    BY <1>1, <2>1
  <2> QED
    BY <2>2, <2>3
<1>3. Total(a) \in Nat /\ Total(b) \in Nat /\ Total(a) <= Total(b)
  BY <1>1, <1>2, TotalOfMore
<1> QED
  BY <1>1, <1>3

\* Nothing has no bytes, and only nothing.
LEMMA NoBytes ==
    ASSUME NEW s \in Seq(Piece)
    PROVE  /\ Bytes(s) = 0 => s = <<>>
           /\ s = <<>> => WholeBytes(s) = 0
<1>1. ASSUME s # <<>> PROVE Bytes(s) # 0
  <2> DEFINE l == Lens(s)
  <2>1. l \in Seq(Nat) /\ Len(l) \in Nat \ {0} /\ Bytes(s) = Total(l) /\ l[Len(l)] \in Nat \ {0}
    <3>1. Len(s) # 0
      BY <1>1
    <3>2. Len(s) \in 1..Len(s)
      BY <3>1, BytesAre
    <3> QED
      BY <3>2, BytesAre
  <2> HIDE DEF l
  <2>2. PICK f : IsSums(f, l) /\ Total(l) = f[Len(l)]
    BY <2>1, TotalIs
  <2>3. /\ Len(l) \in 1..Len(l) /\ Len(l) - 1 \in 0..Len(l)
    BY <2>1
  <2>4. f[Len(l)] = f[Len(l) - 1] + l[Len(l)] /\ f[Len(l) - 1] \in Nat
    BY <2>1, <2>2, <2>3, SumsAre
  <2> QED
    BY <2>1, <2>2, <2>4
<1>2. ASSUME s = <<>> PROVE WholeBytes(s) = 0
  <2> DEFINE l == Wholes(s)
  <2>1. l \in Seq(Nat) /\ Len(l) = 0 /\ WholeBytes(s) = Total(l)
    BY <1>2, BytesAre
  <2> HIDE DEF l
  <2>2. PICK f : IsSums(f, l) /\ Total(l) = f[Len(l)]
    BY <2>1, TotalIs
  <2> QED
    BY <2>1, <2>2, SumsAre
<1> QED
  BY <1>1, <1>2

\* A piece more.
LEMMA WholeBytesAppend ==
    ASSUME NEW s \in Seq(Piece), NEW p \in Piece
    PROVE  WholeBytes(Append(s, p)) = WholeBytes(s) + (IF p.whole THEN p.len ELSE 0)
<1> DEFINE r == Append(s, p)
<1>1. /\ r \in Seq(Piece) /\ Len(r) = Len(s) + 1 /\ r[Len(s) + 1] = p
      /\ \A i \in 1..Len(s) : r[i] = s[i]
  BY AppendProperties
<1> HIDE DEF r
<1> DEFINE a == Wholes(s)
           b == Wholes(r)
<1>2. /\ a \in Seq(Nat) /\ Len(a) = Len(s) /\ WholeBytes(s) = Total(a) /\ Len(s) \in Nat
      /\ b \in Seq(Nat) /\ Len(b) = Len(s) + 1 /\ WholeBytes(r) = Total(b)
  BY <1>1, BytesAre
<1>3. \A i \in 1..Len(s) : a[i] = b[i]
  <2> TAKE i \in 1..Len(s)
  <2>1. i \in 1..Len(r)
    BY <1>1, <1>2
  <2>2. a[i] = (IF s[i].whole THEN s[i].len ELSE 0) /\ b[i] = (IF r[i].whole THEN r[i].len ELSE 0)
    BY <1>1, <2>1, BytesAre
  <2> QED
    BY <1>1, <2>2
<1>4. b[Len(s) + 1] = IF p.whole THEN p.len ELSE 0
  <2>1. Len(s) + 1 \in 1..Len(r)
    BY <1>1, <1>2
  <2> QED
    BY <1>1, <2>1, BytesAre
<1> HIDE DEF a, b
<1>5. Total(b) = Total(a) + b[Len(b)]
  BY <1>2, <1>3, TotalOfOneMore
<1> QED
  BY <1>2, <1>4, <1>5 DEF r

-----------------------------------------------------------------------------
(* What fits into a file.                                                  *)

OneWhole(s) == \A i, j \in DOMAIN s : s[i].whole /\ s[j].whole => i = j
Fits(s) == OneWhole(s) \/ WholeBytes(s) <= MaxSize

\* The size the sink goes by counts all messages log.txt has got as a whole; a
\* message that is to be written fits by it, or log.txt is empty.
SizeInv ==
    /\ new_size \in Nat /\ current_size_ \in Nat
    /\ \A n \in Indices : Fits(Contents[n])
    /\ WholeBytes(Contents[0]) <= current_size_
    /\ pc = "write" =>
          \/ WholeBytes(Contents[0]) + msg.len <= new_size /\ new_size <= MaxSize
          \/ Contents[0] = <<>> /\ msg.len <= new_size

\* s is t, or what is left of it when its end is lost.
Part(s, t) ==
    /\ s \in Seq(Piece) /\ t \in Seq(Piece)
    /\ Len(s) <= Len(t)
    /\ \A i \in 1..Len(s) : s[i] = t[i]

LEMMA PartsFit ==
    ASSUME NEW s, NEW t, Part(s, t)
    PROVE  WholeBytes(s) <= WholeBytes(t) /\ (Fits(t) => Fits(s))
<1>1. /\ s \in Seq(Piece) /\ t \in Seq(Piece) /\ Len(s) \in Nat /\ Len(t) \in Nat /\ Len(s) <= Len(t)
      /\ \A i \in 1..Len(s) : i \in 1..Len(t) /\ s[i] = t[i]
      /\ MaxSize \in Nat
  BY SizeAssumption DEF Part
<1>2. WholeBytes(s) <= WholeBytes(t)
  <2> DEFINE a == Wholes(s)
             b == Wholes(t)
  <2>1. /\ a \in Seq(Nat) /\ b \in Seq(Nat) /\ Len(a) = Len(s) /\ Len(b) = Len(t)
        /\ WholeBytes(s) = Total(a) /\ WholeBytes(t) = Total(b)
    BY <1>1, BytesAre
  <2>2. \A i \in 1..Len(s) : a[i] \in Nat /\ a[i] = b[i]
    <3> TAKE i \in 1..Len(s)
    <3>1. a[i] = (IF s[i].whole THEN s[i].len ELSE 0) /\ s[i].len \in Nat
      BY <1>1, BytesAre
    <3>2. b[i] = IF t[i].whole THEN t[i].len ELSE 0
      BY <1>1, BytesAre
    <3> QED
      BY <1>1, <3>1, <3>2
  <2> HIDE DEF a, b
  <2>3. \A i \in 1..Len(a) : a[i] <= b[i]
    BY <2>1, <2>2
  <2> QED
    BY <1>1, <2>1, <2>3, TotalOfMore
<1>3. ASSUME OneWhole(t) PROVE OneWhole(s)
  BY <1>1, <1>3 DEF OneWhole
<1>4. WholeBytes(s) \in Nat /\ WholeBytes(t) \in Nat
  BY <1>1, BytesAreNumbers
<1> QED
  BY <1>1, <1>2, <1>3, <1>4 DEF Fits

LEMMA PartsAre ==
    ASSUME NEW s \in Seq(Piece), NEW t \in Seq(Piece)
    PROVE  Part(s, s) /\ Part(<<>>, s) /\ Part(s, s \o t)
<1>1. Part(s, s) /\ Part(<<>>, s)
  BY DEF Part
<1>2. /\ s \o t \in Seq(Piece) /\ Len(s \o t) = Len(s) + Len(t) /\ Len(s) \in Nat /\ Len(t) \in Nat
      /\ \A i \in 1..Len(s) : (s \o t)[i] = s[i]
  BY ConcatProperties
<1> QED
  BY <1>1, <1>2 DEF Part

\* A piece that is not whole changes nothing, a whole one may fill the file.
LEMMA AppendFits ==
    ASSUME NEW s \in Seq(Piece), NEW p \in Piece
    PROVE  /\ ~p.whole /\ Fits(s) => Fits(Append(s, p))
           /\ s = <<>> => Fits(Append(s, p))
           /\ WholeBytes(s) + p.len <= MaxSize => Fits(Append(s, p))
<1> DEFINE r == Append(s, p)
<1>1. /\ r \in Seq(Piece) /\ Len(r) = Len(s) + 1 /\ r[Len(s) + 1] = p /\ Len(s) \in Nat
      /\ \A i \in 1..Len(s) : r[i] = s[i]
      /\ DOMAIN r = 1..Len(s) + 1 /\ DOMAIN s = 1..Len(s)
  BY AppendProperties
<1>2. WholeBytes(r) = WholeBytes(s) + (IF p.whole THEN p.len ELSE 0)
  BY WholeBytesAppend
<1> HIDE DEF r
<1>3. WholeBytes(s) \in Nat /\ p.len \in Nat
  BY BytesAreNumbers DEF Piece
<1>4. ASSUME ~p.whole, Fits(s) PROVE Fits(r)
  <2>1. ASSUME OneWhole(s) PROVE OneWhole(r)
    <3> SUFFICES ASSUME NEW i \in 1..Len(s) + 1, NEW j \in 1..Len(s) + 1, r[i].whole, r[j].whole
                 PROVE  i = j
      BY <1>1 DEF OneWhole
    <3>1. i \in 1..Len(s) /\ j \in 1..Len(s)
      BY <1>1, <1>4
    <3> QED
      BY <1>1, <2>1, <3>1 DEF OneWhole
  <2> QED
    BY <1>2, <1>3, <1>4, <2>1 DEF Fits
<1>5. ASSUME s = <<>> PROVE Fits(r)
  <2>1. DOMAIN r = 1..1
    BY <1>1, <1>5
  <2> QED
    BY <2>1 DEF Fits, OneWhole
<1>6. ASSUME WholeBytes(s) + p.len <= MaxSize PROVE Fits(r)
  BY <1>2, <1>3, <1>6, SizeAssumption DEF Fits
<1> QED
  BY <1>4, <1>5, <1>6 DEF r

-----------------------------------------------------------------------------
(* The steps: what the files hold is less, or a piece more.                *)

LEMMA ContentsAre ==
    ASSUME FilesInv
    PROVE  /\ \A n \in Indices : Contents[n] \in Seq(Piece) /\ files[n].data \in Seq(Piece)
           /\ Contents[0] = files[0].data \o buf /\ buf \in Seq(Piece) /\ 0 \in Indices
           /\ \A n \in Indices \ {0} : Contents[n] = files[n].data
           /\ buf = <<>> => Contents[0] = files[0].data
<1>1. /\ files \in [Indices -> FileState] /\ buf \in Seq(Piece) /\ 0 \in Indices
      /\ Contents = ContentsOf(files, buf)
  BY FilesFacts
<1>2. files[0].data \in Seq(Piece)
  BY <1>1, ContentsType
<1>3. files[0].data \o <<>> = files[0].data
  BY <1>2
<1> QED
  BY <1>1, <1>3, ContentsType

\* No file has got anything, log.txt has perhaps lost its end or everything.
OnlyLess ==
    /\ \A n \in Indices : \E k \in Indices : Part(Contents'[n], Contents[k])
    /\ Part(Contents'[0], Contents[0])

LEMMA SizeLess ==
    ASSUME FilesInv, FilesInv', SizeInv, OnlyLess,
           new_size' \in Nat, current_size_' \in Nat,
           current_size_' = current_size_ \/ WholeBytes(Contents'[0]) <= current_size_',
           pc' = "write" =>
              \/ WholeBytes(Contents'[0]) + msg'.len <= new_size' /\ new_size' <= MaxSize
              \/ Contents'[0] = <<>> /\ msg'.len <= new_size'
    PROVE  SizeInv'
<1>1. \A n \in Indices : Fits(Contents'[n])
  <2> TAKE n \in Indices
  <2>1. PICK k \in Indices : Part(Contents'[n], Contents[k])
    BY DEF OnlyLess
  <2> QED
    BY <2>1, PartsFit DEF SizeInv
<1>2. WholeBytes(Contents'[0]) <= WholeBytes(Contents[0])
  BY PartsFit DEF OnlyLess
<1>3. WholeBytes(Contents[0]) \in Nat /\ WholeBytes(Contents'[0]) \in Nat
  <2>1. Contents[0] \in Seq(Piece) /\ Contents'[0] \in Seq(Piece)
    BY DEF OnlyLess, Part
  <2> QED
    BY <2>1, BytesAreNumbers
<1>4. WholeBytes(Contents'[0]) <= current_size_'
  BY <1>2, <1>3 DEF SizeInv
<1> QED
  BY <1>1, <1>4 DEF SizeInv

LEMMA NothingLess ==
    ASSUME FilesInv, Contents' = Contents
    PROVE  OnlyLess
<1>1. \A n \in Indices : Part(Contents'[n], Contents[n])
  BY ContentsAre, PartsAre
<1>2. 0 \in Indices
  BY IndexIsNumber
<1> QED
  BY <1>1, <1>2 DEF OnlyLess

LEMMA FilesLess ==
    ASSUME FilesInv, FilesInv',
           \A n \in Indices \ {0} : \E k \in Indices : files'[n].data \in {<<>>, files[k].data},
           \/ files'[0].data = files[0].data /\ buf' \in {buf, <<>>}
           \/ files'[0].data = <<>> /\ buf' = <<>>
    PROVE  OnlyLess
<1>1. /\ \A n \in Indices : Contents[n] \in Seq(Piece) /\ files[n].data \in Seq(Piece)
      /\ Contents[0] = files[0].data \o buf /\ buf \in Seq(Piece) /\ 0 \in Indices
      /\ \A n \in Indices \ {0} : Contents[n] = files[n].data
      /\ buf = <<>> => Contents[0] = files[0].data
  BY ContentsAre
<1>2. /\ \A n \in Indices : Contents'[n] \in Seq(Piece)
      /\ Contents'[0] = files'[0].data \o buf'
      /\ \A n \in Indices \ {0} : Contents'[n] = files'[n].data
      /\ buf' = <<>> => Contents'[0] = files'[0].data
  <2>1. ASSUME NEW a, NEW b, a \in [Indices -> FileState], b \in Seq(Piece)
        PROVE  /\ \A n \in Indices : ContentsOf(a, b)[n] \in Seq(Piece)
               /\ ContentsOf(a, b)[0] = a[0].data \o b
               /\ \A n \in Indices \ {0} : ContentsOf(a, b)[n] = a[n].data
               /\ b = <<>> => ContentsOf(a, b)[0] = a[0].data
    <3>1. a[0].data \in Seq(Piece)
      BY <1>1, <2>1, ContentsType
    <3>2. a[0].data \o <<>> = a[0].data
      BY <3>1
    <3> QED
      BY <2>1, <3>2, ContentsType
  <2>2. files' \in [Indices -> FileState] /\ buf' \in Seq(Piece)
    BY DEF FilesInv, ShapeInv
  <2>3. Contents' = ContentsOf(files', buf')
    BY DEF Contents, ContentsOf
  <2>4. /\ \A n \in Indices : ContentsOf(files', buf')[n] \in Seq(Piece)
        /\ ContentsOf(files', buf')[0] = files'[0].data \o buf'
        /\ \A n \in Indices \ {0} : ContentsOf(files', buf')[n] = files'[n].data
        /\ buf' = <<>> => ContentsOf(files', buf')[0] = files'[0].data
    BY <2>1, <2>2
  <2> QED
    BY <2>3, <2>4
<1>3. \A k \in Indices : Part(files[k].data, Contents[k]) /\ Part(<<>>, Contents[k])
  <2> TAKE k \in Indices
  <2>1. CASE k = 0
    BY <1>1, <2>1, PartsAre
  <2>2. CASE k # 0
    BY <1>1, <2>2, PartsAre
  <2> QED
    BY <2>1, <2>2
<1>4. Part(Contents'[0], Contents[0])
  <2>1. CASE files'[0].data = files[0].data /\ buf' = buf
    <3>1. Contents'[0] = Contents[0]
      BY <1>1, <1>2, <2>1
    <3> QED
      BY <1>1, <3>1, PartsAre
  <2>2. CASE files'[0].data = files[0].data /\ buf' = <<>>
    BY <1>1, <1>2, <1>3, <2>2
  <2>3. CASE files'[0].data = <<>> /\ buf' = <<>>
    BY <1>1, <1>2, <1>3, <2>3
  <2> QED
    BY <2>1, <2>2, <2>3
<1>5. \A n \in Indices \ {0} : \E k \in Indices : Part(Contents'[n], Contents[k])
  BY <1>2, <1>3
<1> QED
  BY <1>1, <1>4, <1>5 DEF OnlyLess

LEMMA InitSize == Init => SizeInv
<1> SUFFICES ASSUME Init PROVE SizeInv
  OBVIOUS
<1>1. FilesInv
  BY InitFiles
<1>2. \A n \in Indices : files[n].data = <<>> /\ buf = <<>>
  BY DEF Init, NoFile
<1>3. \A n \in Indices : Contents[n] = <<>>
  BY <1>1, <1>2, ContentsAre
<1>4. 0 \in Indices /\ <<>> \in Seq(Piece)
  BY IndexIsNumber, NoPieces
<1>5. WholeBytes(<<>>) = 0
  BY <1>4, NoBytes
<1>6. Fits(<<>>)
  BY DEF Fits, OneWhole
<1> QED
  BY <1>3, <1>4, <1>5, <1>6 DEF SizeInv, Init

\* The constructor takes the size of the file.
LEMMA ConstructSize ==
    ASSUME FilesInv, FilesInv', SizeInv, NEW rotate_on_open, Construct(rotate_on_open)
    PROVE  SizeInv'
<1>1. /\ pc = "down" /\ current_size_' = Bytes(files[0].data) /\ new_size' = new_size
      /\ files' = [files EXCEPT ![0].exists = TRUE] /\ pc' # "write"
  BY DEF Construct, OpenedSize, message, Rotate, GoOn
<1>2. buf = <<>> /\ buf' = <<>>
  <2>1. buf = <<>>
    BY <1>1 DEF FilesInv, RotateInv, ShapeInv
  <2> QED
    BY <2>1 DEF Construct, Rotate
<1>3. /\ files \in [Indices -> FileState] /\ 0 \in Indices /\ files[0] \in FileState
  BY FilesFacts
<1>4. \A n \in Indices : files'[n].data = files[n].data
  <2>1. \A n \in Indices \ {0} : files'[n] = files[n]
    BY <1>1, <1>3
  <2>2. files'[0] = [files[0] EXCEPT !.exists = TRUE]
    BY <1>1, <1>3
  <2>3. files'[0].data = files[0].data
    BY <1>3, <2>2 DEF FileState
  <2> QED
    BY <2>1, <2>3
<1>5. OnlyLess
  BY <1>2, <1>3, <1>4, FilesLess
<1>6. Contents[0] = files[0].data /\ Contents[0] \in Seq(Piece) /\ Contents'[0] \in Seq(Piece)
  BY <1>2, <1>3, <1>5, ContentsAre DEF OnlyLess, Part
<1>7. /\ Bytes(Contents[0]) \in Nat /\ WholeBytes(Contents[0]) <= Bytes(Contents[0])
      /\ WholeBytes(Contents[0]) \in Nat /\ WholeBytes(Contents'[0]) \in Nat
      /\ WholeBytes(Contents'[0]) <= WholeBytes(Contents[0])
  BY <1>5, <1>6, BytesAreNumbers, PartsFit DEF OnlyLess
<1>8. WholeBytes(Contents'[0]) <= current_size_' /\ current_size_' \in Nat
  BY <1>1, <1>6, <1>7
<1> QED
  BY <1>1, <1>5, <1>8, SizeLess DEF SizeInv

\* A message is taken: it fits by current_size_, or log.txt holds nothing.
LEMMA TakeSize ==
    ASSUME FilesInv, FilesInv', SizeInv, NEW len \in Lengths,
           TakeFitting(len) \/ TakeExceeding(len) \/ TakeThrows(len)
    PROVE  SizeInv'
<1>1. /\ msg'.len = len /\ len \in Nat /\ new_size' = current_size_ + len /\ pc = "idle"
      /\ current_size_' = current_size_
  BY LengthAssumption DEF TakeFitting, TakeExceeding, TakeThrows, Take
<1>2. /\ new_size' \in Nat /\ current_size_' \in Nat /\ msg'.len <= new_size'
      /\ WholeBytes(Contents[0]) <= current_size_ /\ WholeBytes(Contents[0]) \in Nat
  BY <1>1, ContentsAre, BytesAreNumbers DEF SizeInv
<1>3. Contents' = Contents
  <2>1. CASE TakeFitting(len) \/ TakeThrows(len)
    BY <2>1 DEF TakeFitting, TakeThrows, stream, Contents
  <2>2. CASE TakeExceeding(len)
    <3>1. files' = Drained /\ buf' = <<>> /\ fd_ /\ files[0].exists /\ ShapeInv
      BY <2>2 DEF TakeExceeding, Rotate, FilesInv, ShapeInv
    <3>2. ContentsOf(Drained, <<>>) = Contents
      BY <3>1, DrainedFiles
    <3>3. Contents' = ContentsOf(files', buf')
      BY DEF Contents, ContentsOf
    <3> QED
      BY <3>1, <3>2, <3>3
  <2> QED
    BY <2>1, <2>2
<1>4. OnlyLess
  BY <1>3, NothingLess
<1>5. CASE TakeFitting(len)
  <2>1. new_size' <= MaxSize
    BY <1>1, <1>5 DEF TakeFitting
  <2>2. WholeBytes(Contents'[0]) + msg'.len <= new_size'
    BY <1>1, <1>2, <1>3
  <2> QED
    BY <1>1, <1>2, <1>4, <2>1, <2>2, SizeLess
<1>6. CASE TakeExceeding(len)
  <2>1. pc' = "write" => Contents'[0] = <<>>
    <3> SUFFICES ASSUME pc' = "write" PROVE Contents'[0] = <<>>
      OBVIOUS
    <3>1. files' = Drained /\ buf' = <<>> /\ ~(Bytes(Drained[0].data) > 0)
      BY <1>6 DEF TakeExceeding, Rotate, GoOn
    <3>2. Contents'[0] = files'[0].data /\ files'[0].data \in Seq(Piece)
      <4>1. files' \in [Indices -> FileState] /\ 0 \in Indices
        BY IndexIsNumber DEF FilesInv, ShapeInv
      <4>2. Contents' = ContentsOf(files', <<>>)
        BY <3>1 DEF Contents, ContentsOf
      <4> QED
        BY <4>1, <4>2, ContentsAlone
    <3>3. Bytes(files'[0].data) = 0
      BY <3>1, <3>2, BytesAreNumbers
    <3> QED
      BY <3>2, <3>3, NoBytes
  <2> QED
    BY <1>1, <1>2, <1>4, <2>1, SizeLess
<1>7. CASE TakeThrows(len)
  <2>1. pc' # "write"
    BY <1>1, <1>7 DEF TakeThrows
  <2> QED
    BY <1>1, <1>2, <1>4, <2>1, SizeLess
<1> QED
  BY <1>5, <1>6, <1>7

\* A piece goes to the stream.
LEMMA WriteSize ==
    ASSUME FilesInv, FilesInv', SizeInv, Write \/ WriteThrows
    PROVE  SizeInv'
<1>1. /\ pc = "write" /\ fd_ /\ pc' = "idle" /\ files' = files /\ new_size' = new_size
      /\ new_size \in Nat /\ current_size_ \in Nat
      /\ current_size_' \in {new_size, current_size_}
  BY DEF Write, WriteThrows, message, SizeInv
<1>2. msg.id \in 1..MaxMsgs /\ msg.len \in Nat \ {0}
  BY <1>1, BoundAssumption DEF FilesInv, ShapeInv, RotateInv, Busy
<1>3. /\ Contents[0] = files[0].data \o buf /\ buf \in Seq(Piece) /\ files[0].data \in Seq(Piece)
      /\ Contents[0] \in Seq(Piece) /\ 0 \in Indices
      /\ WholeBytes(Contents[0]) \in Nat /\ Fits(Contents[0])
      /\ WholeBytes(Contents[0]) <= current_size_
  BY ContentsAre, BytesAreNumbers DEF SizeInv
<1>4. CASE buf' = buf
  <2>1. OnlyLess
    BY <1>1, <1>4, FilesLess
  <2>2. Contents'[0] = Contents[0]
    BY <1>1, <1>4 DEF Contents
  <2>3. WriteThrows
    <3>1. Len(Append(buf, [id |-> msg.id, len |-> msg.len, whole |-> TRUE])) = Len(buf) + 1
          /\ Len(buf) \in Nat
      BY <1>3
    <3>2. Append(buf, [id |-> msg.id, len |-> msg.len, whole |-> TRUE]) # buf
      BY <3>1
    <3> QED
      BY <1>4, <3>2 DEF Write
  <2>4. current_size_' = current_size_
    BY <2>3 DEF WriteThrows
  <2> QED
    BY <1>1, <2>1, <2>4, SizeLess
<1>5. ASSUME NEW p \in Piece, buf' = Append(buf, p),
             WholeBytes(Contents[0]) + (IF p.whole THEN p.len ELSE 0) <= current_size_',
             Fits(Append(Contents[0], p))
      PROVE  SizeInv'
  <2>1. Contents'[0] = Append(Contents[0], p)
    <3>1. Contents'[0] = files[0].data \o Append(buf, p)
      BY <1>1, <1>3, <1>5 DEF Contents
    <3>2. files[0].data \o Append(buf, p) = Append(files[0].data \o buf, p)
      BY <1>3, AppendToConcat
    <3> QED
      BY <1>3, <3>1, <3>2
  <2>2. \A n \in Indices \ {0} : Contents'[n] = Contents[n]
    BY <1>1 DEF Contents
  <2>3. \A n \in Indices : Fits(Contents'[n])
    BY <1>3, <1>5, <2>1, <2>2 DEF SizeInv
  <2>4. WholeBytes(Contents'[0]) <= current_size_'
    BY <1>3, <1>5, <2>1, WholeBytesAppend
  <2> QED
    BY <1>1, <2>3, <2>4 DEF SizeInv
<1>6. CASE Write
  <2> DEFINE p == [id |-> msg.id, len |-> msg.len, whole |-> TRUE]
  <2>1. p \in Piece /\ p.whole /\ p.len = msg.len
    BY <1>2 DEF Piece
  <2>2. buf' = Append(buf, p) /\ current_size_' = new_size
    BY <1>6 DEF Write
  <2> HIDE DEF p
  <2>3. CASE WholeBytes(Contents[0]) + msg.len <= new_size /\ new_size <= MaxSize
    <3>1. WholeBytes(Contents[0]) + p.len <= MaxSize
      BY <1>1, <1>2, <1>3, <2>1, <2>3, SizeAssumption
    <3> QED
      BY <1>3, <1>5, <2>1, <2>2, <2>3, <3>1, AppendFits
  <2>4. CASE Contents[0] = <<>> /\ msg.len <= new_size
    <3>1. WholeBytes(Contents[0]) = 0
      BY <1>3, <2>4, NoBytes
    <3>2. WholeBytes(Contents[0]) + p.len <= current_size_'
      BY <1>1, <1>2, <2>1, <2>2, <2>4, <3>1
    <3> QED
      BY <1>3, <1>5, <2>1, <2>2, <2>4, <3>2, AppendFits
  <2> QED
    BY <1>1, <2>3, <2>4 DEF SizeInv
<1>7. CASE WriteThrows /\ buf' # buf
  <2>1. PICK len \in 1..msg.len - 1 :
           buf' = Append(buf, [id |-> msg.id, len |-> len, whole |-> FALSE])
    BY <1>7 DEF WriteThrows
  <2> DEFINE p == [id |-> msg.id, len |-> len, whole |-> FALSE]
  <2>2. p \in Piece /\ ~p.whole /\ buf' = Append(buf, p)
    BY <1>2, <2>1 DEF Piece
  <2>3. current_size_' = current_size_
    BY <1>7 DEF WriteThrows
  <2> HIDE DEF p
  <2>4. WholeBytes(Contents[0]) + (IF p.whole THEN p.len ELSE 0) <= current_size_'
    BY <1>3, <2>2, <2>3
  <2>5. Fits(Append(Contents[0], p))
    BY <1>3, <2>2, AppendFits
  <2> QED
    BY <1>5, <2>2, <2>4, <2>5
<1> QED
  BY <1>4, <1>6, <1>7

\* What neither takes nor writes a message.
LEMMA OtherSize ==
    ASSUME FilesInv, FilesInv', SizeInv,
           ProcessEnds \/ WriteToNull \/ Flush \/ RemoveTarget \/ Rename \/ RenameFails
    PROVE  SizeInv'
<1>1. new_size' = new_size /\ current_size_' = current_size_ /\ msg' = msg
  BY DEF ProcessEnds, WriteToNull, Flush, RemoveTarget, Rename, RenameFails, message
<1>2. CASE Flush
  <2>1. ShapeInv /\ files[0].exists /\ files' = Drained /\ buf' = <<>> /\ pc' = pc
    BY <1>2 DEF Flush, FilesInv, ShapeInv
  <2>2. ContentsOf(Drained, <<>>) = Contents
    BY <2>1, DrainedFiles
  <2>3. Contents' = ContentsOf(files', buf')
    BY DEF Contents, ContentsOf
  <2>4. Contents' = Contents
    BY <2>1, <2>2, <2>3
  <2> QED
    BY <1>1, <2>1, <2>4, NothingLess, SizeLess DEF SizeInv
<1>3. CASE ProcessEnds \/ WriteToNull \/ RenameFails
  <2>1. files' = files /\ buf' \in {buf, <<>>} /\ pc' # "write"
    BY <1>3 DEF ProcessEnds, WriteToNull, RenameFails, stream
  <2>2. OnlyLess
    BY <2>1, FilesLess
  <2> QED
    BY <1>1, <2>1, <2>2, SizeLess DEF SizeInv
<1>4. CASE RemoveTarget \/ Rename
  <2>1. pc \in {"remove", "rename"} /\ pc' # "write" /\ buf' = buf /\ ShapeInv /\ pc \in Rotating
    BY <1>4 DEF RemoveTarget, Rename, GoOn, stream, FilesInv, Rotating
  <2>2. buf = <<>> /\ files \in [Indices -> FileState] /\ 0 \in Indices
    BY <2>1, ClosedFacts, FilesFacts
  <2> DEFINE i == Round(round)
  <2>3. i \in 1..MaxFiles /\ i \in Indices /\ i - 1 \in Indices /\ i # 0 /\ i - 1 # i
    BY <2>1, RoundIs, SizeAssumption DEF Indices
  <2> HIDE DEF i
  <2>4. \/ files' = files
        \/ files' = [files EXCEPT ![i] = NoFile]
        \/ files' = [files EXCEPT ![i] = files[i - 1], ![i - 1] = NoFile]
    BY <1>4 DEF RemoveTarget, Rename, i
  <2>5. /\ \A n \in Indices \ {0} : \E k \in Indices : files'[n].data \in {<<>>, files[k].data}
        /\ files'[0].data \in {<<>>, files[0].data}
    <3>1. CASE files' = files
      BY <2>2, <3>1
    <3>2. CASE files' = [files EXCEPT ![i] = NoFile]
      <4>1. files'[i].data = <<>> /\ \A n \in Indices \ {i} : files'[n] = files[n]
        BY <2>2, <2>3, <3>2, NoFileIs
      <4> QED
        BY <2>2, <2>3, <4>1
    <3>3. CASE files' = [files EXCEPT ![i] = files[i - 1], ![i - 1] = NoFile]
      <4>1. /\ files'[i] = files[i - 1] /\ files'[i - 1].data = <<>>
            /\ \A n \in Indices \ {i, i - 1} : files'[n] = files[n]
        BY <2>2, <2>3, <3>3, NoFileIs
      <4> QED
        BY <2>2, <2>3, <4>1
    <3> QED
      BY <2>4, <3>1, <3>2, <3>3
  <2>6. OnlyLess
    BY <2>1, <2>2, <2>5, FilesLess
  <2> QED
    BY <1>1, <2>1, <2>6, SizeLess DEF SizeInv
<1> QED
  BY <1>2, <1>3, <1>4

\* log.txt is opened again, or not.
LEMMA OpenSize ==
    ASSUME FilesInv, FilesInv', SizeInv, Truncate \/ Reopen \/ ReopenThrows
    PROVE  SizeInv'
<1>1. /\ pc \in {"reopen", "truncate"} /\ pc \in Rotating /\ fd_ = FALSE /\ buf = <<>> /\ ShapeInv
      /\ 0 \in Indices
  BY ClosedFacts, IndexIsNumber DEF Truncate, Reopen, ReopenThrows, Rotating, FilesInv
<1>2. buf' = <<>>
  BY <1>1 DEF Truncate, Reopen, ReopenThrows, Throw
<1>3. /\ Emptied[0].data = <<>> /\ \A n \in Indices \ {0} : Emptied[n] = files[n]
  BY <1>1, EmptiedFiles
<1>4. files' \in {files, Emptied} /\ (pc' = "write" => files' = Emptied)
  BY DEF Truncate, Reopen, ReopenThrows, Throw
<1>5. OnlyLess
  <2>1. CASE files' = files
    BY <1>1, <1>2, <2>1, FilesLess
  <2>2. CASE files' = Emptied
    BY <1>2, <1>3, <2>2, FilesLess
  <2> QED
    BY <1>4, <2>1, <2>2
<1>6. files' = Emptied => Contents'[0] = <<>> /\ WholeBytes(Contents'[0]) = 0
  <2> SUFFICES ASSUME files' = Emptied
               PROVE  Contents'[0] = <<>> /\ WholeBytes(Contents'[0]) = 0
    OBVIOUS
  <2>1. Contents'[0] = <<>> \o <<>>
    BY <1>1, <1>2, <1>3 DEF Contents
  <2>2. Contents'[0] = <<>> /\ <<>> \in Seq(Piece)
    BY <2>1, NoPieces
  <2> QED
    BY <2>2, NoBytes
<1>7. /\ new_size' \in Nat /\ current_size_' \in Nat
      /\ current_size_' = current_size_ \/ (current_size_' = 0 /\ files' = Emptied)
      /\ pc' = "write" => new_size' = msg'.len
  <2>1. msg.len \in Nat
    BY <1>1 DEF ShapeInv
  <2> QED
    BY <2>1 DEF Truncate, Reopen, ReopenThrows, Throw, message, SizeInv
<1>8. pc' = "write" => Contents'[0] = <<>> /\ msg'.len <= new_size'
  BY <1>4, <1>6, <1>7
<1>9. current_size_' = current_size_ \/ WholeBytes(Contents'[0]) <= current_size_'
  BY <1>6, <1>7
<1> QED
  BY <1>5, <1>7, <1>8, <1>9, SizeLess

LEMMA StepSize == FilesInv /\ FilesInv' /\ SizeInv /\ [Next]_vars => SizeInv'
<1> SUFFICES ASSUME FilesInv, FilesInv', SizeInv, [Next]_vars PROVE SizeInv'
  OBVIOUS
<1>1. CASE UNCHANGED vars
  <2>1. Contents' = Contents
    BY <1>1 DEF vars, stream, Contents
  <2>2. /\ pc' = pc /\ msg' = msg /\ new_size' = new_size /\ current_size_' = current_size_
    BY <1>1 DEF vars, message
  <2> QED
    BY <2>1, <2>2, NothingLess, SizeLess DEF SizeInv
<1>2. ASSUME NEW rotate_on_open \in RotateOnOpen, Construct(rotate_on_open) PROVE SizeInv'
  BY <1>2, ConstructSize
<1>3. ASSUME NEW len \in Lengths, TakeFitting(len) \/ TakeExceeding(len) \/ TakeThrows(len)
      PROVE  SizeInv'
  BY <1>3, TakeSize
<1>4. CASE Write \/ WriteThrows
  BY <1>4, WriteSize
<1>5. CASE ProcessEnds \/ WriteToNull \/ Flush \/ RemoveTarget \/ Rename \/ RenameFails
  BY <1>5, OtherSize
<1>6. CASE Truncate \/ Reopen \/ ReopenThrows
  BY <1>6, OpenSize
<1> QED
  BY <1>1, <1>2, <1>3, <1>4, <1>5, <1>6 DEF Next, SinkIt

LEMMA SizeCorrect == Spec => []SizeInv
<1> QED
  BY FilesCorrect, InitSize, StepSize, PTL DEF Spec

\* The types, with those of the two sizes, which are sums over sequences
\* (rotating_file_sink-inl.h:37, 79).
THEOREM TypeCorrect == Spec => []TypeOK
<1>1. FilesInv /\ SizeInv => TypeOK
  BY DEF FilesInv, ShapeInv, SizeInv, TypeOK, Rotating, FileState
<1> QED
  BY <1>1, FilesCorrect, SizeCorrect, PTL

\* The messages a file has got as a whole fit into max_size, or there is only one
\* (rotating_file_sink-inl.h:79-94), over all failures and restarts.
THEOREM LimitCorrect == Spec => []WithinLimit
<1>1. SizeInv => WithinLimit
  BY DEF SizeInv, Fits, OneWhole, WithinLimit
<1> QED
  BY <1>1, SizeCorrect, PTL

-----------------------------------------------------------------------------
(* What is lost.                                                           *)

KeptOf(fs) == UNION {ToSet(fs[n].data) : n \in Indices}

\* Nothing is, when every file is still there under some name.
LEMMA NoneLost ==
    ASSUME NEW fs, \A n \in Indices : \E k \in Indices : ToSet(files[n].data) \subseteq ToSet(fs[k].data)
    PROVE  Kept \ KeptOf(fs) = {}
<1> SUFFICES ASSUME NEW p \in Kept PROVE p \in KeptOf(fs)
  OBVIOUS
<1>1. PICK n \in Indices : p \in ToSet(files[n].data)
  BY DEF Kept
<1>2. PICK k \in Indices : p \in ToSet(fs[k].data)
  BY <1>1
<1> QED
  BY <1>2 DEF KeptOf

\* A file is, of which no message is in another.
LEMMA OneLost ==
    ASSUME FilesInv, pc \in Rotating, NEW fs, NEW i \in Indices, fs[i].data = <<>>,
           \A n \in Indices \ {i} : fs[n].data = files[n].data,
           i = MaxFiles \/ files[i].data = <<>>
    PROVE  Kept \ KeptOf(fs) \in {{}, ToSet(files[MaxFiles].data)}
<1>1. CASE files[i].data = <<>>
  <2>1. \A n \in Indices : ToSet(files[n].data) \subseteq ToSet(fs[n].data)
    BY <1>1
  <2>2. Kept \ KeptOf(fs) = {}
    BY <2>1, NoneLost
  <2> QED
    BY <2>2
<1>2. CASE i = MaxFiles
  <2>1. /\ \A n \in Indices : files[n].data \in Seq(Piece) /\ Contents[n] = files[n].data
        /\ \A n, k \in Indices : n > k => Before(Contents[n], Contents[k])
    BY FilesFacts, ClosedFacts DEF OrderInv, Holding
  <2>2. \A n \in Indices \ {MaxFiles} : MaxFiles > n
    BY SizeAssumption DEF Indices
  <2>3. \A p \in ToSet(files[MaxFiles].data) : p.id \in Nat
    <3>1. \A p \in ToSet(files[MaxFiles].data) : p \in Piece
      BY <1>2, <2>1 DEF ToSet
    <3> QED
      BY <3>1, PieceNumber
  <2>4. ASSUME NEW p \in ToSet(files[MaxFiles].data) PROVE p \notin KeptOf(fs)
    <3> SUFFICES ASSUME NEW n \in Indices, p \in ToSet(fs[n].data) PROVE FALSE
      BY DEF KeptOf
    <3>1. CASE n = MaxFiles
      BY <1>2, <3>1, NoPieces
    <3>2. CASE n # MaxFiles
      <4>1. p \in ToSet(files[n].data) /\ Before(files[MaxFiles].data, files[n].data)
        BY <1>2, <2>1, <2>2, <3>2
      <4>2. p.id < p.id /\ p.id \in Nat
        BY <2>3, <2>4, <4>1 DEF Before
      <4> QED
        BY <4>2
    <3> QED
      BY <3>1, <3>2
  <2>5. ASSUME NEW p \in Kept, p \notin KeptOf(fs) PROVE p \in ToSet(files[MaxFiles].data)
    BY <1>2, <2>5 DEF Kept, KeptOf
  <2>6. ToSet(files[MaxFiles].data) \subseteq Kept
    BY <1>2 DEF Kept
  <2>7. Kept \ KeptOf(fs) = ToSet(files[MaxFiles].data)
    BY <2>4, <2>5, <2>6
  <2> QED
    BY <2>7
<1> QED
  BY <1>1, <1>2

LEMMA StepDropped ==
    ASSUME FilesInv, [Next]_vars, pc # "truncate"
    PROVE  Kept \ Kept' \in {{}, ToSet(files[MaxFiles].data)}
<1> DEFINE Goal == Kept \ Kept' \in {{}, ToSet(files[MaxFiles].data)}
<1>1. /\ ShapeInv /\ RotateInv /\ buf \in Seq(Piece) /\ 0 \in Indices
      /\ files \in [Indices -> FileState] /\ \A n \in Indices : files[n].data \in Seq(Piece)
      /\ \A n \in Indices : files[n].exists \/ files[n].data = <<>>
      /\ \A n \in Indices : files[n] \in FileState
  BY FilesFacts
<1>2. Kept' = KeptOf(files')
  BY DEF Kept, KeptOf
<1>3. ASSUME \A n \in Indices : \E k \in Indices : ToSet(files[n].data) \subseteq ToSet(files'[k].data)
      PROVE  Goal
  BY <1>2, <1>3, NoneLost
<1>4. ASSUME files' = files PROVE Goal
  BY <1>3, <1>4
<1>5. ASSUME files' = Drained PROVE Goal
  <2>1. \A n \in Indices : ToSet(files[n].data) \subseteq ToSet(Drained[n].data)
    <3>1. ToSet(files[0].data) \subseteq ToSet(files[0].data \o buf)
      BY <1>1, PiecesOfConcat
    <3>2. /\ Drained[0].data = files[0].data \o buf
          /\ \A n \in Indices \ {0} : Drained[n] = files[n]
      BY <1>1 DEF Drained, FileState
    <3> QED
      BY <3>1, <3>2
  <2> QED
    BY <1>3, <1>5, <2>1
<1>6. ASSUME files' = Emptied, pc = "reopen" PROVE Goal
  <2>1. pc \in Rotating /\ ~fd_
    BY <1>1, <1>6 DEF Rotating, RotateInv
  <2>2. Emptied[0].data = <<>> /\ \A n \in Indices \ {0} : Emptied[n] = files[n]
    BY <1>1, <2>1, EmptiedFiles
  <2>3. 0 = MaxFiles \/ files[0].data = <<>>
    BY <1>1, <1>6, IndexIsNumber DEF RotateInv
  <2>4. Kept \ KeptOf(Emptied) \in {{}, ToSet(files[MaxFiles].data)}
    BY <1>1, <2>1, <2>2, <2>3, OneLost
  <2> QED
    BY <1>2, <1>6, <2>4
<1>7. ASSUME NEW rotate_on_open, Construct(rotate_on_open) PROVE Goal
  <2>1. files' = [files EXCEPT ![0].exists = TRUE]
    BY <1>7 DEF Construct
  <2>2. \A n \in Indices : files'[n].data = files[n].data
    BY <1>1, <2>1 DEF FileState
  <2> QED
    BY <1>3, <2>2
<1>8. ASSUME NEW len, TakeFitting(len) \/ TakeExceeding(len) \/ TakeThrows(len) PROVE Goal
  BY <1>4, <1>5, <1>8 DEF TakeFitting, TakeExceeding, TakeThrows
<1>9. CASE ProcessEnds \/ Write \/ WriteThrows \/ WriteToNull \/ Flush \/ RenameFails
           \/ UNCHANGED vars
  BY <1>4, <1>5, <1>9 DEF ProcessEnds, Write, WriteThrows, WriteToNull, Flush, RenameFails, vars
\* In its first round rotate_ removes the oldest file, in the others none.
<1>10. CASE RemoveTarget
  <2> DEFINE i == Round(round)
             fs == [files EXCEPT ![i] = NoFile]
  <2>1. pc = "remove" /\ pc \in Rotating /\ (files' = files \/ files' = fs)
    BY <1>10 DEF RemoveTarget, Rotating
  <2>2. i \in Indices /\ (round = 1 => i = MaxFiles) /\ round \in 1..MaxFiles
    BY <1>1, <2>1, RoundIs
  <2>3. fs[i] = NoFile /\ \A n \in Indices \ {i} : fs[n] = files[n]
    BY <2>1, <2>2, FileRemoved
  <2>4. i = MaxFiles \/ files[i].data = <<>>
    <3>1. CASE round = 1
      BY <2>2, <3>1
    <3>2. CASE round > 1
      BY <1>1, <2>1, <2>2, <3>2 DEF RotateInv
    <3> QED
      BY <2>2, <3>1, <3>2
  <2> HIDE DEF fs, i
  <2>5. Kept \ KeptOf(fs) \in {{}, ToSet(files[MaxFiles].data)}
    BY <2>1, <2>2, <2>3, <2>4, OneLost, NoFileIs
  <2> QED
    BY <1>2, <1>4, <2>1, <2>5
<1>11. CASE Rename
  <2> DEFINE i == Round(round)
             fs == [files EXCEPT ![i] = files[i - 1], ![i - 1] = NoFile]
  <2>1. pc = "rename" /\ pc \in Rotating /\ ~files[i].exists /\ files' = fs
    BY <1>11 DEF Rename, Rotating
  <2>2. i \in 1..MaxFiles /\ i \in Indices /\ i - 1 \in Indices
    BY <1>1, <2>1, RoundIs
  <2>3. fs[i] = files[i - 1] /\ \A n \in Indices \ {i, i - 1} : fs[n] = files[n]
    BY <2>1, <2>2, FileRenamed
  <2>4. files[i].data = <<>>
    BY <1>1, <2>1, <2>2
  <2> HIDE DEF fs, i
  <2>5. ASSUME NEW n \in Indices
        PROVE  \E k \in Indices : ToSet(files[n].data) \subseteq ToSet(files'[k].data)
    <3>1. CASE n = i
      BY <2>2, <2>4, <3>1, NoPieces
    <3>2. CASE n = i - 1
      BY <2>1, <2>2, <2>3, <3>2
    <3>3. CASE n \notin {i, i - 1}
      BY <2>1, <2>3, <3>3
    <3> QED
      BY <3>1, <3>2, <3>3
  <2> QED
    BY <1>3, <2>5
<1>12. CASE Truncate \/ Reopen \/ ReopenThrows
  BY <1>4, <1>6, <1>12 DEF Truncate, Reopen, ReopenThrows
<1> QED
  BY <1>7, <1>8, <1>9, <1>10, <1>11, <1>12 DEF Next, SinkIt

\* After a failed rename log.txt is emptied and no other file is.
LEMMA StepTruncates ==
    ASSUME FilesInv, [Next]_vars, pc = "truncate"
    PROVE  Kept \ Kept' \subseteq ToSet(files[0].data)
<1>1. files \in [Indices -> FileState]
  BY FilesFacts
<1>2. ASSUME \A n \in Indices \ {0} : files'[n] = files[n]
      PROVE  Kept \ Kept' \subseteq ToSet(files[0].data)
  BY <1>2 DEF Kept
<1>3. CASE files' = files
  BY <1>2, <1>3
<1>4. CASE files' = Emptied
  <2>1. \A n \in Indices \ {0} : Emptied[n] = files[n]
    BY <1>1 DEF Emptied
  <2> QED
    BY <1>2, <1>4, <2>1
<1>5. files' = files \/ files' = Emptied
  BY DEF Next, SinkIt, vars, Construct, ProcessEnds, TakeFitting, TakeExceeding, TakeThrows, Take,
         Write, WriteThrows, WriteToNull, Flush, RemoveTarget, Rename, RenameFails, Truncate,
         Reopen, ReopenThrows
<1> QED
  BY <1>3, <1>4, <1>5

\* What has reached a file is lost only as a whole file log.<max_files>.txt
\* (rotating_file_sink-inl.h:107), or from log.txt after a failed rename (line 132).
THEOREM DropCorrect == Spec => OnlyOldestDropped
<1>1. FilesInv /\ [Next]_vars =>
        [\/ Kept \ Kept' \in {{}, ToSet(files[MaxFiles].data)}
         \/ pc = "truncate" /\ Kept \ Kept' \subseteq ToSet(files[0].data)]_vars
  BY StepDropped, StepTruncates
<1> QED
  BY <1>1, FilesCorrect, PTL DEF Spec, OnlyOldestDropped
=============================================================================
