----------------------- MODULE PatternFormatterProofs -----------------------
(***************************************************************************)
(* Proofs about PatternFormatter: what is shown of a message, with the     *)
(* caches of the time, for every pattern and every message.                *)
(***************************************************************************)
EXTENDS PatternFormatter, SequenceTheorems, FiniteSetTheorems, WellFoundedInduction, TLAPS

-----------------------------------------------------------------------------
(* Counting.  The induction theorems of the library have an operator as a  *)
(* parameter, which no prover instantiates: these state the set instead.   *)

\* Every set of natural numbers has a least one.
LEMMA LeastNumber ==
    ASSUME NEW T \in SUBSET Nat, T # {}
    PROVE  \E x \in T : \A y \in T : x <= y
<1> DEFINE U == {0..x : x \in T}
<1>1. IsWellFoundedOn(StrictSubsetOrdering(Nat), FiniteSubsetsOf(Nat))
  BY FS_StrictSubsetOrderingWellFounded
<1>2. U \subseteq FiniteSubsetsOf(Nat) /\ U # {}
  <2>1. \A x \in T : 0..x \in SUBSET Nat /\ IsFiniteSet(0..x)
    BY FS_Interval
  <2> QED
    BY <2>1 DEF FiniteSubsetsOf
<1>3. PICK u \in U : \A v \in U : ~(<<v, u>> \in StrictSubsetOrdering(Nat))
  <2> HIDE DEF U
  <2> QED
    BY <1>1, <1>2, WFMin
<1>4. PICK x \in T : u = 0..x
  OBVIOUS
<1>5. ASSUME NEW y \in T, y < x PROVE FALSE
  <2>1. /\ 0..y \subseteq 0..x /\ x \in 0..x /\ x \notin 0..y
        /\ 0..y \in SUBSET Nat /\ 0..x \in SUBSET Nat
    BY <1>5
  <2>2. <<0..y, u>> \in StrictSubsetOrdering(Nat)
    BY <2>1, <1>4 DEF StrictSubsetOrdering
  <2> QED
    BY <1>3, <2>2
<1> QED
  BY <1>5

\* Induction, for the numbers up to n that are in a set.
LEMMA CountedUp ==
    ASSUME NEW S, NEW n \in Nat, 0 \in S, \A k \in 0..n - 1 : k \in S => k + 1 \in S
    PROVE  \A k \in 0..n : k \in S
<1> DEFINE T == {k \in 0..n : k \notin S}
<1> SUFFICES ASSUME T # {} PROVE FALSE
  OBVIOUS
<1>1. PICK x \in T : \A y \in T : x <= y
  <2>1. T \in SUBSET Nat
    OBVIOUS
  <2> HIDE DEF T
  <2> QED
    BY <2>1, LeastNumber
<1>2. x \in 0..n /\ x \notin S /\ x # 0
  BY <1>1
<1>3. x - 1 \in 0..n - 1 /\ x - 1 \notin T
  BY <1>1, <1>2
<1>4. x - 1 \in S
  BY <1>2, <1>3
<1>5. (x - 1) + 1 \in S
  BY <1>3, <1>4
<1> QED
  BY <1>2, <1>5

\* Induction from n down to 1.
LEMMA CountedDown ==
    ASSUME NEW S, NEW n \in Nat,
           \A k \in 1..n : (\A j \in k + 1..n : j \in S) => k \in S
    PROVE  \A k \in 1..n : k \in S
<1> DEFINE T == {k \in 0..n : n - k \in 1..n /\ n - k \notin S}
<1> SUFFICES ASSUME NEW j \in 1..n, j \notin S PROVE FALSE
  OBVIOUS
<1>1. n - j \in T
  <2>1. n - (n - j) = j
    OBVIOUS
  <2> QED
    BY <2>1
<1>2. PICK x \in T : \A y \in T : x <= y
  <2>1. T \in SUBSET Nat
    OBVIOUS
  <2> HIDE DEF T
  <2> QED
    BY <1>1, <2>1, LeastNumber
<1>3. ASSUME NEW i \in n - x + 1..n PROVE i \in S
  <2>1. n - i \in 0..n /\ n - i < x /\ n - (n - i) = i /\ i \in 1..n
    BY <1>2
  <2>2. n - i \notin T
    BY <1>2, <2>1
  <2> QED
    BY <2>1, <2>2
<1>4. n - x \in 1..n /\ n - x \notin S
  BY <1>2
<1> QED
  BY <1>3, <1>4

-----------------------------------------------------------------------------
(* Chains: sequences made of a piece and of what a later place has.        *)

IsChain(f, n, ends, piece, jump) ==
    f = [i \in 1..n |-> IF i \in ends THEN <<>> ELSE piece[i] \o f[jump[i]]]

LEMMA ChainExists ==
    ASSUME NEW n \in Nat, NEW ends, NEW piece, NEW jump,
           \A i \in 1..n \ ends : jump[i] \in i + 1..n
    PROVE  \E f : IsChain(f, n, ends, piece, jump)
<1> DEFINE Body(f, i) == IF i \in ends THEN <<>> ELSE piece[i] \o f[jump[i]]
           Down(k) == \E f : f = [i \in k..n |-> Body(f, i)]
           S == {k \in 1..n + 1 : Down(k)}
<1>1. n + 1 \in S
  <2> DEFINE f == [i \in n + 1..n |-> <<>>]
  <2>1. \A i \in n + 1..n : FALSE
    OBVIOUS
  <2>2. f = [i \in n + 1..n |-> Body(f, i)]
    <3> HIDE DEF Body
    <3> QED
      BY <2>1
  <2>3. Down(n + 1)
    <3> HIDE DEF f, Body
    <3> QED
      BY <2>2
  <2>4. n + 1 \in 1..n + 1
    OBVIOUS
  <2> HIDE DEF Down
  <2> QED
    BY <2>3, <2>4
<1>2. ASSUME NEW k \in 1..n, k + 1 \in S PROVE k \in S
  <2>1. PICK f : f = [i \in k + 1..n |-> Body(f, i)]
    BY <1>2
  <2> DEFINE g == [i \in k..n |-> IF i = k THEN Body(f, k) ELSE f[i]]
  <2>2. g[k] = Body(f, k) /\ \A i \in k + 1..n : g[i] = f[i]
    <3> HIDE DEF Body
    <3>1. k \in k..n /\ \A i \in k + 1..n : i \in k..n /\ i # k
      OBVIOUS
    <3> QED
      BY <3>1
  <2>3. \A i \in k..n : Body(g, i) = Body(f, i)
    <3> TAKE i \in k..n
    <3>1. i \in 1..n
      OBVIOUS
    <3>2. CASE i \in ends
      BY <3>2
    <3>3. CASE i \notin ends
      <4>1. jump[i] \in k + 1..n
        BY <3>1, <3>3
      <4>2. g[jump[i]] = f[jump[i]]
        BY <2>2, <4>1
      <4> HIDE DEF g
      <4> QED
        BY <4>2
    <3> QED
      BY <3>2, <3>3
  <2>4. \A i \in k + 1..n : f[i] = Body(f, i)
    <3> HIDE DEF Body
    <3> QED
      BY <2>1
  <2>5. g = [i \in k..n |-> Body(g, i)]
    <3>1. g = [i \in k..n |-> g[i]]
      OBVIOUS
    <3>2. \A i \in k..n : g[i] = Body(g, i)
      <4> HIDE DEF g, Body
      <4> QED
        BY <2>2, <2>3, <2>4
    <3> HIDE DEF g, Body
    <3> QED
      BY <3>1, <3>2
  <2>6. Down(k)
    <3> HIDE DEF g, Body
    <3> QED
      BY <2>5
  <2>7. k \in 1..n + 1
    OBVIOUS
  <2> HIDE DEF Down
  <2> QED
    BY <2>6, <2>7
<1>3. \A k \in 1..n + 1 : (\A j \in k + 1..n + 1 : j \in S) => k \in S
  <2> TAKE k \in 1..n + 1
  <2> HAVE \A j \in k + 1..n + 1 : j \in S
  <2>1. k = n + 1 \/ (k \in 1..n /\ k + 1 \in k + 1..n + 1)
    OBVIOUS
  <2> HIDE DEF S
  <2> QED
    BY <1>1, <1>2, <2>1
<1>4. 1 \in S
  <2> HIDE DEF S
  <2>1. n + 1 \in Nat /\ 1 \in 1..n + 1
    OBVIOUS
  <2>2. \A k \in 1..n + 1 : k \in S
    BY <1>3, <2>1, CountedDown
  <2> QED
    BY <2>1, <2>2
<1> QED
  BY <1>4 DEF IsChain

LEMMA ChainIs ==
    ASSUME NEW n \in Nat, NEW ends, NEW piece, NEW jump, NEW f, NEW T,
           IsChain(f, n, ends, piece, jump),
           \A i \in 1..n \ ends : jump[i] \in i + 1..n /\ piece[i] \in Seq(T)
    PROVE  /\ \A i \in 1..n \cap ends : f[i] = <<>>
           /\ \A i \in 1..n \ ends : f[i] = piece[i] \o f[jump[i]]
           /\ \A i \in 1..n : f[i] \in Seq(T)
<1>1. \A i \in 1..n : f[i] = IF i \in ends THEN <<>> ELSE piece[i] \o f[jump[i]]
  BY DEF IsChain
<1> DEFINE S == {i \in 1..n : f[i] \in Seq(T)}
<1>2. ASSUME NEW k \in 1..n, \A j \in k + 1..n : j \in S PROVE k \in S
  <2>1. CASE k \in ends
    BY <1>1, <2>1, EmptySeq
  <2>2. CASE k \notin ends
    <3>1. f[k] = piece[k] \o f[jump[k]] /\ jump[k] \in k + 1..n /\ piece[k] \in Seq(T)
      BY <1>1, <2>2
    <3>2. f[jump[k]] \in Seq(T)
      BY <1>2, <3>1
    <3> DEFINE a == piece[k]
               b == f[jump[k]]
    <3>3. a \in Seq(T) /\ b \in Seq(T) /\ f[k] = a \o b
      BY <3>1, <3>2
    <3> HIDE DEF a, b
    <3>4. a \o b \in Seq(T)
      BY <3>3, ConcatProperties
    <3> QED
      BY <3>3, <3>4
  <2> QED
    BY <2>1, <2>2
<1>3. \A k \in 1..n : k \in S
  <2> HIDE DEF S
  <2> QED
    BY <1>2, CountedDown
<1> QED
  BY <1>1, <1>3

\* What Joined is made of: f[i] joins the sequences from the i-th on.
IsFrom(f, seqs) ==
    f = [i \in 1..Len(seqs) + 1 |-> IF i > Len(seqs) THEN <<>> ELSE seqs[i] \o f[i + 1]]

LEMMA FromExists ==
    ASSUME NEW T, NEW s \in Seq(Seq(T))
    PROVE  \E f : IsFrom(f, s)
<1> DEFINE n == Len(s) + 1
           jump == [i \in 1..n |-> i + 1]
<1>1. n \in Nat /\ Len(s) \in Nat
  OBVIOUS
<1>2. \A i \in 1..n \ {n} : jump[i] \in i + 1..n
  BY <1>1
<1>3. PICK f : IsChain(f, n, {n}, s, jump)
  <2> HIDE DEF n, jump
  <2> QED
    BY <1>1, <1>2, ChainExists
<1>4. \A i \in 1..n : (IF i \in {n} THEN <<>> ELSE s[i] \o f[jump[i]])
                     = (IF i > Len(s) THEN <<>> ELSE s[i] \o f[i + 1])
  BY <1>1
<1>5. IsFrom(f, s)
  BY <1>3, <1>4 DEF IsChain, IsFrom
<1> QED
  BY <1>5

LEMMA FromIs ==
    ASSUME NEW T, NEW s \in Seq(Seq(T)), NEW f, IsFrom(f, s)
    PROVE  /\ f[Len(s) + 1] = <<>>
           /\ \A i \in 1..Len(s) : f[i] = s[i] \o f[i + 1]
           /\ \A i \in 1..Len(s) + 1 : f[i] \in Seq(T)
<1> DEFINE n == Len(s) + 1
           jump == [i \in 1..n |-> i + 1]
<1>1. n \in Nat /\ Len(s) \in Nat /\ \A i \in 1..Len(s) : s[i] \in Seq(T)
  OBVIOUS
<1>2. \A i \in 1..n \ {n} : i \in 1..Len(s) /\ jump[i] = i + 1 /\ jump[i] \in i + 1..n
  BY <1>1
<1>3. \A i \in 1..n : (IF i \in {n} THEN <<>> ELSE s[i] \o f[jump[i]])
                     = (IF i > Len(s) THEN <<>> ELSE s[i] \o f[i + 1])
  BY <1>1
<1>4. IsChain(f, n, {n}, s, jump)
  BY <1>3 DEF IsChain, IsFrom
<1>5. /\ \A i \in 1..n \cap {n} : f[i] = <<>>
      /\ \A i \in 1..n \ {n} : f[i] = s[i] \o f[jump[i]]
      /\ \A i \in 1..n : f[i] \in Seq(T)
  <2> HIDE DEF n, jump
  <2> QED
    BY <1>1, <1>2, <1>4, ChainIs
<1>6. n \in 1..n \cap {n} /\ \A i \in 1..Len(s) : i \in 1..n \ {n} /\ jump[i] = i + 1
  BY <1>1
<1> HIDE DEF jump
<1> QED
  BY <1>5, <1>6

\* f[i] joins the sequences of s from the i-th on.
JoinsFrom(f, s, T) ==
    /\ f[Len(s) + 1] = <<>>
    /\ \A i \in 1..Len(s) : f[i] = s[i] \o f[i + 1]
    /\ \A i \in 1..Len(s) + 1 : f[i] \in Seq(T)

LEMMA JoinedIs ==
    ASSUME NEW T, NEW s \in Seq(Seq(T))
    PROVE  \E f : JoinsFrom(f, s, T) /\ Joined(s) = f[1]
<1> DEFINE F == CHOOSE f : IsFrom(f, s)
<1>1. IsFrom(F, s)
  BY FromExists
<1>2. Joined(s) = F[1]
  BY DEF Joined, IsFrom
<1> HIDE DEF F
<1>3. JoinsFrom(F, s, T)
  BY <1>1, FromIs DEF JoinsFrom
<1> QED
  BY <1>2, <1>3

LEMMA JoinedType ==
    ASSUME NEW T, NEW s \in Seq(Seq(T))
    PROVE  Joined(s) \in Seq(T)
<1>1. PICK f : JoinsFrom(f, s, T) /\ Joined(s) = f[1]
  BY JoinedIs
<1>2. 1 \in 1..Len(s) + 1
  OBVIOUS
<1>3. \A i \in 1..Len(s) + 1 : f[i] \in Seq(T)
  BY <1>1 DEF JoinsFrom
<1>4. f[1] \in Seq(T)
  BY <1>2, <1>3
<1> QED
  BY <1>1, <1>4

LEMMA JoinedNone == Joined(<<>>) = <<>>
<1>1. <<>> \in Seq(Seq(Chars)) /\ Len(<<>>) = 0
  OBVIOUS
<1>2. PICK f : JoinsFrom(f, <<>>, Chars) /\ Joined(<<>>) = f[1]
  BY <1>1, JoinedIs
<1>3. f[0 + 1] = <<>>
  BY <1>1, <1>2 DEF JoinsFrom
<1> QED
  BY <1>2, <1>3

\* Three sequences are joined in any order.
ThreeInTurn(a, b, c) == (a \o b) \o c = a \o (b \o c)

LEMMA InThree ==
    ASSUME NEW S, NEW a \in Seq(S), NEW b \in Seq(S), NEW c \in Seq(S)
    PROVE  ThreeInTurn(a, b, c)
  BY ConcatAssociative DEF ThreeInTurn

LEMMA JoinedConcat ==
    ASSUME NEW T, NEW s \in Seq(Seq(T)), NEW t \in Seq(Seq(T))
    PROVE  Joined(s \o t) = Joined(s) \o Joined(t)
<1> DEFINE u == s \o t
           n == Len(s)
           l == Len(t)
<1>1. /\ u \in Seq(Seq(T)) /\ Len(u) = n + l /\ n \in Nat /\ l \in Nat
      /\ \A i \in 1..n : u[i] = s[i] /\ s[i] \in Seq(T)
      /\ \A j \in 1..l : u[n + j] = t[j] /\ t[j] \in Seq(T)
  <2>1. /\ u \in Seq(Seq(T)) /\ Len(u) = n + l /\ n \in Nat /\ l \in Nat
        /\ \A i \in 1..n + l : u[i] = IF i <= n THEN s[i] ELSE t[i - n]
    BY ConcatProperties
  <2>2. \A j \in 1..l : n + j \in 1..n + l /\ ~(n + j <= n) /\ (n + j) - n = j
    BY <2>1
  <2> QED
    BY <2>1, <2>2
<1> HIDE DEF u
<1>2. PICK f : JoinsFrom(f, s, T) /\ Joined(s) = f[1]
  BY JoinedIs
<1>3. PICK g : JoinsFrom(g, t, T) /\ Joined(t) = g[1]
  BY JoinedIs
<1>4. PICK h : JoinsFrom(h, u, T) /\ Joined(u) = h[1]
  BY <1>1, JoinedIs
<1>5. /\ f[n + 1] = <<>>
      /\ \A i \in 1..n : f[i] = s[i] \o f[i + 1]
      /\ \A i \in 1..n + 1 : f[i] \in Seq(T)
  BY <1>2 DEF JoinsFrom
<1>6. /\ g[l + 1] = <<>>
      /\ \A i \in 1..l : g[i] = t[i] \o g[i + 1]
      /\ \A i \in 1..l + 1 : g[i] \in Seq(T)
  BY <1>3 DEF JoinsFrom
<1>7. /\ h[n + l + 1] = <<>>
      /\ \A i \in 1..n + l : h[i] = u[i] \o h[i + 1]
      /\ \A i \in 1..n + l + 1 : h[i] \in Seq(T)
  <2>1. /\ h[Len(u) + 1] = <<>>
        /\ \A i \in 1..Len(u) : h[i] = u[i] \o h[i + 1]
        /\ \A i \in 1..Len(u) + 1 : h[i] \in Seq(T)
    BY <1>4 DEF JoinsFrom
  <2> HIDE DEF n, l
  <2> QED
    BY <1>1, <2>1
<1> HIDE DEF n, l
<1>8. \A j \in 1..l + 1 : h[n + j] = g[j]
  <2> DEFINE S == {j \in 1..l + 1 : h[n + j] = g[j]}
  <2>1. ASSUME NEW k \in 1..l + 1, \A j \in k + 1..l + 1 : j \in S PROVE k \in S
    <3>1. CASE k = l + 1
      <4>1. n + k = n + l + 1
        BY <1>1, <3>1
      <4> QED
        BY <1>6, <1>7, <3>1, <4>1
    <3>2. CASE k # l + 1
      <4>1. /\ k \in 1..l /\ k + 1 \in k + 1..l + 1 /\ n + k \in 1..n + l
            /\ (n + k) + 1 = n + (k + 1)
        BY <1>1, <3>2
      <4>2. h[n + k] = u[n + k] \o h[n + (k + 1)] /\ u[n + k] = t[k] /\ g[k] = t[k] \o g[k + 1]
        BY <1>1, <1>6, <1>7, <4>1
      <4>3. h[n + (k + 1)] = g[k + 1]
        BY <2>1, <4>1
      <4> QED
        BY <4>2, <4>3
    <3> QED
      BY <3>1, <3>2
  <2>2. \A k \in 1..l + 1 : k \in S
    <3>1. l + 1 \in Nat
      BY <1>1
    <3> HIDE DEF S
    <3> QED
      BY <2>1, <3>1, CountedDown
  <2> QED
    BY <2>2
<1>9. \A i \in 1..n + 1 : h[i] = f[i] \o g[1]
  <2> DEFINE S == {i \in 1..n + 1 : h[i] = f[i] \o g[1]}
  <2>0. 1 \in 1..l + 1 /\ g[1] \in Seq(T)
    BY <1>1, <1>6
  <2>1. ASSUME NEW k \in 1..n + 1, \A j \in k + 1..n + 1 : j \in S PROVE k \in S
    <3>1. CASE k = n + 1
      <4>1. h[n + 1] = g[1]
        BY <1>8, <2>0
      <4>2. <<>> \o g[1] = g[1]
        BY <2>0, ConcatEmptySeq
      <4> QED
        BY <1>5, <3>1, <4>1, <4>2
    <3>2. CASE k # n + 1
      <4>1. k \in 1..n /\ k + 1 \in k + 1..n + 1 /\ k \in 1..n + l /\ k + 1 \in 1..n + 1
        BY <1>1, <3>2
      <4>2. h[k] = s[k] \o h[k + 1] /\ f[k] = s[k] \o f[k + 1] /\ h[k + 1] = f[k + 1] \o g[1]
        BY <1>1, <1>5, <1>7, <2>1, <4>1
      <4> DEFINE x == s[k]
                 y == f[k + 1]
                 z == g[1]
      <4>3. x \in Seq(T) /\ y \in Seq(T) /\ z \in Seq(T)
        BY <1>1, <1>5, <2>0, <4>1
      <4>4. (x \o y) \o z = x \o (y \o z)
        <5> HIDE DEF x, y, z
        <5>1. ThreeInTurn(x, y, z)
          BY <4>3, InThree
        <5> QED
          BY <5>1 DEF ThreeInTurn
      <4> QED
        BY <4>2, <4>4
    <3> QED
      BY <3>1, <3>2
  <2>2. \A k \in 1..n + 1 : k \in S
    <3>1. n + 1 \in Nat
      BY <1>1
    <3> HIDE DEF S
    <3> QED
      BY <2>1, <3>1, CountedDown
  <2> QED
    BY <2>2
<1>10. 1 \in 1..n + 1
  BY <1>1
<1> QED
  BY <1>2, <1>3, <1>4, <1>9, <1>10 DEF u

LEMMA JoinedOne ==
    ASSUME NEW T, NEW x \in Seq(T)
    PROVE  Joined(<<x>>) = x
<1> DEFINE s == <<x>>
<1>1. s \in Seq(Seq(T)) /\ Len(s) = 1 /\ s[1] = x
  OBVIOUS
<1> HIDE DEF s
<1>2. PICK f : JoinsFrom(f, s, T) /\ Joined(s) = f[1]
  BY <1>1, JoinedIs
<1>3. 1 \in 1..Len(s) /\ 1 + 1 = Len(s) + 1
  BY <1>1
<1>4. f[1] = s[1] \o f[1 + 1] /\ f[1 + 1] = <<>>
  <2>1. f[Len(s) + 1] = <<>> /\ \A i \in 1..Len(s) : f[i] = s[i] \o f[i + 1]
    BY <1>2 DEF JoinsFrom
  <2> QED
    BY <1>3, <2>1
<1>5. x \o <<>> = x
  BY ConcatEmptySeq
<1> QED
  BY <1>1, <1>2, <1>4, <1>5 DEF s

-----------------------------------------------------------------------------
(* Functions that count up, each value made of the one before.             *)

IsUp(f, n, V, c, step) ==
    /\ f \in [0..n -> V]
    /\ f[0] = c
    /\ \A i \in 1..n : f[i] = step[<<i, f[i - 1]>>]

LEMMA UpExists ==
    ASSUME NEW n \in Nat, NEW V, NEW c \in V, NEW step,
           \A i \in 1..n : \A v \in V : step[<<i, v>>] \in V
    PROVE  \E f : IsUp(f, n, V, c, step)
<1> DEFINE Up(k, f) == f[0] = c /\ \A i \in 1..k : f[i] = step[<<i, f[i - 1]>>]
           S == {k \in 0..n : \E f \in [0..k -> V] : Up(k, f)}
<1>1. 0 \in S
  <2> DEFINE f == [i \in 0..0 |-> c]
  <2>1. f \in [0..0 -> V] /\ Up(0, f)
    OBVIOUS
  <2> HIDE DEF f, Up
  <2> QED
    BY <2>1
<1>2. ASSUME NEW k \in 0..n - 1, k \in S PROVE k + 1 \in S
  <2>1. PICK f \in [0..k -> V] : Up(k, f)
    BY <1>2
  <2> DEFINE g == [i \in 0..k + 1 |-> IF i = k + 1 THEN step[<<k + 1, f[k]>>] ELSE f[i]]
  <2>2. k \in 0..k /\ k + 1 \in 1..n /\ k + 1 \in 0..n /\ k \in Nat
    OBVIOUS
  <2>3. f[k] \in V /\ step[<<k + 1, f[k]>>] \in V
    BY <2>2
  <2>4. g \in [0..k + 1 -> V]
    BY <2>2, <2>3
  <2>5. /\ \A i \in 0..k : g[i] = f[i]
        /\ g[k + 1] = step[<<k + 1, f[k]>>]
    BY <2>2
  <2> HIDE DEF g
  <2>6. g[0] = c
    <3>1. 0 \in 0..k
      BY <2>2
    <3> QED
      BY <2>1, <2>5, <3>1
  <2>7. ASSUME NEW i \in 1..k + 1 PROVE g[i] = step[<<i, g[i - 1]>>]
    <3>1. CASE i = k + 1
      <4>1. i - 1 = k /\ g[i - 1] = f[k]
        BY <2>2, <2>5, <3>1
      <4> QED
        BY <2>5, <3>1, <4>1
    <3>2. CASE i # k + 1
      <4>1. i \in 1..k /\ i \in 0..k /\ i - 1 \in 0..k
        BY <2>2, <3>2
      <4> QED
        BY <2>1, <2>5, <4>1
    <3> QED
      BY <3>1, <3>2
  <2>8. Up(k + 1, g)
    BY <2>6, <2>7
  <2> HIDE DEF Up
  <2> QED
    BY <2>2, <2>4, <2>8
<1>3. \A k \in 0..n : k \in S
  <2> HIDE DEF S
  <2> QED
    BY <1>1, <1>2, CountedUp
<1>4. n \in S
  BY <1>3
<1>5. PICK f \in [0..n -> V] : Up(n, f)
  BY <1>4
<1> QED
  BY <1>5 DEF IsUp

\* What Number is made of: f[i] is the number of the first i digits.
IsNumber(f, digits) ==
    f = [i \in 0..Len(digits) |-> IF i = 0 THEN 0 ELSE 10 * f[i - 1] + Value[digits[i]]]

LEMMA ValueType == \A c \in Digits : Value[c] \in Nat
  BY DEF Digits, Value

LEMMA NumberType ==
    ASSUME NEW d \in Seq(Digits)
    PROVE  Number(d) \in Nat
<1> DEFINE n == Len(d)
           step == [q \in (1..n) \X Nat |-> 10 * q[2] + Value[d[q[1]]]]
<1>1. n \in Nat /\ \A i \in 1..n : Value[d[i]] \in Nat
  BY ValueType
<1>2. \A i \in 1..n : \A v \in Nat : step[<<i, v>>] = 10 * v + Value[d[i]] /\ step[<<i, v>>] \in Nat
  BY <1>1
<1>3. PICK f : IsUp(f, n, Nat, 0, step)
  <2>1. n \in Nat /\ 0 \in Nat
    BY <1>1
  <2>2. \A i \in 1..n : \A v \in Nat : step[<<i, v>>] \in Nat
    BY <1>2
  <2> HIDE DEF step, n
  <2> QED
    BY <2>1, <2>2, UpExists
<1>4. \A i \in 0..n : f[i] = IF i = 0 THEN 0 ELSE 10 * f[i - 1] + Value[d[i]]
  <2> TAKE i \in 0..n
  <2>1. i = 0 \/ (i \in 1..n /\ i - 1 \in 0..n)
    BY <1>1
  <2>2. f \in [0..n -> Nat] /\ f[0] = 0 /\ \A k \in 1..n : f[k] = step[<<k, f[k - 1]>>]
    BY <1>3 DEF IsUp
  <2> HIDE DEF step, n
  <2> QED
    BY <1>2, <2>1, <2>2
<1>5. IsNumber(f, d)
  <2>1. f = [i \in 0..n |-> f[i]]
    BY <1>3 DEF IsUp
  <2> QED
    BY <1>4, <2>1 DEF IsNumber
<1> DEFINE F == CHOOSE g : IsNumber(g, d)
<1>6. IsNumber(F, d)
  BY <1>5
<1>7. Number(d) = F[n]
  BY DEF Number, IsNumber
<1> HIDE DEF F
<1>8. F[0] = 0 /\ \A i \in 1..n : F[i] = 10 * F[i - 1] + Value[d[i]]
  <2>1. \A i \in 0..n : F[i] = IF i = 0 THEN 0 ELSE 10 * F[i - 1] + Value[d[i]]
    BY <1>6 DEF IsNumber
  <2>2. 0 \in 0..n /\ \A i \in 1..n : i \in 0..n /\ i # 0
    BY <1>1
  <2> HIDE DEF n
  <2> QED
    BY <2>1, <2>2
<1> DEFINE S == {i \in 0..n : F[i] \in Nat}
<1>9. \A k \in 0..n : k \in S
  <2>1. 0 \in S
    BY <1>1, <1>8
  <2>2. ASSUME NEW k \in 0..n - 1, k \in S PROVE k + 1 \in S
    <3>1. k + 1 \in 1..n /\ k + 1 \in 0..n /\ (k + 1) - 1 = k
      BY <1>1
    <3>2. F[k + 1] = 10 * F[k] + Value[d[k + 1]] /\ Value[d[k + 1]] \in Nat /\ F[k] \in Nat
      BY <1>1, <1>8, <2>2, <3>1
    <3>3. 10 * F[k] + Value[d[k + 1]] \in Nat
      BY <3>2
    <3> QED
      BY <3>1, <3>2, <3>3
  <2> HIDE DEF S
  <2> QED
    BY <1>1, <2>1, <2>2, CountedUp
<1>10. n \in 0..n
  BY <1>1
<1> QED
  BY <1>7, <1>9, <1>10

LEMMA WidthType ==
    ASSUME NEW d \in Seq(Digits)
    PROVE  Width(d) \in Nat /\ Width(d) <= MaxWidth
  BY NumberType DEF Width, MaxWidth

LEMMA MinIs ==
    ASSUME NEW T \in SUBSET Nat, T # {}
    PROVE  Min(T) \in T /\ \A y \in T : Min(T) <= y
<1>1. PICK x \in T : \A y \in T : x <= y
  BY LeastNumber
<1> QED
  BY <1>1 DEF Min

-----------------------------------------------------------------------------
(* compile_pattern_.                                                       *)

\* The parts of PadSpec: the side, where the digits begin, and the end of them.
Side(p, i) ==
    IF i > Len(p) THEN "left" ELSE CASE p[i] = "-" -> "right" [] p[i] = "=" -> "center" [] OTHER -> "left"
Begin(p, i) == IF Side(p, i) = "left" THEN i ELSE i + 1
Spec3(p, i, k) ==
    LET j    == Begin(p, i)
        mark == k <= Len(p) /\ p[k] = "!"
    IN  IF k = j THEN [it |-> j, pad |-> NoPad]
        ELSE [it |-> IF mark THEN k + 1 ELSE k,
              pad |-> [enabled |-> TRUE, width |-> Width(SubSeq(p, j, k - 1)),
                       side |-> Side(p, i), truncate |-> mark]]

LEMMA PadSpecIs ==
    ASSUME NEW p \in Seq(Chars), NEW i \in 1..Len(p) + 1
    PROVE  /\ Begin(p, i) \in {i, i + 1} /\ Begin(p, i) <= Len(p) + 1
           /\ \E k \in Begin(p, i)..Len(p) + 1 :
                 /\ ~IsDigit(p, k)
                 /\ \A n \in Begin(p, i)..k - 1 : IsDigit(p, n)
                 /\ PadSpec(p, i) = Spec3(p, i, k)
<1> DEFINE j == Begin(p, i)
           T == {n \in j..Len(p) + 1 : ~IsDigit(p, n)}
<1>1. Len(p) \in Nat
  OBVIOUS
<1>2. j \in {i, i + 1} /\ j <= Len(p) + 1
  BY <1>1 DEF Begin, Side
<1>3. Len(p) + 1 \in T /\ T \in SUBSET Nat
  BY <1>1, <1>2 DEF IsDigit
<1>4. Min(T) \in T /\ \A y \in T : Min(T) <= y
  <2> HIDE DEF T
  <2> QED
    BY <1>3, MinIs
<1>5. ASSUME NEW n \in j..Min(T) - 1 PROVE IsDigit(p, n)
  <2>1. n \in j..Len(p) + 1 /\ n < Min(T)
    BY <1>1, <1>2, <1>4
  <2>2. n \notin T
    BY <1>3, <1>4, <2>1
  <2> QED
    BY <2>1, <2>2
<1>6. PadSpec(p, i) = Spec3(p, i, Min(T))
  BY DEF PadSpec, Spec3, Side, Begin
<1>7. Min(T) \in j..Len(p) + 1 /\ ~IsDigit(p, Min(T))
  BY <1>4
<1> QED
  BY <1>2, <1>5, <1>6, <1>7

LEMMA DigitsBetween ==
    ASSUME NEW p \in Seq(Chars), NEW j \in Nat, NEW k \in Nat,
           \A n \in j..k - 1 : IsDigit(p, n)
    PROVE  SubSeq(p, j, k - 1) \in Seq(Digits)
<1>1. \A n \in j..k - 1 : p[n] \in Digits
  BY DEF IsDigit
<1>2. j \in Int /\ k - 1 \in Int
  OBVIOUS
<1> QED
  BY <1>1, <1>2, SubSeqProperties

\* A padding as the code makes it.
Pads == {pad \in Padding : pad.width <= MaxWidth}

LEMMA NoPadIs == NoPad \in Pads /\ ~NoPad.enabled /\ ~NoPad.truncate
  BY DEF NoPad, Pads, Padding, MaxWidth

LEMMA PadSpecType ==
    ASSUME NEW p \in Seq(Chars), NEW i \in 1..Len(p) + 1
    PROVE  PadSpec(p, i).it \in i..Len(p) + 1 /\ PadSpec(p, i).pad \in Pads
<1> DEFINE j == Begin(p, i)
<1>1. Len(p) \in Nat
  OBVIOUS
<1>2. j \in {i, i + 1} /\ j <= Len(p) + 1
  BY PadSpecIs
<1>3. PICK k \in j..Len(p) + 1 :
         /\ \A n \in j..k - 1 : IsDigit(p, n)
         /\ PadSpec(p, i) = Spec3(p, i, k)
  BY PadSpecIs
<1>4. j \in Nat /\ k \in Nat
  BY <1>1, <1>2
<1>5. SubSeq(p, j, k - 1) \in Seq(Digits)
  <2> HIDE DEF j
  <2> QED
    BY <1>3, <1>4, DigitsBetween
<1>6. Width(SubSeq(p, j, k - 1)) \in Nat /\ Width(SubSeq(p, j, k - 1)) <= MaxWidth
  BY <1>5, WidthType
<1>7. Side(p, i) \in {"left", "right", "center"}
  BY DEF Side
<1>8. CASE k = j
  <2>1. PadSpec(p, i) = [it |-> j, pad |-> NoPad]
    BY <1>3, <1>8 DEF Spec3
  <2> QED
    BY <1>1, <1>2, <2>1, NoPadIs
<1>9. CASE k # j
  <2> DEFINE mark == k <= Len(p) /\ p[k] = "!"
             w == Width(SubSeq(p, j, k - 1))
             pad == [enabled |-> TRUE, width |-> w, side |-> Side(p, i), truncate |-> mark]
  <2>1. PadSpec(p, i) = [it |-> IF mark THEN k + 1 ELSE k, pad |-> pad]
    BY <1>3, <1>9 DEF Spec3
  <2>2. pad \in Padding /\ pad.width <= MaxWidth
    <3>1. mark \in BOOLEAN /\ w \in Nat /\ w <= MaxWidth
      BY <1>6
    <3> HIDE DEF mark, w
    <3> QED
      BY <1>7, <3>1 DEF Padding
  <2>3. (IF mark THEN k + 1 ELSE k) \in i..Len(p) + 1
    BY <1>1, <1>2
  <2> HIDE DEF pad, mark
  <2> QED
    BY <2>1, <2>2, <2>3 DEF Pads
<1> QED
  BY <1>8, <1>9

\* A formatter as compile_pattern_ makes it.
Kinds == {"text"} \cup (Flags \ {"%"})
Fresh ==
    {f \in [flag : Kinds, text : Seq(Chars), pad : Pads, memo : {NoMemo}] :
        f.flag = "text" => f.pad = NoPad}

LEMMA TextType ==
    ASSUME NEW s \in Seq(Chars)
    PROVE  Text(s) \in Fresh
  BY NoPadIs DEF Text, Fresh, Kinds

LEMMA FormatterType ==
    ASSUME NEW flag \in Flags \ {"%"}, NEW pad \in Pads
    PROVE  Formatter(flag, pad) \in Fresh
<1>1. <<>> \in Seq(Chars) /\ flag # "text"
  BY DEF Flags
<1> QED
  BY <1>1 DEF Formatter, Fresh, Kinds

LEMMA HandleFlagType ==
    ASSUME NEW flag \in Chars, NEW pad \in Pads
    PROVE  HandleFlag(flag, pad) \in Seq(Fresh)
<1>1. CASE flag = "%"
  <2>1. <<"%">> \in Seq(Chars)
    BY DEF Chars, Flags
  <2>2. Text(<<"%">>) \in Fresh
    BY <2>1, TextType
  <2> QED
    BY <1>1, <2>2 DEF HandleFlag
<1>2. CASE flag \in Flags \ {"%"}
  <2>1. Formatter(flag, pad) \in Fresh
    BY <1>2, FormatterType
  <2>2. HandleFlag(flag, pad) = <<Formatter(flag, pad)>>
    BY <1>2 DEF HandleFlag
  <2> QED
    BY <2>1, <2>2
<1>3. CASE flag \notin Flags
  <2> DEFINE wide == [pad EXCEPT !.truncate = FALSE]
  <2>1. wide \in Pads
    BY DEF Pads, Padding
  <2>2. <<flag>> \in Seq(Chars) /\ <<"%", flag>> \in Seq(Chars)
    <3>1. "%" \in Chars
      BY DEF Chars, Flags
    <3> QED
      BY <3>1
  <2>3. Text(<<flag>>) \in Fresh /\ Text(<<"%", flag>>) \in Fresh
    BY <2>2, TextType
  <2>4. Formatter("!", wide) \in Fresh
    <3>1. "!" \in Flags \ {"%"}
      BY DEF Flags
    <3> HIDE DEF wide
    <3> QED
      BY <2>1, <3>1, FormatterType
  <2>5. HandleFlag(flag, pad) = IF pad.truncate THEN <<Formatter("!", wide), Text(<<flag>>)>>
                               ELSE <<Text(<<"%", flag>>)>>
    BY <1>3 DEF HandleFlag, Flags
  <2> DEFINE a == Formatter("!", wide)
             b == Text(<<flag>>)
             c == Text(<<"%", flag>>)
  <2>6. a \in Fresh /\ b \in Fresh /\ c \in Fresh
    BY <2>3, <2>4
  <2>7. <<a, b>> \in Seq(Fresh) /\ <<c>> \in Seq(Fresh)
    <3> HIDE DEF a, b, c
    <3> QED
      BY <2>6
  <2> QED
    BY <2>5, <2>7
<1> QED
  BY <1>1, <1>2, <1>3

\* Where the characters that stand for themselves end.
NextAt(p, i) == Min({k \in i..Len(p) + 1 : k = Len(p) + 1 \/ p[k] = "%"})

LEMMA NextAtIs ==
    ASSUME NEW p \in Seq(Chars), NEW i \in 1..Len(p) + 1
    PROVE  /\ NextAt(p, i) \in i..Len(p) + 1
           /\ NextAt(p, i) = Len(p) + 1 \/ p[NextAt(p, i)] = "%"
           /\ \A k \in i..NextAt(p, i) - 1 : k \in 1..Len(p) /\ p[k] # "%"
<1> DEFINE T == {k \in i..Len(p) + 1 : k = Len(p) + 1 \/ p[k] = "%"}
<1>1. Len(p) \in Nat /\ Len(p) + 1 \in T /\ T \in SUBSET Nat
  OBVIOUS
<1>2. Min(T) \in T /\ \A y \in T : Min(T) <= y
  <2> HIDE DEF T
  <2> QED
    BY <1>1, MinIs
<1>3. NextAt(p, i) = Min(T)
  BY DEF NextAt
<1>4. Min(T) \in i..Len(p) + 1
  BY <1>2
<1>5. ASSUME NEW k \in i..Min(T) - 1 PROVE k \in 1..Len(p) /\ p[k] # "%"
  <2>1. k \in i..Len(p) + 1 /\ k < Min(T) /\ k \in 1..Len(p)
    BY <1>1, <1>4
  <2>2. k \notin T
    BY <1>1, <1>2, <1>4, <2>1
  <2> QED
    BY <2>1, <2>2
<1>6. Min(T) = Len(p) + 1 \/ p[Min(T)] = "%"
  BY <1>2
<1> HIDE DEF T
<1> QED
  BY <1>3, <1>4, <1>5, <1>6

\* What Compile is made of: f[i] is compiled of the pattern from its i-th
\* character on.
Body(f, p, i) ==
    LET next == Min({k \in i..Len(p) + 1 : k = Len(p) + 1 \/ p[k] = "%"})
        spec == PadSpec(p, i + 1)
    IN  CASE i > Len(p) \/ (next = i /\ spec.it > Len(p)) -> <<>>
          [] next > i -> <<Text(SubSeq(p, i, next - 1))>> \o f[next]
          [] OTHER    -> HandleFlag(p[spec.it], spec.pad) \o f[spec.it + 1]
IsCompile(f, p) == f = [i \in 1..Len(p) + 1 |-> Body(f, p, i)]

\* The steps of compile_pattern_, by the place in the pattern.
Ended(p, i)   == i > Len(p) \/ (NextAt(p, i) = i /\ PadSpec(p, i + 1).it > Len(p))
Piece(p, i)   == IF NextAt(p, i) > i THEN <<Text(SubSeq(p, i, NextAt(p, i) - 1))>>
                 ELSE HandleFlag(p[PadSpec(p, i + 1).it], PadSpec(p, i + 1).pad)
Further(p, i) == IF NextAt(p, i) > i THEN NextAt(p, i) ELSE PadSpec(p, i + 1).it + 1

LEMMA PieceType ==
    ASSUME NEW p \in Seq(Chars), NEW i \in 1..Len(p) + 1, ~Ended(p, i)
    PROVE  Further(p, i) \in i + 1..Len(p) + 1 /\ Piece(p, i) \in Seq(Fresh)
<1>1. Len(p) \in Nat /\ i \in 1..Len(p) /\ i + 1 \in 1..Len(p) + 1
  BY DEF Ended
<1>2. /\ NextAt(p, i) \in i..Len(p) + 1
      /\ \A k \in i..NextAt(p, i) - 1 : k \in 1..Len(p)
  BY NextAtIs
<1>3. CASE NextAt(p, i) > i
  <2>1. \A k \in i..NextAt(p, i) - 1 : p[k] \in Chars
    BY <1>1, <1>2
  <2>2. SubSeq(p, i, NextAt(p, i) - 1) \in Seq(Chars)
    <3>1. i \in Int /\ NextAt(p, i) - 1 \in Int
      BY <1>1, <1>2
    <3> QED
      BY <2>1, <3>1, SubSeqProperties
  <2>3. Text(SubSeq(p, i, NextAt(p, i) - 1)) \in Fresh
    BY <2>2, TextType
  <2>4. Piece(p, i) = <<Text(SubSeq(p, i, NextAt(p, i) - 1))>> /\ Further(p, i) = NextAt(p, i)
    BY <1>3 DEF Piece, Further
  <2> QED
    BY <1>1, <1>2, <1>3, <2>3, <2>4
<1>4. CASE ~(NextAt(p, i) > i)
  <2> DEFINE spec == PadSpec(p, i + 1)
  <2>1. NextAt(p, i) = i
    BY <1>1, <1>2, <1>4
  <2>2. spec.it \in i + 1..Len(p) + 1 /\ spec.pad \in Pads /\ ~(spec.it > Len(p))
    BY <1>1, <2>1, PadSpecType DEF Ended
  <2>3. spec.it \in 1..Len(p)
    BY <1>1, <2>2
  <2>4. p[spec.it] \in Chars
    BY <2>3
  <2>5. HandleFlag(p[spec.it], spec.pad) \in Seq(Fresh)
    <3> HIDE DEF spec
    <3> QED
      BY <2>2, <2>4, HandleFlagType
  <2>6. Piece(p, i) = HandleFlag(p[spec.it], spec.pad) /\ Further(p, i) = spec.it + 1
    BY <1>4 DEF Piece, Further
  <2>7. spec.it + 1 \in i + 1..Len(p) + 1
    BY <1>1, <2>2
  <2> HIDE DEF spec
  <2> QED
    BY <2>5, <2>6, <2>7
<1> QED
  BY <1>3, <1>4

\* The body of Compile, in these terms.
LEMMA CompileStep ==
    ASSUME NEW p \in Seq(Chars), NEW i \in 1..Len(p) + 1, NEW f
    PROVE  Body(f, p, i) = IF Ended(p, i) THEN <<>> ELSE Piece(p, i) \o f[Further(p, i)]
<1> DEFINE spec == PadSpec(p, i + 1)
           text == <<Text(SubSeq(p, i, NextAt(p, i) - 1))>> \o f[NextAt(p, i)]
           flag == HandleFlag(p[spec.it], spec.pad) \o f[spec.it + 1]
<1>1. Body(f, p, i) = CASE Ended(p, i) -> <<>> [] NextAt(p, i) > i -> text [] OTHER -> flag
  BY DEF Body, NextAt, Ended
<1>2. Ended(p, i) => ~(NextAt(p, i) > i)
  <2>1. NextAt(p, i) \in i..Len(p) + 1 /\ Len(p) \in Nat
    BY NextAtIs
  <2> QED
    BY <2>1 DEF Ended
<1>3. NextAt(p, i) > i => text = Piece(p, i) \o f[Further(p, i)]
  <2> SUFFICES ASSUME NextAt(p, i) > i PROVE text = Piece(p, i) \o f[Further(p, i)]
    OBVIOUS
  <2>1. Piece(p, i) = <<Text(SubSeq(p, i, NextAt(p, i) - 1))>> /\ Further(p, i) = NextAt(p, i)
    BY DEF Piece, Further
  <2> QED
    BY <2>1, Zenon
<1>4. ~(NextAt(p, i) > i) => flag = Piece(p, i) \o f[Further(p, i)]
  <2> SUFFICES ASSUME ~(NextAt(p, i) > i) PROVE flag = Piece(p, i) \o f[Further(p, i)]
    OBVIOUS
  <2>1. Piece(p, i) = HandleFlag(p[spec.it], spec.pad) /\ Further(p, i) = spec.it + 1
    BY DEF Piece, Further
  <2> QED
    BY <2>1, Zenon
<1> HIDE DEF text, flag
<1> QED
  BY <1>1, <1>2, <1>3, <1>4

LEMMA CompileIs ==
    ASSUME NEW p \in Seq(Chars)
    PROVE  \E f : /\ Compile(p) = f[1]
                  /\ \A i \in 1..Len(p) + 1 :
                        /\ f[i] \in Seq(Fresh)
                        /\ f[i] = IF Ended(p, i) THEN <<>> ELSE Piece(p, i) \o f[Further(p, i)]
<1> DEFINE n == Len(p) + 1
           ends == {i \in 1..n : Ended(p, i)}
           piece == [i \in 1..n |-> Piece(p, i)]
           jump == [i \in 1..n |-> Further(p, i)]
<1>1. n \in Nat
  OBVIOUS
<1>2. \A i \in 1..n \ ends : jump[i] \in i + 1..n /\ piece[i] \in Seq(Fresh)
  BY PieceType
<1>3. \A f : \A i \in 1..n :
        (IF i \in ends THEN <<>> ELSE piece[i] \o f[jump[i]])
          = (IF Ended(p, i) THEN <<>> ELSE Piece(p, i) \o f[Further(p, i)])
  OBVIOUS
<1>4. \A f : IsChain(f, n, ends, piece, jump) <=> IsCompile(f, p)
  <2> TAKE f
  <2>1. IsChain(f, n, ends, piece, jump)
          <=> f = [i \in 1..n |-> IF Ended(p, i) THEN <<>> ELSE Piece(p, i) \o f[Further(p, i)]]
    BY <1>3 DEF IsChain
  <2>2. IsCompile(f, p)
          <=> f = [i \in 1..n |-> IF Ended(p, i) THEN <<>> ELSE Piece(p, i) \o f[Further(p, i)]]
    BY CompileStep DEF IsCompile
  <2> QED
    BY <2>1, <2>2
<1> DEFINE F == CHOOSE f : IsCompile(f, p)
<1>5. IsCompile(F, p)
  <2>1. PICK f : IsChain(f, n, ends, piece, jump)
    <3> HIDE DEF n, ends, piece, jump
    <3> QED
      BY <1>1, <1>2, ChainExists
  <2>2. IsCompile(f, p)
    <3> HIDE DEF n, ends, piece, jump
    <3> QED
      BY <1>4, <2>1
  <2> QED
    BY <2>2
<1>6. Compile(p) = F[1]
  BY DEF Compile, IsCompile, Body
<1> HIDE DEF F
<1>7. IsChain(F, n, ends, piece, jump)
  BY <1>4, <1>5
<1>8. \A i \in 1..n : F[i] \in Seq(Fresh)
  <2> HIDE DEF n, ends, piece, jump
  <2> QED
    BY <1>1, <1>2, <1>7, ChainIs
<1>9. \A i \in 1..n : F[i] = IF Ended(p, i) THEN <<>> ELSE Piece(p, i) \o F[Further(p, i)]
  BY <1>3, <1>7 DEF IsChain
<1> HIDE DEF ends, piece, jump
<1> QED
  BY <1>6, <1>8, <1>9

LEMMA CompileType ==
    ASSUME NEW p \in Seq(Chars)
    PROVE  Compile(p) \in Seq(Fresh)
<1>1. 1 \in 1..Len(p) + 1
  OBVIOUS
<1> QED
  BY <1>1, CompileIs

-----------------------------------------------------------------------------
(* The inductive invariant.                                                *)

Memory == [stamp : Nat, tm : Tm]

\* What a formatter has kept is the time of its stamp, the offset in that of a
\* message.
Kept(f) ==
    f.memo.stamp # 0 =>
        /\ f.flag = "+" => f.memo.tm = LocalTime(f.memo.stamp)
        /\ f.flag = "z" => \E m \in Messages :
              f.memo.stamp = m.time /\ f.memo.tm.isdst = LocalTime(SecsOf(m.time)).isdst

Formatters ==
    {f \in [flag : Kinds, text : Seq(Chars), pad : Pads, memo : Memory] :
        (f.flag = "text" => f.pad = NoPad) /\ Kept(f)}

\* The formatters are those of the pattern, but for what they have kept.
Remade(fs, made) ==
    /\ fs \in Seq(Formatters) /\ Len(fs) = Len(made)
    /\ \A i \in 1..Len(made) : fs[i] = [made[i] EXCEPT !.memo = fs[i].memo]

FormattersInv ==
    /\ elements \in Patterns \cup Later
    /\ Remade(formatters_, Compile(Pattern(elements)))
    /\ need_localtime_ = NeedsLocaltime(Compile(Pattern(elements)))

\* The broken-down time is that of its second.
ClockInv ==
    /\ cached_tm_ \in Tm /\ last_log_secs_ \in Nat
    /\ cached_tm_ = IF last_log_secs_ = 0 THEN NoTime ELSE LocalTime(last_log_secs_)

\* What TimeOfMessage and OffsetRecent say of a cell.
Cell == [of : Chars \cup {""}, n : Nat, tm : Tm]
Right(c, m) ==
    /\ (c.of \in {"S", "D"} /\ c.n > 0) \/ (c.of = "+" /\ c.n = 1) => c.tm = LocalTime(SecsOf(m.time))
    /\ c.of = "z" /\ c.n > 0 => \E k \in Messages :
          k.time > m.time - Refresh /\ c.tm.isdst = LocalTime(SecsOf(k.time)).isdst
Cells(m) == {c \in Cell : Right(c, m)}

LineInv ==
    /\ msg \in Messages \cup {NoMsg}
    /\ dest \in Seq(Cells(msg))
    /\ terminated \in BOOLEAN

PatternInv == FormattersInv /\ ClockInv /\ LineInv

-----------------------------------------------------------------------------
LEMMA TimeType ==
    /\ NoTime \in Tm /\ NoMemo \in Memory
    /\ \A s \in Nat : LocalTime(s) \in Tm
    /\ \A s \in Nat \ {0} : LocalTime(s) # NoTime
<1>1. Switch \in Nat
  BY TimeAssumption
<1> QED
  BY <1>1 DEF NoTime, Tm, NoMemo, Memory, LocalTime

LEMMA MessageType ==
    ASSUME NEW m \in Messages
    PROVE  /\ m.time \in Nat /\ m.payload \in Nat /\ m.func \in Nat
           /\ SecsOf(m.time) \in Nat \ {0} /\ m.time >= Refresh /\ Refresh \in Nat \ {0}
<1>1. m \in [time : Nat, payload : Nat, func : Nat] /\ SecsOf(m.time) > 0 /\ m.time >= Refresh
  BY TimeAssumption
<1>2. SecsOf(m.time) \in Int
  BY <1>1 DEF SecsOf
<1> QED
  BY <1>1, <1>2, TimeAssumption

LEMMA WrittenType ==
    ASSUME NEW e \in Element
    PROVE  Written(e) \in Seq(Chars)
<1>1. e.char \in Chars /\ e.mark \in {"", "-", "="} /\ e.digits \in Seq(Digits)
  BY DEF Element
<1>2. "%" \in Chars /\ "!" \in Chars /\ "-" \in Chars /\ "=" \in Chars /\ Digits \subseteq Chars
  BY DEF Chars, Flags
<1> DEFINE a == <<"%">>
           b == IF e.mark = "" THEN <<>> ELSE <<e.mark>>
           c == e.digits
           d == IF e.truncate THEN <<"!">> ELSE <<>>
           x == <<e.char>>
<1>3. a \in Seq(Chars) /\ b \in Seq(Chars) /\ d \in Seq(Chars) /\ x \in Seq(Chars)
  <2>1. \A ch \in Chars : <<ch>> \in Seq(Chars)
    OBVIOUS
  <2>2. <<>> \in Seq(Chars)
    OBVIOUS
  <2>3. e.mark = "" \/ e.mark \in Chars
    BY <1>1, <1>2
  <2> QED
    BY <1>1, <1>2, <2>1, <2>2, <2>3
<1>4. c \in Seq(Chars)
  BY <1>1, <1>2, SeqMonotonic
<1>5. Written(e) = IF e.literal THEN x ELSE a \o b \o c \o d \o x
  BY DEF Written
<1> HIDE DEF a, b, c, d, x
<1>6. a \o b \in Seq(Chars)
  BY <1>3, ConcatProperties
<1>7. a \o b \o c \in Seq(Chars)
  BY <1>4, <1>6, ConcatProperties
<1>8. a \o b \o c \o d \in Seq(Chars)
  BY <1>3, <1>7, ConcatProperties
<1>9. a \o b \o c \o d \o x \in Seq(Chars)
  BY <1>3, <1>8, ConcatProperties
<1> QED
  BY <1>3, <1>5, <1>9

LEMMA PatternType ==
    ASSUME NEW es \in Patterns \cup Later
    PROVE  Pattern(es) \in Seq(Chars)
<1> DEFINE s == [i \in DOMAIN es |-> Written(es[i])]
<1>1. es \in Seq(Element)
  BY PatternAssumption
<1>2. s \in Seq(Seq(Chars))
  <2>1. DOMAIN es = 1..Len(es) /\ Len(es) \in Nat /\ \A i \in 1..Len(es) : es[i] \in Element
    BY <1>1
  <2>2. \A i \in 1..Len(es) : Written(es[i]) \in Seq(Chars)
    BY <2>1, WrittenType
  <2> QED
    BY <2>1, <2>2
<1>3. Joined(s) \in Seq(Chars)
  BY <1>2, JoinedType
<1> QED
  BY <1>3 DEF Pattern

LEMMA FreshIsFormatter == Fresh \subseteq Formatters
<1> SUFFICES ASSUME NEW f \in Fresh PROVE f \in Formatters
  OBVIOUS
<1>1. f.memo = NoMemo /\ NoMemo.stamp = 0 /\ NoMemo \in Memory
  BY TimeType DEF Fresh, NoMemo
<1>2. Kept(f)
  BY <1>1 DEF Kept
<1> QED
  BY <1>1, <1>2 DEF Fresh, Formatters

\* Formatters compiled anew.
LEMMA CompiledAnew ==
    ASSUME NEW es \in Patterns \cup Later
    PROVE  /\ Compile(Pattern(es)) \in Seq(Fresh)
           /\ Remade(Compile(Pattern(es)), Compile(Pattern(es)))
<1> DEFINE made == Compile(Pattern(es))
<1>1. made \in Seq(Fresh)
  BY PatternType, CompileType
<1> HIDE DEF made
<1>2. made \in Seq(Formatters)
  BY <1>1, FreshIsFormatter, SeqMonotonic
<1>3. \A f \in Fresh : f = [f EXCEPT !.memo = f.memo]
  BY DEF Fresh
<1>4. \A i \in 1..Len(made) : made[i] \in Fresh
  BY <1>1
<1> QED
  BY <1>1, <1>2, <1>3, <1>4 DEF Remade, made

\* What is compiled anew needs the time when what it replaces did.
LEMMA NeedsAlike ==
    ASSUME NEW made \in Seq(Fresh), NEW fs, Remade(fs, made)
    PROVE  /\ NeedsLocaltime(fs) = NeedsLocaltime(made)
           /\ \A i \in 1..Len(made) : fs[i].flag = made[i].flag /\ fs[i].text = made[i].text
                                        /\ fs[i].pad = made[i].pad
<1>1. DOMAIN fs = 1..Len(made) /\ DOMAIN made = 1..Len(made)
  BY DEF Remade
<1>2. \A i \in 1..Len(made) : made[i] \in Fresh /\ fs[i] = [made[i] EXCEPT !.memo = fs[i].memo]
  BY DEF Remade
<1>3. \A i \in 1..Len(made) : fs[i].flag = made[i].flag /\ fs[i].text = made[i].text
                                /\ fs[i].pad = made[i].pad
  BY <1>2 DEF Fresh
<1> QED
  BY <1>1, <1>3 DEF NeedsLocaltime

-----------------------------------------------------------------------------
(* The caches of the time.                                                 *)

LEMMA ClockKept ==
    ASSUME ClockInv, NEW m \in Messages, Format(m)
    PROVE  ClockInv' /\ (need_localtime_ => cached_tm_' = LocalTime(SecsOf(m.time)))
<1>1. SecsOf(m.time) \in Nat \ {0} /\ LocalTime(SecsOf(m.time)) \in Tm
  BY MessageType, TimeType
<1>2. /\ cached_tm_' = IF TimeStale(m) THEN LocalTime(SecsOf(m.time)) ELSE cached_tm_
      /\ last_log_secs_' = IF TimeStale(m) THEN SecsOf(m.time) ELSE last_log_secs_
  BY DEF Format, LastSecs
<1>3. CASE TimeStale(m)
  BY <1>1, <1>2, <1>3 DEF ClockInv
<1>4. CASE ~TimeStale(m)
  <2>1. need_localtime_ => SecsOf(m.time) = last_log_secs_
    BY <1>4 DEF TimeStale
  <2> QED
    BY <1>1, <1>2, <1>4, <2>1 DEF ClockInv
<1> QED
  BY <1>3, <1>4

\* What a formatter has kept is right for a message.
UpToDate(f, m) ==
    /\ f.flag = "+" => f.memo.tm = LocalTime(SecsOf(m.time))
    /\ f.flag = "z" => \E k \in Messages :
          k.time > m.time - Refresh /\ f.memo.tm.isdst = LocalTime(SecsOf(k.time)).isdst

\* The memo a formatter has after a message.
LEMMA MemoKept ==
    ASSUME NEW f \in Formatters, NEW m \in Messages, NEW tm \in Tm,
           f.flag \in {"z", "+"} => tm = LocalTime(SecsOf(m.time))
    PROVE  /\ [f EXCEPT !.memo = Memo(f, m, tm)] \in Formatters
           /\ UpToDate([f EXCEPT !.memo = Memo(f, m, tm)], m)
<1> DEFINE g == [f EXCEPT !.memo = Memo(f, m, tm)]
<1>1. /\ f \in [flag : Kinds, text : Seq(Chars), pad : Pads, memo : Memory]
      /\ f.flag = "text" => f.pad = NoPad
      /\ Kept(f)
  BY DEF Formatters
<1>2. /\ m.time \in Nat /\ SecsOf(m.time) \in Nat \ {0} /\ m.time >= Refresh /\ Refresh \in Nat \ {0}
      /\ f.memo \in Memory /\ f.memo.stamp \in Nat /\ f.memo.tm \in Tm
  BY <1>1, MessageType DEF Memory
<1>3. ASSUME NEW memo \in Memory, Memo(f, m, tm) = memo
      PROVE  /\ g.memo = memo /\ g.flag = f.flag
             /\ g \in [flag : Kinds, text : Seq(Chars), pad : Pads, memo : Memory]
             /\ g.flag = "text" => g.pad = NoPad
  <2>1. g = [f EXCEPT !.memo = memo]
    BY <1>3
  <2> HIDE DEF g
  <2> QED
    BY <1>1, <1>3, <2>1
<1> SUFFICES g \in Formatters /\ UpToDate(g, m)
  OBVIOUS
<1>4. CASE f.flag = "z" /\ OffsetStale(f, m)
  <2> DEFINE memo == [stamp |-> m.time, tm |-> [clock |-> 0, isdst |-> tm.isdst]]
  <2>1. tm = LocalTime(SecsOf(m.time)) /\ tm.isdst \in BOOLEAN
    BY <1>4 DEF Tm
  <2>2. memo \in Memory /\ Memo(f, m, tm) = memo
    BY <1>2, <1>4, <2>1 DEF Memory, Tm, Memo
  <2>3. memo.stamp = m.time /\ memo.tm.isdst = tm.isdst
    OBVIOUS
  <2> HIDE DEF memo
  <2>4. g.memo = memo /\ g.flag = "z"
    BY <1>3, <1>4, <2>2
  <2>5. m.time > m.time - Refresh
    BY <1>2
  <2> HIDE DEF g
  <2>6. UpToDate(g, m)
    BY <2>1, <2>3, <2>4, <2>5 DEF UpToDate
  <2>7. Kept(g)
    BY <2>1, <2>3, <2>4 DEF Kept
  <2> QED
    BY <1>3, <2>2, <2>6, <2>7 DEF Formatters, g
<1>5. CASE f.flag = "+" /\ f.memo.stamp # SecsOf(m.time)
  <2> DEFINE memo == [stamp |-> SecsOf(m.time), tm |-> tm]
  <2>1. tm = LocalTime(SecsOf(m.time))
    BY <1>5
  <2>2. memo \in Memory /\ Memo(f, m, tm) = memo
    BY <1>2, <1>5 DEF Memory, Memo
  <2>3. memo.stamp = SecsOf(m.time) /\ memo.tm = tm
    OBVIOUS
  <2> HIDE DEF memo
  <2>4. g.memo = memo /\ g.flag = "+"
    BY <1>3, <1>5, <2>2
  <2> HIDE DEF g
  <2>5. UpToDate(g, m) /\ Kept(g)
    BY <2>1, <2>3, <2>4 DEF UpToDate, Kept
  <2> QED
    BY <1>3, <2>2, <2>5 DEF Formatters, g
<1>6. CASE ~(f.flag = "z" /\ OffsetStale(f, m)) /\ ~(f.flag = "+" /\ f.memo.stamp # SecsOf(m.time))
  <2>1. Memo(f, m, tm) = f.memo
    BY <1>6 DEF Memo
  <2>2. g.memo = f.memo /\ g.flag = f.flag
    BY <1>2, <1>3, <2>1
  <2>3. f.flag = "z" => f.memo.stamp # 0 /\ f.memo.stamp > m.time - Refresh
    BY <1>2, <1>6 DEF OffsetStale
  <2>4. f.flag = "+" => f.memo.stamp # 0 /\ f.memo.stamp = SecsOf(m.time)
    BY <1>2, <1>6
  <2> HIDE DEF g
  <2>5. UpToDate(g, m)
    <3>1. f.flag = "+" => g.memo.tm = LocalTime(SecsOf(m.time))
      BY <1>1, <2>2, <2>4 DEF Kept
    <3>2. ASSUME f.flag = "z"
          PROVE  \E k \in Messages :
                    k.time > m.time - Refresh /\ g.memo.tm.isdst = LocalTime(SecsOf(k.time)).isdst
      <4>1. PICK k \in Messages :
               f.memo.stamp = k.time /\ f.memo.tm.isdst = LocalTime(SecsOf(k.time)).isdst
        BY <1>1, <2>3, <3>2 DEF Kept
      <4>2. k.time > m.time - Refresh /\ g.memo.tm.isdst = LocalTime(SecsOf(k.time)).isdst
        BY <2>2, <2>3, <3>2, <4>1
      <4> QED
        BY <4>2
    <3> QED
      BY <2>2, <3>1, <3>2 DEF UpToDate
  <2>6. Kept(g)
    BY <1>1, <2>2 DEF Kept
  <2> QED
    BY <1>2, <1>3, <2>1, <2>5, <2>6 DEF Formatters, g
<1> QED
  BY <1>4, <1>5, <1>6

-----------------------------------------------------------------------------
(* The cells of a line.                                                    *)

LEMMA SizeType ==
    ASSUME NEW flag \in Flags \ {"%"}, NEW m \in Messages
    PROVE  Size(flag, m) \in Nat /\ Declared(flag, m) \in Nat
  BY MessageType DEF Flags, Size, Declared

LEMMA FieldCells ==
    ASSUME NEW f \in Formatters, NEW m \in Messages, NEW tm \in Tm, UpToDate(f, m),
           f.flag \in {"S", "D"} => tm = LocalTime(SecsOf(m.time))
    PROVE  /\ Field(f, m, tm) \in Seq(Cells(m))
           /\ f.flag \notin {"text", "+"} => Len(Field(f, m, tm)) = Size(f.flag, m)
<1>1. /\ f.flag \in Kinds /\ f.text \in Seq(Chars) /\ f.memo.tm \in Tm
      /\ NoTime \in Tm /\ m.payload \in Nat
  BY MessageType, TimeType DEF Formatters, Memory
<1>2. CASE f.flag = "text"
  <2> DEFINE s == [i \in DOMAIN f.text |-> [of |-> f.text[i], n |-> 0, tm |-> NoTime]]
  <2>1. Field(f, m, tm) = s
    BY <1>2 DEF Field
  <2>2. DOMAIN f.text = 1..Len(f.text) /\ Len(f.text) \in Nat /\ \A i \in 1..Len(f.text) : f.text[i] \in Chars
    BY <1>1
  <2>3. ASSUME NEW c \in Chars PROVE [of |-> c, n |-> 0, tm |-> NoTime] \in Cells(m)
    <3>1. [of |-> c, n |-> 0, tm |-> NoTime] \in Cell
      BY <1>1 DEF Cell
    <3>2. Right([of |-> c, n |-> 0, tm |-> NoTime], m)
      BY DEF Right
    <3> QED
      BY <3>1, <3>2 DEF Cells
  <2>4. s \in Seq(Cells(m))
    BY <2>2, <2>3
  <2> QED
    BY <1>2, <2>1, <2>4
<1>3. CASE f.flag = "+"
  <2> DEFINE s == [i \in 1..m.payload + 1 |->
                      [of |-> "+", n |-> i, tm |-> IF i = 1 THEN f.memo.tm ELSE NoTime]]
  <2>1. Field(f, m, tm) = s
    BY <1>3 DEF Field
  <2>2. f.memo.tm = LocalTime(SecsOf(m.time))
    BY <1>3 DEF UpToDate
  <2>3. ASSUME NEW i \in Nat, NEW t \in Tm, i = 1 => t = LocalTime(SecsOf(m.time))
        PROVE  [of |-> "+", n |-> i, tm |-> t] \in Cells(m)
    <3>1. "+" \in Chars
      BY DEF Chars, Flags
    <3> QED
      BY <2>3, <3>1 DEF Cells, Cell, Right
  <2>4. \A i \in 1..m.payload + 1 :
           [of |-> "+", n |-> i, tm |-> IF i = 1 THEN f.memo.tm ELSE NoTime] \in Cells(m)
    BY <1>1, <2>2, <2>3
  <2>5. s \in Seq(Cells(m))
    BY <1>1, <2>4
  <2> QED
    BY <1>3, <2>1, <2>5
<1>4. CASE f.flag \notin {"text", "+"}
  <2> DEFINE shown == CASE f.flag \in {"S", "D"} -> tm [] f.flag = "z" -> f.memo.tm [] OTHER -> NoTime
             s == [i \in 1..Size(f.flag, m) |-> [of |-> f.flag, n |-> i, tm |-> shown]]
  <2>1. Field(f, m, tm) = s
    BY <1>4 DEF Field
  <2>2. f.flag \in Flags \ {"%"} /\ f.flag \in Chars /\ f.flag \in {"v", "S", "D", "z", "!"}
    BY <1>1, <1>4 DEF Kinds, Flags, Chars
  <2>3. Size(f.flag, m) \in Nat
    BY <2>2, SizeType
  <2>4. shown \in Tm
    BY <1>1
  <2>5. f.flag \in {"S", "D"} => shown = LocalTime(SecsOf(m.time))
    OBVIOUS
  <2>6. f.flag = "z" => shown = f.memo.tm
    OBVIOUS
  <2> HIDE DEF shown
  <2>7. ASSUME NEW i \in Nat PROVE [of |-> f.flag, n |-> i, tm |-> shown] \in Cells(m)
    <3>1. [of |-> f.flag, n |-> i, tm |-> shown] \in Cell
      BY <2>2, <2>4 DEF Cell
    <3>2. Right([of |-> f.flag, n |-> i, tm |-> shown], m)
      BY <2>2, <2>5, <2>6 DEF Right, UpToDate
    <3> QED
      BY <3>1, <3>2 DEF Cells
  <2>8. s \in Seq(Cells(m)) /\ Len(s) = Size(f.flag, m)
    BY <2>3, <2>7
  <2> QED
    BY <1>4, <2>1, <2>8
<1> QED
  BY <1>2, <1>3, <1>4

LEMMA SpacesType ==
    ASSUME NEW n \in Int, NEW m
    PROVE  Spaces(n) \in Seq(Cells(m)) /\ Len(Spaces(n)) = IF n > 0 THEN n ELSE 0
<1>1. Space \in Cells(m)
  BY TimeType DEF Space, Cells, Cell, Right
<1>2. CASE n > 0
  BY <1>1, <1>2 DEF Spaces
<1>3. CASE ~(n > 0)
  <2>1. \A i \in 1..n : FALSE
    BY <1>3
  <2>2. Spaces(n) = <<>>
    BY <2>1 DEF Spaces
  <2> QED
    BY <1>3, <2>2
<1> QED
  BY <1>2, <1>3

LEMMA PadsType ==
    ASSUME NEW pad \in Pads, NEW remaining \in Int
    PROVE  /\ PadBefore(pad, remaining) \in Nat /\ PadAfter(pad, remaining) \in Int
           /\ remaining <= 0 => PadBefore(pad, remaining) = 0 /\ PadAfter(pad, remaining) = remaining
           /\ remaining > 0 => PadAfter(pad, remaining) \in Nat
<1>1. pad.side \in {"left", "right", "center"}
  BY DEF Pads, Padding
<1>2. remaining > 0 => remaining \div 2 \in Nat /\ remaining \div 2 <= remaining
  OBVIOUS
<1> QED
  BY <1>1, <1>2 DEF PadBefore, PadAfter

\* Lines as Format makes them.
Line(m) == [dest : Seq(Cells(m)), dead : BOOLEAN]

LEMMA AppendedCells ==
    ASSUME NEW f \in Formatters, NEW m \in Messages, NEW tm \in Tm, UpToDate(f, m),
           f.flag \in {"S", "D"} => tm = LocalTime(SecsOf(m.time)), NEW line \in Line(m)
    PROVE  Appended(line, f, m, tm) \in Line(m)
<1> DEFINE remaining == f.pad.width - Declared(f.flag, m)
           spaces    == Spaces(PadBefore(f.pad, remaining))
           field     == line.dest \o spaces \o Field(f, m, tm)
           after     == PadAfter(f.pad, remaining)
           cut       == f.pad.truncate /\ after < 0
<1>1. Field(f, m, tm) \in Seq(Cells(m))
  BY FieldCells
<1>2. line.dest \in Seq(Cells(m)) /\ line.dead \in BOOLEAN
  BY DEF Line
<1>3. CASE line.dead \/ ~f.pad.enabled \/ f.flag = "+"
  <2>1. Appended(line, f, m, tm) = [line EXCEPT !.dest = @ \o Field(f, m, tm)]
    BY <1>3 DEF Appended
  <2>2. line.dest \o Field(f, m, tm) \in Seq(Cells(m))
    BY <1>1, <1>2, ConcatProperties
  <2> QED
    BY <2>1, <2>2 DEF Line
<1>4. CASE ~(line.dead \/ ~f.pad.enabled \/ f.flag = "+")
  <2>1. f.flag \in Flags \ {"%"} /\ f.pad \in Pads /\ f.pad.width \in Nat
    BY <1>4, NoPadIs DEF Formatters, Kinds, Pads, Padding
  <2>2. remaining \in Int
    BY <2>1, SizeType
  <2>3. after \in Int /\ spaces \in Seq(Cells(m)) /\ Spaces(after) \in Seq(Cells(m))
    <3> HIDE DEF remaining
    <3>1. after \in Int /\ PadBefore(f.pad, remaining) \in Int
      BY <2>1, <2>2, PadsType
    <3>2. \A n \in Int : Spaces(n) \in Seq(Cells(m))
      BY SpacesType
    <3> QED
      BY <3>1, <3>2
  <2>4. Appended(line, f, m, tm)
          = CASE ~cut -> [line EXCEPT !.dest = field \o Spaces(after)]
              [] cut /\ Len(field) + after >= 0 ->
                    [line EXCEPT !.dest = SubSeq(field, 1, Len(field) + after)]
              [] OTHER -> [line EXCEPT !.dead = TRUE]
    BY <1>4 DEF Appended
  <2> HIDE DEF remaining, spaces, after
  <2>5. field \in Seq(Cells(m))
    <3>1. line.dest \o spaces \in Seq(Cells(m))
      BY <1>2, <2>3, ConcatProperties
    <3> QED
      BY <1>1, <3>1, ConcatProperties
  <2> HIDE DEF field
  <2>6. field \o Spaces(after) \in Seq(Cells(m))
    BY <2>3, <2>5, ConcatProperties
  <2>7. ASSUME after < 0 PROVE SubSeq(field, 1, Len(field) + after) \in Seq(Cells(m))
    <3>1. \A i \in 1..Len(field) + after : field[i] \in Cells(m)
      BY <2>3, <2>5, <2>7
    <3>2. 1 \in Int /\ Len(field) + after \in Int
      BY <2>3, <2>5
    <3> QED
      BY <3>1, <3>2, SubSeqProperties
  <2>8. /\ \A s \in Seq(Cells(m)) : [line EXCEPT !.dest = s] \in Line(m)
        /\ [line EXCEPT !.dead = TRUE] \in Line(m)
    BY DEF Line
  <2> DEFINE long  == [line EXCEPT !.dest = field \o Spaces(after)]
             short == [line EXCEPT !.dest = SubSeq(field, 1, Len(field) + after)]
             dead  == [line EXCEPT !.dead = TRUE]
  <2>9. long \in Line(m) /\ (cut => short \in Line(m)) /\ dead \in Line(m)
    BY <2>6, <2>7, <2>8
  <2>10. Appended(line, f, m, tm) = CASE ~cut -> long [] cut /\ Len(field) + after >= 0 -> short [] OTHER -> dead
    BY <2>4
  <2> HIDE DEF long, short, dead, cut
  <2> QED
    BY <2>9, <2>10
<1> QED
  BY <1>3, <1>4

\* What the line of Format is made of: f[i] is the line after i formatters.
IsLine(f, n, fs, m, tm) ==
    f = [i \in 0..n |-> IF i = 0 THEN [dest |-> <<>>, dead |-> FALSE]
                        ELSE Appended(f[i - 1], fs[i], m, tm)]

\* Formatters that are ready for a message.
Ready(fs, m, tm) ==
    /\ fs \in Seq(Formatters) /\ tm \in Tm
    /\ \A i \in 1..Len(fs) :
          /\ UpToDate(fs[i], m)
          /\ fs[i].flag \in {"S", "D"} => tm = LocalTime(SecsOf(m.time))

LEMMA LineExists ==
    ASSUME NEW fs, NEW m \in Messages, NEW tm, Ready(fs, m, tm)
    PROVE  \E f : IsLine(f, Len(fs), fs, m, tm)
<1> DEFINE n == Len(fs)
           none == [dest |-> <<>>, dead |-> FALSE]
           step == [q \in (1..n) \X Line(m) |-> Appended(q[2], fs[q[1]], m, tm)]
<1>1. n \in Nat /\ \A i \in 1..n : fs[i] \in Formatters
  BY DEF Ready
<1>2. none \in Line(m)
  BY DEF Line
<1>3. ASSUME NEW i \in 1..n, NEW v \in Line(m)
      PROVE  step[<<i, v>>] = Appended(v, fs[i], m, tm) /\ step[<<i, v>>] \in Line(m)
  <2>1. Appended(v, fs[i], m, tm) \in Line(m)
    BY <1>1, AppendedCells DEF Ready
  <2>2. step[<<i, v>>] = Appended(v, fs[i], m, tm)
    OBVIOUS
  <2> HIDE DEF step
  <2> QED
    BY <2>1, <2>2
<1>4. PICK f : IsUp(f, n, Line(m), none, step)
  <2> HIDE DEF n, none, step
  <2> QED
    BY <1>1, <1>2, <1>3, UpExists
<1>5. f \in [0..n -> Line(m)] /\ f[0] = none /\ \A i \in 1..n : f[i] = step[<<i, f[i - 1]>>]
  BY <1>4 DEF IsUp
<1>6. \A i \in 0..n : f[i] = IF i = 0 THEN none ELSE Appended(f[i - 1], fs[i], m, tm)
  <2> TAKE i \in 0..n
  <2>1. i = 0 \/ (i \in 1..n /\ i - 1 \in 0..n)
    BY <1>1
  <2> HIDE DEF step, n, none
  <2> QED
    BY <1>3, <1>5, <2>1
<1>7. f = [i \in 0..n |-> f[i]]
  BY <1>5
<1>8. IsLine(f, n, fs, m, tm)
  BY <1>6, <1>7 DEF IsLine
<1> QED
  BY <1>8

LEMMA LineIs ==
    ASSUME NEW fs, NEW m \in Messages, NEW tm, Ready(fs, m, tm), NEW f, IsLine(f, Len(fs), fs, m, tm)
    PROVE  /\ f[0] = [dest |-> <<>>, dead |-> FALSE]
           /\ \A i \in 1..Len(fs) : f[i] = Appended(f[i - 1], fs[i], m, tm)
           /\ \A i \in 0..Len(fs) : f[i] \in Line(m)
<1> DEFINE n == Len(fs)
           none == [dest |-> <<>>, dead |-> FALSE]
<1>1. n \in Nat /\ \A i \in 1..n : fs[i] \in Formatters
  BY DEF Ready
<1>2. none \in Line(m)
  BY DEF Line
<1>3. \A i \in 0..n : f[i] = IF i = 0 THEN none ELSE Appended(f[i - 1], fs[i], m, tm)
  BY DEF IsLine
<1> HIDE DEF none
<1>4. f[0] = none
  <2>1. 0 \in 0..n
    BY <1>1
  <2> QED
    BY <1>3, <2>1
<1>5. ASSUME NEW i \in 1..n PROVE f[i] = Appended(f[i - 1], fs[i], m, tm)
  <2>1. i \in 0..n /\ i # 0
    BY <1>1
  <2> QED
    BY <1>3, <2>1
<1> DEFINE S == {i \in 0..n : f[i] \in Line(m)}
<1>6. 0 \in S
  BY <1>1, <1>2, <1>4
<1>7. ASSUME NEW k \in 0..n - 1, k \in S PROVE k + 1 \in S
  <2>1. k + 1 \in 1..n /\ k + 1 \in 0..n /\ (k + 1) - 1 = k
    BY <1>1
  <2>2. f[k + 1] = Appended(f[k], fs[k + 1], m, tm)
    BY <1>5, <2>1
  <2>3. f[k] \in Line(m)
    BY <1>7
  <2>4. Appended(f[k], fs[k + 1], m, tm) \in Line(m)
    <3> DEFINE g == fs[k + 1]
               l == f[k]
    <3>1. g \in Formatters /\ l \in Line(m) /\ UpToDate(g, m) /\ tm \in Tm
            /\ (g.flag \in {"S", "D"} => tm = LocalTime(SecsOf(m.time)))
      BY <1>1, <2>1, <2>3 DEF Ready
    <3> HIDE DEF g, l
    <3>2. Appended(l, g, m, tm) \in Line(m)
      BY <3>1, AppendedCells
    <3> QED
      BY <3>2 DEF g, l
  <2> QED
    BY <2>1, <2>2, <2>4
<1>8. \A k \in 0..n : k \in S
  <2> HIDE DEF S
  <2> QED
    BY <1>1, <1>6, <1>7, CountedUp
<1> QED
  BY <1>4, <1>5, <1>8 DEF none

-----------------------------------------------------------------------------
(* The steps.                                                              *)

\* The formatters after a message, with what they have kept.
LEMMA FormatReady ==
    ASSUME PatternInv, NEW m \in Messages, Format(m)
    PROVE  /\ Remade(formatters_', Compile(Pattern(elements)))
           /\ Ready(formatters_', m, cached_tm_')
           /\ Len(formatters_') = Len(formatters_)
<1> DEFINE made == Compile(Pattern(elements))
           fs == formatters_'
<1>1. /\ formatters_ \in Seq(Formatters) /\ Len(formatters_) = Len(made) /\ Len(made) \in Nat
      /\ \A i \in 1..Len(made) : formatters_[i] = [made[i] EXCEPT !.memo = formatters_[i].memo]
      /\ need_localtime_ = NeedsLocaltime(made) /\ made \in Seq(Fresh)
  BY CompiledAnew DEF PatternInv, FormattersInv, Remade
<1> HIDE DEF made
<1>2. fs = [i \in DOMAIN formatters_ |->
              [formatters_[i] EXCEPT !.memo = Memo(formatters_[i], m, cached_tm_')]]
  BY DEF Format
<1>3. ClockInv' /\ (need_localtime_ => cached_tm_' = LocalTime(SecsOf(m.time)))
  BY ClockKept DEF PatternInv
<1>4. cached_tm_' \in Tm
  BY <1>3 DEF ClockInv
<1>5. ASSUME NEW i \in 1..Len(made), made[i].flag \in {"S", "D", "z", "+"}
      PROVE  cached_tm_' = LocalTime(SecsOf(m.time))
  <2>1. NeedsLocaltime(made)
    BY <1>1, <1>5 DEF NeedsLocaltime
  <2> QED
    BY <1>1, <1>3, <2>1
<1>6. ASSUME NEW i \in 1..Len(made)
      PROVE  /\ fs[i] \in Formatters /\ UpToDate(fs[i], m)
             /\ fs[i] = [made[i] EXCEPT !.memo = fs[i].memo]
             /\ fs[i].flag \in {"S", "D"} => cached_tm_' = LocalTime(SecsOf(m.time))
  <2> DEFINE f == formatters_[i]
             g == [f EXCEPT !.memo = Memo(f, m, cached_tm_')]
  <2>1. f \in Formatters /\ f = [made[i] EXCEPT !.memo = f.memo] /\ made[i] \in Fresh
    BY <1>1
  <2>2. fs[i] = g
    <3>1. i \in DOMAIN formatters_
      BY <1>1
    <3> HIDE DEF fs
    <3> QED
      BY <1>2, <3>1
  <2>3. f.flag = made[i].flag /\ g.flag = made[i].flag
    BY <2>1 DEF Fresh, Formatters
  <2>4. g = [made[i] EXCEPT !.memo = g.memo]
    <3> DEFINE memo == Memo(f, m, cached_tm_')
    <3>1. g = [f EXCEPT !.memo = memo]
      OBVIOUS
    <3>2. \A a, b \in Formatters \cup Fresh : \A x, y :
             a = [b EXCEPT !.memo = x] => [a EXCEPT !.memo = y] = [b EXCEPT !.memo = [a EXCEPT !.memo = y].memo]
      BY DEF Formatters, Fresh
    <3> HIDE DEF f, memo
    <3> QED
      BY <2>1, <3>1, <3>2
  <2>5. f.flag \in {"z", "+"} => cached_tm_' = LocalTime(SecsOf(m.time))
    BY <1>5, <2>3
  <2>6. g \in Formatters /\ UpToDate(g, m)
    <3> HIDE DEF f
    <3> QED
      BY <1>4, <2>1, <2>5, MemoKept
  <2>7. g.flag \in {"S", "D"} => cached_tm_' = LocalTime(SecsOf(m.time))
    BY <1>5, <2>3
  <2> HIDE DEF f, g
  <2> QED
    BY <2>2, <2>4, <2>6, <2>7
<1>7. fs \in Seq(Formatters) /\ Len(fs) = Len(made)
  <2>1. DOMAIN formatters_ = 1..Len(made)
    BY <1>1
  <2> DEFINE new == [i \in 1..Len(made) |->
                       [formatters_[i] EXCEPT !.memo = Memo(formatters_[i], m, cached_tm_')]]
  <2>2. fs = new
    BY <1>2, <2>1
  <2>3. \A i \in 1..Len(made) : new[i] \in Formatters
    BY <1>6, <2>2
  <2>4. new = [i \in 1..Len(made) |-> new[i]]
    OBVIOUS
  <2> HIDE DEF new
  <2>5. new \in Seq(Formatters) /\ Len(new) = Len(made)
    BY <1>1, <2>3, <2>4
  <2> QED
    BY <2>2, <2>5
<1> HIDE DEF fs
<1>8. Remade(fs, made)
  BY <1>6, <1>7 DEF Remade
<1>9. Ready(fs, m, cached_tm_')
  BY <1>4, <1>6, <1>7 DEF Ready
<1> QED
  BY <1>1, <1>7, <1>8, <1>9 DEF fs, made

\* The line of a message.
LEMMA FormatLine ==
    ASSUME PatternInv, NEW m \in Messages, Format(m)
    PROVE  \E f : /\ IsLine(f, Len(formatters_'), formatters_', m, cached_tm_')
                  /\ dest' = f[Len(formatters_')].dest /\ terminated' = f[Len(formatters_')].dead
<1> DEFINE n == Len(formatters_)
           F == CHOOSE f : IsLine(f, n, formatters_', m, cached_tm_')
<1>1. Ready(formatters_', m, cached_tm_') /\ Len(formatters_') = n
  BY FormatReady
<1>2. \E f : IsLine(f, Len(formatters_'), formatters_', m, cached_tm_')
  BY <1>1, LineExists
<1>3. IsLine(F, n, formatters_', m, cached_tm_')
  BY <1>1, <1>2
<1>4. dest' = F[n].dest /\ terminated' = F[n].dead
  BY DEF Format, IsLine
<1> HIDE DEF F, n
<1> QED
  BY <1>1, <1>3, <1>4

LEMMA InitPattern == Init => PatternInv
<1> SUFFICES ASSUME Init PROVE PatternInv
  OBVIOUS
<1>1. elements \in Patterns \cup Later
  BY DEF Init
<1>2. FormattersInv
  BY <1>1, CompiledAnew DEF Init, FormattersInv
<1>3. ClockInv
  BY TimeType DEF Init, ClockInv
<1>4. LineInv
  <2>1. msg = NoMsg /\ dest = <<>> /\ terminated = FALSE
    BY DEF Init
  <2>2. <<>> \in Seq(Cells(NoMsg))
    OBVIOUS
  <2> QED
    BY <2>1, <2>2 DEF LineInv
<1> QED
  BY <1>2, <1>3, <1>4 DEF PatternInv

LEMMA StepPattern == PatternInv /\ [Next]_vars => PatternInv'
<1> SUFFICES ASSUME PatternInv, [Next]_vars PROVE PatternInv'
  OBVIOUS
<1>1. ASSUME NEW es \in Later, SetPattern(es) PROVE PatternInv'
  <2>1. /\ elements' = es /\ formatters_' = Compile(Pattern(es)) /\ dest' = <<>> /\ msg' = NoMsg
        /\ need_localtime_' = NeedsLocaltime(formatters_') /\ terminated' = terminated
        /\ cached_tm_' = cached_tm_ /\ last_log_secs_' = last_log_secs_
    BY <1>1 DEF SetPattern, Compiled
  <2>2. FormattersInv'
    BY <2>1, CompiledAnew DEF FormattersInv
  <2>3. ClockInv'
    BY <2>1 DEF PatternInv, ClockInv
  <2>4. LineInv'
    BY <2>1 DEF PatternInv, LineInv
  <2> QED
    BY <2>2, <2>3, <2>4 DEF PatternInv
<1>2. CASE Clone
  <2>1. /\ elements' = elements /\ formatters_' = Compile(Pattern(elements)) /\ dest' = <<>> /\ msg' = NoMsg
        /\ need_localtime_' = need_localtime_ /\ terminated' = terminated
        /\ cached_tm_' = NoTime /\ last_log_secs_' = 0
    BY <1>2 DEF Clone, Compiled
  <2>2. FormattersInv'
    BY <2>1, CompiledAnew DEF PatternInv, FormattersInv
  <2>3. ClockInv'
    BY <2>1, TimeType DEF ClockInv
  <2>4. LineInv'
    BY <2>1 DEF PatternInv, LineInv
  <2> QED
    BY <2>2, <2>3, <2>4 DEF PatternInv
<1>3. ASSUME NEW m \in Messages, Format(m) PROVE PatternInv'
  <2>1. elements' = elements /\ need_localtime_' = need_localtime_ /\ msg' = m
    BY <1>3 DEF Format
  <2>2. FormattersInv'
    <3>1. Remade(formatters_', Compile(Pattern(elements)))
      BY <1>3, FormatReady
    <3> QED
      BY <2>1, <3>1 DEF PatternInv, FormattersInv
  <2>3. ClockInv'
    BY <1>3, ClockKept DEF PatternInv
  <2>4. LineInv'
    <3>1. Ready(formatters_', m, cached_tm_')
      BY <1>3, FormatReady
    <3>2. PICK f : /\ IsLine(f, Len(formatters_'), formatters_', m, cached_tm_')
                   /\ dest' = f[Len(formatters_')].dest /\ terminated' = f[Len(formatters_')].dead
      BY <1>3, FormatLine
    <3>3. \A i \in 0..Len(formatters_') : f[i] \in Line(m)
      BY <3>1, <3>2, LineIs
    <3>4. Len(formatters_') \in 0..Len(formatters_')
      BY <3>1 DEF Ready
    <3>5. f[Len(formatters_')] \in Line(m)
      BY <3>3, <3>4
    <3> QED
      BY <2>1, <3>2, <3>5 DEF LineInv, Line
  <2> QED
    BY <2>2, <2>3, <2>4 DEF PatternInv
<1>4. CASE UNCHANGED vars
  <2>1. /\ elements' = elements /\ formatters_' = formatters_ /\ dest' = dest /\ msg' = msg
        /\ need_localtime_' = need_localtime_ /\ terminated' = terminated
        /\ cached_tm_' = cached_tm_ /\ last_log_secs_' = last_log_secs_
    BY <1>4 DEF vars, compiled
  <2> QED
    BY <2>1 DEF PatternInv, FormattersInv, ClockInv, LineInv
<1> QED
  BY <1>1, <1>2, <1>3, <1>4 DEF Next

LEMMA PatternCorrect == Spec => []PatternInv
<1> QED
  BY InitPattern, StepPattern, PTL DEF Spec

\* The types, among them that no padding is wider than its limit
\* (pattern_formatter-inl.h:1340-1378), and that the time is broken down for every
\* flag that shows it (1068), whatever patterns and messages there are.
THEOREM TypeCorrect == Spec => []TypeOK
<1>1. PatternInv => TypeOK
  <2> SUFFICES ASSUME PatternInv PROVE TypeOK
    OBVIOUS
  <2> DEFINE made == Compile(Pattern(elements))
  <2>1. /\ elements \in Patterns \cup Later /\ need_localtime_ = NeedsLocaltime(made)
        /\ Remade(formatters_, made) /\ made \in Seq(Fresh)
    BY CompiledAnew DEF PatternInv, FormattersInv
  <2>2. need_localtime_ = NeedsLocaltime(formatters_) /\ formatters_ \in Seq(Formatters)
    BY <2>1, NeedsAlike DEF Remade
  <2>3. ASSUME NEW i \in DOMAIN formatters_
        PROVE  /\ formatters_[i].pad \in Padding /\ formatters_[i].pad.width <= MaxWidth
               /\ formatters_[i].memo \in [stamp : Nat, tm : Tm]
               /\ (formatters_[i].flag \in {"S", "D", "z", "+"} => need_localtime_)
    <3>1. formatters_[i] \in Formatters
      BY <2>2
    <3>2. formatters_[i].flag \in {"S", "D", "z", "+"} => need_localtime_
      BY <2>2 DEF NeedsLocaltime
    <3> QED
      BY <3>1, <3>2 DEF Formatters, Pads, Memory
  <2>4. need_localtime_ \in BOOLEAN
    BY <2>1 DEF NeedsLocaltime
  <2>5. /\ cached_tm_ \in Tm /\ last_log_secs_ \in Nat
        /\ (last_log_secs_ = 0) = (cached_tm_ = NoTime)
    BY TimeType DEF PatternInv, ClockInv
  <2>6. (\A i \in DOMAIN dest : dest[i].tm \in Tm) /\ terminated \in BOOLEAN
    <3>1. dest \in Seq(Cells(msg)) /\ terminated \in BOOLEAN
      BY DEF PatternInv, LineInv
    <3>2. \A i \in DOMAIN dest : dest[i] \in Cells(msg)
      BY <3>1
    <3>3. \A c \in Cells(msg) : c.tm \in Tm
      BY DEF Cells, Cell
    <3> QED
      BY <3>1, <3>2, <3>3
  <2> QED
    BY <2>1, <2>3, <2>4, <2>5, <2>6 DEF TypeOK
<1> QED
  BY <1>1, PatternCorrect, PTL

LEMMA CellsRight == PatternInv => \A i \in DOMAIN dest : Right(dest[i], msg)
  BY DEF PatternInv, LineInv, Cells

\* The date and time of a line are those of its message, for every order of
\* messages and patterns (pattern_formatter-inl.h:1068, 951).
THEOREM TimeCorrect == Spec => []TimeOfMessage
<1>1. PatternInv => TimeOfMessage
  BY CellsRight DEF TimeOfMessage, Right
<1> QED
  BY <1>1, PatternCorrect, PTL

\* The offset of a line is never older than Refresh (pattern_formatter-inl.h:634),
\* however late messages come.
THEOREM OffsetCorrect == Spec => []OffsetRecent
<1>1. PatternInv => OffsetRecent
  BY CellsRight DEF OffsetRecent, Right
<1> QED
  BY <1>1, PatternCorrect, PTL

-----------------------------------------------------------------------------
(* What a line shows, cell by cell, without the time.                      *)

Pair == (Chars \cup {""}) \X Nat
PairOf(c)  == <<c.of, c.n>>
PairsOf(s) == [i \in DOMAIN s |-> PairOf(s[i])]

Blank(n)     == [i \in 1..n |-> <<"", 0>>]
Row(c, n)    == [i \in 1..n |-> <<c, i>>]
Plainly(s)   == [i \in DOMAIN s |-> <<s[i], 0>>]
Framed(c, left, cells, pads) ==
    [i \in 1..pads + cells |-> IF i <= left \/ i > left + cells THEN <<"", 0>> ELSE <<c, i - left>>]

LEMMA PairIs ==
    ASSUME NEW c \in Cell
    PROVE  PairOf(c) \in Pair
BY DEF Cell, Pair, PairOf

LEMMA PairsType ==
    ASSUME NEW m, NEW s \in Seq(Cells(m))
    PROVE  /\ PairsOf(s) \in Seq(Pair) /\ Len(PairsOf(s)) = Len(s) /\ Len(s) \in Nat
           /\ \A i \in 1..Len(s) : PairsOf(s)[i] = PairOf(s[i])
<1>1. DOMAIN s = 1..Len(s) /\ Len(s) \in Nat /\ \A i \in 1..Len(s) : s[i] \in Cell
  BY DEF Cells
<1>2. \A i \in 1..Len(s) : PairOf(s[i]) \in Pair
  BY <1>1, PairIs
<1> QED
  BY <1>1, <1>2 DEF PairsOf

LEMMA PairsConcat ==
    ASSUME NEW m, NEW s \in Seq(Cells(m)), NEW t \in Seq(Cells(m))
    PROVE  PairsOf(s \o t) = PairsOf(s) \o PairsOf(t)
<1> DEFINE u == s \o t
           a == PairsOf(s)
           b == PairsOf(t)
           c == PairsOf(u)
           d == a \o b
<1>1. /\ u \in Seq(Cells(m)) /\ Len(u) = Len(s) + Len(t) /\ Len(s) \in Nat /\ Len(t) \in Nat
      /\ \A i \in 1..Len(s) + Len(t) : u[i] = IF i <= Len(s) THEN s[i] ELSE t[i - Len(s)]
  BY ConcatProperties
<1> HIDE DEF u
<1>2. /\ a \in Seq(Pair) /\ Len(a) = Len(s) /\ \A i \in 1..Len(s) : a[i] = PairOf(s[i])
      /\ b \in Seq(Pair) /\ Len(b) = Len(t) /\ \A i \in 1..Len(t) : b[i] = PairOf(t[i])
      /\ c \in Seq(Pair) /\ Len(c) = Len(u) /\ \A i \in 1..Len(u) : c[i] = PairOf(u[i])
  BY <1>1, PairsType
<1> HIDE DEF a, b, c
<1>3. /\ d \in Seq(Pair) /\ Len(d) = Len(a) + Len(b)
      /\ \A i \in 1..Len(a) + Len(b) : d[i] = IF i <= Len(a) THEN a[i] ELSE b[i - Len(a)]
  <2>1. a \in Seq(Pair) /\ b \in Seq(Pair)
    BY <1>2
  <2> QED
    BY <2>1, ConcatProperties
<1> HIDE DEF d
<1>4. /\ Len(d) = Len(s) + Len(t)
      /\ \A i \in 1..Len(s) + Len(t) : d[i] = IF i <= Len(s) THEN a[i] ELSE b[i - Len(s)]
  BY <1>2, <1>3
<1>5. ASSUME NEW i \in 1..Len(s) + Len(t) PROVE c[i] = d[i]
  <2>1. CASE i <= Len(s)
    <3>1. i \in 1..Len(s) /\ i \in 1..Len(u)
      BY <1>1, <2>1
    <3> QED
      BY <1>1, <1>2, <1>4, <2>1, <3>1
  <2>2. CASE ~(i <= Len(s))
    <3>1. i - Len(s) \in 1..Len(t) /\ i \in 1..Len(u)
      BY <1>1, <2>2
    <3>2. u[i] = t[i - Len(s)] /\ d[i] = b[i - Len(s)]
      BY <1>1, <1>4, <2>2
    <3>3. c[i] = PairOf(u[i]) /\ b[i - Len(s)] = PairOf(t[i - Len(s)])
      BY <1>2, <3>1
    <3> QED
      BY <3>2, <3>3
  <2> QED
    BY <2>1, <2>2
<1>6. Len(c) = Len(d) /\ \A i \in 1..Len(c) : c[i] = d[i]
  BY <1>1, <1>2, <1>4, <1>5
<1>7. c = d
  BY <1>2, <1>3, <1>6, SeqEqual
<1> QED
  BY <1>7 DEF a, b, c, d, u

\* The rows of pairs a line is made of.

LEMMA BlankIs ==
    ASSUME NEW n \in Nat
    PROVE  /\ Blank(n) \in Seq(Pair) /\ Len(Blank(n)) = n /\ DOMAIN Blank(n) = 1..n
           /\ \A i \in 1..n : Blank(n)[i] = <<"", 0>>
<1>1. <<"", 0>> \in Pair
  BY DEF Pair
<1> DEFINE e == <<"", 0>>
<1> HIDE DEF e
<1>2. Blank(n) = [i \in 1..n |-> e]
  BY DEF Blank, e
<1>3. e \in Pair
  BY <1>1 DEF e
<1>4. Blank(n) \in [1..n -> Pair] /\ \A i \in 1..n : Blank(n)[i] = e
  BY <1>2, <1>3
<1>5. DOMAIN Blank(n) = 1..n
  BY <1>2
<1> HIDE DEF Blank
<1>6. Blank(n) \in Seq(Pair) /\ Len(Blank(n)) = n
  BY <1>4, <1>5
<1> QED
  BY <1>4, <1>5, <1>6 DEF e

LEMMA BlankNone ==
    ASSUME NEW n \in Int, n <= 0
    PROVE  Blank(n) = <<>>
<1>1. 1..n = {}
  OBVIOUS
<1>2. DOMAIN Blank(n) = {} /\ Blank(n) = [i \in {} |-> Blank(n)[i]]
  BY <1>1 DEF Blank
<1> HIDE DEF Blank
<1> QED
  BY <1>2

LEMMA RowIs ==
    ASSUME NEW c \in Chars, NEW n \in Nat
    PROVE  /\ Row(c, n) \in Seq(Pair) /\ Len(Row(c, n)) = n /\ DOMAIN Row(c, n) = 1..n
           /\ \A i \in 1..n : Row(c, n)[i] = <<c, i>>
<1>1. \A i \in Nat : <<c, i>> \in Pair
  BY DEF Pair
<1> QED
  BY <1>1 DEF Row

LEMMA FramedIs ==
    ASSUME NEW c \in Chars, NEW pads \in Nat, NEW cells \in Nat, NEW left \in 0..pads
    PROVE  /\ Framed(c, left, cells, pads) = Blank(left) \o Row(c, cells) \o Blank(pads - left)
           /\ Framed(c, left, cells, pads) \in Seq(Pair)
<1> DEFINE x == Blank(left)
           y == Row(c, cells)
           z == Blank(pads - left)
           n == pads + cells
           f == Framed(c, left, cells, pads)
           xy == x \o y
           xyz == xy \o z
<1>1. left \in Nat /\ pads - left \in Nat
  OBVIOUS
<1>2. x \in Seq(Pair) /\ Len(x) = left /\ \A i \in 1..left : x[i] = <<"", 0>>
  BY <1>1, BlankIs
<1>3. y \in Seq(Pair) /\ Len(y) = cells /\ \A i \in 1..cells : y[i] = <<c, i>>
  BY RowIs
<1>4. z \in Seq(Pair) /\ Len(z) = pads - left /\ \A i \in 1..pads - left : z[i] = <<"", 0>>
  BY <1>1, BlankIs
<1> HIDE DEF x, y, z
<1>5. /\ xy \in Seq(Pair) /\ Len(xy) = Len(x) + Len(y)
      /\ \A i \in 1..Len(x) + Len(y) : xy[i] = IF i <= Len(x) THEN x[i] ELSE y[i - Len(x)]
  BY <1>2, <1>3, ConcatProperties
<1> HIDE DEF xy
<1>6. /\ xyz \in Seq(Pair) /\ Len(xyz) = Len(xy) + Len(z)
      /\ \A i \in 1..Len(xy) + Len(z) : xyz[i] = IF i <= Len(xy) THEN xy[i] ELSE z[i - Len(xy)]
  <2>1. xy \in Seq(Pair) /\ z \in Seq(Pair)
    BY <1>4, <1>5
  <2> QED
    BY <2>1, ConcatProperties
<1> HIDE DEF xyz
<1>7. Len(xy) = left + cells /\ Len(xyz) = n /\ n \in Nat
  <2>1. Len(x) = left /\ Len(y) = cells /\ Len(z) = pads - left
    BY <1>2, <1>3, <1>4
  <2>2. Len(xy) = Len(x) + Len(y) /\ Len(xyz) = Len(xy) + Len(z)
    BY <1>5, <1>6
  <2> QED
    BY <1>1, <2>1, <2>2
<1>8. ASSUME NEW i \in 1..n
      PROVE  xyz[i] = IF i <= left \/ i > left + cells THEN <<"", 0>> ELSE <<c, i - left>>
  <2>a. Len(x) = left /\ Len(y) = cells
    BY <1>2, <1>3
  <2>0. xyz[i] = IF i <= left + cells THEN xy[i] ELSE z[i - (left + cells)]
    BY <1>4, <1>6, <1>7
  <2>1. CASE i <= left
    <3>1. i \in 1..left /\ i \in 1..Len(x) + Len(y) /\ i <= left + cells
      BY <2>a, <2>1
    <3>2. xy[i] = x[i]
      BY <1>2, <1>5, <2>1, <3>1
    <3> QED
      BY <1>2, <2>0, <2>1, <3>1, <3>2
  <2>2. CASE i > left + cells
    <3>1. i - (left + cells) \in 1..pads - left /\ ~(i <= left + cells)
      BY <2>2
    <3> QED
      BY <1>4, <2>0, <2>2, <3>1
  <2>3. CASE ~(i <= left) /\ ~(i > left + cells)
    <3>1. i \in 1..Len(x) + Len(y) /\ i <= left + cells /\ i - left \in 1..cells
      BY <2>a, <2>3
    <3>2. xy[i] = y[i - left]
      BY <1>2, <1>5, <2>3, <3>1
    <3> QED
      BY <1>3, <2>0, <2>3, <3>1, <3>2
  <2> QED
    BY <2>1, <2>2, <2>3
<1>9. xyz = f
  <2>1. xyz = [i \in 1..n |-> xyz[i]]
    BY <1>6, <1>7
  <2> QED
    BY <1>8, <2>1 DEF Framed
<1> QED
  BY <1>6, <1>9 DEF x, y, z, xy, xyz

\* What a formatter adds to a line that it measures rightly.
Measured(f) == f.pad.enabled => f.flag # "D"
LeftOf(side, pads) == CASE side = "left" -> pads [] side = "center" -> pads \div 2 [] OTHER -> 0
ShownBy(f, m) ==
    LET size  == Size(f.flag, m)
        width == f.pad.width
        pads  == IF f.pad.enabled /\ size < width THEN width - size ELSE 0
        cells == IF f.pad.enabled /\ f.pad.truncate /\ size > width THEN width ELSE size
    IN  CASE f.flag = "text" -> Plainly(f.text)
          [] f.flag = "+"    -> Row("+", m.payload + 1)
          [] OTHER           -> Framed(f.flag, LeftOf(f.pad.side, pads), cells, pads)

LEMMA FieldPairs ==
    ASSUME NEW f \in Formatters, NEW m \in Messages, NEW tm \in Tm, UpToDate(f, m),
           f.flag \in {"S", "D"} => tm = LocalTime(SecsOf(m.time))
    PROVE  /\ f.flag = "text" => PairsOf(Field(f, m, tm)) = Plainly(f.text)
           /\ f.flag = "+" => PairsOf(Field(f, m, tm)) = Row("+", m.payload + 1)
           /\ f.flag \notin {"text", "+"} => PairsOf(Field(f, m, tm)) = Row(f.flag, Size(f.flag, m))
<1> DEFINE s == Field(f, m, tm)
<1>4. ASSUME f.flag = "text"
      PROVE  PairsOf(s) = Plainly(f.text)
  <2>1. s = [i \in DOMAIN f.text |-> [of |-> f.text[i], n |-> 0, tm |-> NoTime]]
    BY <1>4 DEF Field
  <2>2. DOMAIN s = DOMAIN f.text /\ \A i \in DOMAIN f.text : PairOf(s[i]) = <<f.text[i], 0>>
    BY <2>1 DEF PairOf
  <2> HIDE DEF s
  <2> QED
    BY <2>2 DEF PairsOf, Plainly
<1>5. ASSUME f.flag = "+"
      PROVE  PairsOf(s) = Row("+", m.payload + 1)
  <2>1. s = [i \in 1..m.payload + 1 |->
                [of |-> "+", n |-> i, tm |-> IF i = 1 THEN f.memo.tm ELSE NoTime]]
    BY <1>5 DEF Field
  <2>2. DOMAIN s = 1..m.payload + 1 /\ \A i \in 1..m.payload + 1 : PairOf(s[i]) = <<"+", i>>
    BY <2>1 DEF PairOf
  <2> HIDE DEF s
  <2> QED
    BY <2>2 DEF PairsOf, Row
<1>6. ASSUME f.flag \notin {"text", "+"}
      PROVE  PairsOf(s) = Row(f.flag, Size(f.flag, m))
  <2> DEFINE shown == CASE f.flag \in {"S", "D"} -> tm [] f.flag = "z" -> f.memo.tm [] OTHER -> NoTime
  <2>1. s = [i \in 1..Size(f.flag, m) |-> [of |-> f.flag, n |-> i, tm |-> shown]]
    BY <1>6 DEF Field
  <2> HIDE DEF shown
  <2>2. DOMAIN s = 1..Size(f.flag, m) /\ \A i \in 1..Size(f.flag, m) : PairOf(s[i]) = <<f.flag, i>>
    BY <2>1 DEF PairOf
  <2> HIDE DEF s
  <2> QED
    BY <2>2 DEF PairsOf, Row
<1> QED
  BY <1>4, <1>5, <1>6

LEMMA SpacesPairs ==
    ASSUME NEW n \in Int
    PROVE  PairsOf(Spaces(n)) = Blank(n)
<1>1. DOMAIN Spaces(n) = 1..n /\ \A i \in 1..n : PairOf(Spaces(n)[i]) = <<"", 0>>
  BY DEF Spaces, Space, PairOf
<1> HIDE DEF Spaces
<1> QED
  BY <1>1 DEF PairsOf, Blank

LEMMA FramedBare ==
    ASSUME NEW c, NEW cells \in Nat, NEW left, left = 0
    PROVE  Framed(c, left, cells, 0) = Row(c, cells)
<1>1. 0 + cells = cells
  OBVIOUS
<1>2. ASSUME NEW i \in 1..cells
      PROVE  (IF i <= 0 \/ i > 0 + cells THEN <<"", 0>> ELSE <<c, i - 0>>) = <<c, i>>
  <2>1. ~(i <= 0 \/ i > 0 + cells) /\ i - 0 = i
    OBVIOUS
  <2> QED
    BY <2>1
<1> QED
  BY <1>1, <1>2 DEF Framed, Row

LEMMA LeftOfIs ==
    ASSUME NEW side \in {"left", "right", "center"}, NEW pads \in Nat
    PROVE  LeftOf(side, pads) \in 0..pads
<1>1. pads \div 2 \in 0..pads
  OBVIOUS
<1> QED
  BY <1>1 DEF LeftOf

\* Cutting behind a sequence cuts what was added to it.
LEMMA CutBehind ==
    ASSUME NEW S, NEW a \in Seq(S), NEW b \in Seq(S), NEW w \in 0..Len(b)
    PROVE  SubSeq(a \o b, 1, Len(a) + w) = a \o SubSeq(b, 1, w)
<1> DEFINE s == a \o b
           c == SubSeq(b, 1, w)
           t == SubSeq(s, 1, Len(a) + w)
           u == a \o c
<1>1. /\ s \in Seq(S) /\ Len(s) = Len(a) + Len(b)
      /\ \A i \in 1..Len(a) + Len(b) : s[i] = IF i <= Len(a) THEN a[i] ELSE b[i - Len(a)]
  BY ConcatProperties
<1>2. Len(a) \in Nat /\ Len(b) \in Nat /\ w \in Nat
  OBVIOUS
<1>3. c \in Seq(S) /\ Len(c) = w /\ \A i \in 1..w : c[i] = b[i]
  <2>1. \A i \in 1..w : b[i] \in S
    BY <1>2
  <2> QED
    BY <1>2, <2>1, SubSeqProperties
<1> HIDE DEF s, c
<1>4. t \in Seq(S) /\ Len(t) = Len(a) + w /\ \A i \in 1..Len(a) + w : t[i] = s[i]
  <2> DEFINE n == Len(a) + w
  <2>1. n \in Nat /\ n <= Len(s)
    BY <1>1, <1>2
  <2>2. \A i \in 1..n : s[i] \in S
    BY <1>1, <2>1
  <2> HIDE DEF n
  <2>3. SubSeq(s, 1, n) \in Seq(S) /\ Len(SubSeq(s, 1, n)) = n /\ \A i \in 1..n : SubSeq(s, 1, n)[i] = s[i]
    BY <2>1, <2>2, SubSeqProperties
  <2> QED
    BY <2>3 DEF n
<1>5. /\ u \in Seq(S) /\ Len(u) = Len(a) + Len(c)
      /\ \A i \in 1..Len(a) + Len(c) : u[i] = IF i <= Len(a) THEN a[i] ELSE c[i - Len(a)]
  <2>1. a \in Seq(S) /\ c \in Seq(S)
    BY <1>3
  <2> QED
    BY <2>1, ConcatProperties
<1> HIDE DEF t, u
<1>6. Len(c) = w /\ Len(u) = Len(t)
  BY <1>3, <1>4, <1>5
<1>7. ASSUME NEW i \in 1..Len(a) + w PROVE t[i] = u[i]
  <2>1. i \in 1..Len(a) + Len(b) /\ i \in 1..Len(a) + Len(c)
    BY <1>2, <1>6
  <2>2. CASE i <= Len(a)
    BY <1>1, <1>4, <1>5, <2>1, <2>2
  <2>3. CASE ~(i <= Len(a))
    <3>1. i - Len(a) \in 1..w
      BY <1>2, <2>3
    <3>2. t[i] = b[i - Len(a)]
      BY <1>1, <1>4, <2>1, <2>3
    <3>3. u[i] = c[i - Len(a)]
      BY <1>5, <2>1, <2>3
    <3> QED
      BY <1>3, <3>1, <3>2, <3>3
  <2> QED
    BY <2>2, <2>3
<1>8. \A i \in 1..Len(t) : t[i] = u[i]
  BY <1>4, <1>7
<1> QED
  BY <1>4, <1>5, <1>6, <1>8, SeqEqual DEF t, u, s, c

\* (Equations with a name: the provers find it hard to match concatenations.)
InTurn(a, b, c, d)    == a \o b \o c \o d = a \o (b \o c \o d)
PairsInTurn(a, b, c, d) ==
    PairsOf(a \o b \o c \o d) = PairsOf(a) \o (PairsOf(b) \o PairsOf(c) \o PairsOf(d))

LEMMA FourInTurn ==
    ASSUME NEW S, NEW a \in Seq(S), NEW b \in Seq(S), NEW c \in Seq(S), NEW d \in Seq(S)
    PROVE  InTurn(a, b, c, d)
<1> DEFINE bc == b \o c
<1>1. bc \in Seq(S) /\ (a \o b) \o c = a \o bc
  BY ConcatProperties, ConcatAssociative
<1> HIDE DEF bc
<1>2. (a \o bc) \o d = a \o (bc \o d)
  BY <1>1, ConcatAssociative
<1> QED
  BY <1>1, <1>2 DEF bc, InTurn

\* The line, the spaces, the field and the spaces after it.
LEMMA PairsFour ==
    ASSUME NEW m, NEW a \in Seq(Cells(m)), NEW b \in Seq(Cells(m)), NEW c \in Seq(Cells(m)),
           NEW d \in Seq(Cells(m))
    PROVE  PairsInTurn(a, b, c, d)
<1> DEFINE A == PairsOf(a)
           B == PairsOf(b)
           C == PairsOf(c)
           D == PairsOf(d)
           ab == a \o b
           abc == ab \o c
<1>1. ab \in Seq(Cells(m)) /\ PairsOf(ab) = A \o B
  BY ConcatProperties, PairsConcat
<1> HIDE DEF ab
<1>2. abc \in Seq(Cells(m)) /\ PairsOf(abc) = (A \o B) \o C
  BY <1>1, ConcatProperties, PairsConcat
<1> HIDE DEF abc
<1>3. PairsOf(abc \o d) = ((A \o B) \o C) \o D
  BY <1>2, PairsConcat
<1>4. A \in Seq(Pair) /\ B \in Seq(Pair) /\ C \in Seq(Pair) /\ D \in Seq(Pair)
  BY PairsType
<1> HIDE DEF A, B, C, D
<1>5. ((A \o B) \o C) \o D = A \o (B \o C \o D)
  <2>1. InTurn(A, B, C, D)
    BY <1>4, FourInTurn
  <2> QED
    BY <2>1 DEF InTurn
<1> QED
  BY <1>3, <1>5 DEF A, B, C, D, ab, abc, PairsInTurn

LEMMA AppendedShows ==
    ASSUME NEW f \in Formatters, NEW m \in Messages, NEW tm \in Tm, UpToDate(f, m),
           f.flag \in {"S", "D"} => tm = LocalTime(SecsOf(m.time)), NEW line \in Line(m),
           ~line.dead, Measured(f)
    PROVE  /\ ~Appended(line, f, m, tm).dead
           /\ PairsOf(Appended(line, f, m, tm).dest) = PairsOf(line.dest) \o ShownBy(f, m)
<1> DEFINE a == line.dest
           s == Field(f, m, tm)
           size == Size(f.flag, m)
           width == f.pad.width
<1>1. /\ f.flag \in Kinds /\ f.pad \in Pads /\ m.payload \in Nat
      /\ (f.flag = "text" => ~f.pad.enabled) /\ a \in Seq(Cells(m))
  BY MessageType, NoPadIs DEF Formatters, Line
<1>2. /\ s \in Seq(Cells(m)) /\ (f.flag \notin {"text", "+"} => Len(s) = size)
      /\ (f.flag = "text" => PairsOf(s) = Plainly(f.text))
      /\ (f.flag = "+" => PairsOf(s) = Row("+", m.payload + 1))
      /\ (f.flag \notin {"text", "+"} => PairsOf(s) = Row(f.flag, size))
  BY FieldCells, FieldPairs
<1>3. f.flag \notin {"text", "+"} => f.flag \in Flags \ {"%"} /\ f.flag \in Chars /\ size \in Nat
  BY <1>1, SizeType DEF Kinds, Chars
<1>4. f.pad.side \in {"left", "right", "center"} /\ width \in Nat /\ f.pad.enabled \in BOOLEAN
      /\ f.pad.truncate \in BOOLEAN
  BY <1>1 DEF Pads, Padding
<1>5. CASE ~f.pad.enabled \/ f.flag = "+"
  <2>1. Appended(line, f, m, tm) = [line EXCEPT !.dest = a \o s]
    BY <1>5 DEF Appended
  <2>2. Appended(line, f, m, tm).dest = a \o s /\ Appended(line, f, m, tm).dead = line.dead
    BY <2>1 DEF Line
  <2>3. PairsOf(s) = ShownBy(f, m)
    <3>1. CASE f.flag = "text"
      BY <1>2, <3>1 DEF ShownBy
    <3>2. CASE f.flag = "+"
      BY <1>2, <3>2 DEF ShownBy
    <3>3. CASE f.flag \notin {"text", "+"}
      <4>1. ShownBy(f, m) = Framed(f.flag, LeftOf(f.pad.side, 0), size, 0)
        BY <1>5, <3>3 DEF ShownBy
      <4>2. LeftOf(f.pad.side, 0) = 0
        BY <1>4, LeftOfIs
      <4> QED
        BY <1>2, <1>3, <3>3, <4>1, <4>2, FramedBare
    <3> QED
      BY <3>1, <3>2, <3>3
  <2>4. PairsOf(a \o s) = PairsOf(a) \o PairsOf(s)
    BY <1>1, <1>2, PairsConcat
  <2> QED
    BY <2>2, <2>3, <2>4
<1>6. CASE f.pad.enabled /\ f.flag # "+"
  <2>1. f.flag \notin {"text", "+", "D"} /\ Declared(f.flag, m) = size /\ size \in Nat /\ f.flag \in Chars
    BY <1>1, <1>3, <1>6 DEF Measured, Declared
  <2> DEFINE remaining == width - size
             b == PadBefore(f.pad, remaining)
             e == PadAfter(f.pad, remaining)
             field == a \o Spaces(b) \o s
             cut == f.pad.truncate /\ e < 0
             long  == [line EXCEPT !.dest = field \o Spaces(e)]
             short == [line EXCEPT !.dest = SubSeq(field, 1, Len(field) + e)]
  <2>2. Appended(line, f, m, tm)
          = CASE ~cut -> long [] cut /\ Len(field) + e >= 0 -> short
              [] OTHER -> [line EXCEPT !.dead = TRUE]
    BY <1>6, <2>1 DEF Appended
  <2>3. remaining \in Int /\ b \in Nat /\ e \in Int
    <3>1. remaining \in Int /\ f.pad \in Pads
      BY <1>1, <1>4, <2>1
    <3> HIDE DEF remaining
    <3> QED
      BY <3>1, PadsType
  <2>4. /\ PairsOf(Spaces(b)) = Blank(b) /\ PairsOf(Spaces(e)) = Blank(e)
        /\ Spaces(b) \in Seq(Cells(m)) /\ Spaces(e) \in Seq(Cells(m)) /\ Len(Spaces(b)) = b
    <3>1. \A n \in Int : PairsOf(Spaces(n)) = Blank(n) /\ Spaces(n) \in Seq(Cells(m))
                         /\ Len(Spaces(n)) = IF n > 0 THEN n ELSE 0
      BY SpacesPairs, SpacesType
    <3> HIDE DEF b, e
    <3> QED
      BY <2>3, <3>1
  <2>5. PairsOf(s) = Row(f.flag, size) /\ Len(s) = size
    BY <1>2, <2>1
  <2>6. ~cut => /\ Appended(line, f, m, tm).dest = field \o Spaces(e)
                /\ Appended(line, f, m, tm).dead = line.dead
    <3> HIDE DEF field, cut, b, e
    <3> QED
      BY <2>2 DEF Line
  <2>7. PairsOf(field \o Spaces(e)) = PairsOf(a) \o (Blank(b) \o Row(f.flag, size) \o Blank(e))
    <3> DEFINE x == Spaces(b)
               z == Spaces(e)
    <3>1. /\ a \in Seq(Cells(m)) /\ x \in Seq(Cells(m)) /\ s \in Seq(Cells(m)) /\ z \in Seq(Cells(m))
          /\ PairsOf(x) = Blank(b) /\ PairsOf(z) = Blank(e)
      BY <1>1, <1>2, <2>4
    <3> HIDE DEF b, e, s, a, size, x, z
    <3>2. PairsInTurn(a, x, s, z)
      BY <3>1, PairsFour
    <3> QED
      BY <2>5, <3>1, <3>2 DEF x, z, PairsInTurn
  <2>8. CASE remaining > 0
    <3>1. b = LeftOf(f.pad.side, remaining) /\ e = remaining - b /\ b \in 0..remaining /\ ~cut
      <4>1. b = LeftOf(f.pad.side, remaining) /\ e = remaining - b
        BY <1>4, <2>8 DEF PadBefore, PadAfter, LeftOf
      <4>2. LeftOf(f.pad.side, remaining) \in 0..remaining
        BY <1>4, <2>3, <2>8, LeftOfIs
      <4> HIDE DEF b, e, remaining
      <4> QED
        BY <2>3, <2>8, <4>1, <4>2
    <3>2. ShownBy(f, m) = Framed(f.flag, LeftOf(f.pad.side, remaining), size, remaining)
      <4>1. size < width /\ ~(size > width)
        BY <1>4, <2>1, <2>8
      <4> QED
        BY <1>6, <2>1, <4>1 DEF ShownBy
    <3>3. Framed(f.flag, b, size, remaining) = Blank(b) \o Row(f.flag, size) \o Blank(remaining - b)
      <4> DEFINE c == f.flag
      <4>1. remaining \in Nat /\ size \in Nat /\ b \in 0..remaining /\ c \in Chars
        <5> HIDE DEF b, size, remaining
        <5> QED
          BY <2>1, <2>3, <2>8, <3>1
      <4> HIDE DEF b, size, remaining, c
      <4>2. Framed(c, b, size, remaining) = Blank(b) \o Row(c, size) \o Blank(remaining - b)
        BY <4>1, FramedIs
      <4> QED
        BY <4>2 DEF c
    <3> HIDE DEF b, e, remaining, field, cut
    <3> QED
      BY <2>6, <2>7, <3>1, <3>2, <3>3
  <2>9. CASE remaining <= 0
    <3>1. b = 0 /\ e = remaining
      <4> HIDE DEF remaining
      <4> QED
        BY <1>1, <2>3, <2>9, PadsType
    <3>2. Blank(b) = <<>> /\ Blank(e) = <<>> /\ Spaces(b) = <<>>
      <4>1. Blank(b) = <<>> /\ Blank(e) = <<>>
        <5> HIDE DEF b, e, remaining
        <5> QED
          BY <2>3, <2>9, <3>1, BlankNone
      <4>2. Spaces(b) = <<>>
        <5> HIDE DEF b
        <5> QED
          BY <2>4, <3>1
      <4> QED
        BY <4>1, <4>2
    <3>3. Row(f.flag, size) \in Seq(Pair)
      BY <2>1, RowIs
    <3>4. <<>> \o Row(f.flag, size) \o <<>> = Row(f.flag, size)
      BY <3>3, ConcatEmptySeq
    <3>5. LeftOf(f.pad.side, 0) = 0
      BY <1>4, LeftOfIs
    <3>6. CASE ~cut
      <4>1. ~(size < width) /\ ~(f.pad.truncate /\ size > width)
        <5> HIDE DEF e
        <5> QED
          BY <1>4, <2>1, <2>9, <3>1, <3>6
      <4>2. ShownBy(f, m) = Framed(f.flag, LeftOf(f.pad.side, 0), size, 0)
        BY <1>6, <2>1, <4>1 DEF ShownBy
      <4>3. ShownBy(f, m) = Row(f.flag, size)
        BY <2>1, <3>5, <4>2, FramedBare
      <4> HIDE DEF field, b, e, cut
      <4> QED
        BY <2>6, <2>7, <3>2, <3>4, <3>6, <4>3
    <3>7. CASE cut
      <4>1. f.pad.truncate /\ size > width /\ ~(size < width) /\ width \in 0..size /\ e = width - size
        <5> HIDE DEF e
        <5> QED
          BY <1>4, <2>1, <2>9, <3>1, <3>7
      <4>2. ShownBy(f, m) = Framed(f.flag, LeftOf(f.pad.side, 0), width, 0)
        BY <1>6, <2>1, <4>1 DEF ShownBy
      <4>3. ShownBy(f, m) = Row(f.flag, width)
        BY <1>4, <3>5, <4>2, FramedBare
      <4>4. field = a \o s /\ Len(field) = Len(a) + size /\ Len(a) \in Nat
        <5>1. a \o <<>> = a
          BY <1>1, ConcatEmptySeq
        <5>2. Len(a \o s) = Len(a) + Len(s)
          BY <1>1, <1>2, ConcatProperties
        <5>3. Len(a) \in Nat
          BY <1>1
        <5> HIDE DEF b, a, s
        <5> QED
          BY <2>5, <3>2, <5>1, <5>2, <5>3
      <4>5. Len(field) + e = Len(a) + width
        <5> HIDE DEF field, e, a, size, width
        <5> QED
          BY <1>4, <2>1, <4>1, <4>4
      <4>6. /\ Appended(line, f, m, tm).dest = SubSeq(field, 1, Len(a) + width)
            /\ Appended(line, f, m, tm).dead = line.dead
        <5>1. Len(a) + width >= 0
          BY <1>4, <4>4
        <5>2. Appended(line, f, m, tm) = [line EXCEPT !.dest = SubSeq(field, 1, Len(a) + width)]
          <6> HIDE DEF field, e, cut
          <6> QED
            BY <2>2, <3>7, <4>5, <5>1
        <5> HIDE DEF field
        <5> QED
          BY <5>2 DEF Line
      <4> DEFINE t == SubSeq(s, 1, width)
      <4>7. SubSeq(field, 1, Len(a) + width) = a \o t
        <5>1. width \in 0..Len(s)
          BY <2>5, <4>1
        <5> HIDE DEF field, a, s, width
        <5> QED
          BY <1>1, <1>2, <4>4, <5>1, CutBehind
      <4>8. t \in Seq(Cells(m)) /\ PairsOf(t) = Row(f.flag, width)
        <5>1. \A i \in 1..width : s[i] \in Cells(m) /\ PairOf(s[i]) = <<f.flag, i>>
          <6>1. \A i \in 1..size : s[i] \in Cells(m) /\ PairsOf(s)[i] = PairOf(s[i])
            <7> HIDE DEF s
            <7> QED
              BY <1>2, <2>5, PairsType
          <6>2. \A i \in 1..size : Row(f.flag, size)[i] = <<f.flag, i>>
            BY DEF Row
          <6>3. \A i \in 1..width : i \in 1..size
            BY <2>1, <4>1
          <6> HIDE DEF s, size, width
          <6> QED
            BY <2>5, <6>1, <6>2, <6>3
        <5>2. t \in Seq(Cells(m)) /\ Len(t) = width /\ \A i \in 1..width : t[i] = s[i]
          <6> HIDE DEF s, width
          <6>1. \A i \in 1..width : s[i] \in Cells(m)
            BY <5>1
          <6> QED
            BY <1>4, <6>1, SubSeqProperties
        <5> HIDE DEF t, s, width
        <5>3. DOMAIN t = 1..width /\ \A i \in 1..width : PairOf(t[i]) = <<f.flag, i>>
          BY <1>4, <5>1, <5>2
        <5> QED
          BY <5>2, <5>3 DEF PairsOf, Row
      <4>9. PairsOf(a \o t) = PairsOf(a) \o PairsOf(t)
        <5> HIDE DEF t, a
        <5> QED
          BY <1>1, <4>8, PairsConcat
      <4> HIDE DEF t, field, size, width
      <4> QED
        BY <4>3, <4>6, <4>7, <4>8, <4>9
    <3> QED
      BY <3>6, <3>7
  <2> QED
    BY <2>3, <2>8, <2>9
<1> QED
  BY <1>4, <1>5, <1>6

\* What a line shows that formatters have made.
Shows(fs, m) == Joined([i \in DOMAIN fs |-> ShownBy(fs[i], m)])
AllMeasured(fs) == \A i \in DOMAIN fs : Measured(fs[i])

LEMMA PlainlyType ==
    ASSUME NEW s \in Seq(Chars)
    PROVE  /\ Plainly(s) \in Seq(Pair) /\ Len(Plainly(s)) = Len(s) /\ Len(s) \in Nat
           /\ \A i \in 1..Len(s) : Plainly(s)[i] = <<s[i], 0>>
<1>1. DOMAIN s = 1..Len(s) /\ Len(s) \in Nat /\ \A i \in 1..Len(s) : s[i] \in Chars
  OBVIOUS
<1>2. \A c \in Chars : <<c, 0>> \in Pair
  BY DEF Pair
<1>3. \A i \in 1..Len(s) : <<s[i], 0>> \in Pair
  BY <1>1, <1>2
<1> QED
  BY <1>1, <1>3 DEF Plainly

LEMMA ShownByType ==
    ASSUME NEW f \in Formatters, NEW m \in Messages
    PROVE  ShownBy(f, m) \in Seq(Pair)
<1> DEFINE size  == Size(f.flag, m)
           width == f.pad.width
           pads  == IF f.pad.enabled /\ size < width THEN width - size ELSE 0
           cells == IF f.pad.enabled /\ f.pad.truncate /\ size > width THEN width ELSE size
           left  == LeftOf(f.pad.side, pads)
<1>1. /\ f.flag \in Kinds /\ f.text \in Seq(Chars) /\ m.payload \in Nat
      /\ f.pad.side \in {"left", "right", "center"} /\ width \in Nat
  BY MessageType DEF Formatters, Pads, Padding
<1>2. CASE f.flag = "text"
  BY <1>1, <1>2, PlainlyType DEF ShownBy
<1>3. CASE f.flag = "+"
  <2>1. "+" \in Chars /\ m.payload + 1 \in Nat
    BY <1>1 DEF Chars, Flags
  <2>2. ShownBy(f, m) = Row("+", m.payload + 1)
    BY <1>3 DEF ShownBy
  <2> QED
    BY <2>1, <2>2, RowIs
<1>4. CASE f.flag \notin {"text", "+"}
  <2>1. f.flag \in Flags \ {"%"} /\ f.flag \in Chars
    BY <1>1, <1>4 DEF Kinds, Chars
  <2>2. size \in Nat
    BY <2>1, SizeType
  <2>3. pads \in Nat /\ cells \in Nat
    <3> HIDE DEF size, width
    <3> QED
      BY <1>1, <2>2
  <2>4. left \in 0..pads
    <3> HIDE DEF pads
    <3> QED
      BY <1>1, <2>3, LeftOfIs
  <2>5. ShownBy(f, m) = Framed(f.flag, left, cells, pads)
    BY <1>4 DEF ShownBy
  <2> HIDE DEF left, cells, pads
  <2> QED
    BY <2>1, <2>3, <2>4, <2>5, FramedIs
<1> QED
  BY <1>2, <1>3, <1>4

LEMMA ShowsPieces ==
    ASSUME NEW fs \in Seq(Formatters), NEW m \in Messages
    PROVE  /\ [i \in DOMAIN fs |-> ShownBy(fs[i], m)] \in Seq(Seq(Pair))
           /\ Len([i \in DOMAIN fs |-> ShownBy(fs[i], m)]) = Len(fs)
           /\ DOMAIN fs = 1..Len(fs) /\ Len(fs) \in Nat
           /\ Shows(fs, m) \in Seq(Pair)
<1> DEFINE s == [i \in DOMAIN fs |-> ShownBy(fs[i], m)]
<1>1. DOMAIN fs = 1..Len(fs) /\ Len(fs) \in Nat /\ \A i \in 1..Len(fs) : fs[i] \in Formatters
  OBVIOUS
<1>2. \A i \in 1..Len(fs) : ShownBy(fs[i], m) \in Seq(Pair)
  BY <1>1, ShownByType
<1>3. s \in Seq(Seq(Pair)) /\ Len(s) = Len(fs)
  BY <1>1, <1>2
<1> HIDE DEF s
<1>4. Joined(s) \in Seq(Pair)
  BY <1>3, JoinedType
<1> QED
  BY <1>1, <1>3, <1>4 DEF Shows, s

LEMMA LineShows ==
    ASSUME NEW fs, NEW m \in Messages, NEW tm, Ready(fs, m, tm), NEW f,
           IsLine(f, Len(fs), fs, m, tm), AllMeasured(fs)
    PROVE  ~f[Len(fs)].dead /\ PairsOf(f[Len(fs)].dest) = Shows(fs, m)
<1> DEFINE s == [i \in DOMAIN fs |-> ShownBy(fs[i], m)]
           n == Len(fs)
<1>1. /\ fs \in Seq(Formatters) /\ n \in Nat /\ DOMAIN fs = 1..n
      /\ \A i \in 1..n : fs[i] \in Formatters /\ UpToDate(fs[i], m) /\ Measured(fs[i])
                           /\ (fs[i].flag \in {"S", "D"} => tm = LocalTime(SecsOf(m.time)))
      /\ tm \in Tm
  BY DEF Ready, AllMeasured
<1>2. s \in Seq(Seq(Pair)) /\ Len(s) = n /\ Shows(fs, m) = Joined(s) /\ \A i \in 1..n : s[i] = ShownBy(fs[i], m)
  BY <1>1, ShowsPieces DEF Shows
<1> HIDE DEF s
<1>3. PICK J : JoinsFrom(J, s, Pair) /\ Joined(s) = J[1]
  BY <1>2, JoinedIs
<1>4. /\ J[n + 1] = <<>>
      /\ \A i \in 1..n : J[i] = s[i] \o J[i + 1]
      /\ \A i \in 1..n + 1 : J[i] \in Seq(Pair)
  <2>1. /\ J[Len(s) + 1] = <<>>
        /\ \A i \in 1..Len(s) : J[i] = s[i] \o J[i + 1]
        /\ \A i \in 1..Len(s) + 1 : J[i] \in Seq(Pair)
    BY <1>3 DEF JoinsFrom
  <2> HIDE DEF n
  <2> QED
    BY <1>2, <2>1
<1>5. /\ f[0] = [dest |-> <<>>, dead |-> FALSE]
      /\ \A i \in 1..n : f[i] = Appended(f[i - 1], fs[i], m, tm)
      /\ \A i \in 0..n : f[i] \in Line(m)
  BY LineIs
<1>6. \A i \in 0..n : f[i].dest \in Seq(Cells(m)) /\ PairsOf(f[i].dest) \in Seq(Pair)
  <2>1. \A i \in 0..n : f[i].dest \in Seq(Cells(m))
    BY <1>5 DEF Line
  <2> QED
    BY <2>1, PairsType
<1> HIDE DEF n
<1> DEFINE T == {k \in 0..n : ~f[k].dead /\ PairsOf(f[k].dest) \o J[k + 1] = J[1]}
<1>7. 0 \in T
  <2>1. f[0].dest = <<>> /\ ~f[0].dead /\ 0 \in 0..n /\ 1 \in 1..n + 1
    BY <1>1, <1>5
  <2>2. PairsOf(<<>>) = <<>>
    BY DEF PairsOf
  <2>3. <<>> \o J[1] = J[1]
    BY <1>4, <2>1, ConcatEmptySeq
  <2>4. PairsOf(f[0].dest) \o J[0 + 1] = J[1]
    <3>1. PairsOf(f[0].dest) = <<>> /\ 0 + 1 = 1
      BY <2>1, <2>2
    <3> QED
      BY <2>3, <3>1
  <2> QED
    BY <2>1, <2>4
<1>8. ASSUME NEW k \in 0..n - 1, k \in T PROVE k + 1 \in T
  <2>1. k + 1 \in 1..n /\ k + 1 \in 0..n /\ (k + 1) - 1 = k /\ k \in 0..n /\ k + 1 \in 1..n + 1
        /\ k + 2 \in 1..n + 1 /\ (k + 1) + 1 = k + 2
    BY <1>1
  <2> DEFINE g == fs[k + 1]
             l == f[k]
             a == PairsOf(l.dest)
             b == ShownBy(g, m)
             c == J[k + 2]
  <2>2. f[k + 1] = Appended(l, g, m, tm)
    BY <1>5, <2>1
  <2>3. /\ g \in Formatters /\ l \in Line(m) /\ UpToDate(g, m) /\ ~l.dead /\ Measured(g)
        /\ (g.flag \in {"S", "D"} => tm = LocalTime(SecsOf(m.time)))
    BY <1>1, <1>5, <1>8, <2>1
  <2>4. ~f[k + 1].dead /\ PairsOf(f[k + 1].dest) = a \o b
    <3> HIDE DEF g, l
    <3>1. /\ ~Appended(l, g, m, tm).dead
          /\ PairsOf(Appended(l, g, m, tm).dest) = PairsOf(l.dest) \o ShownBy(g, m)
      BY <1>1, <2>3, AppendedShows
    <3> QED
      BY <2>2, <3>1
  <2>5. a \o J[k + 1] = J[1] /\ J[k + 1] = b \o c
    <3>1. s[k + 1] = b
      BY <1>2, <2>1
    <3>2. J[k + 1] = s[k + 1] \o J[k + 2]
      BY <1>4, <2>1
    <3> QED
      BY <1>8, <3>1, <3>2
  <2>6. a \in Seq(Pair) /\ b \in Seq(Pair) /\ c \in Seq(Pair)
    <3>1. a \in Seq(Pair) /\ c \in Seq(Pair)
      BY <1>4, <1>6, <2>1
    <3>2. b \in Seq(Pair)
      BY <2>3, ShownByType
    <3> QED
      BY <3>1, <3>2
  <2> HIDE DEF a, b, c
  <2>7. ThreeInTurn(a, b, c)
    BY <2>6, InThree
  <2>8. PairsOf(f[k + 1].dest) \o c = J[1]
    BY <2>4, <2>5, <2>7 DEF ThreeInTurn
  <2> QED
    BY <2>1, <2>4, <2>8 DEF c
<1>9. \A k \in 0..n : k \in T
  <2> HIDE DEF T
  <2> QED
    BY <1>1, <1>7, <1>8, CountedUp
<1>10. ~f[n].dead /\ PairsOf(f[n].dest) \o <<>> = J[1]
  <2>1. n \in 0..n
    BY <1>1
  <2> QED
    BY <1>4, <1>9, <2>1
<1>11. PairsOf(f[n].dest) \o <<>> = PairsOf(f[n].dest)
  <2>1. n \in 0..n
    BY <1>1
  <2>2. PairsOf(f[n].dest) \in Seq(Pair)
    BY <1>6, <2>1
  <2> QED
    BY <2>2, ConcatEmptySeq
<1> QED
  BY <1>2, <1>3, <1>10, <1>11 DEF n

LEMMA ShowsAlike ==
    ASSUME NEW made \in Seq(Fresh), NEW fs, Remade(fs, made), NEW m
    PROVE  Shows(fs, m) = Shows(made, m) /\ (AllMeasured(made) => AllMeasured(fs))
<1>1. /\ DOMAIN fs = DOMAIN made /\ DOMAIN made = 1..Len(made)
      /\ \A i \in DOMAIN made : /\ fs[i].flag = made[i].flag /\ fs[i].text = made[i].text
                                /\ fs[i].pad = made[i].pad
  <2>1. DOMAIN fs = 1..Len(made) /\ DOMAIN made = 1..Len(made)
    BY DEF Remade
  <2>2. \A i \in 1..Len(made) : /\ fs[i].flag = made[i].flag /\ fs[i].text = made[i].text
                                /\ fs[i].pad = made[i].pad
    BY NeedsAlike
  <2> QED
    BY <2>1, <2>2
<1>2. \A i \in DOMAIN made : ShownBy(fs[i], m) = ShownBy(made[i], m)
  BY <1>1 DEF ShownBy
<1> QED
  BY <1>1, <1>2 DEF Shows, AllMeasured, Measured

\* Formatters that measure rightly and show s of a message.
Reads(fs, m, s) == fs \in Seq(Fresh) /\ AllMeasured(fs) /\ Shows(fs, m) = s

LEMMA FreshPieces ==
    ASSUME NEW fs \in Seq(Fresh), NEW m \in Messages
    PROVE  /\ [i \in DOMAIN fs |-> ShownBy(fs[i], m)] \in Seq(Seq(Pair))
           /\ Len([i \in DOMAIN fs |-> ShownBy(fs[i], m)]) = Len(fs)
           /\ DOMAIN fs = 1..Len(fs) /\ Len(fs) \in Nat
           /\ Shows(fs, m) \in Seq(Pair)
<1>1. fs \in Seq(Formatters)
  BY FreshIsFormatter, SeqMonotonic
<1> QED
  BY <1>1, ShowsPieces

LEMMA ShowsConcat ==
    ASSUME NEW fs \in Seq(Fresh), NEW gs \in Seq(Fresh), NEW m \in Messages
    PROVE  /\ Shows(fs \o gs, m) = Shows(fs, m) \o Shows(gs, m)
           /\ AllMeasured(fs \o gs) <=> AllMeasured(fs) /\ AllMeasured(gs)
<1> DEFINE hs == fs \o gs
           a == [i \in DOMAIN fs |-> ShownBy(fs[i], m)]
           b == [i \in DOMAIN gs |-> ShownBy(gs[i], m)]
           c == [i \in DOMAIN hs |-> ShownBy(hs[i], m)]
           d == a \o b
<1>1. /\ hs \in Seq(Fresh) /\ Len(hs) = Len(fs) + Len(gs) /\ Len(fs) \in Nat /\ Len(gs) \in Nat
      /\ \A i \in 1..Len(fs) + Len(gs) : hs[i] = IF i <= Len(fs) THEN fs[i] ELSE gs[i - Len(fs)]
  BY ConcatProperties
<1>2. DOMAIN fs = 1..Len(fs) /\ DOMAIN gs = 1..Len(gs)
  OBVIOUS
<1> HIDE DEF hs
<1>3. DOMAIN hs = 1..Len(fs) + Len(gs)
  BY <1>1
<1>4. /\ a \in Seq(Seq(Pair)) /\ Len(a) = Len(fs) /\ \A i \in 1..Len(fs) : a[i] = ShownBy(fs[i], m)
      /\ b \in Seq(Seq(Pair)) /\ Len(b) = Len(gs) /\ \A i \in 1..Len(gs) : b[i] = ShownBy(gs[i], m)
      /\ c \in Seq(Seq(Pair)) /\ Len(c) = Len(fs) + Len(gs)
      /\ \A i \in 1..Len(fs) + Len(gs) : c[i] = ShownBy(hs[i], m)
  <2>1. a \in Seq(Seq(Pair)) /\ Len(a) = Len(fs)
    BY FreshPieces
  <2>2. b \in Seq(Seq(Pair)) /\ Len(b) = Len(gs)
    BY FreshPieces
  <2>3. c \in Seq(Seq(Pair)) /\ Len(c) = Len(hs)
    BY <1>1, FreshPieces
  <2> QED
    BY <1>1, <1>2, <1>3, <2>1, <2>2, <2>3
<1> HIDE DEF a, b, c
<1>5. /\ d \in Seq(Seq(Pair)) /\ Len(d) = Len(a) + Len(b)
      /\ \A i \in 1..Len(a) + Len(b) : d[i] = IF i <= Len(a) THEN a[i] ELSE b[i - Len(a)]
  <2>1. a \in Seq(Seq(Pair)) /\ b \in Seq(Seq(Pair))
    BY <1>4
  <2> QED
    BY <2>1, ConcatProperties
<1>6. Joined(d) = Joined(a) \o Joined(b)
  <2>1. a \in Seq(Seq(Pair)) /\ b \in Seq(Seq(Pair))
    BY <1>4
  <2> QED
    BY <2>1, JoinedConcat
<1> HIDE DEF d
<1>7. Len(a) = Len(fs) /\ Len(b) = Len(gs) /\ Len(d) = Len(c)
  BY <1>4, <1>5
<1>8. ASSUME NEW i \in 1..Len(fs) + Len(gs) PROVE c[i] = d[i]
  <2>1. i \in 1..Len(a) + Len(b) /\ c[i] = ShownBy(hs[i], m)
    BY <1>4, <1>7
  <2>2. CASE i <= Len(fs)
    <3>1. i \in 1..Len(fs)
      BY <1>1, <2>2
    <3>2. hs[i] = fs[i] /\ d[i] = a[i]
      BY <1>1, <1>5, <1>7, <2>1, <2>2
    <3> QED
      BY <1>4, <2>1, <3>1, <3>2
  <2>3. CASE ~(i <= Len(fs))
    <3>1. i - Len(fs) \in 1..Len(gs)
      BY <1>1, <2>3
    <3>2. hs[i] = gs[i - Len(fs)] /\ d[i] = b[i - Len(fs)]
      BY <1>1, <1>5, <1>7, <2>1, <2>3
    <3> QED
      BY <1>4, <2>1, <3>1, <3>2
  <2> QED
    BY <2>2, <2>3
<1>9. c = d
  <2>1. \A i \in 1..Len(c) : c[i] = d[i]
    BY <1>4, <1>8
  <2>2. c \in Seq(Seq(Pair)) /\ d \in Seq(Seq(Pair))
    BY <1>4, <1>5
  <2> QED
    BY <1>7, <2>1, <2>2, SeqEqual
<1>10. Shows(hs, m) = Shows(fs, m) \o Shows(gs, m)
  BY <1>6, <1>9 DEF Shows, a, b, c
<1>11. AllMeasured(hs) <=> AllMeasured(fs) /\ AllMeasured(gs)
  <2>1. ASSUME AllMeasured(hs) PROVE AllMeasured(fs) /\ AllMeasured(gs)
    <3>1. \A i \in 1..Len(fs) + Len(gs) : Measured(hs[i])
      BY <1>3, <2>1 DEF AllMeasured
    <3>2. ASSUME NEW i \in 1..Len(fs) PROVE Measured(fs[i])
      <4>1. i \in 1..Len(fs) + Len(gs) /\ i <= Len(fs)
        BY <1>1
      <4>2. hs[i] = fs[i]
        BY <1>1, <4>1
      <4> QED
        BY <3>1, <4>1, <4>2
    <3>3. ASSUME NEW i \in 1..Len(gs) PROVE Measured(gs[i])
      <4>1. Len(fs) + i \in 1..Len(fs) + Len(gs) /\ ~(Len(fs) + i <= Len(fs)) /\ (Len(fs) + i) - Len(fs) = i
        BY <1>1
      <4>2. hs[Len(fs) + i] = gs[i]
        BY <1>1, <4>1
      <4>3. Measured(hs[Len(fs) + i])
        BY <3>1, <4>1
      <4> QED
        BY <4>2, <4>3
    <3> QED
      BY <1>2, <3>2, <3>3 DEF AllMeasured
  <2>2. ASSUME AllMeasured(fs), AllMeasured(gs) PROVE AllMeasured(hs)
    <3>1. ASSUME NEW i \in 1..Len(fs) + Len(gs) PROVE Measured(hs[i])
      <4>1. CASE i <= Len(fs)
        <5>1. i \in DOMAIN fs /\ hs[i] = fs[i]
          BY <1>1, <1>2, <4>1
        <5> QED
          BY <2>2, <5>1 DEF AllMeasured
      <4>2. CASE ~(i <= Len(fs))
        <5>1. i - Len(fs) \in DOMAIN gs /\ hs[i] = gs[i - Len(fs)]
          BY <1>1, <1>2, <4>2
        <5> QED
          BY <2>2, <5>1 DEF AllMeasured
      <4> QED
        BY <4>1, <4>2
    <3> QED
      BY <1>3, <3>1 DEF AllMeasured
  <2> QED
    BY <2>1, <2>2
<1> QED
  BY <1>10, <1>11 DEF hs

LEMMA ReadsNone ==
    ASSUME NEW m
    PROVE  Reads(<<>>, m, <<>>)
<1>1. [i \in DOMAIN <<>> |-> ShownBy(<<>>[i], m)] = <<>>
  OBVIOUS
<1>2. <<>> \in Seq(Fresh) /\ AllMeasured(<<>>)
  BY DEF AllMeasured
<1> QED
  BY <1>1, <1>2, JoinedNone DEF Reads, Shows

LEMMA ReadsOne ==
    ASSUME NEW f \in Fresh, NEW m \in Messages
    PROVE  /\ <<f>> \in Seq(Fresh) /\ Shows(<<f>>, m) = ShownBy(f, m)
           /\ AllMeasured(<<f>>) <=> Measured(f)
<1> DEFINE fs == <<f>>
<1>1. fs \in Seq(Fresh) /\ DOMAIN fs = 1..1 /\ fs[1] = f /\ \A i \in 1..1 : i = 1
  OBVIOUS
<1> HIDE DEF fs
<1> DEFINE s == [i \in DOMAIN fs |-> ShownBy(fs[i], m)]
           x == ShownBy(f, m)
<1>2. s = [i \in 1..1 |-> x]
  BY <1>1
<1> HIDE DEF x, s
<1>3. s = <<x>>
  BY <1>2
<1>4. x \in Seq(Pair)
  BY FreshIsFormatter, ShownByType DEF x
<1>5. Joined(<<x>>) = x
  BY <1>4, JoinedOne
<1>6. Shows(fs, m) = x
  BY <1>3, <1>5 DEF Shows, s
<1>7. AllMeasured(fs) <=> Measured(f)
  BY <1>1 DEF AllMeasured
<1> QED
  BY <1>1, <1>6, <1>7 DEF fs, x

\* Put together.
LEMMA ReadsMore ==
    ASSUME NEW m \in Messages, NEW fs, NEW gs, NEW s, NEW t, Reads(fs, m, s), Reads(gs, m, t)
    PROVE  Reads(fs \o gs, m, s \o t)
<1>1. /\ fs \in Seq(Fresh) /\ gs \in Seq(Fresh) /\ AllMeasured(fs) /\ AllMeasured(gs)
      /\ Shows(fs, m) = s /\ Shows(gs, m) = t
  BY DEF Reads
<1>2. Shows(fs \o gs, m) = Shows(fs, m) \o Shows(gs, m) /\ AllMeasured(fs \o gs)
  BY <1>1, ShowsConcat
<1>3. fs \o gs \in Seq(Fresh)
  BY <1>1, ConcatProperties
<1> QED
  BY <1>1, <1>2, <1>3 DEF Reads

\* And taken apart.
LEMMA ReadsRest ==
    ASSUME NEW m \in Messages, NEW f \in Fresh, NEW gs \in Seq(Fresh), NEW s, Reads(<<f>> \o gs, m, s)
    PROVE  Reads(gs, m, Shows(gs, m)) /\ s = ShownBy(f, m) \o Shows(gs, m)
<1> DEFINE fs == <<f>>
<1>1. fs \in Seq(Fresh) /\ Shows(fs, m) = ShownBy(f, m)
  BY ReadsOne
<1> HIDE DEF fs
<1>2. Shows(fs \o gs, m) = Shows(fs, m) \o Shows(gs, m) /\ (AllMeasured(fs \o gs) => AllMeasured(gs))
  BY <1>1, ShowsConcat
<1>3. AllMeasured(fs \o gs) /\ Shows(fs \o gs, m) = s
  BY DEF Reads, fs
<1> QED
  BY <1>1, <1>2, <1>3 DEF Reads

-----------------------------------------------------------------------------
(* Reading a pattern.                                                      *)

\* f[i] is compiled of p from its i-th character on.
CompiledOf(f, p) ==
    \A i \in 1..Len(p) + 1 :
        /\ f[i] \in Seq(Fresh)
        /\ f[i] = IF Ended(p, i) THEN <<>> ELSE Piece(p, i) \o f[Further(p, i)]

\* A piece of a pattern, from its i-th to its k-th character.
TextOf(p, i, k) == Text(SubSeq(p, i, k - 1))

LEMMA TextOfIs ==
    ASSUME NEW p \in Seq(Chars), NEW i \in 1..Len(p), NEW k \in i + 1..Len(p) + 1, NEW m
    PROVE  /\ TextOf(p, i, k) \in Fresh /\ Measured(TextOf(p, i, k))
           /\ SubSeq(p, i, k - 1) \in Seq(Chars) /\ Len(SubSeq(p, i, k - 1)) = k - i
           /\ \A n \in 1..k - i : SubSeq(p, i, k - 1)[n] = p[i + n - 1]
           /\ ShownBy(TextOf(p, i, k), m) = Plainly(SubSeq(p, i, k - 1))
<1>1. Len(p) \in Nat /\ i \in Int /\ k - 1 \in Int
  OBVIOUS
<1>2. \A n \in i..k - 1 : p[n] \in Chars
  BY <1>1
<1> DEFINE s == SubSeq(p, i, k - 1)
<1>3. /\ s \in Seq(Chars) /\ Len(s) = IF i <= k - 1 THEN (k - 1) - i + 1 ELSE 0
      /\ \A n \in 1..(k - 1) - i + 1 : s[n] = p[i + n - 1]
  BY <1>1, <1>2, SubSeqProperties
<1>4. (k - 1) - i + 1 = k - i /\ i <= k - 1
  BY <1>1
<1> HIDE DEF s
<1>5. Text(s) \in Fresh
  BY <1>3, TextType
<1>6. ShownBy(Text(s), m) = Plainly(s) /\ Measured(Text(s))
  BY DEF Text, ShownBy, Measured, NoPad
<1> QED
  BY <1>3, <1>4, <1>5, <1>6 DEF TextOf, s

\* A character that begins no flag is shown as it is.
LEMMA ReadsChar ==
    ASSUME NEW p \in Seq(Chars), NEW f, CompiledOf(f, p), NEW m \in Messages,
           NEW i \in 1..Len(p), p[i] # "%", NEW s, Reads(f[i + 1], m, s)
    PROVE  Reads(f[i], m, <<<<p[i], 0>>>> \o s)
<1> DEFINE k == NextAt(p, i)
           x == TextOf(p, i, k)
           c == <<<<p[i], 0>>>>
<1>1. Len(p) \in Nat /\ i \in 1..Len(p) + 1 /\ i + 1 \in 1..Len(p) + 1
  OBVIOUS
<1>2. /\ k \in i..Len(p) + 1 /\ (k = Len(p) + 1 \/ p[k] = "%")
      /\ \A n \in i..k - 1 : n \in 1..Len(p) /\ p[n] # "%"
  BY <1>1, NextAtIs
<1> HIDE DEF k
<1>3. k > i /\ k \in i + 1..Len(p) + 1 /\ k \in 1..Len(p) + 1
  BY <1>1, <1>2
<1>4. f[i] = <<x>> \o f[k] /\ f[k] \in Seq(Fresh)
  <2>1. ~Ended(p, i) /\ Piece(p, i) = <<x>> /\ Further(p, i) = k
    BY <1>1, <1>2, <1>3 DEF Ended, Piece, Further, TextOf, k
  <2> QED
    BY <1>1, <1>3, <2>1 DEF CompiledOf
<1>5. /\ x \in Fresh /\ Measured(x) /\ ShownBy(x, m) = Plainly(SubSeq(p, i, k - 1))
      /\ SubSeq(p, i, k - 1) \in Seq(Chars) /\ Len(SubSeq(p, i, k - 1)) = k - i
      /\ \A n \in 1..k - i : SubSeq(p, i, k - 1)[n] = p[i + n - 1]
  BY <1>3, TextOfIs
<1>6. Reads(<<x>>, m, ShownBy(x, m))
  BY <1>5, ReadsOne DEF Reads
<1>7. p[i] \in Chars
  OBVIOUS
<1>8. c \in Seq(Pair) /\ Len(c) = 1 /\ c[1] = <<p[i], 0>>
  <2>1. <<p[i], 0>> \in Pair
    BY <1>7 DEF Pair
  <2> QED
    BY <2>1
<1> DEFINE a == SubSeq(p, i, k - 1)
<1>9. CASE k = i + 1
  <2>1. a \in Seq(Chars) /\ Len(a) = 1 /\ a[1] = p[i]
    <3>1. k - i = 1 /\ 1 \in 1..k - i /\ i + 1 - 1 = i
      BY <1>1, <1>9
    <3> HIDE DEF a
    <3> QED
      BY <1>5, <3>1 DEF a
  <2> HIDE DEF a, c
  <2>2. /\ Plainly(a) \in Seq(Pair) /\ Len(Plainly(a)) = Len(a)
        /\ \A n \in 1..Len(a) : Plainly(a)[n] = <<a[n], 0>>
    BY <2>1, PlainlyType
  <2>3. Plainly(a) = c
    <3>1. Len(Plainly(a)) = Len(c) /\ \A n \in 1..Len(Plainly(a)) : Plainly(a)[n] = c[n]
      BY <1>8, <2>1, <2>2
    <3> QED
      BY <1>8, <2>2, <3>1, SeqEqual
  <2>4. ShownBy(x, m) = c
    BY <1>5, <2>3 DEF a
  <2>5. Reads(f[k], m, s)
    BY <1>9
  <2>6. Reads(<<x>> \o f[k], m, c \o s)
    <3> HIDE DEF x
    <3> QED
      BY <1>6, <2>4, <2>5, ReadsMore
  <2> QED
    BY <1>4, <2>6 DEF c
<1>10. CASE k # i + 1
  <2> DEFINE y == TextOf(p, i + 1, k)
             b == SubSeq(p, i + 1, k - 1)
             t == Shows(f[k], m)
  <2>1. i + 1 \in 1..Len(p) /\ k \in (i + 1) + 1..Len(p) + 1 /\ k > i + 1
    BY <1>1, <1>3, <1>10
  <2>2. NextAt(p, i + 1) = k
    <3> DEFINE l == NextAt(p, i + 1)
    <3>1. /\ l \in i + 1..Len(p) + 1 /\ (l = Len(p) + 1 \/ p[l] = "%")
          /\ \A n \in i + 1..l - 1 : n \in 1..Len(p) /\ p[n] # "%"
      BY <1>1, NextAtIs
    <3> HIDE DEF l
    <3>2. ~(l < k)
      <4> SUFFICES ASSUME l < k PROVE FALSE
        OBVIOUS
      <4>1. l \in i..k - 1
        BY <1>1, <1>3, <3>1
      <4> QED
        BY <1>1, <1>2, <1>3, <3>1, <4>1
    <3>3. ~(k < l)
      <4> SUFFICES ASSUME k < l PROVE FALSE
        OBVIOUS
      <4>1. k \in i + 1..l - 1
        BY <1>1, <1>3, <3>1
      <4> QED
        BY <1>1, <1>2, <1>3, <3>1, <4>1
    <3>4. l = k
      BY <1>1, <1>3, <3>1, <3>2, <3>3
    <3> QED
      BY <3>4 DEF l
  <2>3. f[i + 1] = <<y>> \o f[k]
    <3>1. ~Ended(p, i + 1) /\ Piece(p, i + 1) = <<y>> /\ Further(p, i + 1) = k
      BY <1>1, <2>1, <2>2 DEF Ended, Piece, Further, TextOf
    <3> QED
      BY <1>1, <3>1 DEF CompiledOf
  <2>4. /\ y \in Fresh /\ ShownBy(y, m) = Plainly(b)
        /\ b \in Seq(Chars) /\ Len(b) = k - (i + 1)
        /\ \A n \in 1..k - (i + 1) : b[n] = p[(i + 1) + n - 1]
    BY <2>1, TextOfIs
  <2>5. Reads(f[k], m, t) /\ s = Plainly(b) \o t
    <3>1. Reads(<<y>> \o f[k], m, s)
      BY <2>3
    <3> HIDE DEF y
    <3>2. Reads(f[k], m, Shows(f[k], m)) /\ s = ShownBy(y, m) \o Shows(f[k], m)
      BY <1>4, <2>4, <3>1, ReadsRest
    <3> QED
      BY <2>4, <3>2
  <2> HIDE DEF y, b, a, c
  <2>6. Plainly(a) = c \o Plainly(b)
    <3> DEFINE A == Plainly(a)
               B == Plainly(b)
               D == c \o B
    <3>0. /\ a \in Seq(Chars) /\ Len(a) = k - i
          /\ \A n \in 1..k - i : a[n] = p[i + n - 1]
      BY <1>5 DEF a
    <3>1. /\ A \in Seq(Pair) /\ Len(A) = k - i
          /\ \A n \in 1..k - i : A[n] = <<p[i + n - 1], 0>>
      <4>1. A \in Seq(Pair) /\ Len(A) = Len(a) /\ \A n \in 1..Len(a) : A[n] = <<a[n], 0>>
        BY <3>0, PlainlyType
      <4> HIDE DEF A
      <4> QED
        BY <3>0, <4>1
    <3>2. /\ B \in Seq(Pair) /\ Len(B) = k - (i + 1)
          /\ \A n \in 1..k - (i + 1) : B[n] = <<p[(i + 1) + n - 1], 0>>
      <4>1. B \in Seq(Pair) /\ Len(B) = Len(b) /\ \A n \in 1..Len(b) : B[n] = <<b[n], 0>>
        BY <2>4, PlainlyType
      <4> HIDE DEF B
      <4> QED
        BY <2>4, <4>1
    <3> HIDE DEF A, B
    <3>3. /\ D \in Seq(Pair) /\ Len(D) = Len(c) + Len(B)
          /\ \A n \in 1..Len(c) + Len(B) : D[n] = IF n <= Len(c) THEN c[n] ELSE B[n - Len(c)]
      <4>1. c \in Seq(Pair) /\ B \in Seq(Pair)
        BY <1>8, <3>2
      <4> QED
        BY <4>1, ConcatProperties
    <3> HIDE DEF D
    <3>4. Len(c) = 1 /\ Len(B) = k - (i + 1) /\ Len(D) = k - i /\ Len(c) + Len(B) = k - i
      <4>1. Len(c) = 1 /\ Len(B) = k - (i + 1) /\ Len(D) = Len(c) + Len(B)
        BY <1>8, <3>2, <3>3
      <4>2. 1 + (k - (i + 1)) = k - i
        BY <1>3
      <4> QED
        BY <4>1, <4>2
    <3>5. ASSUME NEW n \in 1..k - i PROVE A[n] = D[n]
      <4>1. D[n] = IF n <= 1 THEN c[n] ELSE B[n - 1]
        BY <3>3, <3>4
      <4>2. CASE n = 1
        <5>1. i + n - 1 = i
          BY <4>2
        <5>2. A[n] = <<p[i + n - 1], 0>>
          BY <3>1
        <5>3. D[n] = c[1]
          BY <4>1, <4>2
        <5> QED
          BY <1>8, <5>1, <5>2, <5>3
      <4>3. CASE n # 1
        <5>1. n - 1 \in 1..k - (i + 1) /\ ~(n <= 1) /\ (i + 1) + (n - 1) - 1 = i + n - 1
          BY <1>3, <4>3
        <5>2. B[n - 1] = <<p[(i + 1) + (n - 1) - 1], 0>>
          BY <3>2, <5>1
        <5> QED
          BY <3>1, <4>1, <5>1, <5>2
      <4> QED
        BY <4>2, <4>3
    <3>6. A = D
      <4>1. A \in Seq(Pair) /\ D \in Seq(Pair) /\ Len(A) = Len(D) /\ \A n \in 1..Len(A) : A[n] = D[n]
        BY <3>1, <3>3, <3>4, <3>5
      <4> QED
        BY <4>1, SeqEqual
    <3> QED
      BY <3>6 DEF A, B, D
  <2>7. Reads(<<x>> \o f[k], m, Plainly(a) \o t)
    <3>1. Reads(<<x>>, m, Plainly(a))
      BY <1>5, <1>6 DEF a
    <3> HIDE DEF x, t
    <3> QED
      BY <2>5, <3>1, ReadsMore
  <2>8. Plainly(a) \o t = c \o s
    <3> DEFINE B == Plainly(b)
    <3>1. B \in Seq(Pair) /\ t \in Seq(Pair)
      BY <1>4, <2>4, PlainlyType, FreshPieces
    <3> HIDE DEF B, t
    <3>2. ThreeInTurn(c, B, t)
      BY <1>8, <3>1, InThree
    <3> QED
      BY <2>5, <2>6, <3>2 DEF ThreeInTurn, B
  <2> QED
    BY <1>4, <2>7, <2>8 DEF c
<1> QED
  BY <1>9, <1>10

\* A sequence is found in a pattern from its i-th character on.
At(p, i, w) == i + Len(w) <= Len(p) + 1 /\ \A k \in 1..Len(w) : p[i + k - 1] = w[k]

MarkLen(e) == IF e.mark = "" THEN 0 ELSE 1
CutLen(e)  == IF e.truncate THEN 1 ELSE 0

\* What is written for a flag: where its digits begin and where they end.
LaidLen(e)  == 2 + MarkLen(e) + Len(e.digits) + CutLen(e)

LEMMA LaidType ==
    ASSUME NEW e \in Element
    PROVE  MarkLen(e) \in 0..1 /\ CutLen(e) \in 0..1 /\ Len(e.digits) \in Nat
<1>1. e.digits \in Seq(Digits)
  BY DEF Element
<1>2. MarkLen(e) = 0 \/ MarkLen(e) = 1
  BY DEF MarkLen
<1>3. CutLen(e) = 0 \/ CutLen(e) = 1
  BY DEF CutLen
<1>4. Len(e.digits) \in Nat
  BY <1>1
<1> QED
  BY <1>2, <1>3, <1>4

LEMMA WrittenIs ==
    ASSUME NEW e \in Element, ~e.literal
    PROVE  /\ Len(Written(e)) = LaidLen(e)
           /\ Written(e)[1] = "%" /\ (MarkLen(e) = 1 => Written(e)[2] = e.mark)
           /\ \A q \in 1..Len(e.digits) : Written(e)[1 + MarkLen(e) + q] = e.digits[q]
           /\ (CutLen(e) = 1 => Written(e)[2 + MarkLen(e) + Len(e.digits)] = "!")
           /\ Written(e)[2 + MarkLen(e) + Len(e.digits) + CutLen(e)] = e.char
<1> DEFINE a == MarkLen(e)
           b == CutLen(e)
           n == Len(e.digits)
<1> DEFINE x1 == <<"%">>
           x2 == IF e.mark = "" THEN <<>> ELSE <<e.mark>>
           x3 == e.digits
           x4 == IF e.truncate THEN <<"!">> ELSE <<>>
           x5 == <<e.char>>
           y2 == x1 \o x2
           y3 == y2 \o x3
           y4 == y3 \o x4
           y5 == y4 \o x5
<1>1. e.char \in Chars /\ e.mark \in {"", "-", "="} /\ e.digits \in Seq(Digits) /\ e.truncate \in BOOLEAN
  BY DEF Element
<1>2. "%" \in Chars /\ "!" \in Chars /\ "-" \in Chars /\ "=" \in Chars /\ Digits \subseteq Chars
  BY DEF Chars, Flags
<1>3. a \in 0..1 /\ b \in 0..1 /\ n \in Nat
  BY LaidType
<1>4. x1 \in Seq(Chars) /\ Len(x1) = 1 /\ x1[1] = "%"
  BY <1>2
<1>5. x2 \in Seq(Chars) /\ Len(x2) = a /\ (a = 1 => x2[1] = e.mark)
  <2>1. CASE e.mark = ""
    <3>1. x2 = <<>> /\ a = 0
      BY <2>1 DEF MarkLen
    <3> HIDE DEF x2, a
    <3> QED
      BY <3>1
  <2>2. CASE e.mark # ""
    <3>1. e.mark \in Chars /\ a = 1 /\ x2 = <<e.mark>>
      BY <1>1, <1>2, <2>2 DEF MarkLen, CutLen
    <3> HIDE DEF x2
    <3> QED
      BY <3>1
  <2> QED
    BY <2>1, <2>2
<1>6. x3 \in Seq(Chars) /\ Len(x3) = n /\ \A q \in 1..n : x3[q] = e.digits[q]
  BY <1>1, <1>2, SeqMonotonic
<1>7. x4 \in Seq(Chars) /\ Len(x4) = b /\ (b = 1 => x4[1] = "!")
  <2>1. CASE ~e.truncate
    BY <2>1 DEF MarkLen, CutLen
  <2>2. CASE e.truncate
    <3>1. b = 1 /\ x4 = <<"!">>
      BY <2>2 DEF MarkLen, CutLen
    <3> HIDE DEF x4
    <3> QED
      BY <1>2, <3>1
  <2> QED
    BY <2>1, <2>2
<1>8. x5 \in Seq(Chars) /\ Len(x5) = 1 /\ x5[1] = e.char
  <2>1. \A c \in Chars : <<c>> \in Seq(Chars) /\ Len(<<c>>) = 1 /\ <<c>>[1] = c
    OBVIOUS
  <2> QED
    BY <1>1, <2>1
<1>9. Written(e) = y5
  BY DEF Written
<1> HIDE DEF x1, x2, x3, x4, x5, a, b, n
<1>10. /\ y2 \in Seq(Chars) /\ Len(y2) = Len(x1) + Len(x2)
       /\ \A i \in 1..Len(x1) + Len(x2) : y2[i] = IF i <= Len(x1) THEN x1[i] ELSE x2[i - Len(x1)]
  <2>1. x1 \in Seq(Chars) /\ x2 \in Seq(Chars)
    BY <1>4, <1>5
  <2> QED
    BY <2>1, ConcatProperties
<1> HIDE DEF y2
<1>11. /\ y3 \in Seq(Chars) /\ Len(y3) = Len(y2) + Len(x3)
       /\ \A i \in 1..Len(y2) + Len(x3) : y3[i] = IF i <= Len(y2) THEN y2[i] ELSE x3[i - Len(y2)]
  <2>1. y2 \in Seq(Chars) /\ x3 \in Seq(Chars)
    BY <1>6, <1>10
  <2> QED
    BY <2>1, ConcatProperties
<1> HIDE DEF y3
<1>12. /\ y4 \in Seq(Chars) /\ Len(y4) = Len(y3) + Len(x4)
       /\ \A i \in 1..Len(y3) + Len(x4) : y4[i] = IF i <= Len(y3) THEN y3[i] ELSE x4[i - Len(y3)]
  <2>1. y3 \in Seq(Chars) /\ x4 \in Seq(Chars)
    BY <1>7, <1>11
  <2> QED
    BY <2>1, ConcatProperties
<1> HIDE DEF y4
<1>13. /\ y5 \in Seq(Chars) /\ Len(y5) = Len(y4) + Len(x5)
       /\ \A i \in 1..Len(y4) + Len(x5) : y5[i] = IF i <= Len(y4) THEN y4[i] ELSE x5[i - Len(y4)]
  <2>1. y4 \in Seq(Chars) /\ x5 \in Seq(Chars)
    BY <1>8, <1>12
  <2> QED
    BY <2>1, ConcatProperties
<1> HIDE DEF y5
<1>14. /\ Len(x1) = 1 /\ Len(x2) = a /\ Len(x3) = n /\ Len(x4) = b /\ Len(x5) = 1
       /\ Len(y2) = 1 + a /\ Len(y3) = 1 + a + n /\ Len(y4) = 1 + a + n + b /\ Len(y5) = 2 + a + n + b
  <2>1. Len(x1) = 1 /\ Len(x2) = a /\ Len(x3) = n /\ Len(x4) = b /\ Len(x5) = 1
    BY <1>4, <1>5, <1>6, <1>7, <1>8
  <2>2. /\ Len(y2) = Len(x1) + Len(x2) /\ Len(y3) = Len(y2) + Len(x3)
        /\ Len(y4) = Len(y3) + Len(x4) /\ Len(y5) = Len(y4) + Len(x5)
    BY <1>10, <1>11, <1>12, <1>13
  <2> QED
    BY <1>3, <2>1, <2>2
<1>15. /\ \A i \in 1..1 + a : y2[i] = IF i <= 1 THEN x1[i] ELSE x2[i - 1]
       /\ \A i \in 1..1 + a + n : y3[i] = IF i <= 1 + a THEN y2[i] ELSE x3[i - (1 + a)]
       /\ \A i \in 1..1 + a + n + b : y4[i] = IF i <= 1 + a + n THEN y3[i] ELSE x4[i - (1 + a + n)]
       /\ \A i \in 1..2 + a + n + b : y5[i] = IF i <= 1 + a + n + b THEN y4[i] ELSE x5[i - (1 + a + n + b)]
  <2>1. (1 + a + n + b) + 1 = 2 + a + n + b
    BY <1>3
  <2>2. \A i \in 1..1 + a : y2[i] = IF i <= 1 THEN x1[i] ELSE x2[i - 1]
    BY <1>10, <1>14
  <2>3. \A i \in 1..1 + a + n : y3[i] = IF i <= 1 + a THEN y2[i] ELSE x3[i - (1 + a)]
    BY <1>11, <1>14
  <2>4. \A i \in 1..1 + a + n + b : y4[i] = IF i <= 1 + a + n THEN y3[i] ELSE x4[i - (1 + a + n)]
    BY <1>12, <1>14
  <2>5. \A i \in 1..2 + a + n + b : y5[i] = IF i <= 1 + a + n + b THEN y4[i] ELSE x5[i - (1 + a + n + b)]
    BY <1>13, <1>14, <2>1
  <2> QED
    BY <2>2, <2>3, <2>4, <2>5
<1>16. \A i \in 1..1 + a + n : y5[i] = y3[i]
  <2> TAKE i \in 1..1 + a + n
  <2>1. i \in 1..2 + a + n + b /\ i \in 1..1 + a + n + b /\ i <= 1 + a + n + b /\ i <= 1 + a + n
    BY <1>3
  <2> QED
    BY <1>15, <2>1
<1>17. y5[1] = "%" /\ (a = 1 => y5[2] = e.mark)
  <2>1. 1 \in 1..1 + a + n /\ 1 \in 1..1 + a /\ 1 <= 1 + a
    BY <1>3
  <2>2. y5[1] = "%"
    BY <1>4, <1>15, <1>16, <2>1
  <2>3. ASSUME a = 1 PROVE y5[2] = e.mark
    <3>1. 2 \in 1..1 + a + n /\ 2 \in 1..1 + a /\ 2 <= 1 + a /\ ~(2 <= 1) /\ 2 - 1 = 1
      BY <1>3, <2>3
    <3>2. y5[2] = y3[2] /\ y3[2] = y2[2]
      BY <1>15, <1>16, <3>1
    <3>3. y2[2] = x2[1]
      BY <1>15, <3>1
    <3> QED
      BY <1>5, <2>3, <3>2, <3>3
  <2> QED
    BY <2>2, <2>3
<1>18. ASSUME NEW q \in 1..n PROVE y5[1 + a + q] = e.digits[q]
  <2>1. 1 + a + q \in 1..1 + a + n /\ ~(1 + a + q <= 1 + a) /\ (1 + a + q) - (1 + a) = q
    BY <1>3
  <2>2. y5[1 + a + q] = y3[1 + a + q]
    BY <1>16, <2>1
  <2>3. y3[1 + a + q] = x3[q]
    BY <1>15, <2>1
  <2> QED
    BY <1>6, <2>2, <2>3
<1>19. ASSUME b = 1 PROVE y5[2 + a + n] = "!"
  <2>1. /\ 2 + a + n \in 1..2 + a + n + b /\ 2 + a + n <= 1 + a + n + b /\ 2 + a + n \in 1..1 + a + n + b
        /\ ~(2 + a + n <= 1 + a + n) /\ (2 + a + n) - (1 + a + n) = 1
    BY <1>3, <1>19
  <2>2. y5[2 + a + n] = y4[2 + a + n]
    BY <1>15, <2>1
  <2>3. y4[2 + a + n] = x4[1]
    BY <1>15, <2>1
  <2> QED
    BY <1>7, <1>19, <2>2, <2>3
<1>20. y5[2 + a + n + b] = e.char
  <2>1. /\ 2 + a + n + b \in 1..2 + a + n + b /\ ~(2 + a + n + b <= 1 + a + n + b)
        /\ (2 + a + n + b) - (1 + a + n + b) = 1
    BY <1>3
  <2>2. y5[2 + a + n + b] = x5[1]
    BY <1>15, <2>1
  <2> QED
    BY <1>8, <2>2
<1> QED
  BY <1>9, <1>14, <1>17, <1>18, <1>19, <1>20 DEF a, b, n, LaidLen

\* The layout of a flag in a pattern: its mark, its digits from j on, the mark of
\* truncation or the flag at k, and the place of the flag.
Laid(p, i, e, j, k, l) ==
    /\ j = i + 1 + MarkLen(e) /\ k = j + Len(e.digits) /\ l = k + CutLen(e)
    /\ j \in i + 1..i + 2 /\ k \in j..Len(p) /\ l \in k..Len(p)
    /\ p[i] = "%" /\ (e.mark # "" => p[i + 1] = e.mark)
    /\ \A q \in 1..Len(e.digits) : p[j + q - 1] = e.digits[q]
    /\ (e.truncate => p[k] = "!" /\ l = k + 1) /\ (~e.truncate => l = k)
    /\ p[l] = e.char /\ i + Len(Written(e)) = l + 1

LEMMA LaidOut ==
    ASSUME NEW p \in Seq(Chars), NEW i \in 1..Len(p) + 1, NEW e \in Element, ~e.literal,
           At(p, i, Written(e))
    PROVE  \E j \in i + 1..i + 2 : \E k \in j..Len(p) : \E l \in k..Len(p) : Laid(p, i, e, j, k, l)
<1> DEFINE a == MarkLen(e)
           b == CutLen(e)
           n == Len(e.digits)
           w == Written(e)
           j == i + 1 + a
           k == j + n
           l == k + b
<1>1. /\ Len(w) = 2 + a + n + b /\ a \in 0..1 /\ b \in 0..1 /\ n \in Nat
      /\ w[1] = "%" /\ (a = 1 => w[2] = e.mark)
      /\ \A q \in 1..n : w[1 + a + q] = e.digits[q]
      /\ (b = 1 => w[2 + a + n] = "!")
      /\ w[2 + a + n + b] = e.char
  BY WrittenIs, LaidType DEF LaidLen
<1>2. i + Len(w) <= Len(p) + 1 /\ \A q \in 1..Len(w) : p[i + q - 1] = w[q]
  BY DEF At
<1>3. (e.mark # "" => a = 1) /\ (e.truncate => b = 1) /\ (~e.truncate => b = 0)
  BY DEF MarkLen, CutLen
<1>4. Len(p) \in Nat
  OBVIOUS
<1> HIDE DEF a, b, n, w
<1>5. /\ j \in i + 1..i + 2 /\ k \in j..Len(p) /\ l \in k..Len(p) /\ i + Len(w) = l + 1
      /\ (e.truncate => l = k + 1) /\ (~e.truncate => l = k)
  <2>1. j \in i + 1..i + 2 /\ k \in j..Len(p)
    <3>1. /\ Len(w) = 2 + a + n + b /\ a \in 0..1 /\ b \in 0..1 /\ n \in Nat
          /\ i + Len(w) <= Len(p) + 1 /\ i \in Nat
      BY <1>1, <1>2
    <3> QED
      BY <1>4, <3>1
  <2>2. l \in k..Len(p) /\ i + Len(w) = l + 1
    BY <1>1, <1>2, <1>4
  <2>3. (e.truncate => l = k + 1) /\ (~e.truncate => l = k)
    <3>1. (e.truncate => b = 1) /\ (~e.truncate => b = 0)
      BY <1>3
    <3>2. k \in Int
      BY <1>4, <2>1
    <3> HIDE DEF k
    <3> QED
      BY <3>1, <3>2
  <2> QED
    BY <2>1, <2>2, <2>3
<1>6. p[i] = "%" /\ (e.mark # "" => p[i + 1] = e.mark)
  <2>1. 1 \in 1..Len(w) /\ i + 1 - 1 = i /\ 2 \in 1..Len(w) /\ i + 2 - 1 = i + 1
    BY <1>1
  <2> QED
    BY <1>1, <1>2, <1>3, <2>1
<1>7. ASSUME NEW q \in 1..n PROVE p[j + q - 1] = e.digits[q]
  <2>1. 1 + a + q \in 1..Len(w) /\ i + (1 + a + q) - 1 = j + q - 1
    BY <1>1
  <2>2. p[i + (1 + a + q) - 1] = w[1 + a + q]
    BY <1>2, <2>1
  <2> QED
    BY <1>1, <2>1, <2>2
<1>8. ASSUME e.truncate PROVE p[k] = "!"
  <2>1. 2 + a + n \in 1..Len(w) /\ i + (2 + a + n) - 1 = k
    BY <1>1
  <2>2. p[i + (2 + a + n) - 1] = w[2 + a + n]
    BY <1>2, <2>1
  <2> QED
    BY <1>1, <1>3, <1>8, <2>1, <2>2
<1>9. p[l] = e.char
  <2>1. 2 + a + n + b \in 1..Len(w) /\ i + (2 + a + n + b) - 1 = l
    BY <1>1
  <2>2. p[i + (2 + a + n + b) - 1] = w[2 + a + n + b]
    BY <1>2, <2>1
  <2> QED
    BY <1>1, <2>1, <2>2
<1>10. Laid(p, i, e, j, k, l)
  BY <1>5, <1>6, <1>7, <1>8, <1>9 DEF Laid, a, b, n, w
<1> QED
  BY <1>5, <1>10

SideOf(mark) == CASE mark = "-" -> "right" [] mark = "=" -> "center" [] OTHER -> "left"

\* The padding that is read where a flag is written, its digits ending at k.
SpecFor(p, i, e, k) ==
    PadSpec(p, i + 1)
      = IF e.digits = <<>> THEN [it |-> k, pad |-> NoPad]
        ELSE [it |-> IF p[k] = "!" THEN k + 1 ELSE k,
              pad |-> [enabled |-> TRUE, width |-> Width(e.digits),
                       side |-> SideOf(e.mark), truncate |-> p[k] = "!"]]

LEMMA SpecRead ==
    ASSUME NEW p \in Seq(Chars), NEW i \in 1..Len(p), NEW e \in Element, ~e.literal, WellFormed(e),
           NEW j \in Nat, NEW k \in Nat, NEW l \in Nat, Laid(p, i, e, j, k, l)
    PROVE  SpecFor(p, i, e, k)
<1> DEFINE n == Len(e.digits)
<1>1. /\ Len(p) \in Nat /\ n \in Nat /\ e.digits \in Seq(Digits)
      /\ e.char \in Flags /\ i + 1 \in 1..Len(p) + 1
  <2>1. e.digits \in Seq(Digits)
    BY DEF Element
  <2>2. e.char \in Flags
    BY DEF WellFormed
  <2> QED
    BY <2>1, <2>2
<1>2. /\ j = i + 1 + MarkLen(e) /\ k = j + n
      /\ j \in i + 1..i + 2 /\ k \in j..Len(p)
      /\ \A q \in 1..n : p[j + q - 1] = e.digits[q]
  BY DEF Laid
<1>3. i + 1 <= Len(p) /\ k \in 1..Len(p)
  BY <1>1, <1>2
<1>4. ~IsDigit(p, k)
  <2>1. p[k] = "!" \/ p[k] = e.char
    BY DEF Laid
  <2>2. "!" \notin Digits /\ \A c \in Flags : c \notin Digits
    BY DEF Flags, Digits
  <2> QED
    BY <1>1, <2>1, <2>2 DEF IsDigit
<1>5. \A q \in j..k - 1 : IsDigit(p, q)
  <2> TAKE q \in j..k - 1
  <2>1. q - j + 1 \in 1..n /\ j + (q - j + 1) - 1 = q /\ q <= Len(p)
    <3>1. Len(p) \in Nat /\ n \in Nat /\ k = j + n /\ k <= Len(p)
      BY <1>1, <1>2
    <3> HIDE DEF n
    <3> QED
      BY <3>1
  <2>2. p[j + (q - j + 1) - 1] = e.digits[q - j + 1]
    BY <1>2, <2>1
  <2>3. e.digits[q - j + 1] \in Digits
    BY <1>1, <2>1
  <2> QED
    BY <2>1, <2>2, <2>3 DEF IsDigit
<1>6. Side(p, i + 1) = SideOf(e.mark) /\ Begin(p, i + 1) = j
  <2>1. CASE e.mark = ""
    <3>1. MarkLen(e) = 0 /\ j = i + 1
      <4>1. MarkLen(e) = 0
        BY <2>1 DEF MarkLen
      <4> QED
        BY <1>2, <4>1
    <3>2. p[j] \in Digits \cup Flags
      <4>1. CASE n = 0
        <5>1. k = j
          BY <1>2, <4>1
        <5>2. p[k] = "!" \/ p[k] = e.char
          BY DEF Laid
        <5> QED
          BY <1>1, <5>1, <5>2 DEF Flags
      <4>2. CASE n # 0
        <5>1. j \in j..k - 1
          BY <1>1, <1>2, <4>2
        <5> QED
          BY <1>5, <5>1 DEF IsDigit
      <4> QED
        BY <4>1, <4>2
    <3>3. p[i + 1] # "-" /\ p[i + 1] # "="
      BY <3>1, <3>2 DEF Digits, Flags
    <3>4. Side(p, i + 1) = "left"
      BY <1>1, <1>3, <3>3 DEF Side
    <3> QED
      BY <2>1, <3>1, <3>4 DEF SideOf, Begin
  <2>2. CASE e.mark # ""
    <3>1. MarkLen(e) = 1 /\ j = (i + 1) + 1 /\ p[i + 1] = e.mark
      <4>1. MarkLen(e) = 1
        BY <2>2 DEF MarkLen
      <4>2. p[i + 1] = e.mark
        BY <2>2 DEF Laid
      <4> QED
        BY <1>2, <4>1, <4>2
    <3>2. e.mark = "-" \/ e.mark = "="
      BY <2>2 DEF Element
    <3>3. Side(p, i + 1) = IF e.mark = "-" THEN "right" ELSE "center"
      <4>1. ~(i + 1 > Len(p))
        BY <1>1, <1>3
      <4> QED
        BY <3>1, <3>2, <4>1 DEF Side
    <3>4. Side(p, i + 1) = SideOf(e.mark) /\ Side(p, i + 1) # "left"
      BY <3>2, <3>3 DEF SideOf
    <3> QED
      BY <3>1, <3>4 DEF Begin
  <2> QED
    BY <2>1, <2>2
<1>7. PadSpec(p, i + 1) = Spec3(p, i + 1, k)
  <2>1. PICK r \in j..Len(p) + 1 :
           /\ ~IsDigit(p, r)
           /\ \A q \in j..r - 1 : IsDigit(p, q)
           /\ PadSpec(p, i + 1) = Spec3(p, i + 1, r)
    BY <1>1, <1>6, PadSpecIs
  <2>2. ~(r < k) /\ ~(k < r)
    <3>1. ASSUME r < k PROVE FALSE
      <4>1. r \in j..k - 1
        BY <1>1, <1>2, <3>1
      <4> QED
        BY <1>5, <2>1, <4>1
    <3>2. ASSUME k < r PROVE FALSE
      <4>1. k \in j..r - 1
        BY <1>1, <1>2, <3>2
      <4> QED
        BY <1>4, <2>1, <4>1
    <3> QED
      BY <3>1, <3>2
  <2>3. r = k
    BY <1>1, <1>2, <2>2
  <2> QED
    BY <2>1, <2>3
<1>8. CASE e.digits = <<>>
  <2>1. k = j
    BY <1>1, <1>2, <1>8
  <2>2. Spec3(p, i + 1, k) = [it |-> j, pad |-> NoPad]
    BY <1>6, <2>1 DEF Spec3
  <2> QED
    BY <1>7, <1>8, <2>1, <2>2 DEF SpecFor
<1>9. CASE e.digits # <<>>
  <2>1. n # 0 /\ k # j
    <3>1. n # 0
      BY <1>1, <1>9
    <3> QED
      BY <1>1, <1>2, <3>1
  <2>2. SubSeq(p, j, k - 1) = e.digits
    <3> DEFINE d == SubSeq(p, j, k - 1)
    <3>1. j \in Nat /\ k \in Nat /\ (k - 1) - j + 1 = n /\ j <= k - 1
      BY <1>1, <1>2, <2>1
    <3>2. \A q \in j..k - 1 : p[q] \in Digits
      BY <1>5 DEF IsDigit
    <3>3. /\ d \in Seq(Digits) /\ Len(d) = IF j <= k - 1 THEN (k - 1) - j + 1 ELSE 0
          /\ \A q \in 1..(k - 1) - j + 1 : d[q] = p[j + q - 1]
      <4>1. j \in Int /\ k - 1 \in Int
        BY <3>1
      <4> QED
        BY <3>2, <4>1, SubSeqProperties
    <3> HIDE DEF d
    <3>4. Len(d) = n /\ \A q \in 1..n : d[q] = e.digits[q]
      BY <1>2, <3>1, <3>3
    <3>5. d = e.digits
      BY <1>1, <3>3, <3>4, SeqEqual
    <3> QED
      BY <3>5 DEF d
  <2>3. k <= Len(p)
    BY <1>1, <1>3
  <2>4. Spec3(p, i + 1, k)
          = [it |-> IF p[k] = "!" THEN k + 1 ELSE k,
             pad |-> [enabled |-> TRUE, width |-> Width(SubSeq(p, j, k - 1)),
                      side |-> Side(p, i + 1), truncate |-> p[k] = "!"]]
    BY <1>6, <2>1, <2>3 DEF Spec3
  <2> QED
    BY <1>6, <1>7, <1>9, <2>2, <2>4 DEF SpecFor
<1> QED
  BY <1>8, <1>9

\* A formatter shows what is meant.
PadOf(e) == IF e.digits = <<>> THEN NoPad
            ELSE [enabled |-> TRUE, width |-> Width(e.digits), side |-> SideOf(e.mark),
                  truncate |-> e.truncate]

LEMMA PadOfType ==
    ASSUME NEW e \in Element
    PROVE  PadOf(e) \in Pads
<1>1. e.digits \in Seq(Digits) /\ e.truncate \in BOOLEAN /\ SideOf(e.mark) \in {"left", "right", "center"}
  BY DEF Element, SideOf
<1>2. Width(e.digits) \in Nat /\ Width(e.digits) <= MaxWidth
  BY <1>1, WidthType
<1>3. CASE e.digits = <<>>
  BY <1>3, NoPadIs DEF PadOf
<1>4. CASE e.digits # <<>>
  <2> DEFINE w == Width(e.digits)
             side == SideOf(e.mark)
             pad == [enabled |-> TRUE, width |-> w, side |-> side, truncate |-> e.truncate]
  <2>1. PadOf(e) = pad
    BY <1>4 DEF PadOf
  <2> HIDE DEF w, side
  <2>2. pad \in Padding /\ pad.width = w
    BY <1>1, <1>2 DEF Padding, w, side
  <2> HIDE DEF pad
  <2> QED
    BY <1>2, <2>1, <2>2 DEF Pads, w
<1> QED
  BY <1>3, <1>4

LEMMA MinOfTwo ==
    ASSUME NEW x \in Nat, NEW y \in Nat
    PROVE  Min({x, y}) = IF x <= y THEN x ELSE y
<1>1. {x, y} \in SUBSET Nat /\ {x, y} # {}
  OBVIOUS
<1>2. Min({x, y}) \in {x, y} /\ \A z \in {x, y} : Min({x, y}) <= z
  BY <1>1, MinIs
<1> QED
  BY <1>2

LEMMA ShownAlike ==
    ASSUME NEW e \in Element, ~e.literal, WellFormed(e), e.char # "%", NEW m \in Messages
    PROVE  ShownBy(Formatter(e.char, PadOf(e)), m) = Shown(e, m)
<1> DEFINE f == Formatter(e.char, PadOf(e))
           size == Size(e.char, m)
           width == Min({Number(e.digits), MaxWidth})
           cells == IF e.truncate THEN Min({size, width}) ELSE size
           pads  == IF e.digits # <<>> /\ size < width THEN width - size ELSE 0
           left  == CASE e.mark = "" -> pads [] e.mark = "=" -> pads \div 2 [] OTHER -> 0
<1>1. /\ e.char \in Flags \ {"%"} /\ e.digits \in Seq(Digits) /\ e.truncate \in BOOLEAN
      /\ e.mark \in {"", "-", "="} /\ (e.truncate => e.digits # <<>>)
  BY DEF Element, WellFormed
<1>2. f.flag = e.char /\ f.pad = PadOf(e)
  BY DEF Formatter
<1>3. CASE e.char = "+"
  <2>1. ShownBy(f, m) = Row("+", m.payload + 1)
    BY <1>2, <1>3 DEF ShownBy
  <2>2. Shown(e, m) = Row("+", m.payload + 1)
    BY <1>3 DEF Shown, Row, Size
  <2> QED
    BY <2>1, <2>2
<1>4. CASE e.char # "+"
  <2>0. e.char # "text"
    BY <1>1 DEF Flags
  <2>1. size \in Nat
    BY <1>1, SizeType
  <2>2. Number(e.digits) \in Nat /\ width = Width(e.digits) /\ width \in Nat
    <3>1. Number(e.digits) \in Nat /\ MaxWidth \in Nat
      BY <1>1, NumberType DEF MaxWidth
    <3>2. width = IF Number(e.digits) <= MaxWidth THEN Number(e.digits) ELSE MaxWidth
      BY <3>1, MinOfTwo
    <3> HIDE DEF width
    <3> QED
      BY <3>1, <3>2 DEF Width
  <2>3. Min({size, width}) = IF size <= width THEN size ELSE width
    <3> HIDE DEF size, width
    <3> QED
      BY <2>1, <2>2, MinOfTwo
  <2>4. Shown(e, m) = Framed(e.char, left, cells, pads)
    BY <1>1, <1>4 DEF Shown, Framed
  <2> DEFINE pad == PadOf(e)
             pads2  == IF pad.enabled /\ size < pad.width THEN pad.width - size ELSE 0
             cells2 == IF pad.enabled /\ pad.truncate /\ size > pad.width THEN pad.width ELSE size
  <2>5. ShownBy(f, m) = Framed(e.char, LeftOf(pad.side, pads2), cells2, pads2)
    BY <1>2, <1>4, <2>0 DEF ShownBy
  <2>6. CASE e.digits = <<>>
    <3>1. pad = NoPad /\ ~e.truncate
      BY <1>1, <2>6 DEF PadOf
    <3>2. ~pad.enabled /\ pad.side = "left"
      BY <3>1 DEF NoPad
    <3>3. pads = 0 /\ pads2 = 0 /\ cells = size /\ cells2 = size
      <4> HIDE DEF pad, size, width
      <4> QED
        BY <2>6, <3>1, <3>2
    <3>4. left = 0 /\ LeftOf(pad.side, 0) = 0
      <4>1. 0 \div 2 = 0
        OBVIOUS
      <4> HIDE DEF pad, pads
      <4> QED
        BY <1>1, <3>2, <3>3, <4>1 DEF LeftOf
    <3> HIDE DEF pads, pads2, cells, cells2, left, pad
    <3> QED
      BY <2>4, <2>5, <3>3, <3>4
  <2>7. CASE e.digits # <<>>
    <3>1. pad.enabled /\ pad.width = width /\ pad.side = SideOf(e.mark) /\ pad.truncate = e.truncate
      <4> HIDE DEF width
      <4> QED
        BY <2>2, <2>7 DEF PadOf
    <3> HIDE DEF pad, size, width
    <3>2. pads2 = pads
      BY <2>7, <3>1
    <3>3. cells2 = cells
      BY <2>1, <2>2, <2>3, <3>1
    <3>4. LeftOf(pad.side, pads2) = left
      <4> HIDE DEF pads, pads2
      <4> QED
        BY <1>1, <3>1, <3>2 DEF LeftOf, SideOf
    <3> HIDE DEF pads, pads2, cells, cells2, left
    <3> QED
      BY <2>4, <2>5, <3>2, <3>3, <3>4
  <2> QED
    BY <2>6, <2>7
<1> QED
  BY <1>3, <1>4

\* The padding that is read after the percent sign at i, and where it ends.
SpecIs(p, i, it, pad) == PadSpec(p, i + 1) = [it |-> it, pad |-> pad]

\* At i a flag is read, and then the pattern from k on.
StepsTo(f, i, flag, pad, k) == f[i] = HandleFlag(flag, pad) \o f[k] /\ f[k] \in Seq(Fresh)

LEMMA InTwo ==
    ASSUME NEW S, NEW x \in S, NEW y \in S
    PROVE  <<x, y>> = <<x>> \o <<y>>
<1> DEFINE a == <<x>>
           b == <<y>>
           c == <<x, y>>
<1>1. a \in Seq(S) /\ Len(a) = 1 /\ a[1] = x /\ b \in Seq(S) /\ Len(b) = 1 /\ b[1] = y
  OBVIOUS
<1>2. c \in Seq(S) /\ Len(c) = 2 /\ c[1] = x /\ c[2] = y
  OBVIOUS
<1> HIDE DEF a, b, c
<1>3. /\ a \o b \in Seq(S) /\ Len(a \o b) = Len(a) + Len(b)
      /\ \A i \in 1..Len(a) + Len(b) : (a \o b)[i] = IF i <= Len(a) THEN a[i] ELSE b[i - Len(a)]
  BY <1>1, ConcatProperties
<1> DEFINE d == a \o b
<1> HIDE DEF d
<1>4. d \in Seq(S) /\ Len(d) = 2 /\ \A i \in 1..2 : d[i] = IF i <= 1 THEN a[i] ELSE b[i - 1]
  BY <1>1, <1>3 DEF d
<1>5. \A i \in 1..2 : c[i] = d[i]
  BY <1>1, <1>2, <1>4
<1>6. c = d
  BY <1>2, <1>4, <1>5, SeqEqual
<1> QED
  BY <1>6 DEF a, b, c, d

\* A flag is read where the layout of its element ends.
LEMMA FlagStep ==
    ASSUME NEW p \in Seq(Chars), NEW f, CompiledOf(f, p), NEW i \in 1..Len(p), p[i] = "%",
           NEW it \in 1..Len(p), NEW pad, SpecIs(p, i, it, pad)
    PROVE  StepsTo(f, i, p[it], pad, it + 1)
<1>1. Len(p) \in Nat /\ i \in 1..Len(p) + 1 /\ i <= Len(p)
  OBVIOUS
<1>2. NextAt(p, i) = i
  <2> DEFINE k == NextAt(p, i)
  <2>1. k \in i..Len(p) + 1 /\ \A n \in i..k - 1 : p[n] # "%"
    BY <1>1, NextAtIs
  <2> HIDE DEF k
  <2>2. ASSUME k > i PROVE FALSE
    <3>1. i \in i..k - 1
      BY <1>1, <2>1, <2>2
    <3> QED
      BY <2>1, <3>1
  <2>3. k = i
    BY <1>1, <2>1, <2>2
  <2> QED
    BY <2>3 DEF k
<1>3. PadSpec(p, i + 1).it = it /\ PadSpec(p, i + 1).pad = pad
  BY DEF SpecIs
<1>4. ~(it > Len(p)) /\ ~(i > Len(p)) /\ ~(i > i) /\ it + 1 \in 1..Len(p) + 1
  BY <1>1
<1>5. ~Ended(p, i) /\ Piece(p, i) = HandleFlag(p[it], pad) /\ Further(p, i) = it + 1
  BY <1>2, <1>3, <1>4 DEF Ended, Piece, Further
<1> QED
  BY <1>1, <1>4, <1>5 DEF CompiledOf, StepsTo

\* An element whose reading is its own is shown as it is written.
LEMMA ReadsFlag ==
    ASSUME NEW p \in Seq(Chars), NEW f, CompiledOf(f, p), NEW m \in Messages,
           NEW i \in 1..Len(p), NEW e \in Element, ~e.literal, WellFormed(e),
           e.digits # <<>> => e.char # "D" /\ (e.char = "!" => e.truncate),
           NEW j \in Nat, NEW k \in Nat, NEW l \in Nat, Laid(p, i, e, j, k, l),
           NEW s, Reads(f[l + 1], m, s)
    PROVE  Reads(f[i], m, Shown(e, m) \o s)
<1>1. /\ p[i] = "%" /\ p[l] = e.char /\ l \in k..Len(p) /\ k \in j..Len(p) /\ j \in i + 1..i + 2
      /\ (e.truncate => p[k] = "!" /\ l = k + 1) /\ (~e.truncate => l = k)
  BY DEF Laid
<1>2. e.char \in Flags /\ (e.truncate => e.digits # <<>>)
  BY DEF WellFormed
<1>3. l \in 1..Len(p) /\ Len(p) \in Nat
  BY <1>1
<1>4. SpecFor(p, i, e, k)
  BY SpecRead
<1>5. PadSpec(p, i + 1) = [it |-> l, pad |-> PadOf(e)]
  <2>1. CASE e.digits = <<>>
    <3>1. ~e.truncate /\ l = k
      BY <1>1, <1>2, <2>1
    <3>2. PadSpec(p, i + 1) = [it |-> k, pad |-> NoPad]
      BY <1>4, <2>1 DEF SpecFor
    <3>3. PadOf(e) = NoPad
      BY <2>1 DEF PadOf
    <3> QED
      BY <3>1, <3>2, <3>3
  <2>2. CASE e.digits # <<>>
    <3> DEFINE cut == p[k] = "!"
    <3>1. PadSpec(p, i + 1)
             = [it |-> IF cut THEN k + 1 ELSE k,
                pad |-> [enabled |-> TRUE, width |-> Width(e.digits),
                         side |-> SideOf(e.mark), truncate |-> cut]]
      BY <1>4, <2>2 DEF SpecFor
    <3>2. cut = e.truncate /\ l = IF cut THEN k + 1 ELSE k
      <4>1. CASE e.truncate
        <5>1. cut /\ l = k + 1
          BY <1>1, <4>1
        <5>2. e.truncate \in BOOLEAN
          BY DEF Element
        <5> QED
          BY <4>1, <5>1, <5>2
      <4>2. CASE ~e.truncate
        <5>1. l = k /\ ~cut
          BY <1>1, <2>2, <4>2
        <5>2. e.truncate \in BOOLEAN
          BY DEF Element
        <5> QED
          BY <4>2, <5>1, <5>2
      <4> QED
        BY <4>1, <4>2
    <3>3. PadOf(e) = [enabled |-> TRUE, width |-> Width(e.digits), side |-> SideOf(e.mark),
                      truncate |-> e.truncate]
      BY <2>2 DEF PadOf
    <3> HIDE DEF cut
    <3> QED
      BY <3>1, <3>2, <3>3
  <2> QED
    BY <2>1, <2>2
<1>6. f[i] = HandleFlag(e.char, PadOf(e)) \o f[l + 1]
  <2> DEFINE pad == PadOf(e)
  <2> HIDE DEF pad
  <2>1. SpecIs(p, i, l, pad)
    BY <1>5 DEF pad, SpecIs
  <2>2. StepsTo(f, i, p[l], pad, l + 1)
    <3>1. p[i] = "%" /\ l \in 1..Len(p)
      BY <1>1, <1>3
    <3> QED
      BY <2>1, <3>1, FlagStep
  <2> QED
    BY <1>1, <2>2 DEF pad, StepsTo
<1>7. PICK x \in Fresh : HandleFlag(e.char, PadOf(e)) = <<x>> /\ Measured(x) /\ ShownBy(x, m) = Shown(e, m)
  <2>1. CASE e.char = "%"
    <3> DEFINE x == Text(<<"%">>)
    <3>1. HandleFlag(e.char, PadOf(e)) = <<x>>
      BY <2>1 DEF HandleFlag
    <3>2. <<"%">> \in Seq(Chars) /\ Len(<<"%">>) = 1 /\ <<"%">>[1] = "%"
      BY DEF Chars, Flags
    <3>3. x \in Fresh
      BY <3>2, TextType
    <3>4. Measured(x) /\ ShownBy(x, m) = Plainly(<<"%">>)
      BY DEF Text, Measured, ShownBy, NoPad
    <3>5. Plainly(<<"%">>) = <<<<"%", 0>>>>
      BY DEF Plainly
    <3>6. Shown(e, m) = <<<<"%", 0>>>>
      BY <2>1 DEF Shown
    <3> HIDE DEF x
    <3> QED
      BY <3>1, <3>3, <3>4, <3>5, <3>6
  <2>2. CASE e.char # "%"
    <3> DEFINE x == Formatter(e.char, PadOf(e))
    <3>1. HandleFlag(e.char, PadOf(e)) = <<x>>
      BY <1>2, <2>2 DEF HandleFlag
    <3>2. x \in Fresh
      BY <1>2, <2>2, PadOfType, FormatterType
    <3>3. ShownBy(x, m) = Shown(e, m)
      BY <2>2, ShownAlike
    <3>4. Measured(x)
      BY DEF Formatter, Measured, PadOf, NoPad
    <3> HIDE DEF x
    <3> QED
      BY <3>1, <3>2, <3>3, <3>4
  <2> QED
    BY <2>1, <2>2
<1>8. Reads(<<x>>, m, Shown(e, m))
  BY <1>7, ReadsOne DEF Reads
<1>9. Reads(<<x>> \o f[l + 1], m, Shown(e, m) \o s)
  BY <1>8, ReadsMore
<1> QED
  BY <1>6, <1>7, <1>9

\* A flag with a width that is read as the mark of truncation.
ReadAsMark(e) == ~e.literal /\ e.digits # <<>> /\ e.char = "!" /\ ~e.truncate

\* The character that follows it is no flag.
NoFlagAt(p, place) == p[place] \notin Flags

LEMMA Uncut ==
    ASSUME NEW w, NEW side
    PROVE  [[enabled |-> TRUE, width |-> w, side |-> side, truncate |-> TRUE] EXCEPT !.truncate = FALSE]
             = [enabled |-> TRUE, width |-> w, side |-> side, truncate |-> FALSE]
<1> DEFINE All == [enabled : BOOLEAN, width : {w}, side : {side}, truncate : BOOLEAN]
           r == [enabled |-> TRUE, width |-> w, side |-> side, truncate |-> TRUE]
           q == [enabled |-> TRUE, width |-> w, side |-> side, truncate |-> FALSE]
<1>1. /\ r \in All /\ r.enabled = TRUE /\ r.width = w /\ r.side = side
      /\ q \in All /\ q.enabled = TRUE /\ q.width = w /\ q.side = side /\ q.truncate = FALSE
  OBVIOUS
<1> HIDE DEF r, q
<1>2. LET u == [r EXCEPT !.truncate = FALSE]
      IN  u \in All /\ u.enabled = TRUE /\ u.width = w /\ u.side = side /\ u.truncate = FALSE
  BY <1>1
<1>3. [r EXCEPT !.truncate = FALSE] = q
  BY <1>1, <1>2
<1> QED
  BY <1>3 DEF r, q

\* The name of a function with a width, and the character after it.
LEMMA ReadsName ==
    ASSUME NEW p \in Seq(Chars), NEW f, CompiledOf(f, p), NEW m \in Messages,
           NEW i \in 1..Len(p), NEW e \in Element, ReadAsMark(e), WellFormed(e),
           NEW j \in Nat, NEW k \in Nat, NEW l \in Nat, Laid(p, i, e, j, k, l),
           NEW place \in 1..Len(p), place = l + 1, NoFlagAt(p, place),
           NEW s, Reads(f[place + 1], m, s)
    PROVE  Reads(f[i], m, Shown(e, m) \o (<<<<p[place], 0>>>> \o s))
<1> DEFINE c == p[place]
           pad == PadOf(e)
           x == Formatter("!", pad)
           y == Text(<<c>>)
<1>1. /\ p[i] = "%" /\ p[l] = "!" /\ l = k
      /\ l \in k..Len(p) /\ k \in j..Len(p) /\ j \in i + 1..i + 2
  BY DEF Laid, ReadAsMark
<1>2. place = k + 1
  BY <1>1
<1>3. c \in Chars
  OBVIOUS
<1> DEFINE w    == Width(e.digits)
           side == SideOf(e.mark)
           wide == [enabled |-> TRUE, width |-> w, side |-> side, truncate |-> TRUE]
<1>4. SpecIs(p, i, place, wide)
  <2>1. p[k] = "!"
    BY <1>1
  <2>2. PadSpec(p, i + 1)
           = [it |-> IF p[k] = "!" THEN k + 1 ELSE k,
              pad |-> [enabled |-> TRUE, width |-> Width(e.digits),
                       side |-> SideOf(e.mark), truncate |-> p[k] = "!"]]
    <3>1. ~e.literal /\ e.digits # <<>>
      BY DEF ReadAsMark
    <3>2. SpecFor(p, i, e, k)
      BY <3>1, SpecRead
    <3> QED
      BY <3>1, <3>2 DEF SpecFor
  <2>3. (p[k] = "!") = TRUE
    BY <2>1
  <2> QED
    BY <1>2, <2>2, <2>3 DEF SpecIs
<1>5. f[i] = HandleFlag(c, wide) \o f[place + 1] /\ f[place + 1] \in Seq(Fresh)
  <2> HIDE DEF wide
  <2>1. p[i] = "%"
    BY <1>1
  <2>2. StepsTo(f, i, c, wide, place + 1)
    BY <1>4, <2>1, FlagStep
  <2> QED
    BY <2>2 DEF StepsTo
<1>6. [wide EXCEPT !.truncate = FALSE] = pad
  <2>1. e.truncate = FALSE
    BY DEF Element, ReadAsMark
  <2>2. pad = [enabled |-> TRUE, width |-> w, side |-> side, truncate |-> FALSE]
    BY <2>1 DEF PadOf, ReadAsMark
  <2> HIDE DEF w, side, pad
  <2> QED
    BY <2>2, Uncut
<1>7. HandleFlag(c, wide) = <<x, y>>
  <2>1. c # "%" /\ c \notin Flags \ {"%"}
    BY DEF Flags, NoFlagAt
  <2>2. wide.truncate
    OBVIOUS
  <2> HIDE DEF wide, pad, c
  <2> QED
    BY <1>6, <2>1, <2>2 DEF HandleFlag
<1>8. x \in Fresh /\ Measured(x) /\ ShownBy(x, m) = Shown(e, m)
  <2>1. "!" \in Flags \ {"%"} /\ "!" # "%"
    BY DEF Flags
  <2>2. x \in Fresh
    BY <2>1, PadOfType, FormatterType
  <2>3. ShownBy(x, m) = Shown(e, m)
    BY <2>1, ShownAlike DEF ReadAsMark
  <2>4. Measured(x)
    BY DEF Formatter, Measured
  <2> QED
    BY <2>2, <2>3, <2>4
<1>9. y \in Fresh /\ Measured(y) /\ ShownBy(y, m) = <<<<c, 0>>>>
  <2> HIDE DEF c
  <2>1. <<c>> \in Seq(Chars) /\ Len(<<c>>) = 1 /\ <<c>>[1] = c
    BY <1>3
  <2>2. y \in Fresh
    BY <2>1, TextType
  <2>3. Measured(y) /\ ShownBy(y, m) = Plainly(<<c>>)
    BY DEF Text, Measured, ShownBy, NoPad
  <2>4. Plainly(<<c>>) = <<<<c, 0>>>>
    BY DEF Plainly
  <2> QED
    BY <2>2, <2>3, <2>4
<1> HIDE DEF c, pad, x, y, wide
<1> DEFINE g == f[place + 1]
           a == Shown(e, m)
           b == <<<<c, 0>>>>
<1>10. Reads(<<x>>, m, a) /\ Reads(<<y>>, m, b)
  BY <1>8, <1>9, ReadsOne DEF Reads
<1>11. f[i] = <<x>> \o (<<y>> \o g)
  <2>1. <<x, y>> = <<x>> \o <<y>>
    BY <1>8, <1>9, InTwo
  <2>2. <<x>> \in Seq(Fresh) /\ <<y>> \in Seq(Fresh) /\ g \in Seq(Fresh)
    BY <1>5, <1>8, <1>9
  <2> DEFINE x1 == <<x>>
             y1 == <<y>>
  <2> HIDE DEF x1, y1, g
  <2>3. ThreeInTurn(x1, y1, g)
    BY <2>2, InThree DEF x1, y1
  <2>4. f[i] = (x1 \o y1) \o g
    BY <1>5, <1>7, <2>1 DEF x1, y1, g
  <2> QED
    BY <2>3, <2>4 DEF ThreeInTurn, x1, y1
<1> HIDE DEF a, b, g
<1>12. Reads(g, m, s)
  BY DEF g
<1>13. Reads(<<y>> \o g, m, b \o s)
  BY <1>10, <1>12, ReadsMore
<1>14. Reads(<<x>> \o (<<y>> \o g), m, a \o (b \o s))
  BY <1>10, <1>13, ReadsMore
<1> QED
  BY <1>11, <1>14 DEF a, b, c

-----------------------------------------------------------------------------
(* Where the elements of a pattern are written.                            *)

\* q is the end of p.
EndsIn(p, q) == Len(q) <= Len(p) /\ \A j \in 1..Len(q) : p[Len(p) - Len(q) + j] = q[j]
Start(p, q) == Len(p) - Len(q) + 1
Made(q, a, b) == q = a \o b

LEMMA TailRest ==
    ASSUME NEW T, NEW p \in Seq(T), NEW a \in Seq(T), NEW b \in Seq(T), NEW q \in Seq(T),
           Made(q, a, b), EndsIn(p, q)
    PROVE  /\ EndsIn(p, b) /\ At(p, Start(p, q), a)
           /\ Len(q) = Len(a) + Len(b) /\ Len(q) <= Len(p)
<1>1. /\ Len(q) = Len(a) + Len(b)
      /\ \A i \in 1..Len(a) + Len(b) : q[i] = IF i <= Len(a) THEN a[i] ELSE b[i - Len(a)]
  BY ConcatProperties DEF Made
<1>2. Len(p) \in Nat /\ Len(a) \in Nat /\ Len(b) \in Nat
  OBVIOUS
<1>3. Len(q) <= Len(p) /\ \A j \in 1..Len(q) : p[Len(p) - Len(q) + j] = q[j]
  BY DEF EndsIn
<1> DEFINE x == Len(p)
           y == Len(a)
           z == Len(b)
<1>4. x \in Nat /\ y \in Nat /\ z \in Nat /\ Len(q) = y + z /\ y + z <= x
  BY <1>1, <1>2, <1>3
<1>5. \A i \in 1..y + z : q[i] = IF i <= y THEN a[i] ELSE b[i - y]
  BY <1>1
<1>6. \A j \in 1..y + z : p[x - (y + z) + j] = q[j]
  BY <1>3, <1>4
<1> HIDE DEF x, y, z
<1>7. ASSUME NEW j \in 1..z PROVE p[x - z + j] = b[j]
  <2>1. y + j \in 1..y + z /\ ~(y + j <= y) /\ (y + j) - y = j /\ x - (y + z) + (y + j) = x - z + j
    BY <1>4
  <2>2. p[x - (y + z) + (y + j)] = q[y + j]
    BY <1>6, <2>1
  <2>3. q[y + j] = b[j]
    BY <1>5, <2>1
  <2> QED
    BY <2>1, <2>2, <2>3
<1>8. ASSUME NEW j \in 1..y PROVE p[(x - (y + z) + 1) + j - 1] = a[j]
  <2>1. j \in 1..y + z /\ j <= y /\ (x - (y + z) + 1) + j - 1 = x - (y + z) + j
    BY <1>4
  <2>2. q[j] = a[j]
    BY <1>5, <2>1
  <2>3. p[x - (y + z) + j] = q[j]
    BY <1>6, <2>1
  <2> QED
    BY <2>1, <2>2, <2>3
<1>9. z <= x /\ (x - (y + z) + 1) + y <= x + 1
  BY <1>4
<1> QED
  BY <1>4, <1>7, <1>8, <1>9 DEF EndsIn, At, Start, x, y, z

\* The places where the parts of a joined sequence begin.
Placed(pos, p, s) ==
    /\ pos[1] = 1 /\ pos[Len(s) + 1] = Len(p) + 1
    /\ \A k \in 1..Len(s) + 1 : pos[k] \in 1..Len(p) + 1
    /\ \A k \in 1..Len(s) : At(p, pos[k], s[k]) /\ pos[k + 1] = pos[k] + Len(s[k])

LEMMA JoinedPlaces ==
    ASSUME NEW T, NEW s \in Seq(Seq(T))
    PROVE  \E pos : Placed(pos, Joined(s), s)
<1>1. PICK f : JoinsFrom(f, s, T) /\ Joined(s) = f[1]
  BY JoinedIs
<1> DEFINE n == Len(s)
           p == f[1]
<1>2. n \in Nat /\ \A k \in 1..n : s[k] \in Seq(T) /\ k + 1 \in 1..n + 1
  OBVIOUS
<1>3. f[n + 1] = <<>> /\ (\A k \in 1..n : f[k] = s[k] \o f[k + 1]) /\ \A k \in 1..n + 1 : f[k] \in Seq(T)
  BY <1>1 DEF JoinsFrom
<1>4. p \in Seq(T)
  BY <1>2, <1>3
<1>5. EndsIn(p, p)
  <2>1. Len(p) \in Nat /\ \A j \in 1..Len(p) : Len(p) - Len(p) + j = j
    BY <1>4
  <2> HIDE DEF p
  <2> QED
    BY <2>1 DEF EndsIn
<1> HIDE DEF n, p
<1> DEFINE S == {k \in 0..n : EndsIn(p, f[k + 1])}
<1>6. \A k \in 0..n : k \in S
  <2>1. 0 \in S
    BY <1>2, <1>5 DEF p
  <2>2. ASSUME NEW k \in 0..n - 1, k \in S PROVE k + 1 \in S
    <3>1. k + 1 \in 1..n /\ k + 1 \in 0..n /\ (k + 1) + 1 \in 1..n + 1 /\ k + 1 \in 1..n + 1
      BY <1>2
    <3>2. Made(f[k + 1], s[k + 1], f[(k + 1) + 1]) /\ f[k + 1] \in Seq(T)
          /\ s[k + 1] \in Seq(T) /\ f[(k + 1) + 1] \in Seq(T)
      BY <1>2, <1>3, <3>1 DEF Made
    <3>3. EndsIn(p, f[(k + 1) + 1])
      BY <1>4, <2>2, <3>2, TailRest
    <3> QED
      BY <3>1, <3>3
  <2> HIDE DEF S
  <2> QED
    BY <1>2, <2>1, <2>2, CountedUp
<1>7. ASSUME NEW k \in 1..n + 1 PROVE EndsIn(p, f[k])
  <2>1. k - 1 \in 0..n /\ (k - 1) + 1 = k
    BY <1>2
  <2> QED
    BY <1>6, <2>1
<1> DEFINE pos == [k \in 1..n + 1 |-> Start(p, f[k])]
<1>8. \A k \in 1..n + 1 : pos[k] = Start(p, f[k])
  OBVIOUS
<1> HIDE DEF pos, S
<1>9. ASSUME NEW k \in 1..n + 1 PROVE pos[k] \in 1..Len(p) + 1
  <2>1. Len(f[k]) \in Nat /\ Len(p) \in Nat
    BY <1>3, <1>4
  <2>2. Len(f[k]) <= Len(p)
    BY <1>7 DEF EndsIn
  <2> DEFINE x == Len(p)
             y == Len(f[k])
  <2>3. x - y + 1 \in 1..x + 1
    <3>1. x \in Nat /\ y \in Nat /\ y <= x
      BY <2>1, <2>2
    <3> HIDE DEF x, y
    <3> QED
      BY <3>1
  <2> QED
    BY <1>8, <2>3 DEF Start
<1>10. ASSUME NEW k \in 1..n PROVE At(p, pos[k], s[k]) /\ pos[k + 1] = pos[k] + Len(s[k])
  <2>1. k \in 1..n + 1 /\ k + 1 \in 1..n + 1
    BY <1>2
  <2>2. Made(f[k], s[k], f[k + 1]) /\ f[k] \in Seq(T) /\ s[k] \in Seq(T) /\ f[k + 1] \in Seq(T)
    BY <1>2, <1>3, <2>1 DEF Made
  <2>3. At(p, Start(p, f[k]), s[k]) /\ Len(f[k]) = Len(s[k]) + Len(f[k + 1])
    <3>1. EndsIn(p, f[k])
      BY <1>7, <2>1
    <3> DEFINE q == f[k]
               a == s[k]
               b == f[k + 1]
    <3>2. EndsIn(p, q) /\ Made(q, a, b) /\ q \in Seq(T) /\ a \in Seq(T) /\ b \in Seq(T)
      BY <2>2, <3>1
    <3> HIDE DEF q, a, b
    <3>3. At(p, Start(p, q), a) /\ Len(q) = Len(a) + Len(b)
      BY <1>4, <3>2, TailRest
    <3> QED
      BY <3>3 DEF q, a, b
  <2>4. pos[k] = Start(p, f[k]) /\ pos[k + 1] = Start(p, f[k + 1])
    BY <1>8, <2>1
  <2>5. Len(p) \in Nat /\ Len(s[k]) \in Nat /\ Len(f[k + 1]) \in Nat
    BY <1>4, <2>2
  <2>6. Len(f[k]) = Len(s[k]) + Len(f[k + 1])
    BY <2>3
  <2>7. pos[k + 1] = pos[k] + Len(s[k])
    BY <2>4, <2>5, <2>6 DEF Start
  <2> QED
    BY <2>3, <2>4, <2>7
<1>11. pos[1] = 1 /\ pos[n + 1] = Len(p) + 1
  <2>1. 1 \in 1..n + 1 /\ n + 1 \in 1..n + 1 /\ Len(<<>>) = 0
    BY <1>2
  <2>2. Len(p) \in Nat
    BY <1>4
  <2>3. pos[1] = Len(p) - Len(p) + 1
    BY <1>8, <2>1 DEF p, Start
  <2>4. pos[n + 1] = Len(p) - 0 + 1
    BY <1>3, <1>8, <2>1 DEF Start
  <2> QED
    BY <2>2, <2>3, <2>4
<1>12. Placed(pos, p, s)
  BY <1>9, <1>10, <1>11 DEF Placed, n
<1> QED
  BY <1>1, <1>12 DEF p

-----------------------------------------------------------------------------
(* The pattern is read as it is written.                                   *)

WellFormedAll(es) == es \in Seq(Element) /\ \A i \in 1..Len(es) : WellFormed(es[i])

LEMMA ShownType ==
    ASSUME NEW e \in Element, WellFormed(e), NEW m \in Messages
    PROVE  Shown(e, m) \in Seq(Pair)
<1>1. e.char \in Chars
  BY DEF Element
<1>2. CASE e.literal \/ e.char = "%"
  <2>1. Shown(e, m) = <<<<e.char, 0>>>>
    BY <1>2 DEF Shown
  <2>2. <<e.char, 0>> \in Pair
    BY <1>1 DEF Pair
  <2> QED
    BY <2>1, <2>2
<1>3. CASE ~(e.literal \/ e.char = "%")
  <2>1. e.char \in Flags \ {"%"}
    BY <1>3 DEF WellFormed
  <2>2. Formatter(e.char, PadOf(e)) \in Formatters
    BY <2>1, PadOfType, FormatterType, FreshIsFormatter
  <2>3. ShownBy(Formatter(e.char, PadOf(e)), m) = Shown(e, m)
    BY <1>3, ShownAlike
  <2> QED
    BY <2>2, <2>3, ShownByType
<1> QED
  BY <1>2, <1>3

\* What is read from the places of the elements on is what they show.
ReadFrom(f, pos, J, m, k) == Reads(f[pos[k]], m, J[k])

\* The shows of the elements from the k-th on.
ShowsFrom(J, es, m) ==
    /\ J[Len(es) + 1] = <<>>
    /\ \A k \in 1..Len(es) : J[k] = Shown(es[k], m) \o J[k + 1]

\* The elements of a pattern in their places.
Spread(es, p, pos) ==
    /\ pos[1] = 1 /\ pos[Len(es) + 1] = Len(p) + 1
    /\ \A k \in 1..Len(es) + 1 : pos[k] \in 1..Len(p) + 1
    /\ \A k \in 1..Len(es) :
          At(p, pos[k], Written(es[k])) /\ pos[k + 1] = pos[k] + Len(Written(es[k]))

LEMMA LiteralAt ==
    ASSUME NEW p \in Seq(Chars), NEW i \in 1..Len(p) + 1, NEW e \in Element, e.literal,
           At(p, i, Written(e))
    PROVE  i \in 1..Len(p) /\ p[i] = e.char /\ Len(Written(e)) = 1
<1>1. Written(e) = <<e.char>> /\ Len(<<e.char>>) = 1 /\ <<e.char>>[1] = e.char
  BY DEF Written
<1> DEFINE w == Written(e)
           c == e.char
<1>2. At(p, i, w) /\ Len(w) = 1 /\ w[1] = c
  BY <1>1
<1> HIDE DEF w, c
<1>3. i + Len(w) <= Len(p) + 1 /\ \A k \in 1..Len(w) : p[i + k - 1] = w[k]
  BY <1>2 DEF At
<1>4. Len(w) = 1 /\ Len(p) \in Nat /\ i \in Nat
  BY <1>2
<1>5. i \in 1..Len(p) /\ 1 \in 1..Len(w) /\ i + 1 - 1 = i
  <2>1. i + Len(w) <= Len(p) + 1
    BY <1>3
  <2> QED
    BY <1>4, <2>1
<1>6. p[i + 1 - 1] = w[1]
  BY <1>3, <1>5
<1> QED
  BY <1>2, <1>5, <1>6 DEF w, c

LEMMA ReadsElement ==
    ASSUME NEW es, WellFormedAll(es), Plain(es), NEW m \in Messages,
           NEW p \in Seq(Chars), NEW f, CompiledOf(f, p), NEW pos, Spread(es, p, pos),
           NEW J, ShowsFrom(J, es, m), NEW k \in 1..Len(es),
           \A n \in k + 1..Len(es) + 1 : ReadFrom(f, pos, J, m, n)
    PROVE  ReadFrom(f, pos, J, m, k)
<1> DEFINE e == es[k]
           i == pos[k]
           s == J[k + 1]
<1>1. /\ es \in Seq(Element) /\ Len(es) \in Nat /\ k \in 1..Len(es) + 1
      /\ k + 1 \in 1..Len(es) + 1 /\ k + 1 \in k + 1..Len(es) + 1
  BY DEF WellFormedAll
<1>2. e \in Element /\ WellFormed(e)
  BY <1>1 DEF WellFormedAll
<1>3. /\ i \in 1..Len(p) + 1 /\ At(p, i, Written(e)) /\ pos[k + 1] = i + Len(Written(e))
  BY <1>1 DEF Spread
<1>4. Reads(f[pos[k + 1]], m, s)
  BY <1>1 DEF ReadFrom
<1>5. J[k] = Shown(e, m) \o s
  BY DEF ShowsFrom
<1>6. ~e.literal /\ e.digits # <<>> =>
         /\ e.char # "D"
         /\ e.char = "!" /\ ~e.truncate =>
              k < Len(es) /\ es[k + 1].literal /\ es[k + 1].char \notin Flags
  BY <1>1 DEF Plain
<1> HIDE DEF e, i, s
<1>7. CASE e.literal
  <2>1. i \in 1..Len(p) /\ p[i] = e.char /\ Len(Written(e)) = 1
    BY <1>2, <1>3, <1>7, LiteralAt
  <2>2. p[i] # "%"
    BY <1>2, <1>7, <2>1 DEF WellFormed
  <2>3. Reads(f[i + 1], m, s)
    BY <1>3, <1>4, <2>1
  <2>4. Reads(f[i], m, <<<<p[i], 0>>>> \o s)
    BY <2>1, <2>2, <2>3, ReadsChar
  <2>5. Shown(e, m) = <<<<p[i], 0>>>>
    BY <1>7, <2>1 DEF Shown
  <2> QED
    BY <1>5, <2>4, <2>5 DEF ReadFrom, i
<1>8. CASE ~e.literal
  <2>1. PICK j \in i + 1..i + 2 : \E a \in j..Len(p) : \E l \in a..Len(p) : Laid(p, i, e, j, a, l)
    BY <1>2, <1>3, <1>8, LaidOut
  <2>2. PICK a \in j..Len(p) : \E l \in a..Len(p) : Laid(p, i, e, j, a, l)
    BY <2>1
  <2>3. PICK l \in a..Len(p) : Laid(p, i, e, j, a, l)
    BY <2>2
  <2>4. i + Len(Written(e)) = l + 1
    BY <2>3 DEF Laid
  <2>5. j \in Nat /\ a \in Nat /\ l \in Nat /\ i \in 1..Len(p) /\ pos[k + 1] = l + 1
    <3>1. Len(p) \in Nat
      OBVIOUS
    <3> QED
      BY <1>3, <2>3, <2>4, <3>1
  <2>6. CASE ~ReadAsMark(e)
    <3>1. e.digits # <<>> => e.char # "D" /\ (e.char = "!" => e.truncate)
      BY <1>6, <1>8, <2>6 DEF ReadAsMark
    <3>2. Reads(f[l + 1], m, s)
      BY <1>4, <2>5
    <3>3. Reads(f[i], m, Shown(e, m) \o s)
      BY <1>2, <1>8, <2>3, <2>5, <3>1, <3>2, ReadsFlag
    <3> QED
      BY <1>5, <3>3 DEF ReadFrom, i
  <2>7. CASE ReadAsMark(e)
    <3> DEFINE place == pos[k + 1]
               g == es[k + 1]
               t == J[k + 2]
    <3>1. k < Len(es) /\ g.literal /\ g.char \notin Flags
      BY <1>6, <2>7 DEF ReadAsMark
    <3>2. /\ k + 1 \in 1..Len(es) /\ (k + 1) + 1 = k + 2
          /\ k + 2 \in 1..Len(es) + 1 /\ k + 2 \in k + 1..Len(es) + 1
      BY <1>1, <3>1
    <3>3. g \in Element
      BY <1>1, <3>2
    <3>4. place \in 1..Len(p) + 1 /\ At(p, place, Written(g)) /\ pos[k + 2] = place + Len(Written(g))
      BY <1>1, <3>2 DEF Spread
    <3>5. Reads(f[pos[k + 2]], m, t)
      BY <3>2 DEF ReadFrom
    <3>6. s = Shown(g, m) \o t
      BY <3>2 DEF ShowsFrom, s
    <3>7. place = l + 1
      BY <2>5
    <3> HIDE DEF place, g, t
    <3>8. place \in 1..Len(p) /\ p[place] = g.char /\ Len(Written(g)) = 1
      BY <3>1, <3>3, <3>4, LiteralAt
    <3>9. Reads(f[place + 1], m, t)
      BY <3>4, <3>5, <3>8
    <3>10. NoFlagAt(p, place)
      BY <3>1, <3>8 DEF NoFlagAt
    <3>11. Reads(f[i], m, Shown(e, m) \o (<<<<p[place], 0>>>> \o t))
      BY <1>2, <2>3, <2>5, <2>7, <3>7, <3>8, <3>9, <3>10, ReadsName
    <3>12. Shown(g, m) = <<<<p[place], 0>>>>
      BY <3>1, <3>8 DEF Shown
    <3> QED
      BY <1>5, <3>6, <3>11, <3>12 DEF ReadFrom, i
  <2> QED
    BY <2>6, <2>7
<1> QED
  BY <1>7, <1>8

LEMMA ReadsWritten ==
    ASSUME NEW es, WellFormedAll(es), Plain(es), NEW m \in Messages, Pattern(es) \in Seq(Chars)
    PROVE  Reads(Compile(Pattern(es)), m, Joined([i \in DOMAIN es |-> Shown(es[i], m)]))
<1> DEFINE p == Pattern(es)
           n == Len(es)
           w == [i \in DOMAIN es |-> Written(es[i])]
           v == [i \in DOMAIN es |-> Shown(es[i], m)]
<1>1. es \in Seq(Element) /\ n \in Nat /\ DOMAIN es = 1..n /\ \A i \in 1..n : es[i] \in Element /\ WellFormed(es[i])
  BY DEF WellFormedAll
<1>2. w \in Seq(Seq(Chars)) /\ Len(w) = n /\ \A i \in 1..n : w[i] = Written(es[i])
  <2>1. \A i \in 1..n : Written(es[i]) \in Seq(Chars)
    BY <1>1, WrittenType
  <2> QED
    BY <1>1, <2>1
<1>3. v \in Seq(Seq(Pair)) /\ Len(v) = n /\ \A i \in 1..n : v[i] = Shown(es[i], m)
  <2>1. \A i \in 1..n : Shown(es[i], m) \in Seq(Pair)
    BY <1>1, ShownType
  <2> QED
    BY <1>1, <2>1
<1>4. p = Joined(w)
  BY DEF Pattern
<1> HIDE DEF p, w, v, n
<1>5. PICK pos : Spread(es, p, pos)
  <2>1. PICK pos : Placed(pos, p, w)
    BY <1>2, <1>4, JoinedPlaces
  <2>2. /\ pos[1] = 1 /\ pos[n + 1] = Len(p) + 1
        /\ \A k \in 1..n + 1 : pos[k] \in 1..Len(p) + 1
        /\ \A k \in 1..n : At(p, pos[k], w[k]) /\ pos[k + 1] = pos[k] + Len(w[k])
    BY <1>2, <2>1 DEF Placed
  <2>3. Spread(es, p, pos)
    BY <1>2, <2>2 DEF Spread, n
  <2> QED
    BY <2>3
<1>6. PICK J : JoinsFrom(J, v, Pair) /\ Joined(v) = J[1]
  BY <1>3, JoinedIs
<1>7. ShowsFrom(J, es, m)
  <2>1. J[Len(v) + 1] = <<>> /\ \A i \in 1..Len(v) : J[i] = v[i] \o J[i + 1]
    BY <1>6 DEF JoinsFrom
  <2> QED
    BY <1>3, <2>1 DEF ShowsFrom, n
<1>8. p \in Seq(Chars)
  BY DEF p
<1>9. PICK f : Compile(p) = f[1] /\ CompiledOf(f, p)
  BY <1>8, CompileIs DEF CompiledOf
<1> DEFINE S == {k \in 1..n + 1 : ReadFrom(f, pos, J, m, k)}
<1>10. ReadFrom(f, pos, J, m, n + 1)
  <2>1. pos[n + 1] = Len(p) + 1 /\ J[n + 1] = <<>>
    BY <1>5, <1>7 DEF Spread, ShowsFrom, n
  <2>2. Len(p) \in Nat /\ Len(p) + 1 \in 1..Len(p) + 1 /\ Len(p) + 1 > Len(p)
    BY <1>8
  <2>3. f[Len(p) + 1] = <<>>
    BY <1>9, <2>2 DEF CompiledOf, Ended
  <2> QED
    BY <2>1, <2>3, ReadsNone DEF ReadFrom
<1>11. ASSUME NEW k \in 1..n + 1, \A j \in k + 1..n + 1 : j \in S PROVE k \in S
  <2>1. CASE k = n + 1
    BY <1>10, <2>1
  <2>2. CASE k # n + 1
    <3>1. k \in 1..Len(es)
      BY <1>1, <2>2 DEF n
    <3>2. \A j \in k + 1..Len(es) + 1 : ReadFrom(f, pos, J, m, j)
      BY <1>11 DEF n
    <3>3. ReadFrom(f, pos, J, m, k)
      BY <1>5, <1>7, <1>8, <1>9, <3>1, <3>2, ReadsElement
    <3> QED
      BY <3>3
  <2> QED
    BY <2>1, <2>2
<1>12. \A k \in 1..n + 1 : k \in S
  <2>1. n + 1 \in Nat
    BY <1>1
  <2> HIDE DEF S
  <2> QED
    BY <1>11, <2>1, CountedDown
<1>13. ReadFrom(f, pos, J, m, 1)
  <2>1. 1 \in 1..n + 1
    BY <1>1
  <2> QED
    BY <1>12, <2>1
<1>14. pos[1] = 1
  BY <1>5 DEF Spread
<1>15. Reads(Compile(p), m, Joined(v))
  BY <1>6, <1>9, <1>13, <1>14 DEF ReadFrom
<1> QED
  BY <1>15 DEF p, v

\* A line shows what the pattern means.
LEMMA FormatShows ==
    ASSUME PatternInv, NEW m \in Messages, Format(m)
    PROVE  ShownAsWritten'
<1> SUFFICES ASSUME Plain(elements)
             PROVE  /\ ~terminated'
                    /\ [i \in DOMAIN dest' |-> <<dest'[i].of, dest'[i].n>>]
                         = Joined([i \in DOMAIN elements |-> Shown(elements[i], m)])
  <2>1. elements' = elements /\ msg' = m
    BY DEF Format
  <2> QED
    BY <2>1 DEF ShownAsWritten
<1> DEFINE made == Compile(Pattern(elements))
           fs == formatters_'
           s == Joined([i \in DOMAIN elements |-> Shown(elements[i], m)])
<1>1. elements \in Patterns \cup Later
  BY DEF PatternInv, FormattersInv
<1>2. WellFormedAll(elements)
  <2>1. elements \in Seq(Element) /\ \A i \in DOMAIN elements : WellFormed(elements[i])
    BY <1>1, PatternAssumption
  <2>2. DOMAIN elements = 1..Len(elements)
    BY <2>1
  <2> QED
    BY <2>1, <2>2 DEF WellFormedAll
<1>3. Reads(made, m, s)
  BY <1>1, <1>2, PatternType, ReadsWritten
<1>4. Remade(fs, made) /\ Ready(fs, m, cached_tm_')
  BY FormatReady
<1>5. PICK f : /\ IsLine(f, Len(fs), fs, m, cached_tm_')
               /\ dest' = f[Len(fs)].dest /\ terminated' = f[Len(fs)].dead
  BY FormatLine
<1> HIDE DEF made, fs, s
<1>6. Shows(fs, m) = s /\ AllMeasured(fs)
  BY <1>3, <1>4, ShowsAlike DEF Reads
<1>7. ~f[Len(fs)].dead /\ PairsOf(f[Len(fs)].dest) = Shows(fs, m)
  BY <1>4, <1>5, <1>6, LineShows
<1>8. PairsOf(dest') = s /\ ~terminated'
  BY <1>5, <1>6, <1>7
<1>9. [i \in DOMAIN dest' |-> <<dest'[i].of, dest'[i].n>>] = PairsOf(dest')
  BY DEF PairsOf, PairOf
<1> QED
  BY <1>8, <1>9 DEF s

\* The line of every plain pattern shows what its writer means, whatever its
\* literals (all but the percent sign), elements, widths, sides and truncation, and
\* whatever the messages and patterns before (pattern_formatter-inl.h:60,
\* 1351-1387).  Plain leaves out a %D with a width and a function name with a width
\* before a flag or at the end; %+ and %% show no width.
THEOREM ShownCorrect == Spec => []ShownAsWritten
<1>1. Init => ShownAsWritten
  BY DEF Init, ShownAsWritten
<1>2. PatternInv /\ ShownAsWritten /\ [Next]_vars => ShownAsWritten'
  <2> SUFFICES ASSUME PatternInv, ShownAsWritten, [Next]_vars PROVE ShownAsWritten'
    OBVIOUS
  <2>1. ASSUME NEW es \in Later, SetPattern(es) PROVE ShownAsWritten'
    BY <2>1 DEF SetPattern, Compiled, ShownAsWritten
  <2>2. CASE Clone
    BY <2>2 DEF Clone, Compiled, ShownAsWritten
  <2>3. ASSUME NEW m \in Messages, Format(m) PROVE ShownAsWritten'
    BY <2>3, FormatShows
  <2>4. CASE UNCHANGED vars
    <3>1. elements' = elements /\ dest' = dest /\ msg' = msg /\ terminated' = terminated
      BY <2>4 DEF vars, compiled
    <3> QED
      BY <3>1 DEF ShownAsWritten
  <2> QED
    BY <2>1, <2>2, <2>3, <2>4 DEF Next
<1> QED
  BY <1>1, <1>2, PatternCorrect, PTL DEF Spec
=============================================================================
