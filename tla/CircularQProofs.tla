-------------------------- MODULE CircularQProofs --------------------------
(***************************************************************************)
(* Proofs about CircularQ: its state is well formed, and it implements     *)
(* BoundedQueue, for all queues, items and capacities.                     *)
(***************************************************************************)
EXTENDS CircularQ, SequenceTheorems, TLAPS

-----------------------------------------------------------------------------
(* Arithmetic of the indices.                                              *)

\* The index after j in a ring of m slots.
LEMMA NextIndex ==
    ASSUME NEW m \in Nat \ {0}, NEW j \in 0..m - 1
    PROVE  /\ (j + 1) % m = IF j = m - 1 THEN 0 ELSE j + 1
           /\ (j + 1) % m \in 0..m - 1
<1>1. CASE j = m - 1
  <2>1. m % m = 0
    BY SMT
  <2> QED
    BY <1>1, <2>1
<1>2. CASE j # m - 1
  <2>1. j + 1 \in 0..m - 1
    BY <1>2
  <2>2. \A x \in 0..m - 1 : x % m = x
    BY SMT
  <2> QED
    BY <1>2, <2>1, <2>2
<1> QED
  BY <1>1, <1>2

\* The index n places after h.
LEMMA IndexAt ==
    ASSUME NEW m \in Nat \ {0}, NEW h \in 0..m - 1, NEW n \in 0..m - 1
    PROVE  /\ (h + n) % m = IF h + n < m THEN h + n ELSE h + n - m
           /\ (h + n) % m \in 0..m - 1
<1>1. CASE h + n < m
  <2>1. \A x \in 0..m - 1 : x % m = x
    BY SMT
  <2> QED
    BY <1>1, <2>1
<1>2. CASE h + n >= m
  <2>1. \A x \in m..2 * m - 1 : x % m = x - m
    BY SMT
  <2>2. h + n \in m..2 * m - 1
    BY <1>2
  <2> QED
    BY <1>2, <2>1, <2>2
<1> QED
  BY <1>1, <1>2

-----------------------------------------------------------------------------
(* The arrays and the indices are well formed.                             *)

\* A ring that has slots: its indices and their successors lie in it.
LEMMA AfterType ==
    ASSUME RingsOK, NEW q \in Queues, max_items_[q] > 0,
           NEW j \in 0..max_items_[q] - 1
    PROVE  /\ After(q, j) = IF j = max_items_[q] - 1 THEN 0 ELSE j + 1
           /\ After(q, j) \in 0..max_items_[q] - 1
<1>1. max_items_[q] \in Nat \ {0}
  BY DEF RingsOK, RingOK
<1> QED
  BY <1>1, NextIndex DEF After

\* A function on the queues stays one when its value for one queue changes.
LEMMA Shape ==
    ASSUME NEW f, f = [r \in Queues |-> f[r]], NEW q \in Queues, NEW w, NEW g,
           g = [f EXCEPT ![q] = w]
    PROVE  g = [r \in Queues |-> g[r]] /\ g[q] = w /\ \A r \in Queues \ {q} : g[r] = f[r]
<1>1. g = [r \in Queues |-> IF r = q THEN w ELSE f[r]]
  OBVIOUS
<1> QED
  BY <1>1

LEMMA InitRings == Init => RingsOK
  BY DEF Init, RingsOK, RingOK

LEMMA StepRings == RingsOK /\ [Next]_vars => RingsOK'
<1> SUFFICES ASSUME RingsOK, [Next]_vars PROVE RingsOK'
  OBVIOUS
<1>1. ASSUME NEW q \in Queues, NEW n \in Capacities, construct(q, n) PROVE RingsOK'
  <2>1. RingOK(q)'
    <3>1. v_' = [v_ EXCEPT ![q] = [j \in 0..n |-> NoItem]]
      BY <1>1 DEF construct
    <3>2. v_'[q] = [j \in 0..n |-> NoItem]
      BY <3>1, Shape DEF RingsOK
    <3>3. n \in Nat /\ n + 1 - 1 = n
      BY CapacityAssumption
    <3>4. max_items_'[q] = n + 1 /\ head_'[q] = 0 /\ tail_'[q] = 0 /\ overrun_counter_'[q] = 0
      BY <1>1 DEF construct, RingsOK
    <3> QED
      BY <3>2, <3>3, <3>4 DEF RingOK, Objects
  <2>2. \A r \in Queues \ {q} : RingOK(r)'
    BY <1>1 DEF construct, RingsOK, RingOK
  <2>3. /\ max_items_' \in [Queues -> Nat]
        /\ head_' \in [Queues -> Nat] /\ tail_' \in [Queues -> Nat]
        /\ overrun_counter_' \in [Queues -> Nat]
        /\ v_' = [r \in Queues |-> v_'[r]]
    <3>1. v_' = [r \in Queues |-> v_'[r]]
      BY <1>1, Shape DEF construct, RingsOK
    <3> QED
      BY <1>1, <3>1, CapacityAssumption DEF construct, RingsOK
  <2> QED
    BY <2>1, <2>2, <2>3 DEF RingsOK
<1>2. ASSUME NEW q \in Queues, NEW x \in Items, push_back(q, x) PROVE RingsOK'
  <2>1. max_items_[q] > 0 /\ tail_[q] \in 0..max_items_[q] - 1 /\ head_[q] \in 0..max_items_[q] - 1
    BY <1>2 DEF push_back, RingsOK, RingOK
  <2>2. After(q, tail_[q]) \in 0..max_items_[q] - 1 /\ After(q, head_[q]) \in 0..max_items_[q] - 1
    BY <2>1, AfterType
  <2>3. RingOK(q)'
    <3>1. v_'[q] = [v_[q] EXCEPT ![tail_[q]] = x]
      BY <1>2 DEF push_back, RingsOK
    <3>2. v_'[q] \in [0..max_items_[q] - 1 -> Objects]
      BY <2>1, <3>1 DEF RingsOK, RingOK, Objects
    <3>3. /\ max_items_'[q] = max_items_[q]
          /\ head_'[q] \in 0..max_items_[q] - 1 /\ tail_'[q] \in 0..max_items_[q] - 1
          /\ overrun_counter_'[q] \in Nat
      BY <1>2, <2>1, <2>2 DEF push_back, HeadAfterPush, RingsOK
    <3> QED
      BY <2>1, <3>2, <3>3 DEF RingsOK, RingOK
  <2>4. \A r \in Queues \ {q} : RingOK(r)'
    BY <1>2 DEF push_back, RingsOK, RingOK
  <2>5. /\ max_items_' \in [Queues -> Nat]
        /\ head_' \in [Queues -> Nat] /\ tail_' \in [Queues -> Nat]
        /\ overrun_counter_' \in [Queues -> Nat]
        /\ v_' = [r \in Queues |-> v_'[r]]
    <3>1. v_' = [v_ EXCEPT ![q] = [v_[q] EXCEPT ![tail_[q]] = x]]
      BY <1>2 DEF push_back
    <3>2. v_' = [r \in Queues |-> v_'[r]]
      BY <3>1, Shape DEF RingsOK
    <3>3. tail_' \in [Queues -> Nat] /\ overrun_counter_' \in [Queues -> Nat]
      BY <1>2, <2>1, <2>2 DEF push_back, RingsOK
    <3>4. HeadAfterPush(q, After(q, tail_[q])) \in Nat
      BY <2>1, <2>2 DEF HeadAfterPush
    <3> QED
      BY <1>2, <3>2, <3>3, <3>4 DEF push_back, RingsOK
  <2> QED
    BY <2>3, <2>4, <2>5 DEF RingsOK
<1>3. ASSUME NEW q \in Queues, pop_front(q) PROVE RingsOK'
  <2>1. max_items_[q] > 0 /\ head_[q] \in 0..max_items_[q] - 1
    BY <1>3 DEF pop_front, empty, RingsOK, RingOK
  <2>2. After(q, head_[q]) \in 0..max_items_[q] - 1
    BY <2>1, AfterType
  <2>3. \A r \in Queues : RingOK(r)'
    BY <1>3, <2>1, <2>2 DEF pop_front, RingsOK, RingOK
  <2> QED
    BY <1>3, <2>2, <2>3 DEF pop_front, RingsOK
<1>4. ASSUME NEW q \in Queues, reset_overrun_counter(q) PROVE RingsOK'
  BY <1>4 DEF reset_overrun_counter, RingsOK, RingOK
<1>5. ASSUME NEW q \in Queues, NEW other \in Queues, q # other, copy_moveable(q, other)
      PROVE  RingsOK'
  <2>1. RingOK(q)'
    BY <1>5 DEF copy_moveable, RingsOK, RingOK
  <2>2. RingOK(other)'
    BY <1>5 DEF copy_moveable, RingsOK, RingOK
  <2>3. \A r \in Queues \ {q, other} : RingOK(r)'
    BY <1>5 DEF copy_moveable, RingsOK, RingOK
  <2>4. /\ max_items_' \in [Queues -> Nat]
        /\ head_' \in [Queues -> Nat] /\ tail_' \in [Queues -> Nat]
        /\ overrun_counter_' \in [Queues -> Nat]
        /\ v_' = [r \in Queues |-> v_'[r]]
    BY <1>5 DEF copy_moveable, RingsOK
  <2> QED
    BY <2>1, <2>2, <2>3, <2>4 DEF RingsOK
<1>6. ASSUME NEW q \in Queues, NEW other \in Queues, copy(q, other) PROVE RingsOK'
  <2>1. RingOK(q)'
    BY <1>6 DEF copy, RingsOK, RingOK
  <2>2. \A r \in Queues \ {q} : RingOK(r)'
    BY <1>6 DEF copy, RingsOK, RingOK
  <2>3. /\ max_items_' \in [Queues -> Nat]
        /\ head_' \in [Queues -> Nat] /\ tail_' \in [Queues -> Nat]
        /\ overrun_counter_' \in [Queues -> Nat]
        /\ v_' = [r \in Queues |-> v_'[r]]
    <3>1. v_' = [r \in Queues |-> v_'[r]]
      BY <1>6, Shape DEF copy, RingsOK
    <3> QED
      BY <1>6, <3>1 DEF copy, RingsOK
  <2> QED
    BY <2>1, <2>2, <2>3 DEF RingsOK
<1>7. CASE UNCHANGED vars
  BY <1>7 DEF vars, RingsOK, RingOK
<1> QED
  BY <1>1, <1>2, <1>3, <1>4, <1>5, <1>6, <1>7 DEF Next

-----------------------------------------------------------------------------
(* The contents of a queue.                                                *)

LEMMA SizeType ==
    ASSUME RingsOK, NEW q \in Queues
    PROVE  /\ size(q) \in Nat
           /\ max_items_[q] = 0 => size(q) = 0
           /\ max_items_[q] > 0 => size(q) <= max_items_[q] - 1
  BY DEF size, RingsOK, RingOK

LEMMA ContentsType ==
    ASSUME RingsOK, NEW q \in Queues
    PROVE  Contents(q) \in Seq(Objects) /\ Len(Contents(q)) = size(q)
<1>1. size(q) \in Nat
  BY SizeType
<1>2. \A n \in 1..size(q) : at(q, n - 1) \in Objects
  <2> SUFFICES ASSUME NEW n \in 1..size(q) PROVE at(q, n - 1) \in Objects
    OBVIOUS
  <2>1. /\ max_items_[q] \in Nat \ {0} /\ head_[q] \in 0..max_items_[q] - 1
        /\ v_[q] \in [0..max_items_[q] - 1 -> Objects]
        /\ n - 1 \in 0..max_items_[q] - 1
    <3>1. n \in Nat /\ 1 <= n /\ n <= size(q) /\ max_items_[q] # 0
      BY SizeType
    <3>2. max_items_[q] \in Nat \ {0} /\ size(q) <= max_items_[q] - 1
      BY <3>1, SizeType DEF RingsOK, RingOK
    <3> HIDE DEF size
    <3> QED
      BY <3>1, <3>2, SizeType DEF RingsOK, RingOK
  <2>2. (head_[q] + (n - 1)) % max_items_[q] \in 0..max_items_[q] - 1
    BY <2>1, IndexAt
  <2> QED
    BY <2>1, <2>2 DEF at
<1> QED
  BY <1>1, <1>2 DEF Contents

\* The contents depend on the state of the queue alone.
LEMMA ContentsSame ==
    ASSUME NEW r \in Queues,
           max_items_'[r] = max_items_[r], head_'[r] = head_[r],
           tail_'[r] = tail_[r], v_'[r] = v_[r]
    PROVE  Contents(r)' = Contents(r)
  BY DEF Contents, size, at

\* A queue whose indices are equal is empty.
LEMMA ContentsEmpty ==
    ASSUME NEW q \in Queues, tail_[q] = head_[q], head_[q] \in Nat
    PROVE  Contents(q) = <<>> /\ size(q) = 0
  BY DEF Contents, size

-----------------------------------------------------------------------------
(* What push_back and pop_front make of the contents.                      *)

\* Popping drops the oldest item.
LEMMA PopContents ==
    ASSUME RingsOK, NEW q \in Queues, pop_front(q)
    PROVE  Contents(q) # <<>> /\ Contents(q)' = Tail(Contents(q))
<1> DEFINE m == max_items_[q]
           h == head_[q]
           t == tail_[q]
<1>1. /\ m \in Nat \ {0} /\ h \in 0..m - 1 /\ t \in 0..m - 1 /\ t # h
      /\ max_items_'[q] = m /\ tail_'[q] = t /\ v_'[q] = v_[q]
  BY DEF pop_front, empty, RingsOK, RingOK
<1>2. head_'[q] = IF h = m - 1 THEN 0 ELSE h + 1
  BY <1>1, AfterType DEF pop_front, RingsOK
<1>3. /\ size(q) \in 1..m - 1
      /\ size(q)' = size(q) - 1
  BY <1>1, <1>2 DEF size
<1>4. \A n \in 1..size(q) - 1 : at(q, n - 1)' = at(q, n)
  <2> SUFFICES ASSUME NEW n \in 1..size(q) - 1 PROVE at(q, n - 1)' = at(q, n)
    OBVIOUS
  <2>1. n \in 0..m - 1 /\ n - 1 \in 0..m - 1 /\ head_'[q] \in 0..m - 1
    BY <1>1, <1>2, <1>3
  <2>2. (h + n) % m = IF h + n < m THEN h + n ELSE h + n - m
    BY <1>1, <2>1, IndexAt
  <2>3. (head_'[q] + (n - 1)) % m =
           IF head_'[q] + (n - 1) < m THEN head_'[q] + (n - 1) ELSE head_'[q] + (n - 1) - m
    BY <1>1, <2>1, IndexAt
  <2>4. (head_'[q] + (n - 1)) % m = (h + n) % m
    <3> HIDE DEF m, h
    <3> QED
      BY <1>1, <1>2, <2>1, <2>2, <2>3
  <2> QED
    BY <1>1, <2>4 DEF at
<1>5. Contents(q) \in Seq(Objects) /\ Len(Contents(q)) = size(q)
  BY ContentsType
<1>6. Contents(q)' = [n \in 1..size(q) - 1 |-> at(q, n)]
  BY <1>3, <1>4 DEF Contents
<1>7. Tail(Contents(q)) = [n \in 1..size(q) - 1 |-> at(q, n)]
  BY <1>3, <1>5 DEF Contents
<1> QED
  BY <1>3, <1>5, <1>6, <1>7

\* Pushing puts the item behind the others, and drops the oldest when there
\* were max_items_ - 1 of them already.
LEMMA PushContents ==
    ASSUME RingsOK, NEW q \in Queues, NEW x \in Items, push_back(q, x)
    PROVE  /\ Contents(q)' = Abstract!Newest(Append(Contents(q), x), max_items_[q] - 1)
           /\ After(q, tail_[q]) = head_[q] <=> Len(Contents(q)) = max_items_[q] - 1
<1> DEFINE m  == max_items_[q]
           h  == head_[q]
           t  == tail_[q]
           t2 == IF t = m - 1 THEN 0 ELSE t + 1
           h2 == IF t2 = h THEN (IF h = m - 1 THEN 0 ELSE h + 1) ELSE h
           s  == size(q)
           w  == v_[q]
<1>1. m \in Nat \ {0} /\ h \in 0..m - 1 /\ t \in 0..m - 1 /\ w \in [0..m - 1 -> Objects]
  BY DEF push_back, RingsOK, RingOK
<1>2. After(q, t) = t2 /\ After(q, h) = (IF h = m - 1 THEN 0 ELSE h + 1)
  BY <1>1, AfterType DEF push_back
<1>3. max_items_'[q] = m /\ tail_'[q] = t2 /\ head_'[q] = h2 /\ v_'[q] = [w EXCEPT ![t] = x]
  <2>1. v_' = [v_ EXCEPT ![q] = [w EXCEPT ![t] = x]]
    BY DEF push_back
  <2>2. v_'[q] = [w EXCEPT ![t] = x]
    BY <2>1, Shape DEF RingsOK
  <2>3. HeadAfterPush(q, t2) = h2
    BY <1>2 DEF HeadAfterPush
  <2>4. max_items_'[q] = m /\ tail_'[q] = t2 /\ head_'[q] = HeadAfterPush(q, t2)
    BY <1>2 DEF push_back, RingsOK
  <2> QED
    BY <2>2, <2>3, <2>4
<1>4. s = (IF t >= h THEN t - h ELSE m - (h - t)) /\ s \in 0..m - 1
  BY <1>1 DEF size
<1>5. size(q)' = IF t2 >= h2 THEN t2 - h2 ELSE m - (h2 - t2)
  BY <1>3 DEF size
<1>6. /\ t2 = h <=> s = m - 1
      /\ size(q)' = IF s = m - 1 THEN s ELSE s + 1
  <2> HIDE DEF m, h, t, s
  <2> QED
    BY <1>1, <1>4, <1>5
<1>7. Contents(q) \in Seq(Objects) /\ Len(Contents(q)) = s
  BY ContentsType
\* Slot of the n-th item, before and after.
<1>8. \A n \in 0..m - 1 : (h + n) % m = IF h + n < m THEN h + n ELSE h + n - m
  BY <1>1, IndexAt
<1>9. t2 \in 0..m - 1 /\ h2 \in 0..m - 1
  BY <1>1
<1>10. \A n \in 0..m - 1 : (h2 + n) % m = IF h2 + n < m THEN h2 + n ELSE h2 + n - m
  BY <1>1, <1>9, IndexAt
<1>11. \A n \in 1..s : Contents(q)[n] = w[(h + (n - 1)) % m]
  BY <1>4 DEF Contents, at
<1>12. \A n \in 1..size(q)' : Contents(q)'[n] = [w EXCEPT ![t] = x][(h2 + (n - 1)) % m]
  BY <1>3, <1>4, <1>6 DEF Contents, at
<1>13. DOMAIN Contents(q)' = 1..size(q)' /\ Contents(q)' = [n \in 1..size(q)' |-> Contents(q)'[n]]
  BY DEF Contents
<1>14. Append(Contents(q), x) = [n \in 1..s + 1 |-> IF n = s + 1 THEN x ELSE Contents(q)[n]]
  <2> DEFINE c == Contents(q)
             a == Append(c, x)
  <2>1. x \in Objects
    BY DEF Objects
  <2>2. /\ a \in Seq(Objects) /\ Len(a) = s + 1
        /\ \A n \in 1..s : a[n] = c[n]
        /\ a[s + 1] = x
    BY <1>7, <2>1, AppendProperties
  <2>3. a = [n \in 1..s + 1 |-> IF n = s + 1 THEN x ELSE c[n]]
    <3> HIDE DEF a, c, s
    <3>1. a = [n \in 1..s + 1 |-> a[n]]
      BY <2>2
    <3>2. \A n \in 1..s + 1 : n # s + 1 => n \in 1..s
      BY <1>4
    <3> QED
      BY <2>2, <3>1, <3>2
  <2> QED
    BY <2>3
<1>15. CASE s # m - 1
  <2>1. \A n \in 1..s : [w EXCEPT ![t] = x][(h2 + (n - 1)) % m] = w[(h + (n - 1)) % m]
    <3> SUFFICES ASSUME NEW n \in 1..s
                 PROVE  [w EXCEPT ![t] = x][(h2 + (n - 1)) % m] = w[(h + (n - 1)) % m]
      OBVIOUS
    <3>1. n - 1 \in 0..m - 1
      BY <1>4, <1>1
    <3>2. h2 = h
      BY <1>6, <1>15
    <3>3. (h + (n - 1)) % m # t /\ (h + (n - 1)) % m \in 0..m - 1
      <4>1. (h + (n - 1)) % m = IF h + (n - 1) < m THEN h + (n - 1) ELSE h + (n - 1) - m
        BY <3>1, <1>8
      <4> HIDE DEF m, h, t, s
      <4> QED
        BY <1>1, <1>4, <4>1
    <3> HIDE DEF m, h, t, h2, w
    <3> QED
      BY <1>1, <3>2, <3>3
  <2>2. [w EXCEPT ![t] = x][(h2 + s) % m] = x
    <3>1. (h2 + s) % m = t
      <4>1. h2 = h
        BY <1>6, <1>15
      <4>2. (h + s) % m = IF h + s < m THEN h + s ELSE h + s - m
        BY <1>4, <1>8
      <4> HIDE DEF m, h, t, s, h2
      <4> QED
        BY <1>1, <1>4, <4>1, <4>2
    <3> QED
      BY <1>1, <3>1
  <2>3. size(q)' = s + 1
    BY <1>6, <1>15
  <2>4. \A n \in 1..s + 1 : Contents(q)'[n] = IF n = s + 1 THEN x ELSE Contents(q)[n]
    <3> SUFFICES ASSUME NEW n \in 1..s + 1
                 PROVE  Contents(q)'[n] = IF n = s + 1 THEN x ELSE Contents(q)[n]
      OBVIOUS
    <3>1. Contents(q)'[n] = [w EXCEPT ![t] = x][(h2 + (n - 1)) % m]
      BY <1>12, <2>3
    <3>2. CASE n = s + 1
      <4>1. n - 1 = s
        BY <3>2, <1>4
      <4> QED
        BY <3>1, <3>2, <4>1, <2>2
    <3>3. CASE n # s + 1
      <4>1. n \in 1..s
        BY <3>3, <1>4
      <4> QED
        BY <3>1, <3>3, <4>1, <2>1, <1>11
    <3> QED
      BY <3>2, <3>3
  <2>5. Contents(q)' = Append(Contents(q), x)
    BY <1>13, <1>14, <2>3, <2>4
  <2>6. Len(Append(Contents(q), x)) = s + 1
    BY <1>4, <1>7
  <2> QED
    BY <1>1, <1>2, <1>4, <1>6, <1>7, <1>15, <2>5, <2>6 DEF Abstract!Newest
<1>16. CASE s = m - 1
  <2>1. h2 = IF h = m - 1 THEN 0 ELSE h + 1
    BY <1>6, <1>16
  <2>2. size(q)' = s
    BY <1>6, <1>16
  <2>3. \A n \in 1..s : [w EXCEPT ![t] = x][(h2 + (n - 1)) % m] =
                          IF n = s THEN x ELSE w[(h + n) % m]
    <3> SUFFICES ASSUME NEW n \in 1..s
                 PROVE  [w EXCEPT ![t] = x][(h2 + (n - 1)) % m] =
                            IF n = s THEN x ELSE w[(h + n) % m]
      OBVIOUS
    <3>1. n - 1 \in 0..m - 1 /\ n \in 0..m - 1
      BY <1>4, <1>1
    <3>2. /\ (h2 + (n - 1)) % m = (h + n) % m
          /\ (h + n) % m \in 0..m - 1
          /\ (h + n) % m = t <=> n = s
      <4>1. (h + n) % m = IF h + n < m THEN h + n ELSE h + n - m
        BY <3>1, <1>8
      <4>2. (h2 + (n - 1)) % m = IF h2 + (n - 1) < m THEN h2 + (n - 1) ELSE h2 + (n - 1) - m
        BY <3>1, <1>10
      <4> HIDE DEF m, h, t, s, h2
      <4> QED
        BY <1>1, <1>4, <1>16, <2>1, <4>1, <4>2
    <3> HIDE DEF m, h, t, h2, w, s
    <3> QED
      BY <1>1, <3>2
  <2>4. \A n \in 1..s : Contents(q)'[n] = IF n = s THEN x ELSE Contents(q)[n + 1]
    <3> SUFFICES ASSUME NEW n \in 1..s
                 PROVE  Contents(q)'[n] = IF n = s THEN x ELSE Contents(q)[n + 1]
      OBVIOUS
    <3>1. Contents(q)'[n] = IF n = s THEN x ELSE w[(h + n) % m]
      BY <1>12, <2>2, <2>3
    <3>2. CASE n # s
      <4>1. n + 1 \in 1..s /\ n + 1 - 1 = n
        BY <3>2, <1>4
      <4> QED
        BY <3>1, <3>2, <4>1, <1>11
    <3> QED
      BY <3>1, <3>2
  <2>5. Tail(Append(Contents(q), x)) = [n \in 1..s |-> Append(Contents(q), x)[n + 1]]
    BY <1>4, <1>7, <1>14
  <2>6. \A n \in 1..s : Append(Contents(q), x)[n + 1] = IF n = s THEN x ELSE Contents(q)[n + 1]
    BY <1>4, <1>14
  <2>7. Contents(q)' = Tail(Append(Contents(q), x))
    BY <1>13, <2>2, <2>4, <2>5, <2>6
  <2>8. Len(Append(Contents(q), x)) = s + 1
    BY <1>4, <1>7
  <2> QED
    BY <1>1, <1>2, <1>4, <1>6, <1>7, <1>16, <2>7, <2>8 DEF Abstract!Newest
<1> QED
  BY <1>15, <1>16

-----------------------------------------------------------------------------
(* Refinement.                                                             *)

\* The mapping of the INSTANCE, named.
On     == {q \in Queues : max_items_[q] > 0}
Limits == [q \in Queues |-> IF max_items_[q] > 0 THEN max_items_[q] - 1 ELSE 0]
Lists  == [q \in Queues |-> Contents(q)]

LEMMA InitRefines == Init => Abstract!Init
<1> SUFFICES ASSUME Init PROVE Abstract!Init
  OBVIOUS
<1>1. \A q \in Queues : Contents(q) = <<>>
  BY ContentsEmpty DEF Init
<1> QED
  BY <1>1 DEF Init, Abstract!Init

LEMMA ConstructRefines ==
    ASSUME RingsOK, NEW q \in Queues, NEW n \in Capacities, construct(q, n)
    PROVE  Abstract!Construct(q, n)
<1>1. n \in Nat /\ n + 1 > 0 /\ n + 1 - 1 = n
  BY CapacityAssumption
<1>2. \A r \in Queues : max_items_'[r] = IF r = q THEN n + 1 ELSE max_items_[r]
  BY DEF construct, RingsOK
<1>3. \A r \in Queues \ {q} : Contents(r)' = Contents(r)
  BY ContentsSame DEF construct, RingsOK
<1>4. Contents(q)' = <<>>
  <2>1. tail_'[q] = 0 /\ head_'[q] = 0
    BY DEF construct, RingsOK
  <2> QED
    BY <2>1 DEF Contents, size
<1>5. overrun_counter_' = [overrun_counter_ EXCEPT ![q] = 0]
  BY DEF construct
<1>6. On' = On \cup {q}
  BY <1>1, <1>2 DEF On
<1>7. Limits' = [Limits EXCEPT ![q] = n]
  <2>1. \A r \in Queues : Limits'[r] = IF r = q THEN n ELSE Limits[r]
    BY <1>1, <1>2 DEF Limits
  <2>2. Limits = [r \in Queues |-> Limits[r]] /\ Limits' = [r \in Queues |-> Limits'[r]]
    BY DEF Limits
  <2> QED
    BY <2>1, <2>2
<1>8. Lists' = [Lists EXCEPT ![q] = <<>>]
  BY <1>3, <1>4 DEF Lists
<1> QED
  BY <1>5, <1>6, <1>7, <1>8 DEF Abstract!Construct, On, Limits, Lists

LEMMA PushRefines ==
    ASSUME RingsOK, NEW q \in Queues, NEW x \in Items, push_back(q, x)
    PROVE  Abstract!Push(q, x)
<1>1. max_items_' = max_items_ /\ max_items_[q] > 0
  BY DEF push_back
<1>2. \A r \in Queues \ {q} : Contents(r)' = Contents(r)
  <2>1. v_' = [v_ EXCEPT ![q] = [v_[q] EXCEPT ![tail_[q]] = x]]
    BY DEF push_back
  <2>2. \A r \in Queues \ {q} : v_'[r] = v_[r]
    BY <2>1, Shape DEF RingsOK
  <2> QED
    BY <1>1, <2>2, ContentsSame DEF push_back, RingsOK
<1>3. /\ Contents(q)' = Abstract!Newest(Append(Contents(q), x), max_items_[q] - 1)
      /\ After(q, tail_[q]) = head_[q] <=> Len(Contents(q)) = max_items_[q] - 1
  BY PushContents
<1>4. overrun_counter_' =
        [overrun_counter_ EXCEPT ![q] = IF Len(Contents(q)) = max_items_[q] - 1 THEN @ + 1 ELSE @]
  BY <1>3 DEF push_back
<1> QED
  BY <1>1, <1>2, <1>3, <1>4 DEF Abstract!Push

LEMMA PopRefines ==
    ASSUME RingsOK, NEW q \in Queues, pop_front(q)
    PROVE  Abstract!Pop(q)
<1>1. \A r \in Queues \ {q} : Contents(r)' = Contents(r)
  BY ContentsSame DEF pop_front, RingsOK
<1>2. Contents(q) # <<>> /\ Contents(q)' = Tail(Contents(q))
  BY PopContents
<1>3. max_items_' = max_items_ /\ overrun_counter_' = overrun_counter_
  BY DEF pop_front
<1> QED
  BY <1>1, <1>2, <1>3 DEF Abstract!Pop

LEMMA ResetRefines ==
    ASSUME RingsOK, NEW q \in Queues, reset_overrun_counter(q)
    PROVE  Abstract!ResetCount(q)
<1>1. \A r \in Queues : Contents(r)' = Contents(r)
  BY ContentsSame DEF reset_overrun_counter
<1> QED
  BY <1>1 DEF reset_overrun_counter, Abstract!ResetCount

LEMMA MoveRefines ==
    ASSUME RingsOK, NEW q \in Queues, NEW p \in Queues, q # p, copy_moveable(q, p)
    PROVE  Abstract!Move(q, p)
<1>1. \A r \in Queues : max_items_'[r] = IF r = p THEN 0 ELSE IF r = q THEN max_items_[p] ELSE max_items_[r]
  BY DEF copy_moveable, RingsOK
<1>2. \A r \in Queues \ {q, p} : Contents(r)' = Contents(r)
  BY ContentsSame DEF copy_moveable, RingsOK
<1>3. Contents(q)' = Contents(p)
  <2>1. /\ max_items_'[q] = max_items_[p] /\ head_'[q] = head_[p]
        /\ tail_'[q] = tail_[p] /\ v_'[q] = v_[p]
    BY DEF copy_moveable, RingsOK
  <2> QED
    BY <2>1 DEF Contents, size, at
<1>4. Contents(p)' = <<>>
  <2>1. tail_'[p] = 0 /\ head_'[p] = 0
    BY DEF copy_moveable, RingsOK
  <2> QED
    BY <2>1 DEF Contents, size
<1>5. overrun_counter_' = [overrun_counter_ EXCEPT ![q] = overrun_counter_[p], ![p] = 0]
  BY DEF copy_moveable
<1>6. On' = IF p \in On THEN (On \cup {q}) \ {p} ELSE On \ {q}
  <2>1. \A r \in Queues : r \in On <=> max_items_[r] > 0
    BY DEF On
  <2>2. \A r \in Queues : r \in On' <=> max_items_'[r] > 0
    BY DEF On
  <2>3. On \subseteq Queues /\ On' \subseteq Queues
    BY DEF On
  <2> QED
    BY <1>1, <2>1, <2>2, <2>3
<1>7. Limits' = [Limits EXCEPT ![q] = Limits[p], ![p] = 0]
  <2>1. \A r \in Queues : Limits'[r] = IF r = p THEN 0 ELSE IF r = q THEN Limits[p] ELSE Limits[r]
    BY <1>1 DEF Limits
  <2>2. Limits = [r \in Queues |-> Limits[r]] /\ Limits' = [r \in Queues |-> Limits'[r]]
    BY DEF Limits
  <2> QED
    BY <2>1, <2>2
<1>8. Lists' = [Lists EXCEPT ![q] = Lists[p], ![p] = <<>>]
  BY <1>2, <1>3, <1>4 DEF Lists
<1> QED
  BY <1>5, <1>6, <1>7, <1>8 DEF Abstract!Move, On, Limits, Lists

LEMMA CopyRefines ==
    ASSUME RingsOK, NEW q \in Queues, NEW p \in Queues, q # p, copy(q, p)
    PROVE  Abstract!Copy(q, p)
<1>1. \A r \in Queues : max_items_'[r] = IF r = q THEN max_items_[p] ELSE max_items_[r]
  BY DEF copy, RingsOK
<1>2. v_'[q] = v_[p] /\ \A r \in Queues \ {q} : v_'[r] = v_[r]
  BY Shape DEF copy, RingsOK
<1>3. \A r \in Queues \ {q} : Contents(r)' = Contents(r)
  BY <1>2, ContentsSame DEF copy, RingsOK
<1>4. Contents(q)' = Contents(p)
  <2>1. /\ max_items_'[q] = max_items_[p] /\ head_'[q] = head_[p]
        /\ tail_'[q] = tail_[p] /\ v_'[q] = v_[p]
    BY <1>2 DEF copy, RingsOK
  <2> QED
    BY <2>1 DEF Contents, size, at
<1>5. overrun_counter_' = [overrun_counter_ EXCEPT ![q] = overrun_counter_[p]]
  BY DEF copy
<1>6. On' = IF p \in On THEN On \cup {q} ELSE On \ {q}
  <2>1. \A r \in Queues : r \in On <=> max_items_[r] > 0
    BY DEF On
  <2>2. \A r \in Queues : r \in On' <=> max_items_'[r] > 0
    BY DEF On
  <2>3. On \subseteq Queues /\ On' \subseteq Queues
    BY DEF On
  <2> QED
    BY <1>1, <2>1, <2>2, <2>3
<1>7. Limits' = [Limits EXCEPT ![q] = Limits[p]]
  <2>1. \A r \in Queues : Limits'[r] = IF r = q THEN Limits[p] ELSE Limits[r]
    BY <1>1 DEF Limits
  <2>2. Limits = [r \in Queues |-> Limits[r]] /\ Limits' = [r \in Queues |-> Limits'[r]]
    BY DEF Limits
  <2> QED
    BY <2>1, <2>2
<1>8. Lists' = [Lists EXCEPT ![q] = Lists[p]]
  BY <1>3, <1>4 DEF Lists
<1> QED
  BY <1>5, <1>6, <1>7, <1>8 DEF Abstract!Copy, On, Limits, Lists

LEMMA StepRefines == RingsOK /\ [Next]_vars => [Abstract!Next]_(Abstract!vars)
<1> SUFFICES ASSUME RingsOK, [Next]_vars PROVE [Abstract!Next]_(Abstract!vars)
  OBVIOUS
<1>1. ASSUME NEW q \in Queues, NEW n \in Capacities, construct(q, n) PROVE Abstract!Next
  BY <1>1, ConstructRefines DEF Abstract!Next
<1>2. ASSUME NEW q \in Queues, NEW x \in Items, push_back(q, x) PROVE Abstract!Next
  BY <1>2, PushRefines DEF Abstract!Next
<1>3. ASSUME NEW q \in Queues, pop_front(q) PROVE Abstract!Next
  BY <1>3, PopRefines DEF Abstract!Next
<1>4. ASSUME NEW q \in Queues, reset_overrun_counter(q) PROVE Abstract!Next
  BY <1>4, ResetRefines DEF Abstract!Next
<1>5. ASSUME NEW q \in Queues, NEW p \in Queues, q # p, copy_moveable(q, p) PROVE Abstract!Next
  BY <1>5, MoveRefines DEF Abstract!Next
<1>6. ASSUME NEW q \in Queues, NEW p \in Queues, q # p, copy(q, p) PROVE Abstract!Next
  BY <1>6, CopyRefines DEF Abstract!Next
<1>7. CASE UNCHANGED vars
  <2>1. \A r \in Queues : Contents(r)' = Contents(r)
    BY <1>7, ContentsSame DEF vars
  <2> QED
    BY <1>7, <2>1 DEF vars, Abstract!vars
<1> QED
  BY <1>1, <1>2, <1>3, <1>4, <1>5, <1>6, <1>7 DEF Next

\* circular_q implements a bounded queue that keeps the newest max_items
\* messages in order and counts what it loses, for every capacity and any
\* history of overruns and moves (circular_q.h:48-62, 99-102, 131-143).
THEOREM Refinement == Spec => KeepsNewest
<1> QED
  BY InitRefines, InitRings, StepRings, StepRefines, PTL DEF Spec, KeepsNewest, Abstract!Spec

-----------------------------------------------------------------------------
(* The slots between the indices hold items.                               *)

LEMMA InitFilled == Init => Filled
<1> SUFFICES ASSUME Init, NEW q \in Queues PROVE Contents(q) \in Seq(Items)
  BY DEF Filled
<1>1. Contents(q) = <<>>
  BY ContentsEmpty DEF Init
<1> QED
  BY <1>1

\* What the newest n items of a sequence are.
LEMMA NewestType ==
    ASSUME NEW s \in Seq(Items), NEW x \in Items, NEW n \in Nat
    PROVE  Abstract!Newest(Append(s, x), n) \in Seq(Items)
<1>1. Append(s, x) \in Seq(Items) /\ Append(s, x) # <<>>
  BY AppendProperties
<1> QED
  BY <1>1 DEF Abstract!Newest

LEMMA StepFilled == RingsOK /\ Filled /\ [Next]_vars => Filled'
<1> SUFFICES ASSUME RingsOK, Filled, [Next]_vars, NEW r \in Queues
             PROVE  Contents(r)' \in Seq(Items)
  BY DEF Filled
<1>1. \A q \in Queues : Contents(q) \in Seq(Items)
  BY DEF Filled
<1>2. [Abstract!Next]_(Abstract!vars)
  BY StepRefines
<1>3. Lists = [q \in Queues |-> Contents(q)] /\ Lists'[r] = Contents(r)'
  BY DEF Lists
<1>4. ASSUME NEW q \in Queues, NEW n \in Capacities, Abstract!Construct(q, n)
      PROVE  Lists'[r] \in Seq(Items)
  <2>1. Lists' = [Lists EXCEPT ![q] = <<>>]
    BY <1>4 DEF Abstract!Construct, Lists
  <2>2. Lists'[r] = IF r = q THEN <<>> ELSE Contents(r)
    BY <1>3, <2>1
  <2> QED
    BY <1>1, <2>2
<1>5. ASSUME NEW q \in Queues, NEW x \in Items, Abstract!Push(q, x)
      PROVE  Lists'[r] \in Seq(Items)
  <2>1. Lists' = [Lists EXCEPT ![q] = Abstract!Newest(Append(@, x), Limits[q])]
    BY <1>5 DEF Abstract!Push, Lists, Limits
  <2>2. Limits[q] \in Nat
    BY DEF Limits, RingsOK
  <2>3. Abstract!Newest(Append(Contents(q), x), Limits[q]) \in Seq(Items)
    BY <1>1, <2>2, NewestType
  <2>4. Lists'[r] = IF r = q THEN Abstract!Newest(Append(Contents(q), x), Limits[q]) ELSE Contents(r)
    BY <1>3, <2>1
  <2> QED
    BY <1>1, <2>3, <2>4
<1>6. ASSUME NEW q \in Queues, Abstract!Pop(q) PROVE Lists'[r] \in Seq(Items)
  <2>1. Lists' = [Lists EXCEPT ![q] = Tail(@)] /\ Lists[q] # <<>>
    BY <1>6 DEF Abstract!Pop, Lists
  <2>2. Tail(Contents(q)) \in Seq(Items)
    BY <1>1, <1>3, <2>1, HeadTailProperties
  <2> QED
    BY <1>1, <1>3, <2>1, <2>2
<1>7. ASSUME NEW q \in Queues, Abstract!ResetCount(q) PROVE Lists'[r] \in Seq(Items)
  <2>1. Lists' = Lists
    BY <1>7 DEF Abstract!ResetCount, Lists
  <2> QED
    BY <1>1, <1>3, <2>1
<1>8. ASSUME NEW q \in Queues, NEW p \in Queues, Abstract!Move(q, p)
      PROVE  Lists'[r] \in Seq(Items)
  <2>1. Lists' = [Lists EXCEPT ![q] = Lists[p], ![p] = <<>>]
    BY <1>8 DEF Abstract!Move, Lists
  <2>2. Lists'[r] = IF r = p THEN <<>> ELSE IF r = q THEN Contents(p) ELSE Contents(r)
    BY <1>3, <2>1
  <2> QED
    BY <1>1, <2>2
<1>9. ASSUME NEW q \in Queues, NEW p \in Queues, Abstract!Copy(q, p)
      PROVE  Lists'[r] \in Seq(Items)
  <2>1. Lists' = [Lists EXCEPT ![q] = Lists[p]]
    BY <1>9 DEF Abstract!Copy, Lists
  <2> QED
    BY <1>1, <1>3, <2>1
<1>10. CASE UNCHANGED Abstract!vars
  <2>1. Lists' = Lists
    BY <1>10 DEF Abstract!vars, Lists
  <2> QED
    BY <1>1, <1>3, <2>1
<1> QED
  BY <1>2, <1>3, <1>4, <1>5, <1>6, <1>7, <1>8, <1>9, <1>10 DEF Abstract!Next

\* The indices of every queue stay inside its array, and every slot between
\* them holds an item, however often they wrap and the queues are moved
\* (circular_q.h:48-62, 99-102, 131-143).
THEOREM TypeCorrect == Spec => []TypeOK
<1>1. Init => TypeOK
  BY InitRings, InitFilled DEF TypeOK
<1>2. TypeOK /\ [Next]_vars => TypeOK'
  BY StepRings, StepFilled DEF TypeOK
<1> QED
  BY <1>1, <1>2, PTL DEF Spec

-----------------------------------------------------------------------------
(* full() and empty().                                                     *)

LEMMA RingsGiveSizes == RingsOK => SizesAgree
<1> SUFFICES ASSUME RingsOK, NEW q \in Queues
             PROVE  /\ empty(q) <=> Contents(q) = <<>>
                    /\ full(q) <=> max_items_[q] > 0 /\ Len(Contents(q)) = max_items_[q] - 1
                    /\ Contents(q) # <<>> => front(q) = Head(Contents(q))
  BY DEF SizesAgree
<1> DEFINE m == max_items_[q]
           h == head_[q]
           t == tail_[q]
<1>1. Contents(q) \in Seq(Objects) /\ Len(Contents(q)) = size(q) /\ size(q) \in Nat
  BY ContentsType, SizeType
<1>2. CASE m = 0
  <2>1. h = 0 /\ t = 0
    BY <1>2 DEF RingsOK, RingOK
  <2>2. Contents(q) = <<>>
    BY <2>1, ContentsEmpty
  <2> QED
    BY <1>2, <2>1, <2>2 DEF empty, full
<1>3. CASE m # 0
  <2>1. m \in Nat \ {0} /\ h \in 0..m - 1 /\ t \in 0..m - 1
    BY <1>3 DEF RingsOK, RingOK
  <2>2. size(q) = IF t >= h THEN t - h ELSE m - (h - t)
    BY DEF size
  <2>3. After(q, t) = IF t = m - 1 THEN 0 ELSE t + 1
    BY <2>1, AfterType
  <2>4. empty(q) <=> size(q) = 0
    <3> HIDE DEF m, h, t
    <3>1. t = h <=> size(q) = 0
      BY <2>1, <2>2
    <3> QED
      BY <3>1 DEF empty, h, t
  <2>5. full(q) <=> size(q) = m - 1
    <3>1. m > 0
      BY <2>1
    <3> HIDE DEF m, h, t
    <3>2. (IF t = m - 1 THEN 0 ELSE t + 1) = h <=> size(q) = m - 1
      BY <2>1, <2>2
    <3> QED
      BY <2>3, <3>1, <3>2 DEF full, m, h, t
  <2>6. ASSUME Contents(q) # <<>> PROVE front(q) = Head(Contents(q))
    <3>1. size(q) # 0
      BY <1>1, <2>6, EmptySeq
    <3>2. Head(Contents(q)) = at(q, 0)
      BY <1>1, <3>1 DEF Contents
    <3>3. (h + 0) % m = h
      BY <2>1, IndexAt
    <3> QED
      BY <2>1, <3>2, <3>3 DEF at, front
  <2>7. Contents(q) = <<>> <=> size(q) = 0
    BY <1>1, EmptySeq
  <2>8. m > 0
    BY <2>1
  <2> QED
    BY <1>1, <2>4, <2>5, <2>6, <2>7, <2>8
<1> QED
  BY <1>2, <1>3

\* full(), empty() and front() agree with the contents in every ring, for every
\* capacity, 0 included (circular_q.h:66-87, 104-117).
THEOREM SizesCorrect == Spec => []SizesAgree
<1>1. TypeOK => SizesAgree
  BY RingsGiveSizes DEF TypeOK
<1> QED
  BY <1>1, TypeCorrect, PTL
=============================================================================
