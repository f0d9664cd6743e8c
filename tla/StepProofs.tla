---------------------------- MODULE StepProofs -----------------------------
(***************************************************************************)
(* What the list operations of the scheduler return, facts about the       *)
(* invariant that the proofs about several operations use, and that going  *)
(* to sleep preserves it.                                                  *)
(***************************************************************************)
EXTENDS CondvarInvariant, TLAPS

\* The time that the provers may take.
USE ZenonT(20), SMTT(20)

----------------------------------------------------------------------------
(* The list operations of the scheduler, for every list. *)

\* A bounded set of numbers that is not empty has a least one.  CondvarProofs
\* proves this from the theory of well-founded relations; the lemmas that need
\* it assume it, for tlapm is slow where that theory is in scope.
LeastElements ==
  \A n \in Nat : \A T \in SUBSET (0 .. n) :
    T # {} => \E x \in T : \A y \in T : x <= y

\* Min finds the least element.
LEMMA MinIsLeast ==
  ASSUME LeastElements, NEW n \in Nat, NEW T \in SUBSET (0 .. n), T # {}
  PROVE  /\ Min(T) \in T
         /\ \A y \in T : Min(T) <= y
<1>1. PICK x \in T : \A y \in T : x <= y
  BY Zenon DEF LeastElements
<1> QED
  BY <1>1, Zenon DEF Min

\* The elements of a concatenation.
LEMMA ConcatElements ==
  ASSUME NEW S, NEW q \in Seq(S), NEW r \in Seq(S)
  PROVE  /\ q \o r \in Seq(S)
         /\ Len(q \o r) = Len(q) + Len(r)
         /\ \A k \in 1 .. Len(q) + Len(r) :
              (q \o r)[k] = IF k <= Len(q) THEN q[k] ELSE r[k - Len(q)]
  OBVIOUS

\* InsertAt shifts the elements from position i on by one.
LEMMA InsertAtElements ==
  ASSUME NEW S, NEW q \in Seq(S), NEW e \in S, NEW i \in 1 .. Len(q) + 1
  PROVE  /\ InsertAt(q, i, e) \in Seq(S)
         /\ Len(InsertAt(q, i, e)) = Len(q) + 1
         /\ \A j \in 1 .. Len(q) + 1 :
              InsertAt(q, i, e)[j] = IF j < i THEN q[j]
                                     ELSE IF j = i THEN e ELSE q[j - 1]
<1> DEFINE a == SubSeq(q, 1, i - 1)
           b == SubSeq(q, i, Len(q))
           ae == a \o <<e>>
<1>1. Len(q) \in Nat /\ \A k \in 1 .. Len(q) : q[k] \in S
  OBVIOUS
<1>2. /\ a \in Seq(S) /\ Len(a) = i - 1
      /\ \A k \in 1 .. i - 1 : a[k] = q[k]
  BY <1>1
<1>3. /\ b \in Seq(S) /\ Len(b) = Len(q) - i + 1
      /\ \A k \in 1 .. Len(q) - i + 1 : b[k] = q[i + k - 1]
  BY <1>1
<1>4. <<e>> \in Seq(S) /\ Len(<<e>>) = 1 /\ <<e>>[1] = e
  OBVIOUS
<1> HIDE DEF a, b
<1>5. /\ ae \in Seq(S) /\ Len(ae) = i
      /\ \A k \in 1 .. i : ae[k] = IF k < i THEN q[k] ELSE e
  <2>1. /\ ae \in Seq(S) /\ Len(ae) = Len(a) + Len(<<e>>)
        /\ \A k \in 1 .. Len(a) + Len(<<e>>) :
             ae[k] = IF k <= Len(a) THEN a[k] ELSE <<e>>[k - Len(a)]
    BY <1>2, <1>4, ConcatElements, Zenon
  <2> QED
    BY <2>1, <1>2, <1>4, SMTT(20)
<1> HIDE DEF ae
<1>6. /\ ae \o b \in Seq(S) /\ Len(ae \o b) = Len(ae) + Len(b)
      /\ \A k \in 1 .. Len(ae) + Len(b) :
           (ae \o b)[k] = IF k <= Len(ae) THEN ae[k] ELSE b[k - Len(ae)]
  BY <1>3, <1>5, ConcatElements, Zenon
<1>7. InsertAt(q, i, e) = ae \o b
  BY DEF InsertAt, a, b, ae
<1> QED
  BY <1>1, <1>3, <1>5, <1>6, <1>7, SMTT(20)

\* RemoveAt shifts the elements after position i back by one.
LEMMA RemoveAtElements ==
  ASSUME NEW S, NEW q \in Seq(S), NEW i \in 1 .. Len(q)
  PROVE  /\ RemoveAt(q, i) \in Seq(S)
         /\ Len(RemoveAt(q, i)) = Len(q) - 1
         /\ \A j \in 1 .. Len(q) - 1 :
              RemoveAt(q, i)[j] = IF j < i THEN q[j] ELSE q[j + 1]
<1> DEFINE a == SubSeq(q, 1, i - 1)
           b == SubSeq(q, i + 1, Len(q))
<1>1. Len(q) \in Nat /\ \A k \in 1 .. Len(q) : q[k] \in S
  OBVIOUS
<1>2. /\ a \in Seq(S) /\ Len(a) = i - 1
      /\ \A k \in 1 .. i - 1 : a[k] = q[k]
  BY <1>1
<1>3. /\ b \in Seq(S) /\ Len(b) = Len(q) - i
      /\ \A k \in 1 .. Len(q) - i : b[k] = q[i + k]
  BY <1>1
<1> HIDE DEF a, b
<1>4. /\ a \o b \in Seq(S) /\ Len(a \o b) = Len(a) + Len(b)
      /\ \A k \in 1 .. Len(a) + Len(b) :
           (a \o b)[k] = IF k <= Len(a) THEN a[k] ELSE b[k - Len(a)]
  BY <1>2, <1>3, ConcatElements, Zenon
<1>5. RemoveAt(q, i) = a \o b
  BY DEF RemoveAt, a, b
<1>6. \A j \in i .. Len(q) - 1 : b[j - Len(a)] = q[j + 1]
  <2> SUFFICES ASSUME NEW j \in i .. Len(q) - 1
               PROVE  b[j - Len(a)] = q[j + 1]
    OBVIOUS
  <2>1. /\ j - Len(a) \in 1 .. Len(q) - i
        /\ i + (j - Len(a)) = j + 1
    BY <1>1, <1>2
  <2> QED
    BY <2>1, <1>3, Zenon
<1>7. Len(a) + Len(b) = Len(q) - 1
  BY <1>1, <1>2, <1>3, SMTT(20)
<1>8. ASSUME NEW j \in 1 .. Len(q) - 1
      PROVE  (a \o b)[j] = IF j < i THEN q[j] ELSE q[j + 1]
  <2>1. CASE j < i
    BY <2>1, <1>1, <1>2, <1>4, <1>7
  <2>2. CASE ~ (j < i)
    <3>1. j \in i .. Len(q) - 1 /\ ~ (j <= Len(a))
      BY <2>2, <1>1, <1>2
    <3> QED
      BY <3>1, <2>2, <1>4, <1>6, <1>7
  <2> QED
    BY <2>1, <2>2, Zenon
<1> QED
  BY <1>4, <1>5, <1>7, <1>8, Zenon

----------------------------------------------------------------------------

\* k_list_remove takes the task out of the list and keeps the others in order.
LEMMA ListRemove ==
  ASSUME NEW S, NEW q \in Seq(S), NEW t \in S, NoRepeat(q)
  PROVE  /\ k_list_remove(q, t) \in Seq(S)
         /\ NoRepeat(k_list_remove(q, t))
         /\ \A u : In(u, k_list_remove(q, t)) <=> In(u, q) /\ u # t
         /\ \A prio : Ordered(q, prio) => Ordered(k_list_remove(q, t), prio)
<1>1. CASE ~ In(t, q)
  BY <1>1 DEF In, k_list_remove
<1>2. CASE In(t, q)
  <2> DEFINE n == CHOOSE i \in 1 .. Len(q) : q[i] = t
             r == RemoveAt(q, n)
  <2>1. Len(q) \in Nat
    OBVIOUS
  <2>2. n \in 1 .. Len(q) /\ q[n] = t
    BY <1>2, Zenon DEF In
  <2>3. k_list_remove(q, t) = r
    BY <1>2 DEF In, k_list_remove
  <2> HIDE DEF n
  <2>4. /\ r \in Seq(S)
        /\ Len(r) = Len(q) - 1
        /\ \A j \in 1 .. Len(q) - 1 : r[j] = IF j < n THEN q[j] ELSE q[j + 1]
    BY <2>2, RemoveAtElements, Zenon
  <2> HIDE DEF r
  <2>5. NoRepeat(r)
    BY <2>1, <2>2, <2>4, SMTT(20) DEF NoRepeat
  <2>6. ASSUME NEW u, In(u, r)
        PROVE  In(u, q) /\ u # t
    BY <2>1, <2>2, <2>4, <2>6, SMTT(20) DEF NoRepeat, In
  <2>7. ASSUME NEW u, In(u, q), u # t
        PROVE  In(u, r)
    <3>1. PICK i \in 1 .. Len(q) : q[i] = u
      BY <2>7 DEF In
    <3>2. CASE i < n
      BY <3>1, <3>2, <2>1, <2>2, <2>4 DEF In
    <3>3. CASE i > n
      <4>1. i - 1 \in 1 .. Len(q) - 1 /\ ~ (i - 1 < n) /\ (i - 1) + 1 = i
        BY <3>3, <2>1, <2>2
      <4>2. r[i - 1] = u
        BY <4>1, <3>1, <2>4
      <4> QED
        BY <4>1, <4>2, <2>4 DEF In
    <3>4. i # n
      BY <3>1, <2>7, <2>2
    <3> QED
      BY <3>2, <3>3, <3>4, <2>2
  <2>8. ASSUME NEW prio, Ordered(q, prio)
        PROVE  Ordered(r, prio)
    <3>1. \A i \in 1 .. Len(r) : \E k \in 1 .. Len(q) :
            r[i] = q[k] /\ k = IF i < n THEN i ELSE i + 1
      BY <2>1, <2>2, <2>4
    <3>2. ASSUME NEW i \in 1 .. Len(r), NEW j \in 1 .. Len(r), i < j
          PROVE  prio[r[i]] <= prio[r[j]]
      <4>1. PICK k \in 1 .. Len(q) : r[i] = q[k] /\ k = IF i < n THEN i ELSE i + 1
        BY <3>1
      <4>2. PICK l \in 1 .. Len(q) : r[j] = q[l] /\ l = IF j < n THEN j ELSE j + 1
        BY <3>1
      <4>3. k < l
        BY <4>1, <4>2, <3>2, <2>1, <2>2, <2>4
      <4> QED
        BY <4>1, <4>2, <4>3, <2>8 DEF Ordered
    <3> QED
      BY <3>2 DEF Ordered
  <2> QED
    BY <2>3, <2>4, <2>5, <2>6, <2>7, <2>8
<1> QED
  BY <1>1, <1>2

\* k_sched_add inserts a task that is not in the list.  An ordered list stays
\* ordered by priorities that give the new task p and keep the others.
LEMMA SchedAdd ==
  ASSUME LeastElements,
         NEW S, NEW q \in Seq(S), NEW t \in S, NEW p, NoRepeat(q), ~ In(t, q)
  PROVE  /\ k_sched_add(q, t, p) \in Seq(S)
         /\ NoRepeat(k_sched_add(q, t, p))
         /\ \A u : In(u, k_sched_add(q, t, p)) <=> In(u, q) \/ u = t
         /\ \A prio : /\ \A u \in S : prio[u] \in Int
                      /\ p \in Int
                      /\ prio[t] = p
                      /\ \A i \in 1 .. Len(q) : prio[q[i]] = priority[q[i]]
                      /\ Ordered(q, priority)
                      => Ordered(k_sched_add(q, t, p), prio)
<1> DEFINE I == {i \in 1 .. Len(q) : priority[q[i]] > p} \cup {Len(q) + 1}
           n == Min(I)
           r == InsertAt(q, n, t)
<1>1. Len(q) \in Nat
  OBVIOUS
<1>2. /\ n \in I
      /\ \A i \in I : n <= i
  <2>1. Len(q) + 1 \in Nat /\ I \in SUBSET (0 .. Len(q) + 1) /\ I # {}
    BY <1>1
  <2> HIDE DEF I
  <2> QED
    BY <2>1, MinIsLeast, Zenon
<1>3. k_sched_add(q, t, p) = r
  BY DEF k_sched_add, AddPosition
<1>4. n \in 1 .. Len(q) + 1
  BY <1>1, <1>2, SMTT(20)
<1> HIDE DEF n
<1>5. /\ r \in Seq(S)
      /\ Len(r) = Len(q) + 1
      /\ \A j \in 1 .. Len(q) + 1 :
           r[j] = IF j < n THEN q[j] ELSE IF j = n THEN t ELSE q[j - 1]
  BY <1>4, InsertAtElements, SMTT(20)
<1> HIDE DEF r
<1>6. NoRepeat(r)
  <2> SUFFICES ASSUME NEW i \in 1 .. Len(r), NEW j \in 1 .. Len(r), r[i] = r[j],
                      i < j
               PROVE  FALSE
    BY <1>1, <1>5, SMTT(20) DEF NoRepeat
  <2>1. \A k \in 1 .. Len(q) : q[k] # t
    BY DEF In
  <2>2. CASE j < n
    BY <2>2, <1>1, <1>4, <1>5, SMTT(20) DEF NoRepeat
  <2>3. CASE j = n
    BY <2>1, <2>3, <1>1, <1>4, <1>5, SMTT(20)
  <2>4. CASE j > n
    <3>1. j - 1 \in 1 .. Len(q) /\ r[j] = q[j - 1]
      BY <2>4, <1>1, <1>4, <1>5
    <3>2. CASE i = n
      BY <3>1, <3>2, <2>1, <1>5, SMTT(20)
    <3>3. CASE i < n
      <4>1. i \in 1 .. Len(q) /\ r[i] = q[i] /\ i # j - 1
        BY <3>3, <2>4, <1>1, <1>4, <1>5
      <4> QED
        BY <3>1, <4>1 DEF NoRepeat
    <3>4. CASE i > n
      <4>1. i - 1 \in 1 .. Len(q) /\ r[i] = q[i - 1] /\ i - 1 # j - 1
        BY <3>4, <1>1, <1>4, <1>5
      <4> QED
        BY <3>1, <4>1 DEF NoRepeat
    <3> QED
      BY <3>2, <3>3, <3>4, <1>1, <1>4, <1>5
  <2> QED
    BY <2>2, <2>3, <2>4, <1>1, <1>4, <1>5
<1>7. ASSUME NEW u
      PROVE  In(u, r) <=> In(u, q) \/ u = t
  <2>1. ASSUME In(u, r)
        PROVE  In(u, q) \/ u = t
    <3>1. PICK j \in 1 .. Len(q) + 1 : r[j] = u
      BY <2>1, <1>5 DEF In
    <3>2. CASE j > n
      <4>1. j - 1 \in 1 .. Len(q) /\ q[j - 1] = u
        BY <3>1, <3>2, <1>1, <1>4, <1>5
      <4> QED
        BY <4>1 DEF In
    <3>3. CASE j < n
      BY <3>1, <3>3, <1>1, <1>4, <1>5, SMTT(20) DEF In
    <3>4. CASE j = n
      BY <3>1, <3>4, <1>5
    <3> QED
      BY <3>2, <3>3, <3>4, <1>1, <1>4
  <2>2. In(t, r)
    BY <1>1, <1>4, <1>5, SMTT(20) DEF In
  <2>3. ASSUME NEW i \in 1 .. Len(q), q[i] = u
        PROVE  In(u, r)
    <3>1. CASE i < n
      BY <3>1, <2>3, <1>1, <1>4, <1>5 DEF In
    <3>2. CASE ~ (i < n)
      <4>1. /\ i + 1 \in 1 .. Len(q) + 1 /\ ~ (i + 1 < n) /\ i + 1 # n
            /\ (i + 1) - 1 = i
        BY <3>2, <1>1, <1>4
      <4>2. r[i + 1] = u
        BY <4>1, <2>3, <1>5
      <4> QED
        BY <4>1, <4>2, <1>5 DEF In
    <3> QED
      BY <3>1, <3>2
  <2> QED
    BY <2>1, <2>2, <2>3 DEF In
<1>8. ASSUME NEW prio,
             \A u \in S : prio[u] \in Int,
             p \in Int,
             prio[t] = p,
             \A i \in 1 .. Len(q) : prio[q[i]] = priority[q[i]],
             Ordered(q, priority)
      PROVE  Ordered(r, prio)
  <2>1. \A i \in 1 .. Len(q) : q[i] \in S /\ prio[q[i]] \in Int
    BY <1>8, SMTT(20)
  <2>2. \A i \in 1 .. Len(q) : i < n => prio[q[i]] <= p
    <3> SUFFICES ASSUME NEW i \in 1 .. Len(q), i < n, prio[q[i]] > p
                 PROVE  FALSE
      BY <2>1, <1>8, SMTT(20)
    <3>1. i \in I
      BY <1>8
    <3> QED
      BY <3>1, <1>1, <1>2, <1>4
  <2>3. \A i \in 1 .. Len(q) : i >= n => prio[q[i]] >= p
    <3> SUFFICES ASSUME NEW i \in 1 .. Len(q), i >= n
                 PROVE  prio[q[i]] >= p
      OBVIOUS
    <3>1. n \in 1 .. Len(q) /\ prio[q[n]] > p
      BY <1>1, <1>2, <1>4, <1>8, SMTT(20)
    <3>2. prio[q[n]] <= prio[q[i]]
      BY <3>1, <2>1, <1>1, <1>8, SMTT(20) DEF Ordered
    <3> QED
      BY <3>1, <3>2, <2>1, <1>8, SMTT(20)
  <2>4. \A i, j \in 1 .. Len(q) : i < j => prio[q[i]] <= prio[q[j]]
    BY <1>8 DEF Ordered
  <2> SUFFICES ASSUME NEW i \in 1 .. Len(r), NEW j \in 1 .. Len(r), i < j
               PROVE  prio[r[i]] <= prio[r[j]]
    BY DEF Ordered
  <2>5. CASE j < n
    <3>1. /\ i \in 1 .. Len(q) /\ r[i] = q[i]
          /\ j \in 1 .. Len(q) /\ r[j] = q[j]
      BY <2>5, <1>1, <1>4, <1>5
    <3> QED
      BY <3>1, <2>4
  <2>6. CASE j = n
    <3>1. i \in 1 .. Len(q) /\ i < n /\ r[i] = q[i] /\ r[j] = t
      BY <2>6, <1>1, <1>4, <1>5
    <3> QED
      BY <3>1, <2>2, <1>8
  <2>7. CASE j > n /\ i < n
    <3>1. i \in 1 .. Len(q) /\ j - 1 \in 1 .. Len(q) /\ j - 1 >= n
      BY <2>7, <1>1, <1>4, <1>5
    <3>2. r[i] = q[i] /\ r[j] = q[j - 1]
      BY <2>7, <1>1, <1>4, <1>5
    <3>3. prio[q[i]] <= p /\ p <= prio[q[j - 1]] /\ prio[q[i]] \in Int
          /\ prio[q[j - 1]] \in Int
      BY <3>1, <2>1, <2>2, <2>3, <2>7, <1>8
    <3> QED
      BY ONLY <3>2, <3>3, <1>8
  <2>8. CASE j > n /\ i = n
    <3>1. j - 1 \in 1 .. Len(q) /\ j - 1 >= n
      BY <2>8, <1>1, <1>4, <1>5
    <3>2. r[i] = t /\ r[j] = q[j - 1]
      BY <2>8, <1>1, <1>4, <1>5
    <3> QED
      BY <3>1, <3>2, <2>3, <1>8
  <2>9. CASE j > n /\ i > n
    <3>1. i - 1 \in 1 .. Len(q) /\ j - 1 \in 1 .. Len(q) /\ i - 1 < j - 1
      BY <2>9, <1>1, <1>4, <1>5
    <3>2. r[i] = q[i - 1] /\ r[j] = q[j - 1]
      BY <2>9, <1>1, <1>4, <1>5
    <3> QED
      BY <3>1, <3>2, <2>4
  <2> QED
    BY <2>5, <2>6, <2>7, <2>8, <2>9, <1>1, <1>4, <1>5
<1> QED
  BY <1>3, <1>5, <1>6, <1>7, <1>8

\* The same for one assignment of priorities.
LEMMA SchedAddOrdered ==
  ASSUME LeastElements,
         NEW S, NEW q \in Seq(S), NEW t \in S, NEW p \in Int, NEW prio,
         NoRepeat(q), ~ In(t, q), Ordered(q, priority),
         \A u \in S : prio[u] \in Int, prio[t] = p,
         \A u \in S : In(u, q) => prio[u] = priority[u]
  PROVE  Ordered(k_sched_add(q, t, p), prio)
<1>1. \A i \in 1 .. Len(q) : prio[q[i]] = priority[q[i]]
  BY SMTT(20) DEF In
<1> QED
  BY <1>1, SchedAdd

\* The back of a list, as used for the run queues.
LEMMA ListAddBack ==
  ASSUME NEW S, NEW q \in Seq(S), NEW t \in S, NoRepeat(q), ~ In(t, q)
  PROVE  /\ Append(q, t) \in Seq(S)
         /\ NoRepeat(Append(q, t))
         /\ \A u : In(u, Append(q, t)) <=> In(u, q) \/ u = t
<1>1. /\ Append(q, t) \in Seq(S)
      /\ Len(Append(q, t)) = Len(q) + 1
      /\ \A i \in 1 .. Len(q) : Append(q, t)[i] = q[i]
      /\ Append(q, t)[Len(q) + 1] = t
      /\ Len(q) \in Nat
  OBVIOUS
<1> QED
  BY <1>1, SMTT(20) DEF NoRepeat, In

\* Taking the head off a list.
LEMMA ListTail ==
  ASSUME NEW S, NEW q \in Seq(S), q # <<>>, NoRepeat(q)
  PROVE  /\ Head(q) \in S
         /\ In(Head(q), q)
         /\ Tail(q) \in Seq(S)
         /\ NoRepeat(Tail(q))
         /\ \A u : In(u, Tail(q)) <=> In(u, q) /\ u # Head(q)
<1>1. /\ Head(q) \in S /\ Head(q) = q[1] /\ Len(q) \in Nat \ {0}
      /\ Tail(q) \in Seq(S)
      /\ Len(Tail(q)) = Len(q) - 1
      /\ \A i \in 1 .. Len(q) - 1 : Tail(q)[i] = q[i + 1]
  OBVIOUS
<1>2. ASSUME NEW u, In(u, q), u # Head(q)
      PROVE  In(u, Tail(q))
  <2>1. PICK i \in 1 .. Len(q) : q[i] = u
    BY <1>2 DEF In
  <2>2. i - 1 \in 1 .. Len(q) - 1 /\ (i - 1) + 1 = i
    BY <2>1, <1>1, <1>2, SMTT(20)
  <2>3. Tail(q)[i - 1] = u
    BY <2>1, <2>2, <1>1
  <2> QED
    BY <2>2, <2>3, <1>1 DEF In
<1>3. ASSUME NEW u, In(u, Tail(q))
      PROVE  In(u, q) /\ u # Head(q)
  BY <1>1, <1>3, SMTT(20) DEF In, NoRepeat
<1>4. NoRepeat(Tail(q)) /\ In(Head(q), q)
  BY <1>1, SMTT(20) DEF NoRepeat, In
<1> QED
  BY <1>1, <1>2, <1>3, <1>4

\* Only the position of a task in the list matters to Ordered.
LEMMA OrderedSame ==
  ASSUME NEW S, NEW list \in Seq(S), NEW p1, NEW p2, Ordered(list, p1),
         \A u \in S : In(u, list) => p1[u] = p2[u]
  PROVE  Ordered(list, p2)
<1>1. \A i \in 1 .. Len(list) : list[i] \in S /\ In(list[i], list)
  BY DEF In
<1> QED
  BY <1>1 DEF Ordered

\* The head of an ordered list has the highest priority.
LEMMA HeadHighest ==
  ASSUME NEW S, NEW list \in Seq(S), NEW prio, Ordered(list, prio),
         \A u \in S : prio[u] \in Int
  PROVE  \A u \in S : In(u, list) => list # <<>> /\ prio[Head(list)] <= prio[u]
<1> SUFFICES ASSUME NEW u \in S, In(u, list)
             PROVE  list # <<>> /\ prio[Head(list)] <= prio[u]
  OBVIOUS
<1>1. PICK i \in 1 .. Len(list) : list[i] = u
  BY DEF In
<1>2. list # <<>> /\ Len(list) \in Nat /\ 1 \in 1 .. Len(list)
  BY <1>1
<1>3. Head(list) = list[1] /\ list[1] \in S
  BY <1>2
<1> QED
  BY <1>1, <1>2, <1>3 DEF Ordered

----------------------------------------------------------------------------
(* Facts about the invariant, and going to sleep. *)

\* A failed assertion changes nothing else.
LEMMA PanicStep ==
  ASSUME IInv, panic = "none", panic' \in {"no owner", "lock order"},
         UNCHANGED <<sched_lock, cpu_task, state, priority, sched_queue, queue,
                     timeouts, sleep_result, kont, loop, mutexVars>>
  PROVE  IInv'
<1> USE SchedAssumption, MutexAssumption, CondAssumption
<1>1. TypeOK'
  BY Zenon DEF IInv, TypeOK, mutexVars
<1>2. OneList'
  <2>1. /\ cpu_task' = cpu_task /\ state' = state /\ priority' = priority
        /\ sched_queue' = sched_queue /\ queue' = queue /\ kont' = kont
    BY Zenon
  <2>2. OneList
    BY Zenon DEF IInv
  <2> QED
    BY ONLY <2>1, <2>2 DEF OneList, Sleeping, SleepsOn
<1>3. KontOK'
  BY Zenon DEF IInv, KontOK, Sleeping, mutexVars
<1>4. LoopOK' /\ MutexQueueOrdered'
  BY Zenon DEF IInv, LoopOK, MutexQueueOrdered, mutexVars
<1>5. MutexCovers' /\ BoostIsExact'
  BY ZenonT(60) DEF IInv, MutexCovers, BoostIsExact, mutexVars
<1>6. FinalisedOK' /\ NoStaleTimer' /\ RelockOK'
  BY ZenonT(60) DEF IInv, FinalisedOK, NoStaleTimer, RelockOK, Sleeping, mutexVars
<1>7. NoStrandedWaiter'
  BY ZenonT(60) DEF IInv, NoStrandedWaiter, Sleeping, mutexVars
<1> QED
  BY <1>1, <1>2, <1>3, <1>4, <1>5, <1>6, <1>7, Zenon DEF IInv

\* The lock is taken or released where nothing is left to do inside it.
LEMMA LockStep ==
  ASSUME IInv, sched_lock' \in CPU \cup {Null}, loop.op = "none",
         \A c \in CPU : sched_lock = c /\ cpu_task[c] # Null
                          => kont[cpu_task[c]] = Returning,
         UNCHANGED <<cpu_task, state, priority, sched_queue, queue, timeouts,
                     sleep_result, kont, loop, panic, mutexVars>>
  PROVE  IInv'
<1> USE SchedAssumption, MutexAssumption, CondAssumption
<1>1. TypeOK'
  BY Zenon DEF IInv, TypeOK, mutexVars
<1>2. OneList' /\ MutexQueueOrdered' /\ MutexCovers' /\ BoostIsExact'
  BY SMTT(20) DEF IInv, OneList, Sleeping, SleepsOn, mutexVars, MutexQueueOrdered, MutexCovers, BoostIsExact
<1>3. KontOK'
  <2>1. ASSUME NEW u \in Task
        PROVE  kont[u].at \notin {"lock.block", "wait.block"}
    <3> SUFFICES ASSUME kont[u].at \in {"lock.block", "wait.block"}
                 PROVE  FALSE
      OBVIOUS
    <3>1. sched_lock \in CPU /\ cpu_task[sched_lock] = u /\ u # Null
      BY Zenon DEF IInv, KontOK
    <3>2. kont[u] = Returning
      BY <3>1
    <3> QED
      BY <3>2, SMTT(20) DEF Returning
  <2>2. KontOK /\ TypeOK
    BY DEF IInv
  <2>3. \A u \in Task : KontOK!1!(u)'
    BY <2>1, <2>2, Zenon DEF KontOK, Sleeping, mutexVars
  <2>4. KontOK!2'
    BY <2>2, Zenon DEF KontOK
  <2> QED
    BY <2>3, <2>4, Zenon DEF KontOK
<1>4. LoopOK' /\ FinalisedOK' /\ NoStaleTimer' /\ RelockOK' /\ NoStrandedWaiter'
  BY SMTT(20) DEF IInv, LoopOK, FinalisedOK, NoStaleTimer, RelockOK, NoStrandedWaiter, Sleeping, mutexVars
<1> QED
  BY <1>1, <1>2, <1>3, <1>4 DEF IInv

\* _k_sched_enqueue puts a task that is in no run queue in that of its priority.
LEMMA Enqueue ==
  ASSUME TypeOK, OneList, NEW t \in Task, state[t] # "READY",
         k_sched_enqueue(t)
  PROVE  /\ state' = [state EXCEPT ![t] = "READY"]
         /\ sched_queue' \in [Priority -> Seq(Task)]
         /\ \A p \in Priority : NoRepeat(sched_queue'[p])
         /\ \A u \in Task, p \in Priority : In(u, sched_queue'[p]) <=>
              In(u, sched_queue[p]) \/ (u = t /\ p = priority[t])
<1>1. /\ priority[t] \in Priority
      /\ sched_queue' = [sched_queue EXCEPT ![priority[t]] =
                           Append(sched_queue[priority[t]], t)]
      /\ sched_queue \in [Priority -> Seq(Task)]
      /\ state' = [state EXCEPT ![t] = "READY"]
  BY Zenon DEF k_sched_enqueue, TypeOK
<1>2. /\ sched_queue[priority[t]] \in Seq(Task)
      /\ NoRepeat(sched_queue[priority[t]])
      /\ ~ In(t, sched_queue[priority[t]])
  BY <1>1 DEF OneList
<1>3. /\ Append(sched_queue[priority[t]], t) \in Seq(Task)
      /\ NoRepeat(Append(sched_queue[priority[t]], t))
      /\ \A u : In(u, Append(sched_queue[priority[t]], t)) <=>
           In(u, sched_queue[priority[t]]) \/ u = t
  BY <1>2, ListAddBack, SMTT(20)
<1>4. \A p \in Priority : NoRepeat(sched_queue[p])
  BY DEF OneList
<1>5. \A p \in Priority : sched_queue'[p] =
        IF p = priority[t] THEN Append(sched_queue[p], t) ELSE sched_queue[p]
  BY <1>1
<1>6. sched_queue' \in [Priority -> Seq(Task)]
  BY <1>1, <1>3
<1>7. ASSUME NEW u \in Task, NEW p \in Priority
      PROVE  In(u, sched_queue'[p]) <=>
               In(u, sched_queue[p]) \/ (u = t /\ p = priority[t])
  <2>1. CASE p = priority[t]
    BY <2>1, <1>3, <1>5
  <2>2. CASE p # priority[t]
    BY <2>2, <1>5
  <2> QED
    BY <2>1, <2>2
<1>8. \A p \in Priority : NoRepeat(sched_queue'[p])
  BY <1>3, <1>4, <1>5
<1> QED
  BY <1>1, <1>6, <1>7, <1>8

\* _k_sched_resume moves a sleeping task from its queue to a run queue.
LEMMA Resume ==
  ASSUME TypeOK, OneList, NEW t \in Task, NEW result, Sleeping(t),
         k_sched_resume(t, result)
  PROVE  /\ state' = [state EXCEPT ![t] = "READY"]
         /\ sleep_result' = [sleep_result EXCEPT ![t] = result]
         /\ sched_queue' \in [Priority -> Seq(Task)]
         /\ \A p \in Priority : NoRepeat(sched_queue'[p])
         /\ \A u \in Task, p \in Priority : In(u, sched_queue'[p]) <=>
              In(u, sched_queue[p]) \/ (u = t /\ p = priority[t])
         /\ queue' \in [WaitQueue -> Seq(Task)]
         /\ \A q \in WaitQueue : NoRepeat(queue'[q])
         /\ \A u \in Task, q \in WaitQueue :
              In(u, queue'[q]) <=> In(u, queue[q]) /\ u # t
         /\ \A q \in WaitQueue : \A prio :
              Ordered(queue[q], prio) => Ordered(queue'[q], prio)
<1>1. /\ queue' = [q \in WaitQueue |-> k_list_remove(queue[q], t)]
      /\ sleep_result' = [sleep_result EXCEPT ![t] = result]
      /\ k_sched_enqueue(t)
      /\ state[t] # "READY"
  BY DEF k_sched_resume, Sleeping
<1>2. \A q \in WaitQueue : queue[q] \in Seq(Task) /\ NoRepeat(queue[q])
  BY Zenon DEF TypeOK, OneList
<1>3. ASSUME NEW q \in WaitQueue
      PROVE  /\ queue'[q] \in Seq(Task)
             /\ NoRepeat(queue'[q])
             /\ \A u : In(u, queue'[q]) <=> In(u, queue[q]) /\ u # t
             /\ \A prio : Ordered(queue[q], prio) => Ordered(queue'[q], prio)
  <2>1. queue'[q] = k_list_remove(queue[q], t)
    BY <1>1
  <2> QED
    BY <2>1, <1>2, ListRemove, SMTT(20)
<1>4. queue' \in [WaitQueue -> Seq(Task)]
  BY <1>1, <1>3
<1> QED
  BY <1>1, <1>3, <1>4, Enqueue, Zenon

\* The task of a CPU is running, and has nothing to do inside a lock that the
\* CPU does not hold.
LEMMA Running ==
  ASSUME TypeOK, OneList, NEW c \in CPU, cpu_task[c] # Null
  PROVE  cpu_task[c] \in Task /\ state[cpu_task[c]] = "RUNNING"
<1>1. cpu_task[c] \in Task
  BY Zenon DEF TypeOK
<1>2. state[cpu_task[c]] = "RUNNING"
  BY DEF OneList
<1> QED
  BY <1>1, <1>2

\* Priorities can be compared.
LEMMA PrioritiesAreNumbers ==
  ASSUME TypeOK
  PROVE  /\ \A u \in Task : priority[u] \in Int /\ priority[u] < MaxPriorities
         /\ \A m \in Mutex : mutex_priority[m] \in Int
<1>1. /\ \A p \in Priority : p \in Int /\ p < MaxPriorities
      /\ \A p \in 0 .. MaxPriorities : p \in Int
  BY SchedAssumption, SMTT(20) DEF Priority
<1>2. /\ \A u \in Task : priority[u] \in Priority
      /\ \A m \in Mutex : mutex_priority[m] \in 0 .. MaxPriorities
  BY Zenon DEF TypeOK
<1> QED
  BY <1>1, <1>2

\* The lists stay right where they and the sleeping tasks stay the same.
LEMMA SameLists ==
  ASSUME OneList, UNCHANGED <<cpu_task, state, priority, sched_queue, queue>>,
         \A u \in Task : Sleeping(u) => kont'[u] = kont[u]
  PROVE  OneList'
<1>1. /\ cpu_task' = cpu_task /\ state' = state /\ priority' = priority
      /\ sched_queue' = sched_queue /\ queue' = queue
  OBVIOUS
<1>2. \A u \in Task, q \in WaitQueue :
        In(u, queue'[q]) <=> Sleeping(u)' /\ SleepsOn(u)' = q
  BY ONLY <1>1, OneList, \A u \in Task : Sleeping(u) => kont'[u] = kont[u]
     DEF OneList, Sleeping, SleepsOn
<1> QED
  BY ONLY <1>1, <1>2, OneList DEF OneList

\* What a task that has the CPU and does not hold the lock has to do.
LEMMA Entering ==
  ASSUME IInv, NEW c \in CPU, NEW t \in Task, MayEnter(c, t)
  PROVE  /\ kont[t] = Returning /\ state[t] = "RUNNING" /\ loop = NoLoop
         /\ t \notin timeouts
         /\ sleep_on_mutex[t] = Null
         /\ timeouts = timeouts \ {t}
         /\ sleep_on_mutex = [sleep_on_mutex EXCEPT ![t] = Null]
         /\ \A u \in Task : kont[u].at \notin {"lock.block", "wait.block"}
<1> USE SchedAssumption
<1>1. cpu_task[c] = t /\ sched_lock = Null /\ panic = "none" /\ c # Null /\ t # Null
  BY DEF MayEnter
<1>2. kont[t] = Returning
  BY <1>1 DEF IInv, KontOK
<1>3. state[t] = "RUNNING"
  BY <1>1, Running DEF IInv
<1>4. loop = NoLoop
  BY <1>1 DEF IInv, LoopOK
<1>5. t \notin timeouts
  BY <1>2, SMTT(20) DEF IInv, NoStaleTimer, Returning
<1>6. sleep_on_mutex[t] = Null
  BY <1>1, <1>2, SMTT(20) DEF IInv, KontOK, Returning
<1>7. sleep_on_mutex = [sleep_on_mutex EXCEPT ![t] = Null]
  BY <1>6, Zenon DEF IInv, TypeOK
<1>8. \A u \in Task : kont[u].at \notin {"lock.block", "wait.block"}
  BY <1>1 DEF IInv, KontOK
<1> QED
  BY <1>2, <1>3, <1>4, <1>5, <1>6, <1>7, <1>8

\* The head of a queue is a task asleep on it.
LEMMA HeadSleeps ==
  ASSUME IInv, NEW q \in WaitQueue, queue[q] # <<>>
  PROVE  /\ Head(queue[q]) \in Task /\ In(Head(queue[q]), queue[q])
         /\ Sleeping(Head(queue[q]))
         /\ q \in Mutex => /\ kont[Head(queue[q])].at = "lock.sleep"
                           /\ kont[Head(queue[q])].mutex = q
         /\ q \in Cond => kont[Head(queue[q])].at = "wait.sleep"
<1> USE SchedAssumption, MutexAssumption, CondAssumption
<1>1. queue[q] \in Seq(Task) /\ NoRepeat(queue[q])
  <2>1. queue[q] \in Seq(Task)
    BY Zenon DEF IInv, TypeOK
  <2>2. NoRepeat(queue[q])
    BY DEF IInv, OneList
  <2> QED
    BY <2>1, <2>2
<1>2. PICK t \in Task : t = Head(queue[q]) /\ In(t, queue[q])
  BY <1>1, ListTail
<1>3. Sleeping(t) /\ SleepsOn(t) = q
  BY <1>2 DEF IInv, OneList
<1>4. /\ kont[t].at \in {"lock.sleep", "wait.sleep"}
      /\ kont[t].at = "lock.sleep" => kont[t].mutex \in Mutex
      /\ kont[t].at = "wait.sleep" => kont[t].cond \in Cond
  BY <1>3, Zenon DEF IInv, KontOK
<1>5. /\ q \in Mutex => kont[t].at = "lock.sleep" /\ kont[t].mutex = q
      /\ q \in Cond => kont[t].at = "wait.sleep"
  BY <1>3, <1>4 DEF SleepsOn
<1> QED
  BY <1>2, <1>3, <1>5

----------------------------------------------------------------------------
(* Going to sleep. *)

\* A task inside the lock adds itself to a queue and gives up its CPU.
LEMMA SleepStep ==
  ASSUME LeastElements, IInv, NEW c \in CPU, NEW t \in Task, NEW q \in WaitQueue,
         NEW how \in {"SLEEP", "SLEEP_UNWAKEABLE"}, NEW timed \in BOOLEAN,
         Inside(c, t), k_sched_sleep(c, t, q, how, timed),
         kont' \in [Task -> Kont],
         \A u \in Task : u # t => kont'[u] = kont[u],
         kont'[t].mutex = kont[t].mutex /\ kont'[t].cond = kont[t].cond,
         kont'[t].timed = timed,
         \/ /\ kont[t].at = "lock.block" /\ kont'[t].at = "lock.sleep"
            /\ kont[t].mutex = q /\ kont[t].timed = timed
            /\ sleep_on_mutex' = [sleep_on_mutex EXCEPT ![t] = q]
         \/ /\ kont[t].at = "wait.block" /\ kont'[t].at = "wait.sleep"
            /\ kont[t].cond = q
            /\ sleep_on_mutex' = sleep_on_mutex,
         UNCHANGED <<priority, sched_queue, sleep_result, loop, panic, owner,
                     mutex_priority, finalised>>
  PROVE  IInv'
<1> USE SchedAssumption, MutexAssumption, CondAssumption
<1>0. /\ TypeOK /\ OneList /\ KontOK /\ LoopOK /\ MutexQueueOrdered
      /\ MutexCovers /\ BoostIsExact /\ FinalisedOK /\ NoStaleTimer /\ RelockOK
      /\ NoStrandedWaiter
  BY DEF IInv
<1>1. /\ cpu_task[c] = t /\ sched_lock = c /\ panic = "none" /\ t # Null
      /\ loop = NoLoop /\ sched_lock' = c
      /\ cpu_task' = [cpu_task EXCEPT ![c] = Null]
      /\ state' = [state EXCEPT ![t] = how]
      /\ queue' = [queue EXCEPT ![q] = k_sched_add(queue[q], t, priority[t])]
      /\ timeouts' \in SUBSET (timeouts \cup {t})
      /\ timed = FALSE => timeouts' = timeouts
  BY DEF Inside, k_sched_sleep, k_sched_yield_locked
<1>2. state[t] = "RUNNING" /\ ~ Sleeping(t)
  BY ONLY <1>0, <1>1, Running DEF Sleeping
<1>3. /\ state'[t] = how /\ Sleeping(t)' /\ state'[t] # "READY" /\ state'[t] # "RUNNING"
      /\ \A u \in Task : u # t => /\ state'[u] = state[u]
                                  /\ Sleeping(u)' <=> Sleeping(u)
      /\ cpu_task'[c] = Null
      /\ \A d \in CPU : d # c => cpu_task'[d] = cpu_task[d]
      /\ \A d \in CPU : d # c => cpu_task[d] # t
  BY ONLY <1>0, <1>1 DEF TypeOK, OneList, Sleeping
<1>4. /\ queue[q] \in Seq(Task) /\ NoRepeat(queue[q])
      /\ \A r \in WaitQueue : ~ In(t, queue[r])
      /\ \A u \in Task : priority[u] \in Int
  <2>1. queue[q] \in Seq(Task)
    BY ONLY <1>0, Zenon DEF TypeOK
  <2>2. NoRepeat(queue[q]) /\ \A r \in WaitQueue : ~ In(t, queue[r])
    BY ONLY <1>0, <1>2 DEF OneList
  <2>3. \A u \in Task : priority[u] \in Int
    BY ONLY SchedAssumption, MutexAssumption, CondAssumption, <1>0, PrioritiesAreNumbers
  <2> QED
    BY <2>1, <2>2, <2>3
<1>5. /\ k_sched_add(queue[q], t, priority[t]) \in Seq(Task)
      /\ NoRepeat(k_sched_add(queue[q], t, priority[t]))
      /\ \A u : In(u, k_sched_add(queue[q], t, priority[t])) <=>
                  In(u, queue[q]) \/ u = t
      /\ Ordered(queue[q], priority)
           => Ordered(k_sched_add(queue[q], t, priority[t]), priority)
  <2>1. ~ In(t, queue[q]) /\ priority[t] \in Int
    BY ONLY <1>4
  <2>2. /\ k_sched_add(queue[q], t, priority[t]) \in Seq(Task)
        /\ NoRepeat(k_sched_add(queue[q], t, priority[t]))
        /\ \A u : In(u, k_sched_add(queue[q], t, priority[t])) <=>
                    In(u, queue[q]) \/ u = t
    BY <2>1, <1>4, SchedAdd, SMTT(20)
  <2>3. ASSUME Ordered(queue[q], priority)
        PROVE  Ordered(k_sched_add(queue[q], t, priority[t]), priority)
    BY <2>1, <2>3, <1>4, SchedAddOrdered, ZenonT(60)
  <2> QED
    BY <2>2, <2>3
<1>6. /\ queue' \in [WaitQueue -> Seq(Task)]
      /\ \A r \in WaitQueue : NoRepeat(queue'[r])
      /\ \A u \in Task, r \in WaitQueue :
           In(u, queue'[r]) <=> In(u, queue[r]) \/ (u = t /\ r = q)
      /\ \A r \in WaitQueue : Ordered(queue[r], priority) => Ordered(queue'[r], priority)
  <2>1. queue \in [WaitQueue -> Seq(Task)] /\ \A r \in WaitQueue : NoRepeat(queue[r])
    BY ONLY <1>0, ZenonT(60) DEF TypeOK, OneList
  <2>2. /\ queue'[q] = k_sched_add(queue[q], t, priority[t])
        /\ \A r \in WaitQueue : r # q => queue'[r] = queue[r]
        /\ queue' \in [WaitQueue -> Seq(Task)]
    BY ONLY <1>1, <1>5, <2>1
  <2>3. ASSUME NEW u \in Task, NEW r \in WaitQueue
        PROVE  In(u, queue'[r]) <=> In(u, queue[r]) \/ (u = t /\ r = q)
    <3>1. CASE r = q
      BY ONLY SchedAssumption, MutexAssumption, CondAssumption, <3>1, <2>2, <1>5
    <3>2. CASE r # q
      BY <3>2, <2>2
    <3> QED
      BY ONLY <3>1, <3>2
  <2>4. \A r \in WaitQueue : NoRepeat(queue'[r])
    BY <2>1, <2>2, <1>5, Zenon
  <2>5. \A r \in WaitQueue : Ordered(queue[r], priority) => Ordered(queue'[r], priority)
    BY ONLY <2>2, <1>5, ZenonT(60)
  <2> QED
    BY <2>2, <2>3, <2>4, <2>5
<1>7. \A u \in Task : u # t => kont[u].at \notin {"lock.block", "wait.block"}
  BY <1>0, <1>1 DEF KontOK
<1>8. TypeOK'
  <2>1. /\ sched_lock' \in CPU \cup {Null}
        /\ cpu_task' \in [CPU -> Task \cup {Null}]
        /\ state' \in [Task -> TaskState]
        /\ timeouts' \in SUBSET Task
    BY <1>0, <1>1 DEF TypeOK, TaskState
  <2>2. sleep_on_mutex' \in [Task -> Mutex \cup {Null}]
    <3>1. kont[t].at = "lock.block" => kont[t].mutex \in Mutex
      BY ONLY <1>0, ZenonT(60) DEF KontOK
    <3> QED
      BY <3>1, <1>0, Zenon DEF TypeOK
  <2> QED
    BY <1>0, <1>6, <2>1, <2>2, ZenonT(60) DEF TypeOK
<1>9. OneList'
  <2>1. \A u \in Task, p \in Priority :
          In(u, sched_queue'[p]) <=> state'[u] = "READY" /\ priority'[u] = p
    BY <1>0, <1>2, <1>3, SMTT(20) DEF OneList
  <2>2. \A u \in Task, r \in WaitQueue :
          In(u, queue'[r]) <=> Sleeping(u)' /\ SleepsOn(u)' = r
    <3> SUFFICES ASSUME NEW u \in Task, NEW r \in WaitQueue
                 PROVE  In(u, queue'[r]) <=> Sleeping(u)' /\ SleepsOn(u)' = r
      OBVIOUS
    <3>1. CASE u = t
      BY <3>1, <1>3, <1>4, <1>6, SMTT(20) DEF SleepsOn
    <3>2. CASE u # t
      <4>1. kont'[u] = kont[u] /\ (Sleeping(u)' <=> Sleeping(u))
        BY <3>2, <1>3
      <4>2. In(u, queue[r]) <=> Sleeping(u) /\ SleepsOn(u) = r
        BY ONLY <1>0 DEF OneList
      <4> QED
        BY ONLY <3>2, <4>1, <4>2, <1>6 DEF SleepsOn
    <3> QED
      BY ONLY <3>1, <3>2
  <2>3. OneList!5'
    <3> SUFFICES ASSUME NEW d \in CPU, cpu_task'[d] # Null
                 PROVE  state'[cpu_task'[d]] = "RUNNING"
      OBVIOUS
    <3>1. cpu_task'[d] = cpu_task[d] /\ cpu_task[d] # t
      BY <1>3
    <3>2. cpu_task[d] \in Task /\ state[cpu_task[d]] = "RUNNING"
      BY <3>1, <1>0, Running
    <3> QED
      BY ONLY <3>1, <3>2, <1>3
  <2>4. OneList!6'
    BY <1>0, <1>1, <1>3, SMTT(20) DEF OneList
  <2>5. OneList!7'
    BY ONLY <1>0, <1>3 DEF OneList
  <2>6. \A p \in Priority : NoRepeat(sched_queue'[p])
    BY <1>0 DEF OneList
  <2> QED
    BY ONLY <1>6, <2>1, <2>2, <2>3, <2>4, <2>5, <2>6 DEF OneList
<1>10. KontOK'
  <2>1. ASSUME NEW u \in Task
        PROVE  KontOK!1!(u)'
    <3>1. CASE u = t
      BY <3>1, <1>0, <1>1, <1>3, SMTT(20) DEF KontOK, TypeOK
    <3>2. CASE u # t
      <4>1. sleep_on_mutex'[u] = sleep_on_mutex[u] /\ kont'[u] = kont[u]
        BY <3>2, <1>0, Zenon DEF TypeOK
      <4>2. KontOK!1!(u) /\ kont[u].at \notin {"lock.block", "wait.block"}
        BY ONLY <3>2, <1>0, <1>7, Zenon DEF KontOK
      <4>3. Sleeping(u)' <=> Sleeping(u)
        BY ONLY SchedAssumption, MutexAssumption, CondAssumption, <2>1, <3>2, <1>3
      <4> QED
        BY <4>1, <4>2, <4>3, Zenon
    <3> QED
      BY ONLY SchedAssumption, MutexAssumption, CondAssumption, <3>1, <3>2, ZenonT(60)
  <2>2. ASSUME NEW d \in CPU, cpu_task'[d] # Null
        PROVE  kont'[cpu_task'[d]] = Returning
    <3>1. d # c /\ cpu_task'[d] = cpu_task[d] /\ cpu_task[d] # t
      BY <2>2, <1>3
    <3>2. cpu_task[d] \in Task
      BY <3>1, <2>2, <1>0, Running
    <3> QED
      BY <3>1, <3>2, <2>2, <1>0, <1>1 DEF KontOK
  <2> QED
    BY <2>1, <2>2, Zenon DEF KontOK
<1>11. LoopOK'
  BY <1>1 DEF LoopOK, NoLoop
<1>12. MutexQueueOrdered'
  BY <1>0, <1>6 DEF MutexQueueOrdered
<1>13. MutexCovers'
  <2>1. ASSUME NEW m \in Mutex, NEW u \in Task, In(u, queue'[m])
        PROVE  mutex_priority[m] <= priority[u]
    <3>1. CASE In(u, queue[m])
      BY <3>1, <1>0, <1>1 DEF MutexCovers, NoLoop
    <3>2. CASE u = t /\ m = q
      <4>1. kont[t].at = "lock.block" /\ kont[t].mutex = m
        BY <3>2, <1>0, ZenonT(60) DEF KontOK
      <4> QED
        BY <3>2, <4>1, <1>0, <1>1 DEF MutexCovers, NoLoop
    <3> QED
      BY <2>1, <3>1, <3>2, <1>6
  <2>2. \A u \in Task : kont'[u].at # "lock.block"
    BY <1>7
  <2> QED
    BY <2>1, <2>2 DEF MutexCovers
<1>14. BoostIsExact'
  BY <1>0, SMTT(20) DEF BoostIsExact
<1>15. FinalisedOK'
  <2>1. \A m \in Mutex : m \in finalised => kont[t].mutex # m
    BY <1>0 DEF FinalisedOK
  <2> QED
    BY <1>0, <1>3, <2>1, SMTT(20) DEF FinalisedOK
<1>16. NoStaleTimer'
  <2>1. t \notin timeouts
    BY <1>0 DEF NoStaleTimer
  <2> QED
    BY <2>1, <1>0, <1>1, ZenonT(60) DEF NoStaleTimer, TypeOK
<1>17. RelockOK'
  BY <1>0 DEF RelockOK
<1>18. NoStrandedWaiter'
  <2> SUFFICES ASSUME NEW m \in Mutex, NEW u \in Task,
                      owner'[m] = Null, In(u, queue'[m]), m \notin finalised'
               PROVE  NoStrandedWaiter!(m, u)!2'
    BY DEF NoStrandedWaiter
  <2>1. In(u, queue[m])
    <3>1. ASSUME u = t, m = q
          PROVE  FALSE
      <4>1. kont[t].at = "lock.block" /\ kont[t].mutex = m
        BY <3>1, <1>0, ZenonT(60) DEF KontOK
      <4> QED
        BY <4>1, <1>0 DEF MutexCovers
    <3> QED
      BY <3>1, <1>6
  <2>2. PICK w \in Task : /\ kont[w].at = "lock.sleep" /\ kont[w].mutex = m
                          /\ ~ Sleeping(w) /\ sleep_result[w] = 0
    BY <2>1, <1>0 DEF NoStrandedWaiter
  <2>3. w # t
    BY <2>2
  <2> QED
    BY <2>2, <2>3, <1>3
<1> QED
  BY <1>8, <1>9, <1>10, <1>11, <1>12, <1>13, <1>14, <1>15, <1>16, <1>17, <1>18
     DEF IInv

\* A task goes to sleep on a mutex.
LEMMA MutexSleep ==
  ASSUME LeastElements, IInv, NEW c \in CPU, NEW t \in Task, k_mutex_sleep(c, t)
  PROVE  IInv'
<1>1. /\ Inside(c, t) /\ kont[t].at = "lock.block"
      /\ k_sched_sleep(c, t, kont[t].mutex, "SLEEP", kont[t].timed)
      /\ kont' = [kont EXCEPT ![t].at = "lock.sleep"]
      /\ sleep_on_mutex' = [sleep_on_mutex EXCEPT ![t] = kont[t].mutex]
      /\ UNCHANGED <<priority, sched_queue, sleep_result, loop, panic, owner,
                     mutex_priority, finalised>>
  BY DEF k_mutex_sleep
<1>2. kont \in [Task -> Kont] /\ kont[t] \in Kont
  BY Zenon DEF IInv, TypeOK
<1>3. kont[t].mutex \in WaitQueue /\ kont[t].timed \in BOOLEAN
  BY <1>1, <1>2, MutexAssumption, Zenon DEF IInv, KontOK, Kont
<1>4. /\ kont' \in [Task -> Kont]
      /\ \A u \in Task : u # t => kont'[u] = kont[u]
      /\ kont'[t].at = "lock.sleep" /\ kont'[t].mutex = kont[t].mutex
      /\ kont'[t].cond = kont[t].cond /\ kont'[t].timed = kont[t].timed
  BY <1>1, <1>2 DEF Kont
<1>5. CASE kont[t].timed = TRUE
  <2>1. k_sched_sleep(c, t, kont[t].mutex, "SLEEP", TRUE)
    BY <1>1, <1>5, Zenon
  <2> QED
    BY <1>1, <1>3, <1>4, <1>5, <2>1, SleepStep, Zenon
<1>6. CASE kont[t].timed = FALSE
  <2>1. k_sched_sleep(c, t, kont[t].mutex, "SLEEP", FALSE)
    BY <1>1, <1>6, Zenon
  <2> QED
    BY <1>1, <1>3, <1>4, <1>6, <2>1, SleepStep, Zenon
<1> QED
  BY <1>3, <1>5, <1>6, Zenon

\* A task goes to sleep on a condition variable.
LEMMA CondvarSleep ==
  ASSUME LeastElements, IInv, NEW c \in CPU, NEW t \in Task,
         NEW how \in {"SLEEP", "SLEEP_UNWAKEABLE"}, NEW timed \in BOOLEAN,
         k_condvar_sleep(c, t, how, timed)
  PROVE  IInv'
<1>1. /\ Inside(c, t) /\ kont[t].at = "wait.block"
      /\ k_sched_sleep(c, t, kont[t].cond, how, timed)
      /\ kont' = [kont EXCEPT ![t].at = "wait.sleep", ![t].timed = timed]
      /\ UNCHANGED <<priority, sched_queue, sleep_result, loop, panic, owner,
                     mutex_priority, finalised>>
      /\ sleep_on_mutex' = sleep_on_mutex
  BY DEF k_condvar_sleep, mutexVars
<1>2. kont \in [Task -> Kont] /\ kont[t] \in Kont
  BY Zenon DEF IInv, TypeOK
<1>3. kont[t].cond \in WaitQueue
  BY <1>1, CondAssumption, Zenon DEF IInv, KontOK
<1>4. /\ kont' \in [Task -> Kont]
      /\ \A u \in Task : u # t => kont'[u] = kont[u]
      /\ kont'[t].at = "wait.sleep" /\ kont'[t].mutex = kont[t].mutex
      /\ kont'[t].cond = kont[t].cond /\ kont'[t].timed = timed
  BY <1>1, <1>2, Zenon DEF Kont
<1> QED
  BY <1>1, <1>3, <1>4, SleepStep, SMTT(20)

============================================================================
