--------------------------- MODULE BufCacheSteps ----------------------------
(***************************************************************************)
(* The inductive invariant of the buffer cache, what its steps do, and     *)
(* that the steps of a task at the buffer it has keep the invariant.       *)
(***************************************************************************)
EXTENDS BufCache, FiniteSetTheorems, TLAPS

\* The time that the provers may take.
USE ZenonT(20), SMTT(20)

\* A numbering of the blocks that grows inwards.
Order == CHOOSE o \in Orders : TRUE

\* A sequence but for its last element.
Front(q) == SubSeq(q, 1, Len(q) - 1)

\* The buffers that a task has locked: all it has, but for the last one while
\* it waits for the mutex and once it has unlocked it.
Locks(t, b) ==
  \E i \in DOMAIN held[t] :
    held[t][i] = b /\ (i < Len(held[t]) \/ at[t] \notin {"lock", "put"})

\* The tasks that have b or wait for it.
Holders(b) == {t \in Task : b \in Range(held[t])}

\* What tasks have is in the list, each inside the one before, so that no task
\* has a buffer twice.
HeldOK ==
  \A t \in Task :
    /\ at[t] # "run" => held[t] # <<>>
    /\ \A i \in DOMAIN held[t] : held[t][i] \in Range(list)
    /\ \A i, j \in DOMAIN held[t] :
         i < j => Order[buf[held[t][i]].block] < Order[buf[held[t][j]].block]

\* The buffers in the list have a block; the others are new.
ListOK ==
  \A b \in Buf : IF b \in Range(list) THEN buf[b].block \in Block ELSE buf[b] = NewBuf

\* The owner of a mutex is the task that has the buffer locked.
MutexOK == \A t \in Task, b \in Buf : buf[b].mutex = t <=> Locks(t, b)

\* The queue holds the tasks that wait for the card.
QueueOK == \A t \in Task : t \in Range(queue) <=> at[t] \in {"read", "write"}

\* A task that runs has buffers that are valid.
ValidOK ==
  \A t \in Task : \A i \in DOMAIN held[t] :
    IF i < Len(held[t]) THEN buf[held[t][i]].valid
    ELSE /\ at[t] \in {"run", "write", "written", "put"} => buf[held[t][i]].valid
         /\ at[t] \in {"read", "filled"} => ~ buf[held[t][i]].valid

\* Where a buffer has the data of its block.
DataOK ==
  /\ \A b \in Range(list) : buf[b].valid => buf[b].data \in Data
  /\ \A b \in Range(list) :
       buf[b].valid /\ ~ (\E t \in Task : at[t] = "write" /\ Mine(t) = b)
         => buf[b].data = disk[buf[b].block]
  /\ \A t \in Task : at[t] = "filled" => buf[Mine(t)].data = disk[buf[Mine(t)].block]

\* The inductive invariant.
IInv ==
  /\ TypeOK /\ ListOK /\ HeldOK /\ MutexOK /\ QueueOK /\ ValidOK /\ DataOK
  /\ ReferencesAreCounted /\ OneBufferPerBlock /\ CardIsInStep

----------------------------------------------------------------------------
(* Sequences. *)

\* The last element, and what is before it.
LEMMA FrontLast ==
  ASSUME NEW S, NEW q \in Seq(S), q # <<>>
  PROVE  /\ Len(q) \in Nat \ {0} /\ DOMAIN q = 1 .. Len(q)
         /\ q[Len(q)] \in S
         /\ Front(q) \in Seq(S) /\ Len(Front(q)) = Len(q) - 1
         /\ \A i \in 1 .. Len(q) - 1 : Front(q)[i] = q[i]
<1>1. /\ Len(q) \in Nat \ {0} /\ DOMAIN q = 1 .. Len(q)
      /\ \A i \in 1 .. Len(q) : q[i] \in S
  OBVIOUS
<1>2. /\ Front(q) \in Seq(S) /\ Len(Front(q)) = Len(q) - 1
      /\ \A i \in 1 .. Len(q) - 1 : Front(q)[i] = q[i]
  BY <1>1 DEF Front
<1> QED
  BY <1>1, <1>2, SMTT(20)

\* Appending an element.
LEMMA AppendLast ==
  ASSUME NEW S, NEW q \in Seq(S), NEW e \in S
  PROVE  /\ Append(q, e) \in Seq(S) /\ Append(q, e) # <<>>
         /\ Len(Append(q, e)) = Len(q) + 1
         /\ \A i \in 1 .. Len(q) : Append(q, e)[i] = q[i]
         /\ Range(Append(q, e)) = Range(q) \cup {e}
<1>1. /\ Append(q, e) \in Seq(S) /\ Append(q, e) # <<>>
      /\ Len(Append(q, e)) = Len(q) + 1 /\ Len(q) \in Nat
      /\ Append(q, e)[Len(q) + 1] = e
      /\ \A i \in 1 .. Len(q) : Append(q, e)[i] = q[i]
  OBVIOUS
<1>2. Range(Append(q, e)) = Range(q) \cup {e}
  BY <1>1, SMTT(20) DEF Range
<1> QED
  BY <1>1, <1>2

\* The first element, and what is after it.
LEMMA HeadTail ==
  ASSUME NEW S, NEW q \in Seq(S), q # <<>>, IsInjective(q)
  PROVE  /\ Head(q) \in S /\ Head(q) \in Range(q)
         /\ Tail(q) \in Seq(S) /\ IsInjective(Tail(q))
         /\ Range(Tail(q)) = Range(q) \ {Head(q)}
<1>1. /\ Len(q) \in Nat \ {0} /\ DOMAIN q = 1 .. Len(q) /\ Head(q) = q[1]
      /\ \A i \in 1 .. Len(q) : q[i] \in S
      /\ Tail(q) \in Seq(S) /\ Len(Tail(q)) = Len(q) - 1
      /\ DOMAIN Tail(q) = 1 .. Len(q) - 1
      /\ \A i \in 1 .. Len(q) - 1 : Tail(q)[i] = q[i + 1]
  OBVIOUS
<1>2. \A i, j \in 1 .. Len(q) : q[i] = q[j] => i = j
  BY <1>1 DEF IsInjective
<1>3. IsInjective(Tail(q))
  BY <1>1, <1>2, SMTT(20) DEF IsInjective
<1>4. ASSUME NEW x \in Range(q), x # Head(q)
      PROVE  x \in Range(Tail(q))
  <2>1. PICK i \in 1 .. Len(q) : q[i] = x
    BY <1>1 DEF Range
  <2>2. i - 1 \in 1 .. Len(q) - 1 /\ i - 1 + 1 = i
    BY <1>1, <1>4, <2>1, SMTT(20)
  <2> QED
    BY <1>1, <2>1, <2>2, Zenon DEF Range
<1>5. ASSUME NEW x \in Range(Tail(q))
      PROVE  x \in Range(q) /\ x # Head(q)
  <2>1. PICK i \in 1 .. Len(q) - 1 : q[i + 1] = x
    BY <1>1 DEF Range
  <2> QED
    BY <1>1, <1>2, <2>1, SMTT(20) DEF Range
<1>6. Head(q) \in S /\ Head(q) \in Range(q)
  BY <1>1, SMTT(20) DEF Range
<1>7. Range(Tail(q)) = Range(q) \ {Head(q)}
  BY <1>4, <1>5, Zenon
<1> QED
  BY <1>1, <1>3, <1>6, <1>7

\* Appending an element that is new.
LEMMA AppendNew ==
  ASSUME NEW S, NEW q \in Seq(S), NEW e \in S, IsInjective(q), e \notin Range(q)
  PROVE  /\ Append(q, e) \in Seq(S) /\ IsInjective(Append(q, e))
         /\ Range(Append(q, e)) = Range(q) \cup {e}
<1> DEFINE r == Append(q, e)
<1>1. /\ Len(q) \in Nat /\ DOMAIN r = 1 .. Len(q) + 1 /\ DOMAIN q = 1 .. Len(q)
      /\ r[Len(q) + 1] = e /\ \A i \in 1 .. Len(q) : r[i] = q[i]
  OBVIOUS
<1> HIDE DEF r
<1>2. \A i \in 1 .. Len(q) : q[i] # e
  BY <1>1 DEF Range
<1>3. \A i, j \in 1 .. Len(q) : q[i] = q[j] => i = j
  BY <1>1 DEF IsInjective
<1>4. \A i \in 1 .. Len(q) + 1 : i \in 1 .. Len(q) \/ i = Len(q) + 1
  BY <1>1
<1>5. IsInjective(r)
  BY <1>1, <1>2, <1>3, <1>4, Zenon DEF IsInjective
<1>6. r \in Seq(S) /\ Range(r) = Range(q) \cup {e}
  BY AppendLast, SMTT(20) DEF r
<1> QED
  BY <1>5, <1>6 DEF r

\* Putting an element that is new at the front.
LEMMA PutFront ==
  ASSUME NEW S, NEW q \in Seq(S), NEW e \in S, IsInjective(q), e \notin Range(q)
  PROVE  /\ <<e>> \o q \in Seq(S) /\ IsInjective(<<e>> \o q)
         /\ Range(<<e>> \o q) = Range(q) \cup {e}
<1> DEFINE r == <<e>> \o q
<1>1. /\ r \in Seq(S) /\ Len(r) = Len(q) + 1 /\ Len(q) \in Nat
      /\ DOMAIN r = 1 .. Len(q) + 1 /\ DOMAIN q = 1 .. Len(q)
      /\ r[1] = e /\ \A i \in 2 .. Len(q) + 1 : r[i] = q[i - 1]
  OBVIOUS
<1>2. \A i \in 1 .. Len(q) : i + 1 \in 2 .. Len(q) + 1 /\ r[i + 1] = q[i]
  BY <1>1, SMTT(20)
<1> HIDE DEF r
<1>3. ASSUME NEW i \in DOMAIN r, NEW j \in DOMAIN r, r[i] = r[j]
      PROVE  i = j
  <2>1. CASE i = 1 \/ j = 1
    BY <1>1, <1>3, <2>1 DEF Range
  <2>2. CASE i # 1 /\ j # 1
    <3>1. /\ i \in 2 .. Len(q) + 1 /\ j \in 2 .. Len(q) + 1
          /\ i - 1 \in DOMAIN q /\ j - 1 \in DOMAIN q
      BY <1>1, <2>2
    <3>2. q[i - 1] = q[j - 1]
      BY <1>1, <1>3, <3>1
    <3>3. i - 1 = j - 1
      BY <3>1, <3>2 DEF IsInjective
    <3> QED
      BY <3>1, <3>3, <1>1, SMTT(20)
  <2> QED
    BY <2>1, <2>2
<1>4. Range(r) = Range(q) \cup {e}
  <2>1. ASSUME NEW x \in Range(r)
        PROVE  x \in Range(q) \cup {e}
    <3>1. PICK i \in 1 .. Len(q) + 1 : r[i] = x
      BY <1>1 DEF Range
    <3>2. CASE i = 1
      BY <1>1, <3>1, <3>2
    <3>3. CASE i # 1
      <4>1. i \in 2 .. Len(q) + 1 /\ i - 1 \in DOMAIN q
        BY <1>1, <3>3
      <4> QED
        BY <1>1, <3>1, <4>1 DEF Range
    <3> QED
      BY <3>2, <3>3
  <2>2. ASSUME NEW x \in Range(q)
        PROVE  x \in Range(r)
    <3>1. PICK i \in 1 .. Len(q) : q[i] = x
      BY <1>1 DEF Range
    <3>2. i + 1 \in DOMAIN r /\ r[i + 1] = x
      BY <1>1, <1>2, <3>1, SMTT(20)
    <3> QED
      BY <3>2, Zenon DEF Range
  <2>3. e \in Range(r)
    BY <1>1, SMTT(20) DEF Range
  <2> QED
    BY <2>1, <2>2, <2>3
<1> QED
  BY <1>1, <1>3, <1>4 DEF r, IsInjective

\* The elements of a concatenation.
LEMMA ConcatElements ==
  ASSUME NEW S, NEW q \in Seq(S), NEW r \in Seq(S)
  PROVE  /\ q \o r \in Seq(S)
         /\ Len(q \o r) = Len(q) + Len(r)
         /\ \A k \in 1 .. Len(q) + Len(r) :
              (q \o r)[k] = IF k <= Len(q) THEN q[k] ELSE r[k - Len(q)]
  OBVIOUS

\* RemoveAt shifts the elements after position i back by one.
LEMMA RemoveAtElements ==
  ASSUME NEW S, NEW q \in Seq(S), NEW i \in 1 .. Len(q)
  PROVE  /\ RemoveAt(q, i) \in Seq(S)
         /\ Len(RemoveAt(q, i)) = Len(q) - 1
         /\ \A j \in 1 .. Len(q) - 1 :
              RemoveAt(q, i)[j] = IF j < i THEN q[j] ELSE q[j + 1]
<1> DEFINE a == SubSeq(q, 1, i - 1)
           b == SubSeq(q, i + 1, Len(q))
<1>1. Len(q) \in Nat /\ \A k \in 1 .. Len(q) : q[k] \in S
  OBVIOUS
<1>2. /\ a \in Seq(S) /\ Len(a) = i - 1
      /\ \A k \in 1 .. i - 1 : a[k] = q[k]
  BY <1>1
<1>3. /\ b \in Seq(S) /\ Len(b) = Len(q) - i
      /\ \A k \in 1 .. Len(q) - i : b[k] = q[i + k]
  BY <1>1
<1> HIDE DEF a, b
<1>4. /\ a \o b \in Seq(S) /\ Len(a \o b) = Len(a) + Len(b)
      /\ \A k \in 1 .. Len(a) + Len(b) :
           (a \o b)[k] = IF k <= Len(a) THEN a[k] ELSE b[k - Len(a)]
  BY <1>2, <1>3, ConcatElements, Zenon
<1>5. RemoveAt(q, i) = a \o b
  BY DEF RemoveAt, a, b
<1>6. \A j \in i .. Len(q) - 1 : b[j - Len(a)] = q[j + 1]
  <2> SUFFICES ASSUME NEW j \in i .. Len(q) - 1
               PROVE  b[j - Len(a)] = q[j + 1]
    OBVIOUS
  <2>1. /\ j - Len(a) \in 1 .. Len(q) - i
        /\ i + (j - Len(a)) = j + 1
    BY <1>1, <1>2
  <2> QED
    BY <2>1, <1>3, Zenon
<1>7. Len(a) + Len(b) = Len(q) - 1
  BY <1>1, <1>2, <1>3, SMTT(20)
<1>8. ASSUME NEW j \in 1 .. Len(q) - 1
      PROVE  (a \o b)[j] = IF j < i THEN q[j] ELSE q[j + 1]
  <2>1. CASE j < i
    BY <2>1, <1>1, <1>2, <1>4, <1>7
  <2>2. CASE ~ (j < i)
    <3>1. j \in i .. Len(q) - 1 /\ ~ (j <= Len(a))
      BY <2>2, <1>1, <1>2
    <3> QED
      BY <3>1, <2>2, <1>4, <1>6, <1>7
  <2> QED
    BY <2>1, <2>2, Zenon
<1> QED
  BY <1>4, <1>5, <1>7, <1>8, Zenon

\* Taking an element away.
LEMMA RemoveSet ==
  ASSUME NEW S, NEW q \in Seq(S), IsInjective(q), NEW i \in DOMAIN q
  PROVE  /\ RemoveAt(q, i) \in Seq(S) /\ IsInjective(RemoveAt(q, i))
         /\ Range(RemoveAt(q, i)) = Range(q) \ {q[i]}
<1> DEFINE r == RemoveAt(q, i)
           n == Len(q)
<1>1. n \in Nat /\ DOMAIN q = 1 .. n /\ i \in 1 .. n
  BY ONLY q \in Seq(S), i \in DOMAIN q
<1>2. /\ r \in Seq(S) /\ Len(r) = n - 1
      /\ \A k \in 1 .. n - 1 : r[k] = IF k < i THEN q[k] ELSE q[k + 1]
  BY <1>1, RemoveAtElements, Zenon
<1> HIDE DEF r, n
<1>3. r \in Seq(S) /\ DOMAIN r = 1 .. n - 1
  BY <1>2
<1> DEFINE f(k) == IF k < i THEN k ELSE k + 1
           g(k) == IF k < i THEN k ELSE k - 1
<1>4. \A k \in 1 .. n - 1 : f(k) \in 1 .. n /\ f(k) # i /\ r[k] = q[f(k)]
  BY <1>1, <1>2
<1>5. \A k, l \in 1 .. n - 1 : f(k) = f(l) => k = l
  BY <1>1
<1>6. \A k \in 1 .. n : k # i => g(k) \in 1 .. n - 1 /\ f(g(k)) = k
  BY <1>1
<1> HIDE DEF f, g
<1>7. \A k, l \in 1 .. n : q[k] = q[l] => k = l
  BY <1>1 DEF IsInjective
<1>8. ASSUME NEW k \in 1 .. n - 1, NEW l \in 1 .. n - 1, r[k] = r[l]
       PROVE  k = l
  <2>1. f(k) = f(l)
    BY <1>4, <1>7, <1>8, Zenon
  <2> QED
    BY <2>1, <1>5, Zenon
<1>9. IsInjective(r)
  BY <1>3, <1>8, Zenon DEF IsInjective
<1>10. ASSUME NEW x
       PROVE  x \in Range(r) <=> x \in Range(q) /\ x # q[i]
  <2>1. x \in Range(r) <=> \E k \in 1 .. n - 1 : q[f(k)] = x
    BY <1>3, <1>4, Zenon DEF Range
  <2>2. x \in Range(q) <=> \E k \in 1 .. n : q[k] = x
    BY <1>1, Zenon DEF Range
  <2>3. ASSUME NEW k \in 1 .. n - 1, q[f(k)] = x
        PROVE  x \in Range(q) /\ x # q[i]
    BY <2>2, <2>3, <1>1, <1>4, <1>7, Zenon
  <2>4. ASSUME NEW k \in 1 .. n, q[k] = x, x # q[i]
        PROVE  x \in Range(r)
    BY <2>1, <2>4, <1>6, Zenon
  <2> QED
    BY <2>1, <2>2, <2>3, <2>4, Zenon
<1>11. Range(r) = Range(q) \ {q[i]}
  BY <1>10, Zenon
<1> QED
  BY <1>3, <1>9, <1>11 DEF r

\* Taking the last element away.
LEMMA FrontSet ==
  ASSUME NEW S, NEW q \in Seq(S), q # <<>>, \A i, j \in DOMAIN q : q[i] = q[j] => i = j
  PROVE  Range(Front(q)) = Range(q) \ {q[Len(q)]}
<1>1. /\ Len(q) \in Nat \ {0} /\ DOMAIN q = 1 .. Len(q)
      /\ DOMAIN Front(q) = 1 .. Len(q) - 1
      /\ \A i \in 1 .. Len(q) - 1 : Front(q)[i] = q[i]
  <2>1. /\ Len(q) \in Nat \ {0} /\ DOMAIN q = 1 .. Len(q)
        /\ Front(q) \in Seq(S) /\ Len(Front(q)) = Len(q) - 1
        /\ \A i \in 1 .. Len(q) - 1 : Front(q)[i] = q[i]
    BY FrontLast, Zenon
  <2> QED
    BY <2>1, SMTT(20)
<1>2. \A n \in Nat \ {0} : n \in 1 .. n /\ \A i \in 1 .. n : i \in 1 .. n - 1 <=> i # n
  OBVIOUS
<1>3. \A i \in 1 .. Len(q) - 1 : i \in 1 .. Len(q)
  BY <1>1, SMTT(20)
<1>4. ASSUME NEW x
      PROVE  x \in Range(Front(q)) <=> x \in Range(q) /\ x # q[Len(q)]
  <2>1. x \in Range(Front(q)) <=> \E i \in 1 .. Len(q) - 1 : q[i] = x
    BY <1>1, Zenon DEF Range
  <2>2. x \in Range(q) <=> \E i \in 1 .. Len(q) : q[i] = x
    BY <1>1, Zenon DEF Range
  <2>3. ASSUME NEW i \in 1 .. Len(q) - 1, q[i] = x
        PROVE  x # q[Len(q)]
    <3>1. i \in DOMAIN q /\ Len(q) \in DOMAIN q /\ i # Len(q)
      BY <1>1, <1>2, <1>3, Zenon
    <3> QED
      BY <2>3, <3>1, Zenon
  <2>4. ASSUME NEW i \in 1 .. Len(q), q[i] = x, x # q[Len(q)]
        PROVE  i \in 1 .. Len(q) - 1
    BY <1>1, <1>2, <2>4
  <2> QED
    BY <1>1, <1>3, <2>1, <2>2, <2>3, <2>4, Zenon
<1> QED
  BY <1>4, Zenon

----------------------------------------------------------------------------
(* Facts about the invariant. *)

\* The numbering of the blocks grows inwards.
LEMMA OrderGrows ==
  /\ Order \in [Block -> Nat]
  /\ \A p \in Inside : Order[p[1]] < Order[p[2]]
<1>1. Order \in Orders
  BY BufAssumption DEF Order
<1>2. Cardinality(Block) \in Nat
  BY BufAssumption, FS_CardinalityType
<1> QED
  BY <1>1, <1>2 DEF Orders

\* The last buffer of a task.
LEMMA MineIs ==
  ASSUME IInv, NEW t \in Task, held[t] # <<>>
  PROVE  /\ Len(held[t]) \in Nat \ {0} /\ DOMAIN held[t] = 1 .. Len(held[t])
         /\ Mine(t) = held[t][Len(held[t])] /\ Len(held[t]) \in DOMAIN held[t]
         /\ Mine(t) \in Buf /\ Mine(t) \in Range(list)
         /\ buf[Mine(t)] \in Buffer /\ buf[Mine(t)].block \in Block
<1>1. held[t] \in Seq(Buf) /\ buf \in [Buf -> Buffer]
  BY DEF IInv, TypeOK
<1>2. /\ Len(held[t]) \in Nat \ {0} /\ DOMAIN held[t] = 1 .. Len(held[t])
      /\ Mine(t) = held[t][Len(held[t])] /\ Mine(t) \in Buf
  BY <1>1, FrontLast, Zenon DEF Mine
<1>3. Len(held[t]) \in DOMAIN held[t]
  BY <1>2
<1>4. Mine(t) \in Range(list)
  BY <1>2, <1>3, Zenon DEF IInv, HeldOK
<1> QED
  BY <1>1, <1>2, <1>3, <1>4 DEF IInv, ListOK

\* A task has a buffer once.
LEMMA HeldOnce ==
  ASSUME IInv, NEW t \in Task
  PROVE  /\ DOMAIN held[t] = 1 .. Len(held[t]) /\ Len(held[t]) \in Nat
         /\ \A i \in DOMAIN held[t] : held[t][i] \in Buf /\ held[t][i] \in Range(list)
                                      /\ buf[held[t][i]].block \in Block
         /\ \A i, j \in DOMAIN held[t] : held[t][i] = held[t][j] => i = j
<1>1. DOMAIN held[t] = 1 .. Len(held[t]) /\ Len(held[t]) \in Nat
      /\ \A i \in DOMAIN held[t] : held[t][i] \in Buf
  <2>1. held[t] \in Seq(Buf)
    BY DEF IInv, TypeOK
  <2> QED
    BY <2>1
<1>2. \A i \in DOMAIN held[t] : held[t][i] \in Range(list) /\ buf[held[t][i]].block \in Block
  BY <1>1, Zenon DEF IInv, HeldOK, ListOK
<1>3. \A i, j \in DOMAIN held[t] :
         i < j => Order[buf[held[t][i]].block] < Order[buf[held[t][j]].block]
  BY Zenon DEF IInv, HeldOK
<1>4. ASSUME NEW i \in DOMAIN held[t], NEW j \in DOMAIN held[t], held[t][i] = held[t][j]
      PROVE  i = j
  <2>1. Order[buf[held[t][i]].block] \in Nat
    BY <1>2, OrderGrows
  <2>2. ~ (i < j) /\ ~ (j < i)
    BY <1>3, <1>4, <2>1
  <2> QED
    BY <2>2, <1>1
<1> QED
  BY <1>1, <1>2, <1>4

\* The task that is past the mutex of its buffer owns it.
LEMMA Owns ==
  ASSUME IInv, NEW t \in Task, held[t] # <<>>, at[t] \notin {"lock", "put"}
  PROVE  buf[Mine(t)].mutex = t
BY MineIs, Zenon DEF IInv, MutexOK, Locks

----------------------------------------------------------------------------
(* Steps of a task, or of the card for it, at the buffer it has. *)

\* What becomes of the data.
Filled(t, a, r) ==
  /\ buf[Mine(t)].valid => r.valid
  /\ r.valid <=> a \in {"run", "write", "written", "put"}
  /\ r.valid => r.data \in Data
  /\ (r.valid /\ a # "write") \/ a = "filled" => r.data = disk'[r.block]
  /\ disk' \in [Block -> Data] /\ \A c \in Block : c # r.block => disk'[c] = disk[c]
  /\ ~ buf[Mine(t)].valid => disk' = disk /\ a \notin {"write", "put"}
  /\ buf[Mine(t)].valid =>
       r.data = buf[Mine(t)].data \/ (buf[Mine(t)].mutex = t /\ a = "write")

\* Task t, or the card for it, makes its last buffer r and moves it on to a.
Local(t, a, r) ==
  /\ held[t] # <<>> /\ a \in Place \ {"lock"} /\ r \in Buffer
  /\ list' = list /\ held' = held
  /\ buf' = [buf EXCEPT ![Mine(t)] = r] /\ at' = [at EXCEPT ![t] = a]
  /\ r.block = buf[Mine(t)].block /\ r.ref = buf[Mine(t)].ref
  /\ buf[Mine(t)].mutex \in {t, Null} /\ r.mutex = IF a = "put" THEN Null ELSE t
  /\ Filled(t, a, r)
  /\ queue' \in Seq(Task) /\ IsInjective(queue')
  /\ \A u \in Task :
       u \in Range(queue') <=> IF u = t THEN a \in {"read", "write"} ELSE u \in Range(queue)

\* What such a step changes.
LEMMA LocalFacts ==
  ASSUME IInv, NEW t \in Task, NEW a, NEW r, Local(t, a, r)
  PROVE  /\ buf' \in [Buf -> Buffer] /\ at' \in [Task -> Place]
         /\ buf'[Mine(t)] = r /\ \A c \in Buf : c # Mine(t) => buf'[c] = buf[c]
         /\ \A c \in Buf : buf'[c].block = buf[c].block /\ buf'[c].ref = buf[c].ref
         /\ at'[t] = a /\ \A u \in Task : u # t => at'[u] = at[u]
         /\ \A u \in Task : Mine(u)' = Mine(u)
<1>1. Mine(t) \in Buf /\ buf \in [Buf -> Buffer] /\ at \in [Task -> Place]
  BY MineIs DEF IInv, TypeOK, Local
<1>2. /\ a \in Place /\ r \in Buffer
      /\ buf' = [buf EXCEPT ![Mine(t)] = r] /\ at' = [at EXCEPT ![t] = a]
      /\ r.block = buf[Mine(t)].block /\ r.ref = buf[Mine(t)].ref /\ held' = held
  BY DEF Local
<1>3. \A u \in Task : Mine(u)' = Mine(u)
  BY <1>2 DEF Mine
<1> HIDE DEF Mine, Buffer, Place
<1>4. buf' \in [Buf -> Buffer] /\ at' \in [Task -> Place]
  BY <1>1, <1>2
<1>5. buf'[Mine(t)] = r /\ \A c \in Buf : c # Mine(t) => buf'[c] = buf[c]
  BY <1>1, <1>2
<1>6. at'[t] = a /\ \A u \in Task : u # t => at'[u] = at[u]
  BY <1>1, <1>2
<1> QED
  BY <1>2, <1>3, <1>4, <1>5, <1>6, Zenon

\* Such a step keeps the blocks, the references and the mutexes in order.
LEMMA LocalMutex ==
  ASSUME IInv, NEW t \in Task, NEW a, NEW r, Local(t, a, r)
  PROVE  (ListOK /\ HeldOK /\ ReferencesAreCounted /\ OneBufferPerBlock /\ MutexOK)'
<1> DEFINE b == Mine(t)
<1>1. /\ buf'[b] = r /\ \A c \in Buf : c # b => buf'[c] = buf[c]
      /\ \A c \in Buf : buf'[c].block = buf[c].block /\ buf'[c].ref = buf[c].ref
      /\ at'[t] = a /\ \A u \in Task : u # t => at'[u] = at[u]
  BY LocalFacts, SMTT(20)
<1>2. /\ b \in Buf /\ b \in Range(list) /\ b = held[t][Len(held[t])]
      /\ Len(held[t]) \in DOMAIN held[t] /\ Len(held[t]) \in Nat
  BY MineIs, Zenon DEF Local
<1>3. /\ list' = list /\ held' = held /\ held[t] # <<>> /\ a \in Place \ {"lock"}
      /\ buf[b].mutex \in {t, Null} /\ r.mutex = IF a = "put" THEN Null ELSE t
  BY DEF Local
<1>4. /\ Range(list) \subseteq Buf
      /\ \A u \in Task : /\ DOMAIN held[u] = 1 .. Len(held[u]) /\ Len(held[u]) \in Nat
                         /\ \A i \in DOMAIN held[u] : held[u][i] \in Buf
                         /\ \A i, j \in DOMAIN held[u] : held[u][i] = held[u][j] => i = j
  <2>1. Range(list) \subseteq Buf
    <3>1. list \in Seq(Buf)
      BY DEF IInv, TypeOK
    <3> QED
      BY <3>1 DEF Range
  <2> QED
    BY <2>1, HeldOnce, Zenon
<1> HIDE DEF b
<1>5. ListOK'
  BY <1>1, <1>2, <1>3, <1>4, SMTT(20) DEF IInv, ListOK
<1>6. HeldOK'
  <2>1. \A u \in Task : at'[u] # "run" => held[u] # <<>>
    BY <1>1, <1>3 DEF IInv, HeldOK
  <2>2. \A u \in Task : \A i \in DOMAIN held[u] : buf'[held[u][i]].block = buf[held[u][i]].block
    BY <1>1, <1>4, Zenon
  <2> QED
    BY <2>1, <2>2, <1>3, SMTT(20) DEF IInv, HeldOK
<1>7. ReferencesAreCounted'
  <2>1. ASSUME NEW c \in Range(list)
        PROVE  buf'[c].ref = Cardinality({u \in Task : c \in Range(held[u])})
    <3>1. buf'[c].ref = buf[c].ref
      BY <1>1, <1>4
    <3> QED
      BY <3>1, Zenon DEF IInv, ReferencesAreCounted
  <2> QED
    BY <2>1, <1>3, Zenon DEF ReferencesAreCounted
<1>8. OneBufferPerBlock'
  BY <1>1, <1>3, <1>4 DEF IInv, OneBufferPerBlock
<1>9. ASSUME NEW u \in Task, NEW c \in Buf
      PROVE  buf'[c].mutex = u <=> Locks(u, c)'
  <2>1. buf[c].mutex = u <=> Locks(u, c)
    BY Zenon DEF IInv, MutexOK
  <2>2. CASE c # b
    <3>1. \A i \in DOMAIN held[t] : held[t][i] = c => i < Len(held[t])
      BY <1>2, <1>4, <2>2, SMTT(20)
    <3>2. Locks(u, c)' <=> Locks(u, c)
      <4>1. CASE u = t
        BY <3>1, <4>1, <1>3 DEF Locks
      <4>2. CASE u # t
        BY <4>2, <1>1, <1>3 DEF Locks
      <4> QED
        BY <4>1, <4>2
    <3> QED
      BY <2>1, <2>2, <3>2, <1>1, Zenon
  <2>3. CASE c = b /\ u = t
    <3>1. \A i \in DOMAIN held[t] : held[t][i] = c => i = Len(held[t])
      BY <1>2, <1>4, <2>3
    <3>2. Locks(t, c)' <=> a # "put"
      BY <2>3, <3>1, <1>1, <1>2, <1>3, SMTT(20) DEF Locks
    <3>3. t # Null
      BY BufAssumption
    <3> QED
      BY <2>3, <3>2, <3>3, <1>1, <1>3
  <2>4. CASE c = b /\ u # t
    <3>1. u # Null
      BY BufAssumption
    <3>2. ~ Locks(u, c)
      BY <2>1, <2>4, <3>1, <1>3
    <3>3. Locks(u, c)' <=> Locks(u, c)
      BY <2>4, <1>1, <1>3 DEF Locks
    <3> QED
      BY <2>4, <3>1, <3>2, <3>3, <1>1, <1>3
  <2> QED
    BY <2>2, <2>3, <2>4, Zenon
<1>10. MutexOK'
  BY <1>9, Zenon DEF MutexOK
<1> QED
  BY <1>5, <1>6, <1>7, <1>8, <1>10

\* Only task t has locked the buffer, or nobody has.
LEMMA LocalOthers ==
  ASSUME IInv, NEW t \in Task, NEW a, NEW r, Local(t, a, r),
         NEW u \in Task, u # t, NEW i \in DOMAIN held[u], held[u][i] = Mine(t)
  PROVE  ~ (i < Len(held[u])) /\ at[u] \in {"lock", "put"}
<1>1. buf[Mine(t)].mutex \in {t, Null} /\ Mine(t) \in Buf
  BY MineIs DEF Local
<1>2. u # Null
  BY BufAssumption
<1>3. ~ Locks(u, Mine(t))
  BY <1>1, <1>2 DEF IInv, MutexOK
<1> QED
  BY <1>3 DEF Locks

\* Such a step keeps what is valid.
LEMMA LocalValid ==
  ASSUME IInv, NEW t \in Task, NEW a, NEW r, Local(t, a, r)
  PROVE  (TypeOK /\ QueueOK /\ ValidOK)'
<1> DEFINE b == Mine(t)
<1>1. /\ buf' \in [Buf -> Buffer] /\ at' \in [Task -> Place]
      /\ buf'[b] = r /\ \A c \in Buf : c # b => buf'[c] = buf[c]
      /\ at'[t] = a /\ \A u \in Task : u # t => at'[u] = at[u]
  BY LocalFacts, SMTT(20)
<1>2. /\ b \in Buf /\ b = held[t][Len(held[t])] /\ Len(held[t]) \in DOMAIN held[t]
  BY MineIs, Zenon DEF Local
<1>3. /\ list' = list /\ held' = held /\ disk' \in [Block -> Data]
      /\ queue' \in Seq(Task) /\ IsInjective(queue')
      /\ buf[b].valid => r.valid
      /\ r.valid <=> a \in {"run", "write", "written", "put"}
      /\ \A u \in Task :
           u \in Range(queue') <=> IF u = t THEN a \in {"read", "write"} ELSE u \in Range(queue)
      /\ a \in Place \ {"lock"}
  BY DEF Local, Filled
<1>4. TypeOK'
  BY <1>1, <1>3, Zenon DEF IInv, TypeOK
<1>5. QueueOK'
  BY <1>1, <1>3 DEF IInv, QueueOK
<1>6. ASSUME NEW u \in Task, NEW i \in DOMAIN held[u]
      PROVE  IF i < Len(held[u]) THEN buf'[held[u][i]].valid
             ELSE /\ at'[u] \in {"run", "write", "written", "put"} => buf'[held[u][i]].valid
                  /\ at'[u] \in {"read", "filled"} => ~ buf'[held[u][i]].valid
  <2>1. IF i < Len(held[u]) THEN buf[held[u][i]].valid
        ELSE /\ at[u] \in {"run", "write", "written", "put"} => buf[held[u][i]].valid
             /\ at[u] \in {"read", "filled"} => ~ buf[held[u][i]].valid
    BY DEF IInv, ValidOK
  <2>2. /\ i \in 1 .. Len(held[u]) /\ Len(held[u]) \in Nat /\ held[u][i] \in Buf
        /\ u = t /\ held[u][i] = b => i = Len(held[u])
    BY HeldOnce, <1>2
  <2>3. CASE held[u][i] # b /\ u # t
    BY <2>1, <2>2, <2>3, <1>1
  <2>4. CASE held[u][i] # b /\ u = t
    <3>1. i < Len(held[u])
      BY <2>2, <2>4, <1>2
    <3> QED
      BY <2>1, <2>2, <2>4, <3>1, <1>1
  <2>5. CASE held[u][i] = b /\ u = t
    <3>1. i = Len(held[u]) /\ ~ (i < Len(held[u]))
      BY <2>2, <2>5
    <3> QED
      BY <2>5, <3>1, <1>1, <1>3
  <2>6. CASE held[u][i] = b /\ u # t
    <3>1. ~ (i < Len(held[u])) /\ at[u] \in {"lock", "put"}
      BY <2>6, LocalOthers
    <3> QED
      BY <2>1, <2>6, <3>1, <1>1, <1>3
  <2> QED
    BY <2>3, <2>4, <2>5, <2>6, Zenon
<1>7. ValidOK'
  BY <1>3, <1>6 DEF ValidOK
<1> QED
  BY <1>4, <1>5, <1>7

\* Such a step keeps the data of the buffers and of the disk together.
LEMMA LocalData ==
  ASSUME IInv, NEW t \in Task, NEW a, NEW r, Local(t, a, r)
  PROVE  DataOK'
<1> DEFINE b == Mine(t)
<1>1. /\ buf'[b] = r /\ \A c \in Buf : c # b => buf'[c] = buf[c]
      /\ at'[t] = a /\ \A u \in Task : u # t => at'[u] = at[u]
      /\ \A u \in Task : Mine(u)' = Mine(u)
  BY LocalFacts, SMTT(20)
<1>2. /\ b \in Buf /\ b \in Range(list) /\ buf[b].block \in Block
  BY MineIs DEF Local
<1>3. /\ list' = list /\ r.block = buf[b].block
      /\ \A c \in Block : c # r.block => disk'[c] = disk[c]
      /\ r.valid => r.data \in Data
      /\ (r.valid /\ a # "write") \/ a = "filled" => r.data = disk'[r.block]
  BY DEF Local, Filled
<1>4. ASSUME NEW c \in Range(list), c # b
      PROVE  buf'[c] = buf[c] /\ disk'[buf[c].block] = disk[buf[c].block]
  <2>1. c \in Buf
    BY SMTT(20) DEF IInv, TypeOK, Range
  <2>2. buf[c].block \in Block /\ buf[c].block # buf[b].block
    BY <2>1, <1>2, <1>4 DEF IInv, ListOK, OneBufferPerBlock
  <2> QED
    BY <2>1, <2>2, <1>1, <1>3, <1>4
<1>5. ASSUME NEW c \in Range(list'), buf'[c].valid,
             ~ (\E u \in Task : at'[u] = "write" /\ Mine(u)' = c)
      PROVE  buf'[c].data = disk'[buf'[c].block]
  <2>1. CASE c = b
    BY <2>1, <1>1, <1>3, <1>5
  <2>2. CASE c # b
    <3>1. ~ (\E u \in Task : at[u] = "write" /\ Mine(u) = c)
      BY <2>2, <1>1, <1>5
    <3>2. c \in Range(list) /\ buf'[c] = buf[c] /\ disk'[buf[c].block] = disk[buf[c].block]
      BY <2>2, <1>3, <1>4, <1>5
    <3> QED
      BY <3>1, <3>2, <1>5 DEF IInv, DataOK
  <2> QED
    BY <2>1, <2>2
<1>6. ASSUME NEW u \in Task, at'[u] = "filled"
      PROVE  buf'[Mine(u)'].data = disk'[buf'[Mine(u)'].block]
  <2>1. CASE u = t
    BY <2>1, <1>1, <1>3, <1>6
  <2>2. CASE u # t
    <3>1. at[u] = "filled" /\ held[u] # <<>>
      BY <2>2, <1>1, <1>6 DEF IInv, HeldOK
    <3>2. /\ Mine(u) \in Range(list) /\ Mine(u) = held[u][Len(held[u])]
          /\ Len(held[u]) \in DOMAIN held[u]
      BY <3>1, MineIs, Zenon
    <3>3. Mine(u) # b
      BY <2>2, <3>1, <3>2, LocalOthers
    <3> QED
      BY <3>1, <3>2, <3>3, <1>1, <1>4, <1>6, SMTT(20) DEF IInv, DataOK
  <2> QED
    BY <2>1, <2>2
<1>7. ASSUME NEW c \in Range(list'), buf'[c].valid
      PROVE  buf'[c].data \in Data
  <2>1. CASE c = b
    BY <2>1, <1>1, <1>3, <1>7
  <2>2. CASE c # b
    BY <2>2, <1>3, <1>4, <1>7 DEF IInv, DataOK
  <2> QED
    BY <2>1, <2>2
<1> QED
  BY <1>5, <1>6, <1>7 DEF DataOK

\* Such a step keeps the invariant, if the card stays in step.
LEMMA LocalStep ==
  ASSUME IInv, NEW t \in Task, NEW a, NEW r, Local(t, a, r), CardIsInStep'
  PROVE  IInv'
BY LocalMutex, LocalValid, LocalData, Zenon DEF IInv

\* The card stays in step when the queue does not change.
LEMMA CardStays ==
  ASSUME IInv, NEW t \in Task, NEW a, NEW r, Local(t, a, r),
         queue' = queue, transfer' = transfer, t \notin Range(queue)
  PROVE  CardIsInStep'
<1>1. CASE queue = <<>>
  BY <1>1 DEF IInv, CardIsInStep
<1>2. CASE queue # <<>>
  <2>1. Head(queue) \in Task /\ Head(queue) \in Range(queue)
    BY <1>2, HeadTail DEF IInv, TypeOK
  <2>2. held[Head(queue)] # <<>>
    BY <2>1 DEF IInv, QueueOK, HeldOK
  <2>3. /\ at'[Head(queue)] = at[Head(queue)]
        /\ buf'[Mine(Head(queue))].block = buf[Mine(Head(queue))].block
    BY <2>1, <2>2, LocalFacts, MineIs
  <2>4. transfer = [type |-> at[Head(queue)], block |-> buf[Mine(Head(queue))].block]
    BY <1>2 DEF IInv, CardIsInStep
  <2>5. Mine(Head(queue))' = Mine(Head(queue))
    BY <2>3 DEF Mine, Local
  <2> QED
    BY <1>2, <2>3, <2>4, <2>5 DEF CardIsInStep
<1> QED
  BY <1>1, <1>2

\* The card stays in step when a request is added.
LEMMA CardAdded ==
  ASSUME IInv, NEW t \in Task, NEW a, NEW r, Local(t, a, r),
         queue' = Append(queue, t), transfer' = Start(t, a)
  PROVE  CardIsInStep'
<1>1. /\ at'[t] = a /\ Mine(t)' = Mine(t) /\ queue \in Seq(Task)
      /\ \A u \in Task : Mine(u)' = Mine(u) /\ (u # t => at'[u] = at[u])
      /\ \A c \in Buf : buf'[c].block = buf[c].block
  BY LocalFacts DEF IInv, TypeOK
<1>2. held' = held
  BY DEF Local
<1>3. Append(queue, t) # <<>>
  BY <1>1
<1>4. CASE queue = <<>>
  <2>1. Head(queue') = t
    BY <1>4
  <2> QED
    BY <1>1, <1>2, <1>3, <1>4, <2>1 DEF CardIsInStep, Start, sd_start_transfer, Mine
<1>5. CASE queue # <<>>
  <2>1. Head(queue) \in Task /\ Head(queue) \in Range(queue)
    BY <1>5, HeadTail DEF IInv, TypeOK
  <2>2. held[Head(queue)] # <<>>
    BY <2>1 DEF IInv, QueueOK, HeldOK
  <2>3. Head(queue') = Head(queue)
    BY <1>1, <1>5
  <2>4. Head(queue) # t
    <3>1. IsInjective(queue') /\ queue' \in Seq(Task)
      BY DEF Local
    <3>2. /\ Len(queue) \in Nat \ {0} /\ DOMAIN queue' = 1 .. Len(queue) + 1
          /\ queue'[1] = Head(queue) /\ queue'[Len(queue) + 1] = t
      BY <1>1, <1>5
    <3>3. 1 # Len(queue) + 1 /\ 1 \in DOMAIN queue' /\ Len(queue) + 1 \in DOMAIN queue'
      BY <3>2
    <3> QED
      BY <3>1, <3>2, <3>3 DEF IsInjective
  <2>5. /\ at'[Head(queue)] = at[Head(queue)]
        /\ buf'[Mine(Head(queue))].block = buf[Mine(Head(queue))].block
    BY <1>1, <2>1, <2>2, <2>4, MineIs
  <2>6. transfer' = [type |-> at[Head(queue)], block |-> buf[Mine(Head(queue))].block]
    BY <1>5 DEF IInv, CardIsInStep, Start
  <2>7. Mine(Head(queue))' = Mine(Head(queue))
    BY <1>2, <2>3 DEF Mine
  <2> QED
    BY <1>3, <2>3, <2>5, <2>6, <2>7 DEF CardIsInStep
<1> QED
  BY <1>4, <1>5

\* A buffer that nobody else writes has the data of its block.
LEMMA Clean ==
  ASSUME IInv, NEW t \in Task, held[t] # <<>>, at[t] # "write",
         buf[Mine(t)].mutex \in {t, Null}, buf[Mine(t)].valid
  PROVE  buf[Mine(t)].data = disk[buf[Mine(t)].block]
<1>1. Mine(t) \in Range(list) /\ Mine(t) \in Buf
  BY MineIs
<1>2. ASSUME NEW u \in Task, at[u] = "write", Mine(u) = Mine(t)
      PROVE  FALSE
  <2>1. held[u] # <<>>
    BY <1>2 DEF IInv, HeldOK
  <2>2. buf[Mine(u)].mutex = u
    BY <1>2, <2>1, Owns
  <2> QED
    BY <1>2, <2>2, BufAssumption
<1> QED
  BY <1>1, <1>2 DEF IInv, DataOK

\* The record of the last buffer of a task, and how EXCEPT changes it.
LEMMA Changed ==
  ASSUME IInv, NEW t \in Task, held[t] # <<>>
  PROVE  /\ \A m \in Task \cup {Null} :
              LET r == [buf[Mine(t)] EXCEPT !.mutex = m]
              IN /\ [buf EXCEPT ![Mine(t)].mutex = m] = [buf EXCEPT ![Mine(t)] = r]
                 /\ r \in Buffer /\ r.block = buf[Mine(t)].block /\ r.ref = buf[Mine(t)].ref
                 /\ r.valid = buf[Mine(t)].valid /\ r.data = buf[Mine(t)].data /\ r.mutex = m
         /\ LET r == [buf[Mine(t)] EXCEPT !.valid = TRUE]
            IN /\ [buf EXCEPT ![Mine(t)].valid = TRUE] = [buf EXCEPT ![Mine(t)] = r]
               /\ r \in Buffer /\ r.block = buf[Mine(t)].block /\ r.ref = buf[Mine(t)].ref
               /\ r.valid = TRUE /\ r.data = buf[Mine(t)].data /\ r.mutex = buf[Mine(t)].mutex
         /\ \A d \in Data :
              LET r == [buf[Mine(t)] EXCEPT !.data = d]
              IN /\ [buf EXCEPT ![Mine(t)].data = d] = [buf EXCEPT ![Mine(t)] = r]
                 /\ r \in Buffer /\ r.block = buf[Mine(t)].block /\ r.ref = buf[Mine(t)].ref
                 /\ r.valid = buf[Mine(t)].valid /\ r.data = d /\ r.mutex = buf[Mine(t)].mutex
         /\ \A d \in Data :
              LET r == [buf[Mine(t)] EXCEPT !.data = d, !.dirty = TRUE]
              IN /\ [buf EXCEPT ![Mine(t)].data = d, ![Mine(t)].dirty = TRUE]
                      = [buf EXCEPT ![Mine(t)] = r]
                 /\ r \in Buffer /\ r.block = buf[Mine(t)].block /\ r.ref = buf[Mine(t)].ref
                 /\ r.valid = buf[Mine(t)].valid /\ r.data = d /\ r.mutex = buf[Mine(t)].mutex
         /\ LET r == [buf[Mine(t)] EXCEPT !.dirty = FALSE, !.mutex = Null]
            IN /\ [buf EXCEPT ![Mine(t)].dirty = FALSE, ![Mine(t)].mutex = Null]
                    = [buf EXCEPT ![Mine(t)] = r]
               /\ r \in Buffer /\ r.block = buf[Mine(t)].block /\ r.ref = buf[Mine(t)].ref
               /\ r.valid = buf[Mine(t)].valid /\ r.data = buf[Mine(t)].data /\ r.mutex = Null
<1>1. Mine(t) \in Buf /\ buf[Mine(t)] \in Buffer /\ buf \in [Buf -> Buffer]
  BY MineIs DEF IInv, TypeOK
<1> HIDE DEF Mine
<1> QED
  BY <1>1, Zenon DEF Buffer

\* buf_read takes the mutex, and asks for the block unless it is valid.
LEMMA ReadIsLocal ==
  ASSUME IInv, NEW t \in Task, buf_read(t)
  PROVE  /\ Local(t, IF buf[Mine(t)].valid THEN "run" ELSE "read",
                  [buf[Mine(t)] EXCEPT !.mutex = t])
         /\ CardIsInStep'
<1> DEFINE r == [buf[Mine(t)] EXCEPT !.mutex = t]
           a == IF buf[Mine(t)].valid THEN "run" ELSE "read"
<1>1. at[t] = "lock" /\ held[t] # <<>> /\ t \notin Range(queue)
  BY DEF buf_read, IInv, HeldOK, QueueOK
<1>2. /\ [buf EXCEPT ![Mine(t)].mutex = t] = [buf EXCEPT ![Mine(t)] = r]
      /\ r \in Buffer /\ r.block = buf[Mine(t)].block /\ r.ref = buf[Mine(t)].ref
      /\ r.valid = buf[Mine(t)].valid /\ r.data = buf[Mine(t)].data /\ r.mutex = t
  BY <1>1, Changed, Zenon
<1>3. /\ queue \in Seq(Task) /\ IsInjective(queue) /\ disk \in [Block -> Data]
      /\ buf[Mine(t)].valid \in BOOLEAN /\ (buf[Mine(t)].valid => buf[Mine(t)].data \in Data)
  BY <1>1, MineIs DEF IInv, TypeOK, DataOK, Buffer
<1>4. /\ buf[Mine(t)].mutex = Null /\ list' = list /\ held' = held /\ disk' = disk
      /\ buf' = [buf EXCEPT ![Mine(t)] = r] /\ at' = [at EXCEPT ![t] = a]
      /\ IF buf[Mine(t)].valid THEN queue' = queue /\ transfer' = transfer
         ELSE queue' = Append(queue, t) /\ transfer' = Start(t, a)
  BY <1>2 DEF buf_read, Locked, sd_request
<1>5. buf[Mine(t)].valid => r.data = disk[r.block]
  BY <1>1, <1>2, <1>4, Clean
<1> HIDE DEF r
<1>6. /\ queue' \in Seq(Task) /\ IsInjective(queue')
      /\ \A u \in Task :
           u \in Range(queue') <=> IF u = t THEN a \in {"read", "write"} ELSE u \in Range(queue)
  <2>1. CASE buf[Mine(t)].valid
    BY <2>1, <1>1, <1>3, <1>4
  <2>2. CASE ~ buf[Mine(t)].valid
    <3>1. queue' = Append(queue, t) /\ a = "read"
      BY <2>2, <1>4
    <3>2. /\ Append(queue, t) \in Seq(Task) /\ IsInjective(Append(queue, t))
          /\ Range(Append(queue, t)) = Range(queue) \cup {t}
      BY <1>1, <1>3, AppendNew, Zenon
    <3> QED
      BY <3>1, <3>2
  <2> QED
    BY <2>1, <2>2
<1>7. a \in Place \ {"lock"} /\ r.mutex = IF a = "put" THEN Null ELSE t
  BY <1>2 DEF Place
<1>8. Filled(t, a, r)
  BY <1>2, <1>3, <1>4, <1>5 DEF Filled
<1> HIDE DEF a
<1>9. Local(t, a, r)
  BY <1>1, <1>2, <1>4, <1>6, <1>7, <1>8 DEF Local
<1>10. CardIsInStep'
  BY <1>1, <1>4, <1>9, CardStays, CardAdded
<1> QED
  BY <1>9, <1>10 DEF r, a

\* buf_read is done: the buffer is valid.
LEMMA DoneIsLocal ==
  ASSUME IInv, NEW t \in Task, buf_read_done(t)
  PROVE  /\ Local(t, "run", [buf[Mine(t)] EXCEPT !.valid = TRUE])
         /\ CardIsInStep'
<1> DEFINE r == [buf[Mine(t)] EXCEPT !.valid = TRUE]
<1>1. at[t] = "filled" /\ held[t] # <<>> /\ t \notin Range(queue)
  BY DEF buf_read_done, IInv, HeldOK, QueueOK
<1>2. /\ [buf EXCEPT ![Mine(t)].valid = TRUE] = [buf EXCEPT ![Mine(t)] = r]
      /\ r \in Buffer /\ r.block = buf[Mine(t)].block /\ r.ref = buf[Mine(t)].ref
      /\ r.valid = TRUE /\ r.data = buf[Mine(t)].data /\ r.mutex = buf[Mine(t)].mutex
  BY <1>1, Changed, Zenon
<1>3. /\ queue \in Seq(Task) /\ IsInjective(queue) /\ disk \in [Block -> Data]
      /\ buf[Mine(t)].mutex = t /\ buf[Mine(t)].block \in Block
      /\ buf[Mine(t)].data = disk[buf[Mine(t)].block]
  BY <1>1, Owns, MineIs DEF IInv, TypeOK, DataOK
<1>4. /\ buf' = [buf EXCEPT ![Mine(t)] = r] /\ at' = [at EXCEPT ![t] = "run"]
      /\ UNCHANGED <<list, held, queue, transfer, disk>>
  BY <1>2 DEF buf_read_done
<1> HIDE DEF r
<1>5. Filled(t, "run", r)
  BY <1>2, <1>3, <1>4 DEF Filled
<1>6. Local(t, "run", r)
  BY <1>1, <1>2, <1>3, <1>4, <1>5 DEF Local, Place
<1>7. CardIsInStep'
  BY <1>1, <1>4, <1>6, CardStays
<1> QED
  BY <1>6, <1>7 DEF r

\* buf_write asks for the block to be written.
LEMMA WriteIsLocal ==
  ASSUME IInv, NEW t \in Task, NEW d \in Data, buf_write(t, d)
  PROVE  /\ Local(t, "write", [buf[Mine(t)] EXCEPT !.data = d, !.dirty = TRUE])
         /\ CardIsInStep'
<1> DEFINE r == [buf[Mine(t)] EXCEPT !.data = d, !.dirty = TRUE]
<1>1. at[t] = "run" /\ held[t] # <<>> /\ t \notin Range(queue)
  BY DEF buf_write, IInv, QueueOK
<1>2. /\ [buf EXCEPT ![Mine(t)].data = d, ![Mine(t)].dirty = TRUE]
           = [buf EXCEPT ![Mine(t)] = r]
      /\ r \in Buffer /\ r.block = buf[Mine(t)].block /\ r.ref = buf[Mine(t)].ref
      /\ r.valid = buf[Mine(t)].valid /\ r.data = d /\ r.mutex = buf[Mine(t)].mutex
  BY <1>1, Changed, Zenon
<1>3. /\ queue \in Seq(Task) /\ IsInjective(queue) /\ disk \in [Block -> Data]
      /\ buf[Mine(t)].mutex = t
  BY <1>1, Owns, Zenon DEF IInv, TypeOK
<1>4. buf[Mine(t)].valid
  BY <1>1, MineIs DEF IInv, ValidOK
<1>5. /\ buf' = [buf EXCEPT ![Mine(t)] = r] /\ at' = [at EXCEPT ![t] = "write"]
      /\ queue' = Append(queue, t) /\ transfer' = Start(t, "write")
      /\ UNCHANGED <<list, held, disk>>
  BY <1>2 DEF buf_write, sd_request
<1> HIDE DEF r
<1>6. /\ Append(queue, t) \in Seq(Task) /\ IsInjective(Append(queue, t))
      /\ Range(Append(queue, t)) = Range(queue) \cup {t}
  <2>1. queue \in Seq(Task) /\ IsInjective(queue) /\ t \notin Range(queue)
    BY <1>1, <1>3
  <2> QED
    BY <2>1, AppendNew, Zenon
<1>7. Filled(t, "write", r)
  BY <1>2, <1>3, <1>4, <1>5 DEF Filled
<1>8. Local(t, "write", r)
  BY <1>1, <1>2, <1>3, <1>5, <1>6, <1>7 DEF Local, Place
<1>9. CardIsInStep'
  BY <1>5, <1>8, CardAdded
<1> QED
  BY <1>8, <1>9 DEF r

\* buf_release unlocks the buffer, at once or when it has been written.
LEMMA UnlockedIsLocal ==
  ASSUME IInv, NEW t \in Task, buf_written(t) \/ buf_release(t)
  PROVE  /\ Local(t, "put", [buf[Mine(t)] EXCEPT !.dirty = FALSE, !.mutex = Null])
         /\ CardIsInStep'
<1> DEFINE r == [buf[Mine(t)] EXCEPT !.dirty = FALSE, !.mutex = Null]
<1>1. at[t] \in {"run", "written"} /\ held[t] # <<>> /\ t \notin Range(queue) /\ Unlocked(t)
  BY DEF buf_written, buf_release, IInv, HeldOK, QueueOK
<1>2. /\ [buf EXCEPT ![Mine(t)].dirty = FALSE, ![Mine(t)].mutex = Null]
           = [buf EXCEPT ![Mine(t)] = r]
      /\ r \in Buffer /\ r.block = buf[Mine(t)].block /\ r.ref = buf[Mine(t)].ref
      /\ r.valid = buf[Mine(t)].valid /\ r.data = buf[Mine(t)].data /\ r.mutex = Null
  BY <1>1, Changed, Zenon
<1>3. /\ queue \in Seq(Task) /\ IsInjective(queue) /\ disk \in [Block -> Data]
      /\ buf[Mine(t)].mutex = t
  BY <1>1, Owns DEF IInv, TypeOK
<1>4. buf[Mine(t)].valid /\ buf[Mine(t)].data \in Data
  BY <1>1, MineIs DEF IInv, ValidOK, DataOK
<1>5. buf[Mine(t)].data = disk[buf[Mine(t)].block]
  BY <1>1, <1>3, <1>4, Clean
<1>6. /\ buf' = [buf EXCEPT ![Mine(t)] = r] /\ at' = [at EXCEPT ![t] = "put"]
      /\ UNCHANGED <<list, held, queue, transfer, disk>>
  BY <1>1, <1>2 DEF Unlocked
<1> HIDE DEF r
<1>7. Filled(t, "put", r)
  BY <1>2, <1>3, <1>4, <1>5, <1>6 DEF Filled
<1>8. Local(t, "put", r)
  BY <1>1, <1>2, <1>3, <1>6, <1>7 DEF Local, Place
<1>9. CardIsInStep'
  BY <1>1, <1>6, <1>8, CardStays
<1> QED
  BY <1>8, <1>9 DEF r

\* Where the first request is and what the card does for it.
LEMMA First ==
  ASSUME IInv, transfer # NoTransfer
  PROVE  /\ queue # <<>> /\ Head(queue) \in Task /\ held[Head(queue)] # <<>>
         /\ at[Head(queue)] \in {"read", "write"}
         /\ transfer.block = buf[Mine(Head(queue))].block
         /\ Tail(queue) \in Seq(Task) /\ IsInjective(Tail(queue))
         /\ Range(Tail(queue)) = Range(queue) \ {Head(queue)}
<1>1. queue # <<>> /\ queue \in Seq(Task) /\ IsInjective(queue)
  BY DEF IInv, CardIsInStep, TypeOK
<1>2. /\ Head(queue) \in Task /\ Head(queue) \in Range(queue)
      /\ Tail(queue) \in Seq(Task) /\ IsInjective(Tail(queue))
      /\ Range(Tail(queue)) = Range(queue) \ {Head(queue)}
  BY <1>1, HeadTail, Zenon
<1>3. at[Head(queue)] \in {"read", "write"} /\ held[Head(queue)] # <<>>
  BY <1>2 DEF IInv, QueueOK, HeldOK
<1>4. transfer = [type |-> at[Head(queue)], block |-> buf[Mine(Head(queue))].block]
  BY <1>1 DEF IInv, CardIsInStep
<1> QED
  BY <1>1, <1>2, <1>3, <1>4

\* The interrupt task completes the first request.
LEMMA IrqIsLocal ==
  ASSUME IInv, sd_irq_task
  PROVE  LET t == Head(queue)
         IN /\ t \in Task /\ at[t] \in {"read", "write"}
            /\ IF at[t] = "write" THEN Local(t, "written", buf[Mine(t)])
               ELSE Local(t, "filled", [buf[Mine(t)] EXCEPT !.data = disk[transfer.block]])
            /\ CardIsInStep'
<1> DEFINE t == Head(queue)
           b == Mine(t)
           r == [buf[b] EXCEPT !.data = disk[transfer.block]]
<1>1. /\ queue # <<>> /\ t \in Task /\ held[t] # <<>> /\ at[t] \in {"read", "write"}
      /\ transfer.block = buf[b].block
      /\ Tail(queue) \in Seq(Task) /\ IsInjective(Tail(queue))
      /\ Range(Tail(queue)) = Range(queue) \ {t}
  BY First DEF sd_irq_task
<1>2. /\ queue' = Tail(queue) /\ list' = list /\ held' = held
      /\ IF at[t] = "write"
         THEN disk' = [disk EXCEPT ![transfer.block] = buf[b].data] /\ buf' = buf
         ELSE buf' = [buf EXCEPT ![b].data = disk[transfer.block]] /\ disk' = disk
      /\ transfer' = IF Tail(queue) = <<>> THEN NoTransfer
                     ELSE [type |-> at[Head(Tail(queue))],
                           block |-> buf[Mine(Head(Tail(queue)))].block]
      /\ at' = [at EXCEPT ![t] = IF at[t] = "write" THEN "written" ELSE "filled"]
  BY DEF sd_irq_task, buf_request_wakeup
<1>3. /\ b \in Buf /\ buf[b] \in Buffer /\ buf[b].block \in Block /\ buf[b].mutex = t
      /\ buf \in [Buf -> Buffer] /\ disk \in [Block -> Data]
  BY <1>1, MineIs, Owns DEF IInv, TypeOK
<1>4. IF at[t] = "write" THEN buf[b].valid ELSE ~ buf[b].valid
  BY <1>1, MineIs, SMTT(20) DEF IInv, ValidOK
<1>5. \A u \in Task : u \in Range(queue') <=> IF u = t THEN FALSE ELSE u \in Range(queue)
  BY <1>1, <1>2
<1>6. IF at[t] = "write" THEN Local(t, "written", buf[b]) ELSE Local(t, "filled", r)
  <2>6. CASE at[t] = "write"
    <3>1. buf' = [buf EXCEPT ![b] = buf[b]]
      BY <1>2, <1>3, <2>6
    <3>2. buf[b].data \in Data
      BY <1>1, <1>4, <2>6, MineIs DEF IInv, DataOK
    <3>3. /\ disk' \in [Block -> Data] /\ disk'[buf[b].block] = buf[b].data
          /\ \A c \in Block : c # buf[b].block => disk'[c] = disk[c]
      BY <1>1, <1>2, <1>3, <2>6, <3>2
    <3>4. Filled(t, "written", buf[b])
      BY <1>4, <2>6, <3>2, <3>3 DEF Filled
    <3>5. Local(t, "written", buf[b])
      BY <1>1, <1>2, <1>3, <1>5, <2>6, <3>1, <3>4 DEF Local, Place
    <3> QED
      BY <2>6, <3>5
  <2>7. CASE at[t] # "write"
    <3>1. disk[transfer.block] \in Data
      BY <1>1, <1>3
    <3>2. /\ [buf EXCEPT ![b].data = disk[transfer.block]] = [buf EXCEPT ![b] = r]
          /\ r \in Buffer /\ r.block = buf[b].block /\ r.ref = buf[b].ref
          /\ r.valid = buf[b].valid /\ r.data = disk[transfer.block] /\ r.mutex = buf[b].mutex
      BY <1>1, <3>1, Changed, Zenon
    <3>3. at' = [at EXCEPT ![t] = "filled"] /\ buf' = [buf EXCEPT ![b] = r] /\ disk' = disk
      BY <1>2, <2>7, <3>2
    <3> HIDE DEF r
    <3>4. Filled(t, "filled", r)
      BY <1>1, <1>3, <1>4, <2>7, <3>2, <3>3 DEF Filled
    <3>5. Local(t, "filled", r)
      BY <1>1, <1>2, <1>3, <1>5, <3>2, <3>3, <3>4, Zenon DEF Local, Place
    <3> QED
      BY <2>7, <3>5
  <2> QED
    BY <2>6, <2>7
<1>8. \E a, q : Local(t, a, q)
  BY <1>6
<1>9. CardIsInStep'
  <2>1. CASE Tail(queue) = <<>>
    BY <2>1, <1>2 DEF CardIsInStep
  <2>2. CASE Tail(queue) # <<>>
    <3> DEFINE n == Head(Tail(queue))
    <3>1. n \in Task /\ n \in Range(queue) /\ n # t
      BY <2>2, <1>1, HeadTail, Zenon
    <3>2. held[n] # <<>>
      BY <3>1, Zenon DEF IInv, QueueOK, HeldOK
    <3>3. at'[n] = at[n] /\ buf'[Mine(n)].block = buf[Mine(n)].block
      BY <1>1, <1>8, <3>1, <3>2, MineIs, LocalFacts, Zenon
    <3>4. Mine(Head(queue))' = Mine(n)
      BY <1>2 DEF Mine
    <3> QED
      BY <2>2, <3>3, <3>4, <1>2 DEF CardIsInStep
  <2> QED
    BY <2>1, <2>2
<1> QED
  BY <1>1, <1>6, <1>9

----------------------------------------------------------------------------
(* Getting a reference. *)

\* Task t takes buffer b, which is the one for the block or becomes it.
Taking(t, b, block, got) ==
  /\ at[t] = "run" /\ (held[t] # <<>> => <<buf[Mine(t)].block, block>> \in Inside)
  /\ block \in Block /\ b \in Buf /\ got \in Buffer
  /\ got.block = block /\ got.mutex = buf[b].mutex /\ got.ref = Cardinality(Holders(b))
  /\ list' \in Seq(Buf) /\ IsInjective(list') /\ Range(list') = Range(list) \cup {b}
  /\ Found(block) \subseteq {b}
  /\ \/ got = buf[b] /\ b \in Range(list)
     \/ Holders(b) = {} /\ ~ got.valid
  /\ Take(t, b, got)
  /\ UNCHANGED <<queue, transfer, disk>>

\* What that changes.
LEMMA TakingFacts ==
  ASSUME IInv, NEW t \in Task, NEW b, NEW block, NEW got, Taking(t, b, block, got)
  PROVE  /\ buf' \in [Buf -> Buffer] /\ at' \in [Task -> Place] /\ held' \in [Task -> Seq(Buf)]
         /\ \A c \in Buf : c # b => buf'[c] = buf[c]
         /\ buf'[b].block = block /\ buf'[b].ref = got.ref + 1 /\ buf'[b].valid = got.valid
         /\ buf'[b].data = got.data /\ buf'[b].mutex = buf[b].mutex
         /\ at'[t] = "lock" /\ \A u \in Task : u # t => at'[u] = at[u] /\ held'[u] = held[u]
         /\ held'[t] = Append(held[t], b)
         /\ \A u \in Task : \A i \in DOMAIN held[u] :
              /\ buf'[held[u][i]].block = buf[held[u][i]].block
              /\ buf'[held[u][i]].valid = buf[held[u][i]].valid
              /\ buf'[held[u][i]].data = buf[held[u][i]].data
<1>1. /\ buf \in [Buf -> Buffer] /\ at \in [Task -> Place] /\ held \in [Task -> Seq(Buf)]
      /\ b \in Buf /\ got \in Buffer /\ "lock" \in Place
  BY DEF IInv, TypeOK, Taking, Place
<1>2. /\ buf' = [buf EXCEPT ![b] = [got EXCEPT !.ref = @ + 1]]
      /\ held' = [held EXCEPT ![t] = Append(@, b)]
      /\ at' = [at EXCEPT ![t] = "lock"]
      /\ got.block = block /\ got.mutex = buf[b].mutex
  BY DEF Taking, Take
<1> DEFINE r == [got EXCEPT !.ref = @ + 1]
<1>3. /\ r \in Buffer /\ r.block = got.block /\ r.ref = got.ref + 1 /\ r.valid = got.valid
      /\ r.data = got.data /\ r.mutex = got.mutex
  <2>1. got.ref + 1 \in Nat
    BY <1>1, SMTT(20) DEF Buffer
  <2> QED
    BY <2>1, <1>1, Zenon DEF Buffer
<1>4. buf' = [buf EXCEPT ![b] = r]
  BY <1>2
<1> HIDE DEF r
<1>5. /\ buf' \in [Buf -> Buffer] /\ buf'[b] = r /\ \A c \in Buf : c # b => buf'[c] = buf[c]
  BY <1>1, <1>3, <1>4
<1>6. /\ at' \in [Task -> Place] /\ at'[t] = "lock"
      /\ \A u \in Task : u # t => at'[u] = at[u] /\ held'[u] = held[u]
      /\ held'[t] = Append(held[t], b)
  BY <1>1, <1>2
<1>7. held' \in [Task -> Seq(Buf)]
  BY <1>1, <1>2, SMTT(20)
<1>8. ASSUME NEW u \in Task, NEW i \in DOMAIN held[u]
      PROVE  /\ buf'[held[u][i]].block = buf[held[u][i]].block
             /\ buf'[held[u][i]].valid = buf[held[u][i]].valid
             /\ buf'[held[u][i]].data = buf[held[u][i]].data
  <2>1. held[u][i] \in Buf
    BY HeldOnce
  <2>2. CASE held[u][i] # b
    BY <2>1, <2>2, <1>5
  <2>3. CASE held[u][i] = b
    <3>1. u \in Holders(b)
      BY <2>3 DEF Holders, Range
    <3>2. got = buf[b]
      BY <3>1 DEF Taking
    <3> QED
      BY <2>3, <3>2, <1>3, <1>5
  <2> QED
    BY <2>2, <2>3
<1> QED
  BY <1>2, <1>3, <1>5, <1>6, <1>7, <1>8

\* The block is inside those that the task has, so the buffer is a new one to it.
LEMMA TakingInside ==
  ASSUME IInv, NEW t \in Task, NEW b, NEW block, NEW got, Taking(t, b, block, got)
  PROVE  /\ \A i \in DOMAIN held[t] : Order[buf[held[t][i]].block] < Order[block]
         /\ b \notin Range(held[t])
<1>1. block \in Block /\ Order \in [Block -> Nat]
  BY OrderGrows DEF Taking
<1>2. ASSUME NEW i \in DOMAIN held[t]
      PROVE  Order[buf[held[t][i]].block] < Order[block]
  <2>1. /\ held[t] # <<>> /\ i \in 1 .. Len(held[t]) /\ buf[held[t][i]].block \in Block
        /\ Len(held[t]) \in Nat
    BY HeldOnce, SMTT(20)
  <2>2. /\ Mine(t) = held[t][Len(held[t])] /\ Len(held[t]) \in DOMAIN held[t]
        /\ buf[Mine(t)].block \in Block
    BY <2>1, MineIs
  <2>3. <<buf[Mine(t)].block, block>> \in Inside
    BY <2>1 DEF Taking
  <2>4. Order[buf[Mine(t)].block] < Order[block]
    BY <2>3, OrderGrows
  <2>5. i < Len(held[t]) => Order[buf[held[t][i]].block] < Order[buf[Mine(t)].block]
    BY <2>2, Zenon DEF IInv, HeldOK
  <2>6. /\ Order[buf[held[t][i]].block] \in Nat /\ Order[buf[Mine(t)].block] \in Nat
        /\ Order[block] \in Nat
    BY <2>1, <2>2, <1>1
  <2>7. CASE i = Len(held[t])
    BY <2>2, <2>4, <2>7
  <2>8. CASE i # Len(held[t])
    <3>1. i < Len(held[t])
      BY <2>1, <2>8
    <3> QED
      BY <3>1, <2>4, <2>5, <2>6
  <2> QED
    BY <2>7, <2>8
<1>3. ASSUME NEW i \in DOMAIN held[t], held[t][i] = b
      PROVE  FALSE
  <2>1. t \in Holders(b)
    BY <1>3 DEF Holders, Range
  <2>2. buf[b].block = block
    BY <2>1 DEF Taking
  <2>3. Order[block] < Order[block] /\ Order[block] \in Nat
    BY <1>1, <1>2, <1>3, <2>2
  <2> QED
    BY <2>3
<1> QED
  BY <1>2, <1>3 DEF Range

\* buf_cache_get finds the buffer of the block, makes one or reuses one.
LEMMA GetIsTaking ==
  ASSUME IInv, NEW t \in Task, NEW block \in Block, buf_cache_get(t, block)
  PROVE  \E b, got : Taking(t, b, block, got)
<1>1. /\ at[t] = "run" /\ (held[t] # <<>> => <<buf[Mine(t)].block, block>> \in Inside)
      /\ UNCHANGED <<queue, transfer, disk>>
  BY DEF buf_cache_get
<1>2. /\ list \in Seq(Buf) /\ IsInjective(list) /\ buf \in [Buf -> Buffer]
      /\ Range(list) \subseteq Buf
  <2>1. list \in Seq(Buf) /\ IsInjective(list) /\ buf \in [Buf -> Buffer]
    BY DEF IInv, TypeOK
  <2> QED
    BY <2>1, SMTT(20) DEF Range
<1>3. \A b \in Range(list) : buf[b].ref = Cardinality(Holders(b))
  BY DEF IInv, ReferencesAreCounted, Holders
<1>4. \A b : IsFiniteSet(Holders(b))
  <2>1. \A b : Holders(b) \subseteq Task
    BY DEF Holders
  <2> QED
    BY <2>1, BufAssumption, FS_Subset
<1>5. ASSUME NEW b \in Found(block), Take(t, b, buf[b]), list' = list
      PROVE  Taking(t, b, block, buf[b])
  <2>1. b \in Range(list) /\ b \in Buf /\ buf[b].block = block
    BY <1>2 DEF Found
  <2>2. Found(block) \subseteq {b}
    BY <2>1 DEF IInv, OneBufferPerBlock, Found
  <2>3. Range(list') = Range(list) \cup {b} /\ buf[b] \in Buffer
    BY <2>1, <1>2, <1>5
  <2> QED
    BY <1>1, <1>2, <1>3, <1>5, <2>1, <2>2, <2>3 DEF Taking
<1>6. ASSUME Found(block) = {}, NEW b \in Buf, b \notin Range(list),
             Take(t, b, [NewBuf EXCEPT !.block = block]), list' = <<b>> \o list
      PROVE  Taking(t, b, block, [NewBuf EXCEPT !.block = block])
  <2> DEFINE got == [NewBuf EXCEPT !.block = block]
  <2>1. /\ got \in Buffer /\ got.block = block /\ got.mutex = Null /\ got.ref = 0
        /\ got.valid = FALSE
    BY Zenon DEF NewBuf, Buffer
  <2>2. buf[b].mutex = Null
    BY <1>6 DEF IInv, ListOK, NewBuf
  <2>3. Holders(b) = {}
    <3>1. \A u \in Task : Range(held[u]) \subseteq Range(list)
      BY DEF IInv, HeldOK, Range
    <3> QED
      BY <3>1, <1>6 DEF Holders
  <2>4. Cardinality(Holders(b)) = 0
    BY <2>3, FS_EmptySet
  <2>5. list' \in Seq(Buf) /\ IsInjective(list') /\ Range(list') = Range(list) \cup {b}
    BY <1>2, <1>6, PutFront, SMTT(20)
  <2> HIDE DEF got
  <2>6. Take(t, b, got)
    BY <1>6 DEF got
  <2>7. Taking(t, b, block, got)
    BY <1>1, <1>6, <2>1, <2>2, <2>3, <2>4, <2>5, <2>6 DEF Taking
  <2> QED
    BY <2>7 DEF got
<1>7. ASSUME Found(block) = {}, NEW b \in Buf, Unused(b),
             Take(t, b, buf_reuse(b, block)), list' = list
      PROVE  Taking(t, b, block, buf_reuse(b, block))
  <2> DEFINE got == buf_reuse(b, block)
  <2>1. b \in Range(list) /\ buf[b].ref = 0
    BY <1>7 DEF Unused, Range
  <2>2. Cardinality(Holders(b)) = 0 /\ Holders(b) = {}
    BY <2>1, <1>3, <1>4, FS_EmptySet
  <2>3. /\ got \in Buffer /\ got.block = block /\ got.mutex = buf[b].mutex /\ got.ref = 0
        /\ got.valid = FALSE
    <3>1. buf[b] \in Buffer
      BY <1>2
    <3> QED
      BY <3>1, <2>1, Zenon DEF buf_reuse, Buffer
  <2>4. Range(list') = Range(list) \cup {b}
    BY <2>1, <1>7
  <2> HIDE DEF got
  <2>5. Take(t, b, got)
    BY <1>7 DEF got
  <2>6. Taking(t, b, block, got)
    BY <1>1, <1>2, <1>7, <2>2, <2>3, <2>4, <2>5 DEF Taking
  <2> QED
    BY <2>6 DEF got
<1>8. CASE \E b \in Found(block) : Take(t, b, buf[b]) /\ UNCHANGED list
  BY <1>5, <1>8
<1>9. CASE /\ Found(block) = {} /\ Range(list) # Buf
           /\ LET b == CHOOSE b \in Buf : b \notin Range(list)
              IN Take(t, b, [NewBuf EXCEPT !.block = block]) /\ list' = <<b>> \o list
  <2> DEFINE b == CHOOSE b \in Buf : b \notin Range(list)
  <2>1. b \in Buf /\ b \notin Range(list)
    <3>1. \E c \in Buf : c \notin Range(list)
      BY <1>2, <1>9, Zenon
    <3> QED
      BY <3>1
  <2> HIDE DEF b
  <2>2. Take(t, b, [NewBuf EXCEPT !.block = block]) /\ list' = <<b>> \o list
    BY <1>9 DEF b
  <2> QED
    BY <2>1, <2>2, <1>6, <1>9, Zenon
<1>10. CASE /\ Found(block) = {} /\ Range(list) = Buf
            /\ \E b \in Buf : Unused(b) /\ Take(t, b, buf_reuse(b, block)) /\ UNCHANGED list
  BY <1>7, <1>10
<1> QED
  BY <1>8, <1>9, <1>10 DEF buf_cache_get

----------------------------------------------------------------------------
(* Giving the reference back. *)

\* What that changes.
LEMMA PutFacts ==
  ASSUME IInv, NEW t \in Task, buf_cache_put(t)
  PROVE  /\ at[t] = "put" /\ held[t] # <<>>
         /\ buf' \in [Buf -> Buffer] /\ at' \in [Task -> Place] /\ held' \in [Task -> Seq(Buf)]
         /\ list' \in Seq(Buf) /\ IsInjective(list') /\ Range(list') = Range(list)
         /\ \A c \in Buf : c # Mine(t) => buf'[c] = buf[c]
         /\ \A c \in Buf : /\ buf'[c].block = buf[c].block /\ buf'[c].valid = buf[c].valid
                           /\ buf'[c].data = buf[c].data /\ buf'[c].mutex = buf[c].mutex
         /\ buf'[Mine(t)].ref = Cardinality(Holders(Mine(t)) \ {t})
         /\ at'[t] = "run" /\ \A u \in Task : u # t => at'[u] = at[u] /\ held'[u] = held[u]
         /\ held'[t] = Front(held[t])
         /\ UNCHANGED <<queue, transfer, disk>>
<1> DEFINE b == Mine(t)
<1>1. /\ at[t] = "put" /\ held[t] # <<>> /\ UNCHANGED <<queue, transfer, disk>>
      /\ buf' = [buf EXCEPT ![b].ref = buf[b].ref - 1]
      /\ list' = IF buf[b].ref - 1 = 0 THEN buf_cache_insert(b) ELSE list
      /\ held' = [held EXCEPT ![t] = Front(held[t])] /\ at' = [at EXCEPT ![t] = "run"]
  BY DEF buf_cache_put, Unref, Others, Front, IInv, HeldOK
<1>2. /\ list \in Seq(Buf) /\ IsInjective(list) /\ buf \in [Buf -> Buffer]
      /\ held \in [Task -> Seq(Buf)] /\ at \in [Task -> Place] /\ "run" \in Place
  BY DEF IInv, TypeOK, Place
<1>3. /\ b \in Buf /\ b \in Range(list) /\ buf[b] \in Buffer
      /\ b = held[t][Len(held[t])] /\ Len(held[t]) \in DOMAIN held[t]
  BY <1>1, MineIs
<1>4. /\ buf[b].ref - 1 = Cardinality(Holders(b) \ {t}) /\ buf[b].ref - 1 \in Nat
  <2>1. buf[b].ref = Cardinality(Holders(b))
    BY <1>3, Zenon DEF IInv, ReferencesAreCounted, Holders
  <2>2. t \in Holders(b) /\ Holders(b) \subseteq Task
    BY <1>3 DEF Holders, Range
  <2>3. IsFiniteSet(Holders(b)) /\ IsFiniteSet(Holders(b) \ {t})
    BY <2>2, BufAssumption, FS_Subset
  <2>4. Cardinality(Holders(b) \ {t}) = Cardinality(Holders(b)) - 1
    BY <2>2, <2>3, FS_RemoveElement
  <2>5. Cardinality(Holders(b) \ {t}) \in Nat
    BY <2>3, FS_CardinalityType
  <2> QED
    BY <2>1, <2>4, <2>5
<1>5. list' \in Seq(Buf) /\ IsInjective(list') /\ Range(list') = Range(list)
  <2>1. CASE buf[b].ref - 1 # 0
    BY <2>1, <1>1, <1>2
  <2>2. CASE buf[b].ref - 1 = 0
    <3> DEFINE i == CHOOSE i \in DOMAIN list : list[i] = b
    <3>1. i \in DOMAIN list /\ list[i] = b
      BY <1>3 DEF Range
    <3>2. list' = <<b>> \o RemoveAt(list, i)
      BY <2>2, <1>1 DEF buf_cache_insert
    <3> HIDE DEF i
    <3>3. /\ RemoveAt(list, i) \in Seq(Buf) /\ IsInjective(RemoveAt(list, i))
          /\ Range(RemoveAt(list, i)) = Range(list) \ {b}
      BY <3>1, <1>2, RemoveSet, SMTT(20)
    <3>4. /\ <<b>> \o RemoveAt(list, i) \in Seq(Buf) /\ IsInjective(<<b>> \o RemoveAt(list, i))
          /\ Range(<<b>> \o RemoveAt(list, i)) = (Range(list) \ {b}) \cup {b}
      BY <3>3, <1>3, PutFront, SMTT(20)
    <3> QED
      BY <3>2, <3>4, <1>3, Zenon
  <2> QED
    BY <2>1, <2>2
<1> DEFINE r == [buf[b] EXCEPT !.ref = buf[b].ref - 1]
<1>6. /\ r \in Buffer /\ r.block = buf[b].block /\ r.ref = buf[b].ref - 1
      /\ r.valid = buf[b].valid /\ r.data = buf[b].data /\ r.mutex = buf[b].mutex
  BY <1>3, <1>4 DEF Buffer
<1>7. buf' = [buf EXCEPT ![b] = r]
  BY <1>1, <1>2, <1>3
<1> HIDE DEF r, b
<1>8. /\ buf' \in [Buf -> Buffer] /\ buf'[b] = r /\ \A c \in Buf : c # b => buf'[c] = buf[c]
  BY <1>2, <1>3, <1>6, <1>7
<1>9. \A c \in Buf : /\ buf'[c].block = buf[c].block /\ buf'[c].valid = buf[c].valid
                     /\ buf'[c].data = buf[c].data /\ buf'[c].mutex = buf[c].mutex
  BY <1>6, <1>8
<1>10. /\ at' \in [Task -> Place] /\ at'[t] = "run" /\ held'[t] = Front(held[t])
       /\ \A u \in Task : u # t => at'[u] = at[u] /\ held'[u] = held[u]
  BY <1>1, <1>2
<1>11. Front(held[t]) \in Seq(Buf)
  BY <1>1, <1>2, FrontLast, Zenon
<1>12. held' \in [Task -> Seq(Buf)]
  BY <1>1, <1>2, <1>11
<1> QED
  BY <1>1, <1>4, <1>5, <1>6, <1>8, <1>9, <1>10, <1>12 DEF b

============================================================================
