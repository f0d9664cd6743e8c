--------------------------- MODULE BufCacheProofs ---------------------------
(***************************************************************************)
(* The buffer cache has one buffer for a block, counts its references, and *)
(* implements the block store.                                             *)
(***************************************************************************)
EXTENDS BufCacheSteps

\* The time that the provers may take.
USE ZenonT(20), SMTT(20)

----------------------------------------------------------------------------
(* Taking a reference and giving it back. *)

\* Taking a buffer counts the reference and leaves the mutexes alone.
LEMMA TakingMutex ==
  ASSUME IInv, NEW t \in Task, NEW b, NEW block, NEW got, Taking(t, b, block, got)
  PROVE  (ListOK /\ HeldOK /\ ReferencesAreCounted /\ OneBufferPerBlock /\ MutexOK)'
<1> DEFINE n == Len(held[t])
<1>1. /\ \A c \in Buf : c # b => buf'[c] = buf[c]
      /\ buf'[b].block = block /\ buf'[b].ref = got.ref + 1 /\ buf'[b].mutex = buf[b].mutex
      /\ at'[t] = "lock" /\ \A u \in Task : u # t => at'[u] = at[u] /\ held'[u] = held[u]
      /\ held'[t] = Append(held[t], b)
      /\ \A u \in Task : \A i \in DOMAIN held[u] :
           buf'[held[u][i]].block = buf[held[u][i]].block
  BY TakingFacts, SMTT(20)
<1>2. /\ at[t] = "run" /\ block \in Block /\ b \in Buf /\ got.ref = Cardinality(Holders(b))
      /\ Range(list') = Range(list) \cup {b} /\ Found(block) \subseteq {b}
  BY DEF Taking
<1>3. /\ \A i \in DOMAIN held[t] : Order[buf[held[t][i]].block] < Order[block]
      /\ b \notin Range(held[t])
  BY TakingInside
<1>4. /\ held[t] \in Seq(Buf) /\ list \in Seq(Buf)
      /\ Range(list) \subseteq Buf
  <2>1. held[t] \in Seq(Buf) /\ list \in Seq(Buf)
    BY DEF IInv, TypeOK
  <2> QED
    BY <2>1 DEF Range
<1>5. /\ n \in Nat /\ DOMAIN held[t] = 1 .. n /\ DOMAIN held'[t] = 1 .. n + 1
      /\ Len(held'[t]) = n + 1 /\ held'[t][n + 1] = b /\ held'[t] # <<>>
      /\ \A i \in 1 .. n : held'[t][i] = held[t][i]
      /\ Range(held'[t]) = Range(held[t]) \cup {b}
  BY <1>1, <1>2, <1>4, AppendLast, SMTT(20)
<1> HIDE DEF n
<1>6. ListOK'
  BY <1>1, <1>2, <1>4 DEF IInv, ListOK
<1>7. ASSUME NEW u \in Task
      PROVE  /\ at'[u] # "run" => held'[u] # <<>>
             /\ \A i \in DOMAIN held'[u] : held'[u][i] \in Range(list')
             /\ \A i, j \in DOMAIN held'[u] :
                  i < j => Order[buf'[held'[u][i]].block] < Order[buf'[held'[u][j]].block]
  <2>1. /\ at[u] # "run" => held[u] # <<>>
        /\ \A i \in DOMAIN held[u] : held[u][i] \in Range(list)
        /\ \A i, j \in DOMAIN held[u] :
             i < j => Order[buf[held[u][i]].block] < Order[buf[held[u][j]].block]
    BY DEF IInv, HeldOK
  <2>2. CASE u # t
    BY <2>1, <2>2, <1>1, <1>2, SMTT(20)
  <2>3. CASE u = t
    <3>1. \A i \in 1 .. n + 1 : held'[t][i] \in Range(list')
      BY <2>1, <2>3, <1>2, <1>5, SMTT(20)
    <3>2. ASSUME NEW i \in 1 .. n + 1, NEW j \in 1 .. n + 1, i < j
          PROVE  Order[buf'[held'[t][i]].block] < Order[buf'[held'[t][j]].block]
      <4>1. i \in 1 .. n /\ held'[t][i] = held[t][i]
            /\ buf'[held[t][i]].block = buf[held[t][i]].block
        BY <3>2, <1>1, <1>5, SMTT(20)
      <4>2. CASE j = n + 1
        BY <4>1, <4>2, <1>1, <1>3, <1>5
      <4>3. CASE j # n + 1
        <5>1. j \in 1 .. n /\ held'[t][j] = held[t][j]
              /\ buf'[held[t][j]].block = buf[held[t][j]].block
          BY <4>3, <1>1, <1>5, SMTT(20)
        <5> QED
          BY ONLY <5>1, <4>1, <3>2, <2>1, <2>3, <1>5, Zenon
      <4> QED
        BY <4>2, <4>3
    <3> QED
      BY <2>3, <3>1, <3>2, <1>5
  <2> QED
    BY <2>2, <2>3
<1>8. HeldOK'
  BY <1>7 DEF HeldOK
<1>9. ASSUME NEW c \in Range(list')
      PROVE  buf'[c].ref = Cardinality({u \in Task : c \in Range(held'[u])})
  <2>1. CASE c # b
    <3>1. c \in Range(list) /\ buf'[c] = buf[c]
      BY <2>1, <1>1, <1>2, <1>4, <1>9
    <3>2. {u \in Task : c \in Range(held'[u])} = {u \in Task : c \in Range(held[u])}
      BY <2>1, <1>1, <1>5, Zenon
    <3> QED
      BY <3>1, <3>2 DEF IInv, ReferencesAreCounted
  <2>2. CASE c = b
    <3>1. {u \in Task : b \in Range(held'[u])} = Holders(b) \cup {t}
      BY <1>1, <1>5, Zenon DEF Holders
    <3>2. t \notin Holders(b) /\ Holders(b) \subseteq Task
      BY <1>3 DEF Holders
    <3>3. IsFiniteSet(Holders(b))
      BY <3>2, BufAssumption, FS_Subset
    <3>4. Cardinality(Holders(b) \cup {t}) = Cardinality(Holders(b)) + 1
      BY <3>2, <3>3, FS_AddElement
    <3> QED
      BY <2>2, <3>1, <3>4, <1>1, <1>2, Zenon
  <2> QED
    BY <2>1, <2>2
<1>10. ReferencesAreCounted'
  BY <1>9 DEF ReferencesAreCounted
<1>11. OneBufferPerBlock'
  <2>1. \A c \in Range(list) : buf[c].block = block => c = b
    BY <1>2 DEF Found
  <2> QED
    BY <2>1, <1>1, <1>2, <1>4, SMTT(20) DEF IInv, OneBufferPerBlock
<1>12. ASSUME NEW u \in Task, NEW c \in Buf
       PROVE  buf'[c].mutex = u <=> Locks(u, c)'
  <2>1. buf[c].mutex = u <=> Locks(u, c)
    BY Zenon DEF IInv, MutexOK
  <2>2. buf'[c].mutex = buf[c].mutex
    BY <1>1
  <2>3. CASE u # t
    BY <2>1, <2>2, <2>3, <1>1 DEF Locks
  <2>4. CASE u = t
    <3>1. Locks(t, c) <=> \E i \in 1 .. n : held[t][i] = c
      BY <1>2, <1>5 DEF Locks
    <3>2. Locks(t, c)' <=> \E i \in 1 .. n : held[t][i] = c
      <4>1. Locks(t, c)' <=> \E i \in 1 .. n + 1 : held'[t][i] = c /\ i < n + 1
        BY <1>1, <1>5 DEF Locks
      <4>2. \A i \in 1 .. n + 1 : i < n + 1 <=> i \in 1 .. n
        BY <1>5
      <4>3. \A i \in 1 .. n : i \in 1 .. n + 1
        BY <1>5, SMTT(20)
      <4> QED
        BY <4>1, <4>2, <4>3, <1>5, Zenon
    <3> QED
      BY <2>1, <2>2, <2>4, <3>1, <3>2
  <2> QED
    BY <2>3, <2>4
<1>13. MutexOK'
  BY <1>12, Zenon DEF MutexOK
<1> QED
  BY <1>6, <1>8, <1>10, <1>11, <1>13

\* Taking a buffer leaves the data alone.
LEMMA TakingData ==
  ASSUME IInv, NEW t \in Task, NEW b, NEW block, NEW got, Taking(t, b, block, got)
  PROVE  (TypeOK /\ QueueOK /\ ValidOK /\ DataOK /\ CardIsInStep)'
<1> DEFINE n == Len(held[t])
<1>1. /\ buf' \in [Buf -> Buffer] /\ at' \in [Task -> Place] /\ held' \in [Task -> Seq(Buf)]
      /\ \A c \in Buf : c # b => buf'[c] = buf[c]
      /\ buf'[b].block = block /\ buf'[b].valid = got.valid /\ buf'[b].data = got.data
      /\ at'[t] = "lock" /\ \A u \in Task : u # t => at'[u] = at[u] /\ held'[u] = held[u]
      /\ held'[t] = Append(held[t], b)
      /\ \A u \in Task : \A i \in DOMAIN held[u] :
           /\ buf'[held[u][i]].block = buf[held[u][i]].block
           /\ buf'[held[u][i]].valid = buf[held[u][i]].valid
           /\ buf'[held[u][i]].data = buf[held[u][i]].data
  BY TakingFacts, SMTT(20)
<1>2. /\ at[t] = "run" /\ b \in Buf /\ list' \in Seq(Buf) /\ IsInjective(list')
      /\ Range(list') = Range(list) \cup {b} /\ got.block = block
      /\ (got = buf[b] /\ b \in Range(list)) \/ ~ got.valid
      /\ queue' = queue /\ transfer' = transfer /\ disk' = disk
  BY DEF Taking
<1>3. /\ held[t] \in Seq(Buf) /\ list \in Seq(Buf) /\ Range(list) \subseteq Buf
      /\ queue \in Seq(Task) /\ IsInjective(queue) /\ disk \in [Block -> Data]
  <2>1. /\ held[t] \in Seq(Buf) /\ list \in Seq(Buf)
        /\ queue \in Seq(Task) /\ IsInjective(queue) /\ disk \in [Block -> Data]
    BY DEF IInv, TypeOK
  <2> QED
    BY <2>1, SMTT(20) DEF Range
<1>4. /\ n \in Nat /\ DOMAIN held[t] = 1 .. n /\ DOMAIN held'[t] = 1 .. n + 1
      /\ Len(held'[t]) = n + 1 /\ \A i \in 1 .. n : held'[t][i] = held[t][i]
  BY <1>1, <1>2, <1>3, AppendLast, SMTT(20)
<1> HIDE DEF n
<1>5. TypeOK'
  BY <1>1, <1>2, <1>3, Zenon DEF TypeOK
<1>6. QueueOK'
  BY <1>1, <1>2 DEF IInv, QueueOK
<1>7. ASSUME NEW u \in Task, NEW i \in DOMAIN held'[u]
      PROVE  IF i < Len(held'[u]) THEN buf'[held'[u][i]].valid
             ELSE /\ at'[u] \in {"run", "write", "written", "put"} => buf'[held'[u][i]].valid
                  /\ at'[u] \in {"read", "filled"} => ~ buf'[held'[u][i]].valid
  <2>1. CASE u # t
    <3>1. /\ held'[u] = held[u] /\ at'[u] = at[u] /\ i \in DOMAIN held[u]
          /\ buf'[held[u][i]].valid = buf[held[u][i]].valid
      BY <2>1, <1>1
    <3> QED
      BY <3>1 DEF IInv, ValidOK
  <2>2. CASE u = t
    <3>1. CASE i = n + 1
      <4>1. ~ (i < Len(held'[u]))
        BY <2>2, <3>1, <1>4
      <4> QED
        BY <4>1, <2>2, <1>1
    <3>2. CASE i # n + 1
      <4>1. i \in 1 .. n /\ i < n + 1
        BY <2>2, <3>2, <1>4
      <4>2. buf[held[t][i]].valid
        BY <4>1, <1>2, <1>4 DEF IInv, ValidOK
      <4> QED
        BY <2>2, <4>1, <4>2, <1>1, <1>4, SMTT(20)
    <3> QED
      BY <3>1, <3>2
  <2> QED
    BY <2>1, <2>2
<1>8. ValidOK'
  BY <1>7 DEF ValidOK
<1>9. \A u \in Task : u # t => Mine(u)' = Mine(u)
  BY <1>1 DEF Mine
<1>10. DataOK'
  <2>1. \A c \in Range(list') : buf'[c].valid =>
          /\ c \in Range(list) /\ buf[c].valid
          /\ buf'[c].data = buf[c].data /\ buf'[c].block = buf[c].block
    BY <1>1, <1>2, <1>3
  <2>2. \A u \in Task : at'[u] \in {"write", "filled"} => at'[u] = at[u] /\ Mine(u)' = Mine(u)
    BY <1>1, <1>9
  <2>3. \A u \in Task : at[u] = "write" => at'[u] = at[u] /\ Mine(u)' = Mine(u)
    BY <1>1, <1>2, <1>9
  <2>4. ASSUME NEW u \in Task, at'[u] = "filled"
        PROVE  buf'[Mine(u)'].data = disk'[buf'[Mine(u)'].block]
    <3>1. at[u] = "filled" /\ Mine(u)' = Mine(u) /\ held[u] # <<>>
      BY <2>2, <2>4 DEF IInv, HeldOK
    <3>2. Mine(u) = held[u][Len(held[u])] /\ Len(held[u]) \in DOMAIN held[u]
      BY <3>1, MineIs
    <3>3. /\ buf'[Mine(u)].data = buf[Mine(u)].data
          /\ buf'[Mine(u)].block = buf[Mine(u)].block
      BY <3>2, <1>1, SMTT(20)
    <3> QED
      BY <3>1, <3>3, <1>2 DEF IInv, DataOK
  <2>5. ASSUME NEW c \in Range(list'), buf'[c].valid
        PROVE  buf'[c].data \in Data
    BY <2>1, <2>5 DEF IInv, DataOK
  <2>6. ASSUME NEW c \in Range(list'), buf'[c].valid,
               ~ (\E u \in Task : at'[u] = "write" /\ Mine(u)' = c)
        PROVE  buf'[c].data = disk'[buf'[c].block]
    <3>1. ~ (\E u \in Task : at[u] = "write" /\ Mine(u) = c)
      BY <2>3, <2>6
    <3> QED
      BY <2>1, <2>6, <3>1, <1>2 DEF IInv, DataOK
  <2> QED
    BY <2>4, <2>5, <2>6 DEF DataOK
<1>11. CardIsInStep'
  <2>1. CASE queue = <<>>
    BY <2>1, <1>2 DEF IInv, CardIsInStep
  <2>2. CASE queue # <<>>
    <3> DEFINE h == Head(queue)
    <3>1. h \in Task /\ h \in Range(queue)
      BY <2>2, <1>3, HeadTail
    <3>2. held[h] # <<>> /\ h # t
      BY <3>1, <1>2 DEF IInv, QueueOK, HeldOK
    <3>3. at'[h] = at[h] /\ Mine(h)' = Mine(h) /\ buf'[Mine(h)].block = buf[Mine(h)].block
      BY <3>1, <3>2, <1>1, <1>2, MineIs DEF Mine
    <3>4. transfer = [type |-> at[h], block |-> buf[Mine(h)].block]
      BY <2>2 DEF IInv, CardIsInStep
    <3> QED
      BY <2>2, <3>3, <3>4, <1>2 DEF CardIsInStep
  <2> QED
    BY <2>1, <2>2
<1> QED
  BY <1>5, <1>6, <1>8, <1>10, <1>11

\* Giving a reference back keeps the invariant.
LEMMA PutStep ==
  ASSUME IInv, NEW t \in Task, buf_cache_put(t)
  PROVE  IInv'
<1> DEFINE b == Mine(t)
           n == Len(held[t])
<1>1. /\ at[t] = "put" /\ held[t] # <<>>
      /\ buf' \in [Buf -> Buffer] /\ at' \in [Task -> Place] /\ held' \in [Task -> Seq(Buf)]
      /\ list' \in Seq(Buf) /\ IsInjective(list') /\ Range(list') = Range(list)
  BY PutFacts, Zenon
<1>2. /\ \A c \in Buf : c # b => buf'[c] = buf[c]
      /\ \A c \in Buf : /\ buf'[c].block = buf[c].block /\ buf'[c].valid = buf[c].valid
                        /\ buf'[c].data = buf[c].data /\ buf'[c].mutex = buf[c].mutex
      /\ buf'[b].ref = Cardinality(Holders(b) \ {t})
  BY PutFacts, Zenon
<1>3. /\ at'[t] = "run" /\ \A u \in Task : u # t => at'[u] = at[u] /\ held'[u] = held[u]
      /\ held'[t] = Front(held[t])
      /\ queue' = queue /\ transfer' = transfer /\ disk' = disk
  BY PutFacts, Zenon
<1>4. /\ held[t] \in Seq(Buf) /\ queue \in Seq(Task) /\ IsInjective(queue)
      /\ disk \in [Block -> Data] /\ Range(list) \subseteq Buf
  <2>1. /\ held[t] \in Seq(Buf) /\ queue \in Seq(Task) /\ IsInjective(queue)
        /\ disk \in [Block -> Data] /\ list \in Seq(Buf)
    BY DEF IInv, TypeOK
  <2> QED
    BY <2>1, SMTT(20) DEF Range
<1>5. /\ n \in Nat \ {0} /\ DOMAIN held[t] = 1 .. n /\ b = held[t][n] /\ b \in Range(list)
      /\ DOMAIN held'[t] = 1 .. n - 1 /\ Len(held'[t]) = n - 1
      /\ \A i \in 1 .. n - 1 : held'[t][i] = held[t][i]
  <2>1. /\ n \in Nat \ {0} /\ DOMAIN held[t] = 1 .. n /\ b = held[t][n] /\ b \in Range(list)
    BY <1>1, MineIs, Zenon
  <2>2. /\ Front(held[t]) \in Seq(Buf) /\ Len(Front(held[t])) = n - 1
        /\ \A i \in 1 .. n - 1 : Front(held[t])[i] = held[t][i]
    BY <1>1, <1>4, FrontLast, Zenon
  <2>3. DOMAIN Front(held[t]) = 1 .. n - 1
    BY <2>2
  <2> QED
    BY <2>1, <2>2, <2>3, <1>3
<1>6. /\ \A u \in Task : \A i \in DOMAIN held[u] : held[u][i] \in Buf
      /\ Range(held'[t]) = Range(held[t]) \ {b}
  <2>1. \A i, j \in DOMAIN held[t] : held[t][i] = held[t][j] => i = j
    BY HeldOnce
  <2>2. Range(Front(held[t])) = Range(held[t]) \ {held[t][Len(held[t])]}
    BY <2>1, <1>1, <1>4, FrontSet, Zenon
  <2>3. \A u \in Task : \A i \in DOMAIN held[u] : held[u][i] \in Buf
    BY HeldOnce, Zenon
  <2> QED
    BY <2>2, <2>3, <1>3 DEF Mine
<1>7. \A i \in 1 .. n - 1 : i \in 1 .. n /\ i < n
  BY <1>5, SMTT(20)
<1> HIDE DEF b, n
<1>8. TypeOK'
  BY <1>1, <1>3, <1>4, Zenon DEF TypeOK
<1>9. ListOK'
  <2>1. \A c \in Buf : c \notin Range(list') => buf'[c] = buf[c] /\ c \notin Range(list)
    BY <1>1, <1>2, <1>5, Zenon
  <2>2. \A c \in Buf : c \in Range(list') => c \in Range(list)
    BY <1>1, Zenon
  <2> QED
    BY <2>1, <2>2, <1>2 DEF IInv, ListOK
<1>10. ASSUME NEW u \in Task
       PROVE  /\ at'[u] # "run" => held'[u] # <<>>
              /\ \A i \in DOMAIN held'[u] : held'[u][i] \in Range(list')
              /\ \A i, j \in DOMAIN held'[u] :
                   i < j => Order[buf'[held'[u][i]].block] < Order[buf'[held'[u][j]].block]
  <2>1. /\ at[u] # "run" => held[u] # <<>>
        /\ \A i \in DOMAIN held[u] : held[u][i] \in Range(list)
        /\ \A i, j \in DOMAIN held[u] :
             i < j => Order[buf[held[u][i]].block] < Order[buf[held[u][j]].block]
    BY DEF IInv, HeldOK
  <2>2. \A i \in DOMAIN held[u] : buf'[held[u][i]].block = buf[held[u][i]].block
    BY <1>2, <1>6, Zenon
  <2>3. CASE u # t
    <3>1. held'[u] = held[u] /\ at'[u] = at[u]
      BY <2>3, <1>3
    <3> QED
      BY <2>1, <2>2, <3>1, <1>1, Zenon
  <2>4. CASE u = t
    <3>1. \A i \in DOMAIN held'[t] : i \in DOMAIN held[t] /\ held'[t][i] = held[t][i]
      BY <1>5, <1>7
    <3>2. \A i \in DOMAIN held'[t] : held'[t][i] \in Range(list')
      BY <2>1, <2>4, <3>1, <1>1
    <3>3. ASSUME NEW i \in DOMAIN held'[t], NEW j \in DOMAIN held'[t], i < j
          PROVE  Order[buf'[held'[t][i]].block] < Order[buf'[held'[t][j]].block]
      BY <2>1, <2>2, <2>4, <3>1, <3>3, SMTT(20)
    <3> QED
      BY <2>4, <3>2, <3>3, <1>3
  <2> QED
    BY <2>3, <2>4
<1>11. HeldOK'
  BY <1>10 DEF HeldOK
<1>12. ASSUME NEW u \in Task, NEW c \in Buf
       PROVE  buf'[c].mutex = u <=> Locks(u, c)'
  <2>1. buf[c].mutex = u <=> Locks(u, c)
    BY Zenon DEF IInv, MutexOK
  <2>2. buf'[c].mutex = buf[c].mutex
    BY <1>2
  <2>3. CASE u # t
    BY <2>1, <2>2, <2>3, <1>3 DEF Locks
  <2>4. CASE u = t
    <3>1. Locks(t, c) <=> \E i \in 1 .. n : held[t][i] = c /\ i < n
      BY <1>1, <1>5, Zenon DEF Locks, n
    <3>2. Locks(t, c)' <=> \E i \in 1 .. n - 1 : held[t][i] = c
      BY <1>3, <1>5 DEF Locks
    <3>3. \A i \in 1 .. n : i < n => i \in 1 .. n - 1
      BY <1>5, SMTT(20)
    <3> QED
      BY <2>1, <2>2, <2>4, <3>1, <3>2, <3>3, <1>7, Zenon
  <2> QED
    BY <2>3, <2>4
<1>13. MutexOK'
  BY <1>12, Zenon DEF MutexOK
<1>14. QueueOK'
  BY <1>1, <1>3 DEF IInv, QueueOK
<1>15. ASSUME NEW u \in Task, NEW i \in DOMAIN held'[u]
       PROVE  IF i < Len(held'[u]) THEN buf'[held'[u][i]].valid
              ELSE /\ at'[u] \in {"run", "write", "written", "put"} => buf'[held'[u][i]].valid
                   /\ at'[u] \in {"read", "filled"} => ~ buf'[held'[u][i]].valid
  <2>1. CASE u # t
    <3>1. /\ held'[u] = held[u] /\ at'[u] = at[u] /\ i \in DOMAIN held[u]
          /\ buf'[held[u][i]].valid = buf[held[u][i]].valid
      BY <2>1, <1>2, <1>3, <1>6
    <3> QED
      BY <3>1 DEF IInv, ValidOK
  <2>2. CASE u = t
    <3>1. i \in 1 .. n /\ i < n /\ held'[t][i] = held[t][i] /\ n = Len(held[t])
      BY <2>2, <1>5, <1>7 DEF n
    <3>2. buf[held[t][i]].valid /\ held[t][i] \in Buf
      BY <3>1, <1>5, <1>6 DEF IInv, ValidOK
    <3> QED
      BY <2>2, <3>1, <3>2, <1>2, <1>3
  <2> QED
    BY <2>1, <2>2
<1>16. ValidOK'
  BY <1>15 DEF ValidOK
<1>17. \A u \in Task : u # t => Mine(u)' = Mine(u)
  BY <1>3 DEF Mine
<1>18. DataOK'
  <2>1. ASSUME NEW u \in Task, at'[u] = "filled"
        PROVE  buf'[Mine(u)'].data = disk'[buf'[Mine(u)'].block]
    <3>1. at[u] = "filled" /\ Mine(u)' = Mine(u)
      BY <2>1, <1>3, <1>17
    <3>2. Mine(u) \in Buf
      BY <3>1, MineIs DEF IInv, HeldOK
    <3> QED
      BY <3>1, <3>2, <1>2, <1>3, SMTT(20) DEF IInv, DataOK
  <2>2. ASSUME NEW c \in Range(list'), buf'[c].valid
        PROVE  buf'[c].data \in Data
    <3>1. c \in Range(list) /\ buf[c].valid /\ buf'[c].data = buf[c].data
      BY <2>2, <1>1, <1>2, <1>4
    <3> QED
      BY <3>1 DEF IInv, DataOK
  <2>3. ASSUME NEW c \in Range(list'), buf'[c].valid,
               ~ (\E u \in Task : at'[u] = "write" /\ Mine(u)' = c)
        PROVE  buf'[c].data = disk'[buf'[c].block]
    <3>1. ~ (\E u \in Task : at[u] = "write" /\ Mine(u) = c)
      BY <2>3, <1>1, <1>3, <1>17
    <3>2. /\ c \in Range(list) /\ buf[c].valid
          /\ buf'[c].data = buf[c].data /\ buf'[c].block = buf[c].block
      BY <2>3, <1>1, <1>2, <1>4
    <3> QED
      BY <3>1, <3>2, <1>3 DEF IInv, DataOK
  <2> QED
    BY <2>1, <2>2, <2>3 DEF DataOK
<1>19. ASSUME NEW c \in Range(list')
       PROVE  buf'[c].ref = Cardinality({u \in Task : c \in Range(held'[u])})
  <2>1. CASE c # b
    <3>1. c \in Range(list) /\ buf'[c] = buf[c]
      BY <2>1, <1>1, <1>2, <1>4, <1>19
    <3>2. {u \in Task : c \in Range(held'[u])} = {u \in Task : c \in Range(held[u])}
      BY <2>1, <1>3, <1>6
    <3> QED
      BY <3>1, <3>2 DEF IInv, ReferencesAreCounted
  <2>2. CASE c = b
    <3>1. {u \in Task : b \in Range(held'[u])} = Holders(b) \ {t}
      BY <1>3, <1>6 DEF Holders
    <3> QED
      BY <2>2, <3>1, <1>2
  <2> QED
    BY <2>1, <2>2
<1>20. ReferencesAreCounted'
  BY <1>19 DEF ReferencesAreCounted
<1>21. OneBufferPerBlock'
  BY <1>1, <1>2, <1>4 DEF IInv, OneBufferPerBlock
<1>22. CardIsInStep'
  <2>1. CASE queue = <<>>
    BY <2>1, <1>3 DEF IInv, CardIsInStep
  <2>2. CASE queue # <<>>
    <3> DEFINE h == Head(queue)
    <3>1. h \in Task /\ h \in Range(queue)
      BY <2>2, <1>4, HeadTail
    <3>2. held[h] # <<>> /\ h # t
      BY <3>1, <1>1, Zenon DEF IInv, QueueOK, HeldOK
    <3>3. at'[h] = at[h] /\ Mine(h)' = Mine(h) /\ buf'[Mine(h)].block = buf[Mine(h)].block
      BY <3>1, <3>2, <1>2, <1>3, MineIs DEF Mine
    <3>4. transfer = [type |-> at[h], block |-> buf[Mine(h)].block]
      BY <2>2 DEF IInv, CardIsInStep
    <3> QED
      BY <2>2, <3>3, <3>4, <1>3 DEF CardIsInStep
  <2> QED
    BY <2>1, <2>2
<1> QED
  BY <1>8, <1>9, <1>11, <1>13, <1>14, <1>16, <1>18, <1>20, <1>21, <1>22 DEF IInv

----------------------------------------------------------------------------
(* The invariant. *)

\* The invariant holds at first.
LEMMA InitIInv ==
  ASSUME Init
  PROVE  IInv
<1>1. /\ list = <<>> /\ queue = <<>> /\ transfer = NoTransfer /\ disk = Image
      /\ buf = [c \in Buf |-> NewBuf] /\ held = [t \in Task |-> <<>>]
      /\ at = [t \in Task |-> "run"]
  BY DEF Init
<1>2. /\ \A t \in Task : DOMAIN held[t] = {} /\ at[t] = "run"
      /\ Range(list) = {} /\ Range(queue) = {} /\ \A c \in Buf : buf[c] = NewBuf
  BY <1>1 DEF Range
<1>3. NewBuf \in Buffer /\ NewBuf.mutex = Null
  BY DEF NewBuf, Buffer
<1>4. IsInjective(<<>>)
  BY DEF IsInjective
<1>5. TypeOK
  BY <1>1, <1>3, <1>4, BufAssumption, SMTT(20) DEF TypeOK, Place
<1>6. ListOK
  BY <1>2 DEF ListOK
<1>7. HeldOK
  BY <1>2 DEF HeldOK
<1>8. MutexOK
  BY <1>2, <1>3, BufAssumption DEF MutexOK, Locks
<1>9. QueueOK
  BY <1>2 DEF QueueOK
<1>10. ValidOK
  BY <1>2 DEF ValidOK
<1>11. DataOK
  BY <1>2 DEF DataOK
<1>12. ReferencesAreCounted /\ OneBufferPerBlock
  BY <1>2 DEF ReferencesAreCounted, OneBufferPerBlock
<1>13. CardIsInStep
  BY <1>1 DEF CardIsInStep
<1> QED
  BY <1>5, <1>6, <1>7, <1>8, <1>9, <1>10, <1>11, <1>12, <1>13 DEF IInv

\* Every step keeps it.
LEMMA NextIInv ==
  ASSUME IInv, [Next]_vars
  PROVE  IInv'
<1>1. CASE sd_irq_task
  BY <1>1, IrqIsLocal, LocalStep
<1>2. ASSUME NEW t \in Task, buf_read(t)
      PROVE  IInv'
  BY <1>2, ReadIsLocal, LocalStep, Zenon
<1>3. ASSUME NEW t \in Task, buf_read_done(t)
      PROVE  IInv'
  BY <1>3, DoneIsLocal, LocalStep, Zenon
<1>4. ASSUME NEW t \in Task, buf_written(t) \/ buf_release(t)
      PROVE  IInv'
  BY <1>4, UnlockedIsLocal, LocalStep, Zenon
<1>5. ASSUME NEW t \in Task, buf_cache_put(t)
      PROVE  IInv'
  BY <1>5, PutStep
<1>6. ASSUME NEW t \in Task, NEW block \in Block, buf_cache_get(t, block)
      PROVE  IInv'
  <2>1. PICK b, got : Taking(t, b, block, got)
    BY <1>6, GetIsTaking
  <2> QED
    BY <2>1, TakingMutex, TakingData DEF IInv
<1>7. ASSUME NEW t \in Task, NEW d \in Data, buf_write(t, d)
      PROVE  IInv'
  BY <1>7, WriteIsLocal, LocalStep, Zenon
<1>8. CASE UNCHANGED vars
  <2>1. UNCHANGED <<list, buf, held, at, queue, transfer, disk>>
    BY <1>8 DEF vars
  <2>2. (TypeOK /\ ListOK /\ HeldOK /\ QueueOK /\ ValidOK)'
    BY <2>1 DEF IInv, TypeOK, ListOK, HeldOK, QueueOK, ValidOK
  <2>3. (MutexOK /\ DataOK)'
    BY <2>1, SMTT(20) DEF IInv, MutexOK, Locks, DataOK, Mine
  <2>4. (ReferencesAreCounted /\ OneBufferPerBlock /\ CardIsInStep)'
    BY <2>1 DEF IInv, ReferencesAreCounted, OneBufferPerBlock, CardIsInStep, Mine
  <2> QED
    BY <2>2, <2>3, <2>4 DEF IInv
<1> QED
  BY <1>1, <1>2, <1>3, <1>4, <1>5, <1>6, <1>7, <1>8 DEF Next, Cache, FileSystem

\* The inductive invariant of cache and driver: who has which buffer, what the
\* queue and the card work on, and where memory and disk agree.
THEOREM Invariant == Spec => []IInv
<1>1. Init => IInv
  BY InitIInv
<1>2. IInv /\ [Next]_vars => IInv'
  BY NextIInv
<1> QED
  BY <1>1, <1>2, PTL DEF Spec

\* No block gets a second buffer, however look-ups, reuse and the filling of
\* buffers by others interleave (buf.c:163, 205).
THEOREM BlocksHaveOneBuffer == Spec => []OneBufferPerBlock
<1>1. IInv => OneBufferPerBlock
  BY DEF IInv
<1> QED
  BY <1>1, Invariant, PTL

\* A buffer that a task has, waits for or is about to put back is never taken
\* for another block: its count is the number of those tasks (buf.c:168, 225).
THEOREM CountIsExact == Spec => []ReferencesAreCounted
<1>1. IInv => ReferencesAreCounted
  BY DEF IInv
<1> QED
  BY <1>1, Invariant, PTL

\* The card always does what the first request of the queue is about, so the
\* interrupt task completes the right one (sd.c:100, 152).
THEOREM CardFollowsQueue == Spec => []CardIsInStep
<1>1. IInv => CardIsInStep
  BY DEF IInv
<1> QED
  BY <1>1, Invariant, PTL

\* A valid buffer that nobody has locked has the data of its block on the disk,
\* so it can be reused without being written (buf.c:195, 301).
THEOREM CacheIsWrittenThrough == Spec => []WrittenThrough
<1>1. ASSUME IInv
      PROVE  WrittenThrough
  <2>1. ASSUME NEW b \in Range(list), buf[b].valid, buf[b].mutex = Null
        PROVE  buf[b].data = disk[buf[b].block]
    <3>1. ASSUME NEW u \in Task, at[u] = "write", Mine(u) = b
          PROVE  FALSE
      <4>1. held[u] # <<>>
        BY <1>1, <3>1 DEF IInv, HeldOK
      <4>2. buf[b].mutex = u
        BY <1>1, <3>1, <4>1, Owns
      <4> QED
        BY <2>1, <4>2, BufAssumption
    <3> QED
      BY <1>1, <2>1, <3>1 DEF IInv, DataOK
  <2> QED
    BY <2>1 DEF WrittenThrough
<1>2. IInv => WrittenThrough
  BY <1>1
<1> QED
  BY <1>2, Invariant, PTL

----------------------------------------------------------------------------
(* The cache implements the block store. *)

\* What the store shows of a block: its valid buffer, or the disk.
Shown ==
  \A block \in Block :
    /\ \A b \in Range(list) :
         buf[b].block = block /\ buf[b].valid
           => Contents(block) = buf[b].data /\ Holder(block) = buf[b].mutex
    /\ (\A b \in Range(list) : ~ (buf[b].block = block /\ buf[b].valid))
         => Contents(block) = disk[block] /\ Holder(block) = Null

\* A block has one buffer, so the choices in Contents and Holder are that one.
LEMMA OneIsShown == OneBufferPerBlock => Shown
<1> SUFFICES ASSUME OneBufferPerBlock, NEW block \in Block
             PROVE  /\ \A b \in Range(list) :
                         buf[b].block = block /\ buf[b].valid
                           => Contents(block) = buf[b].data /\ Holder(block) = buf[b].mutex
                    /\ (\A b \in Range(list) : ~ (buf[b].block = block /\ buf[b].valid))
                         => Contents(block) = disk[block] /\ Holder(block) = Null
  BY DEF Shown
<1> DEFINE cached == {b \in Found(block) : buf[b].valid}
           in == {b \in Found(block) : buf[b].valid /\ buf[b].mutex # Null}
<1>1. ASSUME NEW b \in Range(list), buf[b].block = block, buf[b].valid
      PROVE  Contents(block) = buf[b].data /\ Holder(block) = buf[b].mutex
  <2>1. cached = {b}
    BY <1>1 DEF OneBufferPerBlock, Found
  <2>2. Contents(block) = buf[b].data
    <3>1. (CHOOSE c \in {b} : TRUE) = b
      OBVIOUS
    <3> QED
      BY <2>1, <3>1 DEF Contents
  <2>3. CASE buf[b].mutex = Null
    <3>1. in = {}
      BY <1>1, <2>3 DEF OneBufferPerBlock, Found
    <3> QED
      BY <2>2, <2>3, <3>1 DEF Holder
  <2>4. CASE buf[b].mutex # Null
    <3>1. in = {b}
      BY <1>1, <2>4 DEF OneBufferPerBlock, Found
    <3>2. (CHOOSE c \in {b} : TRUE) = b
      OBVIOUS
    <3> QED
      BY <2>2, <3>1, <3>2 DEF Holder
  <2> QED
    BY <2>3, <2>4
<1>2. ASSUME \A b \in Range(list) : ~ (buf[b].block = block /\ buf[b].valid)
      PROVE  Contents(block) = disk[block] /\ Holder(block) = Null
  <2>1. cached = {} /\ in = {}
    BY <1>2 DEF Found
  <2> QED
    BY <2>1 DEF Contents, Holder
<1> QED
  BY <1>1, <1>2

\* The same after a step.
LEMMA OneIsShownNext == OneBufferPerBlock' => Shown'
BY OneIsShown, PTL

\* The steps of the store, seen from one block.
LEMMA StoreStep ==
  ASSUME NEW t \in Task, NEW blk \in Block,
         \A c \in Block : c # blk => Contents(c)' = Contents(c) /\ Holder(c)' = Holder(c),
         \/ Contents(blk)' = Contents(blk) /\ Holder(blk)' = Holder(blk)
         \/ Contents(blk)' = Contents(blk) /\ Holder(blk) = Null /\ Holder(blk)' = t
         \/ Contents(blk)' = Contents(blk) /\ Holder(blk) = t /\ Holder(blk)' = Null
         \/ Contents(blk)' \in Data /\ Holder(blk) = t /\ Holder(blk)' = t
  PROVE  [Store!StoreNext]_(Store!storeVars)
<1> DEFINE con == [b \in Block |-> Contents(b)]
           own == [b \in Block |-> Holder(b)]
<1>1. CASE Contents(blk)' = Contents(blk) /\ Holder(blk)' = Holder(blk)
  <2>1. con' = con /\ own' = own
    BY <1>1
  <2> QED
    BY <2>1 DEF Store!storeVars
<1>2. CASE Contents(blk)' = Contents(blk) /\ Holder(blk) = Null /\ Holder(blk)' = t
  <2>1. con' = con /\ own' = [own EXCEPT ![blk] = t] /\ own[blk] = Null
    BY <1>2, Zenon
  <2>2. Store!Hold(t, blk)
    BY <2>1 DEF Store!Hold
  <2> QED
    BY <2>2 DEF Store!StoreNext
<1>3. CASE Contents(blk)' = Contents(blk) /\ Holder(blk) = t /\ Holder(blk)' = Null
  <2>1. con' = con /\ own' = [own EXCEPT ![blk] = Null] /\ own[blk] = t
    BY <1>3, Zenon
  <2>2. Store!LetGo(t, blk)
    BY <2>1 DEF Store!LetGo
  <2> QED
    BY <2>2 DEF Store!StoreNext
<1>4. CASE Contents(blk)' \in Data /\ Holder(blk) = t /\ Holder(blk)' = t
  <2>1. PICK d \in Data : Contents(blk)' = d
    BY <1>4
  <2>2. con' = [con EXCEPT ![blk] = d] /\ own' = own /\ own[blk] = t
    BY <1>4, <2>1, Zenon
  <2>3. Store!Change(t, blk, d)
    BY <2>2 DEF Store!Change
  <2> QED
    BY <2>3 DEF Store!StoreNext
<1> QED
  BY <1>1, <1>2, <1>3, <1>4

\* What a step at the buffer of a task shows.
LEMMA LocalShown ==
  ASSUME IInv, IInv', NEW t \in Task, NEW a, NEW r, Local(t, a, r), NEW blk, blk = r.block
  PROVE  /\ blk \in Block
         /\ \A c \in Block : c # blk => Contents(c)' = Contents(c) /\ Holder(c)' = Holder(c)
         /\ IF buf[Mine(t)].valid
            THEN Contents(blk) = buf[Mine(t)].data /\ Holder(blk) = buf[Mine(t)].mutex
            ELSE Contents(blk) = disk[blk] /\ Holder(blk) = Null
         /\ IF r.valid THEN Contents(blk)' = r.data /\ Holder(blk)' = r.mutex
            ELSE Contents(blk)' = disk'[blk] /\ Holder(blk)' = Null
<1> DEFINE b == Mine(t)
<1>1. Shown /\ Shown'
  BY OneIsShown, OneIsShownNext DEF IInv
<1>2. /\ b \in Buf /\ b \in Range(list) /\ buf[b].block \in Block
      /\ buf[b].block = blk /\ list' = list
      /\ \A c \in Block : c # blk => disk'[c] = disk[c]
  BY MineIs DEF Local, Filled
<1>3. /\ buf'[b] = r /\ \A c \in Buf : c # b => buf'[c] = buf[c]
  BY LocalFacts, SMTT(20)
<1>4. /\ Range(list) \subseteq Buf
      /\ \A c \in Range(list) : buf[c].block = blk => c = b
  <2>1. list \in Seq(Buf)
    BY DEF IInv, TypeOK
  <2>2. Range(list) \subseteq Buf
    BY <2>1 DEF Range
  <2> QED
    BY <2>2, <1>2 DEF IInv, OneBufferPerBlock
<1> HIDE DEF b
<1>5. ASSUME NEW c \in Block, c # blk
      PROVE  Contents(c)' = Contents(c) /\ Holder(c)' = Holder(c)
  <2>1. ASSUME NEW e \in Range(list), buf[e].block = c, buf[e].valid
        PROVE  Contents(c)' = Contents(c) /\ Holder(c)' = Holder(c)
    <3>1. e # b /\ buf'[e] = buf[e] /\ e \in Range(list')
      BY <2>1, <1>2, <1>3, <1>4, <1>5
    <3>2. Contents(c) = buf[e].data /\ Holder(c) = buf[e].mutex
      BY <2>1, <1>1 DEF Shown
    <3>3. Contents(c)' = buf'[e].data /\ Holder(c)' = buf'[e].mutex
      BY <2>1, <3>1, <1>1 DEF Shown
    <3> QED
      BY <3>1, <3>2, <3>3
  <2>2. ASSUME \A e \in Range(list) : ~ (buf[e].block = c /\ buf[e].valid)
        PROVE  Contents(c)' = Contents(c) /\ Holder(c)' = Holder(c)
    <3>1. Contents(c) = disk[c] /\ Holder(c) = Null
      BY <2>2, <1>1 DEF Shown
    <3>2. \A e \in Range(list') : ~ (buf'[e].block = c /\ buf'[e].valid)
      <4>1. r.block = blk
        OBVIOUS
      <4> QED
        BY <4>1, <2>2, <1>2, <1>3, <1>4, <1>5
    <3>3. Contents(c)' = disk'[c] /\ Holder(c)' = Null
      BY <3>2, <1>1 DEF Shown
    <3> QED
      BY <3>1, <3>3, <1>2, <1>5
  <2> QED
    BY <2>1, <2>2
<1>6. IF buf[b].valid THEN Contents(blk) = buf[b].data /\ Holder(blk) = buf[b].mutex
      ELSE Contents(blk) = disk[blk] /\ Holder(blk) = Null
  BY <1>1, <1>2, <1>4 DEF Shown
<1>7. IF r.valid THEN Contents(blk)' = r.data /\ Holder(blk)' = r.mutex
      ELSE Contents(blk)' = disk'[blk] /\ Holder(blk)' = Null
  <2>1. \A c \in Range(list') : buf'[c].block = blk => c = b
    BY <1>2, <1>3, <1>4
  <2>2. b \in Range(list') /\ buf'[b].block = blk
    BY <1>2, <1>3
  <2> QED
    BY <2>1, <2>2, <1>1, <1>2, <1>3, SMTT(20) DEF Shown
<1> QED
  BY <1>2, <1>5, <1>6, <1>7 DEF b

\* What is not valid, or does not change, is not seen.
LEMMA SameShown ==
  ASSUME IInv, IInv', disk' = disk,
         \A e \in Range(list) : buf[e].valid =>
           \/ /\ e \in Range(list') /\ buf'[e].block = buf[e].block /\ buf'[e].valid
              /\ buf'[e].data = buf[e].data /\ buf'[e].mutex = buf[e].mutex
           \/ /\ buf[e].data = disk[buf[e].block] /\ buf[e].mutex = Null
              /\ ~ buf'[e].valid,
         \A e \in Range(list') : buf'[e].valid =>
           /\ e \in Range(list) /\ buf[e].block = buf'[e].block /\ buf[e].valid
  PROVE  [Store!StoreNext]_(Store!storeVars)
<1>1. Shown /\ Shown'
  BY OneIsShown, OneIsShownNext DEF IInv
<1>2. ASSUME NEW c \in Block
      PROVE  Contents(c)' = Contents(c) /\ Holder(c)' = Holder(c)
  <2>1. ASSUME NEW e \in Range(list'), buf'[e].block = c, buf'[e].valid
        PROVE  Contents(c)' = Contents(c) /\ Holder(c)' = Holder(c)
    <3>1. /\ e \in Range(list) /\ buf[e].block = c /\ buf[e].valid
          /\ buf'[e].data = buf[e].data /\ buf'[e].mutex = buf[e].mutex
      BY <2>1
    <3>2. Contents(c) = buf[e].data /\ Holder(c) = buf[e].mutex
      BY <3>1, <1>1, SMTT(20) DEF Shown
    <3>3. Contents(c)' = buf'[e].data /\ Holder(c)' = buf'[e].mutex
      BY <2>1, <1>1, SMTT(20) DEF Shown
    <3> QED
      BY <3>1, <3>2, <3>3
  <2>2. ASSUME \A e \in Range(list') : ~ (buf'[e].block = c /\ buf'[e].valid)
        PROVE  Contents(c)' = Contents(c) /\ Holder(c)' = Holder(c)
    <3>1. Contents(c)' = disk[c] /\ Holder(c)' = Null
      BY <2>2, <1>1 DEF Shown
    <3>2. ASSUME NEW e \in Range(list), buf[e].block = c, buf[e].valid
          PROVE  Contents(c) = disk[c] /\ Holder(c) = Null
      <4>1. buf[e].data = disk[c] /\ buf[e].mutex = Null
        BY <2>2, <3>2
      <4> QED
        BY <4>1, <3>2, <1>1, SMTT(20) DEF Shown
    <3>3. ASSUME \A e \in Range(list) : ~ (buf[e].block = c /\ buf[e].valid)
          PROVE  Contents(c) = disk[c] /\ Holder(c) = Null
      BY <3>3, <1>1 DEF Shown
    <3> QED
      BY <3>1, <3>2, <3>3
  <2> QED
    BY <2>1, <2>2
<1>3. /\ [b \in Block |-> Contents(b)]' = [b \in Block |-> Contents(b)]
      /\ [b \in Block |-> Holder(b)]' = [b \in Block |-> Holder(b)]
  BY <1>2
<1> QED
  BY <1>3 DEF Store!storeVars

\* Taking a reference is not seen.
LEMMA TakingRefines ==
  ASSUME IInv, IInv', NEW t \in Task, NEW b, NEW block, NEW got, Taking(t, b, block, got)
  PROVE  [Store!StoreNext]_(Store!storeVars)
<1>1. /\ \A c \in Buf : c # b => buf'[c] = buf[c]
      /\ buf'[b].block = block /\ buf'[b].valid = got.valid /\ buf'[b].data = got.data
      /\ buf'[b].mutex = buf[b].mutex
  BY TakingFacts, SMTT(20)
<1>2. /\ b \in Buf /\ Range(list') = Range(list) \cup {b} /\ got.block = block /\ disk' = disk
      /\ \/ got = buf[b] /\ b \in Range(list)
         \/ Holders(b) = {} /\ ~ got.valid
  BY DEF Taking
<1>3. Range(list) \subseteq Buf
  <2>1. list \in Seq(Buf)
    BY DEF IInv, TypeOK
  <2> QED
    BY <2>1 DEF Range
<1>4. ASSUME Holders(b) = {}
      PROVE  /\ buf[b].mutex = Null
             /\ b \in Range(list) /\ buf[b].valid => buf[b].data = disk[buf[b].block]
  <2>1. \A u \in Task : ~ Locks(u, b) /\ (held[u] # <<>> => Mine(u) # b)
    <3>1. \A u \in Task : \A i \in DOMAIN held[u] : held[u][i] # b
      BY <1>4 DEF Holders, Range
    <3> QED
      BY <3>1, MineIs DEF Locks
  <2>2. buf[b].mutex \in Task \cup {Null}
    BY <1>2 DEF IInv, TypeOK, Buffer
  <2>3. buf[b].mutex = Null
    BY <2>1, <2>2, <1>2 DEF IInv, MutexOK
  <2>4. ~ (\E u \in Task : at[u] = "write" /\ Mine(u) = b)
    BY <2>1 DEF IInv, HeldOK
  <2> QED
    BY <2>3, <2>4 DEF IInv, DataOK
<1>5. ASSUME NEW e \in Range(list), buf[e].valid
      PROVE  \/ /\ e \in Range(list') /\ buf'[e].block = buf[e].block /\ buf'[e].valid
                /\ buf'[e].data = buf[e].data /\ buf'[e].mutex = buf[e].mutex
             \/ /\ buf[e].data = disk[buf[e].block] /\ buf[e].mutex = Null
                /\ ~ buf'[e].valid
  <2>1. CASE e # b
    BY <2>1, <1>1, <1>2, <1>3, <1>5
  <2>2. CASE e = b
    BY <2>2, <1>1, <1>2, <1>4, <1>5
  <2> QED
    BY <2>1, <2>2
<1>6. ASSUME NEW e \in Range(list'), buf'[e].valid
      PROVE  e \in Range(list) /\ buf[e].block = buf'[e].block /\ buf[e].valid
  <2>1. CASE e # b
    BY <2>1, <1>1, <1>2, <1>3, <1>6
  <2>2. CASE e = b
    BY <2>2, <1>1, <1>2, <1>6
  <2> QED
    BY <2>1, <2>2
<1> QED
  BY <1>2, <1>5, <1>6, SameShown

\* Giving it back is not seen.
LEMMA PutRefines ==
  ASSUME IInv, IInv', NEW t \in Task, buf_cache_put(t)
  PROVE  [Store!StoreNext]_(Store!storeVars)
<1>1. /\ Range(list') = Range(list) /\ disk' = disk
      /\ \A c \in Buf : /\ buf'[c].block = buf[c].block /\ buf'[c].valid = buf[c].valid
                        /\ buf'[c].data = buf[c].data /\ buf'[c].mutex = buf[c].mutex
  BY PutFacts, Zenon
<1>2. Range(list) \subseteq Buf
  <2>1. list \in Seq(Buf)
    BY DEF IInv, TypeOK
  <2> QED
    BY <2>1 DEF Range
<1> QED
  BY <1>1, <1>2, SameShown

\* A step of a task at its buffer is one of the store or is not seen.
LEMMA LocalRefines ==
  ASSUME IInv, IInv', NEW t \in Task, NEW a, NEW r, Local(t, a, r)
  PROVE  [Store!StoreNext]_(Store!storeVars)
<1> DEFINE b == Mine(t)
<1>1. PICK blk : blk = r.block
  OBVIOUS
<1>2. /\ blk \in Block
      /\ \A c \in Block : c # blk => Contents(c)' = Contents(c) /\ Holder(c)' = Holder(c)
      /\ IF buf[b].valid THEN Contents(blk) = buf[b].data /\ Holder(blk) = buf[b].mutex
         ELSE Contents(blk) = disk[blk] /\ Holder(blk) = Null
      /\ IF r.valid THEN Contents(blk)' = r.data /\ Holder(blk)' = r.mutex
         ELSE Contents(blk)' = disk'[blk] /\ Holder(blk)' = Null
  BY <1>1, LocalShown, SMTT(20)
<1>3. /\ buf[b].mutex \in {t, Null} /\ r.mutex = IF a = "put" THEN Null ELSE t
      /\ buf[b].valid => r.valid
      /\ r.valid => r.data \in Data
      /\ r.valid /\ a # "write" => r.data = disk'[r.block]
      /\ ~ buf[b].valid => disk' = disk /\ a \notin {"write", "put"}
      /\ buf[b].valid => r.data = buf[b].data \/ (buf[b].mutex = t /\ a = "write")
  BY DEF Local, Filled
<1> HIDE DEF b
<1>4. \/ Contents(blk)' = Contents(blk) /\ Holder(blk)' = Holder(blk)
      \/ Contents(blk)' = Contents(blk) /\ Holder(blk) = Null /\ Holder(blk)' = t
      \/ Contents(blk)' = Contents(blk) /\ Holder(blk) = t /\ Holder(blk)' = Null
      \/ Contents(blk)' \in Data /\ Holder(blk) = t /\ Holder(blk)' = t
  BY <1>1, <1>2, <1>3
<1> QED
  BY <1>2, <1>4, StoreStep, Zenon

\* Every step of the cache is one of the store or is not seen.
LEMMA NextRefines ==
  ASSUME IInv, IInv', [Next]_vars
  PROVE  [Store!StoreNext]_(Store!storeVars)
<1>1. CASE sd_irq_task
  BY <1>1, IrqIsLocal, LocalRefines
<1>2. ASSUME NEW t \in Task, buf_read(t)
      PROVE  [Store!StoreNext]_(Store!storeVars)
  BY <1>2, ReadIsLocal, LocalRefines, Zenon
<1>3. ASSUME NEW t \in Task, buf_read_done(t)
      PROVE  [Store!StoreNext]_(Store!storeVars)
  BY <1>3, DoneIsLocal, LocalRefines, Zenon
<1>4. ASSUME NEW t \in Task, buf_written(t) \/ buf_release(t)
      PROVE  [Store!StoreNext]_(Store!storeVars)
  BY <1>4, UnlockedIsLocal, LocalRefines, Zenon
<1>5. ASSUME NEW t \in Task, buf_cache_put(t)
      PROVE  [Store!StoreNext]_(Store!storeVars)
  BY <1>5, PutRefines
<1>6. ASSUME NEW t \in Task, NEW block \in Block, buf_cache_get(t, block)
      PROVE  [Store!StoreNext]_(Store!storeVars)
  BY <1>6, GetIsTaking, TakingRefines
<1>7. ASSUME NEW t \in Task, NEW d \in Data, buf_write(t, d)
      PROVE  [Store!StoreNext]_(Store!storeVars)
  BY <1>7, WriteIsLocal, LocalRefines, Zenon
<1>8. CASE UNCHANGED vars
  BY <1>8, SameShown DEF vars
<1> QED
  BY <1>1, <1>2, <1>3, <1>4, <1>5, <1>6, <1>7, <1>8 DEF Next, Cache, FileSystem

\* The initial states of the cache are those of the store.
LEMMA InitRefines ==
  ASSUME Init
  PROVE  Store!StoreInit
<1>1. Shown /\ Range(list) = {} /\ disk = Image
  BY InitIInv, OneIsShown DEF IInv, Init, Range
<1>2. \A c \in Block : Contents(c) = Image[c] /\ Holder(c) = Null
  BY <1>1 DEF Shown
<1> QED
  BY <1>2, BufAssumption DEF Store!StoreInit

\* The cache is a store of blocks: what a task sees and writes is as if there
\* were no cache, and one task has a block at a time.
THEOREM CacheIsBlockStore == Spec => IsBlockStore
<1>1. Init => Store!StoreInit
  BY InitRefines
<1>2. IInv /\ IInv' /\ [Next]_vars => [Store!StoreNext]_(Store!storeVars)
  BY NextRefines
<1> QED
  BY <1>1, <1>2, Invariant, PTL DEF Spec, IsBlockStore, Store!StoreSpec

============================================================================
