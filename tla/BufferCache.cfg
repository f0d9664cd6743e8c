SPECIFICATION FairSpec
CONSTANTS
  Task = {t1, t2}
  Block = {group, bitmap, file1, file2}
  group = group
  bitmap = bitmap
  file1 = file1
  file2 = file2
  d1 = d1
  d2 = d2
  Inside <- MCInside
  Buf = {b1, b2, b3}
  Data = {d1, d2}
  Image <- MCImage
  Written = {group, file1}
  Junk = Junk
  Null = Null
INVARIANT ReferencesAreCounted
INVARIANT OneBufferPerBlock
INVARIANT CardIsInStep
PROPERTY IsBlockStore
PROPERTY RequestsComplete
