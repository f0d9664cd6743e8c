SPECIFICATION FairSpec
CONSTANTS
  b1 = b1
  b2 = b2
  Process = {p1, p2}
  Workers = 2
  Connection = {r, w}
  ReadEnd = r
  WriteEnd = w
  MboxCapacity = 1
  None = None
  MaxSize = 2
  Byte = {b1, b2}
  Reads = {2}
  Writes <- MCWrites
  init_process = p1
CHECK_DEADLOCK FALSE
 
 
INVARIANT ReferencesAreCounted
INVARIANT RequestsAreOwned
INVARIANT SleepersHaveReason
PROPERTY StreamIsKept
PROPERTY CallsAreServed
