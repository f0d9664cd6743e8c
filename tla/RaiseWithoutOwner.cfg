SPECIFICATION Spec
CONSTANTS
  c1 = c1
  c2 = c2
  low = low
  mid = mid
  high = high
  m1 = m1
  m2 = m2
  cv = cv
  Null = Null
  CPU = {c1, c2}
  Task = {low, mid, high}
  Mutex = {m1, m2}
  Cond = {}
  WaitQueue = {m1, m2}
  MaxPriorities = 3
  SavedPriority <- ThreeTasks
INVARIANT RaisedMutexHasOwner
