SPECIFICATION Spec
CONSTANTS
  c1 = c1
  c2 = c2
  low = low
  mid = mid
  high = high
  m1 = m1
  m2 = m2
  cv = cv
  Null = Null
  CPU = {c1, c2}
  Task = {low, mid, high}
  Mutex = {m1}
  Cond = {cv}
  WaitQueue = {m1, cv}
  MaxPriorities = 3
  SavedPriority <- ThreeTasks
PROPERTIES
  ReturnsWithMutex
  KeepsSleepPromise
