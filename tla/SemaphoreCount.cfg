SPECIFICATION FairSpec
CONSTANTS
  Task = {t1, t2, t3, t4}
  WaitQueue = {sem}
  sem = sem
  Null = null
  InitialCount = 1
  MaxCount = 4
INVARIANT NoLostPut
PROPERTY CountIsTaken
