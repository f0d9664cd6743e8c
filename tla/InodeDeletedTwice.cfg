SPECIFICATION Spec
CONSTANTS
  Task = {t1, t2}
  Entry <- MCEntry
  Number <- MCNumber
  root = 1
  Name = {x, y}
  Connection = {c}
  LINK_MAX = 2
  Null = Null
SYMMETRY MCSymmetry
CHECK_DEADLOCK FALSE
INVARIANT FreedIsAllocated
