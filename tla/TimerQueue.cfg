SPECIFICATION FairSpec
CONSTANTS
  Process = {p1, p2}
  UsPerTick = 2
  Request <- MCRequest
  Drift <- MCDrift
  MaxLeft = 3
  K_NULL = null
INVARIANT StopIsFinal
INVARIANT TickAssertions
PROPERTY KeepsDeadlines
PROPERTY TimersExpire
