SPECIFICATION FairSpec
CONSTANTS
  Slot = {init, p, q, r}
  init_process = init
  Signal = {"STOP", "CHLD"}
  Masks = {{}, {"CHLD"}}
  Handlers <- MCHandlers
  sa_mask = {}
  Options = {{"NOHANG"}, {"UNTRACED"}}
  MaxBusy = 3
  MaxLeft = 0
  None = None
CHECK_DEADLOCK FALSE
INVARIANT FamilyIsSound
INVARIANT NoMissedChild
INVARIANT QueueIsPending
INVARIANT IgnoredIsNotDelivered
 
