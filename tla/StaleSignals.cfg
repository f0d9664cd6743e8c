SPECIFICATION Spec
CONSTANTS
  Slot = {init, p, q}
  init_process = init
  Signal = {"KILL", "CHLD"}
  Masks = {{}, {"CHLD"}}
  Handlers <- MCHandlers
  sa_mask = {}
  Options = {{"NOHANG"}, {"UNTRACED"}}
  MaxBusy = 3
  MaxLeft = 1
  None = None
CHECK_DEADLOCK FALSE
INVARIANT IgnoredIsNotDelivered
