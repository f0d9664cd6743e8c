SPECIFICATION Spec
CONSTANTS
  Task = {t1, t2, t3}
  Message = {m1, m2}
  receivers = receivers
  senders = senders
  WaitQueue = {receivers, senders}
  Null = null
  MsgSize = 2
  BufSize = 5
SYMMETRY Symmetry
INVARIANT NoLostWakeup
PROPERTY DeliversInOrder
