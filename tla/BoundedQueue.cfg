SPECIFICATION FairSpec
CONSTANTS
  p1 = p1
  p2 = p2
  c1 = c1
  c2 = c2
  Threads = {p1, p2, c1, c2}
  NoThread = NoThread
  Value = {a, b}
  QueueSize = 2
  OpsOf <- BoundedOps
  MaxOps = 2
INVARIANT TypeOK
INVARIANT NoLostNotification
PROPERTY ImplementsFifo
PROPERTY SleepersWakeUp
CHECK_DEADLOCK FALSE
