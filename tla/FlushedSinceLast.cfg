SPECIFICATION Spec
CONSTANTS
  Check = {c1, c2}
  Extra = {c2}
  Window = 2
  PairWindow = 1
  Retention = 4
  DayLength = 2
  FlushInterval = 2
  Skew = 0
  Boot = 5
  MaxTime = 11
  MaxDeliveries = 1
  MaxStarts = 3
  Src <- OneNode
  Dst <- OneTarget
  PingOK = {c1, c2}
  HTTPOK = {c1}
  HourLength = 1
  MaxWrites = 0
  MaxDays = 1
CHECK_DEADLOCK FALSE
INVARIANTS
  FlushedSinceLast
