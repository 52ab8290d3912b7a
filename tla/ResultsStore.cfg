SPECIFICATION Spec
CONSTANTS
  Check = {c1, c2}
  Extra = {c2}
  Window = 2
  PairWindow = 1
  Retention = 4
  DayLength = 2
  FlushInterval = 2
  Skew = 0
  Boot = 5
  MaxTime = 10
  MaxDeliveries = 2
  MaxStarts = 2
  Src <- OneNode
  Dst <- OneTarget
  PingOK = {c1, c2}
  HTTPOK = {c1}
  HourLength = 1
  MaxWrites = 6
  MaxDays = 4
CHECK_DEADLOCK FALSE
INVARIANTS
  TypeOK
  CountedOnce
  RecentStaysRaw
  Durable
  Visible
  WrittenOnce
  HoursAddUp
  StatusSurvives
  FailureShows
  TornWriteCost
  DaysReadOnce
PROPERTY ImplementsLedger
