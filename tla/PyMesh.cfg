SPECIFICATION Spec
CONSTANTS
  BufferSize = 2
  Window = 2
  Retention = 4
  DayLength = 2
  FlushInterval = 2
  Boot = 4
  MaxCheck = 3
  MaxTime = 9
  MaxStarts = 2
CHECK_DEADLOCK FALSE
INVARIANTS
  TypeOK
  NewestKept
  DaysShown
