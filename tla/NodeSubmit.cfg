SPECIFICATION FairSpec
CONSTANTS
  MaxCheck = 4
  MaxCycle = 2
  MaxSize = 3
  MaxLate = 1
INVARIANTS
  TypeOK
  HeldInOrder
  ShortOutageLosesNothing
  ForgottenIsDelivered
  BufferBounded
PROPERTIES
  ImplementsOutbox
  EventuallyDelivered
