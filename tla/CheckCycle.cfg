SPECIFICATION FairSpec
CONSTANTS
  Target = {t1, t2}
  MaxPeers = 2
  MaxExtras = 1
  Limit = 2
INVARIANTS
  TypeOK
  AllChecked
  PoolBounded
  NoSendAfterClose
  NoneLeftBehind
PROPERTY CycleEnds
