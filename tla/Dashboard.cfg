SPECIFICATION FairSpec
CONSTANTS
  Node = {n1, n2}
  Request = {"90m", "nodes"}
  FetchTimeout = 1
  Interval = 2
  MaxChanges = 2
  MaxFailures = 2
INVARIANTS
  TypeOK
  
PROPERTIES
  ShownNeverBack
  PageCatchesUp
