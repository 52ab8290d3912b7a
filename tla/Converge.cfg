SPECIFICATION FairSpec
CONSTANTS
  Node = {n1, n2}
  Client = {c1}
  Sizes = {"none"}
  MaxUpdates = 1
  MaxFailures = 1
  MaxRestarts = 0
PROPERTIES
  PeersConverge
  ConfigArrives
