SPECIFICATION FairSpec
CONSTANTS
  Node = {n1, n2}
  Extra = {n1}
  ListenPort <- NodeDefaultPort
  DefaultListenPort = 58080
  MaxUpdates = 1
  MaxFailures = 1
  MaxRestarts = 1
  MaxCrashes = 1
INVARIANTS
  TypeOK
  RegisteredInSync
PROPERTY MeshRecovers
