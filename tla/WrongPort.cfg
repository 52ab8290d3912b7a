SPECIFICATION Spec
CONSTANTS
  Node = {n1, n2}
  Extra = {}
  ListenPort <- NodeDefaultPort
  DefaultListenPort = 58080
  MaxUpdates = 0
  MaxFailures = 0
  MaxRestarts = 0
  MaxCrashes = 0
INVARIANT RunningAnswers
