SPECIFICATION Spec
CONSTANTS
  Node = {n1, n2}
  Client = {c1, c2}
  Sizes = {"none", "good"}
  MaxUpdates = 1
  MaxFailures = 1
  MaxRestarts = 1
SYMMETRY Symmetry
INVARIANTS
  TypeOK
  QuiescentInSync
PROPERTY NeverBack
