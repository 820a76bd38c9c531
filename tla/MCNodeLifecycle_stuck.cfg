\* A peer that finishes early keeps a node from ever beginning.
SPECIFICATION FairSpec
CONSTANTS
  n1 = n1
  n2 = n2
  n3 = n3
  Node = {n1, n2, n3}
  OneProcess = TRUE
  MayTimeOut = FALSE
PROPERTY EveryNodeBegins
CHECK_DEADLOCK FALSE
