\* All nodes in one process: start-up completes.
SPECIFICATION FairSpec
CONSTANTS
  n1 = n1
  n2 = n2
  n3 = n3
  Node = {n1, n2, n3}
  OneProcess = TRUE
  MayTimeOut = TRUE
PROPERTY StartupCompletes
CHECK_DEADLOCK FALSE
