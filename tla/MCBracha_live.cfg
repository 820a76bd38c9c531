\* Two listeners whose messages reach each other, one silent node.
SPECIFICATION FairSpec
CONSTANTS
  n1 = n1
  n2 = n2
  n3 = n3
  Node = {n1, n2, n3}
  Sender = {n1, n2}
  Silent = {n3}
  F = 0
  ProcessExit = FALSE
  Synchronised = TRUE
PROPERTY Validity
CHECK_DEADLOCK FALSE
