\* Completion is only checked on delivery.
SPECIFICATION Spec
CONSTANTS
  n1 = n1
  n2 = n2
  n3 = n3
  Node = {n1, n2, n3}
  Sender = {n1}
  Silent = {}
  F = 0
  ProcessExit = FALSE
  Synchronised = TRUE
INVARIANT CompletionNoticed
CHECK_DEADLOCK FALSE
