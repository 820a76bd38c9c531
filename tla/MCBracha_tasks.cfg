\* Three nodes: on_start races, messages that arrive before it, processes that
\* end while others send to them.
SPECIFICATION Spec
CONSTANTS
  n1 = n1
  n2 = n2
  n3 = n3
  Node = {n1, n2, n3}
  Sender = {n1}
  Silent = {}
  F = 0
  ProcessExit = TRUE
  Synchronised = FALSE
SYMMETRY NonSenders
INVARIANTS TypeOK OncePerPhase
PROPERTY ImplementsBroadcast
CHECK_DEADLOCK FALSE
