\* n = 3f + 1 nodes, all honest: the thresholds of the three programs.
SPECIFICATION VariantsSpec
CONSTANTS
  Node = {1, 2, 3, 4}
  Sender = {1}
  Silent = {}
  F = 1
  ProcessExit = FALSE
  Synchronised = FALSE
  Neighbour <- Circle
  Rank <- Places
  EchoAmplification = TRUE
  SingleHopSend = TRUE
  ReducedMessages = TRUE
  Programs = {"bracha", "basic", "optimized"}
INVARIANTS ReadyBackedByEchoes DeliveryBackedByReadies DrainedMeansDelivered
  EchoesAreNotRepeated
ACTION_CONSTRAINTS StartsFirst HeardInOrder
CHECK_DEADLOCK FALSE
