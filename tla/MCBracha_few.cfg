\* Six nodes: the committees of ECHO and of READY leave nodes out.
SPECIFICATION OptimizedSpec
CONSTANTS
  Node = {1, 2, 3, 4, 5, 6}
  Sender = {1}
  Silent = {}
  F = 1
  ProcessExit = FALSE
  Synchronised = FALSE
  Neighbour <- Circle
  Rank <- Places
  EchoAmplification = TRUE
  SingleHopSend = TRUE
  ReducedMessages = TRUE
  Prompt = {1, 2, 4}
INVARIANT FewMessagesSuffice
ACTION_CONSTRAINTS StartsFirst HeardInTurn PromptFirst
CHECK_DEADLOCK FALSE
