\* One process per node: late starts, lost casts, timeouts.  The programs of the
\* in4150 template, on a ring of three nodes and on two, and of distbench's
\* examples on three, and the three ways to run them.
SPECIFICATION ProgramsSpec
CONSTANTS
  n1 = n1
  n2 = n2
  n3 = n3
  Node = {n1, n2, n3}
  OneProcess = FALSE
  MayTimeOut = TRUE
  RingNode = {1, 2, 3}
  Right <- RightOf
  EchoNode = {1, 2}
  StartingNode = 1
  MaxEchoCount = 3
  Peer = {1, 2, 3}
  Starter = {1, 2}
  Sends = 1
  Initiator = 1
  MaxHops = 3
  Template = {0}
  File <- Files
  Listed <- Lists
SYMMETRY Nodes
INVARIANTS
  TypeOK ReadyToCommunicate ExitAfterAll
  RingOnlyTheLargest RingOneWayStops EchoOneMessage
  LayersEchoLast ChainsStopEveryone WiredSendersAreRecognised
PROPERTIES StartupIsBarrier ShutdownIsBarrier
CONSTRAINTS EchoesEnd ShortChains
ACTION_CONSTRAINT VainFirst
CHECK_DEADLOCK FALSE
