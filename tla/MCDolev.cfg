\* A ring with f = 1: longer ways, and nodes that announce too early.  The naive
\* variant runs on four nodes of its own.
SPECIFICATION FloodingSpec
CONSTANTS
  s = s
  a = a
  b = b
  c = c
  d = d
  e = e
  Node = {s, a, b, c, d}
  Neighbour <- Ring
  Source = s
  Silent = {}
  F = 1
  NaiveNode = {s, a, b, c}
  NaiveNeighbour <- Kite
  NaiveSource = s
INVARIANTS
  TypeOK PathsAreReal DeliveryIsBackedByPaths FloodReachesAll
  SpoofIsNotDelivered NaiveOnlyOvertakingHinders
PROPERTY ImplementsBroadcast
ACTION_CONSTRAINTS IdleFirst VainFirst
CHECK_DEADLOCK FALSE
