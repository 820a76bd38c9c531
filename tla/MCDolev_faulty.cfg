\* The layout of dolev_f_faulty.yaml with six nodes: f = 1, one silent node.
SPECIFICATION Spec
CONSTANTS
  s = s
  a = a
  b = b
  c = c
  d = d
  e = e
  Node = {s, a, b, c, d, e}
  Neighbour <- Ladder
  Source = s
  Silent = {d}
  F = 1
INVARIANT AllCorrectDeliver
SYMMETRY SwapSides
ACTION_CONSTRAINT IdleFirst
CHECK_DEADLOCK FALSE
