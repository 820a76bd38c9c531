--------------------------- MODULE MCNodeLifecycle ---------------------------
EXTENDS NodeLifecycle, TLC

Nodes == Permutations(Node)
=============================================================================
