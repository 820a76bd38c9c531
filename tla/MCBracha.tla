------------------------------ MODULE MCBracha ------------------------------
EXTENDS Bracha, TLC

NonSenders == Permutations(Node \ Sender)
=============================================================================
