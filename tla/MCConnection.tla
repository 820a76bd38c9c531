---------------------------- MODULE MCConnection ----------------------------
EXTENDS Connection, TLC

CONSTANTS s1, s2, c1, c2

\* Two tasks send, a third casts twice.
Tasks == (s1 :> NoCall) @@ (s2 :> NoCall) @@ (c1 :> NoCall) @@ (c2 :> c1)
=============================================================================
