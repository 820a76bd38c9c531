----------------------------- MODULE MCFlooding -----------------------------
EXTENDS Flooding, MCDolev

\* Four nodes, where s and c are the two that are no neighbours: on the way
\* to c the paths s a b and s b a meet every other path.
Kite == (s :> {a, b}) @@ (a :> {s, b, c}) @@ (b :> {s, a, c}) @@ (c :> {a, b})

ASSUME KiteAssumption == Naive!WaysApart /\ F <= 1

\* Bound: a my_deliver that will not deliver runs at once.  It changes
\* nothing, and every later handler calls my_deliver again.
VainFirst ==
  LET vain == {k \in nChecks : k.at \in nDelivered \/ ~Naive!DistPaths(k.at)}
  IN  vain # {} => vain \ nChecks' # {}
=============================================================================
