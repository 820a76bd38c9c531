----------------------------- MODULE MCPrograms -----------------------------
EXTENDS Programs, MCNodeLifecycle

RightOf == <<2, 3, 1>>

\* Key 0 is a template; one list of neighbours holds a name that nobody has, one
\* the node itself.
Files == {<<0, 1, 2, 3>>, <<2, 3, 0, 1>>}
Lists == <<{2, 4}, {}, {3, 1}>>

\* Bound: a process that has stopped ends before it has answered twice more.
EchoesEnd == \A n \in DOMAIN counter : counter[n] <= 6

\* Bound: chains are followed three messages further than the property needs,
\* and not after a failed send, of which the property says nothing.
ShortChains == ~chainLost /\ \A m \in chains : Len(m.chain) <= 8

\* Bound: what has no effect any more happens at once.  These are repeated
\* greetings, and the news of the end where it has been passed on.
VainFirst ==
  LET vain == {m \in hellos : m.src \in Ring!Knows(m.dst)}
      old == {m \in BagToSet(transit) : m.type = "terminate" /\ m.dst \notin running}
  IN  program = "ring_election" =>
        IF vain # {} THEN vain \ hellos' # {}
        ELSE old # {} => old \ BagToSet(transit') # {}
=============================================================================
