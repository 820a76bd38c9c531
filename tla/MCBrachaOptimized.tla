------------------------- MODULE MCBrachaOptimized -------------------------
EXTENDS BrachaOptimized

CONSTANT Prompt   \* nodes that hear at once what they can hear

Circle == [n \in Node |-> {(n % N) + 1, ((n + N - 2) % N) + 1}]

Places == [n \in Node |-> n - 1]

\* Of the ECHOs, and of the READYs, of a message that are on their way a node
\* hears that of the lowest number: only how many it has heard matters to it.
InTurn(n, d) ==
  d.phase # "send" =>
    \A k \in Node \ {n} :
      LET other == [phase |-> d.phase, msg |-> d.msg, src |-> k] IN
      k < d.src /\ other \in dolev => other \in got[n]

\* Bound: every message is heard in its turn.
HeardInTurn == \A n \in Node : \A d \in got'[n] \ got[n] : InTurn(n, d)

CanHear(n, d) ==
  /\ d.src # n
  /\ d.phase = "send" => n \in Neighbour[d.src]
  /\ InTurn(n, d)

CanMove(n) ==
  \/ n \in Sender /\ onStart[n] \in {"idle", "sending"}
  \/ resuming[n] # {} \/ afterEcho[n] # {}
  \/ \E d \in dolev \ got[n] : CanHear(n, d)

Late == {n \in Node \ Sender : onStart[n] = "idle"}

\* Bound: other on_starts than the sender's, which do nothing, come first.
StartsFirst == Late # {} => onStart' # onStart

\* Bound: while a prompt node can take a step, the first of them takes the next.
PromptFirst ==
  \A n \in Prompt :
    Late = {} /\ CanMove(n) /\ (\A k \in Prompt : k < n => ~CanMove(k)) =>
      <<onStart[n], got[n], resuming[n], afterEcho[n]>>' #
      <<onStart[n], got[n], resuming[n], afterEcho[n]>>
=============================================================================
