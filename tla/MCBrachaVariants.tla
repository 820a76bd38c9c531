-------------------------- MODULE MCBrachaVariants --------------------------
EXTENDS BrachaVariants

Circle == <<{2, 4}, {1, 3}, {2, 4}, {3, 1}>>

Places == <<0, 1, 2, 3>>

(***************************************************************************)
(* Bound: a node hears the ECHOs, and the READYs, of a message in the      *)
(* order of their senders' numbers, since only how many it has heard       *)
(* matters to it.  It does not wait for what an optimised node leaves out. *)
(***************************************************************************)
HeardInOrder ==
  \A n \in Node : \A d \in got'[n] \ got[n] : \A k \in Node \ {n} :
    LET other == [phase |-> d.phase, msg |-> d.msg, src |-> k] IN
    d.phase # "send" /\ k < d.src =>
      \/ other \in got[n]
      \/ /\ program = "optimized" /\ other \notin dolev
         /\ IF d.phase = "echo" THEN d.msg \in sentEcho[k] ELSE ~MayReady(k, d.msg)

\* Bound: other on_starts than the sender's come first, but for that of the last
\* node of bracha_basic.py, which handles messages before it.
StartsFirst ==
  (\E n \in Node \ Sender : onStart[n] = "idle" /\ (program = "basic" => n # N))
    => onStart' # onStart
=============================================================================
