------------------------------ MODULE MCDolev ------------------------------
EXTENDS Dolev, TLC

CONSTANTS s, a, b, c, d, e

\* A ring in this order: b and c are no neighbours of the source s.
Ring ==
  (s :> {d, a}) @@ (a :> {s, b}) @@ (b :> {a, c}) @@ (c :> {b, d}) @@ (d :> {c, s})

(***************************************************************************)
(* Six nodes laid out as the ten of dolev_f_faulty.yaml: in a circle       *)
(* s a b d c e, each with a third neighbour across it.  The graph is       *)
(* 3-connected.  As there, the node across from the source is silent.      *)
(***************************************************************************)
Ladder ==
  (s :> {a, e, d}) @@ (a :> {s, b, c}) @@ (b :> {a, d, e}) @@ (d :> {b, c, s})
    @@ (c :> {d, e, a}) @@ (e :> {c, s, b})

(***************************************************************************)
(* Bound: what has no effect any more happens at once.  These are messages *)
(* to the source, of whose set of announcers no use is made, messages to a *)
(* node that has finished (MD5), and the end of a handler at a node that   *)
(* has delivered.  Nothing can prevent them or depends on when they happen.*)
(***************************************************************************)
IdleFirst ==
  LET idle == {m \in transit : m.dst = Source \/ Finished(m.dst)}
      over == {t \in tasks : Looped(t) /\ t.at \in delivered}
  IN  IF idle # {} THEN idle \ transit' # {}
      ELSE over # {} => over \ tasks' # {}

SwapSides == Permutations({a, e}) \cup Permutations({b, c})
=============================================================================
