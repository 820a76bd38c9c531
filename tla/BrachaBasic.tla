----------------------------- MODULE BrachaBasic -----------------------------
(***************************************************************************)
(* Bracha's broadcast without a Dolev child,                               *)
(* distbench/algorithms/bracha_basic.py: every phase is sent to every peer *)
(* directly.  A node counts neither its own ECHO nor its own READY, and    *)
(* never terminates.  State and channel are those of Bracha; expected      *)
(* stays empty, so that no delivery completes anything.                    *)
(***************************************************************************)
EXTENDS Bracha

\* The same tables as in bracha.py.
BasicInit == Init

BasicStartSend(n) ==
  /\ n \in Sender
  /\ onStart[n] = "idle"
  /\ onStart' = [onStart EXCEPT ![n] = "sending"]
  /\ Broadcast(n, "send", n)
  /\ UNCHANGED <<nodeVars, deliveryVars, expected, resuming, exited, got>>

BasicStartEcho(n) ==
  /\ onStart[n] = "sending"
  /\ onStart' = [onStart EXCEPT ![n] = "done"]
  /\ seen' = [seen EXCEPT ![n] = @ \cup {n}]
  /\ Broadcast(n, "echo", n)
  /\ UNCHANGED <<echos, readys, sentReady, deliveryVars, expected, resuming,
                 exited, got>>

BasicSend(n, d) ==
  LET m == d.msg IN
  /\ Takes(n, d, "send")
  /\ IF m \notin seen[n]
     THEN seen' = [seen EXCEPT ![n] = @ \cup {m}] /\ Broadcast(n, "echo", m)
     ELSE UNCHANGED seen /\ NoBroadcast
  /\ UNCHANGED <<echos, readys, sentReady, deliveryVars, expected, resuming>>

\* The other handlers are those of bracha.py, without its metrics.
BasicEcho(n, d) == EchoHandler(n, d)

BasicReady(n, d) == ReadyHandler(n, d)

BasicNext ==
  \/ \E n \in Node : Start(n) \/ BasicStartSend(n) \/ BasicStartEcho(n)
  \/ \E n \in Node : \E d \in dolev \ got[n] :
       BasicSend(n, d) \/ BasicEcho(n, d) \/ BasicReady(n, d)
  \/ \E n \in Node, m \in Sender : ReadyResume(n, m)

BasicSpec == BasicInit /\ [][BasicNext]_vars
=============================================================================
