--------------------------- MODULE DolevStandalone ---------------------------
(***************************************************************************)
(* dolev.py as the algorithm of a node, without a parent.  on_start goes   *)
(* on only in a node with behavior_mode BYZANTINE_SPOOF: it sends a        *)
(* message that claims to be of another node, and then broadcasts its own  *)
(* if it is a sender.  Any other node only handles messages.               *)
(*                                                                         *)
(* As in Dolev one message is followed: one that Source broadcasts, or one *)
(* that somebody else has made up in its name.                             *)
(***************************************************************************)
EXTENDS Dolev

VARIABLE spoofers   \* the nodes that have sent the message in Source's name

standaloneVars == <<vars, spoofers>>

\* trigger_byzantine_spoof: the message goes to the neighbours, with no path.
TriggerByzantineSpoof(p) ==
  /\ ~begun /\ spoofers = {}
  /\ p # Source
  /\ spoofers' = {p}
  /\ transit' = Messages(p, Hearers(p), <<>>)
  /\ UNCHANGED <<begun, paths, delivered, announced, told, tasks, deliveries>>

\* broadcast_message, after the spoof: the sender has delivered its message
\* before it sends it.  (The mode is BYZANTINE_SPOOF here, which leaves the
\* branch for BYZANTINE_SELECTIVE unused.)
BroadcastMessage ==
  /\ ~begun /\ spoofers = {}
  /\ begun' = TRUE
  /\ delivered' = delivered \cup {Source}
  /\ transit' = transit \cup Messages(Source, Hearers(Source), <<>>)
  /\ UNCHANGED <<paths, announced, told, tasks, deliveries, spoofers>>

\* my_deliver has no parent to await: what comes after it follows at once.
StandaloneHandles ==
  LET atParent == {t \in tasks : t.pc = "parent"} IN
  /\ IF atParent # {}
     THEN \E t \in atParent : ParentReturns(t)
     ELSE \/ \E m \in transit : Receive(m)
          \/ \E t \in tasks : Resume(t)
  /\ UNCHANGED spoofers

StandaloneInit == Init /\ spoofers = {}

StandaloneNext ==
  \/ \E p \in Node : TriggerByzantineSpoof(p)
  \/ BroadcastMessage
  \/ StandaloneHandles

StandaloneSpec == StandaloneInit /\ [][StandaloneNext]_standaloneVars

\* The handler does not check who sends a message with no path
\* (dolev.py:262-275): to take it for an announcement is enough that nobody
\* delivers a message that its source has not sent.
SpoofIsNotDelivered == spoofers # {} => delivered = {}
=============================================================================
