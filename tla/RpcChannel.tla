----------------------------- MODULE RpcChannel -----------------------------
(***************************************************************************)
(* What a node may rely on when it sends or casts to a peer: a message is  *)
(* handled at most once, a send that returns has been handled, one that    *)
(* raises may have been, and every call returns or raises.                 *)
(***************************************************************************)
EXTENDS Sequences

CONSTANTS
  Call,      \* the calls of send and cast
  Answered   \* those of send

VARIABLES
  status,    \* how far each call has come
  handled    \* the messages the peer has handled, in order

vars == <<status, handled>>

Init ==
  /\ status = [c \in Call |-> "new"]
  /\ handled = <<>>

IsHandled(c) == \E i \in DOMAIN handled : handled[i] = c

Sets(c, s) == status' = [status EXCEPT ![c] = s] /\ UNCHANGED handled

Begin(c) == status[c] = "new" /\ Sets(c, "open")

\* The peer may handle a message after its call is over, but not before.
Handle(c) ==
  /\ status[c] # "new"
  /\ ~IsHandled(c)
  /\ handled' = Append(handled, c)
  /\ UNCHANGED status

Return(c) ==
  /\ status[c] = "open"
  /\ c \in Answered => IsHandled(c)
  /\ Sets(c, "ok")

Raise(c) == status[c] = "open" /\ Sets(c, "error")

Next == \E c \in Call : Begin(c) \/ Handle(c) \/ Return(c) \/ Raise(c)

Safety == Init /\ [][Next]_vars

Spec ==
  /\ Safety
  /\ \A c \in Call : WF_vars(Return(c) \/ Raise(c))
=============================================================================
