----------------------------- MODULE Connection -----------------------------
(***************************************************************************)
(* The calls of one node to one peer: the ConnectionManager of             *)
(* distbench/connection.py over a TcpConnection and the peer's             *)
(* handle_client (transport/tcp.py), or over a LocalConnection             *)
(* (transport/offline.py), with or without the delays of                   *)
(* transport/delayed.py.                                                   *)
(*                                                                         *)
(* A call is one `send' or `cast' of one message and names that message,   *)
(* its answer and, if it connects, the connection: a call connects at most *)
(* once.  Every await is a point where other tasks run.  A frame carries   *)
(* nothing that tells which call an answer belongs to.                     *)
(***************************************************************************)
EXTENDS Naturals, Sequences, FiniteSets

CONSTANTS
  Call,        \* the calls
  Cast,        \* those of cast
  After,       \* call -> the call of the same task that comes before it
  MaxRetries,  \* ConnectionManager.max_retries
  MaxFaults,   \* bound: connections broken, manager closed, peer ended
  NoCall

\* `close', where it holds the manager's lock.
Closer == <<"close">>

ASSUME ConnectionAssumption ==
  /\ IsFiniteSet(Call)
  /\ NoCall \notin Call
  /\ Closer \notin Call \cup {NoCall}
  /\ Cast \subseteq Call
  /\ After \in [Call -> Call \cup {NoCall}]
  /\ MaxRetries \in Nat \ {0}
  /\ MaxFaults \in Nat

VARIABLES
  transport,   \* "tcp" or "local"
  peer,        \* the peer's server: "down", "up" or "ended"
  lock,        \* who holds the manager's lock
  connection,  \* the cached connection
  pc,          \* how far each call has come
  attempts,    \* failed attempts to connect of each call
  conn,        \* the connection each call uses
  answer,      \* what each send has returned
  opened,      \* the connections that were made
  closed,      \* those with closed set
  broken,      \* those over which nothing arrives any more
  faults,      \* faults so far
  holder,      \* connection -> who holds its lock
  out, in,     \* connection -> frames on their way to and from the peer
  serving,     \* connection -> the send that its handle_client handles
  handled      \* the messages handled, in the order of their handlers' start

managerVars == <<lock, connection>>
callVars == <<pc, attempts, conn, answer>>
streamVars == <<out, in, serving, handled>>
socketVars == <<opened, closed, broken, faults>>
vars == <<transport, peer, managerVars, callVars, streamVars, socketVars, holder>>

Null == Call \cup {NoCall}

TypeOK ==
  /\ transport \in {"tcp", "local"}
  /\ peer \in {"down", "up", "ended"}
  /\ lock \in Null \cup {Closer}
  /\ connection \in Null
  /\ pc \in [Call -> {"idle", "connecting", "using", "waiting", "failing",
                      "ok", "error"}]
  /\ attempts \in [Call -> 0..(MaxRetries - 1)]
  /\ conn \in [Call -> Null]
  /\ answer \in [Call -> Null]
  /\ opened \subseteq Call
  /\ closed \subseteq opened
  /\ broken \subseteq opened
  /\ faults \in Nat
  /\ holder \in [Call -> Null]
  /\ out \in [Call -> Seq(Call)]
  /\ in \in [Call -> Seq(Call)]
  /\ serving \in [Call -> Null]
  /\ handled \in Seq(Call)

None == [c \in Call |-> NoCall]

\* Slip: __init__ does not set self.connection.
InitManagerMissing == lock = NoCall /\ connection = Closer

InitManager == lock = NoCall /\ connection = NoCall

Init ==
  /\ transport \in {"tcp", "local"}
  /\ peer = IF transport = "tcp" THEN "down" ELSE "up"
  /\ InitManager
  /\ pc = [c \in Call |-> "idle"]
  /\ attempts = [c \in Call |-> 0]
  /\ conn = None /\ answer = None /\ holder = None /\ serving = None
  /\ opened = {} /\ closed = {} /\ broken = {} /\ faults = 0
  /\ out = [k \in Call |-> <<>>] /\ in = [k \in Call |-> <<>>]
  /\ handled = <<>>

Faults == faults < MaxFaults /\ faults' = faults + 1

Goes(c, place) == pc' = [pc EXCEPT ![c] = place]

Prefixes(s) == {SubSeq(s, 1, i) : i \in 0..Len(s)}

-----------------------------------------------------------------------------
(***************************************************************************)
(* _ensure_connected.  The lock is kept through all attempts.              *)
(***************************************************************************)
MayBegin(c) ==
  /\ pc[c] = "idle"
  /\ After[c] # NoCall => pc[After[c]] \in {"ok", "error"}

Reuse(c) ==
  /\ MayBegin(c)
  /\ lock = NoCall
  /\ connection # NoCall
  /\ conn' = [conn EXCEPT ![c] = connection]
  /\ Goes(c, "using")
  /\ UNCHANGED <<transport, peer, managerVars, attempts, answer, streamVars,
                 socketVars, holder>>

\* Slip: the lock is not held while connecting.
StartConnectUnlocked(c) ==
  /\ MayBegin(c)
  /\ lock = NoCall
  /\ connection = NoCall
  /\ Goes(c, "connecting")
  /\ UNCHANGED <<transport, peer, managerVars, attempts, conn, answer, streamVars,
                 socketVars, holder>>

StartConnect(c) ==
  /\ MayBegin(c)
  /\ lock = NoCall
  /\ connection = NoCall
  /\ lock' = c
  /\ Goes(c, "connecting")
  /\ UNCHANGED <<transport, peer, connection, attempts, conn, answer, streamVars,
                 socketVars, holder>>

\* The peer listens; in one process, it is registered.
Reachable == peer = "up"

Connects(c) ==
  /\ pc[c] = "connecting"
  /\ Reachable
  /\ opened' = opened \cup {c}
  /\ connection' = c
  /\ lock' = NoCall
  /\ conn' = [conn EXCEPT ![c] = c]
  /\ Goes(c, "using")
  /\ UNCHANGED <<transport, peer, attempts, answer, streamVars, closed, broken,
                 faults, holder>>

\* An attempt fails; there is another after a sleep, or the call raises.
ConnectFails(c) ==
  /\ pc[c] = "connecting"
  /\ ~Reachable
  /\ IF attempts[c] < MaxRetries - 1
     THEN /\ attempts' = [attempts EXCEPT ![c] = @ + 1]
          /\ UNCHANGED <<pc, lock>>
     ELSE /\ Goes(c, "error")
          /\ lock' = NoCall
          /\ UNCHANGED attempts
  /\ UNCHANGED <<transport, peer, connection, conn, answer, streamVars,
                 socketVars, holder>>

-----------------------------------------------------------------------------
(***************************************************************************)
(* TcpConnection.send and cast.  A DelayedConnection sleeps before either, *)
(* a call that has its connection thus does not write at once.             *)
(***************************************************************************)
HasConnection(c) == pc[c] = "using"

Locks(c) ==
  /\ transport = "tcp"
  /\ HasConnection(c)
  /\ holder[conn[c]] = NoCall

\* Connection is closed.
WriteRefused(c) ==
  /\ Locks(c)
  /\ conn[c] \in closed
  /\ Goes(c, "failing")
  /\ UNCHANGED <<transport, peer, managerVars, attempts, conn, answer, streamVars,
                 socketVars, holder>>

\* Slip: the lock is released before the answer is read.
WriteReleases(c) ==
  /\ Locks(c)
  /\ conn[c] \notin closed \cup broken
  /\ out' = [out EXCEPT ![conn[c]] = Append(@, c)]
  /\ Goes(c, IF c \in Cast THEN "ok" ELSE "waiting")
  /\ UNCHANGED <<transport, peer, managerVars, attempts, conn, answer, in, serving,
                 handled, socketVars, holder>>

\* What is written to a broken connection is lost, and a cast returns all the same.
Write(c) ==
  LET k == conn[c] IN
  /\ Locks(c)
  /\ k \notin closed
  /\ out' = IF k \in broken THEN out ELSE [out EXCEPT ![k] = Append(@, c)]
  /\ IF c \in Cast
     THEN Goes(c, "ok") /\ UNCHANGED holder
     ELSE Goes(c, "waiting") /\ holder' = [holder EXCEPT ![k] = c]
  /\ UNCHANGED <<transport, peer, managerVars, attempts, conn, answer, in, serving,
                 handled, socketVars>>

\* drain() raises.  close() does nothing as closed is set before it is called.
WriteFails(c) ==
  /\ Locks(c)
  /\ conn[c] \in broken \ closed
  /\ closed' = closed \cup {conn[c]}
  /\ Goes(c, "failing")
  /\ UNCHANGED <<transport, peer, managerVars, attempts, conn, answer, streamVars,
                 opened, broken, faults, holder>>

Waits(c) == transport = "tcp" /\ pc[c] = "waiting"

\* The answer is the next in the stream.
ReadAnswer(c) ==
  LET k == conn[c] IN
  /\ Waits(c)
  /\ in[k] # <<>>
  /\ answer' = [answer EXCEPT ![c] = Head(in[k])]
  /\ in' = [in EXCEPT ![k] = Tail(@)]
  /\ holder' = [holder EXCEPT ![k] = NoCall]
  /\ Goes(c, "ok")
  /\ UNCHANGED <<transport, peer, managerVars, attempts, conn, out, serving, handled,
                 socketVars>>

ReadFails(c) ==
  LET k == conn[c] IN
  /\ Waits(c)
  /\ in[k] = <<>> /\ k \in broken
  /\ closed' = closed \cup {k}
  /\ holder' = [holder EXCEPT ![k] = NoCall]
  /\ Goes(c, "failing")
  /\ UNCHANGED <<transport, peer, managerVars, attempts, conn, answer, streamVars,
                 opened, broken, faults>>

(***************************************************************************)
(* The except branch of ConnectionManager.send and cast: whatever is       *)
(* cached by now is dropped, be it the connection that failed or another.  *)
(***************************************************************************)
\* Slip: the connection is kept.
InvalidateKeeps(c) ==
  /\ pc[c] = "failing"
  /\ lock = NoCall
  /\ Goes(c, "error")
  /\ UNCHANGED <<transport, peer, managerVars, attempts, conn, answer, streamVars,
                 socketVars, holder>>

\* Slip: the message is sent once more.
InvalidateResends(c) ==
  /\ pc[c] = "failing"
  /\ lock = NoCall
  /\ connection' = NoCall
  /\ Goes(c, "idle")
  /\ UNCHANGED <<transport, peer, lock, attempts, conn, answer, streamVars,
                 socketVars, holder>>

Invalidate(c) ==
  /\ pc[c] = "failing"
  /\ lock = NoCall
  /\ connection' = NoCall
  /\ Goes(c, "error")
  /\ UNCHANGED <<transport, peer, lock, attempts, conn, answer, streamVars,
                 socketVars, holder>>

(***************************************************************************)
(* close, of Community.close_all: the writer is closed, then awaited.      *)
(***************************************************************************)
Close ==
  /\ transport = "tcp"
  /\ lock = NoCall
  /\ connection # NoCall
  /\ Faults
  /\ lock' = Closer
  /\ closed' = closed \cup {connection}
  /\ broken' = IF connection \in closed THEN broken ELSE broken \cup {connection}
  /\ UNCHANGED <<transport, peer, connection, callVars, streamVars, opened, holder>>

CloseEnds ==
  /\ lock = Closer
  /\ lock' = NoCall
  /\ connection' = NoCall
  /\ UNCHANGED <<transport, peer, callVars, streamVars, socketVars, holder>>

-----------------------------------------------------------------------------
(***************************************************************************)
(* handle_client: one message after the other.                             *)
(***************************************************************************)
Take(k) ==
  /\ transport = "tcp" /\ peer = "up"
  /\ out[k] # <<>>
  /\ serving[k] = NoCall
  /\ out' = [out EXCEPT ![k] = Tail(@)]
  /\ handled' = Append(handled, Head(out[k]))
  /\ serving' = IF Head(out[k]) \in Cast
                THEN serving ELSE [serving EXCEPT ![k] = Head(out[k])]
  /\ UNCHANGED <<transport, peer, managerVars, callVars, in, socketVars, holder>>

\* The handler of a send returns.  A broken connection loses the answer, and
\* may end handle_client, which reads no more.
Answer(k) ==
  /\ transport = "tcp"
  /\ serving[k] # NoCall
  /\ serving' = [serving EXCEPT ![k] = NoCall]
  /\ IF k \in broken
     THEN out' \in {out, [out EXCEPT ![k] = <<>>]} /\ UNCHANGED in
     ELSE in' = [in EXCEPT ![k] = Append(@, serving[k])] /\ UNCHANGED out
  /\ UNCHANGED <<transport, peer, managerVars, callVars, handled, socketVars, holder>>

\* The peer's process starts to serve, or ends with all that is on its way.
PeerStarts ==
  /\ peer = "down"
  /\ peer' = "up"
  /\ UNCHANGED <<transport, managerVars, callVars, streamVars, socketVars, holder>>

PeerEnds ==
  /\ transport = "tcp" /\ peer = "up"
  /\ Faults
  /\ peer' = "ended"
  /\ broken' = opened
  /\ out' = [k \in Call |-> <<>>]
  /\ in' \in {in, [k \in Call |-> <<>>]}
  /\ serving' = None
  /\ UNCHANGED <<transport, managerVars, callVars, handled, opened, closed,
                 holder>>

\* The network breaks a connection: what has arrived can still be read.
Break(k) ==
  /\ transport = "tcp"
  /\ k \in opened \ broken
  /\ Faults
  /\ broken' = broken \cup {k}
  /\ \E o \in Prefixes(out[k]), i \in Prefixes(in[k]) :
       out' = [out EXCEPT ![k] = o] /\ in' = [in EXCEPT ![k] = i]
  /\ UNCHANGED <<transport, peer, managerVars, callVars, serving, handled, opened,
                 closed, holder>>

-----------------------------------------------------------------------------
(***************************************************************************)
(* LocalConnection: send awaits the peer's handler; cast makes a task of   *)
(* it and returns.  Tasks start in the order in which they were made.      *)
(***************************************************************************)
LocalSend(c) ==
  /\ transport = "local"
  /\ HasConnection(c)
  /\ c \notin Cast
  /\ handled' = Append(handled, c)
  /\ Goes(c, "waiting")
  /\ UNCHANGED <<transport, peer, managerVars, attempts, conn, answer, out, in,
                 serving, socketVars, holder>>

LocalReturns(c) ==
  /\ transport = "local"
  /\ pc[c] = "waiting"
  /\ answer' = [answer EXCEPT ![c] = c]
  /\ Goes(c, "ok")
  /\ UNCHANGED <<transport, peer, managerVars, attempts, conn, streamVars,
                 socketVars, holder>>

LocalCast(c) ==
  /\ transport = "local"
  /\ HasConnection(c)
  /\ c \in Cast
  /\ out' = [out EXCEPT ![conn[c]] = Append(@, c)]
  /\ Goes(c, "ok")
  /\ UNCHANGED <<transport, peer, managerVars, attempts, conn, answer, in, serving,
                 handled, socketVars, holder>>

LocalTask(k) ==
  /\ transport = "local"
  /\ out[k] # <<>>
  /\ out' = [out EXCEPT ![k] = Tail(@)]
  /\ handled' = Append(handled, Head(out[k]))
  /\ UNCHANGED <<transport, peer, managerVars, callVars, in, serving, socketVars,
                 holder>>

-----------------------------------------------------------------------------
Proceeds(c) ==
  \/ Reuse(c) \/ StartConnect(c) \/ Connects(c) \/ ConnectFails(c)
  \/ WriteRefused(c) \/ Write(c) \/ WriteFails(c)
  \/ ReadAnswer(c) \/ ReadFails(c) \/ Invalidate(c)
  \/ LocalSend(c) \/ LocalReturns(c) \/ LocalCast(c)

Serves(k) == Take(k) \/ Answer(k) \/ LocalTask(k)

Next ==
  \/ \E c \in Call : Proceeds(c) \/ Serves(c) \/ Break(c)
  \/ Close \/ CloseEnds \/ PeerStarts \/ PeerEnds

Spec == Init /\ [][Next]_vars

(***************************************************************************)
(* asyncio runs every task that can run, the operating system reports a    *)
(* failed connection, and the peer's handlers return.                      *)
(***************************************************************************)
Fairness ==
  /\ \A c \in Call : WF_vars(Proceeds(c)) /\ WF_vars(Serves(c))
  /\ WF_vars(CloseEnds)

FairSpec == Spec /\ Fairness

-----------------------------------------------------------------------------
(***************************************************************************)
(* Properties.                                                             *)
(***************************************************************************)
\* A send returns the answer to its own message, whatever other calls share
\* the connection and wherever it breaks: only the order of the stream relates
\* the two (tcp.py:72-107 against 216-240).
AnswerIsOwn == \A c \in Call : pc[c] = "ok" /\ c \notin Cast => answer[c] = c

\* While nothing fails, the casts of one task are handled in the order in which
\* it made them, although other tasks may be the first to connect: there is one
\* connection (connection.py:64-78), read by one handle_client.  Without TCP a
\* send may overtake a cast: it is handled at once, the cast by a new task.
InOrder ==
  broken = {} =>
    \A j \in DOMAIN handled :
      LET b == After[handled[j]] IN
      /\ b # NoCall /\ pc[b] = "ok"
      /\ transport = "tcp" \/ handled[j] \in Cast
      => \E i \in 1..(j - 1) : handled[i] = b

\* A node connects anew only after a call on an earlier connection has failed
\* or the manager was closed (connection.py:121, 145 and 154): however many
\* tasks make the first call at once they share one connection.
ConnectionsBounded ==
  Cardinality(opened) <=
    1 + Cardinality(closed) + Cardinality({c \in Call : pc[c] = "error" /\ conn[c] \in closed})

\* A connection that is known to have failed does not stay in the cache: some
\* call is about to drop it, or the manager is being closed (connection.py:118-123).
CachedIsUsable ==
  connection \in closed =>
    \/ lock = Closer
    \/ \E c \in Call : pc[c] = "failing" /\ conn[c] = connection

\* What the algorithms rely on: at most once, a send that returns was handled,
\* every call returns or raises, also while connections break, the peer ends
\* and the manager is closed.
Rpc == INSTANCE RpcChannel WITH
  Answered <- Call \ Cast,
  status <- [c \in Call |->
               IF pc[c] = "idle" THEN "new"
               ELSE IF pc[c] \in {"ok", "error"} THEN pc[c] ELSE "open"]

ImplementsRpc == Rpc!Spec
=============================================================================
