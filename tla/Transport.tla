------------------------------ MODULE Transport ------------------------------
(***************************************************************************)
(* WSTransport (compute_horde/transport/ws.py) under a miner client        *)
(* (compute_horde/miner_client/base.py): one task reads, others send, and  *)
(* each makes a new connection when it finds the old one broken.  start    *)
(* and stop take connect_lock; the reconnections of send and receive do    *)
(* not.  Every await is a point where another task may go on.              *)
(***************************************************************************)
EXTENDS Integers, FiniteSets

CONSTANTS
  SendTasks,     \* tasks that send: the job's own, and deferred_send_model
  ReconnectTries,\* max_retries, not 0
  MaxSockets     \* bound: connections made

ASSUME TransportAssumption == ReconnectTries \in Nat \ {0} /\ MaxSockets \in Nat \ {0}

Reader == "reader"
Tasks == SendTasks \cup {Reader}
Sockets == 1..MaxSockets

VARIABLES
  socket,    \* connection -> "unused", "open", "broken" or "closed"
  current,   \* _ws, 0 before start
  io,        \* task -> what it does: [at, on, tries]
  carried,   \* messages that were sent: <<task, connection>>
  overlap,   \* two tasks were connecting at the same time
  client     \* "new", "open", "closing" or "closed"

transportVars == <<socket, current, io, carried, overlap, client>>

At(a) == [at |-> a, on |-> 0, tries |-> 0]
IsOpen(c) == c # 0 /\ socket[c] = "open"
Connecting == {t \in Tasks : io[t].at = "connecting"}
NextSocket ==
  CHOOSE c \in Sockets :
    socket[c] = "unused" /\ \A d \in Sockets : d < c => socket[d] # "unused"

TransportInit ==
  /\ socket = [c \in Sockets |-> "unused"] /\ current = 0
  /\ io = [t \in Tasks |-> At("idle")] /\ carried = {} /\ overlap = FALSE /\ client = "new"

\* AbstractMinerClient.connect: start, then the task of read_messages
StartClient ==
  /\ client = "new" /\ client' = "open"
  /\ socket' = [socket EXCEPT ![1] = "open"] /\ current' = 1
  /\ io' = [io EXCEPT ![Reader] = [at |-> "recv", on |-> 1, tries |-> 0]]
  /\ UNCHANGED <<carried, overlap>>

BreakSocket(c) ==
  /\ socket[c] = "open" /\ socket' = [socket EXCEPT ![c] = "broken"]
  /\ UNCHANGED <<current, io, carried, overlap, client>>

\* connect(), as far as its first await: somebody else may have connected.
Reconnect(t, next) ==
  IF IsOpen(current) THEN io' = [io EXCEPT ![t] = next] /\ UNCHANGED overlap
  ELSE /\ io' = [io EXCEPT ![t] = At("connecting")]
       /\ overlap' = (overlap \/ Connecting \ {t} # {})

\* What a task does once it is connected: read self.ws, or send again.
Resume(t, c) == IF t = Reader THEN [at |-> "recv", on |-> c, tries |-> 0] ELSE At("send")

\* receive: recv() fails on the connection it waits on
ReceiveFails ==
  /\ io[Reader].at = "recv" /\ ~IsOpen(io[Reader].on)
  /\ Reconnect(Reader, Resume(Reader, current))
  /\ UNCHANGED <<socket, current, carried, client>>

BeginSend(t) ==
  /\ t \in SendTasks /\ client = "open" /\ io[t].at = "idle"
  /\ io' = [io EXCEPT ![t] = At("send")]
  /\ UNCHANGED <<socket, current, carried, overlap, client>>

\* send: through the current connection, or connect first
SendData(t) ==
  /\ t \in SendTasks /\ io[t].at = "send"
  /\ IF IsOpen(current)
     THEN /\ io' = [io EXCEPT ![t] = At("sent")] /\ carried' = carried \cup {<<t, current>>}
          /\ UNCHANGED overlap
     ELSE Reconnect(t, At("send")) /\ UNCHANGED carried
  /\ UNCHANGED <<socket, current, client>>

\* Mutant of ConnectOk: the new connection is returned, and _ws stays.
ConnectOkReturns(t) ==
  /\ io[t].at = "connecting" /\ \E c \in Sockets : socket[c] = "unused"
  /\ socket' = [socket EXCEPT ![NextSocket] = "open"]
  /\ io' = [io EXCEPT ![t] = Resume(t, NextSocket)]
  /\ UNCHANGED <<current, carried, overlap, client>>

\* websockets.connect succeeds: _ws is replaced, whatever it is by now.
ConnectOk(t) ==
  /\ io[t].at = "connecting" /\ \E c \in Sockets : socket[c] = "unused"
  /\ socket' = [socket EXCEPT ![NextSocket] = "open"] /\ current' = NextSocket
  /\ io' = [io EXCEPT ![t] = Resume(t, NextSocket)]
  /\ UNCHANGED <<carried, overlap, client>>

\* It fails max_retries times: TransportConnectionError ends the reader, while
\* AbstractMinerClient.send begins anew.
ConnectFails(t) ==
  /\ io[t].at = "connecting"
  /\ io' = [io EXCEPT ![t] = IF io[t].tries + 1 < ReconnectTries
                             THEN [io[t] EXCEPT !.tries = @ + 1]
                             ELSE IF t = Reader THEN At("dead") ELSE At("send")]
  /\ UNCHANGED <<socket, current, carried, overlap, client>>

\* close: deferred sends and the reader are cancelled, one after another, ...
CancelTasks ==
  /\ client = "open" /\ client' = "closing"
  /\ io' = [t \in Tasks |-> IF io[t].at \in {"sent", "dead"} THEN io[t] ELSE At("cancelled")]
  /\ UNCHANGED <<socket, current, carried, overlap>>

\* ... then stop closes the current connection.
StopTransport ==
  /\ client = "closing" /\ client' = "closed"
  /\ socket' = IF IsOpen(current) THEN [socket EXCEPT ![current] = "closed"] ELSE socket
  /\ UNCHANGED <<current, io, carried, overlap>>

TransportNext ==
  \/ StartClient \/ ReceiveFails \/ CancelTasks \/ StopTransport
  \/ \E c \in Sockets : BreakSocket(c)
  \/ \E t \in Tasks : BeginSend(t) \/ SendData(t) \/ ConnectOk(t) \/ ConnectFails(t)

TransportSpec == TransportInit /\ [][TransportNext]_transportVars

-----------------------------------------------------------------------------
(***************************************************************************)
(* The client hears the answers to what it sends: a reader that waits on a *)
(* live connection waits on the one that send uses.  If two tasks were     *)
(* connecting at once, each has made a connection, the later one is used,  *)
(* and the reader may be left waiting on the other.                        *)
(***************************************************************************)
ReaderHearsAnswers ==
  (client = "open" /\ io[Reader].at = "recv" /\ IsOpen(io[Reader].on) /\ ~overlap)
    => io[Reader].on = current

(***************************************************************************)
(* A closed client has no open connection, whichever tasks reconnected     *)
(* before, unless two of them did at once.                                 *)
(***************************************************************************)
ClosedClientIsGone ==
  (client = "closed" /\ ~overlap) => \A c \in Sockets : ~IsOpen(c)

\* One WSTransport shared by a reader and several senders that all reconnect:
\* the reader listens where the answers come, and a closed client has no open
\* connection, unless two tasks were connecting at once.
ConnectionIsTheClients ==
    /\ ReaderHearsAnswers
    /\ ClosedClientIsGone

=============================================================================
