--------------------------- MODULE ServicesProofs ---------------------------
(***************************************************************************)
(* Proofs about the parts around the validator that are small enough for   *)
(* one module each to hold their argument: the connection that a client's  *)
(* tasks share, the facilitator's channels, the pool that downloads        *)
(* answers, the fallback client's runs on a cloud, the executor's driver,  *)
(* the calls to the facilitator that are signed, what miners and           *)
(* validators fetch, the reports of miners' machines, the transfer of      *)
(* receipts, and the servers of a miner's executors.  Each argument is     *)
(* about its own specification; the parts share no variables.              *)
(***************************************************************************)
EXTENDS Transport, FacilitatorUpkeep, AnswerDownload, FallbackSdk, ExecutorDriver,
        SignedRequests, PeriodicFetches, MachineSpecs, ReceiptTransfer,
        DockerServers, SetFacts, SequenceTheorems

-----------------------------------------------------------------------------
(* Transport: one connection, many tasks *)

IoStates == {"idle", "recv", "send", "connecting", "sent", "dead", "cancelled"}
Ios == [at : IoStates, on : 0 .. MaxSockets, tries : Nat]

TransportTypes ==
  /\ socket \in [Sockets -> {"unused", "open", "broken", "closed"}]
  /\ current \in 0 .. MaxSockets
  /\ io \in [Tasks -> Ios]
  /\ overlap \in BOOLEAN

\* Unless two tasks were connecting at once, at most one task is connecting,
\* only while no connection is open, and the open connection is the current one.
OneConnection ==
  ~overlap =>
    /\ \A t, u \in Tasks : io[t].at = "connecting" /\ io[u].at = "connecting" => t = u
    /\ \A t \in Tasks : io[t].at = "connecting" => \A c \in Sockets : socket[c] # "open"
    /\ \A c \in Sockets : socket[c] = "open" => c = current

\* What the tasks may do before the client is connected and after it is closed.
ClientOrder ==
  /\ client = "new" => /\ \A t \in Tasks : io[t].at = "idle"
                       /\ \A c \in Sockets : socket[c] = "unused"
  /\ client \in {"closing", "closed"} =>
       \A t \in Tasks : io[t].at \in {"sent", "dead", "cancelled"}
  /\ ClosedClientIsGone

TransportInv == TransportTypes /\ OneConnection /\ ClientOrder

\* Nothing is connected yet.
LEMMA InitTransport == TransportInit => TransportInv
<1>. SUFFICES ASSUME TransportInit PROVE TransportInv
  OBVIOUS
<1>1. At("idle") \in Ios /\ At("idle").at = "idle"
  BY TransportAssumption DEF At, Ios, IoStates
<1>2. /\ \A t \in Tasks : io[t].at = "idle"
      /\ \A c \in Sockets : socket[c] = "unused"
      /\ io \in [Tasks -> Ios]
  BY <1>1 DEF TransportInit
<1>3. TransportTypes
  <2>1. current \in 0 .. MaxSockets
    BY TransportAssumption DEF TransportInit
  <2>2. socket \in [Sockets -> {"unused", "open", "broken", "closed"}] /\ overlap \in BOOLEAN
    BY DEF TransportInit
  <2>. QED BY <1>2, <2>1, <2>2 DEF TransportTypes
<1>. QED BY <1>2, <1>3 DEF TransportInit, TransportInv, OneConnection, ClientOrder,
       ClosedClientIsGone

\* The next connection is one that was not made before.
LEMMA NextSocketIsUnused ==
  ASSUME NEW c \in Sockets, socket[c] = "unused"
  PROVE  NextSocket \in Sockets /\ socket[NextSocket] = "unused"
<1>. DEFINE S == {d \in Sockets : socket[d] = "unused"}
<1>1. S \subseteq Nat /\ S # {}
  BY TransportAssumption DEF Sockets
<1>2. Min(S) \in S /\ \A y \in S : Min(S) <= y
  BY <1>1, NatMin
<1>3. \A d \in Sockets : d < Min(S) => socket[d] # "unused"
  BY <1>1, <1>2 DEF Sockets
<1>. QED BY <1>2, <1>3 DEF NextSocket

\* A task that must connect: nobody has yet, or somebody else is at it.
LEMMA ReconnectKeeps ==
  ASSUME TransportInv, NEW t \in Tasks, io[t].at \in {"recv", "send"}, NEW next \in Ios,
         next.at \in {"recv", "send"}, Reconnect(t, next), UNCHANGED <<socket, current, client>>
  PROVE  TransportInv'
<1>1. client \notin {"new", "closing", "closed"}
  BY DEF TransportInv, ClientOrder
<1>2. CASE IsOpen(current)
  <2>1. io' = [io EXCEPT ![t] = next] /\ UNCHANGED overlap
    BY <1>2 DEF Reconnect
  <2>2. TransportTypes'
    BY <2>1 DEF TransportInv, TransportTypes
  <2>3. OneConnection'
    BY <2>1 DEF TransportInv, TransportTypes, OneConnection
  <2>. QED BY <1>1, <2>2, <2>3 DEF TransportInv, ClientOrder, ClosedClientIsGone
<1>3. CASE ~IsOpen(current)
  <2>1. io' = [io EXCEPT ![t] = At("connecting")]
        /\ overlap' = (overlap \/ Connecting \ {t} # {})
    BY <1>3 DEF Reconnect
  <2>2. At("connecting") \in Ios /\ At("connecting").at = "connecting"
    BY TransportAssumption DEF At, Ios, IoStates
  <2>3. TransportTypes'
    BY <2>1, <2>2 DEF TransportInv, TransportTypes
  <2>4. ASSUME ~overlap' PROVE /\ ~overlap /\ \A u \in Tasks \ {t} : io[u].at # "connecting"
    BY <2>1, <2>4 DEF Connecting
  <2>5. OneConnection'
    <3>1. SUFFICES ASSUME ~overlap'
                   PROVE  /\ \A u, v \in Tasks : io'[u].at = "connecting" /\ io'[v].at = "connecting"
                                                   => u = v
                          /\ \A c \in Sockets : socket[c] # "open"
      BY DEF OneConnection
    <3>2. \A u \in Tasks \ {t} : io'[u].at # "connecting"
      BY <2>1, <2>4, <3>1 DEF TransportInv, TransportTypes
    <3>3. \A c \in Sockets : socket[c] # "open"
      BY <1>3, <2>4, <3>1, TransportAssumption DEF TransportInv, OneConnection, IsOpen, Sockets
    <3>. QED BY <3>2, <3>3
  <2>. QED BY <1>1, <2>3, <2>5 DEF TransportInv, ClientOrder, ClosedClientIsGone
<1>. QED BY <1>2, <1>3

\* Every step of the client, its tasks and the network keeps the invariant.
LEMMA NextTransport == TransportInv /\ [TransportNext]_transportVars => TransportInv'
<1>. SUFFICES ASSUME TransportInv, [TransportNext]_transportVars PROVE TransportInv'
  OBVIOUS
<1>. USE DEF TransportInv
<1>0. /\ 1 \in Sockets /\ \A c \in Sockets : c \in 0 .. MaxSockets /\ c # 0
      /\ Reader \in Tasks
      /\ \A a \in IoStates : At(a) \in Ios /\ At(a).at = a
      /\ \A c \in 0 .. MaxSockets : LET r == [at |-> "recv", on |-> c, tries |-> 0]
                                    IN r \in Ios /\ r.at = "recv"
  BY TransportAssumption DEF Sockets, Tasks, At, Ios, IoStates
<1>1. CASE StartClient
  <2>1. TransportTypes'
    BY <1>0, <1>1 DEF StartClient, TransportTypes
  <2>2. OneConnection'
    BY <1>0, <1>1 DEF StartClient, TransportTypes, OneConnection, ClientOrder
  <2>. QED BY <1>1, <2>1, <2>2 DEF StartClient, ClientOrder, ClosedClientIsGone
<1>2. ASSUME NEW c \in Sockets, BreakSocket(c) PROVE TransportInv'
  BY <1>2 DEF BreakSocket, TransportTypes, OneConnection, ClientOrder, ClosedClientIsGone, IsOpen
<1>3. CASE ReceiveFails
  <2>1. Resume(Reader, current) \in Ios /\ Resume(Reader, current).at = "recv"
    BY <1>0 DEF Resume, TransportTypes
  <2>. QED BY <1>0, <1>3, <2>1, ReconnectKeeps DEF ReceiveFails
<1>4. ASSUME NEW t \in Tasks, BeginSend(t) PROVE TransportInv'
  BY <1>0, <1>4 DEF BeginSend, IoStates, TransportTypes, OneConnection, ClientOrder, ClosedClientIsGone
<1>5. ASSUME NEW t \in Tasks, SendData(t) PROVE TransportInv'
  <2>1. At("send") \in Ios /\ At("send").at = "send" /\ At("sent") \in Ios /\ At("sent").at = "sent"
    BY <1>0 DEF IoStates
  <2>2. CASE IsOpen(current)
    <3>1. io' = [io EXCEPT ![t] = At("sent")] /\ UNCHANGED <<socket, current, overlap, client>>
          /\ client \notin {"new", "closing", "closed"}
      BY <1>5, <2>2 DEF SendData, ClientOrder
    <3>. QED BY <2>1, <3>1 DEF TransportTypes, OneConnection, ClientOrder, ClosedClientIsGone
  <2>3. CASE ~IsOpen(current)
    BY <1>5, <2>1, <2>3, ReconnectKeeps DEF SendData
  <2>. QED BY <2>2, <2>3
<1>6. ASSUME NEW t \in Tasks, ConnectOk(t) PROVE TransportInv'
  <2>. DEFINE n == NextSocket
              r == Resume(t, NextSocket)
  <2>1. n \in Sockets /\ socket[n] = "unused"
    BY <1>6, NextSocketIsUnused DEF ConnectOk
  <2>2. r \in Ios /\ r.at \in {"recv", "send"}
    BY <1>0, <2>1 DEF Resume, IoStates
  <2>3. /\ socket' = [socket EXCEPT ![n] = "open"] /\ current' = n /\ io' = [io EXCEPT ![t] = r]
        /\ UNCHANGED <<overlap, client>> /\ io[t].at = "connecting"
    BY <1>6 DEF ConnectOk
  <2>. HIDE DEF n, r
  <2>4. TransportTypes'
    BY <1>0, <2>1, <2>2, <2>3 DEF TransportTypes
  <2>5. client \notin {"new", "closing", "closed"}
    BY <2>3 DEF ClientOrder
  <2>6. OneConnection'
    BY <2>1, <2>2, <2>3 DEF OneConnection, TransportTypes
  <2>. QED BY <2>3, <2>4, <2>5, <2>6 DEF ClientOrder, ClosedClientIsGone
<1>7. ASSUME NEW t \in Tasks, ConnectFails(t) PROVE TransportInv'
  <2>1. PICK r \in Ios : io' = [io EXCEPT ![t] = r] /\ r.at \in {"connecting", "dead", "send"}
    <3>1. io[t] \in Ios
      BY DEF TransportTypes
    <3>2. [io[t] EXCEPT !.tries = @ + 1] \in Ios /\ [io[t] EXCEPT !.tries = @ + 1].at = io[t].at
      BY <3>1 DEF Ios
    <3>3. At("dead") \in Ios /\ At("send") \in Ios /\ At("dead").at = "dead" /\ At("send").at = "send"
      BY <1>0 DEF IoStates
    <3>4. io[t].at = "connecting"
      BY <1>7 DEF ConnectFails
    <3>. DEFINE again == [io[t] EXCEPT !.tries = @ + 1]
                r == IF io[t].tries + 1 < ReconnectTries THEN again
                     ELSE IF t = Reader THEN At("dead") ELSE At("send")
    <3>5. io' = [io EXCEPT ![t] = r]
      BY <1>7 DEF ConnectFails
    <3>6. r \in Ios /\ r.at \in {"connecting", "dead", "send"}
      BY <3>2, <3>3, <3>4
    <3>. QED BY <3>5, <3>6
  <2>2. io[t].at = "connecting" /\ UNCHANGED <<socket, current, overlap, client>>
        /\ client \notin {"new", "closing", "closed"}
    BY <1>7 DEF ConnectFails, ClientOrder
  <2>. QED BY <2>1, <2>2 DEF TransportTypes, OneConnection, ClientOrder, ClosedClientIsGone
<1>8. CASE CancelTasks
  <2>1. \A t \in Tasks : io'[t] \in Ios /\ io'[t].at \in {"sent", "dead", "cancelled"}
    BY <1>0, <1>8 DEF CancelTasks, TransportTypes, IoStates
  <2>2. io' = [t \in Tasks |-> io'[t]]
    BY <1>8 DEF CancelTasks
  <2>. QED BY <1>8, <2>1, <2>2 DEF CancelTasks, TransportTypes, OneConnection, ClientOrder,
         ClosedClientIsGone
<1>9. CASE StopTransport
  <2>1. \A c \in Sockets : socket'[c] = "open" => socket[c] = "open" /\ c # current
    BY <1>0, <1>9 DEF StopTransport, TransportTypes, IsOpen
  <2>2. TransportTypes'
    BY <1>0, <1>9 DEF StopTransport, TransportTypes
  <2>. QED BY <1>9, <2>1, <2>2 DEF StopTransport, OneConnection, ClientOrder, ClosedClientIsGone, IsOpen
<1>10. CASE UNCHANGED transportVars
  BY <1>10 DEF transportVars, TransportTypes, OneConnection, ClientOrder, ClosedClientIsGone, IsOpen
<1>. QED BY <1>1, <1>2, <1>3, <1>4, <1>5, <1>6, <1>7, <1>8, <1>9, <1>10 DEF TransportNext

\* WSTransport under any number of senders: unless two tasks were connecting at
\* once, the reader waits where the answers come, and a client that was closed
\* has left no connection open.
THEOREM ConnectionAlwaysTheClients == TransportSpec => []ConnectionIsTheClients
<1>1. TransportInv => ConnectionIsTheClients
  BY DEF TransportInv, TransportTypes, OneConnection, ClientOrder, ConnectionIsTheClients,
     ReaderHearsAnswers, IsOpen, Ios, Tasks, Sockets
<1>. QED BY InitTransport, NextTransport, <1>1, PTL DEF TransportSpec

-----------------------------------------------------------------------------
(* FacilitatorUpkeep: the channels of a validator *)

FacilitatorTypes ==
  /\ visit \in [Visits -> {"none", "checked", "authenticated", "closed"}]
  /\ row \in [Visits -> {"none", "fresh", "late", "dead"}]
  /\ sync \in [at : {"idle", "deactivate", "tell", "tell_dead", "drop", "activate"},
               listed : BOOLEAN, off : BOOLEAN]
  /\ isActive \in BOOLEAN /\ staked \in BOOLEAN

\* Between its last two queries, sync_validators has told every channel that it
\* will drop, or the channel grew too old after the first of them.
DroppedAreTold ==
  sync.at = "drop" => \A c \in Visits : row[c] = "dead" => c \in told \cup crossed

\* Once the deactivated validator's channels were told, every connection of it
\* was told, had been checked before, or has lost its row.
InactiveIsTold ==
  ~isActive =>
    /\ \A c \in Visits : visit[c] = "checked" => c \in unseen
    /\ ~(sync.at = "tell" /\ sync.off) =>
         \A c \in Visits : visit[c] = "authenticated" =>
           c \in told \cup unseen \/ (c \in crossed /\ row[c] = "none")

FacilitatorInv ==
  FacilitatorTypes /\ ConnectedIsReachable /\ DroppedAreTold /\ InactiveIsTold

\* No connection, an active validator.
LEMMA InitFacilitator == FacilitatorInit => FacilitatorInv
BY DEF FacilitatorInit, FacilitatorInv, FacilitatorTypes, Resting, ConnectedIsReachable,
   DroppedAreTold, InactiveIsTold

\* Every step of the consumers and of sync_validators keeps the invariant.
LEMMA NextFacilitator == FacilitatorInv /\ [FacilitatorNext]_facilitatorVars => FacilitatorInv'
<1>. SUFFICES ASSUME FacilitatorInv, [FacilitatorNext]_facilitatorVars PROVE FacilitatorInv'
  OBVIOUS
<1>. USE DEF FacilitatorInv, FacilitatorTypes, ConnectedIsReachable, DroppedAreTold, InactiveIsTold
<1>1. CASE MetagraphChanges
  BY <1>1 DEF MetagraphChanges
<1>2. ASSUME NEW c \in Visits, CheckValidator(c) PROVE FacilitatorInv'
  BY <1>2 DEF CheckValidator
<1>3. ASSUME NEW c \in Visits, ConnectChannel(c) PROVE FacilitatorInv'
  BY <1>3 DEF ConnectChannel
<1>4. ASSUME NEW c \in Visits, Heartbeat(c) PROVE FacilitatorInv'
  BY <1>4 DEF Heartbeat
<1>5. ASSUME NEW c \in Visits, HeartbeatsLate(c) PROVE FacilitatorInv'
  BY <1>5 DEF HeartbeatsLate
<1>6. ASSUME NEW c \in Visits, Disconnected(c) PROVE FacilitatorInv'
  BY <1>6 DEF Disconnected
<1>7. CASE StartSync
  <2>1. sync'.at = "deactivate" /\ UNCHANGED <<staked, isActive, visit, row, told, crossed, unseen>>
    BY <1>7 DEF StartSync
  <2>2. sync' \in [at : {"idle", "deactivate", "tell", "tell_dead", "drop", "activate"},
                   listed : BOOLEAN, off : BOOLEAN]
    BY <1>7 DEF StartSync
  <2>3. sync.at = "idle"
    BY <1>7 DEF StartSync, Resting
  <2>4. FacilitatorTypes' /\ ConnectedIsReachable' /\ DroppedAreTold'
    BY <2>1, <2>2
  <2>5. InactiveIsTold'
    BY <2>1, <2>3
  <2>. QED BY <2>4, <2>5
<1>8. CASE Deactivate
  BY <1>8 DEF Deactivate
<1>9. CASE TellDeactivated
  BY <1>9 DEF TellDeactivated
<1>10. CASE TellDead
  BY <1>10 DEF TellDead
<1>11. CASE DropDead
  BY <1>11 DEF DropDead
<1>12. CASE Activate
  BY <1>12 DEF Activate, Resting
<1>13. CASE UNCHANGED facilitatorVars
  BY <1>13 DEF facilitatorVars
<1>. QED BY <1>1, <1>2, <1>3, <1>4, <1>5, <1>6, <1>7, <1>8, <1>9, <1>10, <1>11, <1>12, <1>13
         DEF FacilitatorNext

\* The Channel rows against the connections, for any number of connections: a
\* connected validator has its row or is told to connect again, and one that
\* left the metagraph is told to disconnect, but for the channels that crossed
\* a limit between two queries of sync_validators.
THEOREM ChannelsAlwaysMatch == FacilitatorSpec => []ChannelsMatchValidators
<1>1. FacilitatorInv => ChannelsMatchValidators
  BY DEF FacilitatorInv, InactiveIsTold, ChannelsMatchValidators, DeactivatedIsDisconnected, Resting
<1>. QED BY InitFacilitator, NextFacilitator, <1>1, PTL DEF FacilitatorSpec

-----------------------------------------------------------------------------
(* AnswerDownload: the workers of one queue *)

IdleHands == {w \in Pool : hand[w] = <<"idle">>}
Hands == {<<"idle">>, <<"exited">>, <<"dead">>} \cup {<<"task", d>> : d \in Downloads}

\* Once a worker has left, the queue had been empty: what was put back since is
\* no more than the workers that put it back and look again.
DownloadInv ==
  /\ queue \in Seq(Downloads) /\ hand \in [Pool -> Hands]
  /\ attempt \in [Downloads -> Nat]
  /\ (\E w \in Pool : hand[w] = <<"exited">>) => Len(queue) <= Cardinality(IdleHands)

\* Every worker is idle.
LEMMA InitDownload == DownloadInit => DownloadInv
<1>. SUFFICES ASSUME DownloadInit PROVE DownloadInv
  OBVIOUS
<1>1. queue \in Seq(Downloads)
  BY DownloadAssumption, FS_CardinalityType DEF DownloadInit
<1>2. hand \in [Pool -> Hands] /\ \A w \in Pool : hand[w] # <<"exited">>
  BY DEF DownloadInit, Hands
<1>. QED BY <1>1, <1>2 DEF DownloadInit, DownloadInv

\* Every step of the workers keeps the invariant.
LEMMA NextDownload == DownloadInv /\ [DownloadNext]_downloadVars => DownloadInv'
<1>. SUFFICES ASSUME DownloadInv, [DownloadNext]_downloadVars PROVE DownloadInv'
  OBVIOUS
<1>0. /\ \A w \in Pool : IsFiniteSet(IdleHands \cup {w}) /\ IsFiniteSet(IdleHands \ {w})
      /\ IsFiniteSet(IdleHands) /\ Cardinality(IdleHands) \in Nat /\ Len(queue) \in Nat
      /\ \A w \in Pool \ IdleHands : Cardinality(IdleHands \cup {w}) = Cardinality(IdleHands) + 1
      /\ \A w \in IdleHands : Cardinality(IdleHands \ {w}) = Cardinality(IdleHands) - 1
  <2>1. IsFiniteSet(IdleHands)
    BY DownloadAssumption, FS_Subset DEF IdleHands
  <2>2. \A w \in Pool : IsFiniteSet(IdleHands \cup {w}) /\ IsFiniteSet(IdleHands \ {w})
    BY <2>1, FS_AddElement, FS_RemoveElement
  <2>3. Cardinality(IdleHands) \in Nat
    BY <2>1, FS_CardinalityType
  <2>4. Len(queue) \in Nat
    BY DEF DownloadInv
  <2>5. ASSUME NEW w \in Pool \ IdleHands
        PROVE  Cardinality(IdleHands \cup {w}) = Cardinality(IdleHands) + 1
    BY <2>1, <2>5, FS_AddElement
  <2>6. ASSUME NEW w \in IdleHands
        PROVE  Cardinality(IdleHands \ {w}) = Cardinality(IdleHands) - 1
    BY <2>1, <2>6, FS_RemoveElement
  <2>. QED BY <2>1, <2>2, <2>3, <2>4, <2>5, <2>6
<1>1. ASSUME NEW w \in Pool, TakeTask(w) PROVE DownloadInv'
  <2>1. CASE queue = <<>>
    <3>1. hand' = [hand EXCEPT ![w] = <<"exited">>] /\ queue' = <<>> /\ UNCHANGED attempt
      BY <1>1, <2>1 DEF TakeTask
    <3>2. IdleHands' = IdleHands \ {w} /\ w \in IdleHands
      BY <1>1, <3>1 DEF TakeTask, IdleHands, DownloadInv
    <3>3. Cardinality(IdleHands') \in Nat /\ Len(queue') = 0
      BY <1>0, <3>1, <3>2, FS_CardinalityType
    <3>4. hand' \in [Pool -> Hands]
      BY <3>1 DEF DownloadInv, Hands
    <3>. QED BY <3>1, <3>3, <3>4 DEF DownloadInv
  <2>2. CASE queue # <<>>
    <3>1. hand' = [hand EXCEPT ![w] = <<"task", Head(queue)>>] /\ queue' = Tail(queue)
          /\ hand[w] = <<"idle">> /\ UNCHANGED attempt
      BY <1>1, <2>2 DEF TakeTask
    <3>2. IdleHands' = IdleHands \ {w} /\ w \in IdleHands
      BY <3>1 DEF IdleHands, DownloadInv
    <3>3. Head(queue) \in Downloads /\ queue' \in Seq(Downloads) /\ Len(queue') = Len(queue) - 1
      BY <2>2, <3>1 DEF DownloadInv
    <3>4. hand' \in [Pool -> Hands]
      BY <3>1, <3>3 DEF DownloadInv, Hands
    <3>5. (\E v \in Pool : hand'[v] = <<"exited">>) => \E v \in Pool : hand[v] = <<"exited">>
      BY <3>1 DEF DownloadInv
    <3>6. Cardinality(IdleHands') = Cardinality(IdleHands) - 1
      BY <1>0, <3>2
    <3>7. (\E v \in Pool : hand'[v] = <<"exited">>) => Len(queue') <= Cardinality(IdleHands')
      BY <1>0, <3>3, <3>5, <3>6 DEF DownloadInv
    <3>. QED BY <3>1, <3>3, <3>4, <3>7 DEF DownloadInv
  <2>. QED BY <2>1, <2>2
<1>2. ASSUME NEW w \in Pool, NEW d \in Downloads, Downloaded(w, d) \/ HttpError(w, d)
      PROVE  DownloadInv'
  <2>1. hand' = [hand EXCEPT ![w] = <<"idle">>] /\ hand[w] = <<"task", d>>
    BY <1>2 DEF Downloaded, HttpError
  <2>2. IdleHands' = IdleHands \cup {w} /\ w \notin IdleHands
    BY <2>1 DEF IdleHands, DownloadInv
  <2>3. queue' \in Seq(Downloads) /\ Len(queue') <= Len(queue) + 1
    <3>1. queue' = queue \/ queue' = Append(queue, d)
      BY <1>2 DEF Downloaded, HttpError
    <3>2. queue \in Seq(Downloads) /\ Append(queue, d) \in Seq(Downloads)
          /\ Len(Append(queue, d)) = Len(queue) + 1
      BY DEF DownloadInv
    <3>. QED BY <1>0, <3>1, <3>2
  <2>4. hand' \in [Pool -> Hands] /\ attempt' \in [Downloads -> Nat]
    <3>1. hand' \in [Pool -> Hands]
      BY <2>1 DEF DownloadInv, Hands
    <3>2. attempt' = attempt \/ attempt' = [attempt EXCEPT ![d] = attempt[d] + 1]
      BY <1>2 DEF Downloaded, HttpError
    <3>3. attempt \in [Downloads -> Nat] /\ attempt[d] + 1 \in Nat
      BY DEF DownloadInv
    <3>4. [attempt EXCEPT ![d] = attempt[d] + 1] \in [Downloads -> Nat]
      BY <3>3
    <3>. QED BY <3>1, <3>2, <3>3, <3>4
  <2>5. (\E v \in Pool : hand'[v] = <<"exited">>) => \E v \in Pool : hand[v] = <<"exited">>
    BY <2>1 DEF DownloadInv
  <2>6. Len(queue') \in Nat
    BY <2>3
  <2>7. Cardinality(IdleHands') = Cardinality(IdleHands) + 1
    BY <1>0, <2>2
  <2>8. (\E v \in Pool : hand'[v] = <<"exited">>) => Len(queue') <= Cardinality(IdleHands')
    BY <1>0, <2>3, <2>5, <2>6, <2>7 DEF DownloadInv
  <2>. QED BY <2>3, <2>4, <2>8 DEF DownloadInv
<1>3. ASSUME NEW w \in Pool, NEW d \in Downloads, OtherError(w, d) PROVE DownloadInv'
  <2>1. hand' = [hand EXCEPT ![w] = <<"dead">>] /\ hand[w] = <<"task", d>>
        /\ UNCHANGED <<queue, attempt>>
    BY <1>3 DEF OtherError
  <2>2. IdleHands' = IdleHands
    BY <2>1 DEF IdleHands, DownloadInv
  <2>3. (\E v \in Pool : hand'[v] = <<"exited">>) => \E v \in Pool : hand[v] = <<"exited">>
    BY <2>1 DEF DownloadInv
  <2>4. hand' \in [Pool -> Hands]
    BY <2>1 DEF DownloadInv, Hands
  <2>. QED BY <2>1, <2>2, <2>3, <2>4 DEF DownloadInv
<1>4. CASE UNCHANGED downloadVars
  BY <1>4 DEF downloadVars, DownloadInv, IdleHands
<1>. QED BY <1>1, <1>2, <1>3, <1>4 DEF DownloadNext

\* A pool of any size: a download put back into the queue is taken again, by the
\* worker that put it back at the latest, unless every worker died.
THEOREM NoDownloadEverIgnored == DownloadSpec => []NoDownloadIgnored
<1>1. DownloadInv => NoDownloadIgnored
  <2>. SUFFICES ASSUME DownloadInv, \A w \in Pool : hand[w] \in {<<"exited">>, <<"dead">>},
                       NEW w \in Pool, hand[w] # <<"dead">>
                PROVE  queue = <<>>
    BY DEF NoDownloadIgnored
  <2>1. IdleHands = {} /\ hand[w] = <<"exited">>
    BY DEF IdleHands
  <2>2. Len(queue) <= 0 /\ queue \in Seq(Downloads)
    BY <2>1, FS_EmptySet DEF DownloadInv
  <2>. QED BY <2>2
<1>. QED BY InitDownload, NextDownload, <1>1, PTL DEF DownloadSpec

-----------------------------------------------------------------------------
(* FallbackSdk: one job at a time on the cloud *)

SkyStates == SkyOver \cup {"unknown", "pending", "setup", "volumes", "command", "uploads", "down"}
Steps == {"volumes", "command", "uploads"}

\* What a script has done when it is where it is.
ScriptOrder ==
  \A a \in Attempts :
    /\ sky[a] \in {"unknown", "pending", "setup", "volumes"} => made[a] = {}
    /\ sky[a] = "command" => made[a] = {"volumes"}
    /\ sky[a] = "uploads" => made[a] = {"volumes", "command"}
    /\ sky[a] = "SUCCEEDED" => made[a] = Steps

\* A status that ends the wait was seen on the cloud, and the attempts before
\* the current one are over.
FallbackInv ==
  /\ runs \in 0 .. MaxRuns
  /\ sky \in [Attempts -> SkyStates] /\ made \in [Attempts -> SUBSET Steps]
  /\ ScriptOrder
  /\ OneCloudJobAtATime
  /\ runs = 0 => status = "SENT" /\ fbPhase = "create"
  /\ status \notin InProgress => Over(runs)
  /\ status = "COMPLETED" => made[runs] = Steps
  /\ fbPhase = "create" /\ runs # 0 => Over(runs)
  /\ fbPhase = "closed" => tunnels = {}

\* Nothing was launched.
LEMMA InitFallback == FallbackInit => FallbackInv
BY FallbackAssumption DEF FallbackInit, FallbackInv, Attempts, SkyStates, ScriptOrder,
   OneCloudJobAtATime, InProgress

\* The cloud's own steps: what is over stays over, and what it has done stays.
LEMMA CloudKeeps ==
  ASSUME FallbackInv, NEW a \in Attempts, CloudStep(a)
  PROVE  FallbackInv'
<1>. USE DEF FallbackInv
<1>1. /\ UNCHANGED <<runs, fbPhase, status, tunnels>>
      /\ \A b \in Attempts \ {a} : sky'[b] = sky[b] /\ made'[b] = made[b]
      /\ sky' \in [Attempts -> SkyStates] /\ made' \in [Attempts -> SUBSET Steps]
  BY DEF CloudStep, ScriptStep, SkyMoves, SkyStates, SkyOver, Steps
<1>2. ScriptOrder'
  BY <1>1 DEF ScriptOrder, CloudStep, ScriptStep, SkyMoves, SkyOver, Steps
<1>3. \A b \in Attempts : Over(b) => Over(b)' /\ made'[b] = made[b]
  BY <1>1 DEF CloudStep, ScriptStep, SkyMoves, SkyOver, Over
<1>4. 1 .. runs \subseteq Attempts
  BY FallbackAssumption DEF Attempts
<1>. QED BY <1>1, <1>2, <1>3, <1>4 DEF OneCloudJobAtATime, InProgress

\* Polling the current attempt.
LEMMA RefreshKeeps ==
  ASSUME FallbackInv, NEW next \in {"accepting", "waiting"}, Refresh(next),
         fbPhase \in {"accepting", "waiting"}
  PROVE  FallbackInv'
<1>. USE DEF FallbackInv
<1>1. runs \in Attempts /\ runs # 0
  BY FallbackAssumption DEF Attempts
<1>2. UNCHANGED <<runs, sky, made, tunnels>> /\ fbPhase' \in {"accepting", "waiting", "raised"}
  BY DEF Refresh
<1>3. /\ status' \notin InProgress => Over(runs)
      /\ status' = "COMPLETED" => made[runs] = Steps
  <2>1. CASE UNCHANGED status
    BY <2>1
  <2>2. CASE sky[runs] # "down" /\ status' = GetStatus(runs)
    <3>1. sky[runs] \in SkyStates \ {"down"}
      BY <1>1, <2>2
    <3>. QED BY <1>1, <2>2, <3>1 DEF GetStatus, Over, SkyOver, SkyStates, InProgress, ScriptOrder
  <2>. QED BY <2>1, <2>2 DEF Refresh
<1>. QED BY <1>1, <1>2, <1>3 DEF OneCloudJobAtATime, ScriptOrder, Over

\* Every step of the client and of the cloud keeps the invariant.
LEMMA NextFallback == FallbackInv /\ [FallbackNext]_fallbackVars => FallbackInv'
<1>. SUFFICES ASSUME FallbackInv, [FallbackNext]_fallbackVars PROVE FallbackInv'
  OBVIOUS
<1>1. CASE CreateJob
  <2>1. /\ runs' = runs + 1 /\ status' = "SENT" /\ UNCHANGED <<sky, made>> /\ runs < MaxRuns
        /\ fbPhase' \in {"accepting", "raised", "waiting"} /\ fbPhase = "create"
    BY <1>1 DEF CreateJob, CreateTunnel
  <2>2. \A a \in Attempts : a < runs' => Over(a)
    BY <2>1, FallbackAssumption DEF FallbackInv, OneCloudJobAtATime, Attempts
  <2>. QED BY <2>1, <2>2, FallbackAssumption
           DEF FallbackInv, ScriptOrder, OneCloudJobAtATime, Over, InProgress
<1>2. CASE WaitForAcceptance \/ Wait
  <2>1. CASE Refresh("accepting") \/ Refresh("waiting")
    BY <1>2, <2>1, RefreshKeeps DEF WaitForAcceptance, Wait
  <2>2. CASE ~(Refresh("accepting") \/ Refresh("waiting"))
    BY <1>2, <2>2 DEF WaitForAcceptance, Wait, FallbackInv, ScriptOrder, OneCloudJobAtATime, Over
  <2>. QED BY <2>1, <2>2
<1>3. CASE WaitForHealth
  BY <1>3 DEF WaitForHealth, FallbackInv, ScriptOrder, OneCloudJobAtATime, Over
<1>4. CASE Settle
  BY <1>4 DEF Settle, FallbackInv, ScriptOrder, OneCloudJobAtATime, Over
<1>5. CASE Exit
  BY <1>5 DEF Exit, FallbackInv, ScriptOrder, OneCloudJobAtATime, Over
<1>6. CASE UNCHANGED fallbackVars
  BY <1>6 DEF fallbackVars, FallbackInv, ScriptOrder, OneCloudJobAtATime, Over
<1>. QED BY <1>1, <1>2, <1>3, <1>4, <1>5, <1>6, CloudKeeps DEF FallbackNext

\* However often a job is run again, and whatever polling shows of the cloud in
\* between: no attempt starts before the one before it is over, a job returned
\* as completed ran all of its script, and no tunnel outlives the client.
THEOREM FallbackRunsAlwaysSound == FallbackSpec => []FallbackRunsAreSound
<1>1. FallbackInv => FallbackRunsAreSound
  BY DEF FallbackInv, FallbackRunsAreSound, CompletedJobsAreWhole, NoTunnelOutlivesClient, Steps
<1>. QED BY InitFallback, NextFallback, <1>1, PTL DEF FallbackSpec

-----------------------------------------------------------------------------
(* The executor's driver: its last word, and two clocks *)

DriverStages == Starting \cup {"certificate", "download", "start", "run", "upload", "over"}
DriverWords == {"ready", "volumes", "streaming", "execution"} \cup Ended
Waiting == {"volumes", "streaming", "execution", "final"}

DriverTypes ==
  /\ clock \in Nat /\ stream \in BOOLEAN /\ stage \in DriverStages
  /\ deadline \in Nat /\ vdeadline \in Nat
  /\ said \in Seq([what : DriverWords, at : Nat])
  /\ waits \in Waiting \cup {"ready", "ok", "timeout", "failed"}

\* The messages of the executor, and the one that ends a stage of the validator.
Uttered == {said[i] : i \in 1 .. Len(said)}
WordOf(w) == IF w = "final" THEN "finished" ELSE w

\* How long after its readiness the limits allow the executor to end a stage.
DueBy(w) ==
  Leeway + DownloadLimit
  + (IF w = "streaming" \/ (stream /\ w # "volumes") THEN StreamingLimit ELSE 0)
  + (IF w \in {"execution", "final"} THEN ExecutionLimit ELSE 0)
  + (IF w = "final" THEN UploadLimit ELSE 0)

HostIsClean == stage \notin {"start", "run"} => "job" \notin hostbox

LastWords == {i \in 1 .. Len(said) : said[i].what \in Ended}
OneLastWord ==
  /\ stage \notin Starting \cup {"over"} => "initial" \in inbox
  /\ stage # "over" => LastWords = {}
  /\ stage = "over" => IF "initial" \in inbox THEN \E i : LastWords = {i} ELSE LastWords = {}

\* What was said before a stage is entered.
StagesWereSaid ==
  /\ stage \in Starting => said = <<>>
  /\ stage \in {"start", "run", "upload"} => Said("volumes")
  /\ stage \in {"run", "upload"} /\ stream => Said("streaming")
  /\ stage = "upload" => Said("execution") /\ ~hitLimit
  /\ Said("finished") =>
       /\ stage = "over" /\ Said("volumes") /\ (stream => Said("streaming"))
       /\ ~hitLimit /\ Said("execution") /\ \A f \in Uploads : tries[f] = Done

\* The executor's deadline is the time of its readiness and the limits up to
\* its stage, and it says nothing later than that.
ExecutorKeepsTime ==
  /\ stage # "over" => clock <= deadline
  /\ \A e \in Uttered : e.at <= clock
  /\ \A r \in Uttered : r.what = "ready" =>
       /\ stage = "certificate" => r.at = clock
       /\ stage = "download" => deadline = r.at + DueBy("volumes")
       /\ stage \in {"start", "run"} => deadline = r.at + DueBy("execution")
       /\ stage = "upload" => deadline = r.at + DueBy("final")
       /\ \A e \in Uttered, w \in {"volumes", "execution", "final"} :
            e.what = WordOf(w) => e.at <= r.at + DueBy(w)

\* The validator's deadline is a latency later; when it passes, what is awaited
\* is said after the executor's own, if at all.
ValidatorWaitsLonger ==
  /\ waits = "streaming" => stream
  /\ waits \in Waiting =>
       \E r \in Uttered : r.what = "ready" /\ vdeadline >= r.at + Latency + DueBy(waits)
  /\ waits = "timeout" =>
       \E r \in Uttered, w \in Waiting :
         /\ r.what = "ready" /\ clock > r.at + DueBy(w)
         /\ w = "streaming" => stream
         /\ \A e \in Uttered : e.what = WordOf(w) => e.at > r.at + DueBy(w)

DriverInv ==
  /\ DriverTypes /\ HostIsClean /\ OneLastWord /\ StagesWereSaid /\ ExecutorKeepsTime
  /\ ValidatorWaitsLonger

\* The limits are natural numbers, and so is what is due by them.
LEMMA DueByIsNatural == DriverTypes => \A w : DueBy(w) \in Nat
<1>. SUFFICES ASSUME DriverTypes, NEW w PROVE DueBy(w) \in Nat
  OBVIOUS
<1>1. /\ Leeway \in Nat /\ DownloadLimit \in Nat /\ StreamingLimit \in Nat
      /\ ExecutionLimit \in Nat /\ UploadLimit \in Nat
  BY DriverAssumption
<1>. QED BY <1>1 DEF DueBy

\* Every message has the time it was said.
LEMMA UtteredTimes == DriverTypes => \A e \in Uttered : e.at \in Nat
<1>. SUFFICES ASSUME DriverTypes, NEW e \in Uttered PROVE e.at \in Nat
  OBVIOUS
<1>1. PICK i \in 1 .. Len(said) : e = said[i]
  BY DEF Uttered
<1> DEFINE M == [what : DriverWords, at : Nat]
<1>2. said \in Seq(M) /\ \A m \in M : m.at \in Nat
  BY DEF DriverTypes
<1> HIDE DEF M
<1>3. said[i] \in M
  BY <1>1, <1>2
<1>. QED BY <1>1, <1>2, <1>3

\* A word that is said is one more message, with the time it is said.
LEMMA SayingAddsOne ==
  ASSUME DriverTypes, NEW m \in DriverWords, Say(m)
  PROVE  /\ said' \in Seq([what : DriverWords, at : Nat])
         /\ Uttered' = Uttered \cup {[what |-> m, at |-> clock]}
         /\ LastWords' = IF m \in Ended THEN LastWords \cup {Len(said) + 1} ELSE LastWords
         /\ \A n : Said(n)' <=> Said(n) \/ n = m
<1>1. [what |-> m, at |-> clock] \in [what : DriverWords, at : Nat]
  BY DEF DriverTypes
<1> DEFINE e == [what |-> m, at |-> clock]
<1>2. e.what = m /\ e \in [what : DriverWords, at : Nat]
  BY <1>1
<1>3. said' = Append(said, e)
  BY DEF Say
<1> HIDE DEF e
<1>4. /\ said' \in Seq([what : DriverWords, at : Nat])
      /\ Len(said') = Len(said) + 1 /\ Len(said) \in Nat
      /\ \A i \in 1 .. Len(said) : said'[i] = said[i]
      /\ said'[Len(said) + 1] = e
  BY <1>2, <1>3 DEF DriverTypes
<1>5. Uttered' = Uttered \cup {e}
  BY <1>4 DEF Uttered
<1>6. LastWords' = IF m \in Ended THEN LastWords \cup {Len(said) + 1} ELSE LastWords
  BY <1>2, <1>4 DEF LastWords
<1>7. \A n : Said(n)' <=> Said(n) \/ n = m
  <2>1. Said(m)'
    <3>1. Len(said) + 1 \in 1 .. Len(said') /\ said'[Len(said) + 1].what = m
      BY <1>2, <1>4
    <3>. QED BY <3>1 DEF Said
  <2>2. ASSUME NEW n, Said(n) PROVE Said(n)'
    BY <1>4, <2>2 DEF Said
  <2>3. ASSUME NEW n, Said(n)', n # m PROVE Said(n)
    <3>1. PICK i \in 1 .. Len(said') : said'[i].what = n
      BY <2>3 DEF Said
    <3>2. i \in 1 .. Len(said)
      BY <1>2, <1>4, <2>3, <3>1
    <3>. QED BY <1>4, <3>1, <3>2 DEF Said
  <2>. QED BY <2>1, <2>2, <2>3
<1>. QED BY <1>4, <1>5, <1>6, <1>7 DEF e

\* What has been said, as the set of messages.
LEMMA SaidIsUttered == \A n : Said(n) <=> \E e \in Uttered : e.what = n
BY DEF Said, Uttered

\* A word of the executor at its clock leaves the validator's wait as it is.
LEMMA ValidatorStillWaits ==
  ASSUME DriverInv, DriverTypes', clock' = clock, stream' = stream, waits' = waits,
         vdeadline' = vdeadline, NEW m,
         \/ Uttered' = Uttered
         \/ Uttered' = Uttered \cup {[what |-> m, at |-> clock]}
  PROVE  ValidatorWaitsLonger'
<1>1. \A w : DueBy(w) \in Nat /\ DueBy(w)' = DueBy(w)
  BY DueByIsNatural DEF DriverInv, DueBy
<1>2. Uttered \subseteq Uttered'
  OBVIOUS
<1>3. \A e \in Uttered' : e \in Uttered \/ e.at = clock
  OBVIOUS
<1>4. waits' \in Waiting =>
        \E r \in Uttered' : r.what = "ready" /\ vdeadline' >= r.at + Latency + DueBy(waits)'
  BY <1>1, <1>2 DEF DriverInv, ValidatorWaitsLonger
<1>5. waits' = "timeout" =>
        \E r \in Uttered', w \in Waiting :
          /\ r.what = "ready" /\ clock' > r.at + DueBy(w)'
          /\ w = "streaming" => stream'
          /\ \A e \in Uttered' : e.what = WordOf(w) => e.at > r.at + DueBy(w)'
  BY <1>1, <1>2, <1>3 DEF DriverInv, ValidatorWaitsLonger
<1>. QED BY <1>4, <1>5 DEF DriverInv, ValidatorWaitsLonger

\* A failure is the last word, if there is anybody to say it to; what comes of
\* a finished job is not touched, as a job that fails has not finished.
LEMMA FailureKeeps ==
  ASSUME DriverInv, NEW m \in {"job_failed", "horde_failed"}, Fail(m), stage # "over",
         "job" \notin hostbox', vUnchanged
  PROVE  DriverInv'
<1>. USE DEF DriverInv, vUnchanged
<1>1. m \in DriverWords /\ m \in Ended /\ m # "finished"
  BY DEF DriverWords, Ended
<1>2. CASE "initial" \in inbox
  <2>1. Say(m) /\ stage' = "over" /\ deadline' = deadline /\ inbox' = inbox
    BY <1>2 DEF Fail
  <2>2. /\ said' \in Seq([what : DriverWords, at : Nat])
        /\ Uttered' = Uttered \cup {[what |-> m, at |-> clock]}
        /\ LastWords' = LastWords \cup {Len(said) + 1}
        /\ \A n : Said(n)' <=> Said(n) \/ n = m
    BY <1>1, <2>1, SayingAddsOne
  <2>3. DriverTypes'
    BY <2>1, <2>2 DEF DriverTypes, DriverStages
  <2>4. HostIsClean'
    BY DEF HostIsClean
  <2>5. OneLastWord'
    BY <1>2, <2>1, <2>2 DEF OneLastWord
  <2>6. StagesWereSaid'
    BY <1>1, <2>1, <2>2 DEF StagesWereSaid, Starting
  <2>7. ExecutorKeepsTime'
    <3>1. \A w : DueBy(w)' = DueBy(w)
      BY DEF DueBy
    <3>2. \A w \in {"volumes", "execution", "final"} : m # WordOf(w)
      BY <1>1 DEF WordOf
    <3>3. m # "ready" /\ clock \in Nat
      BY DEF DriverTypes
    <3>. QED BY <2>1, <2>2, <3>1, <3>2, <3>3 DEF ExecutorKeepsTime
  <2>8. ValidatorWaitsLonger'
    BY <2>2, <2>3, ValidatorStillWaits
  <2>. QED BY <2>3, <2>4, <2>5, <2>6, <2>7, <2>8
<1>3. CASE "initial" \notin inbox
  <2>1. said' = said /\ stage' = "over" /\ deadline' = deadline /\ inbox' = inbox
    BY <1>3 DEF Fail
  <2>2. Uttered' = Uttered /\ LastWords' = LastWords /\ \A n : Said(n)' <=> Said(n)
    BY <2>1 DEF Uttered, LastWords, Said
  <2>3. DriverTypes'
    BY <2>1 DEF DriverTypes, DriverStages
  <2>4. HostIsClean'
    BY DEF HostIsClean
  <2>5. OneLastWord'
    BY <1>3, <2>1, <2>2 DEF OneLastWord
  <2>6. StagesWereSaid'
    BY <2>1, <2>2 DEF StagesWereSaid, Starting
  <2>7. ExecutorKeepsTime'
    BY <2>1, <2>2 DEF ExecutorKeepsTime, DueBy
  <2>8. ValidatorWaitsLonger'
    BY <2>2, <2>3, ValidatorStillWaits
  <2>. QED BY <2>3, <2>4, <2>5, <2>6, <2>7, <2>8
<1>. QED BY <1>2, <1>3

\* A step of the executor that says nothing and moves no deadline.
LEMMA QuietStepKeeps ==
  ASSUME DriverInv, vUnchanged, said' = said, deadline' = deadline, hitLimit' = hitLimit,
         inbox \subseteq inbox', stage # "over", stage' \in DriverStages, stage' # "over",
         stage = stage' \/ stage' \in Starting \/ (stage' = "run" /\ stage = "start" /\ ~stream),
         stage' \in Starting => stage \in Starting,
         HostIsClean'
  PROVE  DriverInv'
<1>. USE DEF DriverInv, vUnchanged
<1>1. Uttered' = Uttered /\ LastWords' = LastWords /\ \A n : Said(n)' <=> Said(n)
  BY DEF Uttered, LastWords, Said
<1>2. DriverTypes'
  BY DEF DriverTypes
<1>3. OneLastWord'
  BY <1>1 DEF OneLastWord, Starting
<1>4. StagesWereSaid'
  BY <1>1 DEF StagesWereSaid, Starting
<1>5. ExecutorKeepsTime'
  BY <1>1 DEF ExecutorKeepsTime, DueBy, Starting
<1>6. ValidatorWaitsLonger'
  BY <1>1, <1>2, ValidatorStillWaits
<1>. QED BY <1>2, <1>3, <1>4, <1>5, <1>6

\* What a step that says m and is not the end of the driver needs to keep.
LEMMA SayingStepKeeps ==
  ASSUME DriverInv, vUnchanged, NEW m \in DriverWords, Say(m), inbox' = inbox,
         "initial" \in inbox, stage # "over", stage' \in DriverStages \ Starting,
         m \in Ended <=> stage' = "over", deadline' \in Nat, HostIsClean', StagesWereSaid',
         ExecutorKeepsTime'
  PROVE  DriverInv'
<1>. USE DEF DriverInv, vUnchanged
<1>1. /\ said' \in Seq([what : DriverWords, at : Nat])
      /\ Uttered' = Uttered \cup {[what |-> m, at |-> clock]}
      /\ LastWords' = IF m \in Ended THEN LastWords \cup {Len(said) + 1} ELSE LastWords
  BY SayingAddsOne
<1>2. DriverTypes'
  BY <1>1 DEF DriverTypes
<1>3. OneLastWord'
  BY <1>1 DEF OneLastWord
<1>4. ValidatorWaitsLonger'
  BY <1>1, <1>2, ValidatorStillWaits
<1>. QED BY <1>2, <1>3, <1>4

\* The start: readiness is the first word, and the time of the download counts
\* from it, also when a certificate is made in between.
LEMMA StartUpKeeps ==
  DriverInv /\ (StartUp \/ GenerateCertificate) => DriverInv'
<1>. SUFFICES ASSUME DriverInv, StartUp \/ GenerateCertificate PROVE DriverInv'
  OBVIOUS
<1>. USE DEF DriverInv
<1>0. /\ Leeway \in Nat /\ DownloadLimit \in Nat /\ clock \in Nat
      /\ stream' = stream => \A w : DueBy(w)' = DueBy(w)
      /\ DueBy("volumes") = Leeway + DownloadLimit
  BY DriverAssumption DEF DriverTypes, DueBy
<1>1. CASE StartUp
  <2>1. /\ vUnchanged /\ Say("ready") /\ inbox' = inbox /\ "initial" \in inbox
        /\ stage = "startup" /\ said = <<>>
        /\ \/ stage' = "certificate" /\ deadline' = deadline
           \/ stage' = "download" /\ deadline' = clock + Leeway + DownloadLimit
    BY <1>1 DEF StartUp, BeginDownloading, StagesWereSaid, Starting
  <2>2. /\ Uttered' = Uttered \cup {[what |-> "ready", at |-> clock]}
        /\ \A n : Said(n)' <=> Said(n) \/ n = "ready"
    BY <2>1, SayingAddsOne DEF DriverWords
  <2>3. Uttered = {} /\ \A n : ~Said(n)
    BY <2>1 DEF Uttered, Said
  <2>4. HostIsClean'
    BY <1>1, <2>1 DEF StartUp, HostIsClean
  <2>5. StagesWereSaid'
    BY <2>1, <2>2, <2>3 DEF StagesWereSaid, Starting
  <2>6. ExecutorKeepsTime'
    <3>1. Uttered' = {[what |-> "ready", at |-> clock]}
      BY <2>2, <2>3
    <3>2. \A w \in {"volumes", "execution", "final"} : WordOf(w) # "ready"
      BY DEF WordOf
    <3>3. clock' = clock /\ stage' # "over" => clock' <= deadline'
      BY <1>0, <2>1 DEF ExecutorKeepsTime, vUnchanged
    <3>4. clock' = clock /\ stream' = stream
      BY <2>1 DEF vUnchanged
    <3>. QED BY <1>0, <2>1, <3>1, <3>2, <3>3, <3>4 DEF ExecutorKeepsTime
  <2>7. deadline' \in Nat /\ stage' \in DriverStages \ Starting /\ stage' # "over"
    BY <1>0, <2>1 DEF DriverTypes, DriverStages, Starting
  <2>. QED BY <2>1, <2>4, <2>5, <2>6, <2>7, SayingStepKeeps DEF DriverWords, Ended
<1>2. CASE GenerateCertificate /\ BeginDownloading /\ UNCHANGED <<said, runEnd, inbox>>
  <2>1. /\ stage = "certificate" /\ stage' = "download" /\ vUnchanged /\ hostbox' = hostbox
        /\ deadline' = clock + Leeway + DownloadLimit /\ said' = said /\ inbox' = inbox
        /\ hitLimit' = hitLimit /\ tries' = tries
    BY <1>2 DEF GenerateCertificate, BeginDownloading
  <2>2. Uttered' = Uttered /\ LastWords' = LastWords /\ \A n : Said(n)' <=> Said(n)
    BY <2>1 DEF Uttered, LastWords, Said
  <2>3. DriverTypes'
    BY <1>0, <2>1 DEF DriverTypes, DriverStages, vUnchanged
  <2>4. HostIsClean'
    BY <2>1 DEF HostIsClean
  <2>5. OneLastWord'
    BY <2>1, <2>2 DEF OneLastWord, Starting
  <2>6. StagesWereSaid'
    BY <2>1, <2>2 DEF StagesWereSaid, Starting, vUnchanged
  <2>7. ExecutorKeepsTime'
    <3>1. stream' = stream /\ clock' = clock
      BY <2>1 DEF vUnchanged
    <3>. QED BY <1>0, <2>1, <2>2, <3>1 DEF ExecutorKeepsTime
  <2>8. ValidatorWaitsLonger'
    BY <2>1, <2>2, <2>3, ValidatorStillWaits DEF vUnchanged
  <2>. QED BY <2>3, <2>4, <2>5, <2>6, <2>7, <2>8
<1>3. CASE GenerateCertificate /\ Fail("horde_failed")
  <2>1. stage # "over" /\ "job" \notin hostbox' /\ vUnchanged
    BY <1>3 DEF GenerateCertificate, HostIsClean
  <2>. QED BY <1>3, <2>1, FailureKeeps
<1>. QED BY <1>1, <1>2, <1>3 DEF GenerateCertificate

\* The stages up to the upload: each word comes within the deadline, which is
\* then extended by the limits of the next stage.
LEMMA StagesKeep ==
  DriverInv /\ (Download \/ StartStreaming \/ RunEnds \/ SendResult) => DriverInv'
<1>. SUFFICES ASSUME DriverInv, Download \/ StartStreaming \/ RunEnds \/ SendResult
     PROVE DriverInv'
  OBVIOUS
<1>. USE DEF DriverInv
<1>0. /\ Leeway \in Nat /\ DownloadLimit \in Nat /\ clock \in Nat /\ deadline \in Nat
      /\ ExecutionLimit \in Nat /\ StreamingLimit \in Nat /\ UploadLimit \in Nat
      /\ stream \in BOOLEAN
      /\ \A w : DueBy(w) \in Nat
      /\ \A r \in Uttered : r.at \in Nat
  BY DriverAssumption, DueByIsNatural, UtteredTimes DEF DriverTypes
<1>1. CASE Download
  <2>1. /\ vUnchanged /\ Say("volumes") /\ inbox' = inbox /\ hostbox' = hostbox
        /\ stage = "download" /\ stage' = "start"
        /\ deadline' = deadline + ExecutionLimit + (IF stream THEN StreamingLimit ELSE 0)
    BY <1>1 DEF Download
  <2>2. /\ Uttered' = Uttered \cup {[what |-> "volumes", at |-> clock]}
        /\ \A n : Said(n)' <=> Said(n) \/ n = "volumes"
    BY <2>1, SayingAddsOne DEF DriverWords
  <2>3. HostIsClean' /\ "initial" \in inbox
    BY <2>1 DEF HostIsClean, OneLastWord, Starting
  <2>4. StagesWereSaid'
    BY <2>1, <2>2 DEF StagesWereSaid, Starting
  <2>5. ExecutorKeepsTime'
    <3>1. clock' = clock /\ stream' = stream /\ \A w : DueBy(w)' = DueBy(w)
      BY <2>1 DEF vUnchanged, DueBy
    <3>2. /\ DueBy("execution") = DueBy("volumes") + ExecutionLimit
                                    + (IF stream THEN StreamingLimit ELSE 0)
      BY <1>0 DEF DueBy
    <3>3. \A w \in {"volumes", "execution", "final"} : WordOf(w) = "volumes" => w = "volumes"
      BY DEF WordOf
    <3>4. clock' <= deadline'
      BY <1>0, <2>1, <3>1 DEF ExecutorKeepsTime
    <3>5. \A r \in Uttered : r.what = "ready" =>
            clock <= r.at + DueBy("volumes") /\ deadline' = r.at + DueBy("execution")
      <4>. SUFFICES ASSUME NEW r \in Uttered, r.what = "ready"
           PROVE clock <= r.at + DueBy("volumes") /\ deadline' = r.at + DueBy("execution")
        OBVIOUS
      <4>1. deadline = r.at + DueBy("volumes") /\ clock <= deadline
        BY <2>1 DEF ExecutorKeepsTime
      <4>2. r.at \in Nat /\ DueBy("volumes") \in Nat
        BY <1>0
      <4>. QED BY <1>0, <2>1, <3>2, <4>1, <4>2
    <3>. QED BY <2>1, <2>2, <3>1, <3>3, <3>4, <3>5, <1>0 DEF ExecutorKeepsTime
  <2>6. deadline' \in Nat /\ stage' \in DriverStages \ Starting /\ stage' # "over"
    BY <1>0, <2>1 DEF DriverStages, Starting
  <2>. QED BY <2>1, <2>3, <2>4, <2>5, <2>6, SayingStepKeeps DEF DriverWords, Ended
<1>2. CASE StartStreaming
  <2>1. /\ vUnchanged /\ Say("streaming") /\ inbox' = inbox /\ hostbox' = hostbox
        /\ stage = "start" /\ stage' = "run" /\ deadline' = deadline
    BY <1>2 DEF StartStreaming
  <2>2. /\ Uttered' = Uttered \cup {[what |-> "streaming", at |-> clock]}
        /\ \A n : Said(n)' <=> Said(n) \/ n = "streaming"
    BY <2>1, SayingAddsOne DEF DriverWords
  <2>3. HostIsClean' /\ "initial" \in inbox
    BY <2>1 DEF HostIsClean, OneLastWord, Starting
  <2>4. StagesWereSaid'
    BY <2>1, <2>2 DEF StagesWereSaid, Starting
  <2>5. ExecutorKeepsTime'
    <3>1. clock' = clock /\ stream' = stream /\ \A w : DueBy(w)' = DueBy(w)
      BY <2>1 DEF vUnchanged, DueBy
    <3>2. \A w \in {"volumes", "execution", "final"} : WordOf(w) # "streaming"
      BY DEF WordOf
    <3>. QED BY <2>1, <2>2, <3>1, <3>2, <1>0 DEF ExecutorKeepsTime
  <2>6. deadline' \in Nat /\ stage' \in DriverStages \ Starting /\ stage' # "over"
    BY <1>0, <2>1 DEF DriverStages, Starting
  <2>. QED BY <2>1, <2>3, <2>4, <2>5, <2>6, SayingStepKeeps DEF DriverWords, Ended
<1>3. CASE RunEnds
  <2>1. PICK timedOut \in BOOLEAN, ok \in BOOLEAN :
          /\ hitLimit' = timedOut
          /\ \E stopped \in {{}, {"nginx"}} : LeaveContainer(stopped)
          /\ IF FailIfUnsuccessful(timedOut, ok) THEN Fail("job_failed")
             ELSE /\ Say("execution") /\ stage' = "upload"
                  /\ deadline' = deadline + UploadLimit /\ UNCHANGED <<runEnd, inbox>>
    BY <1>3 DEF RunEnds
  <2>2. vUnchanged /\ stage = "run" /\ "job" \notin hostbox'
    BY <1>3, <2>1 DEF RunEnds, LeaveContainer
  <2>3. CASE FailIfUnsuccessful(timedOut, ok)
    BY <2>1, <2>2, <2>3, FailureKeeps
  <2>4. CASE ~FailIfUnsuccessful(timedOut, ok)
    <3>1. /\ Say("execution") /\ stage' = "upload" /\ inbox' = inbox /\ ~hitLimit'
          /\ deadline' = deadline + UploadLimit
      BY <2>1, <2>4 DEF FailIfUnsuccessful
    <3>2. /\ Uttered' = Uttered \cup {[what |-> "execution", at |-> clock]}
          /\ \A n : Said(n)' <=> Said(n) \/ n = "execution"
      BY <3>1, SayingAddsOne DEF DriverWords
    <3>3. HostIsClean' /\ "initial" \in inbox
      BY <2>2 DEF HostIsClean, OneLastWord, Starting
    <3>4. StagesWereSaid'
      BY <2>2, <3>1, <3>2 DEF StagesWereSaid, Starting, vUnchanged
    <3>5. ExecutorKeepsTime'
      <4>1. clock' = clock /\ stream' = stream /\ \A w : DueBy(w)' = DueBy(w)
        BY <2>2 DEF vUnchanged, DueBy
      <4>2. DueBy("final") = DueBy("execution") + UploadLimit
        BY <1>0 DEF DueBy
      <4>3. \A w \in {"volumes", "execution", "final"} : WordOf(w) = "execution" => w = "execution"
        BY DEF WordOf
      <4>4. clock' <= deadline'
        BY <1>0, <2>2, <3>1, <4>1 DEF ExecutorKeepsTime
      <4>5. \A r \in Uttered : r.what = "ready" =>
              clock <= r.at + DueBy("execution") /\ deadline' = r.at + DueBy("final")
        BY <1>0, <2>2, <3>1, <4>2 DEF ExecutorKeepsTime
      <4>. QED BY <3>1, <3>2, <4>1, <4>3, <4>4, <4>5, <1>0 DEF ExecutorKeepsTime
    <3>6. deadline' \in Nat /\ stage' \in DriverStages \ Starting /\ stage' # "over"
      BY <1>0, <3>1 DEF DriverStages, Starting
    <3>. QED BY <2>2, <3>1, <3>3, <3>4, <3>5, <3>6, SayingStepKeeps DEF DriverWords, Ended
  <2>. QED BY <2>3, <2>4
<1>4. CASE SendResult
  <2>1. /\ vUnchanged /\ Say("finished") /\ inbox' = inbox /\ hostbox' = hostbox
        /\ stage = "upload" /\ stage' = "over" /\ deadline' = deadline
        /\ hitLimit' = hitLimit /\ tries' = tries /\ \A f \in Uploads : tries[f] = Done
    BY <1>4 DEF SendResult, AllUploaded
  <2>2. /\ Uttered' = Uttered \cup {[what |-> "finished", at |-> clock]}
        /\ \A n : Said(n)' <=> Said(n) \/ n = "finished"
    BY <2>1, SayingAddsOne DEF DriverWords, Ended
  <2>3. HostIsClean' /\ "initial" \in inbox
    BY <2>1 DEF HostIsClean, OneLastWord, Starting
  <2>4. StagesWereSaid'
    BY <2>1, <2>2 DEF StagesWereSaid, Starting, vUnchanged
  <2>5. ExecutorKeepsTime'
    <3>1. clock' = clock /\ stream' = stream /\ \A w : DueBy(w)' = DueBy(w)
      BY <2>1 DEF vUnchanged, DueBy
    <3>2. \A w \in {"volumes", "execution", "final"} : WordOf(w) = "finished" => w = "final"
      BY DEF WordOf
    <3>3. \A r \in Uttered : r.what = "ready" => clock <= r.at + DueBy("final")
      BY <1>0, <2>1 DEF ExecutorKeepsTime
    <3>. QED BY <2>1, <2>2, <3>1, <3>2, <3>3, <1>0 DEF ExecutorKeepsTime
  <2>6. deadline' \in Nat /\ stage' \in DriverStages \ Starting /\ "finished" \in Ended
    BY <1>0, <2>1 DEF DriverStages, Starting, Ended
  <2>. QED BY <2>1, <2>3, <2>4, <2>5, <2>6, SayingStepKeeps DEF DriverWords
<1>. QED BY <1>1, <1>2, <1>3, <1>4

\* The other steps of the executor.
LEMMA OtherExecutorStepsKeep ==
  ASSUME DriverInv,
         \/ ReceiveInitial \/ CveCheck \/ ToolkitCheck \/ StartUpFails \/ DownloadFails
         \/ RunJobContainer \/ StartNginx \/ ExecutionFails
         \/ (\E f \in Uploads : UploadFile(f)) \/ UploadFails
  PROVE  DriverInv'
<1>1. CASE ReceiveInitial \/ CveCheck \/ ToolkitCheck
  <2>1. /\ vUnchanged /\ said' = said /\ deadline' = deadline /\ hitLimit' = hitLimit
        /\ inbox \subseteq inbox' /\ hostbox' = hostbox
        /\ stage \in Starting /\ stage' \in Starting
    BY <1>1 DEF ReceiveInitial, CveCheck, ToolkitCheck, Starting
  <2>2. HostIsClean' /\ stage # "over" /\ stage' # "over" /\ stage' \in DriverStages
    BY <2>1 DEF DriverInv, HostIsClean, Starting, DriverStages
  <2>. QED BY <2>1, <2>2, QuietStepKeeps
<1>2. CASE RunJobContainer \/ StartNginx \/ \E f \in Uploads : UploadFile(f)
  <2>1. /\ vUnchanged /\ said' = said /\ deadline' = deadline /\ hitLimit' = hitLimit
        /\ inbox' = inbox
        /\ \/ stage = "start" /\ stage' = stage
           \/ stage = "start" /\ stage' = "run" /\ ~stream
           \/ stage = "upload" /\ stage' = stage /\ hostbox' = hostbox
    BY <1>2 DEF RunJobContainer, StartNginx, UploadFile
  <2>2. HostIsClean' /\ stage # "over" /\ stage' # "over" /\ stage' \in DriverStages \ Starting
    BY <2>1 DEF DriverInv, HostIsClean, Starting, DriverStages
  <2>. QED BY <2>1, <2>2, QuietStepKeeps
<1>3. CASE StartUpFails \/ DownloadFails \/ ExecutionFails \/ UploadFails
  <2>1. PICK m \in {"job_failed", "horde_failed"} : Fail(m)
    BY <1>3 DEF StartUpFails, DownloadFails, ExecutionFails, UploadFails
  <2>2. vUnchanged /\ stage # "over" /\ "job" \notin hostbox'
    BY <1>3 DEF StartUpFails, DownloadFails, ExecutionFails, UploadFails, Starting,
       LeaveContainer, DriverInv, HostIsClean
  <2>. QED BY <2>1, <2>2, FailureKeeps
<1>. QED BY <1>1, <1>2, <1>3

\* Time passes: both sides stop at their deadlines.
LEMMA TickKeeps == DriverInv /\ Tick => DriverInv'
<1>. SUFFICES ASSUME DriverInv, Tick PROVE DriverInv'
  OBVIOUS
<1>. USE DEF DriverInv
<1>1. /\ clock' = clock + 1 /\ stage # "certificate" /\ (stage # "over" => clock < deadline)
      /\ UNCHANGED <<stream, stage, deadline, inbox, said, hostbox, tries, hitLimit, waits,
                     vdeadline>>
  BY DEF Tick
<1>2. Uttered' = Uttered /\ LastWords' = LastWords /\ \A n : Said(n)' <=> Said(n)
  BY <1>1 DEF Uttered, LastWords, Said
<1>3. DriverTypes'
  BY <1>1 DEF DriverTypes
<1>4. HostIsClean' /\ OneLastWord' /\ StagesWereSaid'
  BY <1>1, <1>2 DEF HostIsClean, OneLastWord, StagesWereSaid
<1>5. \A w : DueBy(w)' = DueBy(w) /\ DueBy(w) \in Nat
  BY <1>1, DueByIsNatural DEF DueBy
<1>6. \A r \in Uttered : r.at \in Nat
  BY UtteredTimes
<1>7. clock \in Nat /\ deadline \in Nat
  BY DEF DriverTypes
<1>8. ExecutorKeepsTime'
  BY <1>1, <1>2, <1>5, <1>6, <1>7 DEF ExecutorKeepsTime
<1>9. ValidatorWaitsLonger'
  BY <1>1, <1>2, <1>5, <1>6, <1>7 DEF ValidatorWaitsLonger
<1>. QED BY <1>3, <1>4, <1>8, <1>9

\* The validator: what it awaits is due a latency before its own deadline, so
\* that what has not come by then was said late.
LEMMA ValidatorKeeps ==
  ASSUME DriverInv, Latency > 0,
         ValidatorReady \/ ValidatorStep \/ ValidatorHearsFailure \/ ValidatorTimesOut
  PROVE  DriverInv'
<1>. USE DEF DriverInv
<1>1. /\ UNCHANGED <<clock, stream, stage, deadline, said, hostbox, tries, hitLimit>>
      /\ "initial" \in inbox' <=> "initial" \in inbox
  BY DEF ValidatorReady, ValidatorStep, ValidatorHears, ValidatorHearsFailure,
     ValidatorTimesOut, xUnchanged
<1>2. Uttered' = Uttered /\ LastWords' = LastWords /\ \A n : Said(n)' <=> Said(n)
  BY <1>1 DEF Uttered, LastWords, Said
<1>3. HostIsClean' /\ OneLastWord' /\ StagesWereSaid'
  BY <1>1, <1>2 DEF HostIsClean, OneLastWord, StagesWereSaid
<1>4. \A w : DueBy(w)' = DueBy(w) /\ DueBy(w) \in Nat
  BY <1>1, DueByIsNatural DEF DueBy
<1>5. ExecutorKeepsTime'
  BY <1>1, <1>2, <1>4 DEF ExecutorKeepsTime
<1>6. \A r \in Uttered : r.at \in Nat
  BY UtteredTimes
<1>7. /\ clock \in Nat /\ vdeadline \in Nat /\ Latency \in Nat /\ stream \in BOOLEAN
      /\ Leeway \in Nat /\ DownloadLimit \in Nat
      /\ ExecutionLimit \in Nat /\ StreamingLimit \in Nat /\ UploadLimit \in Nat
  BY DriverAssumption DEF DriverTypes
<1>8. vdeadline' \in Nat /\ waits' \in Waiting \cup {"ready", "ok", "timeout", "failed"}
  BY <1>7 DEF ValidatorReady, ValidatorStep, ValidatorHears, ValidatorHearsFailure,
     ValidatorTimesOut, Extension, Waiting
<1>9. DriverTypes'
  BY <1>1, <1>8 DEF DriverTypes
<1>10. \A n : Arrived(n) <=> \E e \in Uttered : e.what = n /\ e.at + Latency <= clock
  BY DEF Arrived, Uttered
<1>11. CASE ValidatorReady
  <2>1. PICK r \in Uttered : r.what = "ready" /\ r.at + Latency <= clock
    BY <1>10, <1>11 DEF ValidatorReady
  <2>2. waits' = "volumes" /\ vdeadline' = clock + Leeway + DownloadLimit
    BY <1>11 DEF ValidatorReady
  <2>3. DueBy("volumes") = Leeway + DownloadLimit
    BY <1>7 DEF DueBy
  <2>4. vdeadline' >= r.at + Latency + DueBy("volumes") /\ r.at \in Nat
    BY <1>6, <1>7, <2>1, <2>2, <2>3
  <2>5. ValidatorWaitsLonger'
    BY <1>2, <1>4, <2>1, <2>2, <2>4 DEF ValidatorWaitsLonger
  <2>. QED BY <1>3, <1>5, <1>9, <2>5
<1>12. CASE ValidatorStep
  <2>1. /\ waits \in Waiting /\ vdeadline' = vdeadline + Extension(waits')
        /\ \/ waits = "volumes" /\ stream /\ waits' = "streaming"
           \/ waits = "volumes" /\ ~stream /\ waits' = "execution"
           \/ waits = "streaming" /\ waits' = "execution"
           \/ waits = "execution" /\ waits' = "final"
           \/ waits = "final" /\ waits' = "ok"
    BY <1>12 DEF ValidatorStep, ValidatorHears, Waiting
  <2>2. PICK r \in Uttered : r.what = "ready" /\ vdeadline >= r.at + Latency + DueBy(waits)
    BY <2>1 DEF ValidatorWaitsLonger
  <2>3. waits = "streaming" => stream
    BY DEF ValidatorWaitsLonger
  <2>4. waits' # "ok" => DueBy(waits') = DueBy(waits) + Extension(waits')
    BY <1>7, <2>1, <2>3 DEF DueBy, Extension
  <2>5. waits' # "ok" => Extension(waits') \in Nat
    BY <1>7, <2>1 DEF Extension
  <2>6. waits' # "ok" => vdeadline' >= r.at + Latency + DueBy(waits')
    <3>1. r.at \in Nat /\ DueBy(waits) \in Nat
      BY <1>4, <1>6
    <3>. QED BY <1>7, <2>1, <2>2, <2>4, <2>5, <3>1
  <2>7. ValidatorWaitsLonger'
    BY <1>1, <1>2, <1>4, <2>1, <2>2, <2>6 DEF ValidatorWaitsLonger, Waiting
  <2>. QED BY <1>3, <1>5, <1>9, <2>7
<1>13. CASE ValidatorHearsFailure
  <2>1. ValidatorWaitsLonger'
    BY <1>13 DEF ValidatorHearsFailure, ValidatorWaitsLonger, Waiting
  <2>. QED BY <1>3, <1>5, <1>9, <2>1
<1>14. CASE ValidatorTimesOut
  <2>1. /\ waits \in Waiting /\ clock >= vdeadline /\ waits' = "timeout"
        /\ ~Arrived(WordOf(waits))
    BY <1>14 DEF ValidatorTimesOut, Waiting, WordOf
  <2>2. PICK r \in Uttered : r.what = "ready" /\ vdeadline >= r.at + Latency + DueBy(waits)
    BY <2>1 DEF ValidatorWaitsLonger
  <2>3. r.at \in Nat /\ DueBy(waits) \in Nat
    BY <1>4, <1>6
  <2>4. clock > r.at + DueBy(waits)
    BY <1>7, <2>1, <2>2, <2>3
  <2>5. ASSUME NEW e \in Uttered, e.what = WordOf(waits)
        PROVE  e.at > r.at + DueBy(waits)
    <3>1. ~(e.at + Latency <= clock) /\ e.at \in Nat
      BY <1>6, <1>10, <2>1, <2>5
    <3>. QED BY <1>7, <2>1, <2>2, <2>3, <3>1
  <2>6. waits = "streaming" => stream
    BY DEF ValidatorWaitsLonger
  <2>7. ValidatorWaitsLonger'
    BY <1>1, <1>2, <1>4, <2>1, <2>2, <2>4, <2>5, <2>6 DEF ValidatorWaitsLonger, Waiting
  <2>. QED BY <1>3, <1>5, <1>9, <2>7
<1>. QED BY <1>11, <1>12, <1>13, <1>14

\* The executor's job ends as its messages say: the validator outlasts an
\* executor that keeps its limits, a finished job is whole, and the driver
\* leaves no container and one last word.  A message has to take some time: if
\* it took none, the word and the end of the validator's wait would fall into
\* the same instant.
THEOREM JobAlwaysEndsAsReported ==
  ASSUME Latency > 0
  PROVE  DriverSpec => []JobEndsAsReported
<1>1. DriverInit => DriverInv
  <2>. SUFFICES ASSUME DriverInit PROVE DriverInv
    OBVIOUS
  <2>1. Uttered = {} /\ LastWords = {} /\ \A n : ~Said(n)
    BY DEF DriverInit, Uttered, LastWords, Said
  <2>2. DriverTypes
    BY DriverAssumption DEF DriverInit, DriverTypes, DriverStages, Starting
  <2>3. HostIsClean /\ OneLastWord
    BY <2>1 DEF DriverInit, HostIsClean, OneLastWord, Starting
  <2>4. StagesWereSaid
    BY <2>1 DEF DriverInit, StagesWereSaid
  <2>5. ExecutorKeepsTime
    BY <2>1, DriverAssumption DEF DriverInit, ExecutorKeepsTime
  <2>6. ValidatorWaitsLonger
    BY DEF DriverInit, ValidatorWaitsLonger, Waiting
  <2>. QED BY <2>2, <2>3, <2>4, <2>5, <2>6 DEF DriverInv
<1>2. DriverInv /\ [DriverNext]_driverVars => DriverInv'
  <2>. SUFFICES ASSUME DriverInv, [DriverNext]_driverVars PROVE DriverInv'
    OBVIOUS
  <2>1. CASE UNCHANGED driverVars
    <3>. USE <2>1 DEF driverVars
    <3>1. Uttered' = Uttered /\ LastWords' = LastWords /\ \A n : Said(n)' <=> Said(n)
      BY DEF Uttered, LastWords, Said
    <3>2. \A w : DueBy(w)' = DueBy(w)
      BY DEF DueBy
    <3>3. DriverTypes' /\ HostIsClean' /\ OneLastWord'
      BY <3>1 DEF DriverInv, DriverTypes, HostIsClean, OneLastWord
    <3>4. StagesWereSaid'
      BY <3>1 DEF DriverInv, StagesWereSaid
    <3>5. ExecutorKeepsTime'
      BY <3>1, <3>2 DEF DriverInv, ExecutorKeepsTime
    <3>6. ValidatorWaitsLonger'
      BY <3>1, <3>2 DEF DriverInv, ValidatorWaitsLonger
    <3>. QED BY <3>3, <3>4, <3>5, <3>6 DEF DriverInv
  <2>. QED BY <2>1, TickKeeps, StartUpKeeps, StagesKeep, OtherExecutorStepsKeep,
         ValidatorKeeps DEF DriverNext
<1>3. DriverInv => JobEndsAsReported
  <2>. SUFFICES ASSUME DriverInv PROVE JobEndsAsReported
    OBVIOUS
  <2>. USE DEF DriverInv
  <2>1. ASSUME waits = "timeout", Said("finished") PROVE StreamingStartedLate
    <3>1. PICK r \in Uttered, w \in Waiting :
            /\ r.what = "ready" /\ (w = "streaming" => stream)
            /\ \A e \in Uttered : e.what = WordOf(w) => e.at > r.at + DueBy(w)
      BY <2>1 DEF ValidatorWaitsLonger
    <3>2. Said(WordOf(w))
      BY <2>1, <3>1 DEF StagesWereSaid, WordOf, Waiting
    <3>3. PICK e \in Uttered : e.what = WordOf(w)
      BY <3>2, SaidIsUttered
    <3>4. e.at > r.at + DueBy(w)
      BY <3>1, <3>3
    <3>5. \A x \in Uttered : x.at \in Nat
      BY UtteredTimes
    <3>6. w = "streaming"
      <4>1. SUFFICES ASSUME w \in {"volumes", "execution", "final"} PROVE FALSE
        BY DEF Waiting
      <4>2. e.at <= r.at + DueBy(w)
        BY <3>1, <3>3, <4>1 DEF ExecutorKeepsTime
      <4>. QED BY <3>4, <3>5, <4>2, DueByIsNatural
    <3>7. DueBy(w) = Leeway + DownloadLimit + StreamingLimit
      BY <3>6, DriverAssumption DEF DueBy
    <3>8. e.at > r.at + Leeway + DownloadLimit + StreamingLimit /\ e.what = "streaming"
      BY <3>3, <3>4, <3>5, <3>6, <3>7, DriverAssumption DEF WordOf
    <3>9. PICK i \in 1 .. Len(said), k \in 1 .. Len(said) : said[i] = r /\ said[k] = e
      BY DEF Uttered
    <3>. QED BY <3>1, <3>8, <3>9 DEF StreamingStartedLate
  <2>2. FinishedJobsAreWhole
    BY DEF FinishedJobsAreWhole, StagesWereSaid
  <2>3. ASSUME stage = "over"
        PROVE  Cardinality(LastWords) = IF "initial" \in inbox THEN 1 ELSE 0
    BY <2>3, FS_EmptySet, FS_Singleton DEF OneLastWord
  <2>4. DriverLeavesTheHost
    BY <2>3 DEF DriverLeavesTheHost, HostIsClean, LastWords
  <2>. QED BY <2>1, <2>2, <2>4 DEF JobEndsAsReported, ValidatorOutlastsExecutor
<1>. QED BY <1>1, <1>2, <1>3, PTL DEF DriverSpec

-----------------------------------------------------------------------------
(* Signed requests: conversions, retries and tokens *)

CallStates == {"token", "post", "dispatch", "201", "400", "401", "error"}
CallData == JobSpecs \cup [job_uuid : {"job"}, details : ReportDetails]
CallRecords == [st : CallStates, tok : Nat, renewed : BOOLEAN, tries : 1 .. HttpAttempts,
                left : 0 .. ChannelRows, data : CallData]

SignedTypes ==
  /\ {token, issued, expired, expiries, breaks} \subseteq Nat
  /\ call \in [Calls -> CallRecords]
  /\ \A c \in Creators : call[c].data \in JobSpecs

\* Only breaks make a call be tried again.
RetriesAreBreaks ==
  \A c \in Calls : /\ call[c].tries <= breaks + 1
                   /\ call[c].st = "error" => call[c].tries = HttpAttempts /\ call[c].tries <= breaks

\* A call that has logged in again has a token issued since the only expiry.
TokensAreFresh ==
  /\ expired <= issued /\ token <= issued
  /\ expiries = 0 => expired = 0
  /\ \A c \in Calls : call[c].st = "post" => call[c].tok > 0
  /\ expiries <= 1 =>
       \A c \in Calls :
         /\ call[c].st # "401"
         /\ call[c].renewed =>
              /\ expiries = 1 /\ (token = NoToken \/ token > expired)
              /\ call[c].st = "post" => call[c].tok > expired

\* The message of a call that is being dispatched has been handled on the
\* channels behind it.
DispatchIsUnderWay ==
  \A c \in Calls :
    /\ call[c].st = "201" => call[c].left = 0
    /\ call[c].st \in {"dispatch", "201"} =>
         /\ c \in Creators => call[c].data.artifacts_dir # Null /\ <<c, call[c].tries>> \in rows
         /\ \A channel \in call[c].left + 1 .. ChannelRows :
              \E h \in handled : h.channel = channel /\ h.m = Message(c)

HandledJobsVerify == \A h \in handled : h.m.from \in Creators => (h.ok <=> listed)

SignedInv ==
  SignedTypes /\ RetriesAreBreaks /\ TokensAreFresh /\ DispatchIsUnderWay /\ HandledJobsVerify

\* The facilitator finds every signature of the SDK good: both make the signed
\* fields of the same body.
LEMMA FacilitatorAlwaysVerifies ==
  \A c \in Calls : FacilitatorVerifies(call[c].data, Signature(c))
BY DEF FacilitatorVerifies, Signature, SignJob, SignReport, Sign, Verifies

\* What the validator reads out of the message are the fields that were signed:
\* absent, empty and null fields are told apart, or not, alike on both ways.
LEMMA ConversionsAgree ==
  ASSUME NEW data \in JobSpecs, data.artifacts_dir # Null
  PROVE  GetSignedFields(AsJobRequest(JobRow(data))) = FromSdkJson(data)
<1>1. /\ data.artifacts_dir \in {"", "dir"} /\ data.volumes \in {NoKey, <<>>, <<"v">>}
      /\ data.uploads \in {NoKey, <<>>, <<"u">>} /\ data.streaming_details \in {NoKey, "cert"}
  BY DEF JobSpecs
<1>2. /\ NoKey # Null /\ NoKey \notin {"", "dir", "cert"} /\ Null \notin {"", "dir", "cert"}
      /\ NoKey \notin {<<>>, <<"v">>, <<"u">>} /\ Null \notin {<<>>, <<"v">>, <<"u">>}
  BY SignedAssumption
<1>3. Default(Default(data.artifacts_dir, {""}, Null), {Null}, "")
        = Default(data.artifacts_dir, {NoKey, Null}, "")
  BY <1>1, <1>2 DEF Default
<1>4. /\ Default(Default(Default(data.volumes, {NoKey}, <<>>), {<<>>}, Null), {Null}, <<>>)
           = Default(data.volumes, {NoKey}, <<>>)
      /\ Default(Default(Default(data.uploads, {NoKey}, <<>>), {<<>>}, Null), {Null}, <<>>)
           = Default(data.uploads, {NoKey}, <<>>)
  BY <1>1, <1>2 DEF Default
<1>5. Default(Default(data.streaming_details, {NoKey}, ""), {""}, Null)
        = Default(data.streaming_details, {NoKey}, Null)
  BY <1>1, <1>2 DEF Default
<1>. QED BY <1>3, <1>4, <1>5 DEF GetSignedFields, AsJobRequest, JobRow, FromSdkJson

\* The validator turns a job request down only if its signer is not listed.
LEMMA ValidatorVerifiesJobs ==
  ASSUME NEW c \in Creators, call[c].data \in JobSpecs, call[c].data.artifacts_dir # Null
  PROVE  VerifyRequest(Message(c)) <=> listed
<1>1. Message(c).from = c /\ Message(c).body = AsJobRequest(JobRow(call[c].data))
  BY DEF Message
<1>2. Message(c).signature = Sign(Dumps(FromSdkJson(call[c].data)), "SignedFields")
  BY DEF Message, Signature, SignJob
<1>. QED BY <1>1, <1>2, ConversionsAgree DEF VerifyRequest, Verifies, Sign

\* A step of one call leaves the others, and the messages they send, as they are.
LEMMA OneCallMoves ==
  ASSUME SignedTypes, NEW c \in Calls, NEW n \in CallRecords, n.data = call[c].data,
         call' = [call EXCEPT ![c] = n]
  PROVE  /\ call' \in [Calls -> CallRecords] /\ call'[c] = n
         /\ \A d \in Calls : d # c => call'[d] = call[d] /\ Message(d)' = Message(d)
         /\ n.tries = call[c].tries => Message(c)' = Message(c)
         /\ \A d \in Creators : call'[d].data \in JobSpecs
<1>1. /\ call' \in [Calls -> CallRecords] /\ call'[c] = n
      /\ \A d \in Calls : d # c => call'[d] = call[d]
  BY DEF SignedTypes
<1>2. \A d \in Calls : call'[d] = call[d] => Message(d)' = Message(d)
  BY DEF Message, Signature
<1>3. n.tries = call[c].tries => Message(c)' = Message(c)
  BY <1>1 DEF Message, Signature
<1>4. \A d \in Creators : call'[d].data \in JobSpecs
  BY <1>1 DEF SignedTypes, Calls
<1>. QED BY <1>1, <1>2, <1>3, <1>4

\* A call that is tried again, or not, after something broke.
LEMMA RetryKeeps ==
  ASSUME SignedInv, NEW c \in Calls, Retry(c), breaks' = breaks + 1,
         \A d \in Calls : \A t : <<d, t>> \in rows => d = c \/ <<d, t>> \in rows',
         UNCHANGED <<token, issued, expired, expiries, handled, listed>>
  PROVE  SignedInv'
<1>. USE DEF SignedInv
<1> DEFINE again == call[c].tries < HttpAttempts
           outcome == IF again THEN "token" ELSE "error"
           tries2 == call[c].tries + IF again THEN 1 ELSE 0
           n == [call[c] EXCEPT !.st = outcome, !.renewed = FALSE, !.left = 0, !.tries = tries2]
<1>0. /\ HttpAttempts \in Nat /\ ChannelRows \in Nat /\ call[c] \in CallRecords
      /\ breaks \in Nat
  BY SignedAssumption DEF SignedTypes
<1>1. /\ n \in CallRecords /\ n.data = call[c].data /\ n.renewed = FALSE
      /\ n.st = outcome /\ n.tries = tries2
  <2>1. outcome \in CallStates /\ call[c].tries \in 1 .. HttpAttempts /\ 0 \in 0 .. ChannelRows
    BY <1>0 DEF CallRecords, CallStates
  <2>2. tries2 \in 1 .. HttpAttempts
    BY <1>0, <2>1
  <2> HIDE DEF outcome, tries2
  <2>. QED BY <1>0, <2>1, <2>2 DEF CallRecords
<1>2. call' = [call EXCEPT ![c] = n]
  BY DEF Retry
<1> HIDE DEF n
<1>3. /\ call' \in [Calls -> CallRecords] /\ call'[c] = n
      /\ \A d \in Calls : d # c => call'[d] = call[d] /\ Message(d)' = Message(d)
      /\ \A d \in Creators : call'[d].data \in JobSpecs
  BY <1>1, <1>2, OneCallMoves
<1>4. SignedTypes'
  BY <1>0, <1>3 DEF SignedTypes
<1>5. RetriesAreBreaks'
  <2>1. call[c].tries \in 1 .. HttpAttempts
    BY <1>0 DEF CallRecords
  <2>2. n.tries <= breaks' + 1 /\ (n.st = "error" => n.tries = HttpAttempts /\ n.tries <= breaks')
    BY <1>0, <1>1, <2>1 DEF RetriesAreBreaks
  <2>3. ASSUME NEW d \in Calls, d # c
        PROVE  /\ call[d].tries <= breaks' + 1
               /\ call[d].st = "error" => call[d].tries = HttpAttempts /\ call[d].tries <= breaks'
    <3>1. call[d].tries \in Nat
      BY SignedAssumption DEF SignedTypes, CallRecords
    <3>. QED BY <1>0, <3>1 DEF RetriesAreBreaks
  <2>. QED BY <1>3, <2>2, <2>3 DEF RetriesAreBreaks
<1>6. TokensAreFresh'
  BY <1>1, <1>3 DEF TokensAreFresh
<1>7. DispatchIsUnderWay'
  <2>1. n.st \notin {"dispatch", "201"}
    BY <1>1
  <2>2. \A d \in Calls : d # c /\ <<d, call[d].tries>> \in rows => <<d, call[d].tries>> \in rows'
    OBVIOUS
  <2>. QED BY <1>3, <2>1, <2>2 DEF DispatchIsUnderWay
<1>8. HandledJobsVerify'
  BY DEF HandledJobsVerify
<1>. QED BY <1>4, <1>5, <1>6, <1>7, <1>8

\* Logging in, the end of a token's life, and the 401 that follows.
LEMMA TokenStepsKeep ==
  ASSUME SignedInv, ExpireTokens \/ \E c \in Calls : TakeToken(c) \/ PostExpired(c)
  PROVE  SignedInv'
<1>. USE DEF SignedInv
<1>0. /\ token \in Nat /\ issued \in Nat /\ expired \in Nat /\ expiries \in Nat /\ breaks \in Nat
      /\ \A c \in Calls : call[c] \in CallRecords
  BY DEF SignedTypes
<1>1. CASE ExpireTokens
  <2>1. /\ expired' = issued /\ expired < issued /\ expiries' = expiries + 1
        /\ UNCHANGED <<token, issued, breaks, call, rows, handled, listed>>
    BY <1>1 DEF ExpireTokens
  <2>2. SignedTypes' /\ RetriesAreBreaks' /\ HandledJobsVerify'
    BY <1>0, <2>1 DEF SignedTypes, RetriesAreBreaks, HandledJobsVerify
  <2>3. DispatchIsUnderWay'
    BY <2>1, ZenonT(60) DEF DispatchIsUnderWay, Message, Signature
  <2>4. TokensAreFresh'
    <3>1. expiries' <= 1 => expiries = 0 /\ expiries' = 1
      BY <1>0, <2>1
    <3>2. expired' <= issued' /\ token' <= issued' /\ expiries' # 0
      BY <1>0, <2>1 DEF TokensAreFresh
    <3>3. expiries = 0 => \A c \in Calls : call[c].st # "401" /\ ~call[c].renewed
      BY <1>0 DEF TokensAreFresh
    <3>. QED BY <2>1, <3>1, <3>2, <3>3 DEF TokensAreFresh
  <2>. QED BY <2>2, <2>3, <2>4
<1>2. ASSUME NEW c \in Calls, TakeToken(c) PROVE SignedInv'
  <2> DEFINE n == [call[c] EXCEPT !.st = "post", !.tok = token']
  <2>1. /\ call[c].st = "token" /\ call' = [call EXCEPT ![c] = n]
        /\ issued' = (IF token = NoToken THEN issued + 1 ELSE issued)
        /\ token' = (IF token = NoToken THEN issued' ELSE token)
        /\ UNCHANGED <<expired, expiries, breaks, rows, handled, listed>>
    BY <1>2 DEF TakeToken
  <2>2. /\ issued' \in Nat /\ token' \in Nat /\ token' > 0 /\ token' <= issued'
        /\ issued <= issued' /\ (token = NoToken => token' > expired)
    BY <1>0, <2>1 DEF NoToken, TokensAreFresh
  <2>3. /\ n \in CallRecords /\ n.data = call[c].data /\ n.st = "post" /\ n.tok = token'
        /\ n.tries = call[c].tries /\ n.renewed = call[c].renewed /\ n.left = call[c].left
    BY <1>0, <2>2 DEF CallRecords, CallStates
  <2> HIDE DEF n
  <2>4. /\ call' \in [Calls -> CallRecords] /\ call'[c] = n
        /\ \A d \in Calls : d # c => call'[d] = call[d] /\ Message(d)' = Message(d)
        /\ \A d \in Creators : call'[d].data \in JobSpecs
    BY <2>1, <2>3, OneCallMoves
  <2>5. SignedTypes' /\ HandledJobsVerify'
    BY <1>0, <2>1, <2>2, <2>4 DEF SignedTypes, HandledJobsVerify
  <2>6. RetriesAreBreaks'
    BY <2>1, <2>3, <2>4 DEF RetriesAreBreaks
  <2>7. DispatchIsUnderWay'
    BY <2>1, <2>3, <2>4 DEF DispatchIsUnderWay
  <2>8. TokensAreFresh'
    <3>1. expired' <= issued' /\ token' <= issued' /\ (expiries' = 0 => expired' = 0)
      BY <1>0, <2>1, <2>2 DEF TokensAreFresh
    <3>2. expiries' <= 1 => \A d \in Calls :
            /\ call[d].st # "401"
            /\ call[d].renewed => expiries' = 1 /\ token' > expired'
      BY <1>0, <2>1, <2>2 DEF TokensAreFresh
    <3>. QED BY <2>1, <2>2, <2>3, <2>4, <3>1, <3>2 DEF TokensAreFresh
  <2>. QED BY <2>5, <2>6, <2>7, <2>8
<1>3. ASSUME NEW c \in Calls, PostExpired(c) PROVE SignedInv'
  <2>0. /\ call[c].st = "post" /\ call[c].tok <= expired /\ call[c].tok > 0
        /\ call[c].tok \in Nat /\ expiries # 0
    <3>1. call[c].tok \in Nat
      BY <1>0 DEF CallRecords
    <3>2. call[c].st = "post" /\ call[c].tok <= expired
      BY <1>3 DEF PostExpired, Expired
    <3>3. call[c].tok > 0 /\ (expiries = 0 => expired = 0)
      BY <3>2 DEF TokensAreFresh
    <3>. QED BY <1>0, <3>1, <3>2, <3>3
  <2> DEFINE n == IF call[c].renewed THEN [call[c] EXCEPT !.st = "401"]
                  ELSE [call[c] EXCEPT !.st = "token", !.renewed = TRUE]
  <2>1. /\ call' = [call EXCEPT ![c] = n]
        /\ token' = (IF call[c].renewed THEN token ELSE NoToken)
        /\ UNCHANGED <<issued, expired, expiries, breaks, rows, handled, listed>>
    BY <1>0, <1>3 DEF PostExpired
  <2>2. /\ n \in CallRecords /\ n.data = call[c].data /\ n.tries = call[c].tries
        /\ n.renewed = TRUE /\ n.st = (IF call[c].renewed THEN "401" ELSE "token")
    BY <1>0 DEF CallRecords, CallStates
  <2> HIDE DEF n
  <2>4. /\ call' \in [Calls -> CallRecords] /\ call'[c] = n
        /\ \A d \in Calls : d # c => call'[d] = call[d] /\ Message(d)' = Message(d)
        /\ \A d \in Creators : call'[d].data \in JobSpecs
    BY <2>1, <2>2, OneCallMoves
  <2>5. SignedTypes' /\ HandledJobsVerify'
    BY <1>0, <2>1, <2>4 DEF SignedTypes, HandledJobsVerify, NoToken
  <2>6. RetriesAreBreaks'
    BY <2>1, <2>2, <2>4 DEF RetriesAreBreaks
  <2>7. DispatchIsUnderWay'
    BY <2>1, <2>2, <2>4 DEF DispatchIsUnderWay
  <2>8. TokensAreFresh'
    <3>1. expired' <= issued' /\ token' <= issued' /\ (expiries' = 0 => expired' = 0)
      BY <1>0, <2>1 DEF TokensAreFresh, NoToken
    <3>2. ASSUME expiries <= 1
          PROVE  ~call[c].renewed /\ token' = NoToken /\ expiries = 1
      BY <1>0, <2>0, <2>1, <3>2 DEF TokensAreFresh
    <3>. QED BY <2>1, <2>2, <2>4, <3>1, <3>2 DEF TokensAreFresh
  <2>. QED BY <2>5, <2>6, <2>7, <2>8
<1>. QED BY <1>1, <1>2, <1>3

\* The facilitator takes a call, sends it on to one channel after another, and
\* answers.
LEMMA DispatchStepsKeep ==
  ASSUME SignedInv, NEW c \in Calls,
         Post(c) \/ DispatchNext(c) \/ DispatchFails(c) \/ AnswerCall(c)
  PROVE  SignedInv'
<1>. USE DEF SignedInv
<1>0. /\ call[c] \in CallRecords /\ breaks \in Nat /\ ChannelRows \in Nat
      /\ call[c].left \in 0 .. ChannelRows
  BY SignedAssumption DEF SignedTypes, CallRecords
<1>1. CASE Post(c)
  <2>0. /\ call[c].st = "post"
        /\ UNCHANGED <<token, issued, expired, expiries, breaks, handled, listed>>
        /\ IF (c \in Creators /\ call[c].data.artifacts_dir = Null) \/ (c \in Reporters /\ reported)
           THEN call' = [call EXCEPT ![c].st = "400"] /\ UNCHANGED <<rows, reported>>
           ELSE /\ call' = [call EXCEPT ![c] = [@ EXCEPT !.st = "dispatch", !.left = ChannelRows]]
                /\ rows' = IF c \in Creators THEN rows \cup {<<c, call[c].tries>>} ELSE rows
                /\ reported' = (reported \/ c \in Reporters)
    BY <1>1, FacilitatorAlwaysVerifies DEF Post
  <2> DEFINE refused == (c \in Creators /\ call[c].data.artifacts_dir = Null)
                        \/ (c \in Reporters /\ reported)
             n == IF refused THEN [call[c] EXCEPT !.st = "400"]
                  ELSE [call[c] EXCEPT !.st = "dispatch", !.left = ChannelRows]
  <2>1. /\ call' = [call EXCEPT ![c] = n] /\ rows \subseteq rows'
        /\ ~refused /\ c \in Creators =>
             call[c].data.artifacts_dir # Null /\ <<c, call[c].tries>> \in rows'
    BY <1>0, <2>0
  <2>2. /\ n \in CallRecords /\ n.data = call[c].data /\ n.tries = call[c].tries
        /\ n.renewed = call[c].renewed
        /\ n.st = (IF refused THEN "400" ELSE "dispatch") /\ (~refused => n.left = ChannelRows)
    <3>1. ChannelRows \in 0 .. ChannelRows /\ {"400", "dispatch"} \subseteq CallStates
      BY <1>0 DEF CallStates
    <3>2. CASE refused
      <4>1. n = [call[c] EXCEPT !.st = "400"]
        BY <3>2
      <4>. QED BY <1>0, <3>1, <3>2, <4>1 DEF CallRecords
    <3>3. CASE ~refused
      <4>1. n = [call[c] EXCEPT !.st = "dispatch", !.left = ChannelRows]
        BY <3>3
      <4>. QED BY <1>0, <3>1, <3>3, <4>1 DEF CallRecords
    <3>. QED BY <3>2, <3>3
  <2> HIDE DEF n, refused
  <2>3. /\ call' \in [Calls -> CallRecords] /\ call'[c] = n
        /\ \A d \in Calls : d # c => call'[d] = call[d] /\ Message(d)' = Message(d)
        /\ \A d \in Creators : call'[d].data \in JobSpecs
    BY <2>1, <2>2, OneCallMoves
  <2>4. SignedTypes' /\ HandledJobsVerify'
    BY <2>0, <2>3 DEF SignedTypes, HandledJobsVerify
  <2>5. RetriesAreBreaks'
    BY <2>0, <2>2, <2>3 DEF RetriesAreBreaks
  <2>6. TokensAreFresh'
    BY <2>0, <2>2, <2>3 DEF TokensAreFresh
  <2>7. DispatchIsUnderWay'
    <3>1. ~refused => n.left + 1 .. ChannelRows = {}
      BY <1>0, <2>2
    <3>. QED BY <2>0, <2>1, <2>2, <2>3, <3>1 DEF DispatchIsUnderWay
  <2>. QED BY <2>4, <2>5, <2>6, <2>7
<1>2. CASE DispatchNext(c)
  <2> DEFINE n == [call[c] EXCEPT !.left = call[c].left - 1]
  <2>0. /\ call[c].st = "dispatch" /\ call[c].left > 0
        /\ call' = [call EXCEPT ![c] = n]
        /\ HandleSigned(call[c].left, Message(c))
        /\ UNCHANGED <<token, issued, expired, expiries, breaks, rows, listed>>
    BY <1>2 DEF DispatchNext
  <2>1. call[c].left - 1 \in 0 .. ChannelRows
    BY <1>0, <2>0
  <2>2. /\ n \in CallRecords /\ n.data = call[c].data /\ n.tries = call[c].tries
        /\ n.renewed = call[c].renewed /\ n.st = "dispatch" /\ n.left = call[c].left - 1
    BY <1>0, <2>0, <2>1 DEF CallRecords
  <2> HIDE DEF n
  <2>3. /\ call' \in [Calls -> CallRecords] /\ call'[c] = n
        /\ \A d \in Calls : d # c => call'[d] = call[d] /\ Message(d)' = Message(d)
        /\ Message(c)' = Message(c)
        /\ \A d \in Creators : call'[d].data \in JobSpecs
    BY <2>0, <2>2, OneCallMoves
  <2>4. PICK ok :
          /\ handled' = handled \cup {[channel |-> call[c].left, m |-> Message(c), ok |-> ok]}
          /\ c \in Creators => (ok <=> VerifyRequest(Message(c)))
    <3>1. Message(c).from = c
      BY DEF Message
    <3> DEFINE ok == (Message(c).from \in Creators \/ Message(c).body.details # NoKey)
                     /\ VerifyRequest(Message(c))
    <3>2. handled' = handled \cup {[channel |-> call[c].left, m |-> Message(c), ok |-> ok]}
      BY <2>0 DEF HandleSigned
    <3>3. c \in Creators => (ok <=> VerifyRequest(Message(c)))
      BY <3>1
    <3>. QED BY <3>2, <3>3
  <2>5. SignedTypes'
    BY <2>0, <2>3 DEF SignedTypes
  <2>6. RetriesAreBreaks'
    BY <2>0, <2>2, <2>3 DEF RetriesAreBreaks
  <2>7. TokensAreFresh'
    BY <2>0, <2>2, <2>3 DEF TokensAreFresh
  <2>8. DispatchIsUnderWay'
    <3>1. \A channel \in n.left + 1 .. ChannelRows :
            channel = call[c].left \/ channel \in call[c].left + 1 .. ChannelRows
      BY <1>0, <2>0, <2>2
    <3>2. handled \subseteq handled'
      BY <2>4
    <3>3. \E h \in handled' : h.channel = call[c].left /\ h.m = Message(c)
      <4> DEFINE h == [channel |-> call[c].left, m |-> Message(c), ok |-> ok]
      <4>1. h \in handled' /\ h.channel = call[c].left /\ h.m = Message(c)
        BY <2>4
      <4>. QED BY <4>1
    <3>4. \A channel \in n.left + 1 .. ChannelRows :
            \E h \in handled' : h.channel = channel /\ h.m = Message(c)'
      <4>. SUFFICES ASSUME NEW channel \in n.left + 1 .. ChannelRows
           PROVE \E h \in handled' : h.channel = channel /\ h.m = Message(c)
        BY <2>3
      <4>1. CASE channel \in call[c].left + 1 .. ChannelRows
        <5>1. PICK h \in handled : h.channel = channel /\ h.m = Message(c)
          BY <2>0, <4>1, Zenon DEF DispatchIsUnderWay
        <5>. QED BY <3>2, <5>1
      <4>. QED BY <3>1, <3>3, <4>1
    <3>5. c \in Creators => n.data.artifacts_dir # Null /\ <<c, n.tries>> \in rows'
      BY <2>0, <2>2 DEF DispatchIsUnderWay
    <3>6. ASSUME NEW d \in Calls, d # c, call[d].st \in {"dispatch", "201"}
          PROVE  \A channel \in call[d].left + 1 .. ChannelRows :
                   \E h \in handled' : h.channel = channel /\ h.m = Message(d)'
      <4>. SUFFICES ASSUME NEW channel \in call[d].left + 1 .. ChannelRows
           PROVE \E h \in handled' : h.channel = channel /\ h.m = Message(d)
        BY <2>3, <3>6
      <4>1. PICK h \in handled : h.channel = channel /\ h.m = Message(d)
        BY <3>6, Zenon DEF DispatchIsUnderWay
      <4>. QED BY <3>2, <4>1
    <3>7. ASSUME NEW d \in Calls, d # c
          PROVE  /\ call'[d].st = "201" => call'[d].left = 0
                 /\ call'[d].st \in {"dispatch", "201"} => (d \in Creators =>
                      call'[d].data.artifacts_dir # Null /\ <<d, call'[d].tries>> \in rows')
      BY <2>0, <2>3, <3>7 DEF DispatchIsUnderWay
    <3>8. ASSUME NEW d \in Calls, d # c
          PROVE  /\ call'[d].st = "201" => call'[d].left = 0
                 /\ call'[d].st \in {"dispatch", "201"} =>
                      /\ d \in Creators =>
                           call'[d].data.artifacts_dir # Null /\ <<d, call'[d].tries>> \in rows'
                      /\ \A channel \in call'[d].left + 1 .. ChannelRows :
                           \E h \in handled' : h.channel = channel /\ h.m = Message(d)'
      <4>1. call'[d] = call[d]
        BY <2>3, <3>8
      <4>. QED BY <3>6, <3>7, <3>8, <4>1, Zenon
    <3>9. call'[c].st # "201" /\ call'[c] = n
      BY <2>2, <2>3
    <3>10. /\ c \in Creators =>
                call'[c].data.artifacts_dir # Null /\ <<c, call'[c].tries>> \in rows'
           /\ \A channel \in call'[c].left + 1 .. ChannelRows :
                \E h \in handled' : h.channel = channel /\ h.m = Message(c)'
      BY <3>4, <3>5, <3>9, Zenon
    <3>11. ASSUME NEW d \in Calls
           PROVE  /\ call'[d].st = "201" => call'[d].left = 0
                  /\ call'[d].st \in {"dispatch", "201"} =>
                       /\ d \in Creators =>
                            call'[d].data.artifacts_dir # Null /\ <<d, call'[d].tries>> \in rows'
                       /\ \A channel \in call'[d].left + 1 .. ChannelRows :
                            \E h \in handled' : h.channel = channel /\ h.m = Message(d)'
      <4>1. CASE d = c
        BY <3>9, <3>10, <4>1, Zenon
      <4>. QED BY <3>8, <4>1, Zenon
    <3>. QED BY <3>11, Zenon DEF DispatchIsUnderWay
  <2>9. HandledJobsVerify'
    <3>1. Message(c).from = c
      BY DEF Message
    <3>2. c \in Creators => (ok <=> listed)
      BY <2>0, <2>4, ValidatorVerifiesJobs DEF SignedTypes, DispatchIsUnderWay
    <3>. QED BY <2>0, <2>4, <3>1, <3>2 DEF HandledJobsVerify
  <2>. QED BY <2>5, <2>6, <2>7, <2>8, <2>9
<1>3. CASE DispatchFails(c)
  <2>1. /\ Retry(c) /\ breaks' = breaks + 1 /\ rows' = rows \ {<<c, call[c].tries>>}
        /\ UNCHANGED <<token, issued, expired, expiries, handled, listed>>
    BY <1>3 DEF DispatchFails
  <2>2. \A d \in Calls : \A t : <<d, t>> \in rows => d = c \/ <<d, t>> \in rows'
    BY <2>1
  <2>. QED BY <2>1, <2>2, RetryKeeps
<1>4. CASE AnswerCall(c) /\ Retry(c) /\ breaks' = breaks + 1
  <2>1. UNCHANGED <<token, issued, expired, expiries, rows, handled, listed>>
    BY <1>4 DEF AnswerCall
  <2>. QED BY <1>4, <2>1, RetryKeeps
<1>5. CASE AnswerCall(c) /\ call' = [call EXCEPT ![c].st = "201"] /\ UNCHANGED breaks
  <2> DEFINE n == [call[c] EXCEPT !.st = "201"]
  <2>0. /\ call[c].st = "dispatch" /\ call[c].left = 0 /\ call' = [call EXCEPT ![c] = n]
        /\ UNCHANGED <<token, issued, expired, expiries, breaks, rows, handled, listed>>
    BY <1>5 DEF AnswerCall
  <2>2. /\ n \in CallRecords /\ n.data = call[c].data /\ n.tries = call[c].tries
        /\ n.renewed = call[c].renewed /\ n.st = "201" /\ n.left = call[c].left
    BY <1>0 DEF CallRecords, CallStates
  <2> HIDE DEF n
  <2>3. /\ call' \in [Calls -> CallRecords] /\ call'[c] = n
        /\ \A d \in Calls : d # c => call'[d] = call[d] /\ Message(d)' = Message(d)
        /\ Message(c)' = Message(c)
        /\ \A d \in Creators : call'[d].data \in JobSpecs
    BY <2>0, <2>2, OneCallMoves
  <2>4. SignedTypes' /\ HandledJobsVerify'
    BY <2>0, <2>3 DEF SignedTypes, HandledJobsVerify
  <2>5. RetriesAreBreaks'
    BY <2>0, <2>2, <2>3 DEF RetriesAreBreaks
  <2>6. TokensAreFresh'
    BY <2>0, <2>2, <2>3 DEF TokensAreFresh
  <2>7. DispatchIsUnderWay'
    BY <2>0, <2>2, <2>3 DEF DispatchIsUnderWay
  <2>. QED BY <2>4, <2>5, <2>6, <2>7
<1>. QED BY <1>1, <1>2, <1>3, <1>4, <1>5 DEF AnswerCall

\* From the SDK to the validator: a request signed by the SDK verifies after
\* every conversion on its way, a call answered with success was dispatched to
\* every channel, and one expiry of the tokens is renewed unseen, for any number
\* of calls and channels.
THEOREM AcceptedCallsAlwaysArrive == SignedSpec => []AcceptedCallsArrive
<1>1. SignedInit => SignedInv
  <2>. SUFFICES ASSUME SignedInit PROVE SignedInv
    OBVIOUS
  <2>1. /\ token = 0 /\ issued = 0 /\ expired = 0 /\ expiries = 0 /\ breaks = 0
        /\ handled = {}
    BY DEF SignedInit, NoToken
  <2>2. PICK data \in [Creators -> JobSpecs], details \in [Reporters -> ReportDetails] :
          call = [c \in Calls |->
            [st |-> "token", tok |-> NoToken, renewed |-> FALSE, tries |-> 1, left |-> 0,
             data |-> IF c \in Creators THEN data[c]
                      ELSE [job_uuid |-> "job", details |-> details[c]]]]
    BY DEF SignedInit
  <2> DEFINE given(c) == IF c \in Creators THEN data[c]
                         ELSE [job_uuid |-> "job", details |-> details[c]]
  <2>3. \A c \in Calls : given(c) \in CallData /\ (c \in Creators => given(c) \in JobSpecs)
    BY DEF CallData, Calls
  <2>4. call = [c \in Calls |->
            [st |-> "token", tok |-> NoToken, renewed |-> FALSE, tries |-> 1, left |-> 0,
             data |-> given(c)]]
    BY <2>2
  <2> HIDE DEF given
  <2>5. "token" \in CallStates /\ NoToken \in Nat /\ 1 \in 1 .. HttpAttempts /\ 0 \in 0 .. ChannelRows
    BY SignedAssumption DEF CallStates, NoToken
  <2>6. call \in [Calls -> CallRecords]
    BY <2>3, <2>4, <2>5 DEF CallRecords
  <2>7. \A c \in Calls : /\ call[c].st = "token" /\ call[c].renewed = FALSE
                         /\ call[c].tries = 1 /\ call[c].data = given(c)
    BY <2>4
  <2>8. SignedTypes
    BY <2>1, <2>3, <2>6, <2>7 DEF SignedTypes, Calls
  <2>. QED BY <2>1, <2>7, <2>8 DEF SignedInv, RetriesAreBreaks, TokensAreFresh,
         DispatchIsUnderWay, HandledJobsVerify
<1>2. SignedInv /\ [SignedNext]_signedVars => SignedInv'
  <2>. SUFFICES ASSUME SignedInv, [SignedNext]_signedVars PROVE SignedInv'
    OBVIOUS
  <2>1. CASE UNCHANGED signedVars
    <3>. USE <2>1 DEF signedVars, SignedInv
    <3>1. \A c \in Calls : Message(c)' = Message(c)
      BY DEF Message, Signature
    <3>2. SignedTypes' /\ RetriesAreBreaks' /\ HandledJobsVerify'
      BY DEF SignedTypes, RetriesAreBreaks, HandledJobsVerify
    <3>3. TokensAreFresh'
      BY DEF TokensAreFresh
    <3>4. DispatchIsUnderWay'
      BY <3>1 DEF DispatchIsUnderWay
    <3>. QED BY <3>2, <3>3, <3>4
  <2>. QED BY <2>1, TokenStepsKeep, DispatchStepsKeep DEF SignedNext
<1>3. SignedInv => AcceptedCallsArrive
  <2>. SUFFICES ASSUME SignedInv PROVE AcceptedCallsArrive
    OBVIOUS
  <2>. USE DEF SignedInv
  <2>1. HonestRequestsVerify
    <3>1. \A c \in Creators : call[c].st # "error" \/ breaks >= HttpAttempts
      BY SignedAssumption DEF RetriesAreBreaks, Calls, SignedTypes
    <3>. QED BY <3>1 DEF HonestRequestsVerify, HandledJobsVerify
  <2>2. AnsweredCallsAreDispatched
    <3>. SUFFICES ASSUME NEW c \in Calls, call[c].st = "201"
         PROVE  /\ \A channel \in 1 .. ChannelRows :
                     \E h \in handled : h.channel = channel /\ h.m = Message(c)
                /\ c \in Creators => <<c, call[c].tries>> \in rows
      BY DEF AnsweredCallsAreDispatched
    <3>1. call[c].left = 0
      BY DEF DispatchIsUnderWay
    <3>2. call[c].left + 1 = 1
      BY <3>1
    <3>3. /\ \A channel \in call[c].left + 1 .. ChannelRows :
                \E h \in handled : h.channel = channel /\ h.m = Message(c)
          /\ c \in Creators => <<c, call[c].tries>> \in rows
      BY Zenon DEF DispatchIsUnderWay
    <3>. QED BY <3>2, <3>3
  <2>3. OneExpiryIsInvisible
    BY DEF OneExpiryIsInvisible, TokensAreFresh
  <2>. QED BY <2>1, <2>2, <2>3 DEF AcceptedCallsArrive
<1>. QED BY <1>1, <1>2, <1>3, PTL DEF SignedSpec

-----------------------------------------------------------------------------
(* Periodic fetches: the list of validators *)

ValidatorRows == [exists : BOOLEAN, active : BOOLEAN, debug : BOOLEAN]
FetchStates ==
  {IdleFetch} \cup [at : {"metagraph", "rows"}, keys : SUBSET Holders]
  \cup [at : {"create", "update"}, keys : SUBSET Holders, rows : SUBSET Holders]

ListTypes ==
  /\ validatorRow \in [Holders -> ValidatorRows]
  /\ fetch \in [Fetchers -> FetchStates]

\* The forced validator is in every list, its row is active from the start, and
\* a fetch that updates rows knows it is there.
ForcedIsListed ==
  /\ validatorRow[Bac].exists => validatorRow[Bac].active
  /\ served => validatorRow[Bac].exists
  /\ \A w \in Fetchers :
       /\ fetch[w].at \in {"rows", "create", "update"} => Bac \in fetch[w].keys
       /\ fetch[w].at \in {"create", "update"} => fetch[w].rows \subseteq Rows
       /\ fetch[w].at = "update" => validatorRow[Bac].exists

\* A validator that is for debugging, and was added while no fetch was at work,
\* is active and among the keys of every fetch.
DebugIsListed ==
  \A k \in Holders : validatorRow[k].exists /\ validatorRow[k].debug /\ k \notin unlucky =>
    /\ validatorRow[k].active
    /\ \A w \in Fetchers : fetch[w].at # "idle" => k \in fetch[w].keys

ListInv == ListTypes /\ ForcedIsListed /\ DebugIsListed

\* A list that get_validators returns has the forced validator in it.
LEMMA ListHasForced == \A list \in GetValidators : Bac \in list /\ list \subseteq Holders
BY DEF GetValidators, TopOf

\* One fetch moves on without touching the rows.
LEMMA FetchMoves ==
  ASSUME ListInv, NEW w \in Fetchers, NEW n \in FetchStates, fetch' = [fetch EXCEPT ![w] = n],
         UNCHANGED <<validatorRow, served, unlucky>>,
         n.at \in {"rows", "create", "update"} => Bac \in n.keys,
         n.at \in {"create", "update"} => n.rows \subseteq Rows,
         n.at = "update" => validatorRow[Bac].exists,
         n.at # "idle" => \A k \in Holders :
           validatorRow[k].exists /\ validatorRow[k].debug /\ k \notin unlucky => k \in n.keys
  PROVE  ListInv'
<1>. USE DEF ListInv
<1>1. /\ fetch' \in [Fetchers -> FetchStates] /\ fetch'[w] = n
      /\ \A v \in Fetchers : v # w => fetch'[v] = fetch[v]
  BY DEF ListTypes
<1>2. Rows' = Rows
  BY DEF Rows
<1>3. ListTypes'
  BY <1>1 DEF ListTypes
<1>4. ForcedIsListed'
  BY <1>1, <1>2 DEF ForcedIsListed
<1>5. DebugIsListed'
  BY <1>1 DEF DebugIsListed
<1>. QED BY <1>3, <1>4, <1>5

\* The fields of a fetch at each of its places.
LEMMA FetchFields ==
  ASSUME ListTypes, NEW w \in Fetchers
  PROVE  /\ fetch[w].at \in {"idle", "metagraph", "rows", "create", "update"}
         /\ fetch[w].at # "idle" => fetch[w].keys \in SUBSET Holders
         /\ fetch[w].at \in {"create", "update"} =>
              /\ fetch[w].rows \in SUBSET Holders
              /\ fetch[w] \in [at : {"create", "update"}, keys : SUBSET Holders,
                               rows : SUBSET Holders]
<1>1. fetch[w] \in FetchStates
  BY DEF ListTypes
<1>. QED BY <1>1 DEF FetchStates, IdleFetch

\* Each step of a fetch, of the metagraph and of an administrator.
LEMMA ListStepKeeps == ListInv /\ ValidatorListNext => ListInv'
<1>. SUFFICES ASSUME ListInv, ValidatorListNext PROVE ListInv'
  OBVIOUS
<1>. USE DEF ListInv
<1>0. Bac \in Holders /\ IdleFetch.at = "idle" /\ IdleFetch \in FetchStates
  BY DEF Holders, IdleFetch, FetchStates
<1>1. CASE MetagraphMoves
  BY <1>1 DEF MetagraphMoves, ListTypes, ForcedIsListed, DebugIsListed, Rows
<1>2. ASSUME NEW k \in Holders, AddDebug(k) PROVE ListInv'
  <2> DEFINE n == [exists |-> TRUE, active |-> TRUE, debug |-> TRUE]
  <2>1. /\ validatorRow' = [validatorRow EXCEPT ![k] = n]
        /\ unlucky' = (IF \E w \in Fetchers : fetch[w].at # "idle" THEN unlucky \cup {k}
                       ELSE unlucky \ {k})
        /\ fetch' = fetch /\ served' = served
    BY <1>2 DEF AddDebug
  <2>2. n \in ValidatorRows /\ n.exists = TRUE /\ n.active = TRUE /\ n.debug = TRUE
    BY DEF ValidatorRows
  <2> HIDE DEF n
  <2>3. /\ validatorRow' \in [Holders -> ValidatorRows] /\ validatorRow'[k] = n
        /\ \A h \in Holders : h # k => validatorRow'[h] = validatorRow[h]
    BY <2>1, <2>2 DEF ListTypes
  <2>4. Rows \subseteq Rows'
    BY <2>2, <2>3 DEF Rows
  <2>5. ListTypes'
    BY <2>1, <2>3 DEF ListTypes
  <2>6. ForcedIsListed'
    BY <1>0, <2>1, <2>2, <2>3, <2>4 DEF ForcedIsListed
  <2>7. DebugIsListed'
    BY <2>1, <2>2, <2>3 DEF DebugIsListed
  <2>. QED BY <2>5, <2>6, <2>7
<1>3. ASSUME NEW w \in Fetchers, ReadDebugKeys(w) PROVE ListInv'
  <2> DEFINE n == [at |-> "metagraph", keys |-> DebugKeys]
  <2>1. fetch' = [fetch EXCEPT ![w] = n] /\ UNCHANGED <<validatorRow, served, unlucky>>
    BY <1>3 DEF ReadDebugKeys
  <2>2. DebugKeys \subseteq Holders
    BY DEF DebugKeys, Rows
  <2>3. n \in FetchStates /\ n.at = "metagraph" /\ n.keys = DebugKeys
    BY <2>2 DEF FetchStates
  <2>4. \A k \in Holders :
          validatorRow[k].exists /\ validatorRow[k].debug /\ k \notin unlucky => k \in DebugKeys
    BY DEF DebugIsListed, DebugKeys, Rows
  <2> HIDE DEF n
  <2>. QED BY <2>1, <2>3, <2>4, FetchMoves
<1>4. ASSUME NEW w \in Fetchers, ReadMetagraph(w) PROVE ListInv'
  <2>0. fetch[w].at = "metagraph" /\ UNCHANGED <<validatorRow, served, unlucky>>
    BY <1>4 DEF ReadMetagraph
  <2>1. CASE fetch' = [fetch EXCEPT ![w] = IdleFetch]
    BY <1>0, <2>0, <2>1, FetchMoves
  <2>2. ASSUME NEW list \in GetValidators,
               fetch' = [fetch EXCEPT ![w] = [at |-> "rows", keys |-> @.keys \cup list]]
        PROVE  ListInv'
    <3> DEFINE n == [at |-> "rows", keys |-> fetch[w].keys \cup list]
    <3>1. n \in FetchStates /\ n.at = "rows" /\ n.keys = fetch[w].keys \cup list /\ Bac \in n.keys
      BY <2>0, ListHasForced, FetchFields DEF FetchStates
    <3>2. fetch' = [fetch EXCEPT ![w] = n]
      BY <2>2
    <3>3. \A k \in Holders :
            validatorRow[k].exists /\ validatorRow[k].debug /\ k \notin unlucky => k \in n.keys
      BY <2>0, <3>1 DEF DebugIsListed
    <3> HIDE DEF n
    <3>. QED BY <2>0, <3>1, <3>2, <3>3, FetchMoves
  <2>. QED BY <1>4, <2>1, <2>2 DEF ReadMetagraph
<1>5. ASSUME NEW w \in Fetchers, ReadRows(w) PROVE ListInv'
  <2>0. fetch[w].at = "rows" /\ UNCHANGED <<validatorRow, served, unlucky>>
    BY <1>5 DEF ReadRows
  <2> DEFINE n == [at |-> "create", keys |-> fetch[w].keys, rows |-> Rows]
  <2>1. fetch' = [fetch EXCEPT ![w] = n]
    BY <1>5 DEF ReadRows
  <2>2. /\ n \in FetchStates /\ n.at = "create" /\ n.keys = fetch[w].keys /\ n.rows = Rows
        /\ Bac \in n.keys
    BY <2>0, FetchFields DEF FetchStates, Rows, ForcedIsListed
  <2>3. \A k \in Holders :
          validatorRow[k].exists /\ validatorRow[k].debug /\ k \notin unlucky => k \in n.keys
    BY <2>0, <2>2 DEF DebugIsListed
  <2> HIDE DEF n
  <2>. QED BY <2>0, <2>1, <2>2, <2>3, FetchMoves
<1>6. ASSUME NEW w \in Fetchers, CreateRows(w) PROVE ListInv'
  <2> DEFINE new == fetch[w].keys \ fetch[w].rows
             added == [NoRow EXCEPT !.exists = TRUE, !.active = TRUE]
             n == [fetch[w] EXCEPT !.at = "update"]
  <2>0. fetch[w].at = "create" /\ UNCHANGED <<served, unlucky>>
    BY <1>6 DEF CreateRows
  <2>1. CASE new \cap Rows # {}
    <3>1. fetch' = [fetch EXCEPT ![w] = IdleFetch] /\ UNCHANGED validatorRow
      BY <1>6, <2>1 DEF CreateRows
    <3>. QED BY <1>0, <2>0, <3>1, FetchMoves
  <2>2. CASE new \cap Rows = {}
    <3>1. /\ fetch' = [fetch EXCEPT ![w] = n]
          /\ validatorRow' = [k \in Holders |-> IF k \in new THEN added ELSE validatorRow[k]]
      BY <1>6, <2>2 DEF CreateRows
    <3>2. added \in ValidatorRows /\ added.exists = TRUE /\ added.active = TRUE /\ added.debug = FALSE
      BY DEF NoRow, ValidatorRows
    <3>3. /\ n \in FetchStates /\ n.at = "update" /\ n.keys = fetch[w].keys
          /\ n.rows = fetch[w].rows
      BY <2>0, FetchFields DEF FetchStates
    <3>4. Bac \in new \/ Bac \in Rows
      BY <1>0, <2>0 DEF ForcedIsListed
    <3> HIDE DEF new, added, n
    <3>5. /\ validatorRow' \in [Holders -> ValidatorRows]
          /\ \A k \in Holders : validatorRow'[k] = IF k \in new THEN added ELSE validatorRow[k]
      BY <3>1, <3>2 DEF ListTypes
    <3>6. /\ fetch' \in [Fetchers -> FetchStates] /\ fetch'[w] = n
          /\ \A v \in Fetchers : v # w => fetch'[v] = fetch[v]
      BY <3>1, <3>3 DEF ListTypes
    <3>7. Rows \subseteq Rows'
      BY <2>2, <3>2, <3>5 DEF Rows
    <3>8. validatorRow'[Bac].exists /\ (validatorRow[Bac].exists => validatorRow'[Bac].active)
      BY <1>0, <3>2, <3>4, <3>5 DEF ForcedIsListed, Rows
    <3>9. validatorRow'[Bac].active
      BY <1>0, <3>2, <3>4, <3>5, <3>8 DEF Rows
    <3>10. ListTypes'
      BY <3>5, <3>6 DEF ListTypes
    <3>11. ForcedIsListed'
      BY <2>0, <3>3, <3>6, <3>7, <3>8, <3>9 DEF ForcedIsListed
    <3>12. DebugIsListed'
      BY <2>0, <3>2, <3>3, <3>5, <3>6 DEF DebugIsListed
    <3>. QED BY <3>10, <3>11, <3>12
  <2>. QED BY <2>1, <2>2
<1>7. ASSUME NEW w \in Fetchers, UpdateRows(w) PROVE ListInv'
  <2>0. /\ fetch[w].at = "update" /\ fetch' = [fetch EXCEPT ![w] = IdleFetch] /\ unlucky' = unlucky
        /\ validatorRow' = [k \in Holders |->
             IF k \in fetch[w].rows THEN [validatorRow[k] EXCEPT !.active = k \in fetch[w].keys]
             ELSE validatorRow[k]]
    BY <1>7 DEF UpdateRows
  <2>1. \A k \in Holders :
          /\ validatorRow[k] \in ValidatorRows
          /\ validatorRow'[k] \in ValidatorRows
          /\ validatorRow'[k].exists = validatorRow[k].exists
          /\ validatorRow'[k].debug = validatorRow[k].debug
          /\ validatorRow'[k].active = IF k \in fetch[w].rows THEN k \in fetch[w].keys
                                       ELSE validatorRow[k].active
    <3>. SUFFICES ASSUME NEW k \in Holders
         PROVE  /\ validatorRow[k] \in ValidatorRows
                /\ validatorRow'[k] \in ValidatorRows
                /\ validatorRow'[k].exists = validatorRow[k].exists
                /\ validatorRow'[k].debug = validatorRow[k].debug
                /\ validatorRow'[k].active = IF k \in fetch[w].rows THEN k \in fetch[w].keys
                                             ELSE validatorRow[k].active
      OBVIOUS
    <3>1. validatorRow[k] \in ValidatorRows
      BY DEF ListTypes
    <3>2. CASE k \in fetch[w].rows
      <4> DEFINE b == k \in fetch[w].keys
      <4>1. validatorRow'[k] = [validatorRow[k] EXCEPT !.active = b] /\ b \in BOOLEAN
        BY <2>0, <3>2
      <4> HIDE DEF b
      <4>2. /\ validatorRow'[k] \in ValidatorRows
            /\ validatorRow'[k].exists = validatorRow[k].exists
            /\ validatorRow'[k].debug = validatorRow[k].debug
            /\ validatorRow'[k].active = b
        BY <3>1, <4>1 DEF ValidatorRows
      <4>. QED BY <3>1, <3>2, <4>2 DEF b
    <3>3. CASE k \notin fetch[w].rows
      BY <2>0, <3>1, <3>3
    <3>. QED BY <3>2, <3>3
  <2>2. /\ fetch' \in [Fetchers -> FetchStates] /\ fetch'[w].at = "idle"
        /\ \A v \in Fetchers : v # w => fetch'[v] = fetch[v]
    BY <1>0, <2>0 DEF ListTypes
  <2>3. Rows' = Rows
    BY <2>1 DEF Rows
  <2>4. ListTypes'
    BY <2>0, <2>1, <2>2 DEF ListTypes
  <2>5. ForcedIsListed'
    <3>1. validatorRow'[Bac].exists /\ validatorRow'[Bac].active
      BY <1>0, <2>0, <2>1 DEF ForcedIsListed
    <3>2. \A v \in Fetchers :
            /\ fetch'[v].at \in {"rows", "create", "update"} => Bac \in fetch'[v].keys
            /\ fetch'[v].at \in {"create", "update"} => fetch'[v].rows \subseteq Rows'
      BY <2>2, <2>3 DEF ForcedIsListed
    <3>. QED BY <3>1, <3>2 DEF ForcedIsListed
  <2>6. DebugIsListed'
    BY <2>0, <2>1, <2>2 DEF DebugIsListed
  <2>. QED BY <2>4, <2>5, <2>6
<1>. QED BY <1>1, <1>2, <1>3, <1>4, <1>5, <1>6, <1>7 DEF ValidatorListNext

-----------------------------------------------------------------------------
(* Periodic fetches: the dynamic configuration *)

ConfigFiles == {"own", "common"}
ConfigFetches == [at : {"file", "done"}, file : 1 .. 2, item : Nat \ {0}, tries : Nat, began : BOOLEAN]

ConfigTypes ==
  /\ dynamicFiles \in [ConfigFiles -> Seq(BOOLEAN)]
  /\ dated \in BOOLEAN
  /\ configFetch \in {IdleFetch} \cup ConfigFetches
  /\ configFetch.at # "idle" => (configFetch.began => dated)

\* Of the items before i, the last that is due at the date is the setting s, if
\* any is due.
Leaves(s, path, i, date) ==
  (\E x \in Due(path, date) : x < i) =>
    \E x \in Due(path, date) :
      x < i /\ s = <<path, x>> /\ \A y \in Due(path, date) : y < i => y <= x

\* Of the common file's items before i, the last that is due; if none is, the
\* last of the own file's.
CommonLeaves(s, i, c, o) ==
  IF \E x \in Due("common", c) : x < i THEN Leaves(s, "common", i, c)
  ELSE Leaves(s, "own", Len(dynamicFiles["own"]) + 1, o)

\* What a fetch in state n has made of the setting, with the dates as given.
Applied(n, s, dates) ==
  /\ n.at = "file" /\ n.file = 1 => \E o \in dates : Leaves(s, "own", n.item, o)
  /\ n.at = "file" /\ n.file = 2 => \E c, o \in dates : CommonLeaves(s, n.item, c, o)
  /\ n.at = "done" =>
       \E c, o \in dates : CommonLeaves(s, Len(dynamicFiles["common"]) + 1, c, o)

\* The items that were gone through count as of the date when the fetch began
\* or as of now.
ItemsAreApplied ==
  contract = "unused" => Applied(configFetch, setting, {configFetch.began, dated})

ConfigInv == ConfigTypes /\ ItemsAreApplied

\* Going on by one item: it becomes the setting if its time has come, and else
\* leaves the setting as it was, as no item after the fetch began was later.
LEMMA OneMoreItem ==
  ASSUME ConfigTypes, NEW f \in {1, 2}, NEW i \in 1 .. Len(dynamicFiles[Files[f]]),
         NEW o \in {configFetch.began, dated}, configFetch.at = "file"
  PROVE  /\ InFuture(f, i) => \A x \in Due(Files[f], o) : x < i + 1 <=> x < i
         /\ ~InFuture(f, i) => /\ Leaves(<<Files[f], i>>, Files[f], i + 1, dated)
                               /\ \E x \in Due(Files[f], dated) : x < i + 1
<1>1. /\ Files[f] \in ConfigFiles /\ dynamicFiles[Files[f]] \in Seq(BOOLEAN)
      /\ dated \in BOOLEAN /\ configFetch.began \in BOOLEAN
      /\ (configFetch.began => dated)
  BY DEF ConfigTypes, Files, ConfigFiles, ConfigFetches, IdleFetch
<1> DEFINE path == Files[f]
           items == dynamicFiles[path]
<1>2. /\ DOMAIN items = 1 .. Len(items) /\ Len(items) \in Nat /\ i \in Nat
      /\ \A x \in DOMAIN items : items[x] \in BOOLEAN
  BY <1>1
<1>3. InFuture(f, i) <=> items[i] /\ ~dated
  BY DEF InFuture
<1>4. \A d : \A x : x \in Due(path, d) <=> x \in 1 .. Len(items) /\ (items[x] => d)
  BY <1>2 DEF Due
<1> HIDE DEF path, items
<1>5. CASE InFuture(f, i)
  <2>1. o = FALSE /\ items[i]
    BY <1>1, <1>3, <1>5
  <2>2. i \notin Due(path, o)
    BY <1>4, <2>1
  <2>3. \A x \in Due(path, o) : x < i + 1 <=> x < i
    BY <1>2, <1>4, <2>2
  <2>. QED BY <1>5, <2>3 DEF path
<1>6. CASE ~InFuture(f, i)
  <2>1. i \in Due(path, dated)
    BY <1>1, <1>2, <1>3, <1>4, <1>6 DEF path, items
  <2>2. \A y \in Due(path, dated) : y < i + 1 => y <= i
    BY <1>2, <1>4
  <2>3. i < i + 1
    BY <1>2
  <2>4. Leaves(<<path, i>>, path, i + 1, dated)
    BY <2>1, <2>2, <2>3 DEF Leaves
  <2>. QED BY <1>6, <2>1, <2>3, <2>4 DEF path
<1>. QED BY <1>5, <1>6

\* What is due, and what was left of it, depends on the files only.
LEMMA AppliedStays ==
  ASSUME UNCHANGED dynamicFiles
  PROVE  \A n, s, dates : Applied(n, s, dates)' <=> Applied(n, s, dates)
<1>1. \A path, d : Due(path, d)' = Due(path, d)
  BY DEF Due
<1>2. \A s, path, i, d : Leaves(s, path, i, d)' <=> Leaves(s, path, i, d)
  BY <1>1 DEF Leaves
<1>3. \A s, i, c, o : CommonLeaves(s, i, c, o)' <=> CommonLeaves(s, i, c, o)
  BY <1>1, <1>2 DEF CommonLeaves
<1>. QED BY <1>2, <1>3 DEF Applied

\* The next state is right when what the fetch is to do next fits its setting,
\* with the dates it goes by.
LEMMA FetchStateMoves ==
  ASSUME ConfigTypes, UNCHANGED <<dynamicFiles, contract>>, dated' \in BOOLEAN, dated => dated',
         NEW n \in ConfigFetches, configFetch' = n, NEW s, setting' = s, n.began => dated',
         contract = "unused" => Applied(n, s, {n.began, dated'})
  PROVE  ConfigInv'
<1>1. ConfigTypes'
  BY DEF ConfigTypes
<1>2. PICK dates : dates = {n.began, dated'}
  OBVIOUS
<1>3. contract = "unused" => Applied(n, s, dates)'
  BY <1>2, AppliedStays
<1>4. contract' = "unused" => Applied(configFetch, setting, {configFetch.began, dated})'
  BY <1>2, <1>3
<1>. QED BY <1>1, <1>4 DEF ConfigInv, ItemsAreApplied

\* Before the first item nothing is due.
LEMMA NothingLeft ==
  ASSUME ConfigTypes
  PROVE  \A path \in ConfigFiles : \A d : \A x \in Due(path, d) : ~(x < 1)
<1>. SUFFICES ASSUME NEW path \in ConfigFiles, NEW d, NEW x \in Due(path, d) PROVE ~(x < 1)
  OBVIOUS
<1>1. dynamicFiles[path] \in Seq(BOOLEAN)
  BY DEF ConfigTypes
<1>. QED BY <1>1 DEF Due

\* The state of a fetch that goes on in a file.
LEMMA AtFileFields ==
  ASSUME configFetch \in ConfigFetches, NEW f \in 1 .. 2, NEW i \in Nat \ {0}, NEW t \in Nat
  PROVE  /\ AtFile(f, i, t) \in ConfigFetches /\ AtFile(f, i, t).at = "file"
         /\ AtFile(f, i, t).file = f /\ AtFile(f, i, t).item = i
         /\ AtFile(f, i, t).began = configFetch.began
<1>1. configFetch.began \in BOOLEAN
  BY DEF ConfigFetches
<1>. QED BY <1>1 DEF AtFile, ConfigFetches

\* The state of a fetch that is done.
LEMMA DoneFields ==
  ASSUME configFetch \in ConfigFetches
  PROVE  /\ [configFetch EXCEPT !.at = "done"] \in ConfigFetches
         /\ [configFetch EXCEPT !.at = "done"].at = "done"
         /\ [configFetch EXCEPT !.at = "done"].began = configFetch.began
BY DEF ConfigFetches

\* One item, the next file, the contract, and a fetch that begins again.
LEMMA ConfigStepKeeps == ConfigInv /\ DynamicConfigNext => ConfigInv'
<1>. SUFFICES ASSUME ConfigInv, DynamicConfigNext PROVE ConfigInv'
  OBVIOUS
<1>0. /\ IdleFetch.at = "idle" /\ ConfigTypes /\ ItemsAreApplied
      /\ dated \in BOOLEAN /\ {"own", "common"} = ConfigFiles
      /\ \A n \in ConfigFetches : n.at # "idle"
      /\ configFetch.at # "idle" => configFetch \in ConfigFetches /\ (configFetch.began => dated)
      /\ \A n \in ConfigFetches : n.tries \in Nat /\ n.began \in BOOLEAN
  BY DEF IdleFetch, ConfigInv, ConfigTypes, ConfigFiles, ConfigFetches
<1>1. CASE BeginConfigFetch
  <2> DEFINE n == [at |-> "file", file |-> 1, item |-> 1, tries |-> 1, began |-> dated]
  <2>1. configFetch' = n /\ UNCHANGED <<dynamicFiles, contract, dated, setting>>
    BY <1>1 DEF BeginConfigFetch
  <2>2. n \in ConfigFetches /\ n.at = "file" /\ n.file = 1 /\ n.item = 1 /\ n.began = dated
    BY <1>0 DEF ConfigFetches
  <2> HIDE DEF n
  <2>3. Leaves(setting, "own", 1, dated)
    BY <1>0, NothingLeft DEF Leaves
  <2>4. Applied(n, setting, {n.began, dated'})
    BY <2>1, <2>2, <2>3 DEF Applied
  <2>. QED BY <1>0, <2>1, <2>2, <2>4, FetchStateMoves
<1>2. CASE NextConfigFetch
  <2>1. configFetch' = IdleFetch /\ UNCHANGED <<dynamicFiles, dated>>
    BY <1>2 DEF NextConfigFetch
  <2>. QED BY <1>0, <2>1 DEF ConfigInv, ConfigTypes, ItemsAreApplied, Applied
<1>3. CASE ConfigFetchFails
  <2>1. /\ UNCHANGED <<dynamicFiles, contract, dated, setting>> /\ configFetch.at = "file"
        /\ configFetch' = IF configFetch.tries < FetchAttempts
                          THEN AtFile(1, 1, configFetch.tries + 1)
                          ELSE IdleFetch
    BY <1>3 DEF ConfigFetchFails
  <2>2. CASE configFetch' = IdleFetch
    BY <1>0, <2>1, <2>2 DEF ConfigInv, ConfigTypes, ItemsAreApplied, Applied
  <2>3. CASE configFetch' = AtFile(1, 1, configFetch.tries + 1)
    <3>1. configFetch \in ConfigFetches /\ configFetch.tries + 1 \in Nat /\ 1 \in 1 .. 2
      BY <1>0, <2>1
    <3> DEFINE n == AtFile(1, 1, configFetch.tries + 1)
    <3>2. n \in ConfigFetches /\ n.at = "file" /\ n.file = 1 /\ n.item = 1
          /\ n.began = configFetch.began
      BY <3>1, AtFileFields
    <3> HIDE DEF n
    <3>3. Leaves(setting, "own", 1, dated)
      BY <1>0, NothingLeft DEF Leaves
    <3>4. Applied(n, setting, {n.began, dated'})
      BY <2>1, <3>2, <3>3 DEF Applied
    <3>5. configFetch' = n
      BY <2>3 DEF n
    <3>. QED BY <1>0, <2>1, <3>2, <3>4, <3>5, FetchStateMoves
  <2>. QED BY <2>1, <2>2, <2>3
<1>4. CASE FetchFromContract
  <2> DEFINE n == [configFetch EXCEPT !.at = "done"]
             s == IF contract = "value" THEN FromContract ELSE setting
  <2>1. /\ contract # "unused" /\ configFetch.at = "file"
        /\ configFetch' = n /\ setting' = s
        /\ UNCHANGED <<dynamicFiles, contract, dated>>
    BY <1>4 DEF FetchFromContract
  <2>2. configFetch \in ConfigFetches /\ (configFetch.began => dated)
    BY <1>0, <2>1
  <2>3. n \in ConfigFetches /\ n.began = configFetch.began
    BY <2>2, DoneFields
  <2> HIDE DEF n, s
  <2>. QED BY <1>0, <2>1, <2>2, <2>3, FetchStateMoves
<1>5. CASE DatePasses
  <2>1. /\ dated = FALSE /\ dated' = TRUE
        /\ UNCHANGED <<dynamicFiles, contract, setting, configFetch>>
    BY <1>0, <1>5 DEF DatePasses
  <2>2. CASE configFetch.at = "idle"
    BY <1>0, <2>1, <2>2 DEF ConfigInv, ConfigTypes, ItemsAreApplied, Applied
  <2>3. CASE configFetch.at # "idle"
    <3>1. configFetch \in ConfigFetches /\ configFetch.began = FALSE
      BY <1>0, <2>1, <2>3
    <3>2. {configFetch.began, dated} \subseteq {configFetch.began, dated'}
      BY <2>1, <3>1
    <3>3. contract = "unused" => Applied(configFetch, setting, {configFetch.began, dated'})
      BY <1>0, <3>2 DEF ItemsAreApplied, Applied
    <3>. QED BY <1>0, <2>1, <3>1, <3>3, FetchStateMoves
  <2>. QED BY <2>2, <2>3
<1>6. CASE SyncDynamicConfig
  <2>1. /\ contract = "unused" /\ configFetch.at = "file"
        /\ UNCHANGED <<dynamicFiles, contract, dated>>
    BY <1>6 DEF SyncDynamicConfig
  <2>2. PICK f, i, b : f = configFetch.file /\ i = configFetch.item /\ b = configFetch.began
    OBVIOUS
  <2>3. /\ configFetch \in ConfigFetches /\ (b => dated) /\ configFetch.tries \in Nat
        /\ f \in {1, 2} /\ i \in Nat \ {0} /\ b \in BOOLEAN
    BY <1>0, <2>1, <2>2 DEF ConfigFetches
  <2>4. /\ Files[1] = "own" /\ Files[2] = "common" /\ Len(Files) = 2
        /\ Files[f] \in ConfigFiles
    BY <1>0, <2>3 DEF Files
  <2>5. /\ dynamicFiles[Files[f]] \in Seq(BOOLEAN) /\ Len(dynamicFiles[Files[f]]) \in Nat
        /\ \A x, d : x \in Due(Files[f], d) =>
             x \in Nat /\ x <= Len(dynamicFiles[Files[f]])
    <3>1. dynamicFiles[Files[f]] \in Seq(BOOLEAN)
      BY <1>0, <2>4 DEF ConfigTypes
    <3>2. Len(dynamicFiles[Files[f]]) \in Nat
      BY <3>1
    <3>. QED BY <3>1, <3>2 DEF Due
  <2>6. /\ f = 1 => \E o \in {b, dated} : Leaves(setting, "own", i, o)
        /\ f = 2 => \E c, o \in {b, dated} : CommonLeaves(setting, i, c, o)
    BY <1>0, <2>1, <2>2 DEF ItemsAreApplied, Applied
  <2>7. CASE i <= Len(dynamicFiles[Files[f]])
    <3> DEFINE n == AtFile(f, i + 1, configFetch.tries)
               s == IF InFuture(f, i) THEN setting ELSE <<Files[f], i>>
    <3>1. configFetch' = n /\ setting' = s
      BY <1>6, <2>2, <2>7 DEF SyncDynamicConfig
    <3>2. n \in ConfigFetches /\ n.at = "file" /\ n.file = f /\ n.item = i + 1 /\ n.began = b
      <4>1. i + 1 \in Nat \ {0} /\ f \in 1 .. 2
        BY <2>3
      <4>. QED BY <2>2, <2>3, <4>1, AtFileFields
    <3>3. i \in 1 .. Len(dynamicFiles[Files[f]])
      BY <2>3, <2>5, <2>7
    <3>4. /\ InFuture(f, i) => s = setting
          /\ ~InFuture(f, i) => s = <<Files[f], i>>
      OBVIOUS
    <3> HIDE DEF n, s
    <3>5. ASSUME NEW o \in {b, dated}
          PROVE  /\ InFuture(f, i) => \A x \in Due(Files[f], o) : x < i + 1 <=> x < i
                 /\ ~InFuture(f, i) => /\ Leaves(<<Files[f], i>>, Files[f], i + 1, dated)
                                       /\ \E x \in Due(Files[f], dated) : x < i + 1
      BY <1>0, <2>1, <2>2, <2>3, <3>3, OneMoreItem
    <3>6. CASE f = 1
      <4>1. PICK o \in {b, dated} : Leaves(setting, "own", i, o)
        BY <2>6, <3>6
      <4>2. CASE InFuture(f, i)
        <5>1. \A x \in Due("own", o) : x < i + 1 <=> x < i
          BY <2>4, <3>5, <3>6, <4>2
        <5>2. Leaves(s, "own", i + 1, o)
          BY <3>4, <4>1, <4>2, <5>1 DEF Leaves
        <5>. QED BY <1>0, <2>1, <2>3, <3>1, <3>2, <3>6, <5>2, FetchStateMoves DEF Applied
      <4>3. CASE ~InFuture(f, i)
        <5>1. Leaves(s, "own", i + 1, dated)
          BY <2>4, <3>4, <3>5, <3>6, <4>3
        <5>. QED BY <1>0, <2>1, <2>3, <3>1, <3>2, <3>6, <5>1, FetchStateMoves DEF Applied
      <4>. QED BY <4>2, <4>3
    <3>7. CASE f = 2
      <4>1. PICK c \in {b, dated}, o \in {b, dated} : CommonLeaves(setting, i, c, o)
        BY <2>6, <3>7
      <4>2. CASE InFuture(f, i)
        <5>1. \A x \in Due("common", c) : x < i + 1 <=> x < i
          BY <2>4, <3>5, <3>7, <4>2
        <5>2. CommonLeaves(s, i + 1, c, o)
          <6>1. Leaves(setting, "common", i, c) => Leaves(setting, "common", i + 1, c)
            BY <5>1 DEF Leaves
          <6>. QED BY <3>4, <4>1, <4>2, <5>1, <6>1 DEF CommonLeaves
        <5>. QED BY <1>0, <2>1, <2>3, <3>1, <3>2, <3>7, <5>2, FetchStateMoves DEF Applied
      <4>3. CASE ~InFuture(f, i)
        <5>1. Leaves(s, "common", i + 1, dated) /\ \E x \in Due("common", dated) : x < i + 1
          BY <2>4, <3>4, <3>5, <3>7, <4>3
        <5>2. CommonLeaves(s, i + 1, dated, dated)
          BY <5>1 DEF CommonLeaves
        <5>. QED BY <1>0, <2>1, <2>3, <3>1, <3>2, <3>7, <5>2, FetchStateMoves DEF Applied
      <4>. QED BY <4>2, <4>3
    <3>. QED BY <2>3, <3>6, <3>7
  <2>8. CASE ~(i <= Len(dynamicFiles[Files[f]]))
    <3>1. /\ setting' = setting
          /\ configFetch' = IF f < Len(Files) THEN AtFile(f + 1, 1, configFetch.tries)
                            ELSE [configFetch EXCEPT !.at = "done"]
      BY <1>6, <2>2, <2>8 DEF SyncDynamicConfig
    <3>2. \A x, d : x \in Due(Files[f], d) => x < i /\ x < Len(dynamicFiles[Files[f]]) + 1
      BY <2>3, <2>5, <2>8
    <3>3. CASE f = 1
      <4> DEFINE n == AtFile(2, 1, configFetch.tries)
      <4>1. configFetch' = n
        BY <2>4, <3>1, <3>3
      <4>2. n \in ConfigFetches /\ n.at = "file" /\ n.file = 2 /\ n.item = 1 /\ n.began = b
        <5>1. 2 \in 1 .. 2
          OBVIOUS
        <5>. QED BY <2>2, <2>3, <5>1, AtFileFields
      <4> HIDE DEF n
      <4>3. PICK o \in {b, dated} : Leaves(setting, "own", i, o)
        BY <2>6, <3>3
      <4>4. Leaves(setting, "own", Len(dynamicFiles["own"]) + 1, o)
        BY <2>4, <3>2, <3>3, <4>3 DEF Leaves
      <4>5. CommonLeaves(setting, 1, o, o)
        BY <1>0, <4>4, NothingLeft DEF CommonLeaves
      <4>. QED BY <1>0, <2>1, <2>3, <3>1, <4>1, <4>2, <4>5, FetchStateMoves DEF Applied
    <3>4. CASE f = 2
      <4> DEFINE n == [configFetch EXCEPT !.at = "done"]
      <4>1. configFetch' = n
        BY <2>4, <3>1, <3>4
      <4>2. n \in ConfigFetches /\ n.at = "done" /\ n.began = b
        BY <2>2, <2>3, DoneFields
      <4> HIDE DEF n
      <4>3. PICK c \in {b, dated}, o \in {b, dated} : CommonLeaves(setting, i, c, o)
        BY <2>6, <3>4
      <4>4. CommonLeaves(setting, Len(dynamicFiles["common"]) + 1, c, o)
        BY <2>4, <3>2, <3>4, <4>3 DEF CommonLeaves, Leaves
      <4>. QED BY <1>0, <2>1, <2>3, <3>1, <4>1, <4>2, <4>4, FetchStateMoves DEF Applied
    <3>. QED BY <2>3, <3>3, <3>4
  <2>. QED BY <2>7, <2>8
<1>. QED BY <1>1, <1>2, <1>3, <1>4, <1>5, <1>6 DEF DynamicConfigNext

\* Fetches that overlap or are tried again, for any number of workers, hotkeys
\* and values: the forced validator is served, debug validators stay active
\* unless added between a fetch's reads, and the common configuration wins.
THEOREM FetchesAlwaysSound == FetchesSpec => []FetchesAreSound
<1> DEFINE Inv == ListInv /\ ConfigInv
<1>1. FetchesInit => Inv
  <2>. SUFFICES ASSUME FetchesInit PROVE Inv
    OBVIOUS
  <2>1. Bac \in Holders /\ NoRow \in ValidatorRows /\ NoRow.exists = FALSE
        /\ IdleFetch \in FetchStates /\ IdleFetch.at = "idle"
    BY DEF Holders, NoRow, ValidatorRows, FetchStates, IdleFetch
  <2>2. /\ validatorRow = [k \in Holders |-> NoRow] /\ fetch = [w \in Fetchers |-> IdleFetch]
        /\ served = FALSE /\ dated = FALSE /\ configFetch = IdleFetch
    BY DEF FetchesInit
  <2>3. ListInv
    BY <2>1, <2>2 DEF ListInv, ListTypes, ForcedIsListed, DebugIsListed
  <2>4. UNION {[1 .. n -> BOOLEAN] : n \in 0 .. MaxItems} \subseteq Seq(BOOLEAN)
    <3>. SUFFICES ASSUME NEW n \in 0 .. MaxItems, NEW s \in [1 .. n -> BOOLEAN]
         PROVE s \in Seq(BOOLEAN)
      OBVIOUS
    <3>1. n \in Nat
      BY FetchesAssumption
    <3>. QED BY <3>1, SeqDef
  <2>5. dynamicFiles \in [ConfigFiles -> Seq(BOOLEAN)]
    BY <2>4 DEF FetchesInit, ConfigFiles
  <2>6. ConfigInv
    BY <2>1, <2>2, <2>5 DEF ConfigInv, ConfigTypes, ItemsAreApplied, Applied
  <2>. QED BY <2>3, <2>6
<1>2. Inv /\ [ValidatorListNext \/ DynamicConfigNext]_fetchesVars => Inv'
  <2>. SUFFICES ASSUME Inv, [ValidatorListNext \/ DynamicConfigNext]_fetchesVars PROVE Inv'
    OBVIOUS
  <2>1. ASSUME UNCHANGED validatorListVars PROVE ListInv'
    BY <2>1 DEF validatorListVars, ListInv, ListTypes, ForcedIsListed, DebugIsListed, Rows
  <2>2. ASSUME UNCHANGED dynamicConfigVars PROVE ConfigInv'
    <3>. USE <2>2 DEF dynamicConfigVars, ConfigInv
    <3>1. ConfigTypes'
      BY DEF ConfigTypes
    <3>2. ItemsAreApplied'
      <4>1. PICK n, s, dates : n = configFetch /\ s = setting /\ dates = {configFetch.began, dated}
        OBVIOUS
      <4>2. contract = "unused" => Applied(n, s, dates)'
        BY <4>1, AppliedStays DEF ItemsAreApplied
      <4>. QED BY <4>1, <4>2 DEF ItemsAreApplied
    <3>. QED BY <3>1, <3>2
  <2>3. CASE ValidatorListNext
    <3>1. UNCHANGED dynamicConfigVars
      BY <2>3 DEF ValidatorListNext, MetagraphMoves, AddDebug, ReadDebugKeys, ReadMetagraph,
         ReadRows, CreateRows, UpdateRows
    <3>. QED BY <2>2, <2>3, <3>1, ListStepKeeps
  <2>4. CASE DynamicConfigNext
    <3>1. UNCHANGED validatorListVars
      BY <2>4 DEF DynamicConfigNext, BeginConfigFetch, SyncDynamicConfig, FetchFromContract,
         ConfigFetchFails, NextConfigFetch, DatePasses
    <3>. QED BY <2>1, <2>4, <3>1, ConfigStepKeeps
  <2>5. CASE UNCHANGED fetchesVars
    BY <2>1, <2>2, <2>5 DEF fetchesVars
  <2>. QED BY <2>3, <2>4, <2>5
<1>3. Inv => FetchesAreSound
  <2>. SUFFICES ASSUME Inv PROVE FetchesAreSound
    OBVIOUS
  <2>1. ForcedValidatorIsServed
    BY DEF ListInv, ForcedIsListed, ForcedValidatorIsServed, Active
  <2>2. DebugValidatorsStayActive
    BY DEF ListInv, DebugIsListed, DebugValidatorsStayActive, Active, Rows
  <2>3. CommonConfigWins
    <3>. SUFFICES ASSUME configFetch.at = "done", contract = "unused"
         PROVE  \E c, o \in {configFetch.began, dated} :
                  IF LastDue("common", c) # {} THEN setting \in LastDue("common", c)
                  ELSE LastDue("own", o) # {} => setting \in LastDue("own", o)
      BY DEF CommonConfigWins
    <3>1. PICK c \in {configFetch.began, dated}, o \in {configFetch.began, dated} :
            CommonLeaves(setting, Len(dynamicFiles["common"]) + 1, c, o)
      BY DEF ConfigInv, ItemsAreApplied, Applied
    <3>2. \A path \in ConfigFiles : \A d : \A x \in Due(path, d) : x < Len(dynamicFiles[path]) + 1
      BY DEF Due, ConfigInv, ConfigTypes
    <3>3. \A path, d : LastDue(path, d) # {} => \E x \in Due(path, d) : TRUE
      BY DEF LastDue
    <3>4. \A path \in ConfigFiles : \A d :
            /\ Leaves(setting, path, Len(dynamicFiles[path]) + 1, d)
            /\ \E x \in Due(path, d) : TRUE
            => setting \in LastDue(path, d)
      BY <3>2 DEF Leaves, LastDue
    <3>5. "own" \in ConfigFiles /\ "common" \in ConfigFiles
      BY DEF ConfigFiles
    <3>6. CASE \E x \in Due("common", c) : x < Len(dynamicFiles["common"]) + 1
      <4>1. setting \in LastDue("common", c)
        BY <3>1, <3>4, <3>5, <3>6 DEF CommonLeaves
      <4>. QED BY <4>1
    <3>7. CASE ~\E x \in Due("common", c) : x < Len(dynamicFiles["common"]) + 1
      <4>1. LastDue("common", c) = {}
        BY <3>2, <3>3, <3>5, <3>7
      <4>2. LastDue("own", o) # {} => setting \in LastDue("own", o)
        BY <3>1, <3>3, <3>4, <3>5, <3>7 DEF CommonLeaves
      <4>. QED BY <4>1, <4>2
    <3>. QED BY <3>6, <3>7
  <2>. QED BY <2>1, <2>2, <2>3 DEF FetchesAreSound
<1>. QED BY <1>1, <1>2, <1>3, PTL DEF FetchesSpec

-----------------------------------------------------------------------------
(* Machine specs: the way of the reports *)

SpecReports == [n : Nat, data : SpecData]
Rising(q) == \A i, k \in DOMAIN q : i < k => q[i].n < q[k].n
Before(q, r) == \A a \in Numbers(q), b \in Numbers(r) : a < b

\* The reports are in order in each of the four places, and each place is
\* behind those before it; a report is in one of them, or is lost.
ReportsInOrder ==
  /\ specsSent \in Nat
  /\ {arrived, onWire, specsQueue, outbox} \subseteq Seq(SpecReports)
  /\ Rising(arrived) /\ Rising(onWire) /\ Rising(specsQueue) /\ Rising(outbox)
  /\ Before(arrived, onWire) /\ Before(arrived, specsQueue) /\ Before(arrived, outbox)
  /\ Before(onWire, specsQueue) /\ Before(onWire, outbox) /\ Before(specsQueue, outbox)
  /\ Numbers(arrived) \cup Numbers(onWire) \cup Numbers(specsQueue) \cup Numbers(outbox)
       \cup lostSpecs = 1 .. specsSent

\* Two sequences of reports in a row are in order if each is and the second is
\* behind the first.
LEMMA RowOfReports ==
  ASSUME NEW q \in Seq(SpecReports), NEW r \in Seq(SpecReports)
  PROVE  /\ q \o r \in Seq(SpecReports) /\ Numbers(q \o r) = Numbers(q) \cup Numbers(r)
         /\ Rising(q \o r) <=> Rising(q) /\ Rising(r) /\ Before(q, r)
<1> DEFINE s == q \o r
           m == Len(q)
           l == Len(r)
<1>1. /\ s \in Seq(SpecReports) /\ m \in Nat /\ l \in Nat /\ DOMAIN q = 1 .. m /\ DOMAIN r = 1 .. l
      /\ DOMAIN s = 1 .. m + l
      /\ \A i \in 1 .. m + l : s[i] = IF i <= m THEN q[i] ELSE r[i - m]
  BY ConcatProperties
<1>2. /\ \A i \in DOMAIN q : q[i].n \in Nat
      /\ \A i \in DOMAIN r : r[i].n \in Nat
  <2>1. /\ \A i \in DOMAIN q : q[i] \in SpecReports
        /\ \A i \in DOMAIN r : r[i] \in SpecReports
    BY <1>1, ElementOfSeq
  <2>. QED BY <2>1 DEF SpecReports
<1>. HIDE DEF s, m, l
<1>3. \A i \in DOMAIN q : i \in DOMAIN s /\ s[i] = q[i] /\ i \in Int
  BY <1>1
<1>4. \A i \in DOMAIN r : m + i \in DOMAIN s /\ s[m + i] = r[i] /\ i \in Int
  BY <1>1
<1>5. \A i \in DOMAIN s : \/ i \in DOMAIN q /\ s[i] = q[i]
                          \/ i - m \in DOMAIN r /\ s[i] = r[i - m] /\ i \in Int
  BY <1>1
<1>6. \A i \in DOMAIN q, k \in DOMAIN r : i < m + k
  BY <1>1
<1>7. \A i \in DOMAIN s, k \in DOMAIN s : i < k =>
        \/ i \in DOMAIN q /\ k \in DOMAIN q /\ s[i] = q[i] /\ s[k] = q[k]
        \/ i \in DOMAIN q /\ k - m \in DOMAIN r /\ s[i] = q[i] /\ s[k] = r[k - m]
        \/ /\ i - m \in DOMAIN r /\ k - m \in DOMAIN r /\ s[i] = r[i - m] /\ s[k] = r[k - m]
           /\ i - m < k - m
  BY <1>1
<1>8. Numbers(s) = Numbers(q) \cup Numbers(r)
  <2>1. Numbers(s) \subseteq Numbers(q) \cup Numbers(r)
    BY <1>5 DEF Numbers
  <2>2. Numbers(q) \cup Numbers(r) \subseteq Numbers(s)
    BY <1>3, <1>4 DEF Numbers
  <2>. QED BY <2>1, <2>2
<1>9. ASSUME Rising(q), Rising(r), Before(q, r) PROVE Rising(s)
  <2>1. \A i \in DOMAIN q : q[i].n \in Numbers(q)
    BY DEF Numbers
  <2>2. \A i \in DOMAIN r : r[i].n \in Numbers(r)
    BY DEF Numbers
  <2>. QED BY <1>7, <1>9, <2>1, <2>2 DEF Rising, Before
<1>10. ASSUME Rising(s) PROVE Rising(q) /\ Rising(r) /\ Before(q, r)
  <2>1. Rising(q)
    BY <1>3, <1>10 DEF Rising
  <2>2. Rising(r)
    <3>. SUFFICES ASSUME NEW i \in DOMAIN r, NEW k \in DOMAIN r, i < k PROVE r[i].n < r[k].n
      BY DEF Rising
    <3>1. m + i < m + k
      BY <1>1
    <3>. QED BY <1>4, <1>10, <3>1 DEF Rising
  <2>3. Before(q, r)
    <3>. SUFFICES ASSUME NEW i \in DOMAIN q, NEW k \in DOMAIN r PROVE q[i].n < r[k].n
      BY DEF Before, Numbers
    <3>. QED BY <1>3, <1>4, <1>6, <1>10 DEF Rising
  <2>. QED BY <2>1, <2>2, <2>3
<1>. QED BY <1>1, <1>8, <1>9, <1>10 DEF s

\* A sequence of reports as the row of its parts.
LEMMA PartsOfReports ==
  ASSUME NEW q \in Seq(SpecReports)
  PROVE  /\ \A x \in SpecReports : /\ <<x>> \in Seq(SpecReports) /\ Append(q, x) = q \o <<x>>
                                   /\ Numbers(<<x>>) = {x.n} /\ Rising(<<x>>)
         /\ q # <<>> => /\ Head(q) \in SpecReports /\ Tail(q) \in Seq(SpecReports)
                        /\ q = <<Head(q)>> \o Tail(q)
         /\ \A k \in 0 .. Len(q) :
              /\ SubSeq(q, 1, k) \in Seq(SpecReports) /\ Unsent(q, k) \in Seq(SpecReports)
              /\ q = SubSeq(q, 1, k) \o Unsent(q, k)
<1>1. ASSUME NEW x \in SpecReports
      PROVE  /\ <<x>> \in Seq(SpecReports) /\ Append(q, x) = q \o <<x>>
             /\ Numbers(<<x>>) = {x.n} /\ Rising(<<x>>)
  <2>1. <<x>> \in Seq(SpecReports) /\ DOMAIN <<x>> = {1} /\ <<x>>[1] = x
    OBVIOUS
  <2>2. Append(q, x) = q \o <<x>>
    BY AppendIsConcat
  <2>3. Numbers(<<x>>) = {x.n}
    BY <2>1 DEF Numbers
  <2>4. Rising(<<x>>)
    BY <2>1 DEF Rising
  <2>. QED BY <2>1, <2>2, <2>3, <2>4
<1>2. ASSUME q # <<>>
      PROVE  /\ Head(q) \in SpecReports /\ Tail(q) \in Seq(SpecReports)
             /\ q = <<Head(q)>> \o Tail(q)
  <2>1. Len(q) \in Nat \ {0} /\ Head(q) = q[1] /\ 1 + 1 = 2
    BY <1>2, EmptySeq
  <2>2. 1 \in 1 .. Len(q) /\ Len(q) \in 1 .. Len(q)
    BY <2>1
  <2>3. SubSeq(q, 1, Len(q)) = <<q[1]>> \o SubSeq(q, 2, Len(q))
    BY <2>1, <2>2, SubSeqRecursiveFirst
  <2>4. SubSeq(q, 1, Len(q)) = q /\ Tail(q) = SubSeq(q, 2, Len(q))
    BY <1>2, SubSeqFull, TailIsSubSeq, SMTT(60)
  <2>. QED BY <1>2, <2>1, <2>3, <2>4, HeadTailProperties
<1>3. ASSUME NEW k \in 0 .. Len(q)
      PROVE  /\ SubSeq(q, 1, k) \in Seq(SpecReports) /\ Unsent(q, k) \in Seq(SpecReports)
             /\ q = SubSeq(q, 1, k) \o Unsent(q, k)
  <2>1. Len(q) \in Nat /\ k \in Nat /\ k <= Len(q) /\ DOMAIN q = 1 .. Len(q)
    OBVIOUS
  <2>2. \A i \in 1 .. Len(q) : q[i] \in SpecReports
    BY ElementOfSeq
  <2>3. 1 \in 1 .. Len(q) + 1 /\ k \in 1 - 1 .. Len(q) /\ Len(q) \in k .. Len(q)
    BY <2>1
  <2>4. SubSeq(q, 1, k) \o SubSeq(q, k + 1, Len(q)) = SubSeq(q, 1, Len(q))
    BY <2>3, ConcatAdjacentSubSeq
  <2>5. SubSeq(q, 1, Len(q)) = q
    BY SubSeqFull
  <2>6. SubSeq(q, 1, k) \in Seq(SpecReports)
    <3>1. 1 \in Int /\ k \in Int /\ \A i \in 1 .. k : q[i] \in SpecReports
      BY <2>1, <2>2
    <3>. QED BY <3>1, SubSeqProperties
  <2>7. SubSeq(q, k + 1, Len(q)) \in Seq(SpecReports)
    <3>1. k + 1 \in Int /\ Len(q) \in Int /\ \A i \in k + 1 .. Len(q) : q[i] \in SpecReports
      BY <2>1, <2>2
    <3>. QED BY <3>1, SubSeqProperties
  <2>. QED BY <2>4, <2>5, <2>6, <2>7, ZenonT(60) DEF Unsent
<1>. QED BY <1>1, <1>2, <1>3

\* The steps of the validator and of the connection keep the reports in order.
LEMMA ReportsKeepOrder ==
  ASSUME ReportsInOrder,
         \/ SendMachineSpecs \/ WaitForSpecs
         \/ UNCHANGED <<specsSent, outbox, specsQueue, onWire, arrived, lostSpecs>>
         \/ Sever /\ UNCHANGED <<specsSent, outbox, specsQueue, arrived>>
         \/ /\ onWire # <<>> /\ onWire' = Tail(onWire) /\ arrived' = Append(arrived, Head(onWire))
            /\ UNCHANGED <<specsSent, outbox, specsQueue, lostSpecs>>
  PROVE  ReportsInOrder'
<1>. USE DEF ReportsInOrder
<1>0. /\ Numbers(<<>>) = {} /\ Rising(<<>>) /\ <<>> \in Seq(SpecReports)
  BY DEF Numbers, Rising
<1>1. CASE SendMachineSpecs
  <2>1. specsSent' = specsSent + 1 /\ UNCHANGED <<specsQueue, onWire, arrived>>
    BY <1>1 DEF SendMachineSpecs
  <2>2. CASE lostSpecs' = lostSpecs \cup {specsSent + 1} /\ UNCHANGED outbox
    <3>1. 1 .. specsSent' = 1 .. specsSent \cup {specsSent + 1}
      BY <2>1
    <3>2. Numbers(arrived') = Numbers(arrived) /\ Numbers(onWire') = Numbers(onWire)
          /\ Numbers(specsQueue') = Numbers(specsQueue) /\ Numbers(outbox') = Numbers(outbox)
      BY <2>1, <2>2
    <3>3. specsSent' \in Nat
      BY <2>1
    <3>. QED BY <2>1, <2>2, <3>1, <3>2, <3>3 DEF Before
  <2>3. ASSUME NEW d \in SpecData, UNCHANGED lostSpecs,
               outbox' = Append(outbox, [n |-> specsSent + 1, data |-> d])
        PROVE  ReportsInOrder'
    <3>0. PICK x \in SpecReports : x = [n |-> specsSent + 1, data |-> d]
      <4>1. [n |-> specsSent + 1, data |-> d] \in SpecReports
        BY DEF SpecReports
      <4>. QED BY <4>1
    <3>1. /\ outbox' = outbox \o <<x>> /\ <<x>> \in Seq(SpecReports) /\ Rising(<<x>>)
          /\ Numbers(<<x>>) = {specsSent + 1}
      <4>1. x.n = specsSent + 1
        BY <3>0
      <4>2. outbox \in Seq(SpecReports) /\ outbox' = Append(outbox, x)
        BY <2>3, <3>0
      <4>3. <<x>> \in Seq(SpecReports) /\ Rising(<<x>>) /\ Numbers(<<x>>) = {x.n}
        BY <3>0, <4>2, PartsOfReports
      <4>4. outbox' = outbox \o <<x>>
        BY <4>2, PartsOfReports
      <4>. QED BY <4>1, <4>3, <4>4
    <3>2. \A a \in 1 .. specsSent : a < specsSent + 1
      OBVIOUS
    <3>3. Before(arrived, <<x>>) /\ Before(onWire, <<x>>) /\ Before(specsQueue, <<x>>)
          /\ Before(outbox, <<x>>)
      BY <3>1, <3>2 DEF Before
    <3>4. /\ outbox' \in Seq(SpecReports) /\ Rising(outbox')
          /\ Numbers(outbox') = Numbers(outbox) \cup {specsSent + 1}
      BY <3>1, <3>3, RowOfReports, ZenonT(60)
    <3>5. 1 .. specsSent' = 1 .. specsSent \cup {specsSent + 1} /\ specsSent' \in Nat
      BY <2>1
    <3>6. Before(arrived, outbox') /\ Before(onWire, outbox') /\ Before(specsQueue, outbox')
      BY <3>1, <3>3, <3>4 DEF Before
    <3>. QED BY <2>1, <2>3, <3>4, <3>5, <3>6
  <2>. QED BY <1>1, <2>2, <2>3 DEF SendMachineSpecs
<1>2. CASE WaitForSpecs
  <2>0. PICK h, longer : h = Head(outbox) /\ longer = Append(specsQueue, h)
    OBVIOUS
  <2>1. /\ outbox # <<>> /\ outbox' = Tail(outbox) /\ UNCHANGED <<specsSent, arrived, lostSpecs>>
        /\ \E k \in (IF linkUp THEN 0 .. Len(longer) ELSE {0}) :
             specsQueue' = Unsent(longer, k) /\ onWire' = onWire \o SubSeq(longer, 1, k)
    BY <1>2, <2>0 DEF WaitForSpecs
  <2>2. /\ h \in SpecReports /\ outbox' \in Seq(SpecReports) /\ outbox = <<h>> \o outbox'
    BY <2>0, <2>1, PartsOfReports
  <2>3. /\ <<h>> \in Seq(SpecReports) /\ Numbers(<<h>>) = {h.n} /\ Rising(<<h>>)
        /\ longer = specsQueue \o <<h>>
    BY <2>0, <2>2, PartsOfReports
  <2>4. /\ Numbers(outbox) = {h.n} \cup Numbers(outbox') /\ Rising(outbox')
        /\ Before(<<h>>, outbox')
    BY <2>2, <2>3, RowOfReports, ZenonT(60)
  <2>5. /\ longer \in Seq(SpecReports) /\ Numbers(longer) = Numbers(specsQueue) \cup {h.n}
        /\ Rising(longer)
    <3>1. Before(specsQueue, <<h>>)
      BY <2>3, <2>4 DEF Before
    <3>. QED BY <2>3, <3>1, RowOfReports, ZenonT(60)
  <2>6. Len(longer) \in Nat
    BY <2>5
  <2>7. PICK k \in 0 .. Len(longer) :
          specsQueue' = Unsent(longer, k) /\ onWire' = onWire \o SubSeq(longer, 1, k)
    <3>1. PICK k \in (IF linkUp THEN 0 .. Len(longer) ELSE {0}) :
            specsQueue' = Unsent(longer, k) /\ onWire' = onWire \o SubSeq(longer, 1, k)
      BY <2>1
    <3>2. k \in 0 .. Len(longer)
      BY <2>6
    <3>. QED BY <3>1, <3>2
  <2>8. PICK a \in Seq(SpecReports) : a = SubSeq(longer, 1, k)
    BY <2>5, PartsOfReports
  <2>9. specsQueue' \in Seq(SpecReports) /\ longer = a \o specsQueue'
    BY <2>5, <2>7, <2>8, PartsOfReports
  <2>10. /\ Rising(a) /\ Rising(specsQueue') /\ Before(a, specsQueue')
         /\ Numbers(longer) = Numbers(a) \cup Numbers(specsQueue')
    BY <2>5, <2>9, RowOfReports
  <2>11. Before(onWire, longer) /\ Before(arrived, longer) /\ Before(longer, outbox')
    BY <2>3, <2>4, <2>5 DEF Before
  <2>12. /\ onWire' \in Seq(SpecReports) /\ Rising(onWire')
         /\ Numbers(onWire') = Numbers(onWire) \cup Numbers(a)
    <3>1. Before(onWire, a)
      BY <2>10, <2>11 DEF Before
    <3>2. onWire' = onWire \o a
      BY <2>7, <2>8
    <3>. QED BY <2>8, <2>10, <3>1, <3>2, RowOfReports
  <2>13. /\ Before(arrived, onWire') /\ Before(arrived, specsQueue') /\ Before(arrived, outbox')
         /\ Before(onWire', specsQueue') /\ Before(onWire', outbox') /\ Before(specsQueue', outbox')
    BY <2>4, <2>10, <2>11, <2>12 DEF Before
  <2>14. Numbers(arrived) \cup Numbers(onWire') \cup Numbers(specsQueue') \cup Numbers(outbox')
           \cup lostSpecs = 1 .. specsSent
    BY <2>4, <2>5, <2>10, <2>12
  <2>. QED BY <2>1, <2>2, <2>4, <2>9, <2>10, <2>12, <2>13, <2>14
<1>3. CASE UNCHANGED <<specsSent, outbox, specsQueue, onWire, arrived, lostSpecs>>
  BY <1>3, SMTT(60) DEF Before, Rising, Numbers
<1>4. CASE Sever /\ UNCHANGED <<specsSent, outbox, specsQueue, arrived>>
  <2>1. onWire' = <<>> /\ lostSpecs' = lostSpecs \cup Numbers(onWire)
    BY <1>4 DEF Sever
  <2>2. Numbers(onWire') = {} /\ Rising(onWire') /\ onWire' \in Seq(SpecReports)
    BY <1>0, <2>1
  <2>3. Before(arrived, onWire') /\ Before(onWire', specsQueue) /\ Before(onWire', outbox)
    BY <2>2 DEF Before
  <2>. QED BY <1>4, <2>1, <2>2, <2>3
<1>5. CASE /\ onWire # <<>> /\ onWire' = Tail(onWire)
           /\ arrived' = Append(arrived, Head(onWire))
           /\ UNCHANGED <<specsSent, outbox, specsQueue, lostSpecs>>
  <2>0. PICK h : h = Head(onWire)
    OBVIOUS
  <2>1. h \in SpecReports /\ onWire' \in Seq(SpecReports) /\ onWire = <<h>> \o onWire'
    BY <1>5, <2>0, PartsOfReports
  <2>2. /\ <<h>> \in Seq(SpecReports) /\ Numbers(<<h>>) = {h.n} /\ Rising(<<h>>)
        /\ arrived' = arrived \o <<h>>
    BY <1>5, <2>0, <2>1, PartsOfReports
  <2>3. /\ Numbers(onWire) = {h.n} \cup Numbers(onWire') /\ Rising(onWire')
        /\ Before(<<h>>, onWire')
    BY <2>1, <2>2, RowOfReports, ZenonT(60)
  <2>4. /\ arrived' \in Seq(SpecReports) /\ Rising(arrived')
        /\ Numbers(arrived') = Numbers(arrived) \cup {h.n}
    <3>1. Before(arrived, <<h>>)
      BY <2>2, <2>3 DEF Before
    <3>. QED BY <2>2, <3>1, RowOfReports, ZenonT(60)
  <2>5. /\ Before(arrived', onWire') /\ Before(arrived', specsQueue) /\ Before(arrived', outbox)
        /\ Before(onWire', specsQueue) /\ Before(onWire', outbox)
    BY <2>2, <2>3, <2>4 DEF Before
  <2>6. Numbers(arrived') \cup Numbers(onWire') \cup Numbers(specsQueue) \cup Numbers(outbox)
          \cup lostSpecs = 1 .. specsSent
    BY <2>3, <2>4
  <2>. QED BY <1>5, <2>1, <2>3, <2>4, <2>5, <2>6
<1>. QED BY <1>1, <1>2, <1>3, <1>4, <1>5

\* What the four places say of the pipeline.
LEMMA PipelineInOrder == ReportsInOrder => SpecsArriveInOrder
<1>. SUFFICES ASSUME ReportsInOrder PROVE SpecsArriveInOrder
  OBVIOUS
<1>. USE DEF ReportsInOrder
<1>1. PICK p : p = arrived \o onWire
  OBVIOUS
<1>2. p \in Seq(SpecReports) /\ Numbers(p) = Numbers(arrived) \cup Numbers(onWire) /\ Rising(p)
  BY <1>1, RowOfReports
<1>3. PICK q : q = p \o specsQueue
  OBVIOUS
<1>4. q \in Seq(SpecReports) /\ Numbers(q) = Numbers(p) \cup Numbers(specsQueue) /\ Rising(q)
  <2>1. Before(p, specsQueue)
    BY <1>2 DEF Before
  <2>. QED BY <1>2, <1>3, <2>1, RowOfReports
<1>5. /\ q \o outbox \in Seq(SpecReports) /\ Rising(q \o outbox)
      /\ Numbers(q \o outbox) = Numbers(q) \cup Numbers(outbox)
  <2>1. Before(q, outbox)
    BY <1>2, <1>4 DEF Before
  <2>. QED BY <1>4, <2>1, RowOfReports
<1>6. Pipeline = q \o outbox
  BY <1>1, <1>3 DEF Pipeline
<1>. QED BY <1>2, <1>4, <1>5, <1>6 DEF SpecsArriveInOrder, Rising

-----------------------------------------------------------------------------
(* Machine specs: the tables *)

SavingPlaces == {"raw", "snapshot", "parsed", "other", "newother", "row", "gpu", "gpuspecs"}
SaverTypes == saver \in [Connections -> {Idle} \cup [at : SavingPlaces, data : SpecData]]

\* Someone is about to make the data's GPU rows.
MakesGpus(d) == \E c \in Connections : saver[c].at \in {"gpu", "gpuspecs"} /\ saver[c].data = d

\* What ParsedSpecsHaveGpus says, with the one who makes the rows: that the data
\* is in somebody's hands would be lost with a save that finds it parsed.
GpusMadeUpFor ==
  \A d \in parsed : kindOf[d] = "no gpus" \/ d \in gpuSpecs \/ MakesGpus(d) \/ d \in bare

TablesInv == SaverTypes /\ SavedSpecsGetParsed /\ GpusMadeUpFor

SpecsInv == ReportsInOrder /\ TablesInv

\* A save is in one place with its data, or idle.
LEMMA SaversPlace ==
  ASSUME SaverTypes, NEW c \in Connections
  PROVE  /\ saver[c] = Idle <=> saver[c].at = "idle"
         /\ saver[c].at # "idle" =>
              /\ saver[c] \in [at : SavingPlaces, data : SpecData] /\ saver[c].data \in SpecData
              /\ \A place \in SavingPlaces : Goes(c, place) =>
                   saver' = [saver EXCEPT ![c] = [at |-> place, data |-> saver[c].data]]
<1>1. saver[c] \in {Idle} \cup [at : SavingPlaces, data : SpecData]
  BY DEF SaverTypes
<1>2. Idle.at = "idle" /\ "idle" \notin SavingPlaces
  BY DEF Idle, SavingPlaces
<1>3. saver[c] = Idle <=> saver[c].at = "idle"
  BY <1>1, <1>2
<1>4. ASSUME saver[c].at # "idle"
      PROVE  saver[c] \in [at : SavingPlaces, data : SpecData] /\ saver[c].data \in SpecData
  BY <1>1, <1>2, <1>4
<1>5. ASSUME saver[c].at # "idle", NEW place \in SavingPlaces, Goes(c, place)
      PROVE  saver' = [saver EXCEPT ![c] = [at |-> place, data |-> saver[c].data]]
  <2>1. [saver[c] EXCEPT !.at = place] = [at |-> place, data |-> saver[c].data]
    BY <1>4, <1>5
  <2>. QED BY <1>5, <2>1 DEF Goes
<1>. QED BY <1>3, <1>4, <1>5

\* One save goes on: the data in the hands of the others stay there.
LEMMA OneSaverMoves ==
  ASSUME SaverTypes, NEW c \in Connections,
         NEW r \in {Idle} \cup [at : SavingPlaces, data : SpecData],
         saver' = [saver EXCEPT ![c] = r]
  PROVE  /\ SaverTypes'
         /\ \A d : /\ Busy(d) /\ (saver[c].at = "idle" \/ saver[c].data # d) => Busy(d)'
                   /\ /\ MakesGpus(d)
                      /\ saver[c].at \notin {"gpu", "gpuspecs"} \/ saver[c].data # d
                      => MakesGpus(d)'
                   /\ r.at # "idle" /\ r.data = d => Busy(d)'
                   /\ r.at \in {"gpu", "gpuspecs"} /\ r.data = d => MakesGpus(d)'
<1>1. /\ saver'[c] = r /\ \A b \in Connections : b # c => saver'[b] = saver[b]
      /\ SaverTypes'
  BY DEF SaverTypes
<1>2. ASSUME NEW d, r.at # "idle", r.data = d PROVE Busy(d)'
  BY <1>1, <1>2 DEF Busy
<1>3. ASSUME NEW d, r.at \in {"gpu", "gpuspecs"}, r.data = d PROVE MakesGpus(d)'
  BY <1>1, <1>3 DEF MakesGpus
<1>4. ASSUME NEW d, Busy(d), saver[c].at = "idle" \/ saver[c].data # d PROVE Busy(d)'
  <2>1. PICK b \in Connections : saver[b].at # "idle" /\ saver[b].data = d
    BY <1>4 DEF Busy
  <2>2. b # c
    BY <1>4, <2>1
  <2>. QED BY <1>1, <2>1, <2>2 DEF Busy
<1>5. ASSUME NEW d, MakesGpus(d), saver[c].at \notin {"gpu", "gpuspecs"} \/ saver[c].data # d
      PROVE  MakesGpus(d)'
  <2>1. PICK b \in Connections : saver[b].at \in {"gpu", "gpuspecs"} /\ saver[b].data = d
    BY <1>5 DEF MakesGpus
  <2>2. b # c
    BY <1>5, <2>1
  <2>. QED BY <1>1, <2>1, <2>2 DEF MakesGpus
<1>. QED BY <1>1, <1>2, <1>3, <1>4, <1>5

\* An exception ends a save: its data count as broken, or as bare.
LEMMA RaisesInv ==
  ASSUME TablesInv, NEW c \in Connections, saver[c].at # "idle", Raises(c)
  PROVE  TablesInv'
<1>. USE DEF TablesInv
<1>0. PICK d : d = saver[c].data
  OBVIOUS
<1>1. /\ saver' = [saver EXCEPT ![c] = Idle] /\ broken' = broken \cup {d}
      /\ bare' = IF saver[c].at \in {"gpu", "gpuspecs"} THEN bare \cup {d} ELSE bare
      /\ UNCHANGED <<kindOf, snapshots, parsed, gpuSpecs>>
  BY <1>0 DEF Raises, tableVars
<1>2. /\ SaverTypes'
      /\ \A x : Busy(x) /\ x # d => Busy(x)'
      /\ \A x : MakesGpus(x) /\ (x # d \/ saver[c].at \notin {"gpu", "gpuspecs"}) =>
           MakesGpus(x)'
  BY <1>0, <1>1, OneSaverMoves
<1>3. SavedSpecsGetParsed'
  BY <1>1, <1>2 DEF SavedSpecsGetParsed
<1>4. GpusMadeUpFor'
  BY <1>1, <1>2 DEF GpusMadeUpFor
<1>. QED BY <1>2, <1>3, <1>4

\* A save goes on without a change of the rows that the others depend on.
LEMMA GoesInv ==
  ASSUME TablesInv, NEW c \in Connections, NEW place \in SavingPlaces, Goes(c, place),
         saver[c].at # "idle",
         saver[c].at \in {"gpu", "gpuspecs"} => place \in {"gpu", "gpuspecs"},
         snapshots \subseteq snapshots', snapshots' \subseteq snapshots \cup {saver[c].data},
         parsed \subseteq parsed', parsed' \subseteq parsed \cup {saver[c].data},
         parsed' = parsed \/ place = "gpu",
         UNCHANGED <<kindOf, gpuSpecs, broken, bare>>
  PROVE  TablesInv'
<1>. USE DEF TablesInv
<1>0. PICK d : d = saver[c].data
  OBVIOUS
<1>1. PICK r : r = [at |-> place, data |-> d]
  OBVIOUS
<1>2. /\ saver' = [saver EXCEPT ![c] = r] /\ r.at = place /\ r.data = d /\ place # "idle"
      /\ r \in [at : SavingPlaces, data : SpecData]
  BY <1>0, <1>1, SaversPlace DEF SavingPlaces
<1>3. /\ SaverTypes'
      /\ \A x : Busy(x) /\ x # d => Busy(x)'
      /\ \A x : MakesGpus(x) /\ x # d => MakesGpus(x)'
      /\ MakesGpus(d) /\ saver[c].at \notin {"gpu", "gpuspecs"} => MakesGpus(d)'
      /\ Busy(d)' /\ (place \in {"gpu", "gpuspecs"} => MakesGpus(d)')
  BY <1>0, <1>2, OneSaverMoves
<1>4. SavedSpecsGetParsed'
  BY <1>0, <1>3 DEF SavedSpecsGetParsed
<1>5. GpusMadeUpFor'
  BY <1>0, <1>3 DEF GpusMadeUpFor
<1>. QED BY <1>3, <1>4, <1>5

\* A save ends normally: its data is parsed, and has its GPU rows if it was the
\* one to make them.
LEMMA SavedInv ==
  ASSUME TablesInv, NEW c \in Connections, Saved(c), saver[c].at # "idle",
         saver[c].data \in parsed',
         parsed \subseteq parsed', parsed' \subseteq parsed \cup {saver[c].data},
         gpuSpecs \subseteq gpuSpecs',
         saver[c].at \in {"gpu", "gpuspecs"} => saver[c].data \in gpuSpecs',
         parsed' = parsed \/ kindOf[saver[c].data] = "no gpus",
         UNCHANGED <<kindOf, snapshots, bare>>
  PROVE  TablesInv'
<1>. USE DEF TablesInv
<1>0. PICK d : d = saver[c].data
  OBVIOUS
<1>1. saver' = [saver EXCEPT ![c] = Idle] /\ broken' = broken \ {d}
  BY <1>0 DEF Saved
<1>2. /\ SaverTypes'
      /\ \A x : Busy(x) /\ x # d => Busy(x)'
      /\ \A x : MakesGpus(x) /\ (x # d \/ saver[c].at \notin {"gpu", "gpuspecs"}) =>
           MakesGpus(x)'
  BY <1>0, <1>1, OneSaverMoves
<1>3. SavedSpecsGetParsed'
  BY <1>0, <1>1, <1>2 DEF SavedSpecsGetParsed
<1>4. GpusMadeUpFor'
  BY <1>0, <1>2 DEF GpusMadeUpFor
<1>. QED BY <1>2, <1>3, <1>4

\* A connection's steps keep the tables complete.
LEMMA SavingInv ==
  ASSUME TablesInv, NEW c \in Connections,
         \/ SaveRaw(c) \/ SaveSnapshot(c) \/ ParseSpecs(c) \/ GetOther(c) \/ CreateOther(c)
         \/ SaveParsed(c) \/ SaveGpu(c) \/ SaveGpuSpecs(c) \/ SavingFails(c)
  PROVE  TablesInv'
<1>. USE DEF SavesAt, SavingPlaces
<1>1. saver[c].at # "idle"
  BY DEF SaveRaw, SaveSnapshot, ParseSpecs, GetOther, CreateOther, SaveParsed, SaveGpu,
     SaveGpuSpecs, SavingFails
<1>2. CASE Raises(c)
  BY <1>1, <1>2, RaisesInv
<1>3. CASE SaveRaw(c)
  <2>1. /\ Goes(c, "snapshot") /\ saver[c].at = "raw"
        /\ UNCHANGED <<snapshots, parsed, kindOf, gpuSpecs, broken, bare>>
    BY <1>3 DEF SaveRaw
  <2>. QED BY <1>1, <2>1, GoesInv
<1>4. CASE SaveSnapshot(c) /\ ~Raises(c)
  <2>1. /\ Goes(c, "parsed") /\ saver[c].at = "snapshot"
        /\ snapshots' = snapshots \cup {saver[c].data}
        /\ UNCHANGED <<parsed, kindOf, gpuSpecs, broken, bare>>
    BY <1>4 DEF SaveSnapshot
  <2>. QED BY <1>1, <2>1, GoesInv
<1>5. CASE ParseSpecs(c) /\ ~Raises(c)
  <2>1. /\ saver[c].at = "parsed" /\ UNCHANGED <<snapshots, parsed, kindOf, gpuSpecs, bare>>
        /\ \/ Saved(c) /\ saver[c].data \in parsed
           \/ Goes(c, "other") /\ UNCHANGED broken
    BY <1>5 DEF ParseSpecs, IsParsed, tableVars
  <2>2. CASE Saved(c) /\ saver[c].data \in parsed
    BY <1>1, <2>1, <2>2, SavedInv
  <2>3. CASE Goes(c, "other") /\ UNCHANGED broken
    BY <1>1, <2>1, <2>3, GoesInv
  <2>. QED BY <2>1, <2>2, <2>3
<1>6. CASE GetOther(c) /\ ~Raises(c)
  <2>1. /\ saver[c].at = "other"
        /\ UNCHANGED <<snapshots, parsed, kindOf, gpuSpecs, broken, bare>>
        /\ Goes(c, "newother") \/ Goes(c, "row")
    BY <1>6 DEF GetOther, tableVars
  <2>2. CASE Goes(c, "newother")
    BY <1>1, <2>1, <2>2, GoesInv
  <2>3. CASE Goes(c, "row")
    BY <1>1, <2>1, <2>3, GoesInv
  <2>. QED BY <2>1, <2>2, <2>3
<1>7. CASE CreateOther(c)
  <2>1. /\ Goes(c, "row") /\ saver[c].at = "newother"
        /\ UNCHANGED <<snapshots, parsed, kindOf, gpuSpecs, broken, bare>>
    BY <1>7 DEF CreateOther
  <2>. QED BY <1>1, <2>1, GoesInv
<1>8. CASE SaveParsed(c) /\ ~Raises(c)
  <2>0. PICK d : d = saver[c].data
    OBVIOUS
  <2>1. /\ saver[c].at = "row" /\ UNCHANGED <<snapshots, kindOf, gpuSpecs, bare>>
        /\ \/ Saved(c) /\ d \in parsed /\ parsed' = parsed
           \/ Saved(c) /\ parsed' = parsed \cup {d} /\ kindOf[d] = "no gpus"
           \/ Goes(c, "gpu") /\ parsed' = parsed \cup {d} /\ UNCHANGED broken
    BY <1>8, <2>0 DEF SaveParsed, tableVars
  <2>2. CASE Saved(c) /\ d \in parsed /\ parsed' = parsed
    BY <1>1, <2>0, <2>1, <2>2, SavedInv
  <2>3. CASE Saved(c) /\ parsed' = parsed \cup {d} /\ kindOf[d] = "no gpus"
    BY <1>1, <2>0, <2>1, <2>3, SavedInv
  <2>4. CASE Goes(c, "gpu") /\ parsed' = parsed \cup {d} /\ UNCHANGED broken
    BY <1>1, <2>0, <2>1, <2>4, GoesInv
  <2>. QED BY <2>1, <2>2, <2>3, <2>4
<1>9. CASE SaveGpu(c)
  <2>1. /\ Goes(c, "gpuspecs") /\ saver[c].at = "gpu"
        /\ UNCHANGED <<snapshots, parsed, kindOf, gpuSpecs, broken, bare>>
    BY <1>9 DEF SaveGpu
  <2>. QED BY <1>1, <2>1, GoesInv
<1>10. CASE SaveGpuSpecs(c) /\ ~Raises(c)
  <2>1. /\ Saved(c) /\ saver[c].at = "gpuspecs" /\ saver[c].data \in parsed
        /\ gpuSpecs' = gpuSpecs \cup {saver[c].data}
        /\ UNCHANGED <<snapshots, parsed, kindOf, bare>>
    BY <1>10 DEF SaveGpuSpecs
  <2>. QED BY <1>1, <2>1, SavedInv
<1>. QED BY <1>2, <1>3, <1>4, <1>5, <1>6, <1>7, <1>8, <1>9, <1>10 DEF SavingFails

\* A connection takes a report up.
LEMMA BeginSavingInv ==
  ASSUME TablesInv, ReportsInOrder, NEW c \in Connections, BeginSaving(c)
  PROVE  TablesInv'
<1>. USE DEF TablesInv
<1>1. saver[c].at = "idle" /\ UNCHANGED <<kindOf, snapshots, parsed, gpuSpecs, broken, bare>>
  BY DEF BeginSaving, SavesAt, tableVars
<1>2. saver' = saver \/ \E d \in SpecData : saver' = [saver EXCEPT ![c] = [at |-> "raw", data |-> d]]
  <2>1. onWire # <<>> => Head(onWire).data \in SpecData
    <3>1. onWire \in Seq(SpecReports)
      BY DEF ReportsInOrder
    <3>2. onWire # <<>> => Head(onWire) \in SpecReports
      BY <3>1, PartsOfReports
    <3>. QED BY <3>2 DEF SpecReports
  <2>. QED BY <2>1 DEF BeginSaving
<1>3. CASE saver' = saver
  BY <1>1, <1>3 DEF SaverTypes, SavedSpecsGetParsed, GpusMadeUpFor, Busy, MakesGpus
<1>4. ASSUME NEW d \in SpecData, saver' = [saver EXCEPT ![c] = [at |-> "raw", data |-> d]]
      PROVE  TablesInv'
  <2>1. PICK r : r = [at |-> "raw", data |-> d]
    OBVIOUS
  <2>2. r \in [at : SavingPlaces, data : SpecData] /\ saver' = [saver EXCEPT ![c] = r]
    BY <1>4, <2>1 DEF SavingPlaces
  <2>3. /\ SaverTypes' /\ \A x : Busy(x) => Busy(x)'
        /\ \A x : MakesGpus(x) => MakesGpus(x)'
    BY <1>1, <2>2, OneSaverMoves
  <2>. QED BY <1>1, <2>3 DEF SavedSpecsGetParsed, GpusMadeUpFor
<1>. QED BY <1>2, <1>3, <1>4

\* Time and eviction, and what does not touch the tables.
LEMMA UpkeepKeepsTables ==
  ASSUME TablesInv, UNCHANGED <<saver, kindOf>>,
         \/ UNCHANGED <<snapshots, parsed, gpuSpecs, broken, bare>>
         \/ EvictRaw \/ EvictGpu
  PROVE  TablesInv'
<1>. USE DEF TablesInv
<1>1. SaverTypes' /\ \A d : (Busy(d)' <=> Busy(d)) /\ (MakesGpus(d)' <=> MakesGpus(d))
  BY DEF SaverTypes, Busy, MakesGpus
<1>2. CASE UNCHANGED <<snapshots, parsed, gpuSpecs, broken, bare>>
  BY <1>1, <1>2 DEF SavedSpecsGetParsed, GpusMadeUpFor
<1>3. CASE EvictRaw
  <2>1. PICK gone : /\ snapshots' = snapshots \ gone /\ parsed' = parsed \ gone
                    /\ gpuSpecs' = gpuSpecs \ gone /\ bare' = bare \ gone
                    /\ broken' = broken \ gone
    BY <1>3 DEF EvictRaw
  <2>. QED BY <1>1, <2>1 DEF SavedSpecsGetParsed, GpusMadeUpFor
<1>4. CASE EvictGpu
  <2>1. gpuSpecs \cup bare \subseteq gpuSpecs' \cup bare' /\ UNCHANGED <<snapshots, parsed, broken>>
    BY <1>4 DEF EvictGpu
  <2>. QED BY <1>1, <2>1 DEF SavedSpecsGetParsed, GpusMadeUpFor
<1>. QED BY <1>2, <1>3, <1>4

\* The invariant holds before anything happens, and every step keeps it.
LEMMA SpecsInvHolds ==
  /\ SpecsInit => SpecsInv
  /\ SpecsInv /\ [SpecsNext]_specsVars => SpecsInv'
<1>1. ASSUME SpecsInit PROVE SpecsInv
  <2>1. ReportsInOrder
    <3>1. /\ Numbers(<<>>) = {} /\ Rising(<<>>) /\ <<>> \in Seq(SpecReports) /\ 1 .. 0 = {}
      BY DEF Numbers, Rising
    <3>. QED BY <1>1, <3>1 DEF SpecsInit, ReportsInOrder, Before
  <2>2. TablesInv
    BY <1>1 DEF SpecsInit, TablesInv, SaverTypes, SavedSpecsGetParsed, GpusMadeUpFor
  <2>. QED BY <2>1, <2>2 DEF SpecsInv
<1>2. ASSUME SpecsInv, [SpecsNext]_specsVars PROVE SpecsInv'
  <2>. USE <1>2 DEF SpecsInv
  <2>1. CASE SendMachineSpecs \/ WaitForSpecs
    <3>1. UNCHANGED <<saver, kindOf, snapshots, parsed, gpuSpecs, broken, bare>>
      BY <2>1 DEF SendMachineSpecs, WaitForSpecs, tableVars
    <3>. QED BY <2>1, <3>1, ReportsKeepOrder, UpkeepKeepsTables
  <2>2. CASE LinkOpens \/ LinkBreaks \/ UNCHANGED specsVars
    <3>1. UNCHANGED <<saver, kindOf, snapshots, parsed, gpuSpecs, broken, bare>>
      BY <2>2 DEF LinkOpens, LinkBreaks, specsVars, tableVars
    <3>2. \/ UNCHANGED <<specsSent, outbox, specsQueue, onWire, arrived, lostSpecs>>
          \/ Sever /\ UNCHANGED <<specsSent, outbox, specsQueue, arrived>>
      BY <2>2 DEF LinkOpens, LinkBreaks, specsVars, forwardVars
    <3>. QED BY <3>1, <3>2, ReportsKeepOrder, UpkeepKeepsTables
  <2>3. CASE RecordHardware \/ RowsAge \/ EvictRaw \/ EvictGpu \/ EvictUnloved
    <3>1. /\ UNCHANGED <<saver, kindOf>>
          /\ \/ UNCHANGED <<snapshots, parsed, gpuSpecs, broken, bare>>
             \/ EvictRaw \/ EvictGpu
      BY <2>3 DEF RecordHardware, RowsAge, EvictRaw, EvictGpu, EvictUnloved
    <3>2. UNCHANGED <<specsSent, outbox, specsQueue, onWire, arrived, lostSpecs>>
      BY <2>3 DEF RecordHardware, RowsAge, EvictRaw, EvictGpu, EvictUnloved, forwardVars
    <3>. QED BY <3>1, <3>2, ReportsKeepOrder, UpkeepKeepsTables
  <2>4. ASSUME NEW c \in Connections, BeginSaving(c) PROVE SpecsInv'
    <3>1. \/ UNCHANGED <<specsSent, outbox, specsQueue, onWire, arrived, lostSpecs>>
          \/ /\ onWire # <<>> /\ onWire' = Tail(onWire)
             /\ arrived' = Append(arrived, Head(onWire))
             /\ UNCHANGED <<specsSent, outbox, specsQueue, lostSpecs>>
      BY <2>4 DEF BeginSaving, forwardVars
    <3>. QED BY <2>4, <3>1, ReportsKeepOrder, BeginSavingInv
  <2>5. ASSUME NEW c \in Connections,
               \/ SaveRaw(c) \/ SaveSnapshot(c) \/ ParseSpecs(c) \/ GetOther(c) \/ CreateOther(c)
               \/ SaveParsed(c) \/ SaveGpu(c) \/ SaveGpuSpecs(c) \/ SavingFails(c)
        PROVE  SpecsInv'
    <3>1. Raises(c) \/ UNCHANGED forwardVars
      BY <2>5 DEF SaveRaw, SaveSnapshot, ParseSpecs, GetOther, CreateOther, SaveParsed, SaveGpu,
         SaveGpuSpecs, SavingFails
    <3>2. \/ UNCHANGED <<specsSent, outbox, specsQueue, onWire, arrived, lostSpecs>>
          \/ Sever /\ UNCHANGED <<specsSent, outbox, specsQueue, arrived>>
      BY <3>1 DEF Raises, forwardVars
    <3>. QED BY <2>5, <3>2, ReportsKeepOrder, SavingInv
  <2>. QED BY <2>1, <2>2, <2>3, <2>4, <2>5 DEF SpecsNext
<1>. QED BY <1>1, <1>2

\* Machine specs are complete at every moment, whatever the number of reports
\* and connections, and wherever a connection breaks, a save is cut short or
\* rows are evicted: reports arrive in the order they were made (wait_for_specs),
\* saved data gets parsed and parsed data gets its GPU rows (save_machine_specs),
\* with the exceptions that SpecsAreComplete names.
THEOREM SpecsAlwaysComplete == SpecsSpec => []SpecsAreComplete
<1>1. SpecsInv => SpecsAreComplete
  <2>. SUFFICES ASSUME SpecsInv PROVE SpecsAreComplete
    OBVIOUS
  <2>1. ParsedSpecsHaveGpus
    <3>1. \A d : MakesGpus(d) => Busy(d)
      BY DEF MakesGpus, Busy
    <3>. QED BY <3>1 DEF SpecsInv, TablesInv, GpusMadeUpFor, ParsedSpecsHaveGpus
  <2>. QED BY <2>1, PipelineInOrder DEF SpecsInv, TablesInv, SpecsAreComplete
<1>. QED BY SpecsInvHolds, <1>1, PTL DEF SpecsSpec

-----------------------------------------------------------------------------
(* Receipts: pages, checkpoints and the two coroutines *)

TransferCoros ==
  [on : BOOLEAN, todo : Seq(Int), busy : BOOLEAN, asked : SUBSET Int, bucket : SUBSET Receipts]

TransferTypes ==
  /\ page \in Pages /\ passAt \in Pages
  /\ file \in [Pages -> Seq(Receipts)]
  /\ shown \in [Pages -> Nat] /\ mark \in [Pages -> Nat]
  /\ archived \in [Pages -> Nat \cup {NoArchive}]
  /\ phase \in {"down", "asleep", "first", "both"}
  /\ coro \in [Coroutines -> TransferCoros]

\* Neither a reader nor a checkpoint is past the end of a page; a page that is
\* closed is seen whole, by its readers and in its archive.
PagesAreSeen ==
  /\ \A p \in Pages : shown[p] <= Size(p) /\ mark[p] <= Size(p)
  /\ \A p \in Pages : p < page => shown[p] = Size(p)
  /\ \A p \in Pages : archived[p] # NoArchive => p < page /\ archived[p] = Size(p)

Transferring == phase \in {"first", "both"}

\* A coroutine that transfers nothing holds nothing; _keep_up waits for the
\* first pass; without a running process there is no coroutine.
HandsAreEmpty ==
  /\ \A c \in Coroutines : ~coro[c].busy => coro[c].asked = {} /\ coro[c].bucket = {}
  /\ phase # "both" => ~coro["keep"].on /\ ~coro["keep"].busy
  /\ ~Transferring => ~coro["catch"].busy

\* Polling is never more than a page behind.
PollingKeepsUp ==
  Transferring => /\ passAt <= page /\ page <= passAt + 1
                  /\ coro["keep"].asked \subseteq ActivePages(passAt)

\* A closed page was skipped, was read whole, is being asked for, or was closed
\* since the last pass began.
ClosedPagesGetRead ==
  \A p \in Pages : p < page /\ p \notin skipped =>
    mark[p] = Size(p) \/ p \in coro["keep"].asked \/ (p = page - 1 /\ passAt < page)

StoppedSkips == ~Transferring => \A p \in Pages : p <= page => p \in skipped

TransferInv ==
  /\ TransferTypes /\ PagesAreSeen /\ HandsAreEmpty /\ PollingKeepsUp /\ ClosedPagesGetRead
  /\ StoppedSkips /\ CheckpointsCoverReceipts

\* What the types say of numbers.
LEMMA TransferNumbers ==
  ASSUME TransferTypes
  PROVE  /\ Pages \subseteq Nat /\ 0 \in Pages /\ page \in Nat /\ passAt \in Nat
         /\ \A p \in Pages : /\ Len(file[p]) \in Nat /\ Size(p) \in Nat
                             /\ Size(p) = 2 * Len(file[p]) /\ mark[p] \in Nat /\ shown[p] \in Nat
         /\ Coroutines = {"catch", "keep"}
         /\ \A c \in Coroutines : coro[c] \in TransferCoros
<1>1. Pages \subseteq Nat /\ 0 \in Pages
  BY TransferAssumption DEF Pages
<1>2. \A p \in Pages : Len(file[p]) \in Nat
  BY DEF TransferTypes
<1>. QED BY <1>1, <1>2 DEF TransferTypes, Size, Coroutines

\* The lines up to a byte, when a part of them is served: the ones before, the
\* ones served, and the one that was cut.
LEMMA ServedLines ==
  ASSUME TransferTypes, NEW p \in Pages, NEW m \in Nat, NEW to \in Nat
  PROVE  Lines(p, 0, to) \subseteq Lines(p, 0, m) \cup Lines(p, m, to) \cup CutLines(p, m, to)
<1>. SUFFICES ASSUME NEW k \in 1 .. Len(file[p]), 2 * k <= to
     PROVE  file[p][k] \in Lines(p, 0, m) \cup Lines(p, m, to) \cup CutLines(p, m, to)
  BY DEF Lines
<1>1. k \in Nat /\ k >= 1
  BY TransferNumbers
<1>2. CASE 2 * k <= m
  <2>1. 0 <= 2 * (k - 1)
    BY <1>1
  <2>. QED BY <1>2, <2>1 DEF Lines
<1>3. CASE m <= 2 * (k - 1)
  BY <1>3 DEF Lines
<1>4. CASE ~(2 * k <= m) /\ ~(m <= 2 * (k - 1))
  <2>1. m = 2 * k - 1 /\ m < to
    BY <1>1, <1>4
  <2>. QED BY <2>1 DEF CutLines
<1>. QED BY <1>2, <1>3, <1>4

\* A coroutine's record is replaced.
LEMMA OneCoroutineMoves ==
  ASSUME TransferTypes, NEW c \in Coroutines, NEW r \in TransferCoros,
         coro' = [coro EXCEPT ![c] = r]
  PROVE  /\ coro' \in [Coroutines -> TransferCoros] /\ coro'[c] = r
         /\ \A d \in Coroutines : d # c => coro'[d] = coro[d]
BY DEF TransferTypes

\* The invariant holds before anything happens.
LEMMA InitTransferInv == TransferInit => TransferInv
<1>. SUFFICES ASSUME TransferInit PROVE TransferInv
  OBVIOUS
<1>1. NotTransferring \in TransferCoros
  BY DEF NotTransferring, TransferCoros
<1>2. TransferTypes
  <2>1. 0 \in Pages
    BY TransferAssumption DEF Pages
  <2>. QED BY <1>1, <2>1 DEF TransferInit, TransferTypes, NoArchive
<1>3. \A p \in Pages : /\ file[p] = <<>> /\ shown[p] = 0 /\ mark[p] = 0 /\ archived[p] = NoArchive
                       /\ Size(p) = 0
  BY DEF TransferInit, Size
<1>4. \A c \in Coroutines : /\ ~coro[c].busy /\ ~coro[c].on /\ coro[c].asked = {}
                            /\ coro[c].bucket = {}
  BY DEF TransferInit, NotTransferring
<1>5. page = 0 /\ ~Transferring /\ skipped = {0} /\ Pages \subseteq Nat
  BY TransferAssumption DEF TransferInit, Transferring, Pages
<1>6. PagesAreSeen
  BY <1>3, <1>5 DEF PagesAreSeen
<1>7. HandsAreEmpty /\ PollingKeepsUp
  BY <1>4, <1>5 DEF HandsAreEmpty, PollingKeepsUp, Coroutines
<1>8. ClosedPagesGetRead /\ StoppedSkips
  BY <1>3, <1>5 DEF ClosedPagesGetRead, StoppedSkips
<1>9. CheckpointsCoverReceipts
  BY <1>3 DEF CheckpointsCoverReceipts, Lines
<1>. QED BY <1>2, <1>6, <1>7, <1>8, <1>9 DEF TransferInv

\* The miner stores a receipt.
LEMMA StoreReceiptInv ==
  ASSUME TransferInv, NEW r \in Receipts, StoreReceipt(r)
  PROVE  TransferInv'
<1>. USE DEF TransferInv
<1>1. /\ file' = [file EXCEPT ![page] = Append(@, r)]
      /\ UNCHANGED <<page, archived, mark, phase, passAt, coro, received, lost, skipped>>
      /\ \E n \in {0, Size(page) + 1, Size(page) + 2} : shown' = [shown EXCEPT ![page] = n]
  BY DEF StoreReceipt, minerUnchanged
<1>2. PICK n : n \in {0, Size(page) + 1, Size(page) + 2} /\ shown' = [shown EXCEPT ![page] = n]
  BY <1>1
<1>3. /\ page \in Pages /\ page \in Nat /\ file[page] \in Seq(Receipts) /\ Size(page) \in Nat
      /\ Pages \subseteq Nat
  BY TransferNumbers DEF TransferTypes
<1>4. /\ file' \in [Pages -> Seq(Receipts)] /\ Len(file'[page]) = Len(file[page]) + 1
      /\ \A p \in Pages : p # page => file'[p] = file[p]
      /\ \A i \in 1 .. Len(file[page]) : file'[page][i] = file[page][i]
  BY <1>1, <1>3, AppendProperties DEF TransferTypes
<1>5. /\ n \in Nat /\ n <= Size(page) + 2
      /\ shown' \in [Pages -> Nat] /\ shown'[page] = n /\ \A p \in Pages : p # page => shown'[p] = shown[p]
  BY <1>2, <1>3, SMTT(60) DEF TransferTypes
<1>6. \A p \in Pages : Size(p)' = IF p = page THEN Size(p) + 2 ELSE Size(p)
  <2>1. Len(file[page]) \in Nat
    BY <1>3, TransferNumbers
  <2>2. \A p \in Pages : Len(file'[p]) = IF p = page THEN Len(file[p]) + 1 ELSE Len(file[p])
    BY <1>4
  <2>. QED BY <2>1, <2>2 DEF Size
<1>7. TransferTypes'
  BY <1>1, <1>4, <1>5 DEF TransferTypes
<1>8. PagesAreSeen'
  <2>1. ASSUME NEW p \in Pages PROVE shown'[p] <= Size(p)' /\ mark[p] <= Size(p)'
    <3>1. mark[p] <= Size(p) /\ shown[p] <= Size(p) /\ mark[p] \in Nat /\ Size(p) \in Nat
      BY TransferNumbers DEF PagesAreSeen
    <3>2. CASE p = page
      <4>1. Size(p)' = Size(p) + 2 /\ shown'[p] = n /\ n <= Size(p) + 2
        BY <1>5, <1>6, <3>2
      <4>. QED BY <3>1, <4>1
    <3>3. CASE p # page
      BY <1>5, <1>6, <3>1, <3>3
    <3>. QED BY <3>2, <3>3
  <2>2. ASSUME NEW p \in Pages, p < page PROVE shown'[p] = Size(p)' /\ Size(p)' = Size(p)
    <3>1. p # page
      BY <1>3, <2>2
    <3>. QED BY <1>5, <1>6, <2>2, <3>1 DEF PagesAreSeen
  <2>. QED BY <1>1, <2>1, <2>2 DEF PagesAreSeen
<1>9. ClosedPagesGetRead'
  <2>1. \A p \in Pages : p < page => Size(p)' = Size(p)
    BY <1>3, <1>6
  <2>. QED BY <1>1, <2>1 DEF ClosedPagesGetRead
<1>10. CheckpointsCoverReceipts'
  <2>. SUFFICES ASSUME NEW p \in Pages, NEW k \in 1 .. Len(file'[p]), 2 * k <= mark[p]
       PROVE  file'[p][k] \in InHand \cup lost \cup BadReceipts
    BY <1>1 DEF CheckpointsCoverReceipts, Lines, InHand
  <2>1. Len(file[p]) \in Nat /\ Size(p) = 2 * Len(file[p]) /\ mark[p] <= Size(p) /\ mark[p] \in Nat
    BY TransferNumbers DEF PagesAreSeen
  <2>2. Len(file'[p]) \in Nat
    BY <1>4
  <2>3. k \in 1 .. Len(file[p])
    BY <2>1, <2>2
  <2>4. file'[p][k] = file[p][k]
    BY <1>4, <2>3
  <2>5. 0 <= 2 * (k - 1)
    BY <2>1, <2>3
  <2>6. file[p][k] \in Lines(p, 0, mark[p])
    BY <2>3, <2>5 DEF Lines
  <2>. QED BY <2>4, <2>6 DEF CheckpointsCoverReceipts
<1>11. HandsAreEmpty' /\ PollingKeepsUp' /\ StoppedSkips'
  BY <1>1 DEF HandsAreEmpty, PollingKeepsUp, StoppedSkips, Transferring, ActivePages, PageZero
<1>. QED BY <1>7, <1>8, <1>9, <1>10, <1>11

\* A move ends, or old pages are archived.
LEMMA MoveInv ==
  ASSUME TransferInv, ArchiveOldPages \/ \E p \in Pages : EndMove(p)
  PROVE  TransferInv'
<1>. USE DEF TransferInv
<1>1. UNCHANGED <<page, file, mark, phase, passAt, coro, received, lost, skipped>>
  BY DEF ArchiveOldPages, EndMove, minerUnchanged
<1>2. \A p \in Pages : Size(p)' = Size(p)
  BY <1>1 DEF Size
<1>3. page \in Nat /\ Pages \subseteq Nat /\ N_ACTIVE_PAGES = 2
  BY TransferNumbers DEF N_ACTIVE_PAGES
<1>4. CASE ArchiveOldPages
  <2>1. /\ shown' = shown
        /\ archived' = [p \in Pages |-> IF p <= page - 2 /\ archived[p] = NoArchive
                                        THEN shown[p] ELSE archived[p]]
    BY <1>3, <1>4 DEF ArchiveOldPages
  <2>2. \A p \in Pages : p <= page - 2 => p < page
    BY <1>3
  <2>3. PagesAreSeen'
    BY <1>1, <1>2, <2>1, <2>2 DEF PagesAreSeen
  <2>4. TransferTypes'
    BY <1>1, <2>1 DEF TransferTypes
  <2>. QED BY <1>1, <1>2, <2>3, <2>4 DEF HandsAreEmpty, PollingKeepsUp, ClosedPagesGetRead,
          StoppedSkips, Transferring, CheckpointsCoverReceipts, Lines, InHand, ActivePages, PageZero
<1>5. ASSUME NEW q \in Pages, EndMove(q) PROVE TransferInv'
  <2>1. archived' = archived /\ shown' = [shown EXCEPT ![q] = Size(q)]
    BY <1>5 DEF EndMove
  <2>2. Size(q) \in Nat
    BY TransferNumbers
  <2>3. TransferTypes'
    BY <1>1, <2>1, <2>2 DEF TransferTypes
  <2>4. \A p \in Pages : shown'[p] = IF p = q THEN Size(q) ELSE shown[p]
    BY <2>1 DEF TransferTypes
  <2>5. PagesAreSeen'
    BY <1>1, <1>2, <2>1, <2>2, <2>4 DEF PagesAreSeen
  <2>. QED BY <1>1, <1>2, <2>3, <2>5 DEF HandsAreEmpty, PollingKeepsUp, ClosedPagesGetRead,
          StoppedSkips, Transferring, CheckpointsCoverReceipts, Lines, InHand, ActivePages, PageZero
<1>. QED BY <1>4, <1>5

\* A page is closed.
LEMMA NextPageInv ==
  ASSUME TransferInv, NextPage
  PROVE  TransferInv'
<1>. USE DEF TransferInv
<1>1. /\ page < LastPage /\ shown[page] = Size(page) /\ (Transferring => passAt = page)
      /\ page' = page + 1
      /\ skipped' = IF Transferring THEN skipped ELSE skipped \cup {page'}
      /\ UNCHANGED <<file, shown, archived, mark, phase, passAt, coro, received, lost>>
  BY DEF NextPage, Transferring
<1>2. page \in Nat /\ Pages \subseteq Nat /\ page' \in Pages /\ page' \in Nat /\ passAt \in Nat
      /\ page \in Pages
  BY <1>1, TransferAssumption, TransferNumbers DEF Pages, TransferTypes
<1>3. \A p \in Pages : Size(p)' = Size(p)
  BY <1>1 DEF Size
<1>4. \A p \in Pages : p < page' => p < page \/ p = page
  BY <1>1, <1>2
<1>5. \A p \in Pages : p < page => p < page'
  BY <1>1, <1>2
<1>6. TransferTypes' /\ PagesAreSeen'
  BY <1>1, <1>2, <1>3, <1>4, <1>5 DEF TransferTypes, PagesAreSeen
<1>7. HandsAreEmpty' /\ CheckpointsCoverReceipts'
  BY <1>1 DEF HandsAreEmpty, Transferring, CheckpointsCoverReceipts, Lines, InHand
<1>8. PollingKeepsUp'
  <2>1. ActivePages(passAt)' = ActivePages(passAt)
    BY <1>1 DEF ActivePages, PageZero
  <2>2. passAt = page => passAt <= page' /\ page' <= passAt + 1
    BY <1>1, <1>2
  <2>. QED BY <1>1, <2>1, <2>2 DEF PollingKeepsUp, Transferring
<1>9. StoppedSkips'
  <2>1. \A p \in Pages : p <= page' => p <= page \/ p = page'
    BY <1>1, <1>2
  <2>. QED BY <1>1, <2>1 DEF StoppedSkips, Transferring
<1>10. ClosedPagesGetRead'
  <2>. SUFFICES ASSUME NEW p \in Pages, p < page', p \notin skipped'
       PROVE  \/ mark[p] = Size(p) \/ p \in coro["keep"].asked
              \/ p = page' - 1 /\ passAt < page'
    BY <1>1, <1>3 DEF ClosedPagesGetRead
  <2>1. Transferring /\ passAt = page
    <3>1. p <= page
      BY <1>1, <1>2
    <3>. QED BY <1>1, <3>1 DEF StoppedSkips
  <2>2. CASE p = page
    BY <1>1, <1>2, <2>1, <2>2
  <2>3. CASE p < page
    <3>1. ~(passAt < page)
      BY <1>2, <2>1
    <3>. QED BY <1>1, <2>1, <2>3, <3>1 DEF ClosedPagesGetRead
  <2>. QED BY <1>4, <2>2, <2>3
<1>. QED BY <1>6, <1>7, <1>8, <1>9, <1>10

\* What the steps of the validator's process leave alone.
LEMMA PagesStay ==
  ASSUME TransferInv, UNCHANGED <<page, file, shown, archived>>,
         passAt' \in Pages, phase' \in {"down", "asleep", "first", "both"},
         coro' \in [Coroutines -> TransferCoros],
         mark' \in [Pages -> Nat], \A p \in Pages : mark'[p] <= Size(p)
  PROVE  TransferTypes' /\ PagesAreSeen' /\ \A p \in Pages : Size(p)' = Size(p)
<1>1. \A p \in Pages : Size(p)' = Size(p)
  BY DEF Size
<1>2. TransferTypes'
  BY DEF TransferInv, TransferTypes
<1>3. PagesAreSeen'
  BY <1>1 DEF TransferInv, PagesAreSeen
<1>. QED BY <1>1, <1>2, <1>3

\* The process begins with the active pages.
LEMMA StartTransferInv ==
  ASSUME TransferInv, StartTransfer
  PROVE  TransferInv'
<1>. USE DEF TransferInv
<1> DEFINE pages == Reversed(PageZero(page - N_ACTIVE_PAGES + 1), page)
           r == [NotTransferring EXCEPT !.on = TRUE, !.todo = pages]
<1>1. /\ ~Transferring /\ phase' = "first" /\ passAt' = page
      /\ coro' = [coro EXCEPT !["catch"] = r] /\ skipped' = skipped \ {page}
      /\ UNCHANGED <<page, file, shown, archived, mark, received, lost>>
  BY DEF StartTransfer, Transferring
<1>2. page \in Nat /\ page \in Pages /\ Pages \subseteq Nat
  BY TransferNumbers DEF TransferTypes
<1>3. pages \in Seq(Int)
  <2>1. PageZero(page - N_ACTIVE_PAGES + 1) \in Nat
    BY <1>2 DEF PageZero, N_ACTIVE_PAGES
  <2>. QED BY <1>2, <2>1 DEF Reversed
<1>4. NotTransferring \in TransferCoros
  BY DEF NotTransferring, TransferCoros
<1>5. /\ r \in TransferCoros /\ ~r.busy /\ r.asked = {} /\ r.bucket = {}
  <2>. HIDE DEF pages
  <2>1. r \in TransferCoros
    BY <1>3, <1>4 DEF TransferCoros
  <2>2. r.busy = NotTransferring.busy /\ r.asked = NotTransferring.asked
        /\ r.bucket = NotTransferring.bucket
    BY <1>4 DEF TransferCoros
  <2>. QED BY <2>1, <2>2 DEF NotTransferring
<1>. HIDE DEF r, pages
<1>6. /\ coro' \in [Coroutines -> TransferCoros] /\ coro'["catch"] = r
      /\ coro'["keep"] = coro["keep"] /\ Coroutines = {"catch", "keep"}
  <2>1. "catch" \in Coroutines /\ "keep" \in Coroutines
    BY DEF Coroutines
  <2>. QED BY <1>1, <1>5, <2>1, OneCoroutineMoves DEF Coroutines
<1>7. \A p \in Pages : mark'[p] <= Size(p)
  BY <1>1 DEF PagesAreSeen
<1>8. TransferTypes' /\ PagesAreSeen' /\ \A p \in Pages : Size(p)' = Size(p)
  BY <1>1, <1>2, <1>6, <1>7, PagesStay DEF TransferTypes
<1>9. ~coro["keep"].busy /\ ~coro["keep"].on /\ coro["keep"].asked = {} /\ coro["catch"].bucket = {}
  BY <1>1, <1>6 DEF HandsAreEmpty, Transferring
<1>10. HandsAreEmpty'
  BY <1>1, <1>5, <1>6, <1>9 DEF HandsAreEmpty, Transferring
<1>11. PollingKeepsUp'
  BY <1>1, <1>2, <1>6, <1>9 DEF PollingKeepsUp
<1>12. ClosedPagesGetRead' /\ StoppedSkips'
  <2>1. \A p \in Pages : p < page => p \in skipped'
    BY <1>1, <1>2 DEF StoppedSkips
  <2>. QED BY <1>1, <2>1 DEF ClosedPagesGetRead, StoppedSkips, Transferring
<1>13. CheckpointsCoverReceipts'
  <2>1. InHand \subseteq InHand'
    BY <1>1, <1>6, <1>9 DEF InHand
  <2>. QED BY <1>1, <2>1 DEF CheckpointsCoverReceipts, Lines
<1>. QED BY <1>8, <1>10, <1>11, <1>12, <1>13

\* The older pages and the polling begin.
LEMMA StartBothInv ==
  ASSUME TransferInv, StartBoth
  PROVE  TransferInv'
<1>. USE DEF TransferInv
<1> DEFINE todo(c) == IF c = "keep" THEN <<>>
                      ELSE Reversed(PageZero(passAt - CatchUpPages), passAt - N_ACTIVE_PAGES)
<1>1. /\ phase = "first" /\ ~coro["catch"].busy /\ phase' = "both"
      /\ coro' = [c \in Coroutines |-> [NotTransferring EXCEPT !.on = TRUE, !.todo = todo(c)]]
      /\ UNCHANGED <<page, file, shown, archived, mark, passAt, received, lost, skipped>>
  BY DEF StartBoth
<1>2. \A c : todo(c) \in Seq(Int)
  <2>1. passAt \in Nat /\ CatchUpPages \in Nat
    BY TransferNumbers, TransferAssumption
  <2>2. PageZero(passAt - CatchUpPages) \in Int /\ passAt - N_ACTIVE_PAGES \in Int
    BY <2>1 DEF PageZero, N_ACTIVE_PAGES
  <2>. QED BY <2>2 DEF Reversed
<1>. HIDE DEF todo
<1>3. \A c \in Coroutines :
        coro'[c] = [on |-> TRUE, todo |-> todo(c), busy |-> FALSE, asked |-> {}, bucket |-> {}]
  BY <1>1 DEF NotTransferring
<1>4. /\ coro' \in [Coroutines -> TransferCoros]
      /\ \A c \in Coroutines : /\ coro'[c].on /\ ~coro'[c].busy /\ coro'[c].asked = {}
                               /\ coro'[c].bucket = {}
  <2>1. \A c \in Coroutines : coro'[c] \in TransferCoros
    <3>. SUFFICES ASSUME NEW c \in Coroutines PROVE coro'[c] \in TransferCoros
      OBVIOUS
    <3>1. PICK t \in Seq(Int) : t = todo(c)
      BY <1>2
    <3>2. coro'[c] = [on |-> TRUE, todo |-> t, busy |-> FALSE, asked |-> {}, bucket |-> {}]
      BY <1>3, <3>1
    <3>. QED BY <3>2 DEF TransferCoros
  <2>. QED BY <1>1, <1>3, <2>1
<1>5. "catch" \in Coroutines /\ "keep" \in Coroutines
  BY DEF Coroutines
<1>6. \A p \in Pages : mark'[p] <= Size(p)
  BY <1>1, ZenonT(60) DEF PagesAreSeen
<1>7. TransferTypes' /\ PagesAreSeen' /\ \A p \in Pages : Size(p)' = Size(p)
  BY <1>1, <1>4, <1>6, PagesStay DEF TransferTypes
<1>8. coro["keep"].asked = {} /\ coro["catch"].bucket = {} /\ coro["keep"].bucket = {}
  BY <1>1, <1>5 DEF HandsAreEmpty
<1>9. HandsAreEmpty'
  BY <1>1, <1>4 DEF HandsAreEmpty, Transferring
<1>10. PollingKeepsUp'
  BY <1>1, <1>4, <1>5 DEF PollingKeepsUp, Transferring
<1>11. ClosedPagesGetRead' /\ StoppedSkips'
  BY <1>1, <1>7, <1>8 DEF ClosedPagesGetRead, StoppedSkips, Transferring
<1>12. CheckpointsCoverReceipts'
  <2>1. InHand \subseteq InHand'
    BY <1>1, <1>8 DEF InHand
  <2>. QED BY <1>1, <2>1 DEF CheckpointsCoverReceipts, Lines
<1>. QED BY <1>7, <1>9, <1>10, <1>11, <1>12

\* A turn of a coroutine begins.
LEMMA BeginTransferInv ==
  ASSUME TransferInv, NEW c \in Coroutines, BeginTransfer(c)
  PROVE  TransferInv'
<1>. USE DEF TransferInv
<1>1. /\ Transferring /\ coro[c].on /\ ~coro[c].busy
      /\ UNCHANGED <<page, file, shown, archived, mark, phase, received, lost, skipped>>
  BY DEF BeginTransfer, Transferring
<1>2. /\ coro[c] \in TransferCoros /\ page \in Nat /\ page \in Pages /\ Pages \subseteq Nat
      /\ passAt \in Nat /\ Coroutines = {"catch", "keep"}
      /\ "catch" \in Coroutines /\ "keep" \in Coroutines
  BY TransferNumbers DEF TransferTypes
<1>3. coro[c].bucket = {} /\ coro[c].asked = {}
  BY <1>1 DEF HandsAreEmpty
<1>4. ASSUME NEW r \in TransferCoros, coro' = [coro EXCEPT ![c] = r], r.busy, r.bucket = {},
             r.on, passAt' \in Pages, c = "catch" => passAt' = passAt,
             c = "keep" => passAt' = page /\ r.asked = ActivePages(page)
      PROVE  TransferInv'
  <2>1. /\ coro' \in [Coroutines -> TransferCoros] /\ coro'[c] = r
        /\ \A d \in Coroutines : d # c => coro'[d] = coro[d]
    BY <1>4, OneCoroutineMoves
  <2>2. \A p \in Pages : mark'[p] <= Size(p)
    BY <1>1 DEF PagesAreSeen
  <2>3. TransferTypes' /\ PagesAreSeen' /\ \A p \in Pages : Size(p)' = Size(p)
    BY <1>1, <1>4, <2>1, <2>2, PagesStay DEF TransferTypes
  <2>4. c = "keep" => phase = "both"
    BY <1>1 DEF HandsAreEmpty
  <2>5. HandsAreEmpty'
    BY <1>1, <1>2, <1>4, <2>1, <2>4 DEF HandsAreEmpty, Transferring
  <2>6. CheckpointsCoverReceipts'
    <3>1. \A d \in Coroutines : coro'[d].bucket = coro[d].bucket
      BY <1>3, <1>4, <2>1
    <3>2. InHand' = InHand
      BY <1>1, <1>2, <3>1 DEF InHand
    <3>. QED BY <1>1, <3>2 DEF CheckpointsCoverReceipts, Lines
  <2>7. CASE c = "catch"
    <3>1. passAt' = passAt /\ coro'["keep"] = coro["keep"]
      BY <1>2, <1>4, <2>1, <2>7
    <3>. QED BY <1>1, <2>3, <2>5, <2>6, <3>1 DEF PollingKeepsUp, ClosedPagesGetRead,
            StoppedSkips, Transferring, ActivePages, PageZero
  <2>8. CASE c = "keep"
    <3>1. passAt' = page /\ coro'["keep"].asked = ActivePages(page)
      BY <1>4, <2>1, <2>8
    <3>2. PollingKeepsUp'
      BY <1>1, <1>2, <3>1 DEF PollingKeepsUp, ActivePages, PageZero, N_ACTIVE_PAGES
    <3>3. \A p \in Pages : p = page - 1 => p \in ActivePages(page)
      BY <1>2 DEF ActivePages, PageZero, N_ACTIVE_PAGES
    <3>4. coro["keep"].asked = {}
      BY <1>3, <2>8
    <3>5. ClosedPagesGetRead'
      BY <1>1, <2>3, <3>1, <3>3, <3>4 DEF ClosedPagesGetRead
    <3>. QED BY <1>1, <2>3, <2>5, <2>6, <3>2, <3>5 DEF StoppedSkips, Transferring
  <2>. QED BY <1>2, <2>7, <2>8
<1>5. CASE c = "catch" /\ coro[c].todo # <<>> /\ UNCHANGED passAt
  <2> DEFINE h == Head(coro[c].todo)
             r == [coro[c] EXCEPT !.busy = TRUE, !.todo = Tail(coro[c].todo), !.asked = {h}]
  <2>1. coro[c].todo \in Seq(Int)
    BY <1>2 DEF TransferCoros
  <2>2. h \in Int /\ Tail(coro[c].todo) \in Seq(Int)
    BY <1>5, <2>1
  <2>3. r \in TransferCoros /\ r.busy /\ r.bucket = coro[c].bucket /\ r.on = coro[c].on
    BY <1>2, <2>2 DEF TransferCoros
  <2>4. coro' = [coro EXCEPT ![c] = r]
    BY <1>5 DEF BeginTransfer
  <2>5. passAt' \in Pages
    BY <1>5 DEF TransferTypes
  <2>. HIDE DEF r
  <2>. QED BY <1>1, <1>3, <1>4, <1>5, <2>3, <2>4, <2>5
<1>6. CASE c = "keep"
  <2> DEFINE r == [coro[c] EXCEPT !.busy = TRUE, !.asked = ActivePages(page)]
  <2>1. ActivePages(page) \subseteq Int
    BY <1>2 DEF ActivePages, PageZero, N_ACTIVE_PAGES
  <2>2. /\ r \in TransferCoros /\ r.busy /\ r.bucket = coro[c].bucket /\ r.on = coro[c].on
        /\ r.asked = ActivePages(page)
    BY <1>2, <2>1 DEF TransferCoros
  <2>3. coro' = [coro EXCEPT ![c] = r] /\ passAt' = page
    BY <1>6 DEF BeginTransfer
  <2>. HIDE DEF r
  <2>. QED BY <1>1, <1>2, <1>3, <1>4, <1>6, <2>2, <2>3
<1>. QED BY <1>5, <1>6 DEF BeginTransfer

\* A request for a page ends: the checkpoint passes only lines that are in
\* hand, were cut or are bad, and a closed page that is no longer counted as
\* skipped was read to its end.
LEMMA RequestEnds ==
  ASSUME TransferInv, NEW c \in Coroutines, NEW p \in Pages, p \in coro[c].asked,
         NEW r \in TransferCoros, coro' = [coro EXCEPT ![c] = r],
         r.on = coro[c].on, r.busy = coro[c].busy, r.asked = coro[c].asked \ {p},
         coro[c].bucket \subseteq r.bucket, lost \subseteq lost',
         NEW m \in Nat, mark' = [mark EXCEPT ![p] = m], m <= Size(p),
         Lines(p, 0, m) \subseteq Lines(p, 0, mark[p]) \cup r.bucket \cup lost' \cup BadReceipts,
         \A q \in Pages : q # p => (q \in skipped' <=> q \in skipped),
         p < page /\ p \notin skipped' => m = Size(p),
         UNCHANGED <<page, file, shown, archived, phase, passAt, received>>
  PROVE  TransferInv'
<1>. USE DEF TransferInv
<1>1. /\ coro' \in [Coroutines -> TransferCoros] /\ coro'[c] = r
      /\ \A d \in Coroutines : d # c => coro'[d] = coro[d]
  BY OneCoroutineMoves
<1>2. "catch" \in Coroutines /\ "keep" \in Coroutines /\ Coroutines = {"catch", "keep"}
  BY DEF Coroutines
<1>3. coro[c].busy /\ Transferring
  BY <1>2 DEF HandsAreEmpty, Transferring
<1>4. mark' \in [Pages -> Nat] /\ mark'[p] = m /\ \A q \in Pages : q # p => mark'[q] = mark[q]
  BY DEF TransferTypes
<1>5. \A q \in Pages : mark'[q] <= Size(q)
  BY <1>4 DEF PagesAreSeen
<1>6. TransferTypes' /\ PagesAreSeen' /\ \A q \in Pages : Size(q)' = Size(q)
  BY <1>1, <1>4, <1>5, PagesStay DEF TransferTypes
<1>7. HandsAreEmpty'
  BY <1>1, <1>2, <1>3 DEF HandsAreEmpty, Transferring
<1>8. \A d \in Coroutines : /\ coro'[d].asked \subseteq coro[d].asked
                            /\ \A q \in coro[d].asked : q # p => q \in coro'[d].asked
                            /\ coro[d].bucket \subseteq coro'[d].bucket
  BY <1>1
<1>9. PollingKeepsUp'
  BY <1>2, <1>3, <1>8 DEF PollingKeepsUp, Transferring, ActivePages, PageZero
<1>10. StoppedSkips'
  BY <1>3 DEF StoppedSkips, Transferring
<1>11. ClosedPagesGetRead'
  <2>. SUFFICES ASSUME NEW q \in Pages, q < page, q \notin skipped'
       PROVE  \/ mark'[q] = Size(q) \/ q \in coro'["keep"].asked
              \/ q = page - 1 /\ passAt < page
    BY <1>6 DEF ClosedPagesGetRead
  <2>1. CASE q = p
    BY <1>4, <2>1
  <2>2. CASE q # p
    BY <1>2, <1>4, <1>8, <2>2 DEF ClosedPagesGetRead
  <2>. QED BY <2>1, <2>2
<1>12. CheckpointsCoverReceipts'
  <2>1. InHand \subseteq InHand' /\ r.bucket \subseteq InHand'
    <3>1. coro["catch"].bucket \subseteq coro'["catch"].bucket
          /\ coro["keep"].bucket \subseteq coro'["keep"].bucket
      BY <1>2, <1>8
    <3>2. r.bucket = coro'["catch"].bucket \/ r.bucket = coro'["keep"].bucket
      BY <1>1, <1>2
    <3>. QED BY <3>1, <3>2 DEF InHand
  <2>2. ASSUME NEW q \in Pages
        PROVE  Lines(q, 0, mark'[q]) \subseteq InHand' \cup lost' \cup BadReceipts
    <3>1. Lines(q, 0, mark[q]) \subseteq InHand \cup lost \cup BadReceipts
      BY DEF CheckpointsCoverReceipts
    <3>2. CASE q = p
      BY <1>4, <2>1, <3>1, <3>2
    <3>3. CASE q # p
      BY <1>4, <2>1, <3>1, <3>3
    <3>. QED BY <3>2, <3>3
  <2>. QED BY <2>2 DEF CheckpointsCoverReceipts, Lines
<1>. QED BY <1>6, <1>7, <1>9, <1>10, <1>11, <1>12

\* A page is answered.
LEMMA FetchPageInv ==
  ASSUME TransferInv, NEW c \in Coroutines, NEW p \in Pages, FetchPage(c, p)
  PROVE  TransferInv'
<1>. USE DEF TransferInv
<1> DEFINE to == Answer(p)
           rest == coro[c].asked \ {p}
           got == coro[c].bucket \cup (Lines(p, mark[p], to) \ BadReceipts)
<1>1. /\ p \in coro[c].asked
      /\ skipped' = IF p < page /\ shown[p] = Size(p) THEN skipped \ {p} ELSE skipped
      /\ UNCHANGED <<page, file, shown, archived, phase, passAt, received>>
  BY DEF FetchPage
<1>2. /\ mark[p] \in Nat /\ shown[p] \in Nat /\ Size(p) \in Nat /\ mark[p] <= Size(p)
      /\ shown[p] <= Size(p) /\ coro[c] \in TransferCoros
  BY TransferNumbers DEF PagesAreSeen
<1>3. to \in Nat /\ to <= Size(p) /\ (p < page => to = Size(p))
  <2>1. archived[p] \in Nat \cup {NoArchive}
    BY DEF TransferTypes
  <2>2. archived[p] # NoArchive => archived[p] \in Nat /\ archived[p] = Size(p)
    BY <2>1 DEF PagesAreSeen
  <2>3. p < page => shown[p] = Size(p)
    BY DEF PagesAreSeen
  <2>. QED BY <1>2, <2>2, <2>3 DEF Answer
<1>4. /\ \A q \in Pages : q # p => (q \in skipped' <=> q \in skipped)
      /\ rest \subseteq Int
  BY <1>1, <1>2 DEF TransferCoros
<1>5. got \subseteq Receipts
  <2>1. \A k \in 1 .. Len(file[p]) : file[p][k] \in Receipts
    BY DEF TransferTypes
  <2>2. Lines(p, mark[p], to) \subseteq Receipts
    BY <2>1 DEF Lines
  <2>. QED BY <1>2, <2>2 DEF TransferCoros
<1>6. CASE to <= mark[p]
  <2> DEFINE r == [coro[c] EXCEPT !.asked = rest]
  <2>1. coro' = [coro EXCEPT ![c] = r] /\ mark' = mark /\ lost' = lost
    BY <1>6 DEF FetchPage
  <2>2. /\ r \in TransferCoros /\ r.on = coro[c].on /\ r.busy = coro[c].busy /\ r.asked = rest
        /\ r.bucket = coro[c].bucket
    <3>. HIDE DEF rest
    <3>. QED BY <1>2, <1>4 DEF TransferCoros
  <2>3. mark' = [mark EXCEPT ![p] = mark[p]]
    BY <2>1 DEF TransferTypes
  <2>4. PICK m \in Nat : m = mark[p]
    BY <1>2
  <2>5. mark' = [mark EXCEPT ![p] = m] /\ m <= Size(p) /\ (p < page => m = Size(p))
    BY <1>2, <1>3, <1>6, <2>3, <2>4
  <2>6. Lines(p, 0, m) \subseteq Lines(p, 0, mark[p]) \cup r.bucket \cup lost' \cup BadReceipts
    BY <2>4
  <2>. HIDE DEF r, to, got
  <2>. QED BY <1>1, <1>4, <2>1, <2>2, <2>5, <2>6, RequestEnds
<1>7. CASE ~(to <= mark[p])
  <2> DEFINE r == [coro[c] EXCEPT !.asked = rest, !.bucket = got]
  <2>1. /\ coro' = [coro EXCEPT ![c] = r] /\ mark' = [mark EXCEPT ![p] = to]
        /\ lost' = lost \cup CutLines(p, mark[p], to)
    BY <1>7 DEF FetchPage
  <2>2. /\ r \in TransferCoros /\ r.on = coro[c].on /\ r.busy = coro[c].busy /\ r.asked = rest
        /\ r.bucket = got
    <3>. HIDE DEF rest, got
    <3>. QED BY <1>2, <1>4, <1>5 DEF TransferCoros
  <2>3. PICK m \in Nat : m = to
    BY <1>3
  <2>4. Lines(p, 0, m) \subseteq Lines(p, 0, mark[p]) \cup Lines(p, mark[p], to) \cup CutLines(p, mark[p], to)
    BY <1>2, <1>3, <2>3, ServedLines
  <2>5. Lines(p, 0, m) \subseteq Lines(p, 0, mark[p]) \cup got \cup lost' \cup BadReceipts
    BY <2>1, <2>4
  <2>6. coro[c].bucket \subseteq got /\ lost \subseteq lost'
    BY <2>1
  <2>7. mark' = [mark EXCEPT ![p] = m] /\ m <= Size(p) /\ (p < page => m = Size(p))
    BY <1>3, <2>1, <2>3
  <2>8. coro' = [coro EXCEPT ![c] = r]
    BY <2>1
  <2>. HIDE DEF r, to, got
  <2>. QED BY <1>1, <1>4, <2>2, <2>5, <2>6, <2>7, <2>8, RequestEnds
<1>. QED BY <1>6, <1>7

\* A request fails.
LEMMA FetchFailsInv ==
  ASSUME TransferInv, NEW c \in Coroutines, NEW p \in Pages, FetchFails(c, p)
  PROVE  TransferInv'
<1>. USE DEF TransferInv
<1> DEFINE rest == coro[c].asked \ {p}
           r == [coro[c] EXCEPT !.asked = rest]
<1>1. /\ p \in coro[c].asked /\ coro' = [coro EXCEPT ![c] = r] /\ skipped' = skipped \cup {p}
      /\ UNCHANGED <<page, file, shown, archived, mark, phase, passAt, received, lost>>
  BY DEF FetchFails
<1>2. mark[p] \in Nat /\ mark[p] <= Size(p) /\ coro[c] \in TransferCoros
  BY TransferNumbers DEF PagesAreSeen
<1>3. rest \subseteq Int
  BY <1>2 DEF TransferCoros
<1>4. /\ r \in TransferCoros /\ r.on = coro[c].on /\ r.busy = coro[c].busy /\ r.asked = rest
      /\ r.bucket = coro[c].bucket
  <2>. HIDE DEF rest
  <2>. QED BY <1>2, <1>3 DEF TransferCoros
<1>5. PICK m \in Nat : m = mark[p]
  BY <1>2
<1>6. mark' = [mark EXCEPT ![p] = m] /\ m <= Size(p)
  BY <1>1, <1>2, <1>5 DEF TransferTypes
<1>7. Lines(p, 0, m) \subseteq Lines(p, 0, mark[p]) \cup r.bucket \cup lost' \cup BadReceipts
  BY <1>5
<1>8. p \in skipped' /\ \A q \in Pages : q # p => (q \in skipped' <=> q \in skipped)
  BY <1>1
<1>9. coro' = [coro EXCEPT ![c] = r]
  BY <1>1
<1>. HIDE DEF r
<1>. QED BY <1>1, <1>4, <1>6, <1>7, <1>8, <1>9, RequestEnds

\* A bucket goes to the database.
LEMMA StoreBucketInv ==
  ASSUME TransferInv, NEW c \in Coroutines, StoreBucket(c)
  PROVE  TransferInv'
<1>. USE DEF TransferInv
<1> DEFINE more == coro[c].asked # {}
           r == [coro[c] EXCEPT !.bucket = {}, !.busy = more]
<1>1. /\ coro[c].busy /\ received' = received \cup coro[c].bucket
      /\ coro' = [coro EXCEPT ![c] = r]
      /\ UNCHANGED <<page, file, shown, archived, mark, phase, passAt, lost, skipped>>
  BY DEF StoreBucket
<1>2. coro[c] \in TransferCoros /\ more \in BOOLEAN
  BY TransferNumbers
<1>3. /\ r \in TransferCoros /\ r.on = coro[c].on /\ r.busy = more /\ r.asked = coro[c].asked
      /\ r.bucket = {}
  <2>. HIDE DEF more
  <2>. QED BY <1>2 DEF TransferCoros
<1>4. coro' = [coro EXCEPT ![c] = r]
  BY <1>1
<1>. HIDE DEF r
<1>5. /\ coro' \in [Coroutines -> TransferCoros] /\ coro'[c] = r
      /\ \A d \in Coroutines : d # c => coro'[d] = coro[d]
  BY <1>3, <1>4, OneCoroutineMoves
<1>6. "catch" \in Coroutines /\ "keep" \in Coroutines /\ Coroutines = {"catch", "keep"}
  BY DEF Coroutines
<1>7. \A p \in Pages : mark'[p] <= Size(p)
  BY <1>1 DEF PagesAreSeen
<1>8. TransferTypes' /\ PagesAreSeen' /\ \A p \in Pages : Size(p)' = Size(p)
  BY <1>1, <1>5, <1>7, PagesStay DEF TransferTypes
<1>9. HandsAreEmpty'
  BY <1>1, <1>3, <1>5, <1>6 DEF HandsAreEmpty, Transferring
<1>10. coro'["keep"].asked = coro["keep"].asked
  BY <1>3, <1>5, <1>6
<1>11. PollingKeepsUp' /\ ClosedPagesGetRead' /\ StoppedSkips'
  BY <1>1, <1>8, <1>10 DEF PollingKeepsUp, ClosedPagesGetRead, StoppedSkips, Transferring,
     ActivePages, PageZero
<1>12. CheckpointsCoverReceipts'
  <2>1. CASE c = "catch"
    <3>1. InHand \subseteq InHand'
      BY <1>1, <1>5, <1>6, <2>1 DEF InHand
    <3>. QED BY <1>1, <3>1 DEF CheckpointsCoverReceipts, Lines
  <2>2. CASE c = "keep"
    <3>1. InHand \subseteq InHand'
      BY <1>1, <1>5, <1>6, <2>2 DEF InHand
    <3>. QED BY <1>1, <3>1 DEF CheckpointsCoverReceipts, Lines
  <2>. QED BY <1>6, <2>1, <2>2
<1>. QED BY <1>8, <1>9, <1>11, <1>12

\* The coroutines end, and what was in hand is stored or lost.
LEMMA TransferStops ==
  ASSUME TransferInv, coro' = [d \in Coroutines |-> NotTransferring],
         phase' \in {"down", "asleep"}, skipped' = skipped \cup {p \in Pages : p <= page},
         InHand \cup lost \subseteq received' \cup lost',
         UNCHANGED <<page, file, shown, archived, mark, passAt>>
  PROVE  TransferInv'
<1>. USE DEF TransferInv
<1>1. NotTransferring \in TransferCoros
  BY DEF NotTransferring, TransferCoros
<1>2. coro' \in [Coroutines -> TransferCoros] /\ phase' \in {"down", "asleep", "first", "both"}
  BY <1>1
<1>3. \A c \in Coroutines : /\ ~coro'[c].on /\ ~coro'[c].busy /\ coro'[c].asked = {}
                            /\ coro'[c].bucket = {}
  BY DEF NotTransferring
<1>4. "catch" \in Coroutines /\ "keep" \in Coroutines
  BY DEF Coroutines
<1>5. \A p \in Pages : mark'[p] <= Size(p)
  BY DEF PagesAreSeen
<1>6. TransferTypes' /\ PagesAreSeen' /\ \A p \in Pages : Size(p)' = Size(p)
  BY <1>2, <1>5, PagesStay DEF TransferTypes
<1>7. ~Transferring'
  BY DEF Transferring
<1>8. HandsAreEmpty' /\ PollingKeepsUp'
  BY <1>3, <1>4, <1>7 DEF HandsAreEmpty, PollingKeepsUp
<1>9. \A p \in Pages : p <= page => p \in skipped'
  OBVIOUS
<1>10. \A p \in Pages : p < page => p <= page
  BY TransferNumbers
<1>11. ClosedPagesGetRead' /\ StoppedSkips'
  BY <1>9, <1>10 DEF ClosedPagesGetRead, StoppedSkips
<1>12. CheckpointsCoverReceipts'
  <2>1. InHand \cup lost \subseteq InHand' \cup lost'
    BY DEF InHand
  <2>. QED BY <2>1 DEF CheckpointsCoverReceipts, Lines
<1>. QED BY <1>6, <1>8, <1>11, <1>12

\* The transfer is switched off: the coroutine that notices holds nothing.
LEMMA DisabledInv ==
  ASSUME TransferInv, NEW c \in Coroutines, Disabled(c)
  PROVE  TransferInv'
<1> DEFINE other == CHOOSE d \in Coroutines : d # c
<1>1. /\ ~coro[c].busy /\ phase' = "asleep" /\ coro' = [d \in Coroutines |-> NotTransferring]
      /\ skipped' = skipped \cup {p \in Pages : p <= page}
      /\ UNCHANGED <<page, file, shown, archived, mark, passAt>>
      /\ \/ lost' = lost \cup coro[other].bucket /\ UNCHANGED received
         \/ received' = received \cup coro[other].bucket /\ UNCHANGED lost
  BY DEF Disabled
<1>2. Coroutines = {"catch", "keep"} /\ coro[c].bucket = {}
  BY <1>1 DEF Coroutines, TransferInv, HandsAreEmpty
<1>3. \E d \in Coroutines : d # c
  BY <1>2
<1>4. other \in Coroutines /\ other # c
  BY <1>3
<1>. HIDE DEF other
<1>5. InHand = received \cup coro[other].bucket
  <2>1. \/ c = "catch" /\ other = "keep"
        \/ c = "keep" /\ other = "catch"
    BY <1>2, <1>4
  <2>. QED BY <1>2, <2>1 DEF InHand
<1>6. InHand \cup lost \subseteq received' \cup lost'
  BY <1>1, <1>5
<1>. QED BY <1>1, <1>6, TransferStops

\* The process dies with what its coroutines hold.
LEMMA TransferCrashInv ==
  ASSUME TransferInv, TransferCrash
  PROVE  TransferInv'
<1>1. InHand \cup lost \subseteq received' \cup lost'
  BY DEF TransferCrash, InHand
<1>. QED BY <1>1, TransferStops DEF TransferCrash

\* Every step keeps the invariant.
LEMMA TransferStep == TransferInv /\ [TransferNext]_transferVars => TransferInv'
<1>. SUFFICES ASSUME TransferInv, [TransferNext]_transferVars PROVE TransferInv'
  OBVIOUS
<1>1. CASE UNCHANGED transferVars
  BY <1>1, SMTT(60) DEF transferVars, TransferInv, TransferTypes, PagesAreSeen, Size, HandsAreEmpty,
     Transferring, PollingKeepsUp, ActivePages, PageZero, ClosedPagesGetRead, StoppedSkips,
     CheckpointsCoverReceipts, Lines, InHand
<1>2. CASE TransferNext
  BY <1>2, StoreReceiptInv, MoveInv, NextPageInv, StartTransferInv, StartBothInv,
     BeginTransferInv, FetchPageInv, FetchFailsInv, StoreBucketInv, DisabledInv,
     TransferCrashInv DEF TransferNext
<1>. QED BY <1>1, <1>2

\* Whatever is written, moved, archived and polled in whatever order, and
\* however often the process dies or is switched off, a checkpoint passes no
\* receipt that was not served, and a page that is closed for longer than a
\* pass over the active pages was read to its end (run_receipts_transfer and
\* ReceiptsTransfer.transfer against LocalFilesystemPagedReceiptStore).
THEOREM NoReceiptEverPassedOver == TransferSpec => []NoReceiptIsPassedOver
<1>1. TransferInv => NoReceiptIsPassedOver
  <2>. SUFFICES ASSUME TransferInv, NEW p \in Pages, p < page - N_ACTIVE_PAGES, p \notin skipped
       PROVE  mark[p] = Size(p)
    BY DEF TransferInv, NoReceiptIsPassedOver, ClosedPagesAreRead
  <2>1. p \in Nat /\ page \in Nat /\ passAt \in Nat /\ p < page - 2 /\ p < page /\ p <= page
    BY TransferNumbers DEF TransferInv, N_ACTIVE_PAGES
  <2>2. Transferring
    BY <2>1 DEF TransferInv, StoppedSkips
  <2>3. page <= passAt + 1 /\ coro["keep"].asked \subseteq ActivePages(passAt)
    BY <2>2 DEF TransferInv, PollingKeepsUp
  <2>4. p \notin ActivePages(passAt)
    BY <2>1, <2>3 DEF ActivePages, PageZero, N_ACTIVE_PAGES
  <2>5. p # page - 1
    BY <2>1
  <2>. QED BY <2>1, <2>3, <2>4, <2>5 DEF TransferInv, ClosedPagesGetRead
<1>. QED BY <1>1, InitTransferInv, TransferStep, PTL DEF TransferSpec

-----------------------------------------------------------------------------
(* Docker servers: reservations and queues *)

DockerPhases == {"idle", "starting", "listed", "exited", "dropped"}
DockerRecords ==
  [phase : DockerPhases, server : Servers \cup {Absent}, class : Classes \cup {Absent}]

DockerTypes ==
  /\ config \in [Servers -> Classes \cup {Absent}]
  /\ serverQueue \in [Classes -> Seq(Servers)]
  /\ held \subseteq Servers
  /\ docker \in [Dockers -> DockerRecords]
  /\ \A e \in Dockers : docker[e].phase \in {"starting", "listed", "exited"} =>
       docker[e].server \in Servers /\ docker[e].class \in Classes
  /\ inspected \in [Dockers -> {"none", "due", "keep", "drop"}]
  /\ late \subseteq Dockers
  /\ disturbed \in [edits : Nat, moved : BOOLEAN, raises : Nat, first : [Servers -> Classes]]

\* A cleanup looks at executors in the list, and what it drops is gone.
InspectionsAreOfListed ==
  /\ \A e \in Dockers : inspected[e] # "none" => docker[e].phase \in {"listed", "exited"}
  /\ \A e \in Dockers : inspected[e] = "drop" => docker[e].phase = "exited"

\* The executors that have not given their server back in a cleanup.
Keepers ==
  {e \in In({"starting", "listed", "exited"}) : inspected[e] # "drop"}

HeldHaveKeepers == \A s \in held : \E e \in Keepers : docker[e].server = s

Calm == ~disturbed.moved /\ disturbed.raises = 0

\* Without moves between classes and without raising checks, a server belongs to
\* the class it had at first, wherever it is: configured, queued or reserved.
ServersStayInClass ==
  Calm =>
    /\ late = {}
    /\ \A s \in Servers : config[s] \in {Absent, disturbed.first[s]}
    /\ \A c \in Classes : \A i \in 1 .. Len(serverQueue[c]) :
         disturbed.first[serverQueue[c][i]] = c
    /\ \A e \in Keepers : disturbed.first[docker[e].server] = docker[e].class

\* A server is in its queue once, or is reserved by one executor, never both.
ServersAreInOnePlace ==
  Calm =>
    /\ \A c \in Classes : \A i \in 1 .. Len(serverQueue[c]) : serverQueue[c][i] \notin held
    /\ \A c \in Classes : \A i, j \in 1 .. Len(serverQueue[c]) :
         serverQueue[c][i] = serverQueue[c][j] => i = j
    /\ \A e \in Keepers : docker[e].server \in held
    /\ \A e, f \in Keepers : docker[e].server = docker[f].server => e = f

DockerInv ==
  /\ DockerTypes /\ InspectionsAreOfListed /\ HeldHaveKeepers
  /\ ServersStayInClass /\ ServersAreInOnePlace

\* An executor's phase changes, its server and its class do not.
LEMMA PhaseChanges ==
  ASSUME DockerTypes, NEW e \in Dockers, NEW p \in DockerPhases,
         docker' = [docker EXCEPT ![e].phase = p]
  PROVE  /\ docker' \in [Dockers -> DockerRecords] /\ docker'[e].phase = p
         /\ \A f \in Dockers : /\ docker'[f].server = docker[f].server
                               /\ docker'[f].class = docker[f].class
                               /\ f # e => docker'[f] = docker[f]
<1>1. docker[e] \in DockerRecords
  BY DEF DockerTypes
<1> DEFINE r == [docker[e] EXCEPT !.phase = p]
<1>2. r \in DockerRecords /\ r.phase = p /\ r.server = docker[e].server /\ r.class = docker[e].class
  BY <1>1 DEF DockerRecords
<1>3. docker' = [docker EXCEPT ![e] = r]
  OBVIOUS
<1>. HIDE DEF r
<1>4. docker \in [Dockers -> DockerRecords]
  BY DEF DockerTypes
<1>5. \A f \in Dockers : docker'[f] = IF f = e THEN r ELSE docker[f]
  BY <1>3, <1>4
<1>6. docker' \in [Dockers -> DockerRecords]
  BY <1>2, <1>3, <1>4
<1>. QED BY <1>2, <1>5, <1>6

\* The invariant holds before anything happens.
LEMMA InitDockerInv == DockerInit => DockerInv
<1>. SUFFICES ASSUME DockerInit PROVE DockerInv
  OBVIOUS
<1>1. NotStarted \in DockerRecords
  BY DEF NotStarted, DockerRecords, DockerPhases
<1>2. \A e \in Dockers : docker[e].phase = "idle" /\ inspected[e] = "none"
  BY DEF DockerInit, NotStarted
<1>3. disturbed \in [edits : Nat, moved : BOOLEAN, raises : Nat, first : [Servers -> Classes]]
      /\ disturbed.first = config
  BY DEF DockerInit
<1>4. DockerTypes
  BY <1>1, <1>2, <1>3 DEF DockerInit, DockerTypes
<1>5. Keepers = {} /\ held = {} /\ late = {}
  BY <1>2 DEF Keepers, In, DockerInit
<1>6. \A c \in Classes : serverQueue[c] = <<>> /\ Len(serverQueue[c]) = 0
  BY DEF DockerInit
<1>7. \A c \in Classes : 1 .. Len(serverQueue[c]) = {}
  BY <1>6
<1>8. InspectionsAreOfListed /\ HeldHaveKeepers
  BY <1>2, <1>5 DEF InspectionsAreOfListed, HeldHaveKeepers
<1>9. ServersStayInClass /\ ServersAreInOnePlace
  BY <1>3, <1>5, <1>7 DEF ServersStayInClass, ServersAreInOnePlace
<1>. QED BY <1>4, <1>8, <1>9 DEF DockerInv

\* What the executors and the cleanup see may change, as long as the same
\* executors hold their servers.
LEMMA SameHolders ==
  ASSUME DockerInv, UNCHANGED <<config, serverQueue, held, disturbed>>, late' \subseteq late,
         docker' \in [Dockers -> DockerRecords],
         inspected' \in [Dockers -> {"none", "due", "keep", "drop"}],
         \A e \in Dockers : /\ docker'[e].server = docker[e].server
                            /\ docker'[e].class = docker[e].class
                            /\ docker'[e].phase \in {"starting", "listed", "exited"} =>
                                 docker[e].phase \in {"starting", "listed", "exited"},
         Keepers' = Keepers, InspectionsAreOfListed'
  PROVE  DockerInv'
<1>. USE DEF DockerInv
<1>1. DockerTypes'
  BY DEF DockerTypes
<1>2. \A e \in Keepers : e \in Dockers
  BY DEF Keepers, In
<1>3. HeldHaveKeepers'
  <2>. SUFFICES ASSUME NEW s \in held PROVE \E e \in Keepers' : docker'[e].server = s
    BY DEF HeldHaveKeepers
  <2>1. PICK e \in Keepers : docker[e].server = s
    BY DEF HeldHaveKeepers
  <2>. QED BY <1>2, <2>1
<1>4. Calm' <=> Calm
  BY DEF Calm
<1>5. ServersStayInClass' /\ ServersAreInOnePlace'
  BY <1>2, <1>4 DEF ServersStayInClass, ServersAreInOnePlace
<1>. QED BY <1>1, <1>3, <1>5

\* An executor gives its server back: it goes to the end of its class's queue.
LEMMA HolderReleases ==
  ASSUME DockerInv, NEW e \in Dockers, e \in Keepers, ReleaseServer(e),
         UNCHANGED <<config, late, disturbed>>,
         docker' \in [Dockers -> DockerRecords],
         inspected' \in [Dockers -> {"none", "due", "keep", "drop"}],
         \A f \in Dockers : /\ docker'[f].server = docker[f].server
                            /\ docker'[f].class = docker[f].class
                            /\ docker'[f].phase \in {"starting", "listed", "exited"} =>
                                 docker[f].phase \in {"starting", "listed", "exited"},
         Keepers' = Keepers \ {e}, InspectionsAreOfListed'
  PROVE  DockerInv'
<1>. USE DEF DockerInv
<1>1. PICK s \in Servers : s = docker[e].server
  BY DEF DockerTypes, Keepers, In
<1>2. PICK c \in Classes : c = docker[e].class
  BY DEF DockerTypes, Keepers, In
<1>3. \/ /\ s \in held /\ held' = held \ {s}
         /\ serverQueue' = [serverQueue EXCEPT ![c] = Append(@, s)]
      \/ s \notin held /\ held' = held /\ serverQueue' = serverQueue
  BY <1>1, <1>2 DEF ReleaseServer
<1>4. /\ serverQueue[c] \in Seq(Servers) /\ Len(serverQueue[c]) \in Nat
      /\ serverQueue' \in [Classes -> Seq(Servers)] /\ held' \subseteq held
  <2>1. serverQueue \in [Classes -> Seq(Servers)]
    BY DEF DockerTypes
  <2>2. Append(serverQueue[c], s) \in Seq(Servers) /\ Len(serverQueue[c]) \in Nat
    BY <2>1
  <2>. QED BY <1>3, <2>1, <2>2
<1>5. DockerTypes'
  BY <1>4 DEF DockerTypes
<1>6. s \notin held'
  BY <1>3
<1>7. \A f \in Keepers : f \in Dockers
  BY DEF Keepers, In
<1>8. HeldHaveKeepers'
  <2>. SUFFICES ASSUME NEW x \in held' PROVE \E f \in Keepers' : docker'[f].server = x
    BY DEF HeldHaveKeepers
  <2>1. PICK f \in Keepers : docker[f].server = x
    BY <1>4 DEF HeldHaveKeepers
  <2>2. f # e /\ f \in Dockers
    BY <1>1, <1>6, <1>7, <2>1
  <2>. QED BY <2>1, <2>2
<1>9. ServersStayInClass' /\ ServersAreInOnePlace'
  <2>. SUFFICES ASSUME Calm PROVE ServersStayInClass' /\ ServersAreInOnePlace'
    BY DEF ServersStayInClass, ServersAreInOnePlace, Calm
  <2>1. s \in held /\ disturbed.first[s] = c
    BY <1>1, <1>2 DEF ServersStayInClass, ServersAreInOnePlace
  <2>2. held' = held \ {s} /\ serverQueue' = [serverQueue EXCEPT ![c] = Append(@, s)]
    BY <1>3, <2>1
  <2>3. /\ Len(serverQueue'[c]) = Len(serverQueue[c]) + 1
        /\ serverQueue'[c][Len(serverQueue[c]) + 1] = s
        /\ \A i \in 1 .. Len(serverQueue[c]) : serverQueue'[c][i] = serverQueue[c][i]
        /\ \A d \in Classes : d # c => serverQueue'[d] = serverQueue[d]
    BY <1>4, <2>2, AppendProperties DEF DockerTypes
  <2>4. \A d \in Classes : \A i \in 1 .. Len(serverQueue[d]) :
          serverQueue[d][i] \notin held /\ serverQueue[d][i] # s /\ disturbed.first[serverQueue[d][i]] = d
    BY <2>1 DEF ServersStayInClass, ServersAreInOnePlace
  <2>5. \A i \in 1 .. Len(serverQueue'[c]) :
          i \in 1 .. Len(serverQueue[c]) \/ (i = Len(serverQueue[c]) + 1 /\ serverQueue'[c][i] = s)
    BY <1>4, <2>3
  <2>6. ASSUME NEW d \in Classes, NEW i \in 1 .. Len(serverQueue'[d])
        PROVE  disturbed.first[serverQueue'[d][i]] = d /\ serverQueue'[d][i] \notin held'
    <3>1. CASE d = c
      BY <2>1, <2>2, <2>3, <2>4, <2>5, <3>1
    <3>2. CASE d # c
      BY <2>2, <2>3, <2>4, <3>2
    <3>. QED BY <3>1, <3>2
  <2>7. ASSUME NEW d \in Classes, NEW i \in 1 .. Len(serverQueue'[d]),
               NEW j \in 1 .. Len(serverQueue'[d]), serverQueue'[d][i] = serverQueue'[d][j]
        PROVE  i = j
    <3>1. CASE d = c
      <4>1. \A k \in 1 .. Len(serverQueue[c]) : serverQueue'[c][k] # s
        BY <2>3, <2>4
      <4>2. CASE i \in 1 .. Len(serverQueue[c]) /\ j \in 1 .. Len(serverQueue[c])
        BY <2>3, <2>7, <3>1, <4>2 DEF ServersAreInOnePlace
      <4>. QED BY <2>5, <2>7, <3>1, <4>1, <4>2
    <3>2. CASE d # c
      BY <2>3, <2>7, <3>2 DEF ServersAreInOnePlace
    <3>. QED BY <3>1, <3>2
  <2>8. ServersStayInClass'
    <3>1. late' = {} /\ \A x \in Servers : config'[x] \in {Absent, disturbed'.first[x]}
      BY DEF ServersStayInClass
    <3>2. \A f \in Keepers' : disturbed'.first[docker'[f].server] = docker'[f].class
      BY <1>7 DEF ServersStayInClass
    <3>. QED BY <2>6, <3>1, <3>2 DEF ServersStayInClass
  <2>9. \A f \in Keepers' : f \in Keepers /\ f # e /\ docker'[f].server = docker[f].server
    BY <1>7
  <2>10. \A f \in Keepers' : docker'[f].server \in held'
    BY <1>1, <2>2, <2>9 DEF ServersAreInOnePlace
  <2>11. \A f, g \in Keepers' : docker'[f].server = docker'[g].server => f = g
    BY <2>9 DEF ServersAreInOnePlace
  <2>12. ServersAreInOnePlace'
    BY <2>6, <2>7, <2>10, <2>11 DEF ServersAreInOnePlace
  <2>. QED BY <2>8, <2>12
<1>. QED BY <1>5, <1>8, <1>9

\* A container is started, exits, or is looked at.
LEMMA PhaseOnlyInv ==
  ASSUME DockerInv, NEW e \in Dockers, StartContainer(e) \/ ContainerGone(e)
  PROVE  DockerInv'
<1>. USE DEF DockerInv
<1>1. PICK p \in {"listed", "exited"} :
        /\ docker' = [docker EXCEPT ![e].phase = p]
        /\ \/ docker[e].phase = "starting" /\ p = "listed"
           \/ docker[e].phase = "listed" /\ p = "exited"
  BY DEF StartContainer, ContainerGone
<1>2. UNCHANGED <<config, serverQueue, held, inspected, late, disturbed>>
  BY DEF StartContainer, ContainerGone
<1>3. p \in DockerPhases
  BY DEF DockerPhases
<1>4. /\ docker' \in [Dockers -> DockerRecords] /\ docker'[e].phase = p
      /\ \A f \in Dockers : /\ docker'[f].server = docker[f].server
                            /\ docker'[f].class = docker[f].class
                            /\ f # e => docker'[f] = docker[f]
  BY <1>1, <1>3, PhaseChanges
<1>5. Keepers' = Keepers
  BY <1>1, <1>2, <1>4 DEF Keepers, In
<1>6. InspectionsAreOfListed'
  BY <1>1, <1>2, <1>4 DEF InspectionsAreOfListed
<1>7. \A f \in Dockers : docker'[f].phase \in {"starting", "listed", "exited"} =>
                           docker[f].phase \in {"starting", "listed", "exited"}
  BY <1>1, <1>4
<1>8. inspected' \in [Dockers -> {"none", "due", "keep", "drop"}]
  BY <1>2 DEF DockerTypes
<1>. QED BY <1>2, <1>4, <1>5, <1>6, <1>7, <1>8, SameHolders

\* Checks begin, and see a container that runs.
LEMMA LookInv ==
  ASSUME DockerInv, \/ \E c \in Classes : BeginInspection(c)
                    \/ \E e \in Dockers : SeeRunning(e)
  PROVE  DockerInv'
<1>. USE DEF DockerInv
<1>1. UNCHANGED <<config, serverQueue, held, docker, late, disturbed>>
  BY DEF BeginInspection, SeeRunning
<1>2. inspected \in [Dockers -> {"none", "due", "keep", "drop"}] /\ docker \in [Dockers -> DockerRecords]
  BY DEF DockerTypes
<1>3. /\ inspected' \in [Dockers -> {"none", "due", "keep", "drop"}]
      /\ \A e \in Dockers : \/ inspected'[e] = inspected[e]
                            \/ /\ inspected'[e] # "drop" /\ inspected[e] # "drop"
                               /\ docker[e].phase \in {"listed", "exited"}
  <2>1. ASSUME NEW c \in Classes, BeginInspection(c)
        PROVE  <1>3!1 /\ <1>3!2
    <3>1. \A e \in Listed(c) : inspected[e] = "none" /\ docker[e].phase \in {"listed", "exited"}
      BY <2>1 DEF BeginInspection, Listed, In
    <3>. QED BY <1>2, <2>1, <3>1 DEF BeginInspection
  <2>2. ASSUME NEW e \in Dockers, SeeRunning(e)
        PROVE  <1>3!1 /\ <1>3!2
    BY <1>2, <2>2 DEF SeeRunning
  <2>. QED BY <2>1, <2>2
<1>4. Keepers' = Keepers
  BY <1>1, <1>3 DEF Keepers, In
<1>5. InspectionsAreOfListed'
  BY <1>1, <1>3 DEF InspectionsAreOfListed
<1>. QED BY <1>1, <1>2, <1>3, <1>4, <1>5, SameHolders

\* A cleanup ends: what it drops has given its server back.
LEMMA EndInspectionInv ==
  ASSUME DockerInv, NEW c \in Classes, EndInspection(c)
  PROVE  DockerInv'
<1>. USE DEF DockerInv
<1> DEFINE mine == {e \in Dockers : docker[e].class = c /\ inspected[e] # "none"}
           gone(e) == e \in mine /\ inspected[e] = "drop"
<1>1. /\ docker' = [e \in Dockers |-> IF gone(e) THEN [docker[e] EXCEPT !.phase = "dropped"]
                                      ELSE docker[e]]
      /\ inspected' = [e \in Dockers |-> IF e \in mine THEN "none" ELSE inspected[e]]
      /\ UNCHANGED <<config, serverQueue, held, late, disturbed>>
  BY DEF EndInspection
<1>2. inspected \in [Dockers -> {"none", "due", "keep", "drop"}] /\ docker \in [Dockers -> DockerRecords]
  BY DEF DockerTypes
<1>. HIDE DEF mine
<1>3. inspected' \in [Dockers -> {"none", "due", "keep", "drop"}]
  BY <1>1, <1>2
<1>. HIDE DEF gone
<1>4. ASSUME NEW e \in Dockers
      PROVE  /\ docker'[e] \in DockerRecords
             /\ docker'[e].server = docker[e].server /\ docker'[e].class = docker[e].class
             /\ docker'[e].phase = IF gone(e) THEN "dropped" ELSE docker[e].phase
  <2>1. CASE gone(e)
    <3>1. PICK r : r = [docker[e] EXCEPT !.phase = "dropped"]
      OBVIOUS
    <3>2. docker'[e] = r
      BY <1>1, <2>1, <3>1
    <3>3. docker[e] \in DockerRecords
      BY <1>2
    <3>4. r \in DockerRecords /\ r.phase = "dropped" /\ r.server = docker[e].server
          /\ r.class = docker[e].class
      BY <3>1, <3>3 DEF DockerRecords, DockerPhases
    <3>. QED BY <2>1, <3>2, <3>4
  <2>2. CASE ~gone(e)
    BY <1>1, <1>2, <2>2
  <2>. QED BY <2>1, <2>2
<1>5. docker' \in [Dockers -> DockerRecords]
  BY <1>1, <1>4
<1>6. \A e \in Dockers : docker'[e].phase \in {"starting", "listed", "exited"} =>
                           docker[e].phase \in {"starting", "listed", "exited"}
  BY <1>4
<1>7. \A e \in Dockers : /\ gone(e) => inspected[e] = "drop" /\ inspected'[e] = "none"
                         /\ ~gone(e) => (inspected'[e] = "drop" <=> inspected[e] = "drop")
                         /\ inspected'[e] # "none" => inspected'[e] = inspected[e] /\ ~gone(e)
  BY <1>1 DEF gone
<1>8. Keepers' = Keepers
  BY <1>4, <1>7 DEF Keepers, In
<1>9. InspectionsAreOfListed'
  BY <1>4, <1>7 DEF InspectionsAreOfListed
<1>. QED BY <1>1, <1>3, <1>4, <1>5, <1>6, <1>8, <1>9, SameHolders

\* A start fails, or a check sees that the container is gone.
LEMMA ReleaseInv ==
  ASSUME DockerInv, NEW e \in Dockers, StartFails(e) \/ SeeGone(e)
  PROVE  DockerInv'
<1>. USE DEF DockerInv
<1>0. inspected \in [Dockers -> {"none", "due", "keep", "drop"}]
  BY DEF DockerTypes
<1>1. PICK p \in {"dropped", "exited"} :
        /\ docker' = [docker EXCEPT ![e].phase = p]
        /\ \/ docker[e].phase = "starting" /\ p = "dropped" /\ inspected' = inspected
           \/ /\ docker[e].phase \in {"listed", "exited"} /\ p = "exited" /\ inspected[e] = "due"
              /\ inspected' = [inspected EXCEPT ![e] = "drop"]
  BY DEF StartFails, SeeGone
<1>2. ReleaseServer(e) /\ UNCHANGED <<config, late, disturbed>>
  BY DEF StartFails, SeeGone
<1>3. p \in DockerPhases
  BY DEF DockerPhases
<1>4. /\ docker' \in [Dockers -> DockerRecords] /\ docker'[e].phase = p
      /\ \A f \in Dockers : /\ docker'[f].server = docker[f].server
                            /\ docker'[f].class = docker[f].class
                            /\ f # e => docker'[f] = docker[f]
  BY <1>1, <1>3, PhaseChanges
<1>5. /\ inspected' \in [Dockers -> {"none", "due", "keep", "drop"}]
      /\ \A f \in Dockers : f # e => inspected'[f] = inspected[f]
  BY <1>0, <1>1
<1>6. e \in Keepers
  BY <1>1 DEF Keepers, In, InspectionsAreOfListed
<1>7. e \notin Keepers'
  BY <1>0, <1>1, <1>4 DEF Keepers, In
<1>8. Keepers' = Keepers \ {e}
  BY <1>4, <1>5, <1>7 DEF Keepers, In
<1>9. InspectionsAreOfListed'
  BY <1>0, <1>1, <1>4, <1>5 DEF InspectionsAreOfListed
<1>10. \A f \in Dockers : docker'[f].phase \in {"starting", "listed", "exited"} =>
                            docker[f].phase \in {"starting", "listed", "exited"}
  BY <1>1, <1>4
<1>. QED BY <1>2, <1>4, <1>5, <1>6, <1>8, <1>9, <1>10, HolderReleases

\* Nothing is promised of the queues once a check has raised: the servers that
\* are reserved still have their holders.
LEMMA NotCalmInv ==
  ASSUME DockerInv, ~Calm', DockerTypes', InspectionsAreOfListed', held' \subseteq held,
         Keepers \subseteq Keepers', \A e \in Dockers : docker'[e].server = docker[e].server
  PROVE  DockerInv'
<1>1. \A e \in Keepers : e \in Dockers
  BY DEF Keepers, In
<1>2. HeldHaveKeepers'
  <2>. SUFFICES ASSUME NEW s \in held' PROVE \E e \in Keepers' : docker'[e].server = s
    BY DEF HeldHaveKeepers
  <2>1. PICK e \in Keepers : docker[e].server = s
    BY DEF DockerInv, HeldHaveKeepers
  <2>2. e \in Keepers' /\ docker'[e].server = s
    BY <1>1, <2>1
  <2>. QED BY <2>2
<1>. QED BY <1>2 DEF DockerInv, ServersStayInClass, ServersAreInOnePlace

\* A check raises.
LEMMA CheckRaisesInv ==
  ASSUME DockerInv, NEW e \in Dockers, CheckRaises(e)
  PROVE  DockerInv'
<1>. USE DEF DockerInv
<1>1. PICK mine \in SUBSET Dockers :
        /\ late' = late \cup {f \in mine \ {e} : inspected[f] = "due"}
        /\ inspected' = [f \in Dockers |-> IF f \in mine THEN "none" ELSE inspected[f]]
  BY DEF CheckRaises
<1>2. /\ disturbed' = [disturbed EXCEPT !.raises = @ + 1]
      /\ UNCHANGED <<config, serverQueue, held, docker>>
  BY DEF CheckRaises
<1>3. disturbed \in [edits : Nat, moved : BOOLEAN, raises : Nat, first : [Servers -> Classes]]
  BY DEF DockerTypes
<1>4. /\ disturbed' \in [edits : Nat, moved : BOOLEAN, raises : Nat, first : [Servers -> Classes]]
      /\ disturbed'.raises = disturbed.raises + 1
  BY <1>2, <1>3
<1>5. ~Calm'
  BY <1>3, <1>4 DEF Calm
<1>6. DockerTypes'
  BY <1>1, <1>2, <1>4 DEF DockerTypes
<1>7. InspectionsAreOfListed' /\ Keepers \subseteq Keepers'
  BY <1>1, <1>2 DEF InspectionsAreOfListed, Keepers, In
<1>. QED BY <1>2, <1>5, <1>6, <1>7, NotCalmInv

\* A check that was left over ends.
LEMMA LateCheckInv ==
  ASSUME DockerInv, NEW e \in Dockers, LateCheck(e)
  PROVE  DockerInv'
<1>. USE DEF DockerInv
<1>1. /\ e \in late /\ late' \subseteq late
      /\ UNCHANGED <<config, inspected, disturbed>>
  BY DEF LateCheck
<1>2. ~Calm /\ ~Calm'
  BY <1>1 DEF Calm, ServersStayInClass
<1>3. CASE UNCHANGED <<held, serverQueue, docker>>
  <2>1. DockerTypes' /\ InspectionsAreOfListed' /\ Keepers' = Keepers
    BY <1>1, <1>3 DEF DockerTypes, InspectionsAreOfListed, Keepers, In
  <2>. QED BY <1>2, <1>3, <2>1, NotCalmInv
<1>4. CASE /\ ReleaseServer(e)
           /\ docker' = [docker EXCEPT ![e].phase = IF @ = "listed" THEN "exited" ELSE @]
  <2>1. docker[e].phase \in DockerPhases
    BY DEF DockerTypes, DockerRecords
  <2>2. PICK p \in DockerPhases : p = IF docker[e].phase = "listed" THEN "exited"
                                      ELSE docker[e].phase
    BY <2>1 DEF DockerPhases
  <2>3. docker' = [docker EXCEPT ![e].phase = p]
    BY <1>4, <2>2
  <2>4. /\ docker' \in [Dockers -> DockerRecords] /\ docker'[e].phase = p
        /\ \A f \in Dockers : /\ docker'[f].server = docker[f].server
                              /\ docker'[f].class = docker[f].class
                              /\ f # e => docker'[f] = docker[f]
    BY <2>3, PhaseChanges
  <2>5. InspectionsAreOfListed' /\ Keepers \subseteq Keepers'
    BY <1>1, <2>2, <2>4 DEF InspectionsAreOfListed, Keepers, In
  <2>6. held' \subseteq held
    BY <1>4 DEF ReleaseServer
  <2>7. serverQueue' \in [Classes -> Seq(Servers)]
    <3>1. serverQueue \in [Classes -> Seq(Servers)] /\ held \subseteq Servers
      BY DEF DockerTypes
    <3>2. CASE docker[e].server \notin held
      BY <1>4, <3>1, <3>2 DEF ReleaseServer
    <3>3. CASE docker[e].server \in held
      <4>1. PICK s \in Servers : s = docker[e].server
        BY <3>1, <3>3
      <4>2. PICK c : c = docker[e].class
        OBVIOUS
      <4>3. serverQueue' = [serverQueue EXCEPT ![c] = Append(@, s)]
        BY <1>4, <3>3, <4>1, <4>2 DEF ReleaseServer
      <4>4. \A d \in Classes : serverQueue'[d] = IF d = c THEN Append(serverQueue[d], s)
                                                 ELSE serverQueue[d]
        BY <3>1, <4>3
      <4>5. \A d \in Classes : serverQueue'[d] \in Seq(Servers)
        <5>1. \A q \in Seq(Servers) : Append(q, s) \in Seq(Servers)
          OBVIOUS
        <5>2. \A d \in Classes : serverQueue[d] \in Seq(Servers)
          BY <3>1
        <5>. QED BY <4>4, <5>1, <5>2
      <4>. QED BY <3>1, <4>3, <4>5
    <3>. QED BY <3>2, <3>3
  <2>8. \A f \in Dockers : docker'[f].phase \in {"starting", "listed", "exited"} =>
                             docker[f].phase \in {"starting", "listed", "exited"}
    BY <2>2, <2>4
  <2>9. DockerTypes'
    BY <1>1, <2>4, <2>6, <2>7, <2>8 DEF DockerTypes
  <2>. QED BY <1>2, <2>4, <2>5, <2>6, <2>9, NotCalmInv
<1>. QED BY <1>3, <1>4 DEF LateCheck

\* The configuration changes: without a move between classes, a server is left
\* out or gets the class back that it had.
LEMMA FetchConfigInv ==
  ASSUME DockerInv, FetchConfig
  PROVE  DockerInv'
<1>. USE DEF DockerInv
<1>1. PICK s \in Servers, c \in Classes \cup {Absent} :
        /\ config' = [config EXCEPT ![s] = c]
        /\ disturbed' = [disturbed EXCEPT !.edits = @ + 1,
                             !.moved = @ \/ c \notin {Absent, disturbed.first[s]}]
  BY DEF FetchConfig
<1>2. UNCHANGED <<serverQueue, held, docker, inspected, late>>
  BY DEF FetchConfig
<1>3. disturbed \in [edits : Nat, moved : BOOLEAN, raises : Nat, first : [Servers -> Classes]]
  BY DEF DockerTypes
<1>4. PICK m \in BOOLEAN : m = (disturbed.moved \/ c \notin {Absent, disturbed.first[s]})
  OBVIOUS
<1>5. disturbed' = [edits |-> disturbed.edits + 1, moved |-> m, raises |-> disturbed.raises,
                    first |-> disturbed.first]
  BY <1>1, <1>3, <1>4
<1>6. /\ disturbed' \in [edits : Nat, moved : BOOLEAN, raises : Nat, first : [Servers -> Classes]]
      /\ disturbed'.raises = disturbed.raises /\ disturbed'.first = disturbed.first
      /\ disturbed'.moved = m
  BY <1>3, <1>5
<1>7. config \in [Servers -> Classes \cup {Absent}]
  BY DEF DockerTypes
<1>8. DockerTypes'
  BY <1>1, <1>2, <1>6, <1>7 DEF DockerTypes
<1>9. Calm' => Calm /\ c \in {Absent, disturbed.first[s]}
  BY <1>4, <1>6 DEF Calm
<1>10. Keepers' = Keepers
  BY <1>2 DEF Keepers, In
<1>11. InspectionsAreOfListed' /\ HeldHaveKeepers' /\ ServersAreInOnePlace'
  BY <1>2, <1>9, <1>10 DEF InspectionsAreOfListed, HeldHaveKeepers, ServersAreInOnePlace
<1>12. ServersStayInClass'
  <2>1. Calm' => \A x \in Servers : config'[x] \in {Absent, disturbed'.first[x]}
    BY <1>1, <1>6, <1>7, <1>9 DEF ServersStayInClass
  <2>. QED BY <1>2, <1>6, <1>9, <1>10, <2>1 DEF ServersStayInClass
<1>. QED BY <1>8, <1>11, <1>12

\* Servers of a class in a row, each once and none reserved.
EachOnce(c, waiting) ==
  /\ \A i \in 1 .. Len(waiting) : waiting[i] \notin held /\ disturbed.first[waiting[i]] = c
  /\ \A i, j \in 1 .. Len(waiting) : waiting[i] = waiting[j] => i = j

\* A queue with newcomers at its end has every server once, none reserved.
LEMMA WaitingServers ==
  ASSUME DockerInv, Calm, NEW c \in Classes, NEW new \in SetToSeqs(Newcomers(c))
  PROVE  EachOnce(c, serverQueue[c] \o new)
<1>. USE DEF DockerInv
<1>0. PICK waiting : waiting = serverQueue[c] \o new
  OBVIOUS
<1> DEFINE q == serverQueue[c]
           n == Cardinality(Newcomers(c))
<1>1. Newcomers(c) \subseteq Servers /\ n \in Nat
  <2>1. Newcomers(c) \subseteq Servers
    BY DEF Newcomers, ServersOf
  <2>2. IsFiniteSet(Newcomers(c))
    BY <2>1, DockerConstants, FS_Subset
  <2>. QED BY <2>1, <2>2, FS_CardinalityType
<1>2. new \in [1 .. n -> Newcomers(c)] /\ \A i, j \in 1 .. n : i # j => new[i] # new[j]
  BY DEF SetToSeqs
<1>. HIDE DEF n
<1>3. new \in Seq(Servers) /\ Len(new) = n /\ \A i \in 1 .. n : new[i] \in Newcomers(c)
  <2>1. new \in [1 .. n -> Servers]
    BY <1>1, <1>2
  <2>. QED BY <1>1, <1>2, <2>1
<1>4. q \in Seq(Servers) /\ Len(q) \in Nat
  BY DEF DockerTypes
<1>5. \A x \in Newcomers(c) : /\ x \notin held /\ disturbed.first[x] = c
                              /\ \A i \in 1 .. Len(q) : q[i] # x
  <2>. SUFFICES ASSUME NEW x \in Newcomers(c)
       PROVE  x \notin held /\ disturbed.first[x] = c /\ \A i \in 1 .. Len(q) : q[i] # x
    OBVIOUS
  <2>1. x \in Servers /\ config[x] = c /\ x \notin held /\ x \notin ToSet(q)
    BY DEF Newcomers, ServersOf
  <2>2. disturbed.first[x] = c
    BY <2>1, DockerConstants DEF ServersStayInClass
  <2>3. \A i \in 1 .. Len(q) : q[i] \in ToSet(q)
    BY <1>4 DEF ToSet
  <2>. QED BY <2>1, <2>2, <2>3
<1>6. \A i \in 1 .. Len(q) : q[i] \notin held /\ disturbed.first[q[i]] = c
  BY DEF ServersStayInClass, ServersAreInOnePlace
<1>7. \A i, j \in 1 .. Len(q) : q[i] = q[j] => i = j
  BY DEF ServersAreInOnePlace
<1>. HIDE DEF q
<1>8. /\ waiting \in Seq(Servers) /\ Len(waiting) = Len(q) + n
      /\ \A i \in 1 .. Len(q) : waiting[i] = q[i]
      /\ \A i \in 1 .. Len(waiting) : i > Len(q) => waiting[i] = new[i - Len(q)]
  <2>1. PICK t \in Seq(Servers) : t = q
    BY <1>4
  <2>2. waiting = t \o new
    BY <1>0, <2>1 DEF q
  <2>3. /\ t \o new \in Seq(Servers) /\ Len(t \o new) = Len(t) + Len(new)
        /\ \A i \in 1 .. Len(t) + Len(new) :
             (t \o new)[i] = IF i <= Len(t) THEN t[i] ELSE new[i - Len(t)]
    BY <1>3, ConcatProperties
  <2>4. \A i \in 1 .. Len(t) : i \in 1 .. Len(t) + Len(new) /\ i <= Len(t)
    BY <1>1, <1>3, <1>4, <2>1
  <2>5. \A i \in 1 .. Len(t) + Len(new) : i > Len(t) => ~(i <= Len(t))
    BY <1>4, <2>1
  <2>. QED BY <1>3, <2>1, <2>2, <2>3, <2>4, <2>5
<1>9. \A i \in 1 .. Len(waiting) : i \in 1 .. Len(q) \/ (i > Len(q) /\ i - Len(q) \in 1 .. n)
  BY <1>1, <1>4, <1>8
<1>10. \A i \in 1 .. Len(waiting) : waiting[i] \notin held /\ disturbed.first[waiting[i]] = c
  BY <1>3, <1>5, <1>6, <1>8, <1>9, SMTT(60)
<1>11. ASSUME NEW i \in 1 .. Len(waiting), NEW j \in 1 .. Len(waiting), waiting[i] = waiting[j]
       PROVE  i = j
  <2>1. CASE i \in 1 .. Len(q) /\ j \in 1 .. Len(q)
    BY <1>7, <1>8, <1>11, <2>1
  <2>2. CASE i \in 1 .. Len(q) /\ j > Len(q) /\ j - Len(q) \in 1 .. n
    BY <1>3, <1>5, <1>8, <1>11, <2>2
  <2>3. CASE j \in 1 .. Len(q) /\ i > Len(q) /\ i - Len(q) \in 1 .. n
    BY <1>3, <1>5, <1>8, <1>11, <2>3
  <2>4. CASE /\ i > Len(q) /\ i - Len(q) \in 1 .. n
             /\ j > Len(q) /\ j - Len(q) \in 1 .. n
    <3>1. new[i - Len(q)] = new[j - Len(q)]
      BY <1>8, <1>11, <2>4
    <3>2. i - Len(q) = j - Len(q)
      BY <1>2, <2>4, <3>1
    <3>. QED BY <1>4, <1>8, <3>2
  <2>. QED BY <1>9, <2>1, <2>2, <2>3, <2>4
<1>12. EachOnce(c, waiting)
  BY <1>10, <1>11 DEF EachOnce
<1>. QED BY <1>0, <1>12

\* An executor reserves a server, or finds none.
LEMMA ReserveServerInv ==
  ASSUME DockerInv, NEW e \in Dockers, NEW c \in Classes, ReserveServer(e, c)
  PROVE  DockerInv'
<1>0. Calm => \A new \in SetToSeqs(Newcomers(c)) : EachOnce(c, serverQueue[c] \o new)
  BY WaitingServers
<1>. USE DEF DockerInv
<1>1. PICK new \in SetToSeqs(Newcomers(c)) :
        LET waiting == serverQueue[c] \o new
            usable == {i \in DOMAIN waiting : config[waiting[i]] = c}
        IN  /\ docker[e].phase = "idle"
            /\ IF usable = {}
               THEN /\ serverQueue' = [serverQueue EXCEPT ![c] = <<>>]
                    /\ docker' = [docker EXCEPT ![e].phase = "dropped"]
                    /\ held' = held
               ELSE \E i \in usable :
                    /\ serverQueue' = [serverQueue EXCEPT ![c] = SubSeq(waiting, i + 1, Len(waiting))]
                    /\ docker' = [docker EXCEPT ![e] =
                           [phase |-> "starting", server |-> waiting[i], class |-> c]]
                    /\ held' = held \cup {waiting[i]}
            /\ UNCHANGED <<config, inspected, late, disturbed>>
  BY DEF ReserveServer
<1>2. PICK waiting : waiting = serverQueue[c] \o new
  OBVIOUS
<1>3. docker[e].phase = "idle" /\ UNCHANGED <<config, inspected, late, disturbed>>
  BY <1>1
<1>4. \/ /\ serverQueue' = [serverQueue EXCEPT ![c] = <<>>]
         /\ docker' = [docker EXCEPT ![e].phase = "dropped"]
         /\ held' = held
      \/ \E i \in DOMAIN waiting :
         /\ serverQueue' = [serverQueue EXCEPT ![c] = SubSeq(waiting, i + 1, Len(waiting))]
         /\ docker' = [docker EXCEPT ![e] =
                [phase |-> "starting", server |-> waiting[i], class |-> c]]
         /\ held' = held \cup {waiting[i]}
  BY <1>1, <1>2
<1>5. inspected[e] = "none" /\ e \notin Keepers
  BY <1>3 DEF InspectionsAreOfListed, Keepers, In
<1>6. /\ serverQueue \in [Classes -> Seq(Servers)] /\ docker \in [Dockers -> DockerRecords]
      /\ \A f \in Keepers : f \in Dockers
  BY DEF DockerTypes, Keepers, In
<1>7. CASE /\ serverQueue' = [serverQueue EXCEPT ![c] = <<>>]
           /\ docker' = [docker EXCEPT ![e].phase = "dropped"]
           /\ held' = held
  <2>1. PICK p \in DockerPhases : p = "dropped"
    BY DEF DockerPhases
  <2>2. docker' = [docker EXCEPT ![e].phase = p]
    BY <1>7, <2>1
  <2>3. /\ docker' \in [Dockers -> DockerRecords] /\ docker'[e].phase = p
        /\ \A f \in Dockers : /\ docker'[f].server = docker[f].server
                              /\ docker'[f].class = docker[f].class
                              /\ f # e => docker'[f] = docker[f]
    BY <2>2, PhaseChanges
  <2>4. /\ serverQueue' \in [Classes -> Seq(Servers)] /\ 1 .. Len(serverQueue'[c]) = {}
        /\ \A d \in Classes : d # c => serverQueue'[d] = serverQueue[d]
    BY <1>6, <1>7
  <2>5. Keepers' = Keepers /\ InspectionsAreOfListed'
    BY <1>3, <1>5, <2>1, <2>3 DEF Keepers, In, InspectionsAreOfListed
  <2>6. DockerTypes'
    BY <1>3, <1>7, <2>1, <2>3, <2>4 DEF DockerTypes
  <2>7. HeldHaveKeepers'
    BY <1>6, <1>7, <2>3, <2>5 DEF HeldHaveKeepers
  <2>8. Calm' <=> Calm
    BY <1>3 DEF Calm
  <2>9. ServersStayInClass' /\ ServersAreInOnePlace'
    <3>1. ASSUME Calm, NEW d \in Classes, NEW i \in 1 .. Len(serverQueue'[d])
          PROVE  serverQueue'[d] = serverQueue[d] /\ i \in 1 .. Len(serverQueue[d])
      BY <2>4
    <3>2. ServersStayInClass'
      <4>. SUFFICES ASSUME Calm
           PROVE  /\ late = {} /\ \A x \in Servers : config[x] \in {Absent, disturbed.first[x]}
                  /\ \A d \in Classes : \A i \in 1 .. Len(serverQueue'[d]) :
                       disturbed.first[serverQueue'[d][i]] = d
                  /\ \A f \in Keepers : disturbed.first[docker'[f].server] = docker'[f].class
        BY <1>3, <2>5, <2>8 DEF ServersStayInClass
      <4>1. \A d \in Classes : \A i \in 1 .. Len(serverQueue'[d]) :
              disturbed.first[serverQueue'[d][i]] = d
        BY <3>1 DEF ServersStayInClass
      <4>2. \A f \in Keepers : disturbed.first[docker'[f].server] = docker'[f].class
        BY <1>6, <2>3 DEF ServersStayInClass
      <4>. QED BY <4>1, <4>2 DEF ServersStayInClass
    <3>3. ServersAreInOnePlace'
      BY <1>3, <1>6, <1>7, <2>3, <2>5, <2>8, <3>1 DEF ServersAreInOnePlace
    <3>. QED BY <3>2, <3>3
  <2>. QED BY <2>5, <2>6, <2>7, <2>9
<1>8. ASSUME NEW i \in DOMAIN waiting,
             serverQueue' = [serverQueue EXCEPT ![c] = SubSeq(waiting, i + 1, Len(waiting))],
             docker' = [docker EXCEPT ![e] =
               [phase |-> "starting", server |-> waiting[i], class |-> c]],
             held' = held \cup {waiting[i]}
      PROVE  DockerInv'
  <2>1. waiting \in Seq(Servers) /\ Len(waiting) \in Nat /\ i \in 1 .. Len(waiting)
    <3>1. new \in Seq(Servers)
      <4>1. IsFiniteSet(Newcomers(c)) /\ Newcomers(c) \subseteq Servers
        BY DockerConstants, FS_Subset DEF Newcomers, ServersOf
      <4>2. Cardinality(Newcomers(c)) \in Nat
        BY <4>1, FS_CardinalityType
      <4>3. new \in [1 .. Cardinality(Newcomers(c)) -> Newcomers(c)]
        BY DEF SetToSeqs
      <4>4. new \in [1 .. Cardinality(Newcomers(c)) -> Servers]
        BY <4>1, <4>3
      <4>. QED BY <4>2, <4>4
    <3>2. waiting \in Seq(Servers)
      BY <1>2, <1>6, <3>1
    <3>. QED BY <1>8, <3>2
  <2>2. PICK s \in Servers : s = waiting[i]
    BY <2>1
  <2>3. PICK r : r = [phase |-> "starting", server |-> s, class |-> c]
    OBVIOUS
  <2>4. r \in DockerRecords /\ r.phase = "starting" /\ r.server = s /\ r.class = c
    BY <2>3 DEF DockerRecords, DockerPhases
  <2>5. docker' = [docker EXCEPT ![e] = r] /\ held' = held \cup {s}
    BY <1>8, <2>2, <2>3
  <2>6. /\ docker' \in [Dockers -> DockerRecords] /\ docker'[e] = r
        /\ \A f \in Dockers : f # e => docker'[f] = docker[f]
    BY <1>6, <2>4, <2>5
  <2>. PICK q : q = SubSeq(waiting, i + 1, Len(waiting))
    OBVIOUS
  <2>7. q \in Seq(Servers) /\ Len(q) = Len(waiting) - i
        /\ \A k \in 1 .. Len(waiting) - i : q[k] = waiting[i + k]
    <3>1. i + 1 \in Int /\ Len(waiting) \in Int /\ \A k \in i + 1 .. Len(waiting) : waiting[k] \in Servers
      BY <2>1
    <3>2. /\ q \in Seq(Servers)
          /\ Len(q) = IF i + 1 <= Len(waiting) THEN Len(waiting) - (i + 1) + 1 ELSE 0
          /\ \A k \in 1 .. Len(waiting) - (i + 1) + 1 : q[k] = waiting[i + 1 + k - 1]
      BY <3>1, SubSeqProperties, SMTT(60)
    <3>3. (IF i + 1 <= Len(waiting) THEN Len(waiting) - (i + 1) + 1 ELSE 0) = Len(waiting) - i
      BY <2>1
    <3>4. \A k \in 1 .. Len(waiting) - i : k \in 1 .. Len(waiting) - (i + 1) + 1 /\ i + 1 + k - 1 = i + k
      BY <2>1
    <3>. QED BY <3>2, <3>3, <3>4
  <2>8. \A k \in 1 .. Len(q) : /\ k \in 1 .. Len(waiting) - i
                               /\ i + k \in 1 .. Len(waiting) /\ i + k # i
    BY <2>1, <2>7, SMTT(60)
  <2>9. /\ serverQueue' \in [Classes -> Seq(Servers)] /\ serverQueue'[c] = q
        /\ \A d \in Classes : d # c => serverQueue'[d] = serverQueue[d]
    BY <1>6, <1>8, <2>7
  <2>10. Keepers' = Keepers \cup {e} /\ InspectionsAreOfListed'
    BY <1>3, <1>5, <2>4, <2>6 DEF Keepers, In, InspectionsAreOfListed
  <2>11. DockerTypes'
    BY <1>3, <2>2, <2>4, <2>5, <2>6, <2>9 DEF DockerTypes
  <2>12. \A f \in Keepers : f # e /\ docker'[f] = docker[f]
    BY <1>5, <1>6, <2>6
  <2>13. HeldHaveKeepers'
    <3>. SUFFICES ASSUME NEW x \in held \cup {s} PROVE \E f \in Keepers' : docker'[f].server = x
      BY <2>5 DEF HeldHaveKeepers
    <3>1. CASE x = s
      BY <2>4, <2>6, <2>10, <3>1
    <3>2. CASE x \in held
      <4>1. PICK f \in Keepers : docker[f].server = x
        BY <3>2 DEF HeldHaveKeepers
      <4>. QED BY <2>10, <2>12, <4>1
    <3>. QED BY <3>1, <3>2
  <2>14. ASSUME Calm PROVE ServersStayInClass' /\ ServersAreInOnePlace'
    <3>1. /\ \A k \in 1 .. Len(waiting) : waiting[k] \notin held /\ disturbed.first[waiting[k]] = c
          /\ \A j, k \in 1 .. Len(waiting) : waiting[j] = waiting[k] => j = k
      <4>1. EachOnce(c, serverQueue[c] \o new)
        BY <1>0, <2>14
      <4>2. EachOnce(c, waiting)
        BY <1>2, <4>1
      <4>. QED BY <4>2 DEF EachOnce
    <3>2. s \notin held /\ disturbed.first[s] = c
      BY <2>1, <2>2, <3>1
    <3>3. \A k \in 1 .. Len(q) : q[k] \notin held /\ q[k] # s /\ disturbed.first[q[k]] = c
      <4>. SUFFICES ASSUME NEW k \in 1 .. Len(q)
           PROVE  q[k] \notin held /\ q[k] # s /\ disturbed.first[q[k]] = c
        OBVIOUS
      <4>1. PICK j \in 1 .. Len(waiting) : j = i + k /\ j # i
        BY <2>8
      <4>2. q[k] = waiting[j]
        BY <2>7, <2>8, <4>1
      <4>. QED BY <2>1, <2>2, <3>1, <4>1, <4>2
    <3>4. \A j, k \in 1 .. Len(q) : q[j] = q[k] => j = k
      <4>. SUFFICES ASSUME NEW j \in 1 .. Len(q), NEW k \in 1 .. Len(q), q[j] = q[k] PROVE j = k
        OBVIOUS
      <4>1. i + j = i + k
        <5>1. PICK m \in 1 .. Len(waiting), n \in 1 .. Len(waiting) : m = i + j /\ n = i + k
          BY <2>8
        <5>2. waiting[m] = waiting[n]
          BY <2>7, <2>8, <5>1
        <5>. QED BY <3>1, <5>1, <5>2
      <4>. QED BY <2>1, <2>8, <4>1
    <3>5. ASSUME NEW d \in Classes, NEW k \in 1 .. Len(serverQueue'[d])
          PROVE  disturbed.first[serverQueue'[d][k]] = d /\ serverQueue'[d][k] \notin held'
      <4>1. CASE d = c
        BY <2>5, <2>9, <3>3, <4>1
      <4>2. CASE d # c
        <5>1. serverQueue'[d] = serverQueue[d] /\ k \in 1 .. Len(serverQueue[d])
          BY <2>9, <4>2
        <5>2. serverQueue[d][k] \notin held /\ disturbed.first[serverQueue[d][k]] = d
          BY <2>14, <5>1 DEF ServersStayInClass, ServersAreInOnePlace
        <5>. QED BY <2>5, <3>2, <4>2, <5>1, <5>2
      <4>. QED BY <4>1, <4>2
    <3>6. ASSUME NEW d \in Classes, NEW j \in 1 .. Len(serverQueue'[d]),
                 NEW k \in 1 .. Len(serverQueue'[d]), serverQueue'[d][j] = serverQueue'[d][k]
          PROVE  j = k
      <4>1. CASE d = c
        BY <2>9, <3>4, <3>6, <4>1
      <4>2. CASE d # c
        BY <2>9, <2>14, <3>6, <4>2 DEF ServersAreInOnePlace
      <4>. QED BY <4>1, <4>2
    <3>7. ServersStayInClass'
      <4>1. late' = {} /\ \A x \in Servers : config'[x] \in {Absent, disturbed'.first[x]}
        BY <1>3, <2>14 DEF ServersStayInClass
      <4>2. \A f \in Keepers' : disturbed'.first[docker'[f].server] = docker'[f].class
        <5>1. \A f \in Keepers : disturbed.first[docker[f].server] = docker[f].class
          BY <2>14 DEF ServersStayInClass
        <5>. QED BY <1>3, <2>4, <2>6, <2>10, <2>12, <3>2, <5>1
      <4>. QED BY <1>3, <3>5, <4>1, <4>2 DEF ServersStayInClass
    <3>8. \A f \in Keepers : docker[f].server \in held /\ docker[f].server # s
      BY <2>14, <3>2 DEF ServersAreInOnePlace
    <3>9. \A f \in Keepers' : docker'[f].server \in held'
      BY <2>4, <2>5, <2>6, <2>10, <2>12, <3>8
    <3>10. \A f, g \in Keepers' : docker'[f].server = docker'[g].server => f = g
      <4>1. \A f, g \in Keepers : docker[f].server = docker[g].server => f = g
        BY <2>14 DEF ServersAreInOnePlace
      <4>. QED BY <2>4, <2>6, <2>10, <2>12, <3>8, <4>1
    <3>11. ServersAreInOnePlace'
      BY <3>5, <3>6, <3>9, <3>10 DEF ServersAreInOnePlace
    <3>. QED BY <3>7, <3>11
  <2>15. ServersStayInClass' /\ ServersAreInOnePlace'
    BY <1>3, <2>14 DEF ServersStayInClass, ServersAreInOnePlace, Calm
  <2>. QED BY <2>10, <2>11, <2>13, <2>15
<1>. QED BY <1>4, <1>7, <1>8

\* Every step keeps the invariant.
LEMMA DockerStep == DockerInv /\ [DockerNext]_dockerVars => DockerInv'
<1>. SUFFICES ASSUME DockerInv, [DockerNext]_dockerVars PROVE DockerInv'
  OBVIOUS
<1>1. CASE UNCHANGED dockerVars \/ SyncPools
  <2>1. UNCHANGED <<config, serverQueue, held, docker, inspected, late, disturbed>>
    BY <1>1 DEF dockerVars, SyncPools
  <2>. QED BY <2>1 DEF DockerInv, DockerTypes, InspectionsAreOfListed, HeldHaveKeepers, Keepers, In,
          ServersStayInClass, ServersAreInOnePlace, Calm
<1>2. CASE DockerNext /\ ~SyncPools
  BY <1>2, FetchConfigInv, LookInv, EndInspectionInv, ReserveServerInv, PhaseOnlyInv, ReleaseInv,
     CheckRaisesInv, LateCheckInv DEF DockerNext
<1>. QED BY <1>1, <1>2

\* However the configuration changes and whichever check raises, a reserved
\* server has an executor that will give it back, and two executors share a
\* server only after one was moved between classes or a check raised
\* (ServerManager.reserve_server and release_server under the pool's cleanup).
THEOREM ServersAlwaysAccountedFor == DockerSpec => []ServersAreAccountedFor
<1>1. DockerInv => ServersAreAccountedFor
  <2>. SUFFICES ASSUME DockerInv PROVE ServersAreAccountedFor
    OBVIOUS
  <2>1. NoServerIsLost
    <3>1. \A e \in Keepers : e \in In({"starting", "listed", "exited"})
      BY DEF Keepers
    <3>. QED BY <3>1 DEF DockerInv, HeldHaveKeepers, NoServerIsLost
  <2>2. OneExecutorPerServer
    <3>1. \A e \in In({"starting", "listed"}) : e \in Keepers
      BY DEF DockerInv, InspectionsAreOfListed, Keepers, In
    <3>. QED BY <3>1 DEF DockerInv, ServersAreInOnePlace, Calm, OneExecutorPerServer
  <2>. QED BY <2>1, <2>2 DEF ServersAreAccountedFor
<1>. QED BY <1>1, InitDockerInv, DockerStep, PTL DEF DockerSpec
=============================================================================
