---------------------------- MODULE DockerServers ----------------------------
(***************************************************************************)
(* The Docker executor manager of a miner: which server an executor is     *)
(* started on.  ServerManager keeps a queue of free servers per executor   *)
(* class and one set of reserved servers, while the configuration file     *)
(* changes underneath; DockerExecutorManager reserves a server before it   *)
(* starts a container and releases it when a check of the pool's cleanup   *)
(* sees the container gone or kills it.  The pool drops the executor only  *)
(* when every check of that cleanup has returned: a check that raises      *)
(* leaves the others to run on, with nobody waiting for them.              *)
(***************************************************************************)
EXTENDS Integers, FiniteSets, FiniteSetsExt, Sequences, SequencesExt

CONSTANTS
    Servers, Classes,
    Dockers,        \* executors, numbered as start_new_executor is called
    Absent,         \* the class of a server that is not in the configuration
    MaxReconfigurations, MaxRaises

ASSUME DockerConstants ==
    /\ Absent \notin Classes /\ Classes # {} /\ Servers # {} /\ IsFiniteSet(Servers)
    /\ Dockers \subseteq Nat /\ MaxReconfigurations \in Nat /\ MaxRaises \in Nat

VARIABLES
    config,     \* _cached_config: class of each server
    slots,      \* per class, _count of its ExecutorClassPool
    serverQueue,      \* _server_queue
    held,       \* _reserved_servers
    docker,     \* per executor, where it is, its server and that server's class
    inspected,  \* per executor, the outcome of its check in the running cleanup
    late,       \* executors with a check left over from a cleanup that raised
    disturbed   \* how often the file was edited and a check raised, the class each
                \* server had at first, and whether one was ever of another class

dockerVars == <<config, slots, serverQueue, held, docker, inspected, late, disturbed>>

ServersOf(c) == {s \in Servers : config[s] = c}
In(phases) == {e \in Dockers : docker[e].phase \in phases}
Listed(c) == {e \in In({"listed", "exited"}) : docker[e].class = c}
NotStarted == [phase |-> "idle", server |-> Absent, class |-> Absent]

-----------------------------------------------------------------------------
(* ServerManager *)

\* Mutant of Newcomers: reserved servers are not left out.
NewcomersReserved(c) == ServersOf(c) \ ToSet(serverQueue[c])

\* reserve_server: the servers of the class that its queue does not know yet and
\* that are not reserved go to the end of the queue, in the file's order.
Newcomers(c) == ServersOf(c) \ (ToSet(serverQueue[c]) \cup held)

\* release_server, with the class the server had when it was reserved.
ReleaseServer(e) ==
    LET s == docker[e].server IN
    IF s \in held
    THEN /\ held' = held \ {s}
         /\ serverQueue' = [serverQueue EXCEPT ![docker[e].class] = Append(@, s)]
    ELSE UNCHANGED <<held, serverQueue>>

\* The file was edited and the cache of fetch_config is five minutes old.
FetchConfig ==
    \E s \in Servers, c \in Classes \cup {Absent} :
        /\ c # config[s]
        /\ disturbed.edits < MaxReconfigurations
        /\ config' = [config EXCEPT ![s] = c]
        /\ disturbed' = [disturbed EXCEPT !.edits = @ + 1,
                             !.moved = @ \/ c \notin {Absent, disturbed.first[s]}]
        /\ UNCHANGED <<slots, serverQueue, held, docker, inspected, late>>

\* get_manifest and _sync_pools_with_manifest: a class that is gone keeps its
\* pool and its count.
SyncPools ==
    /\ slots' = [c \in Classes |-> IF ServersOf(c) = {} THEN slots[c]
                                   ELSE Cardinality(ServersOf(c))]
    /\ slots' # slots
    /\ UNCHANGED <<config, serverQueue, held, docker, inspected, late, disturbed>>

-----------------------------------------------------------------------------
(* start_new_executor *)

\* The pool's reservation lock lets one executor of a class start at a time.
\* reserve_server takes the first queued server that is still configured for
\* the class and forgets those before it; with none left the start fails.
ReserveServer(e, c) ==
    \E new \in SetToSeqs(Newcomers(c)) :
    LET waiting == serverQueue[c] \o new
        usable == {i \in DOMAIN waiting : config[waiting[i]] = c}
    IN  /\ docker[e].phase = "idle" /\ \A f \in In({"idle"}) : e <= f
        /\ \A f \in In({"starting"}) : docker[f].class # c
        /\ Cardinality(Listed(c)) < slots[c]
        /\ IF usable = {}
           THEN /\ serverQueue' = [serverQueue EXCEPT ![c] = <<>>]
                /\ docker' = [docker EXCEPT ![e].phase = "dropped"]
                /\ held' = held
           ELSE \E i \in usable :
                /\ \A j \in usable : i <= j
                /\ serverQueue' = [serverQueue EXCEPT ![c] = SubSeq(waiting, i + 1, Len(waiting))]
                /\ docker' = [docker EXCEPT ![e] =
                       [phase |-> "starting", server |-> waiting[i], class |-> c]]
                /\ held' = held \cup {waiting[i]}
        /\ UNCHANGED <<config, slots, inspected, late, disturbed>>

StartContainer(e) ==
    /\ docker[e].phase = "starting"
    /\ docker' = [docker EXCEPT ![e].phase = "listed"]
    /\ UNCHANGED <<config, slots, serverQueue, held, inspected, late, disturbed>>

\* The tunnel, the pull or the container failed, or the start was cancelled.
StartFails(e) ==
    /\ docker[e].phase = "starting"
    /\ docker' = [docker EXCEPT ![e].phase = "dropped"]
    /\ ReleaseServer(e)
    /\ UNCHANGED <<config, slots, inspected, late, disturbed>>

ContainerGone(e) ==
    /\ docker[e].phase = "listed"
    /\ docker' = [docker EXCEPT ![e].phase = "exited"]
    /\ UNCHANGED <<config, slots, serverQueue, held, inspected, late, disturbed>>

-----------------------------------------------------------------------------
(* The pool's cleanup and its calls of wait_for_executor and kill_executor *)

\* The cleanup of a class starts a check of every executor in its list.
BeginInspection(c) ==
    /\ Listed(c) # {}
    /\ \A e \in Dockers : docker[e].class = c => inspected[e] = "none"
    /\ inspected' = [e \in Dockers |-> IF e \in Listed(c) THEN "due" ELSE inspected[e]]
    /\ UNCHANGED <<config, slots, serverQueue, held, docker, late, disturbed>>

\* wait_for_executor sees that the container exited or is gone, or the executor
\* is too old and kill_executor stops it: the server is released.
SeeGone(e) ==
    /\ inspected[e] = "due"
    /\ docker[e].phase \in {"listed", "exited"}
    /\ ReleaseServer(e)
    /\ docker' = [docker EXCEPT ![e].phase = "exited"]
    /\ inspected' = [inspected EXCEPT ![e] = "drop"]
    /\ UNCHANGED <<config, slots, late, disturbed>>

SeeRunning(e) ==
    /\ inspected[e] = "due"
    /\ docker[e].phase = "listed"
    /\ inspected' = [inspected EXCEPT ![e] = "keep"]
    /\ UNCHANGED <<config, slots, serverQueue, held, docker, late, disturbed>>

\* The SSH tunnel or the Docker API fails: gather raises at once, nothing is
\* dropped, and the checks that have not returned run on.
CheckRaises(e) ==
    LET c == docker[e].class
        mine == {f \in Dockers : docker[f].class = c}
    IN  /\ inspected[e] = "due"
        /\ disturbed.raises < MaxRaises
        /\ disturbed' = [disturbed EXCEPT !.raises = @ + 1]
        /\ late' = late \cup {f \in mine \ {e} : inspected[f] = "due"}
        /\ inspected' = [f \in Dockers |-> IF f \in mine THEN "none" ELSE inspected[f]]
        /\ UNCHANGED <<config, slots, serverQueue, held, docker>>

\* A leftover check ends: it leaves a running container alone, or it releases
\* the server of one that is gone or that it kills, whoever has reserved the
\* server since.
LateCheck(e) ==
    /\ e \in late
    /\ late' = late \ {e}
    /\ \/ /\ docker[e].phase = "listed"
          /\ UNCHANGED <<held, serverQueue, docker>>
       \/ /\ ReleaseServer(e)
          /\ docker' = [docker EXCEPT ![e].phase = IF @ = "listed" THEN "exited" ELSE @]
    /\ UNCHANGED <<config, slots, inspected, disturbed>>

\* Every check returned: what was seen gone leaves the list.
EndInspection(c) ==
    LET mine == {e \in Dockers : docker[e].class = c /\ inspected[e] # "none"}
    IN  /\ mine # {} /\ \A e \in mine : inspected[e] # "due"
        /\ docker' = [e \in Dockers |-> IF e \in mine /\ inspected[e] = "drop"
                                        THEN [docker[e] EXCEPT !.phase = "dropped"]
                                        ELSE docker[e]]
        /\ inspected' = [e \in Dockers |-> IF e \in mine THEN "none" ELSE inspected[e]]
        /\ UNCHANGED <<config, slots, serverQueue, held, late, disturbed>>

-----------------------------------------------------------------------------
DockerInit ==
    /\ config \in [Servers -> Classes]
    /\ slots = [c \in Classes |-> 0]
    /\ serverQueue = [c \in Classes |-> <<>>]
    /\ held = {} /\ late = {}
    /\ docker = [e \in Dockers |-> NotStarted]
    /\ inspected = [e \in Dockers |-> "none"]
    /\ disturbed = [edits |-> 0, moved |-> FALSE, raises |-> 0, first |-> config]

DockerNext ==
    \/ FetchConfig \/ SyncPools
    \/ \E c \in Classes : BeginInspection(c) \/ EndInspection(c)
                          \/ \E e \in Dockers : ReserveServer(e, c)
    \/ \E e \in Dockers : \/ StartContainer(e) \/ StartFails(e) \/ ContainerGone(e)
                          \/ SeeGone(e) \/ SeeRunning(e) \/ CheckRaises(e) \/ LateCheck(e)

DockerSpec == DockerInit /\ [][DockerNext]_dockerVars

-----------------------------------------------------------------------------
(* Properties *)

\* Two executors never share a server, as long as no server was moved from one
\* class to another, at once or by way of being left out for a while, and no
\* check raised: the queues may lose and gain servers while some of them are
\* reserved, and starts fail or are cancelled.
OneExecutorPerServer ==
    ~disturbed.moved /\ disturbed.raises = 0 =>
        \A e, f \in In({"starting", "listed"}) :
            e # f => docker[e].server # docker[f].server

\* A reserved server belongs to an executor that is being started or that a
\* later cleanup will look at: however the configuration changes and whichever
\* check raises, no server stays reserved with nobody left to release it.
NoServerIsLost ==
    held \subseteq {docker[e].server : e \in In({"starting", "listed", "exited"})}

\* Servers that leave and enter the queues while the configuration changes
\* under reservations: two executors never share one, unless it was moved
\* between classes or a check raised, and none stays reserved with nobody left
\* to release it.
ServersAreAccountedFor ==
    /\ OneExecutorPerServer
    /\ NoServerIsLost

=============================================================================
