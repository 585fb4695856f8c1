-------------------------- MODULE FacilitatorUpkeep --------------------------
(***************************************************************************)
(* How the facilitator knows which validator it can reach: the consumer of *)
(* a validator's WebSocket keeps a Channel row (core/consumers.py), the    *)
(* periodic task sync_validators deactivates validators that left the      *)
(* metagraph, drops channels whose heartbeats stopped (core/tasks.py), and *)
(* a new job takes a channel with a recent heartbeat (core/models.py).     *)
(* One validator; its connections come and go while the task runs.  Every  *)
(* query of the task is a step of its own: there is no transaction.        *)
(***************************************************************************)
EXTENDS Integers, FiniteSets

CONSTANTS Visits,   \* connections of the validator
          MaxTurns  \* bound: changes of the metagraph

ASSUME FacilitatorAssumption == MaxTurns \in Nat

VARIABLES
  staked,    \* the metagraph lists the validator
  turns,
  isActive,  \* Validator.is_active
  visit,     \* connection -> "none", "checked", "authenticated" or "closed"
  row,       \* connection -> its Channel: "none", or the age of last_heartbeat
  told,      \* connections with a ForceDisconnect in their channel
  sync,      \* sync_validators: its place, and the lists it works with
  crossed,   \* channels that grew too old after the task had looked for such
  unseen     \* connections that had passed is_active before it was cleared

facilitatorVars == <<staked, turns, isActive, visit, row, told, sync, crossed, unseen>>

Resting == [at |-> "idle", listed |-> FALSE, off |-> FALSE]

FacilitatorInit ==
  /\ staked = TRUE /\ turns = 0 /\ isActive = TRUE
  /\ visit = [c \in Visits |-> "none"] /\ row = [c \in Visits |-> "none"]
  /\ told = {} /\ sync = Resting /\ crossed = {} /\ unseen = {}

MetagraphChanges ==
  /\ turns < MaxTurns /\ turns' = turns + 1 /\ staked' = ~staked
  /\ UNCHANGED <<isActive, visit, row, told, sync, crossed, unseen>>

(***************************************************************************)
(* ValidatorConsumer.                                                      *)
(***************************************************************************)
\* authenticate, as far as the query for an active validator
CheckValidator(c) ==
  /\ visit[c] = "none"
  /\ visit' = [visit EXCEPT ![c] = IF isActive THEN "checked" ELSE "closed"]
  /\ UNCHANGED <<staked, turns, isActive, row, told, sync, crossed, unseen>>

\* connect_channel_to_validator
ConnectChannel(c) ==
  /\ visit[c] = "checked"
  /\ visit' = [visit EXCEPT ![c] = "authenticated"] /\ row' = [row EXCEPT ![c] = "fresh"]
  /\ UNCHANGED <<staked, turns, isActive, told, sync, crossed, unseen>>

\* heartbeat: an UPDATE, which finds no row if it was deleted
Heartbeat(c) ==
  /\ visit[c] = "authenticated" /\ row[c] \in {"late", "dead"}
  /\ row' = [row EXCEPT ![c] = "fresh"] /\ crossed' = crossed \ {c}
  /\ UNCHANGED <<staked, turns, isActive, visit, told, sync, unseen>>

\* Three minutes without one: no jobs.  Ten: the channel is dropped.
HeartbeatsLate(c) ==
  /\ row[c] \in {"fresh", "late"}
  /\ row' = [row EXCEPT ![c] = IF @ = "fresh" THEN "late" ELSE "dead"]
  /\ crossed' = IF row[c] = "late" /\ sync.at = "drop" THEN crossed \cup {c} ELSE crossed
  /\ UNCHANGED <<staked, turns, isActive, visit, told, sync, unseen>>

\* disconnect, after the socket broke or for validator_disconnect
Disconnected(c) ==
  /\ visit[c] \in {"checked", "authenticated"}
  /\ visit' = [visit EXCEPT ![c] = "closed"] /\ row' = [row EXCEPT ![c] = "none"]
  /\ told' = told \ {c}
  /\ UNCHANGED <<staked, turns, isActive, sync, crossed, unseen>>

(***************************************************************************)
(* sync_validators, one query after another.                               *)
(***************************************************************************)
StartSync ==
  /\ sync = Resting /\ sync' = [at |-> "deactivate", listed |-> staked, off |-> FALSE]
  /\ UNCHANGED <<staked, turns, isActive, visit, row, told, crossed, unseen>>

Deactivate ==
  /\ sync.at = "deactivate"
  /\ isActive' = (isActive /\ sync.listed)
  /\ sync' = [sync EXCEPT !.at = "tell", !.off = isActive /\ ~sync.listed]
  /\ unseen' = IF isActive /\ ~sync.listed THEN {c \in Visits : visit[c] = "checked"} ELSE unseen
  /\ UNCHANGED <<staked, turns, visit, row, told, crossed>>

TellDeactivated ==
  /\ sync.at = "tell" /\ sync' = [sync EXCEPT !.at = "tell_dead"]
  /\ told' = IF sync.off THEN told \cup {c \in Visits : row[c] # "none"} ELSE told
  /\ UNCHANGED <<staked, turns, isActive, visit, row, crossed, unseen>>

\* Mutant of TellDead: channels are deleted without a word.
TellDeadNot ==
  /\ sync.at = "tell_dead" /\ sync' = [sync EXCEPT !.at = "drop"]
  /\ UNCHANGED <<staked, turns, isActive, visit, row, told, crossed, unseen>>

TellDead ==
  /\ sync.at = "tell_dead" /\ sync' = [sync EXCEPT !.at = "drop"]
  /\ told' = told \cup {c \in Visits : row[c] = "dead"}
  /\ UNCHANGED <<staked, turns, isActive, visit, row, crossed, unseen>>

DropDead ==
  /\ sync.at = "drop" /\ sync' = [sync EXCEPT !.at = "activate"]
  /\ row' = [c \in Visits |-> IF row[c] = "dead" THEN "none" ELSE row[c]]
  /\ UNCHANGED <<staked, turns, isActive, visit, told, crossed, unseen>>

Activate ==
  /\ sync.at = "activate" /\ sync' = Resting
  /\ isActive' = (isActive \/ sync.listed)
  /\ UNCHANGED <<staked, turns, visit, row, told, crossed, unseen>>

FacilitatorNext ==
  \/ MetagraphChanges \/ StartSync \/ Deactivate \/ TellDeactivated \/ TellDead \/ DropDead
  \/ Activate
  \/ \E c \in Visits : \/ CheckValidator(c) \/ ConnectChannel(c) \/ Heartbeat(c)
                       \/ HeartbeatsLate(c) \/ Disconnected(c)

FacilitatorSpec == FacilitatorInit /\ [][FacilitatorNext]_facilitatorVars

-----------------------------------------------------------------------------
(***************************************************************************)
(* Channel: "we always know which channel(s) belong to which validator".   *)
(* A validator that is connected has its row, or is about to be told to    *)
(* connect again: a connection without a row gets no job, and its          *)
(* heartbeats do not bring the row back.  The one exception is a channel   *)
(* that grew too old between the two queries of sync_validators.           *)
(***************************************************************************)
ConnectedIsReachable ==
  \A c \in Visits : visit[c] = "authenticated" => row[c] # "none" \/ c \in told \cup crossed

(***************************************************************************)
(* When sync_validators is done with a validator that left the metagraph,  *)
(* none of its connections stays: each is closed or told to close, also    *)
(* one that came up while the task ran, unless its is_active was read      *)
(* before the update.                                                      *)
(***************************************************************************)
DeactivatedIsDisconnected ==
  (sync = Resting /\ ~isActive) =>
    \A c \in Visits : visit[c] = "authenticated" => c \in told \cup unseen \cup crossed

\* The Channel rows that job dispatch reads, against the connections there
\* are: a connected validator can be reached and one that left the metagraph
\* is disconnected, while connections, heartbeats and sync_validators
\* interleave, with the exceptions that each part names.
ChannelsMatchValidators ==
    /\ ConnectedIsReachable
    /\ DeactivatedIsDisconnected

=============================================================================
