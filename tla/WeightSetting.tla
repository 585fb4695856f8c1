--------------------------- MODULE WeightSetting ---------------------------
(***************************************************************************)
(* set_scores (validator/scoring/tasks.py): Celery workers set the weights *)
(* of each cycle once, inside the commit window, with the record of it in  *)
(* one transaction around scoring and the call to the chain.  Cycles are   *)
(* those of compute_horde/subtensor.py, with the real tempo, so that the   *)
(* three ways this code has of counting cycles can be compared.            *)
(***************************************************************************)
EXTENDS Integers, FiniteSets

CONSTANTS
  Setters,        \* Celery workers that run set_scores
  Netuid,         \* BITTENSOR_NETUID
  SetterHeads,    \* the blocks at which something is looked at
  CommitReveal,   \* DYNAMIC_COMMIT_REVEAL_WEIGHTS_ENABLED
  CommitOffset,   \* DYNAMIC_COMMIT_REVEAL_COMMIT_START_OFFSET
  CommitEndBuffer,\* DYNAMIC_COMMIT_REVEAL_COMMIT_END_BUFFER
  SetAttempts     \* WEIGHT_SETTING_ATTEMPTS

ASSUME SetterAssumption ==
  /\ Netuid \in Nat /\ SetterHeads \subseteq Nat /\ IsFiniteSet(SetterHeads)
  /\ SetterHeads # {} /\ CommitReveal \in BOOLEAN /\ CommitOffset \in Nat
  /\ CommitEndBuffer \in Nat /\ SetAttempts \in Nat \ {0}

VARIABLES
  whead,    \* the chain's head
  setter,   \* each worker: its place, the head it read, attempts made
  wlock,    \* the worker that holds LockType.WEIGHT_SETTING, or {}
  wsfe,     \* committed WeightSettingFinishedEvent rows: start of the cycle
  onChain,  \* what Pylon was made to set: <<row's cycle, scored cycle>>
  resets    \* cycles set again although their row was already committed

setterVars == <<whead, setter, wlock, wsfe, onChain, resets>>

TEMPO == 360
EpochLength == TEMPO + 1

\* get_epoch_containing_block(...).start
EpochStart(b) ==
  LET next == b + TEMPO - ((b + Netuid + 1) % EpochLength)
  IN  IF next = b THEN next ELSE next - EpochLength

\* get_cycle_containing_block(...).start: a cycle is two epochs
CycleStart(b) ==
  IF ((EpochStart(b) - EpochStart(0)) \div EpochLength) % 2 = 1
  THEN EpochStart(b) - EpochLength ELSE EpochStart(b)
CycleLength == 2 * EpochLength

\* CommitRevealInterval.commit_window
InCommitWindow(b) ==
  LET start == b - (b % CycleLength)
  IN  b \in start + CommitOffset .. start + CycleLength - CommitEndBuffer - 1

\* _get_cycles_for_scoring, and the cycle calculate_scores_for_cycles scores
ScoredCycle(b) == CycleStart(CycleLength * ((b - CycleLength - 1) \div CycleLength))

\* WeightSettingFinishedEvent.from_block
RecordedCycle(b) == CycleStart(b) - CycleLength

NoSetter == [at |-> "idle", head |-> 0, tries |-> 0]

SetterInit ==
  /\ whead = CHOOSE b \in SetterHeads : \A c \in SetterHeads : b <= c
  /\ setter = [w \in Setters |-> NoSetter]
  /\ wlock = {} /\ wsfe = {} /\ onChain = {} /\ resets = {}

NewBlock ==
  /\ \E b \in SetterHeads : b > whead
  /\ whead' = CHOOSE b \in SetterHeads :
               b > whead /\ \A c \in SetterHeads : c > whead => b <= c
  /\ UNCHANGED <<setter, wlock, wsfe, onChain, resets>>

\* The task starts and reads the head; outside the window it returns.
ReadHead(w) ==
  /\ setter[w].at = "idle"
  /\ CommitReveal => InCommitWindow(whead)
  /\ setter' = [setter EXCEPT ![w] = [NoSetter EXCEPT !.at = "window", !.head = whead]]
  /\ UNCHANGED <<whead, wlock, wsfe, onChain, resets>>

\* Mutant of OpenTransaction: the created flag is not looked at.
OpenTransactionAnyway(w) ==
  /\ setter[w].at = "window"
  /\ IF wlock # {}
     THEN setter' = [setter EXCEPT ![w] = NoSetter] /\ UNCHANGED wlock
     ELSE setter' = [setter EXCEPT ![w].at = "scored"] /\ wlock' = {w}
  /\ UNCHANGED <<whead, wsfe, onChain, resets>>

\* get_advisory_lock and get_or_create: the row is the transaction's own
\* until it commits.
OpenTransaction(w) ==
  /\ setter[w].at = "window"
  /\ IF wlock # {} \/ RecordedCycle(setter[w].head) \in wsfe
     THEN setter' = [setter EXCEPT ![w] = NoSetter] /\ UNCHANGED wlock
     ELSE setter' = [setter EXCEPT ![w].at = "scored"] /\ wlock' = {w}
  /\ UNCHANGED <<whead, wsfe, onChain, resets>>

\* pylon_client().set_weights: an attempt may fail before or after Pylon
\* applied it (a timeout), and the last failure raises.
TrySetWeights(w) ==
  /\ setter[w].at = "scored"
  /\ LET b == setter[w].head  last == setter[w].tries + 1 = SetAttempts IN
     \E applied, answered \in BOOLEAN :
       /\ answered => applied
       /\ setter' = [setter EXCEPT ![w] =
            [at |-> IF answered THEN "set" ELSE IF last THEN "gaveup" ELSE "scored",
             head |-> b, tries |-> @.tries + 1]]
       /\ onChain' = IF applied THEN onChain \cup {<<RecordedCycle(b), ScoredCycle(b)>>}
                     ELSE onChain
       /\ resets' = IF applied /\ RecordedCycle(b) \in wsfe
                    THEN resets \cup {RecordedCycle(b)} ELSE resets
  /\ UNCHANGED <<whead, wlock, wsfe>>

\* The transaction ends: committed after a success, rolled back when
\* MaximumNumberOfAttemptsExceeded leaves the atomic block.
EndTransaction(w) ==
  /\ setter[w].at \in {"set", "gaveup"}
  /\ wsfe' = IF setter[w].at = "set" THEN wsfe \cup {RecordedCycle(setter[w].head)}
             ELSE wsfe
  /\ setter' = [setter EXCEPT ![w] = NoSetter] /\ wlock' = {}
  /\ UNCHANGED <<whead, onChain, resets>>

\* The worker dies, or scoring or the chain raises: everything rolls back.
SetterFails(w) ==
  /\ setter[w].at # "idle"
  /\ setter' = [setter EXCEPT ![w] = NoSetter]
  /\ wlock' = wlock \ {w}
  /\ UNCHANGED <<whead, wsfe, onChain, resets>>

SetterNext ==
  \/ NewBlock
  \/ \E w \in Setters :
       \/ ReadHead(w) \/ OpenTransaction(w) \/ TrySetWeights(w)
       \/ EndTransaction(w) \/ SetterFails(w)

SetterSpec == SetterInit /\ [][SetterNext]_setterVars

-----------------------------------------------------------------------------
(***************************************************************************)
(* A recorded cycle had its weights set and keeps them: a row exists only  *)
(* for weights Pylon accepted, and after it is committed no worker sets    *)
(* the cycle's weights again, although workers read the head before they   *)
(* take the lock and a given-up attempt may have reached the chain.        *)
(***************************************************************************)
RecordedWeightsAreFinal ==
  /\ \A c \in wsfe : \E x \in onChain : x[1] = c
  /\ resets = {}

(***************************************************************************)
(* The cycle that is scored is the one the row records.  One is counted in *)
(* multiples of 722 from block 723, the other from the subnet's epochs;    *)
(* they differ in the first blocks of a cycle, which the commit window's   *)
(* end buffer just keeps out of.                                           *)
(***************************************************************************)
ScoredCycleIsRecorded == \A x \in onChain : x[1] = x[2]

\* With two workers that read the head before they race for the lock, and
\* submissions that fail or whose outcome is unknown, set_scores records a
\* cycle only with weights that were set and never sets them again, and the
\* cycle it scores is the cycle it records.
WeightsAreForTheirCycle ==
    /\ RecordedWeightsAreFinal
    /\ ScoredCycleIsRecorded

=============================================================================
