---------------------------- MODULE MinerUpkeep ----------------------------
(***************************************************************************)
(* The validator's periodic tasks about miners: sync_miners                *)
(* (miner_sync.py), sync_collaterals and slash_collateral_task             *)
(* (collateral/, tasks.py), poll_miner_manifests and the forwarding of     *)
(* system events (tasks.py).  They run on Celery workers at their own      *)
(* pace, over a chain that moves.                                          *)
(***************************************************************************)
EXTENDS Integers, Sequences, FiniteSets

CONSTANTS
  Hotkeys,       \* miners' hotkeys
  Uids,          \* neuron uids of the subnet, from 0
  Evms,          \* EVM addresses
  Offered,       \* manifests a miner can answer with: executors of a class
  CheatedJobs,   \* jobs reported as cheated; slash_collateral_task per report
  Events,        \* system events
  Senders,       \* workers that run send_events_to_facilitator
  MaxMoves,      \* bound: changes of the chain
  MaxSlashRuns,  \* bound: slash tasks per job
  MaxPolls,      \* bound: manifest polls
  MaxCopies      \* bound: times an event is delivered

ASSUME UpkeepAssumption ==
  /\ Uids \subseteq Nat /\ Offered \subseteq Nat \ {0}
  /\ MaxMoves \in Nat /\ MaxSlashRuns \in Nat /\ MaxPolls \in Nat
  /\ \E f \in [Uids -> Hotkeys] : \A u, v \in Uids : f[u] = f[v] => u = v

VARIABLES
  chainBlock,    \* the chain: [neuron, evm, deposit] at each block
  row,       \* Miner rows: [uid, evm, wei]
  csync,     \* block of the sync_collaterals task under way, 0 if none
  manifest,  \* per miner the latest MinerManifest row: [known, online]
  polls,     \* manifest polls so far
  slash,     \* per job: task runs, marked slashed, amounts taken on chain,
             \* and answers that were lost
  outbox     \* per event: sent flag, workers that lock it, copies
             \* delivered and answers that were lost

upkeepVars == <<chainBlock, row, csync, manifest, polls, slash, outbox>>

NoUid == -1
Head1 == chainBlock[Len(chainBlock)]
UidAt(b, h) == IF \E u \in Uids : chainBlock[b].neuron[u] = h
               THEN CHOOSE u \in Uids : chainBlock[b].neuron[u] = h ELSE NoUid

UpkeepInit ==
  /\ chainBlock = <<[neuron |-> CHOOSE f \in [Uids -> Hotkeys] :
                               \A u, v \in Uids : f[u] = f[v] => u = v,
                 evm |-> [u \in Uids |-> {}],
                 deposit |-> [e \in Evms |-> 0]]>>
  /\ row = [h \in Hotkeys |-> [uid |-> NoUid, evm |-> {}, wei |-> 0]]
  /\ csync = 0
  /\ manifest = [h \in Hotkeys |-> [known |-> FALSE, online |-> 0]] /\ polls = 0
  /\ slash = [j \in CheatedJobs |->
                [runs |-> 0, marked |-> FALSE, taken |-> 0, unsure |-> 0]]
  /\ outbox = [e \in Events |-> [sent |-> FALSE, locked |-> {}, copies |-> 0, unsure |-> 0]]

\* The chain: a neuron is replaced, an address is associated, a deposit moves.
ChainMoves ==
  /\ Len(chainBlock) <= MaxMoves
  /\ \/ \E u \in Uids, h \in Hotkeys :
          /\ \A v \in Uids : Head1.neuron[v] # h
          /\ chainBlock' = Append(chainBlock, [Head1 EXCEPT !.neuron[u] = h, !.evm[u] = {}])
     \/ \E u \in Uids, e \in Evms :
          /\ \A v \in Uids : e \notin Head1.evm[v]
          /\ chainBlock' = Append(chainBlock, [Head1 EXCEPT !.evm[u] = {e}])
     \/ \E e \in Evms :
          chainBlock' = Append(chainBlock, [Head1 EXCEPT !.deposit[e] = 1 - @])
  /\ UNCHANGED <<row, csync, manifest, polls, slash, outbox>>

\* sync_miners: rows of the metagraph's hotkeys get the block's uids
SyncMiners ==
  /\ row' = [h \in Hotkeys |->
               IF UidAt(Len(chainBlock), h) = NoUid THEN row[h]
               ELSE [row[h] EXCEPT !.uid = UidAt(Len(chainBlock), h)]]
  /\ UNCHANGED <<chainBlock, csync, manifest, polls, slash, outbox>>

\* sync_collaterals: the metagraph names the block everything is read at
BeginCollateralSync ==
  /\ csync = 0 /\ csync' = Len(chainBlock)
  /\ UNCHANGED <<chainBlock, row, manifest, polls, slash, outbox>>

\* get_miner_collateral at the metagraph's block
CollateralAt(b, e) == chainBlock[b].deposit[e]

\* The loop over the miners and the bulk_update.  A uid of 0 is falsy and
\* is skipped; without an association, or when the contract call fails, the
\* old amount stays.
EndCollateralSync ==
  /\ csync # 0 /\ csync' = 0
  /\ \E failed \in SUBSET Hotkeys :
       row' = [h \in Hotkeys |->
         LET u == row[h].uid
             evm == IF u \in Uids THEN chainBlock[csync].evm[u] ELSE {}
         IN  IF UidAt(csync, h) = NoUid \/ u \in {NoUid, 0} THEN row[h]
             ELSE [row[h] EXCEPT !.evm = evm,
                     !.wei = IF evm = {} \/ h \in failed THEN @
                             ELSE CollateralAt(csync, CHOOSE e \in Evms : evm = {e})]]
  /\ UNCHANGED <<chainBlock, manifest, polls, slash, outbox>>

\* get_single_manifest: nothing (0) when the miner cannot be reached, does not
\* answer in time or answers with an error.
SingleManifest == Offered \cup {0}

\* get_manifests_from_miners: all at once, one's failure is not another's.
MinersManifests == [Hotkeys -> SingleManifest]

\* poll_miner_manifests: the manifests of those that answer, and for the
\* others their last classes again, as offline
PollMinerManifests ==
  /\ polls < MaxPolls /\ polls' = polls + 1
  /\ \E answers \in MinersManifests :
       manifest' = [h \in Hotkeys |->
         IF row[h].uid = NoUid THEN manifest[h]
         ELSE IF answers[h] > 0 THEN [known |-> TRUE, online |-> answers[h]]
         ELSE [manifest[h] EXCEPT !.online = 0]]
  /\ UNCHANGED <<chainBlock, row, csync, slash, outbox>>

(***************************************************************************)
(* slash_collateral_task.  The row is locked; the transaction on the chain *)
(* may be mined although waiting for it failed, and the worker may die     *)
(* before its own transaction commits.                                     *)
(***************************************************************************)
\* slash_collateral: it fails before anything is sent (no key, no address, no
\* contract, the evidence cannot be read), the transaction is sent and fails
\* (another one had its nonce), it is mined and its receipt seen, or waiting for
\* the receipt fails.
SlashTransaction == {t \in [mined : BOOLEAN, answered : BOOLEAN] : t.answered => t.mined}

\* Mutant of SlashCollateral: the slashed flag is not looked at.
SlashCollateralAgain(j) ==
  /\ slash[j].runs < MaxSlashRuns
  /\ \E t \in SlashTransaction :
       slash' = [slash EXCEPT ![j].runs = @ + 1,
                   ![j].taken = IF t.mined THEN @ + 1 ELSE @,
                   ![j].marked = @ \/ t.answered,
                   ![j].unsure = IF t.mined /\ ~t.answered THEN @ + 1 ELSE @]
  /\ UNCHANGED <<chainBlock, row, csync, manifest, polls, outbox>>

SlashCollateral(j) ==
  /\ slash[j].runs < MaxSlashRuns
  /\ IF slash[j].marked
     THEN slash' = [slash EXCEPT ![j].runs = @ + 1]
     ELSE \E t \in SlashTransaction :
            slash' = [slash EXCEPT ![j] =
              [runs |-> @.runs + 1, marked |-> t.answered,
               taken |-> IF t.mined THEN @.taken + 1 ELSE @.taken,
               unsure |-> IF t.mined /\ ~t.answered THEN @.unsure + 1 ELSE @.unsure]]
  /\ UNCHANGED <<chainBlock, row, csync, manifest, polls, outbox>>

(***************************************************************************)
(* send_events_to_facilitator: one transaction that locks the unsent       *)
(* events nobody else locks, posts them and marks them.                    *)
(***************************************************************************)
LockedBy(w) == {e \in Events : w \in outbox[e].locked}

Unlocked(e) == ~outbox[e].sent /\ outbox[e].locked = {}

LockEvents(w) ==
  /\ LockedBy(w) = {} /\ \E e \in Events : Unlocked(e)
  /\ outbox' = [e \in Events |-> IF Unlocked(e) THEN [outbox[e] EXCEPT !.locked = @ \cup {w}]
                                 ELSE outbox[e]]
  /\ UNCHANGED <<chainBlock, row, csync, manifest, polls, slash>>

\* The answer is 201 (delivered and marked), an error, or never comes: then
\* the transaction rolls back and the events are sent again.
PostEvents(w) ==
  /\ LockedBy(w) # {}
  /\ \E delivered, answered \in BOOLEAN :
       /\ answered => delivered
       /\ \A e \in LockedBy(w) : outbox[e].copies < MaxCopies
       /\ outbox' = [e \in Events |->
            IF w \notin outbox[e].locked THEN outbox[e]
            ELSE [sent |-> outbox[e].sent \/ answered,
                  locked |-> outbox[e].locked \ {w},
                  copies |-> outbox[e].copies + (IF delivered THEN 1 ELSE 0),
                  unsure |-> outbox[e].unsure + (IF delivered /\ ~answered THEN 1 ELSE 0)]]
  /\ UNCHANGED <<chainBlock, row, csync, manifest, polls, slash>>

\* The three groups of tasks share no state, and a model of one of them at
\* a time is a model of all.
MinersNext ==
  \/ ChainMoves \/ SyncMiners \/ BeginCollateralSync \/ EndCollateralSync
  \/ PollMinerManifests
SlashNext == \E j \in CheatedJobs : SlashCollateral(j)
EventsNext == \E w \in Senders : LockEvents(w) \/ PostEvents(w)

UpkeepSpec == UpkeepInit /\ [][MinersNext \/ SlashNext \/ EventsNext]_upkeepVars

-----------------------------------------------------------------------------
(***************************************************************************)
(* The collateral of a miner was really there: at one and the same block   *)
(* it was the deposit of an address associated with a uid.  The sync reads *)
(* associations and amounts while the chain moves, but at one block.       *)
(***************************************************************************)
CollateralIsFromOneBlock ==
  \A h \in Hotkeys : row[h].wei > 0 =>
    \E b \in 1..Len(chainBlock), u \in Uids : \E e \in chainBlock[b].evm[u] :
      chainBlock[b].deposit[e] = row[h].wei

(***************************************************************************)
(* Collateral is taken twice for a job only when the outcome of an earlier *)
(* transaction stayed unknown (a timeout or a crash before the commit):    *)
(* repeated reports of the same cheated job do not add up.                 *)
(***************************************************************************)
SlashedOnceUnlessUnsure ==
  \A j \in CheatedJobs :
    /\ slash[j].taken <= 1 + slash[j].unsure
    /\ slash[j].marked => slash[j].taken >= 1

(***************************************************************************)
(* An event reaches the facilitator again only when the answer to an       *)
(* earlier post was lost, however many workers run the task at once, and   *)
(* an event marked as sent was delivered.                                  *)
(***************************************************************************)
EventsSentOnceUnlessUnsure ==
  \A e \in Events :
    /\ outbox[e].copies <= 1 + outbox[e].unsure
    /\ outbox[e].sent => outbox[e].copies >= 1

\* sync_collaterals, slash_collateral_task and send_events_to_facilitator
\* while the chain moves, tasks overlap and answers are lost: a collateral is
\* a deposit of one block, a cheated job is slashed once and an event sent
\* once, unless the outcome of an earlier attempt stayed unknown.
UpkeepIsSound ==
    /\ CollateralIsFromOneBlock
    /\ SlashedOnceUnlessUnsure
    /\ EventsSentOnceUnlessUnsure

=============================================================================
