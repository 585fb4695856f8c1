--------------------------- MODULE PeriodicFetches ---------------------------
(***************************************************************************)
(* What miners and validators fetch every few minutes.                     *)
(*                                                                         *)
(* fetch_validators (miner tasks.py, compute_horde/validators/tasks.py):   *)
(* the validators a miner serves are rows, brought in line with the        *)
(* metagraph by a task that reads the debug validators, the metagraph and  *)
(* all rows, then creates and then updates rows, with no transaction       *)
(* around it; two tasks may overlap, and an administrator adds debug       *)
(* validators in between.                                                  *)
(*                                                                         *)
(* fetch_dynamic_config (tasks.py of both, compute_horde/                  *)
(* dynamic_config.py): a setting is set to each value of a file whose time *)
(* has come, one after the other, first from the service's own file and    *)
(* then from the common one, or else from a contract.  Settings do not     *)
(* depend on each other, so one stands for all.                            *)
(***************************************************************************)
EXTENDS Integers, Sequences, FiniteSets

CONSTANTS
  Bac,               \* BAC_VALIDATOR_SS58_ADDRESS, always registered
  StakeHolders,      \* other hotkeys
  VALIDATORS_LIMIT,
  MIN_VALIDATOR_STAKE,
  MaxStake,          \* bound: of a stake
  Fetchers,          \* workers that run fetch_validators
  MaxStakeChanges,   \* bound: changes of the metagraph
  FetchAttempts,     \* stop_after_attempt of _do_fetch
  MaxItems           \* bound: values of the setting in a file

ASSUME FetchesAssumption ==
  /\ Bac \notin StakeHolders
  /\ {MIN_VALIDATOR_STAKE, MaxStake, MaxStakeChanges, MaxItems} \subseteq Nat
  /\ VALIDATORS_LIMIT \in Nat \ {0} /\ FetchAttempts \in Nat \ {0}

VARIABLES
  stake,        \* metagraph: total_stake of each hotkey
  stakeChanges,
  validatorRow, \* Validator rows: whether there is one, active and debug
  fetch,        \* fetch_validators of each worker: its place and what it read
  served,       \* some fetch_validators has finished
  unlucky,      \* debug validators added between the first and the last read of a fetch
  dynamicFiles, \* file -> for each item of the setting, whether it lies in the future
  contract,     \* USE_CONTRACT_CONFIG, and what the contract says
  dated,        \* the future has come
  setting,      \* the value of the setting: an item of a file, or another one
  configFetch   \* fetch_dynamic_config: where it is, attempts, and `dated` when it began

validatorListVars == <<stake, stakeChanges, validatorRow, fetch, served, unlucky>>
dynamicConfigVars == <<dynamicFiles, contract, dated, setting, configFetch>>
fetchesVars == <<validatorListVars, dynamicConfigVars>>

Holders == StakeHolders \cup {Bac}
NoRow == [exists |-> FALSE, active |-> FALSE, debug |-> FALSE]
IdleFetch == [at |-> "idle"]
Rows == {k \in Holders : validatorRow[k].exists}
Active(k) == validatorRow[k].active

-----------------------------------------------------------------------------
(* fetch_validators *)

\* Mutant of TopOf: the forced validator is ranked by its stake.
TopOfByStake(list, eligible) ==
  /\ Cardinality(list) = VALIDATORS_LIMIT \/ list = eligible
  /\ \A k \in list, other \in eligible \ list : stake[k] >= stake[other]

\* The first VALIDATORS_LIMIT of the neurons, the forced one first and the
\* others by stake; the order of equals is the metagraph's.
TopOf(list, eligible) ==
  /\ Cardinality(list) = VALIDATORS_LIMIT \/ list = eligible
  /\ Bac \in list
  /\ \A k \in list \ {Bac}, other \in eligible \ list : stake[k] >= stake[other]

\* get_validators
GetValidators ==
  LET eligible == {k \in Holders : k = Bac \/ stake[k] >= MIN_VALIDATOR_STAKE} IN
  {list \in SUBSET eligible : Cardinality(list) <= VALIDATORS_LIMIT /\ TopOf(list, eligible)}

MetagraphMoves ==
  /\ stakeChanges < MaxStakeChanges /\ stakeChanges' = stakeChanges + 1
  /\ \E k \in Holders, s \in 0 .. MaxStake : s # stake[k] /\ stake' = [stake EXCEPT ![k] = s]
  /\ UNCHANGED <<validatorRow, fetch, served, unlucky, dynamicConfigVars>>

\* An administrator adds a validator for debugging, or marks one.
AddDebug(k) ==
  /\ ~(Active(k) /\ validatorRow[k].debug)
  /\ validatorRow' = [validatorRow EXCEPT ![k] = [exists |-> TRUE, active |-> TRUE, debug |-> TRUE]]
  /\ unlucky' = IF \E w \in Fetchers : fetch[w].at # "idle" THEN unlucky \cup {k} ELSE unlucky \ {k}
  /\ UNCHANGED <<stake, stakeChanges, fetch, served, dynamicConfigVars>>

\* Validator.objects.filter(debug=True, active=True)
DebugKeys == {k \in Rows : validatorRow[k].debug /\ validatorRow[k].active}

ReadDebugKeys(w) ==
  /\ fetch[w].at = "idle"
  /\ fetch' = [fetch EXCEPT ![w] = [at |-> "metagraph", keys |-> DebugKeys]]
  /\ UNCHANGED <<stake, stakeChanges, validatorRow, served, unlucky, dynamicConfigVars>>

\* The metagraph, or a ValidatorListError.
ReadMetagraph(w) ==
  /\ fetch[w].at = "metagraph"
  /\ \/ \E list \in GetValidators :
          fetch' = [fetch EXCEPT ![w] = [at |-> "rows", keys |-> @.keys \cup list]]
     \/ fetch' = [fetch EXCEPT ![w] = IdleFetch]
  /\ UNCHANGED <<stake, stakeChanges, validatorRow, served, unlucky, dynamicConfigVars>>

\* Validator.objects.all()
ReadRows(w) ==
  /\ fetch[w].at = "rows"
  /\ fetch' = [fetch EXCEPT ![w] = [at |-> "create", keys |-> @.keys, rows |-> Rows]]
  /\ UNCHANGED <<stake, stakeChanges, validatorRow, served, unlucky, dynamicConfigVars>>

\* bulk_create: public_key is unique, so the task fails when a key it found
\* no row for has one by now.
CreateRows(w) ==
  LET new == fetch[w].keys \ fetch[w].rows IN
  /\ fetch[w].at = "create"
  /\ IF new \cap Rows # {}
     THEN fetch' = [fetch EXCEPT ![w] = IdleFetch] /\ UNCHANGED validatorRow
     ELSE /\ fetch' = [fetch EXCEPT ![w].at = "update"]
          /\ validatorRow' = [k \in Holders |->
               IF k \in new THEN [NoRow EXCEPT !.exists = TRUE, !.active = TRUE]
               ELSE validatorRow[k]]
  /\ UNCHANGED <<stake, stakeChanges, served, unlucky, dynamicConfigVars>>

\* bulk_update of the field active of the rows that were read.
UpdateRows(w) ==
  /\ fetch[w].at = "update" /\ fetch' = [fetch EXCEPT ![w] = IdleFetch] /\ served' = TRUE
  /\ validatorRow' = [k \in Holders |->
                        IF k \in fetch[w].rows
                        THEN [validatorRow[k] EXCEPT !.active = k \in fetch[w].keys]
                        ELSE validatorRow[k]]
  /\ UNCHANGED <<stake, stakeChanges, unlucky, dynamicConfigVars>>

ValidatorListNext ==
  \/ MetagraphMoves
  \/ \E k \in Holders : AddDebug(k)
  \/ \E w \in Fetchers :
       ReadDebugKeys(w) \/ ReadMetagraph(w) \/ ReadRows(w) \/ CreateRows(w) \/ UpdateRows(w)

-----------------------------------------------------------------------------
(* fetch_dynamic_config of a validator, under its lock *)

Files == <<"own", "common">>
DefaultSetting == <<"default", 0>>
FromContract == <<"contract", 0>>
AtFile(f, i, n) ==
  [at |-> "file", file |-> f, item |-> i, tries |-> n, began |-> configFetch.began]

\* _do_fetch
BeginConfigFetch ==
  /\ configFetch.at = "idle"
  /\ configFetch' = [at |-> "file", file |-> 1, item |-> 1, tries |-> 1, began |-> dated]
  /\ UNCHANGED <<validatorListVars, dynamicFiles, contract, dated, setting>>

\* param_item.effective_from > now
InFuture(f, i) == dynamicFiles[Files[f]][i] /\ ~dated

\* sync_dynamic_config: one item of the list; without another one, the next file.
SyncDynamicConfig ==
  LET f == configFetch.file  i == configFetch.item IN
  /\ contract = "unused" /\ configFetch.at = "file"
  /\ IF i <= Len(dynamicFiles[Files[f]])
     THEN /\ configFetch' = AtFile(f, i + 1, configFetch.tries)
          /\ setting' = IF InFuture(f, i) THEN setting ELSE <<Files[f], i>>
     ELSE /\ configFetch' = IF f < Len(Files) THEN AtFile(f + 1, 1, configFetch.tries)
                            ELSE [configFetch EXCEPT !.at = "done"]
          /\ UNCHANGED setting
  /\ UNCHANGED <<validatorListVars, dynamicFiles, contract, dated>>

\* fetch_dynamic_configs_from_contract: a value that is missing or no JSON is skipped.
FetchFromContract ==
  /\ contract # "unused" /\ configFetch.at = "file"
  /\ setting' = IF contract = "value" THEN FromContract ELSE setting
  /\ configFetch' = [configFetch EXCEPT !.at = "done"]
  /\ UNCHANGED <<validatorListVars, dynamicFiles, contract, dated>>

\* A request fails, or a parameter is not valid: again from the start, or not.
ConfigFetchFails ==
  /\ configFetch.at = "file"
  /\ configFetch' = IF configFetch.tries < FetchAttempts
                    THEN AtFile(1, 1, configFetch.tries + 1)
                    ELSE IdleFetch
  /\ UNCHANGED <<validatorListVars, dynamicFiles, contract, dated, setting>>

NextConfigFetch ==
  /\ configFetch.at = "done" /\ configFetch' = IdleFetch
  /\ UNCHANGED <<validatorListVars, dynamicFiles, contract, dated, setting>>

DatePasses ==
  /\ ~dated /\ dated' = TRUE
  /\ UNCHANGED <<validatorListVars, dynamicFiles, contract, setting, configFetch>>

DynamicConfigNext ==
  \/ BeginConfigFetch \/ SyncDynamicConfig \/ FetchFromContract \/ ConfigFetchFails
  \/ NextConfigFetch \/ DatePasses

FetchesInit ==
  /\ stake \in [Holders -> 0 .. MaxStake] /\ stakeChanges = 0
  /\ validatorRow = [k \in Holders |-> NoRow]
  /\ fetch = [w \in Fetchers |-> IdleFetch] /\ served = FALSE /\ unlucky = {}
  /\ dynamicFiles \in [{"own", "common"} -> UNION {[1 .. n -> BOOLEAN] : n \in 0 .. MaxItems}]
  /\ contract \in {"unused", "value", "no value"}
  /\ dated = FALSE /\ setting = DefaultSetting /\ configFetch = IdleFetch

FetchesSpec == FetchesInit /\ [][ValidatorListNext \/ DynamicConfigNext]_fetchesVars

-----------------------------------------------------------------------------
(* Properties *)

\* Once some fetch has finished, the miner serves the forced validator, whatever
\* its stake, the limit, and the order in which overlapping fetches create and
\* update rows: one that fails because the other created its rows first leaves
\* active rows behind.
ForcedValidatorIsServed == served => Active(Bac)

\* A validator added for debugging stays active, whatever its stake.  The
\* exception is one added while a fetch is between its reads: the fetch does not
\* know it is for debugging, deactivates it, and no later fetch looks at it, as
\* it is no longer active.
DebugValidatorsStayActive ==
  \A k \in Rows : validatorRow[k].debug /\ k \notin unlucky => Active(k)

\* The items of a file whose time has come, and what a fetch should leave.
Due(file, date) == {i \in DOMAIN dynamicFiles[file] : dynamicFiles[file][i] => date}
LastDue(file, date) ==
  {<<file, i>> : i \in {x \in Due(file, date) : \A y \in Due(file, date) : y <= x}}

\* "if same key exists in both places, common config wins": a fetch that ended
\* well leaves the last value that was due in the common file, if there is one,
\* and else the last one due in its own, however often it was tried again after
\* setting some of the values.
CommonConfigWins ==
  configFetch.at = "done" /\ contract = "unused" =>
    \E c, o \in {configFetch.began, dated} :
      IF LastDue("common", c) # {} THEN setting \in LastDue("common", c)
      ELSE LastDue("own", o) # {} => setting \in LastDue("own", o)

\* Fetches that overlap or are tried again: the forced validator is served,
\* debug validators stay active unless added between a fetch's reads, and the
\* common configuration wins over the project's own.
FetchesAreSound ==
    /\ ForcedValidatorIsServed
    /\ DebugValidatorsStayActive
    /\ CommonConfigWins

=============================================================================
