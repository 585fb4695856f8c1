---------------------------- MODULE SpendingCheck ----------------------------
(***************************************************************************)
(* Scoring a cycle: the receipts of the jobs that finished in it are spent *)
(* one after another on a bookkeeper that holds a copy of the ledger, and  *)
(* a job scores only if the blocks it names cover its cost.  The copy is   *)
(* loaded for a range of blocks around the cycle, rows of the Block table  *)
(* may be missing in it, and the block a job started in is looked up by    *)
(* the time of its start, with a binary search.                            *)
(*                                                                         *)
(* One validator, miner and executor class (a Triplet): the bookkeeper     *)
(* keeps the triplets apart.  Block b is created at time 2b, and every     *)
(* block of the triplet has an allowance of one.                           *)
(***************************************************************************)
EXTENDS Integers, FiniteSets, FiniteSetsExt, Sequences

CONSTANTS
    BlockExpiry,     \* BLOCK_EXPIRY
    LeewayLower,     \* DYNAMIC_SPENDING_VALIDATION_BLOCK_LEEWAY_LOWER
    LeewayUpper,     \* DYNAMIC_SPENDING_VALIDATION_BLOCK_LEEWAY_UPPER
    MaxRunBlocks,    \* MAX_JOB_RUN_TIME_BLOCKS_APPROX
    CheckedFrom,      \* the cycle is CheckedFrom .. CheckedTo - 1
    CheckedTo,
    MaxSpendings,    \* receipts in the cycle
    Never            \* the row of a block was not invalidated

ASSUME SpendingConstants ==
    /\ {BlockExpiry, LeewayLower, LeewayUpper, MaxRunBlocks, CheckedFrom, CheckedTo,
        MaxSpendings} \subseteq Nat
    /\ CheckedFrom < CheckedTo /\ CheckedFrom >= MaxRunBlocks + BlockExpiry + LeewayLower
    /\ Never \notin Nat

VARIABLES
    rows,         \* the blocks in the Block table
    invalidated,  \* per block, invalidated_at_block
    spent,        \* _spendings_per_triplet of the triplet
    scored,       \* per block, the jobs it paid for
    receipts,     \* the number of receipts that were looked at
    payment       \* the last receipt, its outcome, and what was spent before it

NoBlock == -1
Unpaid == [outcome |-> "none"]

spendingVars == <<rows, invalidated, spent, scored, receipts, payment>>

Chain == CheckedFrom - MaxRunBlocks - BlockExpiry - LeewayLower .. CheckedTo

-----------------------------------------------------------------------------
(* InMemorySpendingBookkeeper *)

\* for_block_range: the blocks whose allowances are loaded.
Loaded == CheckedFrom - MaxRunBlocks - BlockExpiry .. CheckedTo - 1

\* ... and the block rows, one more at the end,
KnownBlocks == rows \cap (Loaded \cup {CheckedTo})

\* ... in the order of their numbers.
LoadedBlocks ==
    LET known == KnownBlocks
    IN  [i \in 1 .. Cardinality(known) |->
            CHOOSE b \in known : Cardinality({x \in known : x <= b}) = i]

\* One turn of the loop; found is result_idx, or 0.
Halve(blocks, t, s) ==
    LET mid == (s.left + s.right) \div 2
    IN  IF 2 * blocks[mid] <= t THEN [left |-> mid + 1, right |-> s.right, found |-> mid]
        ELSE [left |-> s.left, right |-> mid - 1, found |-> s.found]

SearchStates(n) == [left : 1 .. n + 1, right : 0 .. n, found : 0 .. n]

\* The loop, from any of its states.
Search(blocks, n, t) ==
    LET search[s \in SearchStates(n)] ==
            IF s.left > s.right THEN s.found ELSE search[Halve(blocks, t, s)]
    IN  search

\* _get_block_at_time; the last row only bounds the search.
GetBlockAtTime(t) ==
    LET blocks == LoadedBlocks
        n == Cardinality(KnownBlocks)
    IN  IF n < 2 THEN NoBlock
        ELSE IF t < 2 * blocks[1] \/ t >= 2 * blocks[n] THEN NoBlock
        ELSE LET i == Search(blocks, n, t)[[left |-> 1, right |-> n - 1, found |-> 0]]
             IN  IF i = 0 THEN NoBlock ELSE blocks[i]

\* Mutant of AllowedRange: the range loses the oldest block a job may use.
AllowedRangeShort(at) == at - BlockExpiry - LeewayLower + 1 .. at + LeewayUpper

\* The blocks that may pay for a job that started in block at.
AllowedRange(at) == at - BlockExpiry - LeewayLower .. at + LeewayUpper

InvalidatedBy(at) == {b \in Chain : invalidated[b] # Never /\ invalidated[b] <= at}

\* _register_transaction
Register(blocks) == spent' = spent \cup blocks

\* spend: no block at that time is an error, too little allowance a rejection.
Spend(r) ==
    LET at == GetBlockAtTime(r.time)
        usable == ((r.blocks \cap AllowedRange(at)) \ spent) \ InvalidatedBy(at)
        spendable == usable \cap Loaded
        outcome == IF at = NoBlock THEN "failed"
                   ELSE IF Cardinality(spendable) < r.cost THEN "rejected" ELSE "success"
        taken == IF outcome = "success" THEN spendable ELSE {}
    IN  /\ Register(taken)
        /\ scored' = [b \in Chain |-> scored[b] + IF b \in taken THEN 1 ELSE 0]
        /\ receipts' = receipts + 1
        /\ payment' = [receipt |-> r, outcome |-> outcome, taken |-> taken, before |-> spent]
        /\ UNCHANGED <<rows, invalidated>>

-----------------------------------------------------------------------------
\* get_finished_jobs_for_block_range: receipts of organic jobs that finished in
\* the cycle, and so started at most the longest run time before it.  What they
\* claim is the miner's word: any blocks, any cost.
FinishedJobs ==
    {[time |-> 2 * start + half, start |-> start, blocks |-> bs, cost |-> c] :
        start \in CheckedFrom - MaxRunBlocks .. CheckedTo - 1, half \in {0, 1},
        bs \in {s \in SUBSET (Chain \ {CheckedTo}) : Cardinality(s) \in {1, 2}},
        c \in {1, 2}}

\* calculate_allowance_paid_job_scores: the receipts in the order of the query.
SpendNextReceipt ==
    /\ receipts < MaxSpendings /\ payment = Unpaid
    /\ \E r \in FinishedJobs : Spend(r)

\* The outcome is counted and logged.
CountPayment ==
    /\ payment # Unpaid
    /\ payment' = Unpaid
    /\ UNCHANGED <<rows, invalidated, spent, scored, receipts>>

\* Either one block is missing or one was invalidated.
SpendingInit ==
    /\ \E b \in Chain \cup {0}, at \in (CheckedFrom - MaxRunBlocks .. CheckedTo) \cup {Never} :
           /\ rows = IF at = Never THEN Chain \ {b} ELSE Chain
           /\ invalidated = [x \in Chain |-> IF x = b THEN at ELSE Never]
    /\ spent = {} /\ scored = [b \in Chain |-> 0] /\ receipts = 0
    /\ payment = Unpaid

SpendingNext == SpendNextReceipt \/ CountPayment

SpendingSpec == SpendingInit /\ [][SpendingNext]_spendingVars

-----------------------------------------------------------------------------
(* Properties *)

\* Whatever blocks the receipts of a cycle claim, a block pays for one job of
\* its miner, and an accepted spending covers its cost.
NoBlockScoresTwice ==
    /\ \A b \in Chain : scored[b] <= 1
    /\ payment.outcome = "success" => Cardinality(payment.taken) >= payment.receipt.cost

\* Reserved with the ledger's own rule by a validator that saw block `seen`
\* as the chain's head when the job started, no later than it was.
ReservedAt(r, seen) ==
    /\ r.blocks \subseteq rows \cap (seen - BlockExpiry .. seen - 1)
    /\ r.blocks \cap InvalidatedBy(r.start) = {}
    /\ Cardinality(r.blocks) >= r.cost

\* A receipt for blocks that reserve_allowance would have given, not spent
\* before, is accepted: the leeway makes up for a head that lags behind, the
\* loaded range reaches back far enough for the longest job, and a missing
\* block row does no harm.  At the edges this needs the row of the block after
\* the cycle, and a lag that the job's run time leaves room for, because the
\* loaded range, unlike the allowed one, has no leeway.
HonestSpendingIsAccepted ==
    (/\ payment # Unpaid
     /\ CheckedTo \in rows
     /\ payment.receipt.blocks \cap payment.before = {}
     /\ \E lag \in 0 .. LeewayLower :
            /\ payment.receipt.start - lag >= CheckedFrom - MaxRunBlocks
            /\ ReservedAt(payment.receipt, payment.receipt.start - lag))
    => payment.outcome = "success"

\* The binary search returns what its docstring says, "the block number of the
\* latest block as of the given point in time (not the closest one)", whichever
\* block row is missing.  The rows stay as they were loaded: it is asked of the
\* search when the first receipt has been looked at.
SearchFindsLatestBlock ==
    receipts = 1 => \A t \in 2 * Min(Chain) .. 2 * CheckedTo + 1 :
        LET older == {b \in KnownBlocks : 2 * b <= t}
        IN  GetBlockAtTime(t) =
                IF older = {} \/ t >= 2 * Max(KnownBlocks) THEN NoBlock ELSE Max(older)

\* What the scoring makes of receipts: no block pays two jobs, an honest
\* validator's spending is accepted at both ends of the allowed range, and the
\* search by time finds the latest block as of that time.
SpendingIsJudgedRight ==
    /\ NoBlockScoresTwice
    /\ HonestSpendingIsAccepted
    /\ SearchFindsLatestBlock

=============================================================================
