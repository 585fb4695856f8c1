------------------------------ MODULE BlockScan ------------------------------
(***************************************************************************)
(* How a validator fills its Block table.  Two Celery tasks process blocks *)
(* at the same time: the live scan (blocks up to BLOCK_LOOKBACK behind the *)
(* head, oldest first, then every new block) and the archive scan (older   *)
(* blocks, newest first).  An advisory lock keeps each task from running   *)
(* twice, on a connection of its own; each block is a transaction of its   *)
(* own, at PostgreSQL's default isolation level (READ COMMITTED): a SELECT *)
(* sees what was committed when it ran.                                    *)
(*                                                                         *)
(* A block's allowance is calculated when the block is finalised, which    *)
(* takes its successor's timestamp: whichever of two neighbours is stored  *)
(* second finalises the earlier one.                                       *)
(***************************************************************************)
EXTENDS Integers, FiniteSets, FiniteSetsExt

CONSTANTS
    Scanners,             \* {"live"} or {"live", "archive"}
    BLOCK_LOOKBACK,       \* the live scan covers [head - BLOCK_LOOKBACK, head]
    ARCHIVE_START_OFFSET, \* the archive scan covers
    ARCHIVE_MAX_LOOKBACK, \* [head - MAX_LOOKBACK, head - START_OFFSET]
    HeadLag,              \* blocks minted between a task's reading of the head
                          \* and its getting the scan lock
    StartBlock,           \* head of the chain when the model starts
    MaxBlock,             \* bound: last block minted
    MaxScanFailures           \* bound: transactions that fail or workers that die

ASSUME ScanConstants ==
    /\ Scanners \subseteq {"live", "archive"}
    /\ BLOCK_LOOKBACK \in Nat /\ HeadLag \in Nat /\ MaxScanFailures \in Nat
    /\ ARCHIVE_START_OFFSET = BLOCK_LOOKBACK + 1
    /\ ARCHIVE_MAX_LOOKBACK \in Nat
    /\ StartBlock \in Nat /\ MaxBlock \in Nat
    /\ ARCHIVE_MAX_LOOKBACK + HeadLag <= StartBlock

VARIABLES
    current,    \* head of the chain
    blocks,     \* committed Block rows
    ended,      \* those with end_timestamp set
    granted,    \* how often a block's BlockAllowance rows were created
    scan,       \* the scanners' local state
    scanFailures

scanVars == <<current, blocks, ended, granted, scan, scanFailures>>

BlockNumbers == 0 .. MaxBlock

\* Where a scanner is: "off" (no task runs), "scan" (between two blocks) or
\* inside the transaction of block n.
InTransaction == {"inserted", "sawNext", "sawPrev"}

\* A scan: where it is, the current_block it read at its start, the
\* missing_block_numbers left, the block of the open transaction, the blocks
\* finalised so far, and whether a block was tried since the start.
IdleScan == [pc |-> "off", head |-> 0, todo |-> {}, n |-> 0, final |-> {}, worked |-> FALSE]

-----------------------------------------------------------------------------
\* Mutant of Missing: the oldest block of the live window is left out.
MissingButOldest(s, head) ==
    LET range == IF s = "live"
                 THEN head - BLOCK_LOOKBACK + 1 .. head
                 ELSE head - ARCHIVE_MAX_LOOKBACK .. head - ARCHIVE_START_OFFSET
    IN  range \ blocks

\* find_missing_blocks and the archive task's missing_blocks.
Missing(s, head) ==
    LET range == IF s = "live"
                 THEN head - BLOCK_LOOKBACK .. head
                 ELSE head - ARCHIVE_MAX_LOOKBACK .. head - ARCHIVE_START_OFFSET
    IN  range \ blocks

\* _run_block_scan_with_lock: the head is read before the scan lock is taken.  It
\* returns at once as long as no manifest was ever synced, which is before the
\* model starts.
StartScan(s) ==
    \E head \in current - HeadLag .. current :
        /\ scan[s].pc = "off"
        /\ scan' = [scan EXCEPT ![s] = [IdleScan EXCEPT !.pc = "scan", !.head = head,
                                                    !.todo = Missing(s, head)]]
        /\ UNCHANGED <<current, blocks, ended, granted, scanFailures>>

\* The next block of the scan: backfill_blocks_if_necessary goes up, the
\* archive scan goes down, and livefill_blocks follows the head once the
\* backfill is done.
NextBlock(s) ==
    IF scan[s].todo # {}
    THEN IF s = "live" THEN Min(scan[s].todo) ELSE Max(scan[s].todo)
    ELSE scan[s].head + 1

HasNextBlock(s) ==
    \/ scan[s].todo # {}
    \/ s = "live" /\ scan[s].head + 1 <= current

\* The scanner's state once the next block was picked.
Advanced(s) ==
    [scan[s] EXCEPT !.todo = @ \ {NextBlock(s)},
                    !.head = IF scan[s].todo = {} THEN @ + 1 ELSE @,
                    !.worked = TRUE]

\* Mutant of InsertBlock: get_or_create instead of create.
GetOrInsertBlock(s) ==
    LET n == NextBlock(s) IN
    /\ scan[s].pc = "scan" /\ HasNextBlock(s)
    /\ \A t \in Scanners \ {s} : ~(scan[t].pc \in InTransaction /\ scan[t].n = n)
    /\ scan' = [scan EXCEPT ![s] = [Advanced(s) EXCEPT !.pc = "inserted", !.n = n]]
    /\ UNCHANGED <<current, blocks, ended, granted, scanFailures>>

\* Block.objects.create: waits while another transaction holds the same key.
InsertBlock(s) ==
    LET n == NextBlock(s) IN
    /\ scan[s].pc = "scan" /\ HasNextBlock(s)
    /\ n \notin blocks
    /\ \A t \in Scanners \ {s} : ~(scan[t].pc \in InTransaction /\ scan[t].n = n)
    /\ scan' = [scan EXCEPT ![s] = [Advanced(s) EXCEPT !.pc = "inserted", !.n = n]]
    /\ UNCHANGED <<current, blocks, ended, granted, scanFailures>>

\* IntegrityError on the primary key: the block is skipped.
AlreadyProcessed(s) ==
    /\ scan[s].pc = "scan" /\ HasNextBlock(s)
    /\ NextBlock(s) \in blocks
    /\ scan' = [scan EXCEPT ![s] = Advanced(s)]
    /\ UNCHANGED <<current, blocks, ended, granted, scanFailures>>

\* "Check if next block exists (would finalize current block)".
LookForNext(s) ==
    LET n == scan[s].n IN
    /\ scan[s].pc = "inserted"
    /\ scan' = [scan EXCEPT ![s].pc = "sawNext",
                            ![s].final = IF n + 1 \in blocks THEN {n} ELSE {}]
    /\ UNCHANGED <<current, blocks, ended, granted, scanFailures>>

\* "Check if current block would finalize previous block".
LookForPrev(s) ==
    LET p == scan[s].n - 1 IN
    /\ scan[s].pc = "sawNext"
    /\ scan' = [scan EXCEPT ![s].pc = "sawPrev",
                            ![s].final = IF p \in blocks /\ p \notin ended
                                         THEN @ \cup {p} ELSE @]
    /\ UNCHANGED <<current, blocks, ended, granted, scanFailures>>

\* The rows of the finalised blocks are created under the injection lock, and
\* the transaction commits (Allowance!FinalizeBlock is what it does to the
\* ledger).
CommitBlock(s) ==
    /\ scan[s].pc = "sawPrev"
    /\ blocks' = blocks \cup {scan[s].n}
    /\ ended' = ended \cup scan[s].final
    /\ granted' = [n \in BlockNumbers |->
                     granted[n] + (IF n \in scan[s].final THEN 1 ELSE 0)]
    /\ scan' = [scan EXCEPT ![s].pc = "scan", ![s].n = 0, ![s].final = {}]
    /\ UNCHANGED <<current, scanFailures>>

\* The transaction is rolled back: the chain or the injection lock did not
\* answer, or the worker died.  The live scan logs the error and goes on with
\* its next block; the archive scan stops; a dead worker stops either.
FailBlock(s) ==
    /\ scan[s].pc \in InTransaction
    /\ scanFailures < MaxScanFailures
    /\ scanFailures' = scanFailures + 1
    /\ \/ /\ s = "live"
          /\ scan' = [scan EXCEPT ![s].pc = "scan", ![s].n = 0, ![s].final = {}]
       \/ scan' = [scan EXCEPT ![s] = IdleScan]
    /\ UNCHANGED <<current, blocks, ended, granted>>

\* TimesUpError, or the archive scan is complete: the task ends and is
\* scheduled again.  The clock is only looked at after a block or while waiting
\* for one that is not minted yet.
EndScan(s) ==
    /\ scan[s].pc = "scan"
    /\ scan[s].worked \/ ~HasNextBlock(s)
    /\ scan' = [scan EXCEPT ![s] = IdleScan]
    /\ UNCHANGED <<current, blocks, ended, granted, scanFailures>>

MintBlock ==
    /\ current < MaxBlock
    /\ current' = current + 1
    /\ UNCHANGED <<blocks, ended, granted, scan, scanFailures>>

-----------------------------------------------------------------------------
ScanInit ==
    /\ current = StartBlock
    /\ blocks = {}
    /\ ended = {}
    /\ granted = [n \in BlockNumbers |-> 0]
    /\ scan = [s \in Scanners |-> IdleScan]
    /\ scanFailures = 0

ScanStep(s) ==
    \/ StartScan(s) \/ InsertBlock(s) \/ AlreadyProcessed(s) \/ LookForNext(s)
    \/ LookForPrev(s) \/ CommitBlock(s) \/ EndScan(s)

ScanNext ==
    \/ MintBlock
    \/ \E s \in Scanners : ScanStep(s) \/ FailBlock(s)

\* Celery beat schedules both tasks every minute, a running task keeps taking
\* steps, and the chain keeps minting.
ScanFairness ==
    /\ WF_scanVars(MintBlock)
    /\ \A s \in Scanners : WF_scanVars(ScanStep(s))

ScanSpec == ScanInit /\ [][ScanNext]_scanVars /\ ScanFairness

-----------------------------------------------------------------------------
(* Properties *)

\* However the two scans interleave, a block's rows are created at most once,
\* and exactly when its end_timestamp is set (Block.end_timestamp: "Blocks with
\* field set are considered to have all the allowance calculated").
GrantedExactlyWhenEnded ==
    \A n \in BlockNumbers : granted[n] = IF n \in ended THEN 1 ELSE 0

\* A finalised block has its successor stored: its duration is known.
EndedHasSuccessor == \A n \in ended : n \in blocks /\ n + 1 \in blocks

\* process_block_allowance grants a block's allowance exactly when it knows
\* where the block ended, which is where its successor began, though two scans
\* interleave at READ COMMITTED and either may fail between its transactions.
GrantsFollowBlocks ==
    /\ GrantedExactlyWhenEnded
    /\ EndedHasSuccessor


\* settings.py, "Live block scan will make sure all blocks newer than `now -
\* BLOCK_LOOKBACK` are scraped": once the chain stands still the live window is
\* filled and every block of it but the newest has its allowance, whatever
\* failed before.
LiveWindowFilled ==
    <>[](\A n \in MaxBlock - BLOCK_LOOKBACK .. MaxBlock :
            n \in blocks /\ (n < MaxBlock => granted[n] = 1))

\* blocks.py, in backfill_blocks_if_necessary: scanFailures "will leave holes until
\* they are backfilled"; and the archive scan stops on an error "to avoid
\* gaps".  Between transactions a stored block whose successor is stored has
\* its allowance.
NoHoles ==
    (\A s \in Scanners : scan[s].pc \notin InTransaction) =>
        \A n \in blocks : n + 1 \in blocks => n \in ended
=============================================================================
