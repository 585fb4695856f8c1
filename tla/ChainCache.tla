----------------------------- MODULE ChainCache -----------------------------
(***************************************************************************)
(* PrecachingSuperTensor (allowance/utils/supertensor.py) as a block scan  *)
(* uses it: a producer thread submits the blocks after the one the scan    *)
(* asked for, worker threads fetch their data into the shared cache, and   *)
(* the scan reads through the cache.  Of the five kinds of data two differ *)
(* in how they are cached: timestamps are not stored by a reader that      *)
(* missed them, subnet states may fail to be stored.                       *)
(***************************************************************************)
EXTENDS Integers, Sequences, FiniteSets

CONSTANTS
  Threads,      \* the worker threads (N_THREADS)
  CacheAhead,   \* CACHE_AHEAD
  LiteLookback, \* LITE_BLOCK_LOOKBACK: blocks a lite node still knows
  Archive,      \* an archive network is configured
  MaxHead,      \* bound: blocks minted
  MaxSlips      \* bound: timeouts, failed puts and expiries

ASSUME CacheAssumption ==
  /\ IsFiniteSet(Threads) /\ CacheAhead \in Nat /\ LiteLookback \in Nat
  /\ Archive \in BOOLEAN /\ MaxHead \in Nat \ {0} /\ MaxSlips \in Nat

VARIABLES
  chead,     \* get_current_block()
  tasks,     \* task_queue
  thread,    \* worker -> "fresh", "get", "quit", or the task it fetches
  producer,  \* produce_thread: "loop", or "put" once its conditions hold
  requested, \* highest_block_requested, 0 for None
  submitted, \* highest_block_submitted, NotSet for None
  first,     \* the first block that set_starting_block asked for
  reader,    \* the scan: what it does, and the data it is reading
  cached,    \* the shared cache: the data it holds
  dropped,   \* tasks a worker took that did not end in the cache, or expired
  closing,   \* "open", "closing", or "ended" once close() put its THE_ENDs
  slips

cacheVars == <<chead, tasks, thread, producer, requested, submitted, first, reader, cached,
               dropped, closing, slips>>

NotSet == -1
THE_END == <<"end", 0>>
Kinds == {"timestamp", "state"}
Idling == [at |-> "idle", task |-> THE_END]
Slip == slips < MaxSlips /\ slips' = slips + 1

CacheInit ==
  /\ chead = 1 /\ tasks = <<>> /\ thread = [w \in Threads |-> <<"fresh">>]
  /\ producer = "loop" /\ requested = 0 /\ submitted = NotSet /\ first = NotSet
  /\ reader = Idling /\ cached = {} /\ dropped = {} /\ closing = "open" /\ slips = 0

Mint ==
  /\ chead < MaxHead /\ chead' = chead + 1
  /\ UNCHANGED <<tasks, thread, producer, requested, submitted, first, reader, cached, dropped,
                 closing, slips>>

\* archive_fallback around make_sync: the lite node knows the block, or there is
\* an archive; otherwise UnknownBlock becomes ArchiveSubtensorNotConfigured.
Reachable(b) == Archive \/ b >= chead - LiteLookback

\* The outcomes of a fetch of the task: it is stored; or RETRY_ON_TIMEOUT gives up,
\* or put_subnet_state swallows its error.
FetchAndPut(t) ==
  \/ Reachable(t[2]) /\ cached' = cached \cup {t} /\ UNCHANGED <<dropped, slips>>
  \/ Reachable(t[2]) /\ Slip /\ dropped' = dropped \cup {t} /\ UNCHANGED cached
  \/ ~Reachable(t[2]) /\ dropped' = dropped \cup {t} /\ UNCHANGED <<cached, slips>>

-----------------------------------------------------------------------------
(* The worker threads *)

\* The loop around one SuperTensor: quits when closing, else waits in get().
WorkerLoops(w) ==
  /\ thread[w] = <<"fresh">>
  /\ thread' = [thread EXCEPT ![w] = IF closing = "open" THEN <<"get">> ELSE <<"quit">>]
  /\ UNCHANGED <<chead, tasks, producer, requested, submitted, first, reader, cached, dropped,
                 closing, slips>>

\* task_queue.get(): THE_END, a task that is cached by now, or one to fetch.
WorkerGets(w) ==
  /\ thread[w] = <<"get">> /\ tasks # <<>>
  /\ tasks' = Tail(tasks)
  /\ LET t == Head(tasks) IN
     thread' = [thread EXCEPT ![w] = IF t = THE_END THEN <<"quit">>
                                     ELSE IF t \in cached THEN <<"fresh">> ELSE t]
  /\ UNCHANGED <<chead, producer, requested, submitted, first, reader, cached, dropped, closing,
                 slips>>

\* An exception ends the inner loop with the task in hand; either way the loop
\* comes back to its check of closing.
WorkerFetches(w) ==
  /\ thread[w][1] \in Kinds
  /\ FetchAndPut(thread[w])
  /\ thread' = [thread EXCEPT ![w] = <<"fresh">>]
  /\ UNCHANGED <<chead, tasks, producer, requested, submitted, first, reader, closing>>

-----------------------------------------------------------------------------
(* produce_thread *)

\* Mutant of ProducerDecides: the block counts as submitted before the head is
\* read, and stays so when CannotGetCurrentBlock is raised.
ProducerDecidesEarly ==
  /\ producer = "loop" /\ closing = "open" /\ submitted # NotSet
  /\ submitted - requested < CacheAhead /\ submitted < chead
  /\ \/ producer' = "put" /\ UNCHANGED <<submitted, slips>>
     \/ Slip /\ submitted' = submitted + 1 /\ UNCHANGED producer
  /\ UNCHANGED <<chead, tasks, thread, requested, first, reader, cached, dropped, closing>>

\* The conditions, none of which the reader can undo before the puts.
ProducerDecides ==
  /\ producer = "loop" /\ closing = "open" /\ submitted # NotSet
  /\ submitted - requested < CacheAhead /\ submitted < chead
  /\ producer' = "put"
  /\ UNCHANGED <<chead, tasks, thread, requested, submitted, first, reader, cached, dropped,
                 closing, slips>>

\* One task of each kind, then the counter.
ProducerPuts ==
  /\ producer = "put" /\ producer' = "loop"
  /\ tasks' = tasks \o <<<<"timestamp", submitted + 1>>, <<"state", submitted + 1>>>>
  /\ submitted' = submitted + 1
  /\ UNCHANGED <<chead, thread, requested, first, reader, cached, dropped, closing, slips>>

ProducerQuits ==
  /\ producer = "loop" /\ closing # "open" /\ producer' = "quit"
  /\ UNCHANGED <<chead, tasks, thread, requested, submitted, first, reader, cached, dropped,
                 closing, slips>>

-----------------------------------------------------------------------------
(* The scan *)

\* set_starting_block: two assignments, between which the producer may look.
AskFor(k, b) ==
  /\ reader = Idling /\ closing = "open" /\ b <= chead
  /\ requested' = IF b > requested THEN b ELSE requested
  /\ reader' = [at |-> "asked", task |-> <<k, b>>]
  /\ UNCHANGED <<chead, tasks, thread, producer, submitted, first, cached, dropped, closing, slips>>

SetSubmitted ==
  /\ reader.at = "asked"
  /\ IF submitted = NotSet
     THEN submitted' = reader.task[2] - 1 /\ first' = reader.task[2]
     ELSE UNCHANGED <<submitted, first>>
  /\ reader' = [reader EXCEPT !.at = "lookup"]
  /\ UNCHANGED <<chead, tasks, thread, producer, requested, cached, dropped, closing, slips>>

\* A hit, or the fetch of a miss, which may fail; a timestamp is not put.
ReadThrough ==
  /\ reader.at = "lookup" /\ reader' = Idling
  /\ \/ reader.task \in cached /\ UNCHANGED <<cached, slips>>
     \/ /\ reader.task \notin cached /\ Reachable(reader.task[2])
        /\ cached' = IF reader.task[1] = "state" THEN cached \cup {reader.task} ELSE cached
        /\ UNCHANGED slips
     \/ reader.task \notin cached /\ Reachable(reader.task[2]) /\ Slip /\ UNCHANGED cached
     \/ reader.task \notin cached /\ ~Reachable(reader.task[2]) /\ UNCHANGED <<cached, slips>>
  /\ UNCHANGED <<chead, tasks, thread, producer, requested, submitted, first, dropped, closing>>

\* Entries of the Django cache live for ten minutes.
Expire(t) ==
  /\ t \in cached /\ Slip
  /\ cached' = cached \ {t} /\ dropped' = dropped \cup {t}
  /\ UNCHANGED <<chead, tasks, thread, producer, requested, submitted, first, reader, closing>>

\* close(), when the scan leaves its with block: the flag, then the THE_ENDs.
BeginClose ==
  /\ reader = Idling /\ closing = "open" /\ closing' = "closing"
  /\ UNCHANGED <<chead, tasks, thread, producer, requested, submitted, first, reader, cached,
                 dropped, slips>>

PutEnds ==
  /\ closing = "closing" /\ closing' = "ended"
  /\ tasks' = tasks \o [i \in 1..Cardinality(Threads) |-> THE_END]
  /\ UNCHANGED <<chead, thread, producer, requested, submitted, first, reader,
                 cached, dropped, slips>>

CacheNext ==
  \/ Mint \/ ProducerDecides \/ ProducerPuts \/ ProducerQuits \/ SetSubmitted \/ ReadThrough
  \/ BeginClose \/ PutEnds
  \/ \E w \in Threads : WorkerLoops(w) \/ WorkerGets(w) \/ WorkerFetches(w)
  \/ \E k \in Kinds, b \in 1..MaxHead : AskFor(k, b)
  \/ \E t \in Kinds \X (1..MaxHead) : Expire(t)

CacheSpec == CacheInit /\ [][CacheNext]_cacheVars

-----------------------------------------------------------------------------
(* Properties *)

\* Once close() has returned no thread is left in task_queue.get() for good: for
\* every worker that waits there, or is on its way, something is in the queue.
NoWorkerIsLeft ==
  closing = "ended" =>
    Cardinality({w \in Threads : thread[w] = <<"get">>}) <= Len(tasks)

\* Every block from the first one asked for up to highest_block_submitted is
\* prefetched: each datum of it waits in the queue, is in a worker's hands, is
\* cached, or was dropped by a fetch that failed or by its expiry.  Readers,
\* failing workers and the producer's own failures never make it skip a block.
PrefetchSkipsNoBlock ==
  submitted # NotSet =>
    \A t \in Kinds \X (first..submitted) :
      \/ t \in cached \cup dropped
      \/ \E i \in 1..Len(tasks) : tasks[i] = t
      \/ \E w \in Threads : thread[w] = t

\* PrecachingSuperTensor's threads, with fetches that fail: after close() no
\* worker waits for ever on the queue, and the producer submits every block up
\* to the highest one it says it submitted.
CacheThreadsAreSound ==
    /\ NoWorkerIsLeft
    /\ PrefetchSkipsNoBlock

=============================================================================
