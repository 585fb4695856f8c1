-------------------------- MODULE ReceiptTransfer --------------------------
(***************************************************************************)
(* How receipts travel from a miner's page files to a validator's database *)
(* (compute_horde/receipts/store/local.py, receipts/transfer.py and the    *)
(* loops of validator/receipts/default.py).  One miner and one validator:  *)
(* pages of different miners share nothing but the semaphore.  A receipt   *)
(* line is two bytes long, so that a read can cut it.                      *)
(***************************************************************************)
EXTENDS Integers, Sequences, FiniteSets

CONSTANTS
  Receipts,    \* receipts the miner stores; each is one line of a page
  BadReceipts, \* those whose line fails validation or a signature
  LastPage,    \* bound: number of the last page (PAGE_TIME long each)
  CatchUpPages,\* pages between the 5 hour cutoff and the current one
  TornMoves,   \* the page directory is on another file system than /tmp
  BucketSize,  \* receipts of a bucket that are stored at once
  MaxFaults    \* bound: crashes of the process and times it is disabled

ASSUME TransferAssumption ==
  /\ BadReceipts \subseteq Receipts /\ LastPage \in Nat /\ TornMoves \in BOOLEAN
  /\ CatchUpPages \in Nat /\ BucketSize \in Nat \ {0} /\ MaxFaults \in Nat

VARIABLES
  page,     \* LocalFilesystemPagedReceiptStore.current_page()
  file,     \* lines of each page, with those being moved in
  shown,    \* bytes of each page's file a reader sees now
  archived, \* bytes of each page's archive, NoArchive without one
  mark,     \* the checkpoint of each page
  phase,    \* of run_receipts_transfer: "down", "asleep", "first" or "both"
  passAt,   \* current page when the latest pass over active pages began
  coro,     \* the two coroutines, _catch_up and _keep_up
  received, \* receipts in the validator's database
  lost,     \* receipts that will never be asked for again
  skipped,  \* pages closed unpolled, or whose last request failed
  faults    \* crashes and disablings so far

transferVars == <<page, file, shown, archived, mark, phase, passAt, coro,
                  received, lost, skipped, faults>>

N_ACTIVE_PAGES == 2
NoArchive == -1
Pages == 0..LastPage
Coroutines == {"catch", "keep"}
Size(p) == 2 * Len(file[p])
Written == UNION {{file[p][i] : i \in 1..Len(file[p])} : p \in Pages}
NotTransferring == [on |-> FALSE, todo |-> <<>>, busy |-> FALSE, asked |-> {}, bucket |-> {}]

\* reversed(range(a, b + 1)), without the pages before the first
Reversed(a, b) == [i \in 1..(IF b < a THEN 0 ELSE b - a + 1) |-> b - i + 1]
PageZero(n) == IF n < 0 THEN 0 ELSE n

TransferInit ==
  /\ page = 0
  /\ file = [p \in Pages |-> <<>>] /\ shown = [p \in Pages |-> 0]
  /\ archived = [p \in Pages |-> NoArchive] /\ mark = [p \in Pages |-> 0]
  /\ phase = "down" /\ passAt = 0 /\ coro = [c \in Coroutines |-> NotTransferring]
  /\ received = {} /\ lost = {} /\ skipped = {0} /\ faults = 0

(***************************************************************************)
(* The miner.                                                              *)
(***************************************************************************)
minerUnchanged == UNCHANGED <<mark, phase, passAt, coro, received, lost,
                              skipped, faults>>

\* _append_to_page: a copy is appended to and moved over the page.  Across
\* file systems shutil.move copies again, in sight of the readers.
StoreReceipt(r) ==
  /\ r \notin Written
  /\ \A p \in Pages : shown[p] = Size(p)
  /\ file' = [file EXCEPT ![page] = Append(@, r)]
  /\ \E n \in IF TornMoves THEN {0, Size(page) + 1} ELSE {Size(page) + 2} :
       shown' = [shown EXCEPT ![page] = n]
  /\ UNCHANGED <<page, archived>> /\ minerUnchanged

EndMove(p) ==
  /\ shown[p] # Size(p)
  /\ shown' = [shown EXCEPT ![p] = Size(p)]
  /\ UNCHANGED <<page, file, archived>> /\ minerUnchanged

\* archive_old_pages, a periodic task of the miner
ArchiveOldPages ==
  /\ \E p \in Pages : p <= page - N_ACTIVE_PAGES /\ archived[p] = NoArchive
  /\ archived' = [p \in Pages |->
       IF p <= page - N_ACTIVE_PAGES /\ archived[p] = NoArchive
       THEN shown[p] ELSE archived[p]]
  /\ UNCHANGED <<page, file, shown>> /\ minerUnchanged

(***************************************************************************)
(* PAGE_TIME passes.  A pass over the active pages takes seconds, so that  *)
(* one begins in every page's time while the process runs.                 *)
(***************************************************************************)
NextPage ==
  /\ page < LastPage /\ shown[page] = Size(page)
  /\ phase \in {"first", "both"} => passAt = page
  /\ page' = page + 1
  /\ skipped' = IF phase \in {"first", "both"} THEN skipped ELSE skipped \cup {page'}
  /\ UNCHANGED <<file, shown, archived, mark, phase, passAt, coro, received,
                 lost, faults>>

(***************************************************************************)
(* The validator's process.                                                *)
(***************************************************************************)
\* The active pages a pass asks for.
ActivePages(p) == PageZero(p - N_ACTIVE_PAGES + 1)..p

\* _run_in_loop: the active pages first
StartTransfer ==
  /\ phase \in {"down", "asleep"}
  /\ phase' = "first" /\ passAt' = page
  /\ coro' = [coro EXCEPT !["catch"] =
       [NotTransferring EXCEPT !.on = TRUE,
                    !.todo = Reversed(PageZero(page - N_ACTIVE_PAGES + 1), page)]]
  /\ skipped' = skipped \ {page}
  /\ UNCHANGED <<page, file, shown, archived, mark, received, lost, faults>>

\* then the older pages and the polling of the active ones, side by side
StartBoth ==
  /\ phase = "first" /\ ~coro["catch"].busy /\ coro["catch"].todo = <<>>
  /\ phase' = "both"
  /\ LET start == passAt IN
     coro' = [c \in Coroutines |-> [NotTransferring EXCEPT !.on = TRUE,
       !.todo = IF c = "keep" THEN <<>>
                ELSE Reversed(PageZero(start - CatchUpPages), start - N_ACTIVE_PAGES)]]
  /\ UNCHANGED <<page, file, shown, archived, mark, passAt, received, lost,
                 skipped, faults>>

\* One turn of _catch_up or of _keep_up begins its ReceiptsTransfer.transfer.
BeginTransfer(c) ==
  /\ phase \in {"first", "both"} /\ coro[c].on /\ ~coro[c].busy
  /\ \/ /\ c = "catch" /\ coro[c].todo # <<>>
        /\ coro' = [coro EXCEPT ![c] = [@ EXCEPT !.busy = TRUE, !.todo = Tail(coro[c].todo),
                                                 !.asked = {Head(coro[c].todo)}]]
        /\ UNCHANGED passAt
     \/ /\ c = "keep"
        /\ coro' = [coro EXCEPT ![c] = [@ EXCEPT !.busy = TRUE, !.asked = ActivePages(page)]]
        /\ passAt' = page
  /\ UNCHANGED <<page, file, shown, archived, mark, phase, received, lost,
                 skipped, faults>>

\* What a request for the page answers: a range from the checkpoint on, or,
\* the first time, the archive if there is one and else the whole file.
Answer(p) ==
  IF mark[p] > 0 \/ archived[p] = NoArchive THEN shown[p] ELSE archived[p]

Lines(p, from, to) ==
  {file[p][i] : i \in {k \in 1..Len(file[p]) : from <= 2 * (k - 1) /\ 2 * k <= to}}
CutLines(p, from, to) ==
  {file[p][i] : i \in {k \in 1..Len(file[p]) :
     \/ from < 2 * k - 1 /\ 2 * k - 1 = to
     \/ from = 2 * k - 1 /\ from < to}}

\* Mutant of FetchPage: the checkpoint is the page's size when it is saved,
\* which a line written since the answer has changed.
FetchPageLate(c, p) ==
  /\ p \in coro[c].asked
  /\ \E to \in mark[p]..Answer(p) :
       /\ mark' = [mark EXCEPT ![p] = Answer(p)]
       /\ coro' = [coro EXCEPT ![c].asked = @ \ {p},
                               ![c].bucket = @ \cup (Lines(p, mark[p], to) \ BadReceipts)]
       /\ lost' = lost \cup CutLines(p, mark[p], to)
  /\ skipped' = IF p < page THEN skipped \ {p} ELSE skipped
  /\ UNCHANGED <<page, file, shown, archived, phase, passAt, received, faults>>

\* get_new_receipts_on_page: nothing new (404, 416), or valid lines and a
\* checkpoint at the end of what was served.
FetchPage(c, p) ==
  /\ p \in coro[c].asked
  /\ LET to == Answer(p) IN
     IF to <= mark[p]
     THEN /\ coro' = [coro EXCEPT ![c] = [@ EXCEPT !.asked = coro[c].asked \ {p}]]
          /\ UNCHANGED <<mark, lost>>
     ELSE /\ mark' = [mark EXCEPT ![p] = to]
          /\ coro' = [coro EXCEPT ![c] = [@ EXCEPT
               !.asked = coro[c].asked \ {p},
               !.bucket = coro[c].bucket \cup (Lines(p, mark[p], to) \ BadReceipts)]]
          /\ lost' = lost \cup CutLines(p, mark[p], to)
  /\ skipped' = IF p < page /\ shown[p] = Size(p) THEN skipped \ {p} ELSE skipped
  /\ UNCHANGED <<page, file, shown, archived, phase, passAt, received, faults>>

\* Timeouts and error answers become a TransferException that is counted.
FetchFails(c, p) ==
  /\ p \in coro[c].asked
  /\ coro' = [coro EXCEPT ![c] = [@ EXCEPT !.asked = coro[c].asked \ {p}]]
  /\ skipped' = skipped \cup {p}
  /\ UNCHANGED <<page, file, shown, archived, mark, phase, passAt, received,
                 lost, faults>>

\* abulk_create of a full bucket, and of the remainder when all pages are in
StoreBucket(c) ==
  /\ coro[c].busy
  /\ \/ coro[c].asked = {}
     \/ Cardinality(coro[c].bucket) >= BucketSize
  /\ received' = received \cup coro[c].bucket
  /\ coro' = [coro EXCEPT ![c] = [@ EXCEPT !.bucket = {}, !.busy = coro[c].asked # {}]]
  /\ UNCHANGED <<page, file, shown, archived, mark, phase, passAt, lost,
                 skipped, faults>>

(***************************************************************************)
(* The dynamic configuration switches the transfer off: the coroutine that *)
(* notices raises TransferIsDisabled, the session is closed, and the other *)
(* coroutine's requests end it with a RuntimeError, bucket and all.        *)
(***************************************************************************)
Disabled(c) ==
  /\ phase \in {"first", "both"} /\ faults < MaxFaults /\ faults' = faults + 1
  /\ coro[c].on /\ ~coro[c].busy
  /\ c = "keep" \/ coro[c].todo # <<>>
  /\ phase' = "asleep"
  /\ LET other == CHOOSE d \in Coroutines : d # c IN
     IF coro[other].asked # {}
     THEN lost' = lost \cup coro[other].bucket /\ UNCHANGED received
     ELSE received' = received \cup coro[other].bucket /\ UNCHANGED lost
  /\ coro' = [d \in Coroutines |-> NotTransferring]
  /\ skipped' = skipped \cup {p \in Pages : p <= page}
  /\ UNCHANGED <<page, file, shown, archived, mark, passAt>>

\* The process dies; checkpoints are in a cache that outlives it.
TransferCrash ==
  /\ phase # "down" /\ faults < MaxFaults /\ faults' = faults + 1
  /\ phase' = "down"
  /\ lost' = lost \cup coro["catch"].bucket \cup coro["keep"].bucket
  /\ coro' = [c \in Coroutines |-> NotTransferring]
  /\ skipped' = skipped \cup {p \in Pages : p <= page}
  /\ UNCHANGED <<page, file, shown, archived, mark, passAt, received>>

TransferNext ==
  \/ \E r \in Receipts : StoreReceipt(r)
  \/ \E p \in Pages : EndMove(p)
  \/ ArchiveOldPages \/ NextPage
  \/ StartTransfer \/ StartBoth \/ TransferCrash
  \/ \E c \in Coroutines :
       \/ BeginTransfer(c) \/ StoreBucket(c) \/ Disabled(c)
       \/ \E p \in Pages : FetchPage(c, p) \/ FetchFails(c, p)

TransferSpec == TransferInit /\ [][TransferNext]_transferVars

-----------------------------------------------------------------------------
InHand == received \cup coro["catch"].bucket \cup coro["keep"].bucket

(***************************************************************************)
(* A valid receipt that lies before its page's checkpoint is in the        *)
(* database or on its way there: the checkpoint never passes a line that   *)
(* was not served, whatever is written, archived or polled meanwhile.  The *)
(* only ways out are a line cut by a page read while it is moved, and a    *)
(* bucket that died with its coroutine (`lost').                           *)
(***************************************************************************)
CheckpointsCoverReceipts ==
  \A p \in Pages : Lines(p, 0, mark[p]) \subseteq InHand \cup lost \cup BadReceipts

(***************************************************************************)
(* When a page has been closed for longer than it takes to poll it, the    *)
(* whole of it was asked for, unless a request failed or the process was   *)
(* not running: polling the last two pages misses nothing at a page turn.  *)
(***************************************************************************)
ClosedPagesAreRead ==
  \A p \in Pages : (p < page - N_ACTIVE_PAGES /\ p \notin skipped)
                     => mark[p] = Size(p)

\* Pages that grow and are archived while they are read, and transfers that
\* fail: a checkpoint never passes a receipt that was not served, and polling
\* the last pages misses nothing at a page turn, with the exceptions that each
\* part names.
NoReceiptIsPassedOver ==
    /\ CheckpointsCoverReceipts
    /\ ClosedPagesAreRead

=============================================================================
