------------------------------ MODULE Allowance ------------------------------
(***************************************************************************)
(* The allowance ledger of a validator: the tables Block, BlockAllowance,  *)
(* AllowanceBooking and AllowanceMinerManifest, and the transactions that  *)
(* write them                                                              *)
(*                                                                         *)
(*   process_block_allowance    creates a block's BlockAllowance rows      *)
(*   sync_manifests             records manifests, invalidates rows        *)
(*   reserve_allowance          books rows for a job                       *)
(*   undo_allowance_reservation releases them                              *)
(*   spend_allowance            makes the booking permanent                *)
(*   evict_old_data             deletes what is too old                    *)
(*                                                                         *)
(* Each transaction is one action (row locks and advisory locks make them  *)
(* serialisable where they touch the same rows), except sync_manifests,    *)
(* which reads the current block, waits for the miners' answers and only   *)
(* then opens its transaction.  The ledger is modelled for one validator   *)
(* and one executor class: a "miner" here is a (hotkey, executor class)    *)
(* pair, which is the key every query filters by.                          *)
(*                                                                         *)
(* The caller is the most general one: any booking ever handed out may be  *)
(* spent or undone at any time, or forgotten (a worker that crashed).      *)
(***************************************************************************)
EXTENDS Integers, FiniteSets, FiniteSetsExt, Functions

CONSTANTS
    Miners,            \* (hotkey, executor class) pairs
    Metagraphs,        \* the neuron lists the chain may report
    Syncs,             \* sync_manifests tasks that may overlap
    Reports,           \* executor counts a miner may report (0: no answer)
    Caps,              \* values of the dynamic max-executors-per-class setting
    Requests,          \* executor-seconds a job may ask for
    MAX_JOB_RUN_TIME,  \* largest executor-seconds a reservation may have
    BLOCK_EXPIRY,      \* a job started at n is paid with blocks >= n - BLOCK_EXPIRY
    BLOCK_EVICTION_THRESHOLD,
    SCAN_REACH,        \* how far behind the head a scanner still writes blocks:
                       \* ARCHIVE_MAX_LOOKBACK, the blocks minted while a scan
                       \* runs, and the predecessor a block finalises
    ROUTING_LAG,       \* blocks minted between routing's reading of the head
                       \* and its reservation
    MAX_JOB_BLOCKS,    \* blocks minted while one job runs
                       \* (MAX_JOB_RUN_TIME_BLOCKS_APPROX)
    RESERVATION_MARGIN,
    StartBlock,        \* head of the chain when the model starts
    MaxBlock,          \* bound: last block minted
    MaxBooking         \* bound: number of bookings ever created

ASSUME ConstantsAssumption ==
    /\ Metagraphs \subseteq SUBSET Miners
    /\ Reports \subseteq Nat /\ Caps \subseteq Nat /\ Requests \subseteq Nat
    /\ MAX_JOB_RUN_TIME \in Nat
    /\ BLOCK_EXPIRY \in Nat /\ BLOCK_EVICTION_THRESHOLD \in Nat
    /\ SCAN_REACH \in Nat /\ ROUTING_LAG \in Nat /\ MAX_JOB_BLOCKS \in Nat
    /\ RESERVATION_MARGIN \in Nat
    /\ StartBlock \in Nat /\ MaxBlock \in Nat /\ MaxBooking \in Nat

\* A job asks for at least one executor-second (download, execution and upload
\* time limits together).
ASSUME RequestsArePositive == 0 \notin Requests

\* At least one block is minted.
ASSUME BoundIsPositive == MaxBlock # 0

\* allowance/settings.py: what is evicted is never scanned again
\* (ARCHIVE_MAX_LOOKBACK = 1444 < 2166), ...
ASSUME EvictionBehindScans == SCAN_REACH < BLOCK_EVICTION_THRESHOLD

\* ... and a running job's blocks are younger than that (722 + 330 < 2166).
ASSUME EvictionBehindJobs ==
    BLOCK_EXPIRY + MAX_JOB_BLOCKS < BLOCK_EVICTION_THRESHOLD

VARIABLES
    current,    \* the chain's head, as supertensor reports it
    syncs,      \* block read by each running sync_manifests, or NoBlock
    manifests,  \* AllowanceMinerManifest rows by <<miner, block>>
    blocks,     \* finalised Block rows (end_timestamp set)
    ba,         \* BlockAllowance rows by <<miner, block>>
    bookings,   \* AllowanceBooking rows by id
    lastId,     \* last booking id handed out by the database sequence
    routes      \* what callers still hold: reservation id -> route
                \* (JobRoute: the miner, the block ids, the job's value)

vars == <<current, syncs, manifests, blocks, ba, bookings, lastId, routes>>

NoBlock == -1         \* invalidated_at_block IS NULL; no sync running
NoBooking == 0        \* allowance_booking IS NULL
NoExpiry == -1        \* reservation_expiry_time IS NULL

Keys == Miners \X Nat
BookingIds == Nat \ {0}

Manifest == [count : Nat, is_drop : BOOLEAN]
BlockAllowance == [allowance : Nat, invalidated : Nat \cup {NoBlock},
                   booking : BookingIds \cup {NoBooking}]
Booking == [is_reserved : BOOLEAN, is_spent : BOOLEAN,
            expiry : Nat \cup {NoExpiry}]
Route == [miner : Miners, blocks : SUBSET Nat, seconds : Nat, start : Nat]

-----------------------------------------------------------------------------
(* Manifests *)

ManifestBlocks(m) == {k[2] : k \in {k \in DOMAIN manifests : k[1] = m}}

\* get_manifests: the newest count at or before block n, 0 when there is none.
GetManifest(m, n) ==
    LET known == {b \in ManifestBlocks(m) : b <= n}
    IN  IF known = {} THEN 0 ELSE manifests[<<m, Max(known)>>].count

\* get_manifest_drops: the earliest drop after block n.
GetManifestDrop(m, n) ==
    LET drops == {b \in ManifestBlocks(m) : b > n /\ manifests[<<m, b>>].is_drop}
    IN  IF drops = {} THEN NoBlock ELSE Min(drops)

\* sync_manifests, before its transaction: the head is read first, then the
\* miners are asked, which takes up to MANIFEST_FETCHING_TIMEOUT.
StartSync(t) ==
    /\ syncs[t] = NoBlock
    /\ syncs' = [syncs EXCEPT ![t] = current]
    /\ UNCHANGED <<current, manifests, blocks, ba, bookings, lastId, routes>>

\* is_drop compares what the miner reports now with the stored, capped count.
IsDrop(m, block, reported) == reported < GetManifest(m, block)

\* sync_manifests, its transaction: manifests of the block read at the start
\* are injected, and every row of a miner whose count dropped is invalidated,
\* booked, spent and already invalidated rows included.  (A miner that has no
\* count and reports none gets a manifest of 0 here and none in the code; both
\* read as 0.)
CommitSync(t, hotkeys, reports, cap) ==
    LET block == syncs[t]
        dropped == {m \in hotkeys : IsDrop(m, block, reports[m])}
        new == [k \in hotkeys \X {block} |->
                    [count   |-> Min({reports[k[1]], cap}),
                     is_drop |-> k[1] \in dropped]]
    IN  /\ block # NoBlock
        /\ DOMAIN new \cap DOMAIN manifests = {}
        /\ manifests' = [k \in DOMAIN manifests \cup DOMAIN new |->
                            IF k \in DOMAIN new THEN new[k] ELSE manifests[k]]
        /\ ba' = [k \in DOMAIN ba |->
                    IF k[1] \in dropped
                    THEN [ba[k] EXCEPT !.invalidated = block] ELSE ba[k]]
        /\ syncs' = [syncs EXCEPT ![t] = NoBlock]
        /\ UNCHANGED <<current, blocks, bookings, lastId, routes>>

\* sync_manifests failed: no chain data, the injection lock timed out, or the
\* manifest of this block exists already (unique constraint).
AbortSync(t) ==
    /\ syncs[t] # NoBlock
    /\ syncs' = [syncs EXCEPT ![t] = NoBlock]
    /\ UNCHANGED <<current, manifests, blocks, ba, bookings, lastId, routes>>

-----------------------------------------------------------------------------
(* Blocks *)

\* A block is minted.
MintBlock ==
    /\ current < MaxBlock
    /\ current' = current + 1
    /\ UNCHANGED <<syncs, manifests, blocks, ba, bookings, lastId, routes>>

\* Mutant of FinalizeBlock: drops that were recorded before the block was
\* processed are not looked up.
FinalizeBlockForgetsDrops(n, hotkeys) ==
    LET new == [k \in hotkeys \X {n} |->
                    [allowance   |-> GetManifest(k[1], n),
                     invalidated |-> NoBlock,
                     booking     |-> NoBooking]]
    IN  /\ n \notin blocks
        /\ n >= current - SCAN_REACH
        /\ blocks' = blocks \cup {n}
        /\ ba' = [k \in DOMAIN ba \cup DOMAIN new |->
                    IF k \in DOMAIN new THEN new[k] ELSE ba[k]]
        /\ UNCHANGED <<current, syncs, manifests, bookings, lastId, routes>>

\* process_block_allowance, from the injection lock on: a minted block whose
\* successor is minted too gets its rows.  BlockScan models which blocks the
\* scanners pick and when they finalise them.  An allowance is executors times
\* the block's duration; every block lasts one unit of time here, which is also
\* the unit of Requests and of the expiry.
FinalizeBlock(n, hotkeys) ==
    LET new == [k \in hotkeys \X {n} |->
                    [allowance   |-> GetManifest(k[1], n),
                     invalidated |-> GetManifestDrop(k[1], n),
                     booking     |-> NoBooking]]
    IN  /\ n \notin blocks
        /\ n >= current - SCAN_REACH
        /\ blocks' = blocks \cup {n}
        /\ ba' = [k \in DOMAIN ba \cup DOMAIN new |->
                    IF k \in DOMAIN new THEN new[k] ELSE ba[k]]
        /\ UNCHANGED <<current, syncs, manifests, bookings, lastId, routes>>

\* Mutant of EvictOldData: evicts what a new job can no longer use, and forgets
\* the jobs that run.
EvictExpiredData ==
    LET oldest == current - BLOCK_EXPIRY
        keptRows == {k \in DOMAIN ba : k[2] > oldest}
        referenced == {ba[k].booking : k \in keptRows}
    IN  /\ ba' = Restrict(ba, keptRows)
        /\ manifests' = Restrict(manifests,
                                 {k \in DOMAIN manifests : k[2] > oldest})
        /\ blocks' = {n \in blocks : n > oldest}
        /\ bookings' = Restrict(bookings, DOMAIN bookings \cap referenced)
        /\ UNCHANGED <<current, syncs, lastId, routes>>

\* evict_old_data: old rows, manifests and blocks go, then every booking that
\* no remaining row refers to.
EvictOldData ==
    LET oldest == current - BLOCK_EVICTION_THRESHOLD
        keptRows == {k \in DOMAIN ba : k[2] > oldest}
        referenced == {ba[k].booking : k \in keptRows}
    IN  /\ ba' = Restrict(ba, keptRows)
        /\ manifests' = Restrict(manifests,
                                 {k \in DOMAIN manifests : k[2] > oldest})
        /\ blocks' = {n \in blocks : n > oldest}
        /\ bookings' = Restrict(bookings, DOMAIN bookings \cap referenced)
        /\ UNCHANGED <<current, syncs, lastId, routes>>

-----------------------------------------------------------------------------
(* Bookings *)

\* Mutant of Reservable: booked rows are not filtered out.
ReservableOrBooked(m, start) ==
    {n \in {k[2] : k \in DOMAIN ba} :
        /\ <<m, n>> \in DOMAIN ba
        /\ n >= start - BLOCK_EXPIRY
        /\ ba[<<m, n>>].invalidated = NoBlock}

\* Mutant of Reservable: rows that a dropped manifest invalidated are booked.
ReservableThoughVoid(m, start) ==
    {n \in {k[2] : k \in DOMAIN ba} :
        /\ <<m, n>> \in DOMAIN ba
        /\ n >= start - BLOCK_EXPIRY
        /\ ba[<<m, n>>].booking = NoBooking}

\* The rows reserve_allowance may book.
Reservable(m, start) ==
    {n \in {k[2] : k \in DOMAIN ba} :
        /\ <<m, n>> \in DOMAIN ba
        /\ n >= start - BLOCK_EXPIRY
        /\ ba[<<m, n>>].invalidated = NoBlock
        /\ ba[<<m, n>>].booking = NoBooking}

\* What the rows of blocks S are worth together.
ValueIn(rows, m, S) == MapThenSumSet(LAMBDA n : rows[<<m, n>>].allowance, S)
Value(m, S) == ValueIn(ba, m, S)

\* Oldest first, until the amount is reached: a row is taken when the rows
\* before it do not cover the amount.
Picked(m, start, seconds) ==
    LET free == Reservable(m, start)
    IN  {n \in free : Value(m, {x \in free : x < n}) < seconds}

\* reserve_allowance.
ReserveAllowance(m, seconds, start) ==
    LET id == lastId + 1
        picked == Picked(m, start, seconds)
    IN  /\ lastId < MaxBooking
        /\ seconds <= MAX_JOB_RUN_TIME
        /\ Value(m, Reservable(m, start)) >= seconds
        /\ lastId' = id
        /\ bookings' = [i \in DOMAIN bookings \cup {id} |->
                          IF i = id
                          THEN [is_reserved |-> TRUE, is_spent |-> FALSE,
                                expiry |-> current + seconds + RESERVATION_MARGIN]
                          ELSE bookings[i]]
        /\ ba' = [k \in DOMAIN ba |->
                    IF k[1] = m /\ k[2] \in picked
                    THEN [ba[k] EXCEPT !.booking = id] ELSE ba[k]]
        /\ routes' = [i \in DOMAIN routes \cup {id} |->
                        IF i = id
                        THEN [miner |-> m, blocks |-> picked,
                              seconds |-> seconds, start |-> start]
                        ELSE routes[i]]
        /\ UNCHANGED <<current, syncs, manifests, blocks>>

\* Mutant of UndoAllowanceReservation: a spent booking is undone too.
UndoEvenIfSpent(id) ==
    /\ id \in DOMAIN bookings
    /\ ba' = [k \in DOMAIN ba |->
                IF ba[k].booking = id
                THEN [ba[k] EXCEPT !.booking = NoBooking] ELSE ba[k]]
    /\ bookings' = Restrict(bookings, DOMAIN bookings \ {id})
    /\ routes' = Restrict(routes, DOMAIN routes \ {id})
    /\ UNCHANGED <<current, syncs, manifests, blocks, lastId>>

\* Mutant of UndoAllowanceReservation: the booking goes, its rows stay linked.
UndoKeepsRows(id) ==
    /\ id \in DOMAIN bookings
    /\ ~bookings[id].is_spent
    /\ bookings' = Restrict(bookings, DOMAIN bookings \ {id})
    /\ routes' = Restrict(routes, DOMAIN routes \ {id})
    /\ UNCHANGED <<current, syncs, manifests, blocks, ba, lastId>>

\* Mutant of UndoAllowanceReservation: the rows' booking is overwritten with a
\* number no booking has.
UndoWritesMinusOne(id) ==
    /\ id \in DOMAIN bookings
    /\ ~bookings[id].is_spent
    /\ ba' = [k \in DOMAIN ba |->
                IF ba[k].booking = id
                THEN [ba[k] EXCEPT !.booking = -1] ELSE ba[k]]
    /\ bookings' = Restrict(bookings, DOMAIN bookings \ {id})
    /\ routes' = Restrict(routes, DOMAIN routes \ {id})
    /\ UNCHANGED <<current, syncs, manifests, blocks, lastId>>

\* undo_allowance_reservation: ReservationNotFound and ReservationAlreadySpent
\* leave everything as it was.
UndoAllowanceReservation(id) ==
    /\ id \in DOMAIN bookings
    /\ ~bookings[id].is_spent
    /\ ba' = [k \in DOMAIN ba |->
                IF ba[k].booking = id
                THEN [ba[k] EXCEPT !.booking = NoBooking] ELSE ba[k]]
    /\ bookings' = Restrict(bookings, DOMAIN bookings \ {id})
    /\ routes' = Restrict(routes, DOMAIN routes \ {id})
    /\ UNCHANGED <<current, syncs, manifests, blocks, lastId>>

\* spend_allowance: one conditional UPDATE.
SpendAllowance(id) ==
    /\ id \in DOMAIN bookings
    /\ ~bookings[id].is_spent
    /\ bookings' = [bookings EXCEPT
                      ![id] = [is_reserved |-> FALSE, is_spent |-> TRUE,
                               expiry |-> NoExpiry]]
    /\ UNCHANGED <<current, syncs, manifests, blocks, ba, lastId, routes>>

-----------------------------------------------------------------------------
Init ==
    /\ current = StartBlock
    /\ syncs = [t \in Syncs |-> NoBlock]
    /\ manifests = [k \in {} |-> 0]
    /\ blocks = {}
    /\ ba = [k \in {} |-> 0]
    /\ bookings = [i \in {} |-> 0]
    /\ lastId = 0
    /\ routes = [i \in {} |-> 0]

Next ==
    \/ MintBlock
    \/ EvictOldData
    \/ \E t \in Syncs : StartSync(t) \/ AbortSync(t)
    \/ \E t \in Syncs, hotkeys \in Metagraphs, reports \in [Miners -> Reports],
          cap \in Caps : CommitSync(t, hotkeys, reports, cap)
    \/ \E n \in 0 .. current - 1, hotkeys \in Metagraphs : FinalizeBlock(n, hotkeys)
    \/ \E m \in Miners, seconds \in Requests, lag \in 0 .. ROUTING_LAG :
          lag <= current /\ ReserveAllowance(m, seconds, current - lag)
    \/ \E id \in DOMAIN bookings :
          UndoAllowanceReservation(id) \/ SpendAllowance(id)

Spec == Init /\ [][Next]_vars

-----------------------------------------------------------------------------
(* Properties *)

\* The tables stay well-formed: keys, null markers and ranges of every column
\* that a transaction writes, and the routes that callers hold.
TypeOK ==
    /\ current \in Nat
    /\ syncs \in [Syncs -> Nat \cup {NoBlock}]
    /\ DOMAIN manifests \subseteq Keys
    /\ manifests \in [DOMAIN manifests -> Manifest]
    /\ blocks \subseteq Nat
    /\ DOMAIN ba \subseteq Keys
    /\ ba \in [DOMAIN ba -> BlockAllowance]
    /\ lastId \in Nat
    /\ DOMAIN bookings \subseteq BookingIds
    /\ bookings \in [DOMAIN bookings -> Booking]
    /\ DOMAIN routes \subseteq BookingIds
    /\ routes \in [DOMAIN routes -> Route]

\* Two reservations that were not undone never list the same block of the same
\* miner, however long ago they were made: the block ids of a job's receipt
\* (JobRoute.allowance_blocks) pay for that job only.
NoBlockPaysTwice ==
    \A i, j \in DOMAIN routes :
        i # j /\ routes[i].miner = routes[j].miner
            => routes[i].blocks \cap routes[j].blocks = {}

\* For as long as a job may run after its start block, the booking it holds
\* exists: evict_old_data never takes the reservation of a running job, so
\* spend_allowance and undo_allowance_reservation find it.
RunningJobKeepsBooking ==
    \A i \in DOMAIN routes :
        current <= routes[i].start + MAX_JOB_BLOCKS => i \in DOMAIN bookings

\* What the caller was given is what the database holds: every row linked to a
\* booking is one of the blocks handed out with it, and the blocks handed out
\* are linked to it or too old to be reused.
RoutesMatchLedger ==
    /\ \A k \in DOMAIN ba : ba[k].booking # NoBooking =>
        /\ ba[k].booking \in DOMAIN bookings
        /\ ba[k].booking \in DOMAIN routes
        /\ routes[ba[k].booking].miner = k[1]
        /\ k[2] \in routes[ba[k].booking].blocks
    /\ \A i \in DOMAIN routes : \A n \in routes[i].blocks :
        IF <<routes[i].miner, n>> \in DOMAIN ba
        THEN ba[<<routes[i].miner, n>>].booking = i
        ELSE n <= current - BLOCK_EVICTION_THRESHOLD

\* A reservation whose rows are all still there covers the job's seconds, and
\* without its newest block it would not: no allowance is tied up needlessly.
ReservationIsTight ==
    \A i \in DOMAIN routes :
        LET r == routes[i] IN
        (\A n \in r.blocks : <<r.miner, n>> \in DOMAIN ba) =>
            /\ Value(r.miner, r.blocks) >= r.seconds
            /\ r.blocks # {} =>
                 Value(r.miner, r.blocks \ {Max(r.blocks)}) < r.seconds

\* A row that can still be reserved has seen no drop: a miner that takes
\* executors away loses every allowance granted before, whichever of the block
\* scan and the manifest sync came first.
ReservableRowsSawNoDrop ==
    \A k \in DOMAIN ba :
        ba[k].invalidated = NoBlock => GetManifestDrop(k[1], k[2]) = NoBlock

\* What reserve_allowance takes is right: its blocks cover the job and none of
\* them is spare, and a row it may still pick saw no drop of the miner's
\* executors, though cap changes and overlapping syncs write the rows it
\* reads.
ReservationsAreRight ==
    /\ ReservationIsTight
    /\ ReservableRowsSawNoDrop


\* Spending is final: a spent booking never becomes unspent, and its rows stay
\* linked to it until they are evicted.
SpentStaysSpent ==
    [][ \A i \in DOMAIN bookings : bookings[i].is_spent =>
            /\ i \in DOMAIN bookings' => bookings'[i].is_spent
            /\ \A k \in DOMAIN ba : ba[k].booking = i /\ k \in DOMAIN ba'
                   => ba'[k].booking = i ]_vars

\* How the tables show the state of a slot.
SlotOf(k) ==
    IF k \in DOMAIN ba
    THEN [st |-> IF ba[k].booking = NoBooking THEN "free"
                 ELSE IF bookings[ba[k].booking].is_spent THEN "spent" ELSE "held",
          by |-> ba[k].booking,
          void |-> ba[k].invalidated # NoBlock]
    ELSE [st |-> IF k[2] <= current - BLOCK_EVICTION_THRESHOLD THEN "gone" ELSE "none",
          by |-> NoBooking, void |-> FALSE]

Slots == Miners \X (0 .. MaxBlock - 1)

LedgerOfTables == INSTANCE Ledger WITH
    slot <- [k \in Slots |-> SlotOf(k)], last <- lastId

\* The tables implement the abstract ledger: whatever scans, syncs, evictions
\* and jobs do in between, a block's allowance is granted once, is given to one
\* job at a time, is spent or given back together with the rest of the job's
\* blocks, and neither a voided nor an evicted one is given out again.
ImplementsLedger == LedgerOfTables!LedgerSpec

\* booking.py:33-34 "The reservation will auto expire after `amount +
\* settings.RESERVATION_MARGIN_SECONDS` seconds": the rows of a reservation past
\* its expiry can be reserved again.
ReservationsExpire ==
    \A k \in DOMAIN ba :
        LET i == ba[k].booking IN
        (/\ i # NoBooking /\ ba[k].invalidated = NoBlock
         /\ ~bookings[i].is_spent /\ bookings[i].expiry < current)
            => k[2] \in Reservable(k[1], k[2])
=============================================================================
