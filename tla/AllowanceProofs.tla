--------------------------- MODULE AllowanceProofs ---------------------------
(***************************************************************************)
(* Proofs about the allowance ledger, for every choice of its constants.   *)
(***************************************************************************)
EXTENDS Allowance, SetFacts

-----------------------------------------------------------------------------
(* Facts about the operators of Allowance *)

\* get_manifests returns a count.
LEMMA GetManifestType ==
    ASSUME TypeOK, NEW m \in Miners, NEW n \in Nat
    PROVE  GetManifest(m, n) \in Nat
<1>. DEFINE known == {b \in ManifestBlocks(m) : b <= n}
<1>1. ManifestBlocks(m) \subseteq Nat
  BY DEF TypeOK, Keys, ManifestBlocks
<1>2. ASSUME NEW b \in ManifestBlocks(m) PROVE <<m, b>> \in DOMAIN manifests
  BY DEF TypeOK, Keys, ManifestBlocks
<1>3. CASE known = {}
  BY <1>3 DEF GetManifest
<1>4. CASE known # {}
  <2>1. known \subseteq 0 .. n
    BY <1>1
  <2>2. Max(known) \in known
    BY <1>4, <2>1, NatMax
  <2>3. <<m, Max(known)>> \in DOMAIN manifests
    BY <2>2, <1>2
  <2>4. manifests[<<m, Max(known)>>] \in Manifest
    BY <2>3 DEF TypeOK
  <2>. QED BY <1>4, <2>4 DEF GetManifest, Manifest
<1>. QED BY <1>3, <1>4

\* get_manifest_drops returns a block after n, or none.
LEMMA GetManifestDropType ==
    ASSUME TypeOK, NEW m \in Miners, NEW n \in Nat
    PROVE  GetManifestDrop(m, n) \in Nat \cup {NoBlock}
<1>. DEFINE drops == {b \in ManifestBlocks(m) :
                         b > n /\ manifests[<<m, b>>].is_drop}
<1>1. ManifestBlocks(m) \subseteq Nat
  BY DEF TypeOK, Keys, ManifestBlocks
<1>2. CASE drops = {}
  BY <1>2 DEF GetManifestDrop
<1>3. CASE drops # {}
  <2>1. Min(drops) \in drops
    BY <1>1, <1>3, NatMin
  <2>. QED BY <1>1, <1>3, <2>1 DEF GetManifestDrop
<1>. QED BY <1>2, <1>3

\* The rows of no block are worth nothing.
LEMMA ValueOfNothing ==
    ASSUME NEW m
    PROVE  Value(m, {}) = 0
<1>. DEFINE F(g) == [s \in SUBSET {} |->
                        IF s = {} THEN 0
                        ELSE LET x == CHOOSE y \in s : TRUE
                             IN  ba[<<m, x>>].allowance + g[s \ {x}]]
            it == CHOOSE g : g = F(g)
<1>1. \A g : F(g) = [s \in SUBSET {} |-> 0]
  OBVIOUS
<1>2. it = F(it)
  <2>. DEFINE z == [s \in SUBSET {} |-> 0]
  <2>1. z = F(z)
    BY <1>1
  <2>. QED BY <2>1
<1>3. it[{}] = 0
  BY <1>1, <1>2
<1>. QED BY <1>3 DEF Value, ValueIn, MapThenSumSet, MapThenFoldSet

\* Every row is of a finalised block, so no block is finalised over live rows.
RowsOfBlocks == \A k \in DOMAIN ba : k[2] \in blocks

\* Booking ids come from a sequence and are never handed out twice.
IdsInSequence ==
    /\ DOMAIN bookings \subseteq 1 .. lastId
    /\ DOMAIN routes \subseteq 1 .. lastId

\* A route holds at least one block, and only blocks young enough to pay for a
\* job that starts at its start block.
RoutesAreFresh ==
    \A i \in DOMAIN routes :
        /\ routes[i].blocks # {}
        /\ \A n \in routes[i].blocks : n >= routes[i].start - BLOCK_EXPIRY

IInv ==
    /\ TypeOK
    /\ RowsOfBlocks
    /\ IdsInSequence
    /\ RoutesAreFresh
    /\ RoutesMatchLedger
    /\ NoBlockPaysTwice

-----------------------------------------------------------------------------
(* reserve_allowance *)

\* A reservation that goes through books at least one row.
LEMMA PickedIsNotEmpty ==
    ASSUME TypeOK, NEW m \in Miners, NEW start \in Int, NEW seconds \in Requests,
           Value(m, Reservable(m, start)) >= seconds
    PROVE  Picked(m, start, seconds) # {}
<1>. DEFINE free == Reservable(m, start)
<1>0. seconds \in Nat /\ seconds > 0
  BY ConstantsAssumption, RequestsArePositive
<1>1. free \subseteq Nat
  BY DEF Reservable, TypeOK, Keys
<1>2. free # {}
  BY <1>0, ValueOfNothing
<1>3. Min(free) \in free /\ \A y \in free : Min(free) <= y
  BY <1>1, <1>2, NatMin
<1>4. {x \in free : x < Min(free)} = {}
  BY <1>1, <1>3
<1>5. Value(m, {x \in free : x < Min(free)}) < seconds
  BY <1>0, <1>4, ValueOfNothing
<1>. QED BY <1>3, <1>5 DEF Picked

\* It only books rows of its miner that exist, are young enough and are free.
LEMMA PickedIsFree ==
    ASSUME NEW m \in Miners, NEW start \in Int, NEW seconds \in Requests,
           NEW n \in Picked(m, start, seconds)
    PROVE  /\ <<m, n>> \in DOMAIN ba
           /\ n >= start - BLOCK_EXPIRY
           /\ ba[<<m, n>>].booking = NoBooking
BY DEF Picked, Reservable

-----------------------------------------------------------------------------
(* Type correctness *)

\* Empty tables are well-formed.
LEMMA InitType == Init => TypeOK
BY ConstantsAssumption DEF Init, TypeOK, NoBlock, Keys, BookingIds

\* sync_manifests writes well-formed manifests and block numbers.
LEMMA CommitSyncType ==
    ASSUME TypeOK, NEW t \in Syncs, NEW hotkeys \in Metagraphs,
           NEW reports \in [Miners -> Reports], NEW cap \in Caps,
           CommitSync(t, hotkeys, reports, cap)
    PROVE  TypeOK'
<1>. DEFINE block == syncs[t]
            dropped == {m \in hotkeys : IsDrop(m, block, reports[m])}
            new == [k \in hotkeys \X {block} |->
                       [count   |-> Min({reports[k[1]], cap}),
                        is_drop |-> k[1] \in dropped]]
<1>1. block \in Nat /\ hotkeys \subseteq Miners /\ cap \in Nat
  BY ConstantsAssumption DEF TypeOK, CommitSync, NoBlock
<1>2. ASSUME NEW k \in hotkeys \X {block}
      PROVE  k \in Keys /\ new[k] \in Manifest
  <2>1. k[1] \in Miners /\ reports[k[1]] \in Nat
    BY <1>1, ConstantsAssumption
  <2>2. Min({reports[k[1]], cap}) \in Nat
    BY <1>1, <2>1, NatMin, {reports[k[1]], cap} \subseteq Nat
  <2>. QED BY <1>1, <2>1, <2>2 DEF Manifest, Keys
<1>3. /\ manifests' = [k \in DOMAIN manifests \cup DOMAIN new |->
                          IF k \in DOMAIN new THEN new[k] ELSE manifests[k]]
      /\ ba' = [k \in DOMAIN ba |->
                  IF k[1] \in dropped
                  THEN [ba[k] EXCEPT !.invalidated = block] ELSE ba[k]]
      /\ syncs' = [syncs EXCEPT ![t] = NoBlock]
      /\ UNCHANGED <<current, blocks, bookings, lastId, routes>>
  BY DEF CommitSync
<1>. HIDE DEF block, dropped, new
<1>4. DOMAIN new = hotkeys \X {block}
  BY DEF new
<1>5. DOMAIN manifests' \subseteq Keys /\ manifests' \in [DOMAIN manifests' -> Manifest]
  BY <1>2, <1>3, <1>4 DEF TypeOK
<1>6. DOMAIN ba' \subseteq Keys /\ ba' \in [DOMAIN ba' -> BlockAllowance]
  BY <1>1, <1>3 DEF TypeOK, BlockAllowance
<1>7. syncs' \in [Syncs -> Nat \cup {NoBlock}]
  BY <1>3 DEF TypeOK
<1>. QED BY <1>3, <1>5, <1>6, <1>7 DEF TypeOK

\* process_block_allowance writes well-formed rows, invalidated or not.
LEMMA FinalizeBlockType ==
    ASSUME TypeOK, NEW n \in Nat, NEW hotkeys \in Metagraphs,
           FinalizeBlock(n, hotkeys)
    PROVE  TypeOK'
<1>. DEFINE new == [k \in hotkeys \X {n} |->
                       [allowance   |-> GetManifest(k[1], n),
                        invalidated |-> GetManifestDrop(k[1], n),
                        booking     |-> NoBooking]]
<1>1. ASSUME NEW k \in hotkeys \X {n}
      PROVE  k \in Keys /\ new[k] \in BlockAllowance
  <2>1. k[1] \in Miners /\ k \in Keys
    BY ConstantsAssumption DEF Keys
  <2>. QED BY <2>1, GetManifestType, GetManifestDropType DEF BlockAllowance
<1>2. /\ blocks' = blocks \cup {n}
      /\ ba' = [k \in DOMAIN ba \cup DOMAIN new |->
                  IF k \in DOMAIN new THEN new[k] ELSE ba[k]]
      /\ UNCHANGED <<current, syncs, manifests, bookings, lastId, routes>>
  BY DEF FinalizeBlock
<1>. HIDE DEF new
<1>3. DOMAIN new = hotkeys \X {n}
  BY DEF new
<1>4. DOMAIN ba' \subseteq Keys /\ ba' \in [DOMAIN ba' -> BlockAllowance]
  BY <1>1, <1>2, <1>3 DEF TypeOK
<1>. QED BY <1>2, <1>4 DEF TypeOK

\* reserve_allowance writes a well-formed booking and links rows to it.
LEMMA ReserveType ==
    ASSUME TypeOK, NEW m \in Miners, NEW seconds \in Requests,
           NEW start \in Nat, ReserveAllowance(m, seconds, start)
    PROVE  TypeOK'
<1>. DEFINE id == lastId + 1
            picked == Picked(m, start, seconds)
            booking == [is_reserved |-> TRUE, is_spent |-> FALSE,
                        expiry |-> current + seconds + RESERVATION_MARGIN]
            route == [miner |-> m, blocks |-> picked,
                      seconds |-> seconds, start |-> start]
<1>1. picked \subseteq Nat
  BY DEF TypeOK, Keys, Picked, Reservable
<1>2. id \in BookingIds /\ booking \in Booking /\ route \in Route
  BY <1>1, ConstantsAssumption DEF TypeOK, BookingIds, Booking, Route
<1>3. /\ lastId' = id
      /\ bookings' = [i \in DOMAIN bookings \cup {id} |->
                        IF i = id THEN booking ELSE bookings[i]]
      /\ ba' = [k \in DOMAIN ba |->
                  IF k[1] = m /\ k[2] \in picked
                  THEN [ba[k] EXCEPT !.booking = id] ELSE ba[k]]
      /\ routes' = [i \in DOMAIN routes \cup {id} |->
                      IF i = id THEN route ELSE routes[i]]
      /\ UNCHANGED <<current, syncs, manifests, blocks>>
  BY DEF ReserveAllowance
<1>. HIDE DEF id, picked, booking, route
<1>4. DOMAIN ba' \subseteq Keys /\ ba' \in [DOMAIN ba' -> BlockAllowance]
  BY <1>2, <1>3, SMTT(60) DEF TypeOK, BlockAllowance
<1>5. /\ DOMAIN bookings' \subseteq BookingIds
      /\ bookings' \in [DOMAIN bookings' -> Booking]
  BY <1>2, <1>3 DEF TypeOK
<1>6. /\ DOMAIN routes' \subseteq BookingIds
      /\ routes' \in [DOMAIN routes' -> Route]
  BY <1>2, <1>3 DEF TypeOK
<1>7. lastId' \in Nat
  BY <1>2, <1>3 DEF BookingIds
<1>. QED BY <1>3, <1>4, <1>5, <1>6, <1>7 DEF TypeOK

\* Every transaction keeps the tables well-formed.
LEMMA NextType == TypeOK /\ [Next]_vars => TypeOK'
<1>. SUFFICES ASSUME TypeOK, [Next]_vars PROVE TypeOK'
  OBVIOUS
<1>. USE DEF TypeOK
<1>1. CASE MintBlock
  BY <1>1 DEF MintBlock
<1>2. CASE EvictOldData
  BY <1>2 DEF EvictOldData, Restrict
<1>3. ASSUME NEW t \in Syncs, StartSync(t) \/ AbortSync(t)
      PROVE  TypeOK'
  BY <1>3 DEF StartSync, AbortSync
<1>4. ASSUME NEW t \in Syncs, NEW hotkeys \in Metagraphs,
             NEW reports \in [Miners -> Reports], NEW cap \in Caps,
             CommitSync(t, hotkeys, reports, cap)
      PROVE  TypeOK'
  BY <1>4, CommitSyncType
<1>5. ASSUME NEW n \in 0 .. current - 1, NEW hotkeys \in Metagraphs,
             FinalizeBlock(n, hotkeys)
      PROVE  TypeOK'
  BY <1>5, FinalizeBlockType
<1>6. ASSUME NEW m \in Miners, NEW seconds \in Requests,
             NEW lag \in 0 .. ROUTING_LAG, lag <= current,
             ReserveAllowance(m, seconds, current - lag)
      PROVE  TypeOK'
  BY <1>6, ReserveType, ConstantsAssumption, current - lag \in Nat
<1>7. ASSUME NEW id \in DOMAIN bookings,
             UndoAllowanceReservation(id) \/ SpendAllowance(id)
      PROVE  TypeOK'
  <2>1. CASE UndoAllowanceReservation(id)
    BY <2>1 DEF UndoAllowanceReservation, Restrict, BlockAllowance
  <2>2. CASE SpendAllowance(id)
    BY <2>2 DEF SpendAllowance, Booking
  <2>. QED BY <1>7, <2>1, <2>2
<1>8. CASE UNCHANGED vars
  BY <1>8 DEF vars
<1>. QED BY <1>1, <1>2, <1>3, <1>4, <1>5, <1>6, <1>7, <1>8 DEF Next

\* The tables stay well-formed: keys, null markers and ranges.
THEOREM TypeCorrect == Spec => []TypeOK
BY InitType, NextType, PTL DEF Spec

-----------------------------------------------------------------------------
(* The ledger and what callers hold agree *)

\* Before the first transaction ledger and routes agree.
LEMMA InitLedger == Init => IInv
<1>. SUFFICES ASSUME Init PROVE IInv
  OBVIOUS
<1>1. DOMAIN ba = {} /\ DOMAIN bookings = {} /\ DOMAIN routes = {}
  BY DEF Init
<1>. QED BY <1>1, InitType
         DEF IInv, RowsOfBlocks, IdsInSequence, RoutesAreFresh, RoutesMatchLedger,
             NoBlockPaysTwice

\* sync_manifests invalidates rows but moves none between bookings.
LEMMA CommitSyncLedger ==
    ASSUME IInv, NEW t \in Syncs, NEW hotkeys \in Metagraphs,
           NEW reports \in [Miners -> Reports], NEW cap \in Caps,
           CommitSync(t, hotkeys, reports, cap)
    PROVE  /\ RowsOfBlocks' /\ IdsInSequence'
           /\ RoutesAreFresh' /\ RoutesMatchLedger' /\ NoBlockPaysTwice'
<1>1. /\ DOMAIN ba' = DOMAIN ba
      /\ \A k \in DOMAIN ba : ba'[k].booking = ba[k].booking
      /\ UNCHANGED <<current, blocks, bookings, lastId, routes>>
  BY DEF CommitSync, IInv, TypeOK, BlockAllowance
<1>. QED BY <1>1 DEF IInv, RowsOfBlocks, IdsInSequence, RoutesAreFresh,
                     RoutesMatchLedger, NoBlockPaysTwice

\* process_block_allowance only adds rows that no booking has, for a block that
\* no caller can hold: it is above the eviction floor and had no rows.
LEMMA FinalizeBlockLedger ==
    ASSUME IInv, NEW n \in Nat, NEW hotkeys \in Metagraphs,
           FinalizeBlock(n, hotkeys)
    PROVE  /\ RowsOfBlocks' /\ IdsInSequence'
           /\ RoutesAreFresh' /\ RoutesMatchLedger' /\ NoBlockPaysTwice'
<1>1. /\ n \notin blocks /\ n >= current - SCAN_REACH
      /\ blocks' = blocks \cup {n}
      /\ DOMAIN ba' = DOMAIN ba \cup (hotkeys \X {n})
      /\ \A k \in hotkeys \X {n} : ba'[k].booking = NoBooking
      /\ UNCHANGED <<current, bookings, lastId, routes>>
  BY DEF FinalizeBlock
<1>2. \A k \in DOMAIN ba : k \notin hotkeys \X {n}
  BY <1>1 DEF IInv, RowsOfBlocks
<1>3. \A k \in DOMAIN ba : ba'[k] = ba[k]
  BY <1>2 DEF FinalizeBlock
<1>4. RowsOfBlocks'
  BY <1>1 DEF IInv, RowsOfBlocks
<1>5. IdsInSequence' /\ RoutesAreFresh' /\ NoBlockPaysTwice'
  BY <1>1 DEF IInv, IdsInSequence, RoutesAreFresh, NoBlockPaysTwice
<1>6. RoutesMatchLedger'
  <2>1. ASSUME NEW i \in DOMAIN routes, NEW x \in routes[i].blocks,
               <<routes[i].miner, x>> \notin DOMAIN ba
        PROVE  x # n
    <3>1. x <= current - BLOCK_EVICTION_THRESHOLD
      BY <2>1 DEF IInv, RoutesMatchLedger
    <3>2. x \in Nat /\ current \in Nat
      BY DEF IInv, TypeOK, Route
    <3>. QED BY <1>1, <3>1, <3>2, EvictionBehindScans, ConstantsAssumption
  <2>2. ASSUME NEW k \in DOMAIN ba', ba'[k].booking # NoBooking
        PROVE  k \in DOMAIN ba /\ ba'[k].booking = ba[k].booking
    BY <1>1, <1>3, <2>2
  <2>3. ASSUME NEW i \in DOMAIN routes, NEW x \in routes[i].blocks
        PROVE  IF <<routes[i].miner, x>> \in DOMAIN ba'
               THEN ba'[<<routes[i].miner, x>>].booking = i
               ELSE x <= current - BLOCK_EVICTION_THRESHOLD
    BY <1>1, <1>3, <2>1 DEF IInv, RoutesMatchLedger
  <2>. QED BY <1>1, <2>2, <2>3 DEF IInv, RoutesMatchLedger
<1>. QED BY <1>4, <1>5, <1>6

\* evict_old_data only removes rows of blocks below the floor that no live route
\* can still name.
LEMMA EvictLedger ==
    ASSUME IInv, EvictOldData
    PROVE  /\ RowsOfBlocks' /\ IdsInSequence'
           /\ RoutesAreFresh' /\ RoutesMatchLedger' /\ NoBlockPaysTwice'
<1>. DEFINE oldest == current - BLOCK_EVICTION_THRESHOLD
<1>1. /\ DOMAIN ba' = {k \in DOMAIN ba : k[2] > oldest}
      /\ \A k \in DOMAIN ba' : ba'[k] = ba[k]
      /\ blocks' = {n \in blocks : n > oldest}
      /\ DOMAIN bookings' = DOMAIN bookings \cap {ba[k].booking : k \in DOMAIN ba'}
      /\ UNCHANGED <<current, lastId, routes>>
  BY DEF EvictOldData, Restrict
<1>2. RowsOfBlocks' /\ IdsInSequence' /\ RoutesAreFresh' /\ NoBlockPaysTwice'
  BY <1>1 DEF IInv, RowsOfBlocks, IdsInSequence, RoutesAreFresh, NoBlockPaysTwice
<1>3. ASSUME NEW k \in DOMAIN ba', ba'[k].booking # NoBooking
      PROVE  /\ ba'[k].booking \in DOMAIN bookings'
             /\ ba'[k].booking \in DOMAIN routes
             /\ routes[ba'[k].booking].miner = k[1]
             /\ k[2] \in routes[ba'[k].booking].blocks
  BY <1>1, <1>3 DEF IInv, RoutesMatchLedger
<1>4. ASSUME NEW i \in DOMAIN routes, NEW x \in routes[i].blocks
      PROVE  IF <<routes[i].miner, x>> \in DOMAIN ba'
             THEN ba'[<<routes[i].miner, x>>].booking = i
             ELSE x <= oldest
  <2>1. x \in Nat /\ oldest \in Int
    BY ConstantsAssumption DEF IInv, TypeOK, Route
  <2>. QED BY <1>1, <2>1 DEF IInv, RoutesMatchLedger
<1>. QED BY <1>1, <1>2, <1>3, <1>4 DEF RoutesMatchLedger

\* reserve_allowance gives its caller a fresh id and exactly the rows it linked.
LEMMA ReserveLedger ==
    ASSUME IInv, NEW m \in Miners, NEW seconds \in Requests,
           NEW start \in Nat, ReserveAllowance(m, seconds, start)
    PROVE  /\ RowsOfBlocks' /\ IdsInSequence'
           /\ RoutesAreFresh' /\ RoutesMatchLedger' /\ NoBlockPaysTwice'
<1>. DEFINE id == lastId + 1
            picked == Picked(m, start, seconds)
<1>1. /\ Value(m, Reservable(m, start)) >= seconds
      /\ lastId' = id
      /\ DOMAIN bookings' = DOMAIN bookings \cup {id}
      /\ DOMAIN routes' = DOMAIN routes \cup {id}
      /\ routes'[id].miner = m /\ routes'[id].blocks = picked
      /\ routes'[id].start = start
      /\ DOMAIN ba' = DOMAIN ba
      /\ UNCHANGED <<current, blocks>>
  BY DEF ReserveAllowance
<1>2. ASSUME NEW k \in DOMAIN ba
      PROVE  ba'[k].booking = IF k[1] = m /\ k[2] \in picked
                              THEN id ELSE ba[k].booking
  <2>1. ba[k] \in BlockAllowance
    BY DEF IInv, TypeOK
  <2>. QED BY <2>1 DEF ReserveAllowance, BlockAllowance
<1>3. \A i \in DOMAIN routes : i # id /\ routes'[i] = routes[i]
  BY DEF ReserveAllowance, IInv, IdsInSequence, TypeOK
<1>4. /\ picked # {}
      /\ \A n \in picked : /\ <<m, n>> \in DOMAIN ba
                           /\ n >= start - BLOCK_EXPIRY
                           /\ ba[<<m, n>>].booking = NoBooking
  BY <1>1, PickedIsNotEmpty, PickedIsFree DEF IInv
<1>. HIDE DEF picked
<1>5. RowsOfBlocks'
  BY <1>1 DEF IInv, RowsOfBlocks
<1>6. IdsInSequence'
  BY <1>1 DEF IInv, IdsInSequence, TypeOK
<1>7. RoutesAreFresh'
  BY <1>1, <1>3, <1>4 DEF IInv, RoutesAreFresh
<1>8. ASSUME NEW k \in DOMAIN ba', ba'[k].booking # NoBooking
      PROVE  /\ ba'[k].booking \in DOMAIN bookings'
             /\ ba'[k].booking \in DOMAIN routes'
             /\ routes'[ba'[k].booking].miner = k[1]
             /\ k[2] \in routes'[ba'[k].booking].blocks
  <2>1. CASE k[1] = m /\ k[2] \in picked
    BY <1>1, <1>2, <2>1
  <2>2. CASE ~(k[1] = m /\ k[2] \in picked)
    BY <1>1, <1>2, <1>3, <1>8, <2>2 DEF IInv, RoutesMatchLedger
  <2>. QED BY <2>1, <2>2
<1>9. ASSUME NEW i \in DOMAIN routes', NEW x \in routes'[i].blocks
      PROVE  IF <<routes'[i].miner, x>> \in DOMAIN ba'
             THEN ba'[<<routes'[i].miner, x>>].booking = i
             ELSE x <= current - BLOCK_EVICTION_THRESHOLD
  <2>1. CASE i = id
    BY <1>1, <1>2, <1>4, <2>1
  <2>2. CASE i \in DOMAIN routes
    <3>1. /\ i # NoBooking
          /\ routes'[i] = routes[i] /\ x \in routes[i].blocks
      BY <1>3, <1>9, <2>2 DEF IInv, TypeOK, BookingIds, NoBooking
    <3>2. CASE <<routes[i].miner, x>> \in DOMAIN ba
      <4>1. ba[<<routes[i].miner, x>>].booking = i
        BY <2>2, <3>1, <3>2 DEF IInv, RoutesMatchLedger
      <4>2. ~(routes[i].miner = m /\ x \in picked)
        BY <1>4, <3>1, <4>1
      <4>. QED BY <1>1, <1>2, <3>1, <3>2, <4>1, <4>2
    <3>3. CASE <<routes[i].miner, x>> \notin DOMAIN ba
      BY <1>1, <2>2, <3>1, <3>3 DEF IInv, RoutesMatchLedger
    <3>. QED BY <3>2, <3>3
  <2>. QED BY <1>1, <2>1, <2>2
<1>10. RoutesMatchLedger'
  BY <1>1, <1>8, <1>9 DEF RoutesMatchLedger
<1>11. NoBlockPaysTwice'
  <2>1. ASSUME NEW i \in DOMAIN routes, routes[i].miner = m
        PROVE  routes[i].blocks \cap picked = {}
    <3>1. i # NoBooking
      BY DEF IInv, TypeOK, BookingIds, NoBooking
    <3>. QED BY <1>4, <2>1, <3>1 DEF IInv, RoutesMatchLedger
  <2>. QED BY <1>1, <1>3, <2>1 DEF IInv, NoBlockPaysTwice
<1>. QED BY <1>5, <1>6, <1>7, <1>10, <1>11

\* undo_allowance_reservation frees the rows of that booking and of no other.
LEMMA UndoLedger ==
    ASSUME IInv, NEW id \in DOMAIN bookings, UndoAllowanceReservation(id)
    PROVE  /\ RowsOfBlocks' /\ IdsInSequence'
           /\ RoutesAreFresh' /\ RoutesMatchLedger' /\ NoBlockPaysTwice'
<1>1. /\ DOMAIN ba' = DOMAIN ba
      /\ DOMAIN bookings' = DOMAIN bookings \ {id}
      /\ DOMAIN routes' = DOMAIN routes \ {id}
      /\ \A i \in DOMAIN routes' : routes'[i] = routes[i]
      /\ UNCHANGED <<current, blocks, lastId>>
  BY DEF UndoAllowanceReservation, Restrict
<1>2. ASSUME NEW k \in DOMAIN ba
      PROVE  ba'[k].booking = IF ba[k].booking = id THEN NoBooking ELSE ba[k].booking
  <2>1. ba[k] \in BlockAllowance
    BY DEF IInv, TypeOK
  <2>. QED BY <2>1 DEF UndoAllowanceReservation, BlockAllowance
<1>3. RowsOfBlocks' /\ IdsInSequence' /\ RoutesAreFresh' /\ NoBlockPaysTwice'
  BY <1>1 DEF IInv, RowsOfBlocks, IdsInSequence, RoutesAreFresh, NoBlockPaysTwice
<1>4. RoutesMatchLedger'
  BY <1>1, <1>2 DEF IInv, RoutesMatchLedger
<1>. QED BY <1>3, <1>4

\* Every transaction keeps the ledger and the callers' routes in agreement.
LEMMA NextLedger == IInv /\ [Next]_vars => IInv'
<1>. SUFFICES ASSUME IInv, [Next]_vars PROVE IInv'
  OBVIOUS
<1>. DEFINE Goal == /\ RowsOfBlocks' /\ IdsInSequence'
                    /\ RoutesAreFresh' /\ RoutesMatchLedger' /\ NoBlockPaysTwice'
<1>0. TypeOK /\ TypeOK'
  BY NextType DEF IInv
<1>. SUFFICES Goal
  BY <1>0 DEF IInv
<1>1. CASE MintBlock
  <2>1. current' = current + 1 /\ UNCHANGED <<blocks, ba, bookings, lastId, routes>>
    BY <1>1 DEF MintBlock
  <2>2. \A i \in DOMAIN routes : routes[i].blocks \subseteq Nat
    BY <1>0 DEF TypeOK, Route
  <2>3. RoutesMatchLedger'
    BY <1>0, <2>1, <2>2, ConstantsAssumption DEF IInv, TypeOK, RoutesMatchLedger
  <2>. QED BY <2>1, <2>3 DEF IInv, RowsOfBlocks, IdsInSequence, RoutesAreFresh,
                         NoBlockPaysTwice
<1>2. CASE EvictOldData
  BY <1>2, EvictLedger
<1>3. ASSUME NEW t \in Syncs, StartSync(t) \/ AbortSync(t)
      PROVE  Goal
  BY <1>3 DEF IInv, StartSync, AbortSync, RowsOfBlocks, IdsInSequence,
              RoutesAreFresh, RoutesMatchLedger, NoBlockPaysTwice
<1>4. ASSUME NEW t \in Syncs, NEW hotkeys \in Metagraphs,
             NEW reports \in [Miners -> Reports], NEW cap \in Caps,
             CommitSync(t, hotkeys, reports, cap)
      PROVE  Goal
  BY <1>4, CommitSyncLedger
<1>5. ASSUME NEW n \in 0 .. current - 1, NEW hotkeys \in Metagraphs,
             FinalizeBlock(n, hotkeys)
      PROVE  Goal
  BY <1>5, FinalizeBlockLedger
<1>6. ASSUME NEW m \in Miners, NEW seconds \in Requests,
             NEW lag \in 0 .. ROUTING_LAG, lag <= current,
             ReserveAllowance(m, seconds, current - lag)
      PROVE  Goal
  <2>1. current - lag \in Nat
    BY <1>0, <1>6, ConstantsAssumption DEF TypeOK
  <2>. QED BY <1>6, <2>1, ReserveLedger
<1>7. ASSUME NEW id \in DOMAIN bookings,
             UndoAllowanceReservation(id) \/ SpendAllowance(id)
      PROVE  Goal
  <2>1. CASE UndoAllowanceReservation(id)
    BY <2>1, UndoLedger
  <2>2. CASE SpendAllowance(id)
    BY <2>2 DEF SpendAllowance, IInv, RowsOfBlocks, IdsInSequence,
                RoutesAreFresh, RoutesMatchLedger, NoBlockPaysTwice
  <2>. QED BY <1>7, <2>1, <2>2
<1>8. CASE UNCHANGED vars
  BY <1>8 DEF vars, IInv, RowsOfBlocks, IdsInSequence, RoutesAreFresh,
              RoutesMatchLedger, NoBlockPaysTwice
<1>. HIDE DEF Goal
<1>. QED BY <1>1, <1>2, <1>3, <1>4, <1>5, <1>6, <1>7, <1>8 DEF Next

\* The inductive invariant holds in every state that the transactions reach.
LEMMA LedgerInvariant == Spec => []IInv
BY InitLedger, NextLedger, PTL DEF Spec

\* What a caller was given is what the database holds, for any number of
\* miners, blocks, bookings and concurrent syncs.
THEOREM RoutesAlwaysMatchLedger == Spec => []RoutesMatchLedger
<1>1. IInv => RoutesMatchLedger
  BY DEF IInv
<1>. QED BY <1>1, LedgerInvariant, PTL

\* The block ids handed out with two reservations of a miner are disjoint, so
\* no block ever pays for two jobs.
THEOREM NoBlockEverPaysTwice == Spec => []NoBlockPaysTwice
<1>1. IInv => NoBlockPaysTwice
  BY DEF IInv
<1>. QED BY <1>1, LedgerInvariant, PTL

\* No job that runs within the time it may take loses its booking to the
\* eviction: this is where EvictionBehindJobs is needed.
THEOREM RunningJobsKeepBookings == Spec => []RunningJobKeepsBooking
<1>1. IInv => RunningJobKeepsBooking
  <2>. SUFFICES ASSUME IInv, NEW i \in DOMAIN routes,
                       current <= routes[i].start + MAX_JOB_BLOCKS
                PROVE  i \in DOMAIN bookings
    BY DEF RunningJobKeepsBooking
  <2>1. PICK n \in routes[i].blocks : n >= routes[i].start - BLOCK_EXPIRY
    BY DEF IInv, RoutesAreFresh
  <2>2. current \in Nat /\ n \in Nat /\ routes[i].start \in Nat
    BY DEF IInv, TypeOK, Route
  <2>3. ~(n <= current - BLOCK_EVICTION_THRESHOLD)
    BY <2>1, <2>2, EvictionBehindJobs, ConstantsAssumption
  <2>4. /\ <<routes[i].miner, n>> \in DOMAIN ba
        /\ ba[<<routes[i].miner, n>>].booking = i
    BY <2>3 DEF IInv, RoutesMatchLedger
  <2>5. i # NoBooking
    BY DEF IInv, TypeOK, BookingIds, NoBooking
  <2>. QED BY <2>4, <2>5 DEF IInv, RoutesMatchLedger
<1>. QED BY <1>1, LedgerInvariant, PTL

\* Spending is final: no transaction unspends a booking or gives one of its
\* rows to another job.
THEOREM SpendingIsFinal == Spec => SpentStaysSpent
<1>. DEFINE Final ==
        \A i \in DOMAIN bookings : bookings[i].is_spent =>
            /\ i \in DOMAIN bookings' => bookings'[i].is_spent
            /\ \A k \in DOMAIN ba : ba[k].booking = i /\ k \in DOMAIN ba'
                   => ba'[k].booking = i
<1>1. IInv /\ [Next]_vars => [Final]_vars
  <2>. SUFFICES ASSUME IInv, Next, NEW i \in DOMAIN bookings, bookings[i].is_spent
                PROVE  /\ i \in DOMAIN bookings' => bookings'[i].is_spent
                       /\ \A k \in DOMAIN ba : ba[k].booking = i /\ k \in DOMAIN ba'
                              => ba'[k].booking = i
    OBVIOUS
  <2>0. i \in 1 .. lastId /\ lastId \in Nat /\ i # NoBooking
    BY DEF IInv, IdsInSequence, TypeOK, NoBooking
  <2>1. CASE MintBlock
    BY <2>1 DEF MintBlock
  <2>2. CASE EvictOldData
    BY <2>2 DEF EvictOldData, Restrict
  <2>3. ASSUME NEW t \in Syncs, StartSync(t) \/ AbortSync(t)
        PROVE  UNCHANGED <<ba, bookings>>
    BY <2>3 DEF StartSync, AbortSync
  <2>4. ASSUME NEW t \in Syncs, NEW hotkeys \in Metagraphs,
               NEW reports \in [Miners -> Reports], NEW cap \in Caps,
               CommitSync(t, hotkeys, reports, cap)
        PROVE  /\ UNCHANGED bookings
               /\ \A k \in DOMAIN ba : ba'[k].booking = ba[k].booking
    BY <2>4 DEF CommitSync, IInv, TypeOK, BlockAllowance
  <2>5. ASSUME NEW n \in 0 .. current - 1, NEW hotkeys \in Metagraphs,
               FinalizeBlock(n, hotkeys)
        PROVE  /\ UNCHANGED bookings
               /\ \A k \in DOMAIN ba : ba'[k].booking = ba[k].booking
    <3>1. \A k \in DOMAIN ba : k \notin hotkeys \X {n}
      BY <2>5 DEF IInv, RowsOfBlocks, FinalizeBlock
    <3>. QED BY <2>5, <3>1 DEF FinalizeBlock
  <2>6. ASSUME NEW m \in Miners, NEW seconds \in Requests, NEW start \in Int,
               ReserveAllowance(m, seconds, start)
        PROVE  /\ bookings'[i] = bookings[i]
               /\ \A k \in DOMAIN ba : ba[k].booking = i => ba'[k].booking = i
    <3>1. ASSUME NEW k \in DOMAIN ba, ba[k].booking = i
          PROVE  ~(k[1] = m /\ k[2] \in Picked(m, start, seconds))
      <4>1. k = <<k[1], k[2]>>
        BY DEF IInv, TypeOK, Keys
      <4>. QED BY <2>0, <3>1, <4>1, PickedIsFree
    <3>. QED BY <2>0, <2>6, <3>1 DEF ReserveAllowance
  <2>7. ASSUME NEW id \in DOMAIN bookings, UndoAllowanceReservation(id)
        PROVE  /\ bookings'[i] = bookings[i]
               /\ \A k \in DOMAIN ba : ba[k].booking = i => ba'[k].booking = i
    BY <2>7 DEF UndoAllowanceReservation, Restrict
  <2>8. ASSUME NEW id \in DOMAIN bookings, SpendAllowance(id)
        PROVE  bookings'[i] = bookings[i] /\ UNCHANGED ba
    BY <2>8 DEF SpendAllowance
  <2>9. CASE \E m \in Miners, seconds \in Requests, lag \in 0 .. ROUTING_LAG :
               lag <= current /\ ReserveAllowance(m, seconds, current - lag)
    BY <2>6, <2>9, ConstantsAssumption DEF IInv, TypeOK
  <2>. QED BY <2>1, <2>2, <2>3, <2>4, <2>5, <2>7, <2>8, <2>9 DEF Next
<1>. QED BY <1>1, LedgerInvariant, PTL DEF Spec, SpentStaysSpent

-----------------------------------------------------------------------------
(* The tables implement the abstract ledger *)

\* No table has rows at first, so each slot is still to come or gone already.
LEMMA InitRefines == Init => LedgerOfTables!LedgerInit
<1>. SUFFICES ASSUME Init PROVE LedgerOfTables!LedgerInit
  OBVIOUS
<1>1. ASSUME NEW k \in Slots
      PROVE  SlotOf(k) \in {LedgerOfTables!Mark("none", 0, FALSE),
                            LedgerOfTables!Mark("gone", 0, FALSE)}
  BY DEF Init, SlotOf, LedgerOfTables!Mark, NoBooking
<1>2. lastId = 0
  BY DEF Init
<1>. QED BY <1>1, <1>2 DEF LedgerOfTables!LedgerInit, LedgerOfTables!NoJob

\* Minting a block and evicting old data let slots lapse.
LEMMA LapseRefines ==
    ASSUME IInv, MintBlock \/ EvictOldData
    PROVE  LedgerOfTables!Lapse
<1>1. ASSUME NEW k \in Slots
      PROVE  \/ SlotOf(k)' = SlotOf(k)
             \/ SlotOf(k)' = LedgerOfTables!Mark("gone", 0, FALSE)
  <2>0. current \in Nat /\ k[2] \in Int
    BY DEF IInv, TypeOK, Slots
  <2>1. CASE MintBlock
    <3>1. current' = current + 1 /\ UNCHANGED <<ba, bookings>>
      BY <2>1 DEF MintBlock
    <3>2. CASE k \in DOMAIN ba
      BY <3>1, <3>2 DEF SlotOf
    <3>3. CASE k \notin DOMAIN ba
      <4>1. CASE k[2] <= current' - BLOCK_EVICTION_THRESHOLD
        BY <3>1, <3>3, <4>1 DEF SlotOf, LedgerOfTables!Mark, NoBooking
      <4>2. CASE ~(k[2] <= current' - BLOCK_EVICTION_THRESHOLD)
        <5>1. ~(k[2] <= current - BLOCK_EVICTION_THRESHOLD)
          BY <2>0, <3>1, <4>2, ConstantsAssumption
        <5>. QED BY <3>1, <3>3, <4>2, <5>1 DEF SlotOf
      <4>. QED BY <4>1, <4>2
    <3>. QED BY <3>2, <3>3
  <2>2. CASE EvictOldData
    <3>1. /\ DOMAIN ba' = {x \in DOMAIN ba : x[2] > current - BLOCK_EVICTION_THRESHOLD}
          /\ \A x \in DOMAIN ba' : ba'[x] = ba[x]
          /\ DOMAIN bookings' = DOMAIN bookings \cap {ba[x].booking : x \in DOMAIN ba'}
          /\ \A i \in DOMAIN bookings' : bookings'[i] = bookings[i]
          /\ UNCHANGED current
      BY <2>2 DEF EvictOldData, Restrict
    <3>2. CASE k \in DOMAIN ba'
      <4>1. k \in DOMAIN ba /\ ba'[k] = ba[k]
        BY <3>1, <3>2
      <4>2. ba[k].booking # NoBooking =>
              bookings'[ba[k].booking] = bookings[ba[k].booking]
        BY <3>1, <3>2 DEF IInv, RoutesMatchLedger
      <4>. QED BY <3>2, <4>1, <4>2 DEF SlotOf
    <3>3. CASE k \notin DOMAIN ba'
      <4>1. CASE k[2] <= current - BLOCK_EVICTION_THRESHOLD
        BY <3>1, <3>3, <4>1 DEF SlotOf, LedgerOfTables!Mark, NoBooking
      <4>2. CASE ~(k[2] <= current - BLOCK_EVICTION_THRESHOLD)
        <5>1. k \notin DOMAIN ba
          BY <2>0, <3>1, <3>3, <4>2, ConstantsAssumption
        <5>. QED BY <3>1, <3>3, <5>1 DEF SlotOf
      <4>. QED BY <4>1, <4>2
    <3>. QED BY <3>2, <3>3
  <2>. QED BY <2>1, <2>2
<1>2. UNCHANGED lastId
  BY DEF MintBlock, EvictOldData
<1>. QED BY <1>1, <1>2
         DEF LedgerOfTables!Lapse, LedgerOfTables!Each, LedgerOfTables!Lapsed,
             LedgerOfTables!NoJob

\* sync_manifests voids rows, whoever has them.
LEMMA VoidRefines ==
    ASSUME IInv, NEW t \in Syncs, NEW hotkeys \in Metagraphs,
           NEW reports \in [Miners -> Reports], NEW cap \in Caps,
           CommitSync(t, hotkeys, reports, cap)
    PROVE  LedgerOfTables!Void
<1>1. ASSUME NEW k \in Slots
      PROVE  \/ SlotOf(k)' = SlotOf(k)
             \/ /\ SlotOf(k).st # "none"
                /\ SlotOf(k)' = [SlotOf(k) EXCEPT !.void = TRUE]
  <2>1. /\ DOMAIN ba' = DOMAIN ba
        /\ UNCHANGED <<current, bookings, lastId>>
        /\ syncs[t] # NoBlock
    BY DEF CommitSync
  <2>2. CASE k \notin DOMAIN ba
    BY <2>1, <2>2 DEF SlotOf
  <2>3. CASE k \in DOMAIN ba
    <3>1. ba[k] \in BlockAllowance
      BY <2>3 DEF IInv, TypeOK
    <3>2. ba'[k] = ba[k] \/ ba'[k] = [ba[k] EXCEPT !.invalidated = syncs[t]]
      BY <2>3 DEF CommitSync
    <3>3. CASE ba'[k] = ba[k]
      BY <2>1, <2>3, <3>3 DEF SlotOf
    <3>4. CASE ba'[k] = [ba[k] EXCEPT !.invalidated = syncs[t]]
      <4>1. ba'[k].booking = ba[k].booking /\ ba'[k].invalidated # NoBlock
        BY <2>1, <3>1, <3>4 DEF BlockAllowance
      <4>2. SlotOf(k).st # "none"
        BY <2>3 DEF SlotOf
      <4>3. SlotOf(k)' = [SlotOf(k) EXCEPT !.void = TRUE]
        <5>. DEFINE st == IF ba[k].booking = NoBooking THEN "free"
                          ELSE IF bookings[ba[k].booking].is_spent THEN "spent"
                          ELSE "held"
                    by == ba[k].booking
                    void == ba[k].invalidated # NoBlock
        <5>1. SlotOf(k) = [st |-> st, by |-> by, void |-> void]
          BY <2>3 DEF SlotOf
        <5>2. SlotOf(k)' = [st |-> st, by |-> by, void |-> TRUE]
          BY <2>1, <2>3, <4>1 DEF SlotOf
        <5>. HIDE DEF st, by, void
        <5>3. \A d : [SlotOf(k) EXCEPT !.void = d] = [st |-> st, by |-> by, void |-> d]
          BY <5>1
        <5>. QED BY <5>2, <5>3
      <4>. QED BY <4>2, <4>3
    <3>. QED BY <3>2, <3>3, <3>4
  <2>. QED BY <2>2, <2>3
<1>2. UNCHANGED lastId
  BY DEF CommitSync
<1>. QED BY <1>1, <1>2
         DEF LedgerOfTables!Void, LedgerOfTables!Each, LedgerOfTables!Voided

\* process_block_allowance grants slots that were never granted: the block is
\* above the eviction floor and had no rows.
LEMMA GrantRefines ==
    ASSUME IInv, NEW n \in Nat, NEW hotkeys \in Metagraphs,
           FinalizeBlock(n, hotkeys)
    PROVE  LedgerOfTables!Grant
<1>1. ASSUME NEW k \in Slots
      PROVE  \/ SlotOf(k)' = SlotOf(k)
             \/ /\ SlotOf(k).st = "none"
                /\ SlotOf(k)' \in {LedgerOfTables!Mark("free", 0, FALSE),
                                   LedgerOfTables!Mark("free", 0, TRUE)}
  <2>1. /\ n \notin blocks /\ n >= current - SCAN_REACH
        /\ DOMAIN ba' = DOMAIN ba \cup (hotkeys \X {n})
        /\ \A x \in hotkeys \X {n} : ba'[x].booking = NoBooking
        /\ UNCHANGED <<current, bookings, lastId>>
    BY DEF FinalizeBlock
  <2>2. \A x \in DOMAIN ba : x \notin hotkeys \X {n}
    BY <2>1 DEF IInv, RowsOfBlocks
  <2>3. CASE k \in hotkeys \X {n}
    <3>1. k \notin DOMAIN ba /\ k \in DOMAIN ba' /\ k[2] = n
      BY <2>1, <2>2, <2>3
    <3>2. ~(k[2] <= current - BLOCK_EVICTION_THRESHOLD)
      BY <2>1, <3>1, EvictionBehindScans, ConstantsAssumption DEF IInv, TypeOK
    <3>3. SlotOf(k).st = "none"
      BY <3>1, <3>2 DEF SlotOf
    <3>4. ba'[k].booking = 0
      BY <2>1, <2>3 DEF NoBooking
    <3>5. CASE ba'[k].invalidated # NoBlock
      BY <3>1, <3>3, <3>4, <3>5 DEF SlotOf, LedgerOfTables!Mark, NoBooking
    <3>6. CASE ba'[k].invalidated = NoBlock
      BY <3>1, <3>3, <3>4, <3>6 DEF SlotOf, LedgerOfTables!Mark, NoBooking
    <3>. QED BY <3>5, <3>6
  <2>4. CASE k \notin hotkeys \X {n} /\ k \in DOMAIN ba
    <3>1. ba'[k] = ba[k]
      BY <2>4 DEF FinalizeBlock
    <3>. QED BY <2>1, <2>4, <3>1 DEF SlotOf
  <2>5. CASE k \notin hotkeys \X {n} /\ k \notin DOMAIN ba
    BY <2>1, <2>5 DEF SlotOf
  <2>. QED BY <2>3, <2>4, <2>5
<1>2. UNCHANGED lastId
  BY DEF FinalizeBlock
<1>. QED BY <1>1, <1>2
         DEF LedgerOfTables!Grant, LedgerOfTables!Each, LedgerOfTables!Granted,
             LedgerOfTables!NoJob

\* reserve_allowance hands rows that are free and not void to a new job.
LEMMA HoldRefines ==
    ASSUME IInv, NEW m \in Miners, NEW seconds \in Requests,
           NEW start \in Nat, ReserveAllowance(m, seconds, start)
    PROVE  LedgerOfTables!Hold
<1>. DEFINE id == lastId + 1
            picked == Picked(m, start, seconds)
<1>0. <<m, 0>> \in Slots
  BY ConstantsAssumption, BoundIsPositive DEF Slots
<1>1. ASSUME NEW k \in Slots
      PROVE  \/ SlotOf(k)' = SlotOf(k)
             \/ /\ k[1] = m
                /\ SlotOf(k) = LedgerOfTables!Mark("free", 0, FALSE)
                /\ SlotOf(k)' = LedgerOfTables!Mark("held", id, FALSE)
  <2>0. k = <<k[1], k[2]>>
    BY DEF Slots
  <2>1. /\ DOMAIN ba' = DOMAIN ba
        /\ DOMAIN bookings' = DOMAIN bookings \cup {id}
        /\ bookings'[id].is_spent = FALSE
        /\ UNCHANGED current
    BY DEF ReserveAllowance
  <2>2. CASE k \notin DOMAIN ba
    BY <2>1, <2>2 DEF SlotOf
  <2>3. CASE k \in DOMAIN ba /\ k[1] = m /\ k[2] \in picked
    <3>1. ba[k] \in BlockAllowance
      BY <2>3 DEF IInv, TypeOK
    <3>2. ba[k].booking = NoBooking /\ ba[k].invalidated = NoBlock
      BY <2>0, <2>3 DEF Picked, Reservable
    <3>3. ba'[k].booking = id /\ ba'[k].invalidated = NoBlock
      BY <2>3, <3>1, <3>2 DEF ReserveAllowance, BlockAllowance
    <3>4. id # NoBooking
      BY DEF IInv, TypeOK, NoBooking
    <3>5. SlotOf(k) = LedgerOfTables!Mark("free", 0, FALSE)
      BY <2>3, <3>2 DEF SlotOf, LedgerOfTables!Mark, NoBooking
    <3>6. SlotOf(k)' = LedgerOfTables!Mark("held", id, FALSE)
      BY <2>1, <2>3, <3>3, <3>4 DEF SlotOf, LedgerOfTables!Mark
    <3>. QED BY <2>3, <3>5, <3>6
  <2>4. CASE k \in DOMAIN ba /\ ~(k[1] = m /\ k[2] \in picked)
    <3>1. ba'[k] = ba[k]
      BY <2>4 DEF ReserveAllowance
    <3>2. ba[k].booking # NoBooking =>
            bookings'[ba[k].booking] = bookings[ba[k].booking]
      <4>. SUFFICES ASSUME ba[k].booking # NoBooking
                    PROVE  bookings'[ba[k].booking] = bookings[ba[k].booking]
        OBVIOUS
      <4>1. ba[k].booking \in DOMAIN bookings
        BY <2>4 DEF IInv, RoutesMatchLedger
      <4>2. ba[k].booking # id
        BY <4>1 DEF IInv, IdsInSequence, TypeOK
      <4>. QED BY <4>1, <4>2 DEF ReserveAllowance
    <3>. QED BY <2>1, <2>4, <3>1, <3>2 DEF SlotOf
  <2>. QED BY <2>2, <2>3, <2>4
<1>2. lastId' = id
  BY DEF ReserveAllowance
<1>3. \A k \in Slots :
        \/ SlotOf(k)' = SlotOf(k)
        \/ /\ k[1] = <<m, 0>>[1]
           /\ SlotOf(k) = LedgerOfTables!Mark("free", 0, FALSE)
           /\ SlotOf(k)' = LedgerOfTables!Mark("held", lastId', FALSE)
  BY <1>1, <1>2
<1>. HIDE DEF picked
<1>. QED BY <1>0, <1>2, <1>3 DEF LedgerOfTables!Hold, LedgerOfTables!NoJob

\* undo_allowance_reservation gives back all that the booking holds.
LEMMA ReleaseRefines ==
    ASSUME IInv, NEW id \in DOMAIN bookings, UndoAllowanceReservation(id)
    PROVE  LedgerOfTables!Release(id)
<1>0. id # NoBooking
  BY DEF IInv, TypeOK, BookingIds, NoBooking
<1>1. ASSUME NEW k \in Slots
      PROVE  SlotOf(k)' = IF SlotOf(k).st = "held" /\ SlotOf(k).by = id
                          THEN LedgerOfTables!Mark("free", 0, SlotOf(k).void)
                          ELSE SlotOf(k)
  <2>1. /\ DOMAIN ba' = DOMAIN ba
        /\ ~bookings[id].is_spent
        /\ \A i \in DOMAIN bookings \ {id} : bookings'[i] = bookings[i]
        /\ UNCHANGED current
    BY DEF UndoAllowanceReservation, Restrict
  <2>2. CASE k \notin DOMAIN ba
    BY <2>1, <2>2 DEF SlotOf
  <2>3. CASE k \in DOMAIN ba /\ ba[k].booking = id
    <3>1. ba[k] \in BlockAllowance
      BY <2>3 DEF IInv, TypeOK
    <3>2. ba'[k].booking = NoBooking /\ ba'[k].invalidated = ba[k].invalidated
      BY <2>3, <3>1 DEF UndoAllowanceReservation, BlockAllowance
    <3>3. SlotOf(k) = [st |-> "held", by |-> id, void |-> ba[k].invalidated # NoBlock]
      BY <1>0, <2>1, <2>3 DEF SlotOf
    <3>4. SlotOf(k)' = [st |-> "free", by |-> 0, void |-> ba[k].invalidated # NoBlock]
      BY <2>1, <2>3, <3>2 DEF SlotOf, NoBooking
    <3>. QED BY <3>3, <3>4 DEF LedgerOfTables!Mark
  <2>4. CASE k \in DOMAIN ba /\ ba[k].booking # id
    <3>1. ba'[k] = ba[k]
      BY <2>4 DEF UndoAllowanceReservation
    <3>2. ba[k].booking # NoBooking =>
            bookings'[ba[k].booking] = bookings[ba[k].booking]
      BY <2>1, <2>4 DEF IInv, RoutesMatchLedger
    <3>3. SlotOf(k)' = SlotOf(k)
      BY <2>1, <2>4, <3>1, <3>2 DEF SlotOf
    <3>4. SlotOf(k).by # id
      BY <2>4 DEF SlotOf
    <3>. QED BY <3>3, <3>4
  <2>. QED BY <2>2, <2>3, <2>4
<1>2. UNCHANGED lastId
  BY DEF UndoAllowanceReservation
<1>. QED BY <1>1, <1>2
         DEF LedgerOfTables!Release, LedgerOfTables!HeldBy, LedgerOfTables!NoJob

\* spend_allowance spends all that the booking holds.
LEMMA SpendRefines ==
    ASSUME IInv, NEW id \in DOMAIN bookings, SpendAllowance(id)
    PROVE  LedgerOfTables!Spend(id)
<1>0. id # NoBooking
  BY DEF IInv, TypeOK, BookingIds, NoBooking
<1>1. ASSUME NEW k \in Slots
      PROVE  SlotOf(k)' = IF SlotOf(k).st = "held" /\ SlotOf(k).by = id
                          THEN [SlotOf(k) EXCEPT !.st = "spent"]
                          ELSE SlotOf(k)
  <2>1. /\ ~bookings[id].is_spent /\ bookings'[id].is_spent = TRUE
        /\ \A i \in DOMAIN bookings \ {id} : bookings'[i] = bookings[i]
        /\ UNCHANGED <<ba, current>>
    BY DEF SpendAllowance, IInv, TypeOK
  <2>2. CASE k \notin DOMAIN ba
    BY <2>1, <2>2 DEF SlotOf
  <2>3. CASE k \in DOMAIN ba /\ ba[k].booking = id
    <3>1. SlotOf(k) = [st |-> "held", by |-> id, void |-> ba[k].invalidated # NoBlock]
      BY <1>0, <2>1, <2>3 DEF SlotOf
    <3>2. SlotOf(k)' = [st |-> "spent", by |-> id, void |-> ba[k].invalidated # NoBlock]
      BY <1>0, <2>1, <2>3 DEF SlotOf
    <3>. QED BY <3>1, <3>2
  <2>4. CASE k \in DOMAIN ba /\ ba[k].booking # id
    <3>1. ba[k].booking # NoBooking =>
            bookings'[ba[k].booking] = bookings[ba[k].booking]
      BY <2>1, <2>4 DEF IInv, RoutesMatchLedger
    <3>2. SlotOf(k)' = SlotOf(k)
      BY <2>1, <2>4, <3>1 DEF SlotOf
    <3>3. SlotOf(k).by # id
      BY <2>4 DEF SlotOf
    <3>. QED BY <3>2, <3>3
  <2>. QED BY <2>2, <2>3, <2>4
<1>2. UNCHANGED lastId
  BY DEF SpendAllowance
<1>. QED BY <1>1, <1>2 DEF LedgerOfTables!Spend, LedgerOfTables!HeldBy

\* Every transaction is a step of the abstract ledger, or none.
LEMMA NextRefines ==
    IInv /\ [Next]_vars => [LedgerOfTables!LedgerNext]_(LedgerOfTables!ledgerVars)
<1>. SUFFICES ASSUME IInv, [Next]_vars
              PROVE  [LedgerOfTables!LedgerNext]_(LedgerOfTables!ledgerVars)
  OBVIOUS
<1>1. CASE MintBlock \/ EvictOldData
  BY <1>1, LapseRefines DEF LedgerOfTables!LedgerNext
<1>2. ASSUME UNCHANGED <<current, ba, bookings, lastId>>
      PROVE  UNCHANGED LedgerOfTables!ledgerVars
  BY <1>2 DEF LedgerOfTables!ledgerVars, SlotOf
<1>3. ASSUME NEW t \in Syncs, StartSync(t) \/ AbortSync(t)
      PROVE  UNCHANGED LedgerOfTables!ledgerVars
  BY <1>2, <1>3 DEF StartSync, AbortSync
<1>4. ASSUME NEW t \in Syncs, NEW hotkeys \in Metagraphs,
             NEW reports \in [Miners -> Reports], NEW cap \in Caps,
             CommitSync(t, hotkeys, reports, cap)
      PROVE  LedgerOfTables!LedgerNext
  BY <1>4, VoidRefines DEF LedgerOfTables!LedgerNext
<1>5. ASSUME NEW n \in 0 .. current - 1, NEW hotkeys \in Metagraphs,
             FinalizeBlock(n, hotkeys)
      PROVE  LedgerOfTables!LedgerNext
  BY <1>5, GrantRefines DEF LedgerOfTables!LedgerNext, IInv, TypeOK
<1>6. ASSUME NEW m \in Miners, NEW seconds \in Requests,
             NEW lag \in 0 .. ROUTING_LAG, lag <= current,
             ReserveAllowance(m, seconds, current - lag)
      PROVE  LedgerOfTables!LedgerNext
  <2>1. current - lag \in Nat
    BY <1>6, ConstantsAssumption DEF IInv, TypeOK
  <2>2. LedgerOfTables!Hold
    BY <1>6, <2>1, HoldRefines
  <2>. QED BY <2>2 DEF LedgerOfTables!LedgerNext
<1>7. ASSUME NEW id \in DOMAIN bookings,
             UndoAllowanceReservation(id) \/ SpendAllowance(id)
      PROVE  LedgerOfTables!LedgerNext
  <2>1. id \in 1 .. lastId
    BY DEF IInv, IdsInSequence
  <2>2. LedgerOfTables!Release(id) \/ LedgerOfTables!Spend(id)
    BY <1>7, ReleaseRefines, SpendRefines
  <2>. QED BY <2>1, <2>2 DEF LedgerOfTables!LedgerNext
<1>8. CASE UNCHANGED vars
  BY <1>2, <1>8 DEF vars
<1>. QED BY <1>1, <1>3, <1>4, <1>5, <1>6, <1>7, <1>8 DEF Next

\* The tables implement the abstract ledger, for any number of miners, blocks,
\* bookings and syncs: an allowance is granted once, belongs to one job at a
\* time, is spent or given back with the rest of its job, and neither a voided
\* nor an evicted one is given out again.
THEOREM TablesImplementLedger == Spec => ImplementsLedger
BY InitRefines, NextRefines, LedgerInvariant, PTL
   DEF Spec, ImplementsLedger, LedgerOfTables!LedgerSpec

-----------------------------------------------------------------------------
(* What reserve_allowance takes is right *)

\* A value is the sum of any function that has the rows' allowances.
LEMMA ValueIsSum ==
    ASSUME NEW rows, NEW m, NEW S, IsFiniteSet(S), NEW f,
           \A n \in S : f[n] = rows[<<m, n>>].allowance
    PROVE  ValueIn(rows, m, S) = SumOn(f, S)
<1>. DEFINE F(g) == [s \in SUBSET S |->
                        IF s = {} THEN 0
                        ELSE LET x == CHOOSE y \in s : TRUE
                             IN  rows[<<m, x>>].allowance + g[s \ {x}]]
            it == CHOOSE g : g = F(g)
<1>1. ASSUME NEW g PROVE F(g) = Unfold(f, S, g)
  <2>1. ASSUME NEW s \in SUBSET S, s # {}
        PROVE  f[CHOOSE y \in s : TRUE] = rows[<<m, CHOOSE y \in s : TRUE>>].allowance
    <3>1. (CHOOSE y \in s : TRUE) \in s
      BY <2>1
    <3>. QED BY <3>1
  <2>. QED BY <2>1 DEF Unfold
<1>2. SumTable(f, S) = F(SumTable(f, S))
  <2>. HIDE DEF F
  <2>1. SumTable(f, S) = Unfold(f, S, SumTable(f, S))
    BY TableExists
  <2>2. F(SumTable(f, S)) = Unfold(f, S, SumTable(f, S))
    BY <1>1
  <2>. QED BY <2>1, <2>2
<1>3. it = F(it)
  <2>. HIDE DEF F
  <2>. QED BY <1>2
<1>4. it = Unfold(f, S, it)
  BY <1>1, <1>3
<1>5. ValueIn(rows, m, S) = it[S]
  BY DEF ValueIn, MapThenSumSet, MapThenFoldSet
<1>. HIDE DEF it
<1>6. it = SumTable(f, S)
  BY <1>4, TableExists, TableIsUnique
<1>. QED BY <1>5, <1>6, SumOnTable

\* The blocks taken cover the job, and without the newest they would not.
LEMMA PickedIsTight ==
    ASSUME TypeOK, RowsOfBlocks, IsFiniteSet(blocks), NEW m \in Miners,
           NEW start \in Int, NEW seconds \in Requests,
           Value(m, Reservable(m, start)) >= seconds
    PROVE  LET p == Picked(m, start, seconds) IN
           /\ Value(m, p) >= seconds
           /\ Value(m, p \ {Max(p)}) < seconds
<1>. DEFINE free == Reservable(m, start)
            p == Picked(m, start, seconds)
            f == [n \in free |-> ba[<<m, n>>].allowance]
            below(n) == {x \in free : x < n}
<1>0. seconds \in Nat /\ p # {}
  BY ConstantsAssumption, PickedIsNotEmpty
<1>1. free \subseteq Nat /\ free \subseteq blocks
  BY DEF Reservable, TypeOK, Keys, RowsOfBlocks
<1>2. IsFiniteSet(free)
  BY <1>1, FS_Subset
<1>3. \A n \in free : f[n] \in Nat
  <2>1. \A n \in free : ba[<<m, n>>] \in BlockAllowance
    BY DEF Reservable, TypeOK
  <2>. QED BY <2>1 DEF BlockAllowance
<1>4. ASSUME NEW T \in SUBSET free
      PROVE  /\ IsFiniteSet(T)
             /\ Value(m, T) = SumOn(f, T)
             /\ SumOn(f, T) \in Nat
  <2>1. IsFiniteSet(T)
    BY <1>2, FS_Subset
  <2>2. \A n \in T : f[n] = ba[<<m, n>>].allowance
    OBVIOUS
  <2>3. \A n \in T : f[n] \in Nat
    BY <1>3
  <2>. HIDE DEF f
  <2>4. ValueIn(ba, m, T) = SumOn(f, T)
    BY <2>1, <2>2, ValueIsSum
  <2>5. SumOn(f, T) \in Nat
    BY <2>1, <2>3, SumType
  <2>. QED BY <2>1, <2>4, <2>5 DEF Value
<1>. HIDE DEF f
<1>5. p = {n \in free : SumOn(f, below(n)) < seconds}
  <2>1. p = {n \in free : Value(m, below(n)) < seconds}
    BY DEF Picked
  <2>2. \A n \in free : Value(m, below(n)) = SumOn(f, below(n))
    BY <1>4
  <2>. HIDE DEF p, below, free
  <2>. QED BY <2>1, <2>2
<1>6. \A n \in free : SumOn(f, below(n)) \in Nat
  BY <1>4
<1>7. ASSUME NEW x \in free, NEW n \in free, x <= n
      PROVE  SumOn(f, below(x)) <= SumOn(f, below(n))
  <2>1. below(x) \in SUBSET below(n)
    BY <1>1, <1>7
  <2>2. IsFiniteSet(below(n)) /\ \A y \in below(n) : f[y] \in Nat
    BY <1>3, <1>4
  <2>. HIDE DEF below
  <2>. QED BY <2>1, <2>2, SumMonotone
<1>8. Value(m, p) >= seconds
  <2>1. CASE p = free
    BY <2>1
  <2>2. CASE p # free
    <3>. DEFINE left == free \ p
                n == Min(left)
    <3>1. left \subseteq Nat /\ left # {}
      BY <1>1, <1>5, <2>2
    <3>2. n \in left /\ \A y \in left : n <= y
      BY <3>1, NatMin
    <3>3. n \in free /\ n \in Nat
      BY <1>1, <3>2
    <3>4. SumOn(f, below(n)) >= seconds
      BY <1>0, <1>5, <1>6, <3>2, <3>3
    <3>5. ASSUME NEW x \in free, x < n PROVE x \in p
      BY <1>1, <3>2, <3>3, <3>5
    <3>6. ASSUME NEW x \in p PROVE x < n
      <4>1. x \in free /\ x \in Nat /\ x # n
        BY <1>1, <1>5, <3>2
      <4>2. CASE n <= x
        <5>1. SumOn(f, below(n)) <= SumOn(f, below(x))
          BY <1>7, <3>3, <4>1, <4>2
        <5>2. SumOn(f, below(x)) < seconds
          BY <1>5
        <5>3. SumOn(f, below(n)) \in Nat /\ SumOn(f, below(x)) \in Nat
          BY <1>6, <3>3, <4>1
        <5>. HIDE DEF below, n
        <5>. QED BY <1>0, <3>4, <5>1, <5>2, <5>3
      <4>. QED BY <3>3, <4>1, <4>2
    <3>7. p = below(n)
      BY <1>5, <3>5, <3>6
    <3>8. Value(m, below(n)) = SumOn(f, below(n))
      BY <1>4
    <3>. HIDE DEF n, below, p
    <3>. QED BY <3>4, <3>7, <3>8
  <2>. QED BY <2>1, <2>2
<1>9. Value(m, p \ {Max(p)}) < seconds
  <2>. DEFINE n == Max(p)
  <2>1. p \subseteq free /\ p \subseteq Nat
    BY <1>1, <1>5
  <2>2. IsFiniteSet(p)
    BY <1>4, <2>1
  <2>3. n \in p /\ \A y \in p : n >= y
    <3>. HIDE DEF p
    <3>1. p \subseteq Int
      BY <2>1
    <3>. QED BY <1>0, <2>2, <3>1, FiniteMax
  <2>4. n \in free /\ n \in Nat /\ SumOn(f, below(n)) < seconds
    BY <1>5, <2>1, <2>3
  <2>5. ASSUME NEW x \in free, x < n PROVE x \in p
    <3>1. SumOn(f, below(x)) <= SumOn(f, below(n))
      BY <1>1, <1>7, <2>4, <2>5
    <3>2. SumOn(f, below(x)) \in Nat /\ SumOn(f, below(n)) \in Nat
      BY <1>6, <2>4
    <3>3. SumOn(f, below(x)) < seconds
      <4>. HIDE DEF below, n
      <4>. QED BY <1>0, <2>4, <3>1, <3>2
    <3>. QED BY <1>5, <3>3
  <2>6. p \ {n} = below(n)
    <3>1. ASSUME NEW x \in p, x # n PROVE x \in below(n)
      BY <2>1, <2>3, <2>4, <3>1
    <3>2. ASSUME NEW x \in below(n) PROVE x \in p /\ x # n
      BY <1>1, <2>4, <2>5
    <3>. QED BY <3>1, <3>2
  <2>7. Value(m, below(n)) = SumOn(f, below(n))
    BY <1>4
  <2>. HIDE DEF n, below, p
  <2>8. Value(m, p \ {n}) < seconds
    BY <2>4, <2>6, <2>7
  <2>. QED BY <2>8 DEF n
<1>. QED BY <1>8, <1>9

\* No drop is known after block n exactly when no manifest there is one.
LEMMA NoDropAfter ==
    ASSUME TypeOK, NEW m \in Miners, NEW n \in Nat,
           GetManifestDrop(m, n) = NoBlock
    PROVE  \A k \in DOMAIN manifests :
              k[1] = m /\ k[2] > n => ~manifests[<<m, k[2]>>].is_drop
<1>. DEFINE drops == {b \in ManifestBlocks(m) :
                         b > n /\ manifests[<<m, b>>].is_drop}
<1>1. drops \subseteq Nat
  BY DEF TypeOK, Keys, ManifestBlocks
<1>2. drops = {}
  <2>1. CASE drops # {}
    <3>1. Min(drops) \in Nat
      BY <1>1, <2>1, NatMin
    <3>2. GetManifestDrop(m, n) = Min(drops)
      BY <2>1 DEF GetManifestDrop
    <3>. QED BY <3>1, <3>2 DEF NoBlock
  <2>. QED BY <2>1
<1>. QED BY <1>2 DEF ManifestBlocks

\* The invariant behind reserve_allowance's promise.
RInv ==
    /\ IsFiniteSet(blocks)
    /\ ReservationIsTight
    /\ ReservableRowsSawNoDrop

\* The value of blocks whose rows keep their allowances does not change.
LEMMA ValueStays ==
    ASSUME NEW old, NEW new, NEW m, NEW S, IsFiniteSet(S),
           \A n \in S : new[<<m, n>>].allowance = old[<<m, n>>].allowance
    PROVE  ValueIn(new, m, S) = ValueIn(old, m, S)
<1>. DEFINE f == [n \in S |-> old[<<m, n>>].allowance]
<1>1. \A n \in S : f[n] = old[<<m, n>>].allowance /\ f[n] = new[<<m, n>>].allowance
  OBVIOUS
<1>. HIDE DEF f
<1>2. ValueIn(old, m, S) = SumOn(f, S)
  BY <1>1, ValueIsSum
<1>3. ValueIn(new, m, S) = SumOn(f, S)
  BY <1>1, ValueIsSum
<1>. QED BY <1>2, <1>3

\* Routes stay tight when their rows keep their allowances and none comes back.
LEMMA TightStays ==
    ASSUME IInv, RInv, NEW i \in DOMAIN routes,
           \A n \in routes[i].blocks : <<routes[i].miner, n>> \in DOMAIN ba' =>
               /\ <<routes[i].miner, n>> \in DOMAIN ba
               /\ ba'[<<routes[i].miner, n>>].allowance
                     = ba[<<routes[i].miner, n>>].allowance,
           \A n \in routes[i].blocks : <<routes[i].miner, n>> \in DOMAIN ba'
    PROVE  LET r == routes[i] IN
           /\ ValueIn(ba', r.miner, r.blocks) >= r.seconds
           /\ r.blocks # {} => ValueIn(ba', r.miner, r.blocks \ {Max(r.blocks)}) < r.seconds
<1>. DEFINE r == routes[i]
<1>1. \A n \in r.blocks : /\ <<r.miner, n>> \in DOMAIN ba
                          /\ ba'[<<r.miner, n>>].allowance = ba[<<r.miner, n>>].allowance
  OBVIOUS
<1>2. IsFiniteSet(r.blocks)
  <2>1. r.blocks \subseteq blocks
    BY <1>1 DEF IInv, RowsOfBlocks
  <2>. QED BY <2>1, FS_Subset DEF RInv
<1>3. ASSUME NEW T \in SUBSET r.blocks
      PROVE  ValueIn(ba', r.miner, T) = ValueIn(ba, r.miner, T)
  <2>1. IsFiniteSet(T)
    BY <1>2, FS_Subset
  <2>2. \A n \in T : ba'[<<r.miner, n>>].allowance = ba[<<r.miner, n>>].allowance
    BY <1>1
  <2>. HIDE DEF r
  <2>. QED BY <2>1, <2>2, ValueStays
<1>4. /\ ValueIn(ba, r.miner, r.blocks) >= r.seconds
      /\ r.blocks # {} => ValueIn(ba, r.miner, r.blocks \ {Max(r.blocks)}) < r.seconds
  BY <1>1 DEF RInv, ReservationIsTight, Value
<1>5. r.blocks \in SUBSET r.blocks /\ r.blocks \ {Max(r.blocks)} \in SUBSET r.blocks
  OBVIOUS
<1>. HIDE DEF r
<1>6. /\ ValueIn(ba', r.miner, r.blocks) >= r.seconds
      /\ r.blocks # {} => ValueIn(ba', r.miner, r.blocks \ {Max(r.blocks)}) < r.seconds
  BY <1>3, <1>4, <1>5
<1>. QED BY <1>6 DEF r

\* A step that keeps the routes it does not delete, and their rows.
LEMMA TightKept ==
    ASSUME IInv, RInv,
           \A i \in DOMAIN routes' : i \in DOMAIN routes /\ routes'[i] = routes[i],
           \A k \in DOMAIN ba' : k \in DOMAIN ba /\ ba'[k].allowance = ba[k].allowance
    PROVE  ReservationIsTight'
BY TightStays DEF ReservationIsTight, Value

\* Every transaction keeps what reservations promise.
LEMMA NextReservations ==
    ASSUME IInv, RInv, [Next]_vars
    PROVE  RInv'
<1>0. TypeOK
  BY DEF IInv
<1>1. CASE MintBlock
  <2>1. UNCHANGED <<manifests, blocks, ba, routes>>
    BY <1>1 DEF MintBlock
  <2>. QED BY <2>1 DEF RInv, ReservationIsTight, ReservableRowsSawNoDrop, Value,
                       GetManifestDrop, ManifestBlocks
<1>2. CASE EvictOldData
  <2>1. /\ DOMAIN ba' \subseteq DOMAIN ba
        /\ \A k \in DOMAIN ba' : ba'[k] = ba[k]
        /\ DOMAIN manifests' \subseteq DOMAIN manifests
        /\ \A k \in DOMAIN manifests' : manifests'[k] = manifests[k]
        /\ blocks' \subseteq blocks
        /\ UNCHANGED routes
    BY <1>2 DEF EvictOldData, Restrict
  <2>2. IsFiniteSet(blocks')
    BY <2>1, FS_Subset DEF RInv
  <2>3. ReservationIsTight'
    BY <2>1, TightKept
  <2>4. ReservableRowsSawNoDrop'
    <3>. SUFFICES ASSUME NEW k \in DOMAIN ba', ba'[k].invalidated = NoBlock
                  PROVE  {b \in ManifestBlocks(k[1])' :
                             b > k[2] /\ manifests'[<<k[1], b>>].is_drop} = {}
      BY DEF ReservableRowsSawNoDrop, GetManifestDrop
    <3>1. k \in DOMAIN ba /\ k[1] \in Miners /\ k[2] \in Nat
      BY <1>0, <2>1 DEF TypeOK, Keys
    <3>2. GetManifestDrop(k[1], k[2]) = NoBlock
      BY <2>1, <3>1 DEF RInv, ReservableRowsSawNoDrop
    <3>3. \A x \in DOMAIN manifests :
             x[1] = k[1] /\ x[2] > k[2] => ~manifests[<<k[1], x[2]>>].is_drop
      BY <1>0, <3>1, <3>2, NoDropAfter
    <3>4. \A x \in DOMAIN manifests' : x = <<x[1], x[2]>>
      BY <1>0, <2>1 DEF TypeOK, Keys
    <3>. QED BY <2>1, <3>3, <3>4 DEF ManifestBlocks
  <2>. QED BY <2>2, <2>3, <2>4 DEF RInv
<1>3. ASSUME NEW t \in Syncs, StartSync(t) \/ AbortSync(t)
      PROVE  RInv'
  <2>1. UNCHANGED <<manifests, blocks, ba, routes>>
    BY <1>3 DEF StartSync, AbortSync
  <2>. QED BY <2>1 DEF RInv, ReservationIsTight, ReservableRowsSawNoDrop, Value,
                       GetManifestDrop, ManifestBlocks
<1>4. ASSUME NEW t \in Syncs, NEW hotkeys \in Metagraphs,
             NEW reports \in [Miners -> Reports], NEW cap \in Caps,
             CommitSync(t, hotkeys, reports, cap)
      PROVE  RInv'
  <2>. DEFINE dropped == {m \in hotkeys : IsDrop(m, syncs[t], reports[m])}
              new == hotkeys \X {syncs[t]}
  <2>1. /\ DOMAIN ba' = DOMAIN ba
        /\ \A k \in DOMAIN ba : ba'[k].allowance = ba[k].allowance
        /\ UNCHANGED <<blocks, routes>>
        /\ syncs[t] # NoBlock
    BY <1>0, <1>4 DEF CommitSync, TypeOK, BlockAllowance
  <2>2. ASSUME NEW k \in DOMAIN ba, ba'[k].invalidated = NoBlock
        PROVE  ba[k].invalidated = NoBlock /\ k[1] \notin dropped
    <3>1. ba[k] \in BlockAllowance
      BY <1>0 DEF TypeOK
    <3>2. k[1] \notin dropped
      BY <1>4, <2>1, <2>2, <3>1 DEF CommitSync, BlockAllowance
    <3>3. ba'[k] = ba[k]
      BY <1>4, <3>2 DEF CommitSync
    <3>. QED BY <2>2, <3>2, <3>3
  <2>3. /\ DOMAIN manifests' = DOMAIN manifests \cup new
        /\ \A k \in DOMAIN manifests : k \notin new /\ manifests'[k] = manifests[k]
        /\ \A k \in new : k[1] \notin dropped => ~manifests'[k].is_drop
    BY <1>4 DEF CommitSync
  <2>. HIDE DEF dropped
  <2>4. ReservableRowsSawNoDrop'
    <3>. SUFFICES ASSUME NEW k \in DOMAIN ba', ba'[k].invalidated = NoBlock
                  PROVE  {b \in ManifestBlocks(k[1])' :
                             b > k[2] /\ manifests'[<<k[1], b>>].is_drop} = {}
      BY DEF ReservableRowsSawNoDrop, GetManifestDrop
    <3>1. k \in DOMAIN ba /\ k[1] \in Miners /\ k[2] \in Nat
      BY <1>0, <2>1 DEF TypeOK, Keys
    <3>2. GetManifestDrop(k[1], k[2]) = NoBlock /\ k[1] \notin dropped
      BY <2>2, <3>1 DEF RInv, ReservableRowsSawNoDrop
    <3>3. \A x \in DOMAIN manifests :
             x[1] = k[1] /\ x[2] > k[2] => ~manifests[<<k[1], x[2]>>].is_drop
      BY <1>0, <3>1, <3>2, NoDropAfter
    <3>4. ASSUME NEW x \in DOMAIN manifests', x[1] = k[1], x[2] > k[2]
          PROVE  ~manifests'[<<k[1], x[2]>>].is_drop
      <4>1. CASE x \in new
        <5>1. x = <<k[1], x[2]>>
          BY <3>4, <4>1
        <5>. QED BY <2>3, <3>2, <4>1, <5>1
      <4>2. CASE x \in DOMAIN manifests
        <5>1. x = <<k[1], x[2]>>
          BY <1>0, <3>4, <4>2 DEF TypeOK, Keys
        <5>. QED BY <2>3, <3>3, <3>4, <4>2, <5>1
      <4>. QED BY <2>3, <4>1, <4>2
    <3>. QED BY <3>4 DEF ManifestBlocks
  <2>5. ReservationIsTight'
    BY <2>1, TightKept
  <2>. QED BY <2>1, <2>4, <2>5 DEF RInv
<1>5. ASSUME NEW n \in 0 .. current - 1, NEW hotkeys \in Metagraphs,
             FinalizeBlock(n, hotkeys)
      PROVE  RInv'
  <2>1. /\ n \notin blocks /\ n >= current - SCAN_REACH /\ blocks' = blocks \cup {n}
        /\ DOMAIN ba' = DOMAIN ba \cup (hotkeys \X {n})
        /\ \A k \in hotkeys \X {n} : ba'[k].invalidated = GetManifestDrop(k[1], n)
        /\ UNCHANGED <<current, manifests, routes>>
    BY <1>5 DEF FinalizeBlock
  <2>2. \A k \in DOMAIN ba : k \notin hotkeys \X {n}
    BY <2>1 DEF IInv, RowsOfBlocks
  <2>3. \A k \in DOMAIN ba : ba'[k] = ba[k]
    BY <1>5, <2>2 DEF FinalizeBlock
  <2>4. IsFiniteSet(blocks')
    BY <2>1, FS_AddElement DEF RInv
  <2>5. ReservableRowsSawNoDrop'
    <3>. SUFFICES ASSUME NEW k \in DOMAIN ba', ba'[k].invalidated = NoBlock
                  PROVE  GetManifestDrop(k[1], k[2]) = NoBlock
      BY <2>1 DEF ReservableRowsSawNoDrop, GetManifestDrop, ManifestBlocks
    <3>. QED BY <2>1, <2>3 DEF RInv, ReservableRowsSawNoDrop
  <2>6. ReservationIsTight'
    <3>1. ASSUME NEW i \in DOMAIN routes, NEW x \in routes[i].blocks,
                 <<routes[i].miner, x>> \in DOMAIN ba'
          PROVE  <<routes[i].miner, x>> \in DOMAIN ba
      <4>1. CASE <<routes[i].miner, x>> \notin DOMAIN ba
        <5>1. x = n
          BY <2>1, <3>1, <4>1
        <5>2. x <= current - BLOCK_EVICTION_THRESHOLD
          BY <4>1 DEF IInv, RoutesMatchLedger
        <5>. QED BY <1>0, <2>1, <5>1, <5>2, EvictionBehindScans, ConstantsAssumption
                 DEF TypeOK
      <4>. QED BY <4>1
    <3>2. ASSUME NEW i \in DOMAIN routes,
                 \A x \in routes[i].blocks : <<routes[i].miner, x>> \in DOMAIN ba'
          PROVE  LET r == routes[i] IN
                 /\ ValueIn(ba', r.miner, r.blocks) >= r.seconds
                 /\ r.blocks # {} =>
                      ValueIn(ba', r.miner, r.blocks \ {Max(r.blocks)}) < r.seconds
      <4>1. \A x \in routes[i].blocks :
               /\ <<routes[i].miner, x>> \in DOMAIN ba
               /\ ba'[<<routes[i].miner, x>>] = ba[<<routes[i].miner, x>>]
        BY <2>3, <3>1, <3>2
      <4>. QED BY <3>2, <4>1, TightStays
    <3>. QED BY <2>1, <3>2 DEF ReservationIsTight, Value
  <2>. QED BY <2>4, <2>5, <2>6 DEF RInv
<1>6. ASSUME NEW m \in Miners, NEW seconds \in Requests,
             NEW lag \in 0 .. ROUTING_LAG, lag <= current,
             ReserveAllowance(m, seconds, current - lag)
      PROVE  RInv'
  <2>. DEFINE id == lastId + 1
              start == current - lag
              picked == Picked(m, start, seconds)
  <2>1. /\ DOMAIN routes' = DOMAIN routes \cup {id}
        /\ routes'[id].miner = m /\ routes'[id].blocks = picked
        /\ routes'[id].seconds = seconds
        /\ DOMAIN ba' = DOMAIN ba
        /\ Value(m, Reservable(m, start)) >= seconds
        /\ UNCHANGED <<manifests, blocks>>
    BY <1>6 DEF ReserveAllowance
  <2>2. \A k \in DOMAIN ba : /\ ba'[k].allowance = ba[k].allowance
                             /\ ba'[k].invalidated = ba[k].invalidated
    BY <1>0, <1>6 DEF ReserveAllowance, TypeOK, BlockAllowance
  <2>3. \A i \in DOMAIN routes : i # id /\ routes'[i] = routes[i]
    BY <1>6 DEF ReserveAllowance, IInv, IdsInSequence, TypeOK
  <2>4. ReservableRowsSawNoDrop'
    BY <2>1, <2>2 DEF RInv, ReservableRowsSawNoDrop, GetManifestDrop, ManifestBlocks
  <2>5. start \in Nat
    BY <1>0, <1>6, ConstantsAssumption DEF TypeOK
  <2>. HIDE DEF start, picked
  <2>6. Value(m, picked) >= seconds /\ Value(m, picked \ {Max(picked)}) < seconds
    BY <1>0, <2>1, <2>5, PickedIsTight DEF IInv, RInv, picked
  <2>7. picked \subseteq blocks /\ \A n \in picked : <<m, n>> \in DOMAIN ba
    <3>1. \A n \in picked : <<m, n>> \in DOMAIN ba
      BY <2>5, PickedIsFree DEF picked
    <3>. QED BY <3>1 DEF IInv, RowsOfBlocks
  <2>8. ASSUME NEW T \in SUBSET picked
        PROVE  ValueIn(ba', m, T) = ValueIn(ba, m, T)
    <3>1. IsFiniteSet(T)
      BY <2>7, FS_Subset DEF RInv
    <3>2. \A n \in T : ba'[<<m, n>>].allowance = ba[<<m, n>>].allowance
      BY <2>2, <2>7
    <3>. QED BY <3>1, <3>2, ValueStays
  <2>9. ReservationIsTight'
    <3>. SUFFICES ASSUME NEW i \in DOMAIN routes',
                         \A n \in routes'[i].blocks : <<routes'[i].miner, n>> \in DOMAIN ba'
                  PROVE  LET r == routes'[i] IN
                         /\ ValueIn(ba', r.miner, r.blocks) >= r.seconds
                         /\ r.blocks # {} =>
                              ValueIn(ba', r.miner, r.blocks \ {Max(r.blocks)}) < r.seconds
      BY DEF ReservationIsTight, Value
    <3>1. CASE i = id
      <4>1. picked \in SUBSET picked /\ picked \ {Max(picked)} \in SUBSET picked
        OBVIOUS
      <4>. QED BY <2>1, <2>6, <2>8, <3>1, <4>1 DEF Value
    <3>2. CASE i \in DOMAIN routes
      BY <2>1, <2>2, <2>3, <3>2, TightStays
    <3>. QED BY <2>1, <3>1, <3>2
  <2>. QED BY <2>1, <2>4, <2>9 DEF RInv
<1>7. ASSUME NEW id \in DOMAIN bookings,
             UndoAllowanceReservation(id) \/ SpendAllowance(id)
      PROVE  RInv'
  <2>1. /\ DOMAIN ba' = DOMAIN ba
        /\ \A i \in DOMAIN routes' : i \in DOMAIN routes /\ routes'[i] = routes[i]
        /\ UNCHANGED <<manifests, blocks>>
    BY <1>7 DEF UndoAllowanceReservation, SpendAllowance, Restrict
  <2>2. \A k \in DOMAIN ba : /\ ba'[k].allowance = ba[k].allowance
                             /\ ba'[k].invalidated = ba[k].invalidated
    BY <1>0, <1>7 DEF UndoAllowanceReservation, SpendAllowance, TypeOK, BlockAllowance
  <2>3. ReservableRowsSawNoDrop'
    BY <2>1, <2>2 DEF RInv, ReservableRowsSawNoDrop, GetManifestDrop, ManifestBlocks
  <2>4. ReservationIsTight'
    BY <2>1, <2>2, TightKept
  <2>. QED BY <2>1, <2>3, <2>4 DEF RInv
<1>8. CASE UNCHANGED vars
  BY <1>8 DEF vars, RInv, ReservationIsTight, ReservableRowsSawNoDrop, Value,
              GetManifestDrop, ManifestBlocks
<1>. QED BY <1>1, <1>2, <1>3, <1>4, <1>5, <1>6, <1>7, <1>8 DEF Next

\* What reserve_allowance takes covers the job with no block to spare, and what
\* it may still take saw no drop, for any sequence of scans, syncs, evictions
\* and jobs.
THEOREM ReservationsAlwaysRight == Spec => []ReservationsAreRight
<1>1. Init => RInv
  BY FS_EmptySet DEF Init, RInv, ReservationIsTight, ReservableRowsSawNoDrop
<1>2. RInv => ReservationsAreRight
  BY DEF RInv, ReservationsAreRight
<1>. QED BY <1>1, <1>2, NextReservations, LedgerInvariant, PTL DEF Spec
=============================================================================
