---------------------------- MODULE MCAllowance ----------------------------
(***************************************************************************)
(* Small instances of Allowance for TLC, in two scenarios: bookings, with  *)
(* miners whose counts do not change, and a miner's manifests, with counts *)
(* that fall and rise under overlapping syncs.                             *)
(***************************************************************************)
EXTENDS Allowance, TLC

CONSTANT MaxManifestBlock  \* bound: last block minted in the second scenario

VARIABLE scenario          \* "bookings", or the miner whose manifests change

\* No action or property names a miner or a sync.
Symmetry == Permutations(Miners) \cup Permutations(Syncs)

MCInit == Init /\ scenario \in {"bookings"} \cup Miners

\* What the scenarios share.
Common(hotkeys, requests) ==
    \/ MintBlock
    \/ EvictOldData
    \/ \E n \in 0 .. current - 1 : FinalizeBlock(n, hotkeys)
    \/ \E m \in hotkeys, seconds \in requests, lag \in 0 .. ROUTING_LAG :
          lag <= current /\ ReserveAllowance(m, seconds, current - lag)
    \/ \E id \in DOMAIN bookings :
          UndoAllowanceReservation(id) \/ SpendAllowance(id)

\* All miners have one executor each, and one sync runs at a time.
Bookings ==
    \/ Common(Miners, Requests)
    \/ \E t \in Syncs :
          /\ \A u \in Syncs \ {t} : syncs[u] = NoBlock
          /\ \/ StartSync(t) \/ AbortSync(t)
             \/ CommitSync(t, Miners, [m \in Miners |-> 1], Max(Caps))

\* One miner is on the metagraph, its count changes, and one job may book.
Manifests(m) ==
    /\ \/ Common({m}, {Min(Requests)})
       \/ \E t \in Syncs :
            \/ StartSync(t) \/ AbortSync(t)
            \/ \E report \in Reports, cap \in Caps :
                 CommitSync(t, {m}, [x \in Miners |-> report], cap)
    /\ current' <= MaxManifestBlock /\ lastId' <= 1

\* Each step is a step of Next.
MCNext ==
    /\ UNCHANGED scenario
    /\ \/ scenario = "bookings" /\ Bookings
       \/ \E m \in Miners : scenario = m /\ Manifests(m)

MCSpec == MCInit /\ [][MCNext]_<<vars, scenario>>
=============================================================================
