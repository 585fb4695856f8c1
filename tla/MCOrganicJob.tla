---------------------------- MODULE MCOrganicJob ----------------------------
(***************************************************************************)
(* Two parts of a validator that share no state, each checked from its own *)
(* initial states in one run: the organic job driver, whose promise is     *)
(* that a booking is settled, and the block scans that grant what is       *)
(* booked.  `part' says which of the two takes steps; the other stays in   *)
(* its initial state.                                                      *)
(***************************************************************************)
EXTENDS OrganicJob, BlockScan

VARIABLE part

MCInit == Init /\ ScanInit /\ part \in {"job", "scan"}

MCNext ==
  /\ UNCHANGED part
  /\ \/ part = "job" /\ Next /\ UNCHANGED scanVars
     \/ part = "scan" /\ ScanNext /\ UNCHANGED vars

MCFairness ==
  \/ part = "job" /\ Fairness
  \/ part = "scan" /\ ScanFairness

MCSpec == MCInit /\ [][MCNext]_<<vars, scanVars, part>> /\ MCFairness

\* The live scan's promise, in its own behaviours.
MCLiveWindowFilled == part = "scan" => LiveWindowFilled

\* The driver's promise, in its own behaviours.
MCBookingSettled == part = "job" => BookingSettled
=============================================================================
