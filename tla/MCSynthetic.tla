----------------------------- MODULE MCSynthetic -----------------------------
(***************************************************************************)
(* Synthetic jobs: a behaviour is one of the planning of batches, or one   *)
(* of the batch that a planner started.  The two share no state, so they   *)
(* are checked side by side.                                               *)
(***************************************************************************)
EXTENDS BatchSchedule, SyntheticBatch

VARIABLE part

MCPeak == {-1, 0, 2}

\* The part that is not taken stays in one of its initial states.
SyntheticInit ==
  /\ part \in {"schedule", "batch"}
  /\ ScheduleInit /\ BatchInit
  /\ part # "schedule" => \A b \in Batches : planned[b] = 1
  /\ part # "batch" => prompts = 0

SyntheticNext ==
  \/ part = "schedule" /\ ScheduleNext /\ UNCHANGED <<part, batchVars>>
  \/ part = "batch" /\ BatchNext /\ UNCHANGED <<part, scheduleVars>>

SyntheticSpec ==
  /\ SyntheticInit /\ [][SyntheticNext]_<<part, scheduleVars, batchVars>>
  /\ \/ part = "schedule" /\ ScheduleFairness
     \/ part = "batch" /\ BatchFairness
=============================================================================
