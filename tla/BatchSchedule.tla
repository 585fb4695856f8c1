--------------------------- MODULE BatchSchedule ---------------------------
(***************************************************************************)
(* Starting the scheduled batches of synthetic jobs (validator/tasks.py):  *)
(* several Celery workers run run_synthetic_jobs at once on the same table *)
(* of batches while check_missed_synthetic_jobs reports the late ones.     *)
(***************************************************************************)
EXTENDS Integers, FiniteSets, FiniteSetsExt

CONSTANTS
  Workers,     \* Celery workers that run run_synthetic_jobs
  Batches,     \* rows of SyntheticJobBatch
  MaxHead,     \* bound: last block of the chain
  Oversleep,   \* DYNAMIC_SYNTHETIC_JOBS_PLANNER_MAX_OVERSLEEP_BLOCKS
  Advance      \* DYNAMIC_SYNTHETIC_JOBS_PLANNER_WAIT_IN_ADVANCE_BLOCKS

ASSUME ScheduleAssumption ==
  /\ MaxHead \in Nat /\ Oversleep \in Nat /\ Advance \in Nat
  /\ "nobody" \notin Workers /\ "idle" \notin Batches /\ "plan" \notin Batches

VARIABLES
  head,      \* the chain's current block
  planned,   \* batch -> its block
  starts,    \* batch -> how often it was started
  missed,    \* batches with is_missed
  held,      \* batch -> the worker that holds its row, or NoWorker
  planner    \* worker -> place, the head it read and its batch

scheduleVars == <<head, planned, starts, missed, held, planner>>

NoWorker == "nobody"
IdlePlanner == [at |-> "idle", seen |-> 0]

\* calculate_job_start_block: validators share the cycle behind the offset evenly.
JobStartBlock(start, stop, offset, total, index) ==
  start + offset + ((stop - start - offset) * index) \div total

ScheduleInit ==
  /\ head = 0
  /\ planned \in [Batches -> {JobStartBlock(0, MaxHead - Oversleep, 1, 3, i) : i \in 0..2}]
  /\ starts = [b \in Batches |-> 0] /\ missed = {}
  /\ held = [b \in Batches |-> NoWorker]
  /\ planner = [w \in Workers |-> IdlePlanner]

NewHead ==
  /\ head < MaxHead /\ head' = head + 1
  /\ UNCHANGED <<planned, starts, missed, held, planner>>

\* The head is read before the transaction begins.
ReadHead(w) ==
  /\ planner[w].at = "idle"
  /\ planner' = [planner EXCEPT ![w] = [at |-> "plan", seen |-> head]]
  /\ UNCHANGED <<head, planned, starts, missed, held>>

\* Mutant of Ongoing: rows that another worker holds are read too.
OngoingUnlocked(w) ==
  {b \in Batches : /\ planned[b] >= planner[w].seen - Oversleep
                   /\ planned[b] <= planner[w].seen + Advance
                   /\ starts[b] = 0}

\* select_for_update(skip_locked=True): rows nobody holds and nobody started.
Ongoing(w) ==
  {b \in Batches : /\ planned[b] >= planner[w].seen - Oversleep
                   /\ planned[b] <= planner[w].seen + Advance
                   /\ starts[b] = 0 /\ held[b] = NoWorker}

\* The transaction locks the candidates and takes the first by block: it starts
\* it when its block has come, or keeps the rows and polls.
Plan(w) ==
  /\ planner[w].at = "plan"
  /\ IF Ongoing(w) = {}
     THEN /\ planner' = [planner EXCEPT ![w] = IdlePlanner]
          /\ UNCHANGED <<starts, held>>
     ELSE \E b \in Ongoing(w) :
            /\ \A c \in Ongoing(w) : planned[b] <= planned[c]
            /\ IF planned[b] <= planner[w].seen
               THEN /\ starts' = [starts EXCEPT ![b] = @ + 1]
                    /\ planner' = [planner EXCEPT ![w] = IdlePlanner]
                    /\ held' = held
               ELSE /\ held' = [c \in Batches |-> IF c \in Ongoing(w) THEN w ELSE held[c]]
                    /\ planner' = [planner EXCEPT ![w].at = b]
                    /\ starts' = starts
  /\ UNCHANGED <<head, planned, missed>>

\* Mutant of Release: giving up leaves the transaction open.
ReleaseNever(w) == w \in Workers /\ held' = held

Release(w) == held' = [c \in Batches |-> IF held[c] = w THEN NoWorker ELSE held[c]]

\* The polling loop sees the target block and the batch starts.
BlockReached(w) ==
  /\ planner[w].at \in Batches /\ head >= planned[planner[w].at]
  /\ starts' = [starts EXCEPT ![planner[w].at] = @ + 1]
  /\ Release(w) /\ planner' = [planner EXCEPT ![w] = IdlePlanner]
  /\ UNCHANGED <<head, planned, missed>>

\* Mutant of FailToWait: the batch is started although its block has not come.
FailToWaitStarts(w) ==
  /\ planner[w].at \in Batches /\ head < planned[planner[w].at]
  /\ starts' = [starts EXCEPT ![planner[w].at] = @ + 1]
  /\ Release(w) /\ planner' = [planner EXCEPT ![w] = IdlePlanner]
  /\ UNCHANGED <<head, planned, missed>>

\* The loop runs out of polls: FAILED_TO_WAIT, the batch is left as it was.
FailToWait(w) ==
  /\ planner[w].at \in Batches /\ head < planned[planner[w].at]
  /\ Release(w) /\ planner' = [planner EXCEPT ![w] = IdlePlanner]
  /\ UNCHANGED <<head, planned, starts, missed>>

CheckMissed ==
  /\ LET late == {b \in Batches \ missed : /\ planned[b] < head - Oversleep
                                           /\ starts[b] = 0 /\ held[b] = NoWorker}
     IN late # {} /\ missed' = missed \cup late
  /\ UNCHANGED <<head, planned, starts, held, planner>>

ScheduleNext ==
  \/ NewHead \/ CheckMissed
  \/ \E w \in Workers : ReadHead(w) \/ Plan(w) \/ BlockReached(w) \/ FailToWait(w)

\* Blocks keep coming, the beat keeps starting the tasks and a poll ends.
ScheduleFairness ==
  /\ WF_scheduleVars(NewHead) /\ WF_scheduleVars(CheckMissed)
  /\ \A w \in Workers :
       WF_scheduleVars(BlockReached(w)) /\ WF_scheduleVars(Plan(w))

ScheduleSpec == ScheduleInit /\ [][ScheduleNext]_scheduleVars /\ ScheduleFairness

\* However many workers plan at once, a batch is handed to Celery at most once.
BatchStartsOnce == \A b \in Batches : starts[b] <= 1

\* A batch is never started before the block it was scheduled for: validators
\* would otherwise test the same miners at the same time.
BatchNeverEarly ==
  [][\A b \in Batches : (starts'[b] > starts[b]) => (head >= planned[b])]_scheduleVars

\* Every batch is in the end started or reported as missed.
BatchSettled == (head > 0) ~> \A b \in Batches : starts[b] > 0 \/ b \in missed
=============================================================================
