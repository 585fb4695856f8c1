--------------------------- MODULE SyntheticBatch ---------------------------
(***************************************************************************)
(* One batch of synthetic jobs (validator/synthetic_jobs/batch_run.py):    *)
(* the main coroutine goes through its stages, each stage runs one asyncio *)
(* task per miner or per job, and the miners' messages arrive whenever the *)
(* reader tasks run.  Telemetry events are left out: they carry no state   *)
(* that the batch reads back.                                              *)
(***************************************************************************)
EXTENDS Integers, FiniteSets, FiniteSetsExt

CONSTANTS
  Miners,           \* the serving miners of the batch, 1..n
  LlmMiners,        \* those whose executors are of LLM_EXECUTOR_CLASS
  StreamingMiners,  \* those whose executor class is configured as streaming
  Reports,          \* executor counts a manifest can hold
  MaxExecutors,     \* get_miner_max_executors_per_class
  MaxBatchJobs,     \* bound: jobs of one batch
  PeakCounts,       \* online executors a miner can have had in the peak cycle
  MaxPrompts,       \* bound: unused answered prompt samples at the start
  MaxExcuses        \* bound: valid excuse receipts of one declined job

ASSUME BatchAssumption ==
  /\ Miners \subseteq Nat /\ IsFiniteSet(Miners) /\ Miners # {}
  /\ LlmMiners \subseteq Miners /\ StreamingMiners \subseteq Miners
  /\ MaxExecutors \in Nat \ {0} /\ MaxPrompts \in Nat /\ MaxExcuses \in Nat
  /\ Reports \subseteq Nat /\ PeakCounts \subseteq Int

VARIABLES
  bstage,     \* the stage of execute_synthetic_batch_run
  bconn,      \* miners whose connection is up
  mtask,      \* place of each _get_miner_manifest task
  counted,    \* ctx.executors
  jobs,       \* ctx.jobs: the jobs generated
  job,        \* the Job object of each of them
  parties,    \* jobs counted by the start barrier of _trigger_job_execution
  scored,     \* jobs _score_jobs went through
  prompts,    \* unused answered prompt samples in the database
  rows,       \* SyntheticJob rows of the batch: job -> status
  stored      \* receipts in the database

batchVars == <<bstage, bconn, mtask, counted, jobs, job, parties,
               scored, prompts, rows, stored>>

Absent == -1
AllJobs == Miners \X (1..MaxExecutors)
MinerOf(j) == j[1]
IsLlm(j) == MinerOf(j) \in LlmMiners
IsStreaming(j) == MinerOf(j) \in StreamingMiners

Kinds == {"accept", "executor", "streaming", "response"}
Answers == [accept |-> {"accepted", "busy", "declined"},
            executor |-> {"ready", "failed"},
            streaming |-> {"ready", "notready"},
            response |-> {"finished", "failed"}]

NewJob == [task |-> "config", asked |-> FALSE, sent |-> FALSE, early |-> FALSE,
           hash |-> FALSE, got |-> [k \in Kinds |-> "none"], downloaded |-> FALSE,
           status |-> "failed", excuses |-> 0, receipts |-> {}]

Done(S) == \A j \in S : job[j].task = "done"

BatchInit ==
  /\ bstage = "manifest" /\ bconn = {}
  /\ mtask = [m \in Miners |-> "connect"]
  /\ counted = [m \in Miners |-> 0]
  /\ jobs = {} /\ job = [j \in AllJobs |-> NewJob]
  /\ parties = {} /\ scored = {} /\ stored = {}
  /\ prompts \in 0..MaxPrompts
  /\ rows = [j \in AllJobs |-> "none"]

---------------------------------------------------------------------------
\* The manifest stage.

\* client.connect(): the connection is made, or fails and the task returns.
ConnectMiner(m) ==
  /\ bstage = "manifest" /\ mtask[m] = "connect"
  /\ \/ bconn' = bconn \cup {m} /\ mtask' = [mtask EXCEPT ![m] = "wait"]
     \/ bconn' = bconn /\ mtask' = [mtask EXCEPT ![m] = "done"]
  /\ UNCHANGED <<bstage, counted, jobs, job, parties, scored, prompts, rows, stored>>

\* The first manifest of the miner arrives and the task takes its counts; later
\* manifests are dropped, and one after the timeout is never looked at.
TakeManifest(m) ==
  /\ bstage = "manifest" /\ mtask[m] = "wait" /\ m \in bconn
  /\ \E n \in Reports : counted' = [counted EXCEPT ![m] = n]
  /\ mtask' = [mtask EXCEPT ![m] = "done"]
  /\ UNCHANGED <<bstage, bconn, jobs, job, parties, scored, prompts, rows, stored>>

ManifestTimeout(m) ==
  /\ bstage = "manifest" /\ mtask[m] \in {"connect", "wait"}
  /\ mtask' = [mtask EXCEPT ![m] = "done"]
  /\ UNCHANGED <<bstage, bconn, counted, jobs, job, parties, scored, prompts, rows, stored>>

\* _adjust_miner_max_executors_per_class.
CappedCount(n) == Min({n, MaxExecutors})

\* _limit_non_peak_executors_per_class: a miner seen at the peak keeps its peak
\* count (ratio 1.0), at least 1; a miner that missed it the default limit of 1.
NonPeakCount(n, peak) ==
  IF peak = Absent THEN Min({n, 1}) ELSE Min({n, Max({peak, 1})})

\* The two limits, then _get_total_executor_count.
LimitExecutors ==
  /\ bstage = "manifest" /\ \A m \in Miners : mtask[m] = "done"
  /\ \E isPeak \in BOOLEAN, peak \in [Miners -> PeakCounts] :
       counted' = [m \in Miners |->
         IF isPeak \/ counted[m] = 0 THEN CappedCount(counted[m])
         ELSE NonPeakCount(CappedCount(counted[m]), peak[m])]
  /\ MapThenSumSet(LAMBDA m : counted'[m], Miners) <= MaxBatchJobs
  /\ bstage' = IF \E m \in Miners : counted'[m] > 0 THEN "generate" ELSE "close"
  /\ UNCHANGED <<bconn, mtask, jobs, job, parties, scored, prompts, rows, stored>>

\* get_llm_prompt_samples: all of them, or none is used.
EnoughSamples(llm) == prompts >= Cardinality(llm)

\* _generate_jobs with get_llm_prompt_samples: without enough samples no LLM job
\* is made.  An empty list of jobs makes asyncio.Barrier(0) raise, and a failed
\* query raises too: both end in the handler of execute_synthetic_batch_run.
GenerateJobs ==
  LET all == {j \in AllJobs : j[2] <= counted[MinerOf(j)]}
      llm == {j \in all : IsLlm(j)}
      made == IF EnoughSamples(llm) THEN all ELSE all \ llm
  IN /\ bstage = "generate"
     /\ \/ jobs' = made /\ bstage' = IF made = {} THEN "close" ELSE "initial"
        \/ jobs' = {} /\ bstage' = "close"
     /\ UNCHANGED <<bconn, mtask, counted, job, parties, scored, prompts, rows, stored>>

---------------------------------------------------------------------------
\* Messages and connections.

Asked(j) == j \in jobs /\ job[j].asked

\* Job.handle_message: the first message of each kind is kept.
Receive(j, k, v) ==
  /\ job[j].got[k] = "none"
  /\ job' = [job EXCEPT ![j] =
       [job[j] EXCEPT !.got = [job[j].got EXCEPT ![k] = v],
                      !.early = job[j].early \/ (k = "response" /\ ~job[j].sent)]]

\* MinerClient.handle_message: the miner of a job it was asked to run sends any
\* message about it, in any order.
MinerSays(j) ==
  /\ bstage \in {"initial", "streaming", "trigger", "score", "receipts"}
  /\ Asked(j) /\ MinerOf(j) \in bconn
  /\ \E k \in Kinds : (k # "streaming" \/ IsStreaming(j)) /\ \E v \in Answers[k] : Receive(j, k, v)
  /\ UNCHANGED <<bstage, bconn, mtask, counted, jobs, parties, scored, prompts, rows, stored>>

\* The transport loses its connection for good (one that comes back in time was
\* never lost; outside the streaming requests the loss is no different from a
\* miner that is silent until the timeout).
LoseConnection(m) ==
  /\ bstage \in {"initial", "streaming"} /\ m \in bconn \cap StreamingMiners
  /\ bconn' = bconn \ {m}
  /\ UNCHANGED <<bstage, mtask, counted, jobs, job, parties, scored, prompts, rows, stored>>

---------------------------------------------------------------------------
\* The initial requests: one task per job, two barriers.

JobStep(j, from, to) ==
  /\ job[j].task = from
  /\ job' = [job EXCEPT ![j].task = to]

BatchRest == UNCHANGED <<bconn, mtask, counted, jobs, parties, scored, prompts, rows, stored>>

\* get_streaming_job_executor_classes: when it raises, the task goes to the
\* second barrier without having been at the first.
ReadStreamingConfig(j) ==
  /\ bstage = "initial"
  /\ JobStep(j, "config", "start") \/ JobStep(j, "config", "raised")
  /\ BatchRest /\ UNCHANGED bstage

\* create_job_started_receipt: kept in the Job until the batch is persisted.
StartedReceipt(j) == [job[j] EXCEPT !.task = "serialize", !.receipts = {"started"}]

\* Mutant of PassStartBarrier: a task that failed does not wait at the second barrier.
PassStartBarrierLeaving ==
  /\ bstage = "initial" /\ \A j \in jobs : job[j].task = "start"
  /\ \E bad \in SUBSET jobs :
       job' = [j \in AllJobs |->
         IF j \notin jobs THEN job[j]
         ELSE IF j \in bad THEN [job[j] EXCEPT !.task = "done"]
         ELSE StartedReceipt(j)]
  /\ BatchRest /\ UNCHANGED bstage

\* start_barrier lets everyone through at once; _generate_job_started_receipt and
\* the request are then prepared, and may fail.
PassStartBarrier ==
  /\ bstage = "initial" /\ \A j \in jobs : job[j].task = "start"
  /\ \E bad \in SUBSET jobs :
       job' = [j \in AllJobs |->
         IF j \notin jobs THEN job[j]
         ELSE IF j \in bad THEN [job[j] EXCEPT !.task = "raised"]
         ELSE StartedReceipt(j)]
  /\ BatchRest /\ UNCHANGED bstage

\* serialize_barrier: every task reaches it, the failed ones in their finally.
PassSerializeBarrier ==
  /\ bstage = "initial" /\ \A j \in jobs : job[j].task \in {"serialize", "raised"}
  /\ job' = [j \in AllJobs |->
       IF j \notin jobs THEN job[j]
       ELSE [job[j] EXCEPT !.task = IF job[j].task = "raised" THEN "done" ELSE "send"]]
  /\ BatchRest /\ UNCHANGED bstage

SendInitialRequest(j) ==
  /\ bstage = "initial" /\ job[j].task = "send" /\ MinerOf(j) \in bconn
  /\ job' = [job EXCEPT ![j] = [@ EXCEPT !.task = "accept", !.asked = TRUE]]
  /\ BatchRest /\ UNCHANGED bstage

\* _generate_job_accepted_receipt.
AcceptedReceipt(j) == [job[j] EXCEPT !.task = "spinup", !.receipts = job[j].receipts \cup {"accepted"}]

\* The answer to the request; _handle_job_accepted makes the accepted receipt.
HandleAcceptance(j) ==
  /\ bstage = "initial" /\ job[j].task = "accept" /\ job[j].got["accept"] # "none"
  /\ job' = [job EXCEPT ![j] =
       IF job[j].got["accept"] = "accepted" THEN AcceptedReceipt(j) ELSE [@ EXCEPT !.task = "done"]]
  /\ BatchRest /\ UNCHANGED bstage

ExecutorResponds(j) ==
  /\ bstage = "initial" /\ job[j].got["executor"] # "none"
  /\ JobStep(j, "spinup", "done")
  /\ BatchRest /\ UNCHANGED bstage

\* asyncio.timeout(max_spin_up_time).
InitialTimeout(j) ==
  /\ bstage = "initial" /\ job[j].task \in {"send", "accept", "spinup"}
  /\ job' = [job EXCEPT ![j].task = "done"]
  /\ BatchRest /\ UNCHANGED bstage

\* _get_executor_ready_jobs.
ReadyJobs == {j \in jobs : /\ job[j].got["accept"] = "accepted"
                           /\ job[j].got["executor"] = "ready"
                           /\ job[j].got["response"] = "none"}
AnyBusy == \E j \in jobs : job[j].got["accept"] = "busy"

\* _multi_send_initial_job_request gathers; the ready jobs are chosen.
EndInitial ==
  /\ bstage = "initial" /\ Done(jobs)
  /\ bstage' = IF ReadyJobs # {} THEN "streaming" ELSE IF AnyBusy THEN "score" ELSE "close"
  /\ parties' = ReadyJobs
  /\ job' = [j \in AllJobs |->
       IF j \in ReadyJobs /\ IsStreaming(j) THEN [job[j] EXCEPT !.task = "sendstream"] ELSE job[j]]
  /\ UNCHANGED <<bconn, mtask, counted, jobs, scored, prompts, rows, stored>>

---------------------------------------------------------------------------
\* Streaming requests, then the start of all jobs at one barrier.

\* send_check retries for ever while the connection is down; no timeout is set.
SendStreamingRequest(j) ==
  /\ bstage = "streaming" /\ job[j].task = "sendstream" /\ MinerOf(j) \in bconn
  /\ job' = [job EXCEPT ![j] = [@ EXCEPT !.task = "waitstream", !.sent = TRUE]]
  /\ BatchRest /\ UNCHANGED bstage

\* The readiness message, or its timeout.
StreamingAnswered(j) ==
  /\ bstage = "streaming" /\ JobStep(j, "waitstream", "done")
  /\ BatchRest /\ UNCHANGED bstage

\* Jobs that take part in _trigger_job_execution.
Triggered == {j \in parties : ~IsStreaming(j) \/ job[j].got["streaming"] = "ready"}

\* Barrier(0) raises when no job is left.  A streaming task of a generator without
\* trigger_streaming_job_execution raises before it reaches the barrier.
StartTrigger ==
  /\ bstage = "streaming" /\ Done(jobs)
  /\ bstage' = IF Triggered = {} THEN "close" ELSE "trigger"
  /\ parties' = Triggered
  /\ job' = [j \in AllJobs |->
       IF j \in Triggered /\ (IsStreaming(j) => IsLlm(j))
       THEN [job[j] EXCEPT !.task = "barrier"] ELSE job[j]]
  /\ UNCHANGED <<bconn, mtask, counted, jobs, scored, prompts, rows, stored>>

PassTriggerBarrier ==
  /\ bstage = "trigger" /\ \A j \in parties : job[j].task = "barrier"
  /\ job' = [j \in AllJobs |-> IF j \in parties THEN [job[j] EXCEPT !.task = "run"] ELSE job[j]]
  /\ BatchRest /\ UNCHANGED bstage

\* _send_job_request.
SendJobRequest(j) ==
  /\ bstage = "trigger" /\ job[j].task = "run" /\ ~IsStreaming(j) /\ MinerOf(j) \in bconn
  /\ job' = [job EXCEPT ![j] = [@ EXCEPT !.task = "response", !.sent = TRUE]]
  /\ BatchRest /\ UNCHANGED bstage

\* trigger_streaming_job_execution: the HTTP request returns a hash or fails.
TriggerStreaming(j) ==
  /\ bstage = "trigger" /\ job[j].task = "run" /\ IsStreaming(j)
  /\ \E h \in BOOLEAN : job' = [job EXCEPT ![j] = [@ EXCEPT !.task = "response", !.hash = h]]
  /\ BatchRest /\ UNCHANGED bstage

\* The job's response, or the timeout.
ResponseOrTimeout(j) ==
  /\ bstage = "trigger"
  /\ \/ job[j].task = "response"
     \/ job[j].task = "run" /\ ~IsStreaming(j)
  /\ job' = [job EXCEPT ![j].task = "done"]
  /\ BatchRest /\ UNCHANGED bstage

\* The gather of _trigger_job_execution, then _download_llm_prompts_answers.
EndTrigger ==
  /\ bstage = "trigger" /\ Done(jobs)
  /\ bstage' = "score"
  /\ \E ok \in SUBSET {j \in jobs : IsLlm(j) /\ job[j].got["response"] = "finished"} :
       job' = [j \in AllJobs |-> [job[j] EXCEPT !.downloaded = j \in ok]]
  /\ BatchRest

---------------------------------------------------------------------------
\* Scoring, receipts and the database.

Accepted(m) == {j \in jobs : MinerOf(j) = m /\ job[j].got["accept"] = "accepted"}

\* The busy branch of _score_job with n valid excuse receipts.
ExcuseOk(j, n) == Cardinality(Accepted(MinerOf(j))) + n >= counted[MinerOf(j)]

\* Mutant of InOrder: an answer that came before the request has its time taken
\* from the moment it was sent.
InOrderUnchecked(j) == job[j].sent

\* The response came after the details were sent: time_took is positive.
InOrder(j) == job[j].sent /\ ~job[j].early

\* verify_correctness: an LLM synthetic job needs the hash of the streaming answer
\* and the downloaded file to match.
CanBeCorrect(j) == IsLlm(j) => job[j].hash /\ job[j].downloaded

\* _score_job: the result of scoring j with n excuse receipts, when the answer is
\* correct and in time iff good.
ScoreOf(j, n, good) ==
  LET a == job[j].got["accept"] IN
  CASE a = "busy" /\ ExcuseOk(j, n) -> "excused"
    [] a \in {"busy", "declined"} /\ ~(a = "busy" /\ ExcuseOk(j, n)) -> "failed"
    [] a \notin {"busy", "declined"} ->
         IF /\ job[j].got["response"] = "finished" /\ InOrder(j)
            /\ good /\ CanBeCorrect(j)
         THEN "success" ELSE "failed"

\* One iteration of _score_jobs; an exception leaves the job failed.
ScoreJob(j) ==
  /\ bstage = "score" /\ j \in jobs \ scored
  /\ \A i \in jobs \ scored : j[1] < i[1] \/ (j[1] = i[1] /\ j[2] <= i[2])
  /\ \E n \in (IF job[j].got["accept"] = "busy" THEN 0..MaxExcuses ELSE {0}), good \in BOOLEAN :
       job' = [job EXCEPT ![j] = [@ EXCEPT !.status = ScoreOf(j, n, good), !.excuses = n]]
  /\ scored' = scored \cup {j}
  /\ UNCHANGED <<bstage, bconn, mtask, counted, jobs, parties, prompts, rows, stored>>

EndScoring ==
  /\ bstage = "score" /\ scored = jobs
  /\ bstage' = IF parties # {} THEN "receipts" ELSE "close"
  /\ job' = job /\ BatchRest

\* _generate_job_finished_receipt.
FinishedReceipt(j) == [job[j] EXCEPT !.receipts = job[j].receipts \cup {"finished"}]

\* _send_job_finished_receipts: jobs with a response; the assertion that the job
\* was sent fails for the others and is swallowed.
SendFinishedReceipts ==
  /\ bstage = "receipts"
  /\ job' = [j \in AllJobs |->
       IF job[j].got["response"] # "none" /\ job[j].sent
       THEN FinishedReceipt(j) ELSE job[j]]
  /\ bstage' = "close"
  /\ BatchRest

CloseClients ==
  /\ bstage = "close" /\ bstage' = "critical" /\ bconn' = {}
  /\ UNCHANGED <<mtask, counted, jobs, job, parties, scored, prompts, rows, stored>>

\* _db_persist_critical: batch and jobs in one transaction.
PersistCritical ==
  /\ bstage = "critical" /\ bstage' = "persist"
  /\ rows' = [j \in AllJobs |-> IF j \in jobs THEN job[j].status ELSE "none"]
  /\ UNCHANGED <<bconn, mtask, counted, jobs, job, parties, scored, prompts, stored>>

\* _db_persist: prompt samples are marked as used, receipts are stored.
Persist ==
  /\ bstage = "persist" /\ bstage' = "end"
  /\ prompts' = prompts - Cardinality({j \in jobs : IsLlm(j)})
  /\ stored' = {p \in jobs \X {"started", "accepted", "finished"} : p[2] \in job[p[1]].receipts}
  /\ UNCHANGED <<bconn, mtask, counted, jobs, job, parties, scored, rows>>

\* Celery's time limit ends the process: only the database is left.
TimeLimit ==
  /\ bstage \notin {"end", "killed"} /\ bstage' = "killed"
  /\ bconn' = {} /\ mtask' = [m \in Miners |-> "done"] /\ counted' = [m \in Miners |-> 0]
  /\ jobs' = {} /\ job' = [j \in AllJobs |-> NewJob] /\ parties' = {} /\ scored' = {}
  /\ UNCHANGED <<prompts, rows, stored>>

BatchSteps ==
  \/ \E m \in Miners : ConnectMiner(m) \/ TakeManifest(m) \/ ManifestTimeout(m)
  \/ LimitExecutors \/ GenerateJobs
  \/ \E j \in jobs :
       \/ ReadStreamingConfig(j) \/ SendInitialRequest(j) \/ HandleAcceptance(j)
       \/ ExecutorResponds(j) \/ InitialTimeout(j) \/ SendStreamingRequest(j)
       \/ StreamingAnswered(j) \/ SendJobRequest(j) \/ TriggerStreaming(j)
       \/ ResponseOrTimeout(j) \/ ScoreJob(j)
  \/ PassStartBarrier \/ PassSerializeBarrier \/ EndInitial \/ StartTrigger
  \/ PassTriggerBarrier \/ EndTrigger \/ EndScoring \/ SendFinishedReceipts
  \/ CloseClients \/ PersistCritical \/ Persist

BatchNext ==
  \/ BatchSteps
  \/ \E m \in Miners : LoseConnection(m)
  \/ \E j \in jobs : MinerSays(j)
  \/ TimeLimit

\* asyncio runs every ready task, and every timeout fires: some step of the batch
\* is taken whenever one can be.
BatchFairness == WF_batchVars(BatchSteps)

BatchSpec == BatchInit /\ [][BatchNext]_batchVars /\ BatchFairness

---------------------------------------------------------------------------
\* Properties.

\* A job saved as completed was accepted, its executor was ready, and its answer
\* came after its details had been sent (_score_job's "out of order job response").
CompletedJobsWereEarned ==
  \A j \in jobs : rows[j] = "success" =>
    /\ job[j].got["accept"] = "accepted" /\ job[j].got["executor"] = "ready"
    /\ job[j].got["response"] = "finished" /\ job[j].sent /\ ~job[j].early

\* An excused job's miner has every executor accounted for by an accepted job of
\* this batch or by a valid receipt, even when acceptances come during scoring.
ExcusesCoverExecutors ==
  \A j \in jobs : job[j].status = "excused" =>
    Cardinality(Accepted(MinerOf(j))) + job[j].excuses >= counted[MinerOf(j)]

\* When the batch has ended, every completed job has its started and finished
\* receipts in the database: a score is never kept without them.
CompletedJobsHaveReceipts ==
  bstage = "end" => \A j \in jobs : rows[j] = "success" =>
    <<j, "started">> \in stored /\ <<j, "finished">> \in stored

\* What a batch records is backed by what the miners sent: a completed job was
\* accepted and answered in order, it has its receipts, and a job is excused
\* only if every executor of its miner is accounted for.
OutcomesAreBacked ==
    /\ CompletedJobsWereEarned
    /\ CompletedJobsHaveReceipts
    /\ ExcusesCoverExecutors


\* The three ways a batch waits for ever: a configuration read failed before the
\* first barrier, a streaming class without a streaming generator, and a streaming
\* request to a miner whose connection is gone.
Blocked ==
  \/ bstage = "initial" /\ \E i, j \in jobs : job[i].task = "raised" /\ job[j].task = "start"
  \/ bstage = "initial" /\ \A j \in jobs : job[j].task = "raised"
  \/ bstage = "trigger" /\ \E j \in parties : IsStreaming(j) /\ ~IsLlm(j)
  \/ bstage = "streaming" /\ \E j \in jobs : job[j].task = "sendstream" /\ MinerOf(j) \notin bconn

\* Every other batch ends by itself, without the help of Celery's time limit:
\* no task is left waiting at a barrier that the others have left.
BatchFinishes ==
  (bstage # "manifest") ~> (bstage \in {"end", "killed"} \/ Blocked)
=============================================================================
