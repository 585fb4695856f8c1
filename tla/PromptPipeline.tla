--------------------------- MODULE PromptPipeline ---------------------------
(***************************************************************************)
(* LLM prompts of the validator (tasks.py, cross_validation/): series are  *)
(* generated and sampled into workloads, workloads are answered by the     *)
(* trusted miner, and answered samples feed synthetic jobs.  Generation    *)
(* and answering share the trusted miner behind an advisory lock.          *)
(***************************************************************************)
EXTENDS Integers, FiniteSets, FiniteSetsExt

CONSTANTS
  Series,       \* bound: uuids of prompt series
  Workloads,    \* bound: uuids of workloads, 1..n
  Answerers,    \* workers that run llm_prompt_answering
  MaxSeries,    \* DYNAMIC_MAX_PROMPT_SERIES
  TargetReady,  \* DYNAMIC_TARGET_NUMBER_OF_PROMPT_SAMPLES_READY
  PerWorkload   \* samples that fill a workload

ASSUME PromptAssumption == TargetReady \in Nat /\ PerWorkload \in Nat \ {0} /\ MaxSeries \in Nat

VARIABLES
  series,    \* series in the database -> whether S3 has their prompts
  load,      \* workload -> its samples, their answers, the S3 file, finished
  used,      \* samples <<series, workload>> a synthetic job was made from
  lock,      \* holder of TRUSTED_MINER_LOCK
  todo,      \* answerer -> workloads it read and has not gone through
  sampler,   \* the workload create_sample_workloads is filling, if it runs
  reused     \* workloads it went on with after init_workload had failed

promptVars == <<series, load, used, lock, todo, sampler, reused>>

Free == <<>>
NoLoad == [saved |-> FALSE, samples |-> {}, file |-> {}, answered |-> {}, finished |-> FALSE]
Known == DOMAIN series
Open == {w \in Workloads : load[w].saved /\ ~load[w].finished}
Unused == {p \in Series \X Workloads : p[1] \in load[p[2]].samples /\ p \notin used}

PromptInit ==
  /\ series = [s \in {} |-> TRUE]
  /\ load = [w \in Workloads |-> NoLoad]
  /\ used = {} /\ lock = Free /\ sampler = {} /\ reused = {}
  /\ todo = [a \in Answerers |-> {}]

\* llm_prompt_generation: not while a workload is open, nor with enough series.
BeginGeneration ==
  /\ Open = {} /\ Cardinality(Known) < MaxSeries /\ lock = Free
  /\ lock' = <<"generation">>
  /\ UNCHANGED <<series, load, used, todo, sampler, reused>>

\* generate_prompts: the job ran and the series are saved; a rejection other than
\* BUSY falls through to the save although nothing was uploaded; other errors
\* and BUSY save nothing.
EndGeneration ==
  /\ lock = <<"generation">>
  /\ \/ \E s \in Series \ Known, full \in BOOLEAN :
          series' = [x \in Known \cup {s} |-> IF x = s THEN full ELSE series[x]]
     \/ series' = series
  /\ lock' = Free
  /\ UNCHANGED <<load, used, todo, sampler, reused>>

\* llm_prompt_sampling: enough series, not enough unused samples; the first
\* workload is made.
SamplingWanted ==
  /\ Cardinality(Known) >= Min({2 * TargetReady, MaxSeries})
  /\ Cardinality(Unused) < TargetReady

BeginSampling(w) ==
  /\ sampler = {} /\ SamplingWanted /\ load[w] = NoLoad
  /\ sampler' = {w}
  /\ UNCHANGED <<series, load, used, lock, todo, reused>>

\* A full workload: its prompts are uploaded and it is saved with its samples.
\* The object in memory was never finished, and save() writes every column.
SaveWorkload(w, S) ==
  load' = [load EXCEPT ![w] = [saved |-> TRUE, samples |-> load[w].samples \cup S, file |-> S,
                               answered |-> load[w].answered, finished |-> FALSE]]

\* One turn of create_sample_workloads: series that cannot be downloaded are
\* skipped; the upload may fail, and persist_workload swallows a failed save.
\* The loop ends, makes the next workload, or, when init_workload fails, goes
\* on with the workload it has just saved.
FillWorkload(w) ==
  /\ sampler = {w}
  /\ \E S \in SUBSET {s \in Known : series[s] /\ s \notin load[w].samples} :
       /\ Cardinality(S) = PerWorkload
       /\ \/ SaveWorkload(w, S)
          \/ load' = [load EXCEPT ![w].file = S]
          \/ load' = load
  /\ \/ sampler' = {} /\ reused' = reused
     \/ \E v \in Workloads : load[v] = NoLoad /\ v # w /\ sampler' = {v} /\ reused' = reused
     \/ sampler' = {w} /\ reused' = reused \cup {w}
  /\ UNCHANGED <<series, used, lock, todo>>

\* The loop runs out of series.
EndSampling ==
  /\ sampler # {} /\ sampler' = {}
  /\ UNCHANGED <<series, load, used, lock, todo, reused>>

\* llm_prompt_answering reads the open workloads, then goes through them.
ReadWorkloads(a) ==
  /\ todo[a] = {} /\ Open # {} /\ todo' = [todo EXCEPT ![a] = Open]
  /\ UNCHANGED <<series, load, used, lock, sampler, reused>>

\* get_advisory_lock: taken, or the task ends.
BeginAnswering(a, w) ==
  /\ w \in todo[a]
  /\ IF lock = Free
     THEN lock' = <<a, w>> /\ todo' = [todo EXCEPT ![a] = @ \ {w}]
     ELSE lock' = lock /\ todo' = [todo EXCEPT ![a] = {}]
  /\ UNCHANGED <<series, load, used, sampler, reused>>

\* Mutant of SaveAnswers: a prompt without an answer is skipped, the workload ends.
SaveAnswersPartly(w, got) ==
  load' = [load EXCEPT ![w].finished = TRUE, ![w].answered = @ \cup (load[w].samples \cap got)]

\* save_workload_answers: all prompts not yet answered must be in the answers.
SaveAnswers(w, got) ==
  LET asked == load[w].samples \ load[w].answered IN
  IF asked \subseteq got
  THEN load' = [load EXCEPT ![w] = [load[w] EXCEPT !.finished = TRUE,
                                                   !.answered = load[w].answered \cup asked]]
  ELSE load' = load

\* answer_prompts: the job fails, or the answers of the file are downloaded.
EndAnswering(a, w) ==
  /\ lock = <<a, w>>
  /\ load' = load \/ SaveAnswers(w, load[w].file)
  /\ lock' = Free
  /\ UNCHANGED <<series, used, todo, sampler, reused>>

\* A batch of synthetic jobs uses an answered sample (_db_persist).
UseSample(p) ==
  /\ p \in Unused /\ load[p[2]].finished
  /\ used' = used \cup {p}
  /\ UNCHANGED <<series, load, lock, todo, sampler, reused>>

\* evict_synthetic_jobs and evict_dangling_prompts: samples go with their jobs,
\* workloads without samples go too.
Evict(w) ==
  /\ load[w].finished /\ \A p \in Series \X {w} : p[1] \in load[w].samples => p \in used
  /\ load' = [load EXCEPT ![w] = NoLoad]
  /\ used' = {p \in used : p[2] # w}
  /\ todo' = [a \in Answerers |-> todo[a] \ {w}]
  /\ lock \notin (Answerers \X {w}) /\ w \notin sampler
  /\ reused' = reused \ {w}
  /\ UNCHANGED <<series, lock, sampler>>

PromptNext ==
  \/ BeginGeneration \/ EndGeneration \/ EndSampling
  \/ \E w \in Workloads : BeginSampling(w) \/ FillWorkload(w) \/ Evict(w)
  \/ \E a \in Answerers :
       ReadWorkloads(a) \/ \E w \in Workloads : BeginAnswering(a, w) \/ EndAnswering(a, w)
  \/ \E p \in Series \X Workloads : UseSample(p)

PromptSpec == PromptInit /\ [][PromptNext]_promptVars

\* A synthetic job is only ever made from a sample whose prompts have answers to
\* compare with, whatever sampling, answering and eviction do in between.
JobsUseAnsweredSamples == \A p \in used : p[1] \in load[p[2]].answered

\* A workload that is not finished can be: the file the trusted miner is given
\* holds every prompt that still lacks an answer.  (A workload that was filled
\* again after a failed init_workload is the exception: its file was replaced,
\* it stays open and holds up the generation of prompts.)
OpenWorkloadsAreAnswerable ==
  \A w \in Open \ reused : load[w].samples \ load[w].answered \subseteq load[w].file

\* Generation, answering, use and eviction share the prompt tables without a
\* lock around them: a job gets only samples that were answered, and a
\* workload that is still open can be answered, unless it was filled twice.
SamplesAreSound ==
    /\ JobsUseAnsweredSamples
    /\ OpenWorkloadsAreAnswerable

=============================================================================
