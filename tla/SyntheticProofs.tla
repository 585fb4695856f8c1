--------------------------- MODULE SyntheticProofs ---------------------------
(***************************************************************************)
(* Proofs about synthetic jobs: the planners that start the batches, and   *)
(* the batch that one of them started.                                     *)
(***************************************************************************)
EXTENDS BatchSchedule, SyntheticBatch, SetFacts

-----------------------------------------------------------------------------
(* BatchSchedule: planners that share the table of batches *)

ScheduleTypes ==
  /\ head \in Nat /\ planned \in [Batches -> Int] /\ starts \in [Batches -> Nat]
  /\ held \in [Batches -> Workers \cup {NoWorker}]
  /\ planner \in [Workers -> [at : {"idle", "plan"} \cup Batches, seen : Nat]]

\* A head that was read has been reached.
HeadsWereReached == \A w \in Workers : planner[w].seen <= head

\* The batch that a planner polls for is locked by it and not started.
PolledIsHeld ==
  \A w \in Workers : planner[w].at \in Batches =>
    held[planner[w].at] = w /\ starts[planner[w].at] = 0

ScheduleInv == ScheduleTypes /\ HeadsWereReached /\ PolledIsHeld /\ BatchStartsOnce

\* No planner runs.
LEMMA InitSchedule == ScheduleInit => ScheduleInv
<1>. SUFFICES ASSUME ScheduleInit PROVE ScheduleInv
  OBVIOUS
<1>1. \A i \in 0 .. 2 : JobStartBlock(0, MaxHead - Oversleep, 1, 3, i) \in Int
  <2>. SUFFICES ASSUME NEW i \in 0 .. 2 PROVE JobStartBlock(0, MaxHead - Oversleep, 1, 3, i) \in Int
    OBVIOUS
  <2>1. i = 0 \/ i = 1 \/ i = 2
    OBVIOUS
  <2>. QED BY <2>1, ScheduleAssumption DEF JobStartBlock
<1>2. planned \in [Batches -> Int]
  BY <1>1 DEF ScheduleInit
<1>3. planner = [w \in Workers |-> IdlePlanner] /\ IdlePlanner.at = "idle" /\ IdlePlanner.seen = 0
      /\ IdlePlanner \in [at : {"idle", "plan"} \cup Batches, seen : Nat]
  BY DEF ScheduleInit, IdlePlanner
<1>4. head = 0 /\ starts = [b \in Batches |-> 0] /\ held = [b \in Batches |-> NoWorker]
  BY DEF ScheduleInit
<1>. HIDE DEF IdlePlanner, NoWorker
<1>5. ScheduleTypes
  BY <1>2, <1>3, <1>4 DEF ScheduleTypes
<1>6. HeadsWereReached /\ PolledIsHeld
  BY <1>3, <1>4, ScheduleAssumption DEF HeadsWereReached, PolledIsHeld
<1>7. BatchStartsOnce
  BY <1>4 DEF BatchStartsOnce
<1>. QED BY <1>5, <1>6, <1>7 DEF ScheduleInv

\* One batch that nobody polls for is started.
LEMMA StartStep ==
    ASSUME ScheduleInv, NEW b \in Batches, starts[b] = 0,
           starts' = [starts EXCEPT ![b] = @ + 1]
    PROVE  /\ starts' \in [Batches -> Nat] /\ BatchStartsOnce'
           /\ \A c \in Batches : c # b => starts'[c] = starts[c]
<1>1. starts \in [Batches -> Nat] /\ \A c \in Batches : starts[c] <= 1
  BY DEF ScheduleInv, ScheduleTypes, BatchStartsOnce
<1>2. \A c \in Batches : starts'[c] = IF c = b THEN 1 ELSE starts[c]
  BY <1>1
<1>3. starts' \in [Batches -> Nat]
  BY <1>1
<1>. QED BY <1>1, <1>2, <1>3 DEF BatchStartsOnce

\* Every step of the planners, the chain and the check keeps the invariant.
LEMMA NextSchedule == ScheduleInv /\ [ScheduleNext]_scheduleVars => ScheduleInv'
<1>. SUFFICES ASSUME ScheduleInv, [ScheduleNext]_scheduleVars PROVE ScheduleInv'
  OBVIOUS
<1>. DEFINE Rec == [at : {"idle", "plan"} \cup Batches, seen : Nat]
<1>0. IdlePlanner \in Rec /\ IdlePlanner.at = "idle" /\ IdlePlanner.seen = 0
  BY DEF IdlePlanner
<1>a. NoWorker \notin Workers /\ "idle" \notin Batches /\ "plan" \notin Batches
  BY ScheduleAssumption DEF NoWorker
<1>. HIDE DEF IdlePlanner, NoWorker
<1>. USE DEF ScheduleInv, ScheduleTypes, HeadsWereReached, PolledIsHeld
<1>1. CASE NewHead
  <2>1. head' = head + 1 /\ UNCHANGED <<planned, starts, missed, held, planner>>
    BY <1>1 DEF NewHead
  <2>2. HeadsWereReached'
    <3>. SUFFICES ASSUME NEW w \in Workers PROVE planner[w].seen <= head + 1
      BY <2>1
    <3>1. planner[w].seen \in Nat /\ head \in Nat
      OBVIOUS
    <3>. QED BY <3>1
  <2>. QED BY <2>1, <2>2 DEF BatchStartsOnce
<1>2. CASE CheckMissed
  BY <1>2 DEF CheckMissed, BatchStartsOnce
<1>3. ASSUME NEW w \in Workers, ReadHead(w) PROVE ScheduleInv'
  <2>. DEFINE n == [at |-> "plan", seen |-> head]
  <2>1. planner' = [planner EXCEPT ![w] = n] /\ UNCHANGED <<head, planned, starts, missed, held>>
    BY <1>3 DEF ReadHead
  <2>2. n \in Rec /\ n.at = "plan" /\ n.seen = head
    OBVIOUS
  <2>. HIDE DEF n
  <2>. QED BY <1>a, <2>1, <2>2 DEF BatchStartsOnce
<1>4. ASSUME NEW w \in Workers, Plan(w) PROVE ScheduleInv'
  <2>0. UNCHANGED <<head, planned, missed>> /\ planner[w].at = "plan"
    BY <1>4 DEF Plan
  <2>1. CASE Ongoing(w) = {}
    <3>1. planner' = [planner EXCEPT ![w] = IdlePlanner] /\ UNCHANGED <<starts, held>>
      BY <1>4, <2>1 DEF Plan
    <3>. QED BY <1>0, <1>a, <2>0, <3>1 DEF BatchStartsOnce
  <2>2. CASE Ongoing(w) # {}
    <3>1. PICK b \in Ongoing(w) :
            IF planned[b] <= planner[w].seen
            THEN /\ starts' = [starts EXCEPT ![b] = @ + 1]
                 /\ planner' = [planner EXCEPT ![w] = IdlePlanner]
                 /\ held' = held
            ELSE /\ held' = [c \in Batches |-> IF c \in Ongoing(w) THEN w ELSE held[c]]
                 /\ planner' = [planner EXCEPT ![w].at = b]
                 /\ starts' = starts
      BY <1>4, <2>2 DEF Plan
    <3>2. b \in Batches /\ starts[b] = 0 /\ held[b] = NoWorker
          /\ \A c \in Ongoing(w) : c \in Batches /\ starts[c] = 0 /\ held[c] = NoWorker
      BY DEF Ongoing
    <3>3. \A v \in Workers : planner[v].at \notin Ongoing(w)
      BY <1>a, <3>2
    <3>4. CASE planned[b] <= planner[w].seen
      <4>1. /\ starts' = [starts EXCEPT ![b] = @ + 1]
            /\ planner' = [planner EXCEPT ![w] = IdlePlanner] /\ held' = held
        BY <3>1, <3>4
      <4>2. /\ starts' \in [Batches -> Nat] /\ BatchStartsOnce'
            /\ \A c \in Batches : c # b => starts'[c] = starts[c]
        BY <3>2, <4>1, StartStep
      <4>3. PolledIsHeld'
        BY <1>0, <1>a, <3>3, <4>1, <4>2
      <4>. QED BY <1>0, <2>0, <4>1, <4>2, <4>3
    <3>5. CASE ~(planned[b] <= planner[w].seen)
      <4>. DEFINE n == [planner[w] EXCEPT !.at = b]
      <4>1. /\ held' = [c \in Batches |-> IF c \in Ongoing(w) THEN w ELSE held[c]]
            /\ planner' = [planner EXCEPT ![w] = n] /\ starts' = starts
        BY <3>1, <3>5
      <4>2. n \in Rec /\ n.at = b /\ n.seen = planner[w].seen
        BY <3>2
      <4>. HIDE DEF n
      <4>3. PolledIsHeld'
        BY <3>2, <3>3, <4>1, <4>2
      <4>4. ScheduleTypes' /\ HeadsWereReached'
        BY <2>0, <4>1, <4>2
      <4>. QED BY <4>1, <4>3, <4>4 DEF BatchStartsOnce
    <3>. QED BY <3>4, <3>5
  <2>. QED BY <2>1, <2>2
<1>5. ASSUME NEW w \in Workers, planner' = [planner EXCEPT ![w] = IdlePlanner], Release(w),
             UNCHANGED <<head, planned>>
      PROVE  /\ held' \in [Batches -> Workers \cup {NoWorker}]
             /\ planner' \in [Workers -> Rec] /\ HeadsWereReached'
             /\ \A v \in Workers : planner'[v].at \in Batches =>
                  v # w /\ planner'[v].at = planner[v].at /\ held'[planner[v].at] = v
  BY <1>0, <1>a, <1>5 DEF Release
<1>6. ASSUME NEW w \in Workers, BlockReached(w) PROVE ScheduleInv'
  <2>. DEFINE b == planner[w].at
  <2>1. /\ b \in Batches /\ starts' = [starts EXCEPT ![b] = @ + 1] /\ starts[b] = 0
        /\ held[b] = w /\ UNCHANGED <<head, planned>>
    BY <1>6 DEF BlockReached
  <2>2. /\ held' \in [Batches -> Workers \cup {NoWorker}]
        /\ planner' \in [Workers -> Rec] /\ HeadsWereReached'
        /\ \A v \in Workers : planner'[v].at \in Batches =>
             v # w /\ planner'[v].at = planner[v].at /\ held'[planner[v].at] = v
    BY <1>5, <1>6 DEF BlockReached
  <2>. HIDE DEF b
  <2>3. /\ starts' \in [Batches -> Nat] /\ BatchStartsOnce'
        /\ \A c \in Batches : c # b => starts'[c] = starts[c]
    BY <2>1, StartStep
  <2>4. PolledIsHeld'
    BY <2>1, <2>2, <2>3
  <2>. QED BY <2>1, <2>2, <2>3, <2>4
<1>7. ASSUME NEW w \in Workers, FailToWait(w) PROVE ScheduleInv'
  <2>1. /\ held' \in [Batches -> Workers \cup {NoWorker}]
        /\ planner' \in [Workers -> Rec] /\ HeadsWereReached'
        /\ \A v \in Workers : planner'[v].at \in Batches =>
             v # w /\ planner'[v].at = planner[v].at /\ held'[planner[v].at] = v
    BY <1>5, <1>7 DEF FailToWait
  <2>2. UNCHANGED <<head, planned, starts>>
    BY <1>7 DEF FailToWait
  <2>. QED BY <2>1, <2>2 DEF BatchStartsOnce
<1>8. CASE UNCHANGED scheduleVars
  BY <1>8 DEF scheduleVars, BatchStartsOnce
<1>. QED BY <1>1, <1>2, <1>3, <1>4, <1>6, <1>7, <1>8 DEF ScheduleNext

\* With any number of workers, run_synthetic_jobs hands a batch to Celery once.
THEOREM BatchAlwaysStartsOnce == ScheduleSpec => []BatchStartsOnce
<1>1. ScheduleInv => BatchStartsOnce
  BY DEF ScheduleInv
<1>. QED BY InitSchedule, NextSchedule, <1>1, PTL DEF ScheduleSpec

\* A batch starts when its block has come: the head that the planner read
\* before its transaction is never ahead of the chain.
THEOREM BatchIsNeverEarly == ScheduleSpec => BatchNeverEarly
<1>. DEFINE Early == \A b \in Batches : (starts'[b] > starts[b]) => (head >= planned[b])
<1>1. ScheduleInv /\ [ScheduleNext]_scheduleVars => [Early]_scheduleVars
  <2>. SUFFICES ASSUME ScheduleInv, ScheduleNext, NEW b \in Batches, starts'[b] > starts[b]
                PROVE  head >= planned[b]
    OBVIOUS
  <2>0. starts \in [Batches -> Nat] /\ planned[b] \in Int /\ head \in Nat
    BY DEF ScheduleInv, ScheduleTypes
  <2>1. starts' # starts
    BY <2>0
  <2>2. ASSUME NEW w \in Workers, NEW c \in Batches, starts' = [starts EXCEPT ![c] = @ + 1],
               head >= planned[c]
        PROVE  head >= planned[b]
    BY <2>0, <2>2
  <2>3. ASSUME NEW w \in Workers, Plan(w) PROVE head >= planned[b]
    <3>1. PICK c \in Ongoing(w) : /\ starts' = [starts EXCEPT ![c] = @ + 1]
                                  /\ planned[c] <= planner[w].seen
      BY <2>1, <2>3 DEF Plan
    <3>2. c \in Batches
      BY DEF Ongoing
    <3>3. planned[c] \in Int /\ planner[w].seen \in Nat /\ planner[w].seen <= head
      BY <3>2 DEF ScheduleInv, ScheduleTypes, HeadsWereReached
    <3>4. head >= planned[c]
      BY <2>0, <3>1, <3>3
    <3>. QED BY <2>2, <3>1, <3>2, <3>4
  <2>4. ASSUME NEW w \in Workers, BlockReached(w) PROVE head >= planned[b]
    BY <2>2, <2>4 DEF BlockReached
  <2>. QED BY <2>1, <2>3, <2>4 DEF ScheduleNext, NewHead, CheckMissed, ReadHead, FailToWait
<1>2. BatchNeverEarly <=> [][Early]_scheduleVars
  BY PTL DEF BatchNeverEarly
<1>. HIDE DEF Early
<1>. QED BY InitSchedule, NextSchedule, <1>1, <1>2, PTL DEF ScheduleSpec

-----------------------------------------------------------------------------
(* SyntheticBatch: what a Job object can hold *)

Places == {"config", "start", "serialize", "raised", "send", "accept", "spinup", "done",
           "sendstream", "waitstream", "barrier", "run", "response"}
Replies == {"none", "accepted", "busy", "declined", "ready", "failed", "notready", "finished"}
JobObjects ==
  [task : Places, asked : BOOLEAN, sent : BOOLEAN, early : BOOLEAN, hash : BOOLEAN,
   got : [Kinds -> Replies], downloaded : BOOLEAN, status : {"failed", "excused", "success"},
   excuses : Nat, receipts : SUBSET {"started", "accepted", "finished"}]

\* The miner accepted the job and its executor was ready.
IsReady(r) == r.got["accept"] = "accepted" /\ r.got["executor"] = "ready"

\* A miner is asked after the job has its started receipt, and it answers after
\* it was asked; only a ready job takes part in the later stages; a job counts
\* as a success only with an answer that came after its details.
JobIsSound(r) ==
  /\ r \in JobObjects
  /\ r.asked \/ r.task \in {"serialize", "send", "accept", "spinup"} => "started" \in r.receipts
  /\ r.got["accept"] # "none" => r.asked
  /\ r.sent \/ r.task \in {"sendstream", "waitstream", "barrier", "run", "response"} => IsReady(r)
  /\ r.status = "success" => r.got["response"] = "finished" /\ r.sent /\ ~r.early

\* A step that leaves the answers, the status and what was sent alone.
SameAnswers(r, n) ==
  n.got = r.got /\ n.sent = r.sent /\ n.early = r.early /\ n.status = r.status
  /\ n.excuses = r.excuses

-----------------------------------------------------------------------------
(* SyntheticBatch: the stages *)

BatchTypes ==
  /\ jobs \subseteq AllJobs /\ parties \subseteq jobs /\ counted \in [Miners -> Nat]
  /\ bstage \in {"manifest", "generate", "initial", "streaming", "trigger", "score", "receipts",
                 "close", "critical", "persist", "end", "killed"}

JobsAreSound == job = [j \in AllJobs |-> job[j]] /\ \A j \in AllJobs : JobIsSound(job[j])

\* The stages before the jobs are sent, and before they are scored.
StagesInOrder ==
  /\ bstage \in {"manifest", "generate"} => jobs = {}
  /\ bstage \in {"manifest", "generate", "initial"} =>
       parties = {} /\ \A j \in AllJobs : ~job[j].sent
  /\ bstage = "trigger" => parties # {}
  /\ bstage \in {"score", "receipts"} /\ parties = {} => \A j \in AllJobs : ~job[j].sent
  /\ bstage \in {"manifest", "generate", "initial", "streaming", "trigger"} =>
       \A j \in AllJobs : job[j].status = "failed"
  /\ bstage = "killed" => jobs = {}

\* A success has its finished receipt once the receipts were sent.
SuccessesHaveReceipts ==
  bstage \in {"close", "critical", "persist", "end"} =>
    \A j \in AllJobs : job[j].status = "success" => "finished" \in job[j].receipts

\* The rows are the statuses, the stored receipts those of the Job objects.
DatabaseIsRight ==
  /\ bstage \notin {"persist", "end", "killed"} => \A j \in AllJobs : rows[j] = "none"
  /\ bstage \in {"persist", "end"} => \A j \in jobs : rows[j] = job[j].status
  /\ bstage = "end" =>
       \A j \in jobs, r \in {"started", "accepted", "finished"} :
         r \in job[j].receipts => <<j, r>> \in stored

\* Only ready jobs are counted by the barrier of _trigger_job_execution.
PartiesAreReady == \A j \in parties : IsReady(job[j])

BatchInv ==
  /\ BatchTypes /\ JobsAreSound /\ StagesInOrder /\ SuccessesHaveReceipts /\ DatabaseIsRight
  /\ PartiesAreReady /\ ExcusesCoverExecutors

\* A Job object of which only the place, the request's flags and the receipts
\* change stays sound.
LEMMA SameAnswersSound ==
    ASSUME NEW r, NEW n, JobIsSound(r), n \in JobObjects, SameAnswers(r, n),
           n.asked \/ n.task \in {"serialize", "send", "accept", "spinup"} =>
             "started" \in n.receipts,
           r.asked => n.asked,
           n.task \in {"sendstream", "waitstream", "barrier", "run", "response"} => IsReady(r)
    PROVE  JobIsSound(n)
BY DEF JobIsSound, SameAnswers, IsReady

\* No jobs yet.
LEMMA InitBatch == BatchInit => BatchInv
<1>. SUFFICES ASSUME BatchInit PROVE BatchInv
  OBVIOUS
<1>1. JobIsSound(NewJob) /\ NewJob.status = "failed" /\ ~NewJob.sent
  <2>1. NewJob \in JobObjects
    BY DEF NewJob, JobObjects, Places, Replies
  <2>2. \A k \in Kinds : NewJob.got[k] = "none"
    BY DEF NewJob
  <2>. QED BY <2>1, <2>2 DEF NewJob, JobIsSound, Kinds, IsReady
<1>2. job = [j \in AllJobs |-> NewJob] /\ jobs = {} /\ parties = {} /\ bstage = "manifest"
      /\ rows = [j \in AllJobs |-> "none"] /\ counted = [m \in Miners |-> 0]
  BY DEF BatchInit
<1>3. \A j \in AllJobs : job[j] = NewJob
  BY <1>2
<1>4. JobsAreSound
  <2>. HIDE DEF NewJob
  <2>. QED BY <1>1, <1>2 DEF JobsAreSound
<1>. HIDE DEF NewJob, AllJobs
<1>. QED BY <1>1, <1>2, <1>3, <1>4 DEF BatchInv, BatchTypes, StagesInOrder, SuccessesHaveReceipts,
         DatabaseIsRight, PartiesAreReady, ExcusesCoverExecutors

-----------------------------------------------------------------------------
(* SyntheticBatch: the steps before scoring *)

EarlyStages == {"initial", "streaming", "trigger"}

\* Before scoring nothing but the soundness of the Job objects is at stake.
LEMMA EarlyStep ==
    ASSUME BatchInv, bstage \in EarlyStages, UNCHANGED <<bstage, counted, jobs, parties, rows>>,
           job' = [j \in AllJobs |-> job'[j]],
           \A j \in AllJobs : JobIsSound(job'[j]) /\ job'[j].status = job[j].status,
           \A j \in AllJobs : IsReady(job[j]) => IsReady(job'[j]),
           bstage = "initial" => \A j \in AllJobs : job'[j].sent = job[j].sent
    PROVE  BatchInv'
<1>1. BatchTypes'
  BY DEF BatchInv, BatchTypes
<1>2. JobsAreSound'
  BY DEF JobsAreSound
<1>3. \A j \in AllJobs : job'[j].status = "failed"
  BY DEF BatchInv, StagesInOrder, EarlyStages
<1>4. StagesInOrder'
  BY <1>3 DEF BatchInv, StagesInOrder, EarlyStages
<1>5. SuccessesHaveReceipts' /\ DatabaseIsRight'
  BY DEF SuccessesHaveReceipts, DatabaseIsRight, EarlyStages, BatchInv
<1>6. ExcusesCoverExecutors'
  BY <1>1, <1>3 DEF ExcusesCoverExecutors, BatchTypes
<1>7. PartiesAreReady'
  BY DEF BatchInv, BatchTypes, PartiesAreReady
<1>. QED BY <1>1, <1>2, <1>4, <1>5, <1>6, <1>7 DEF BatchInv

\* One Job object changes.
LEMMA OneJobStep ==
    ASSUME BatchInv, bstage \in EarlyStages, UNCHANGED <<bstage, counted, jobs, parties, rows>>,
           NEW j \in AllJobs, NEW n, job' = [job EXCEPT ![j] = n],
           JobIsSound(n), n.status = job[j].status,
           IsReady(job[j]) => IsReady(n), bstage = "initial" => n.sent = job[j].sent
    PROVE  BatchInv'
<1>1. job = [i \in AllJobs |-> job[i]] /\ \A i \in AllJobs : JobIsSound(job[i])
  BY DEF BatchInv, JobsAreSound
<1>2. \A i \in AllJobs : job'[i] = IF i = j THEN n ELSE job[i]
  BY <1>1
<1>3. job' = [i \in AllJobs |-> job'[i]]
  BY <1>1
<1>4. \A i \in AllJobs : JobIsSound(job'[i]) /\ job'[i].status = job[i].status
  BY <1>1, <1>2
<1>5. bstage = "initial" => \A i \in AllJobs : job'[i].sent = job[i].sent
  BY <1>2
<1>6. \A i \in AllJobs : IsReady(job[i]) => IsReady(job'[i])
  BY <1>2
<1>. HIDE DEF AllJobs, EarlyStages
<1>. QED BY <1>3, <1>4, <1>5, <1>6, EarlyStep

\* The fields of a Job object that goes to another place.
LEMMA AnotherPlace ==
    ASSUME NEW r \in JobObjects, NEW t \in Places
    PROVE  LET n == [r EXCEPT !.task = t] IN
           /\ n \in JobObjects /\ n.task = t /\ n.asked = r.asked /\ n.receipts = r.receipts
           /\ SameAnswers(r, n)
BY DEF JobObjects, SameAnswers

\* One task goes on.
LEMMA TaskStep ==
    ASSUME BatchInv, bstage \in EarlyStages, UNCHANGED <<bstage, counted, jobs, parties, rows>>,
           NEW j \in AllJobs, NEW t \in Places, job' = [job EXCEPT ![j].task = t],
           t \in {"serialize", "send", "accept", "spinup"} => "started" \in job[j].receipts,
           t \in {"sendstream", "waitstream", "barrier", "run", "response"} => IsReady(job[j])
    PROVE  BatchInv'
<1>. DEFINE n == [job[j] EXCEPT !.task = t]
<1>1. job' = [job EXCEPT ![j] = n]
  OBVIOUS
<1>2. JobIsSound(job[j]) /\ job[j] \in JobObjects
  BY DEF BatchInv, JobsAreSound, JobIsSound
<1>3. /\ n \in JobObjects /\ n.task = t /\ n.asked = job[j].asked /\ n.receipts = job[j].receipts
      /\ SameAnswers(job[j], n)
  BY <1>2, AnotherPlace
<1>. HIDE DEF n
<1>4. n.asked \/ n.task \in {"serialize", "send", "accept", "spinup"} => "started" \in n.receipts
  BY <1>2, <1>3 DEF JobIsSound
<1>5. JobIsSound(n)
  BY <1>2, <1>3, <1>4, SameAnswersSound
<1>6. n.status = job[j].status /\ n.sent = job[j].sent /\ (IsReady(job[j]) => IsReady(n))
  BY <1>3 DEF SameAnswers, IsReady
<1>. QED BY <1>1, <1>5, <1>6, OneJobStep

\* The steps of one job's tasks, before scoring, keep the invariant.
LEMMA TasksStep ==
    ASSUME BatchInv, NEW j \in jobs,
           \/ ReadStreamingConfig(j) \/ SendInitialRequest(j) \/ HandleAcceptance(j)
           \/ ExecutorResponds(j) \/ InitialTimeout(j) \/ SendStreamingRequest(j)
           \/ StreamingAnswered(j) \/ SendJobRequest(j) \/ TriggerStreaming(j)
           \/ ResponseOrTimeout(j)
    PROVE  BatchInv'
<1>0. j \in AllJobs /\ JobIsSound(job[j]) /\ job[j] \in JobObjects
  BY DEF BatchInv, BatchTypes, JobsAreSound, JobIsSound
<1>1. bstage \in EarlyStages /\ UNCHANGED <<bstage, counted, jobs, parties, rows>>
  BY DEF ReadStreamingConfig, SendInitialRequest, HandleAcceptance, ExecutorResponds,
     InitialTimeout, SendStreamingRequest, StreamingAnswered, SendJobRequest, TriggerStreaming,
     ResponseOrTimeout, BatchRest, EarlyStages
<1>. DEFINE r == job[j]
<1>2. ASSUME NEW t \in {"start", "raised", "done"}, job' = [job EXCEPT ![j].task = t]
      PROVE  BatchInv'
  <2>1. /\ t \in Places /\ t \notin {"serialize", "send", "accept", "spinup"}
        /\ t \notin {"sendstream", "waitstream", "barrier", "run", "response"}
    BY <1>2 DEF Places
  <2>. QED BY <1>0, <1>1, <1>2, <2>1, TaskStep
<1>3. CASE ReadStreamingConfig(j)
  BY <1>2, <1>3 DEF ReadStreamingConfig, JobStep
<1>4. CASE SendInitialRequest(j)
  <2>. DEFINE n == [r EXCEPT !.task = "accept", !.asked = TRUE]
  <2>1. job' = [job EXCEPT ![j] = n] /\ r.task = "send"
    BY <1>4 DEF SendInitialRequest
  <2>2. n \in JobObjects
    BY <1>0 DEF JobObjects, Places
  <2>3. n.task = "accept" /\ n.asked /\ n.receipts = r.receipts /\ SameAnswers(r, n)
    BY <1>0 DEF JobObjects, SameAnswers
  <2>4. "started" \in r.receipts
    BY <1>0, <2>1 DEF JobIsSound
  <2>. HIDE DEF n
  <2>5. JobIsSound(n)
    BY <1>0, <2>2, <2>3, <2>4, SameAnswersSound
  <2>. QED BY <1>0, <1>1, <2>1, <2>3, <2>5, OneJobStep DEF SameAnswers, IsReady
<1>5. CASE HandleAcceptance(j)
  <2>0. r.task = "accept"
    BY <1>5 DEF HandleAcceptance
  <2>1. CASE r.got["accept"] = "accepted"
    <3>. DEFINE n == [r EXCEPT !.task = "spinup", !.receipts = r.receipts \cup {"accepted"}]
    <3>1. job' = [job EXCEPT ![j] = n]
      BY <1>5, <2>1 DEF HandleAcceptance, AcceptedReceipt
    <3>2. n \in JobObjects
      BY <1>0 DEF JobObjects, Places
    <3>3. n.task = "spinup" /\ n.asked = r.asked /\ n.receipts = r.receipts \cup {"accepted"}
          /\ SameAnswers(r, n)
      BY <1>0 DEF JobObjects, SameAnswers
    <3>4. "started" \in r.receipts
      BY <1>0, <2>0 DEF JobIsSound
    <3>. HIDE DEF n
    <3>5. JobIsSound(n)
      BY <1>0, <3>2, <3>3, <3>4, SameAnswersSound
    <3>. QED BY <1>0, <1>1, <3>1, <3>3, <3>5, OneJobStep DEF SameAnswers, IsReady
  <2>2. CASE r.got["accept"] # "accepted"
    <3>1. job' = [job EXCEPT ![j] = [r EXCEPT !.task = "done"]]
      BY <1>5, <2>2 DEF HandleAcceptance
    <3>. QED BY <1>2, <3>1
  <2>. QED BY <2>1, <2>2
<1>6. CASE ExecutorResponds(j) \/ InitialTimeout(j) \/ StreamingAnswered(j) \/ ResponseOrTimeout(j)
  <2>1. job' = [job EXCEPT ![j].task = "done"]
    BY <1>6 DEF ExecutorResponds, InitialTimeout, StreamingAnswered, ResponseOrTimeout, JobStep
  <2>. QED BY <1>2, <2>1
<1>7. ASSUME NEW t \in {"waitstream", "response"}, NEW n, job' = [job EXCEPT ![j] = n],
             n \in JobObjects, n.task = t, n.asked = r.asked, n.receipts = r.receipts,
             n.got = r.got, n.status = r.status, n.early = r.early, r.sent => n.sent,
             r.task \in {"sendstream", "run"}, bstage # "initial"
      PROVE  BatchInv'
  <2>1. IsReady(r)
    BY <1>0, <1>7 DEF JobIsSound
  <2>2. JobIsSound(n)
    BY <1>0, <1>7, <2>1 DEF JobIsSound, IsReady
  <2>3. IsReady(n)
    BY <1>7, <2>1 DEF IsReady
  <2>. QED BY <1>0, <1>1, <1>7, <2>2, <2>3, OneJobStep
<1>8. CASE SendStreamingRequest(j)
  <2>. DEFINE n == [r EXCEPT !.task = "waitstream", !.sent = TRUE]
  <2>1. job' = [job EXCEPT ![j] = n] /\ r.task = "sendstream" /\ bstage # "initial"
    BY <1>8 DEF SendStreamingRequest
  <2>2. n \in JobObjects
    BY <1>0 DEF JobObjects, Places
  <2>3. n.task = "waitstream" /\ n.asked = r.asked /\ n.receipts = r.receipts /\ n.sent
        /\ n.got = r.got /\ n.status = r.status /\ n.early = r.early
    BY <1>0 DEF JobObjects
  <2>. HIDE DEF n
  <2>. QED BY <1>7, <2>1, <2>2, <2>3
<1>9. CASE SendJobRequest(j)
  <2>. DEFINE n == [r EXCEPT !.task = "response", !.sent = TRUE]
  <2>1. job' = [job EXCEPT ![j] = n] /\ r.task = "run" /\ bstage # "initial"
    BY <1>9 DEF SendJobRequest
  <2>2. n \in JobObjects
    BY <1>0 DEF JobObjects, Places
  <2>3. n.task = "response" /\ n.asked = r.asked /\ n.receipts = r.receipts /\ n.sent
        /\ n.got = r.got /\ n.status = r.status /\ n.early = r.early
    BY <1>0 DEF JobObjects
  <2>. HIDE DEF n
  <2>. QED BY <1>7, <2>1, <2>2, <2>3
<1>10. CASE TriggerStreaming(j)
  <2>0. PICK h \in BOOLEAN : job' = [job EXCEPT ![j] = [r EXCEPT !.task = "response", !.hash = h]]
    BY <1>10 DEF TriggerStreaming
  <2>. DEFINE n == [r EXCEPT !.task = "response", !.hash = h]
  <2>1. job' = [job EXCEPT ![j] = n] /\ r.task = "run" /\ bstage # "initial"
    BY <1>10, <2>0 DEF TriggerStreaming
  <2>2. n \in JobObjects
    BY <1>0 DEF JobObjects, Places
  <2>3. n.task = "response" /\ n.asked = r.asked /\ n.receipts = r.receipts /\ n.sent = r.sent
        /\ n.got = r.got /\ n.status = r.status /\ n.early = r.early
    BY <1>0 DEF JobObjects
  <2>. HIDE DEF n
  <2>. QED BY <1>7, <2>1, <2>2, <2>3
<1>. QED BY <1>3, <1>4, <1>5, <1>6, <1>8, <1>9, <1>10

\* Tasks that pass a barrier at once keep the invariant.
LEMMA BarrierStep ==
    ASSUME BatchInv, PassStartBarrier \/ PassSerializeBarrier \/ PassTriggerBarrier
    PROVE  BatchInv'
<1>0. \A j \in AllJobs : JobIsSound(job[j]) /\ job[j] \in JobObjects
  BY DEF BatchInv, JobsAreSound, JobIsSound
<1>1. /\ bstage \in EarlyStages /\ UNCHANGED <<bstage, counted, jobs, parties, rows>>
      /\ job' = [j \in AllJobs |-> job'[j]]
  BY DEF PassStartBarrier, PassSerializeBarrier, PassTriggerBarrier, BatchRest, EarlyStages
<1>2. ASSUME NEW j \in AllJobs, NEW t \in Places, job'[j] = [job[j] EXCEPT !.task = t],
             t \in {"serialize", "send", "accept", "spinup"} => "started" \in job[j].receipts,
             t \in {"sendstream", "waitstream", "barrier", "run", "response"} => IsReady(job[j])
      PROVE  JobIsSound(job'[j]) /\ SameAnswers(job[j], job'[j])
  <2>. DEFINE n == [job[j] EXCEPT !.task = t]
  <2>1. /\ n \in JobObjects /\ n.task = t /\ n.asked = job[j].asked
        /\ n.receipts = job[j].receipts /\ SameAnswers(job[j], n)
    BY <1>0, AnotherPlace
  <2>2. job'[j] = n
    BY <1>2
  <2>. HIDE DEF n
  <2>3. n.asked \/ n.task \in {"serialize", "send", "accept", "spinup"} => "started" \in n.receipts
    BY <1>0, <1>2, <2>1 DEF JobIsSound
  <2>4. JobIsSound(n)
    BY <1>0, <1>2, <2>1, <2>3, SameAnswersSound
  <2>. QED BY <2>1, <2>2, <2>4
<1>3. ASSUME NEW j \in AllJobs, job'[j] = job[j]
      PROVE  JobIsSound(job'[j]) /\ SameAnswers(job[j], job'[j])
  BY <1>0, <1>3 DEF SameAnswers
<1>4. ASSUME NEW j \in AllJobs PROVE JobIsSound(job'[j]) /\ SameAnswers(job[j], job'[j])
  <2>1. CASE PassStartBarrier
    <3>1. \/ job'[j] = job[j] \/ job'[j] = [job[j] EXCEPT !.task = "raised"]
          \/ job'[j] = StartedReceipt(j)
      BY <2>1 DEF PassStartBarrier
    <3>2. CASE job'[j] = [job[j] EXCEPT !.task = "raised"]
      BY <1>2, <3>2 DEF Places
    <3>3. CASE job'[j] = StartedReceipt(j)
      <4>. DEFINE n == [job[j] EXCEPT !.task = "serialize", !.receipts = {"started"}]
      <4>1. n \in JobObjects
        BY <1>0, ZenonT(60) DEF JobObjects, Places
      <4>2. n.task = "serialize" /\ n.asked = job[j].asked /\ n.receipts = {"started"}
            /\ SameAnswers(job[j], n)
        BY <1>0 DEF JobObjects, SameAnswers
      <4>3. job'[j] = n
        BY <3>3 DEF StartedReceipt
      <4>. HIDE DEF n
      <4>4. JobIsSound(n)
        BY <1>0, <4>1, <4>2, SameAnswersSound
      <4>. QED BY <4>2, <4>3, <4>4
    <3>. QED BY <1>3, <3>1, <3>2, <3>3
  <2>2. CASE PassSerializeBarrier
    <3>1. CASE j \notin jobs
      BY <1>3, <2>2, <3>1 DEF PassSerializeBarrier
    <3>2. CASE j \in jobs
      <4>1. job[j].task \in {"serialize", "raised"}
        BY <2>2, <3>2 DEF PassSerializeBarrier
      <4>. DEFINE t == IF job[j].task = "raised" THEN "done" ELSE "send"
      <4>2. job'[j] = [job[j] EXCEPT !.task = t]
        BY <2>2, <3>2 DEF PassSerializeBarrier
      <4>3. t \in Places /\ t \in {"done", "send"} /\ (t = "send" => "started" \in job[j].receipts)
        BY <1>0, <4>1 DEF Places, JobIsSound
      <4>. HIDE DEF t
      <4>. QED BY <1>2, <4>2, <4>3
    <3>. QED BY <3>1, <3>2
  <2>3. CASE PassTriggerBarrier
    <3>1. CASE j \notin parties
      BY <1>3, <2>3, <3>1 DEF PassTriggerBarrier
    <3>2. CASE j \in parties
      <4>1. job'[j] = [job[j] EXCEPT !.task = "run"] /\ job[j].task = "barrier"
        BY <2>3, <3>2 DEF PassTriggerBarrier
      <4>2. IsReady(job[j]) /\ "run" \in Places
        BY <1>0, <4>1 DEF JobIsSound, Places
      <4>. QED BY <1>2, <4>1, <4>2
    <3>. QED BY <3>1, <3>2
  <2>. QED BY <2>1, <2>2, <2>3
<1>5. \A j \in AllJobs : IsReady(job[j]) => IsReady(job'[j])
  BY <1>4 DEF SameAnswers, IsReady
<1>. QED BY <1>1, <1>4, <1>5, EarlyStep DEF SameAnswers

\* The two limits on the executors of a miner are counts.
LEMMA LimitsAreCounts ==
    ASSUME NEW n \in Nat, NEW peak \in Int
    PROVE  CappedCount(n) \in Nat /\ NonPeakCount(CappedCount(n), peak) \in Nat
<1>1. ASSUME NEW a \in Nat, NEW b \in Nat PROVE Min({a, b}) \in Nat
  BY NatMin
<1>2. CappedCount(n) \in Nat
  BY <1>1, BatchAssumption DEF CappedCount
<1>3. Max({peak, 1}) \in Int /\ Max({peak, 1}) >= 1
  BY PairMax
<1>4. Max({peak, 1}) \in Nat
  BY <1>3
<1>5. NonPeakCount(CappedCount(n), peak) \in Nat
  BY <1>1, <1>2, <1>4 DEF NonPeakCount
<1>. QED BY <1>2, <1>5

\* The manifest stage, and a lost connection, touch no job.
LEMMA ManifestStep ==
    ASSUME BatchInv,
           \/ \E m \in Miners : ConnectMiner(m) \/ TakeManifest(m) \/ ManifestTimeout(m)
           \/ LimitExecutors \/ GenerateJobs
           \/ \E m \in Miners : LoseConnection(m)
    PROVE  BatchInv'
<1>1. CASE \E m \in Miners : LoseConnection(m)
  <2>1. UNCHANGED <<bstage, counted, jobs, job, parties, rows, stored>>
    BY <1>1 DEF LoseConnection
  <2>. QED BY <2>1 DEF BatchInv, BatchTypes, JobsAreSound, StagesInOrder, SuccessesHaveReceipts,
           DatabaseIsRight, PartiesAreReady, ExcusesCoverExecutors, Accepted
<1>2. CASE ~\E m \in Miners : LoseConnection(m)
  <2>1. /\ bstage \in {"manifest", "generate"} /\ UNCHANGED <<job, parties, rows, stored>>
        /\ bstage' \in {"manifest", "generate", "initial", "close"}
    BY <1>2 DEF ConnectMiner, TakeManifest, ManifestTimeout, LimitExecutors, GenerateJobs
  <2>2. jobs' \subseteq AllJobs /\ (bstage' \in {"manifest", "generate"} => jobs' = {})
    <3>1. CASE GenerateJobs
      <4>1. jobs' \subseteq AllJobs
        BY <3>1 DEF GenerateJobs
      <4>2. bstage' \in {"initial", "close"}
        BY <3>1 DEF GenerateJobs
      <4>. QED BY <4>1, <4>2
    <3>2. CASE ~GenerateJobs
      <4>1. UNCHANGED jobs
        BY <1>2, <3>2 DEF ConnectMiner, TakeManifest, ManifestTimeout, LimitExecutors
      <4>. QED BY <2>1, <4>1 DEF BatchInv, BatchTypes, StagesInOrder
    <3>. QED BY <3>1, <3>2
  <2>3. parties = {} /\ \A j \in AllJobs : ~job[j].sent /\ job[j].status = "failed"
    BY <2>1 DEF BatchInv, StagesInOrder
  <2>a. counted' \in [Miners -> Nat]
    <3>0. counted \in [Miners -> Nat]
      BY DEF BatchInv, BatchTypes
    <3>1. CASE LimitExecutors
      <4>1. PICK isPeak \in BOOLEAN, peak \in [Miners -> PeakCounts] :
              counted' = [m \in Miners |->
                IF isPeak \/ counted[m] = 0 THEN CappedCount(counted[m])
                ELSE NonPeakCount(CappedCount(counted[m]), peak[m])]
        BY <3>1 DEF LimitExecutors
      <4>2. ASSUME NEW m \in Miners
            PROVE  CappedCount(counted[m]) \in Nat
                   /\ NonPeakCount(CappedCount(counted[m]), peak[m]) \in Nat
        <5>1. counted[m] \in Nat /\ peak[m] \in Int
          BY <3>0, BatchAssumption
        <5>. QED BY <5>1, LimitsAreCounts
      <4>. QED BY <4>1, <4>2
    <3>2. CASE \E m \in Miners : TakeManifest(m)
      BY <3>0, <3>2, BatchAssumption DEF TakeManifest
    <3>3. CASE UNCHANGED counted
      BY <3>0, <3>3
    <3>. QED BY <1>2, <3>1, <3>2, <3>3 DEF ConnectMiner, ManifestTimeout, GenerateJobs
  <2>4. BatchTypes'
    BY <2>1, <2>2, <2>3, <2>a DEF BatchTypes
  <2>5. JobsAreSound'
    BY <2>1 DEF BatchInv, JobsAreSound
  <2>. HIDE DEF AllJobs
  <2>6. StagesInOrder'
    BY <2>1, <2>2, <2>3 DEF StagesInOrder
  <2>7. SuccessesHaveReceipts' /\ DatabaseIsRight'
    BY <2>1, <2>3 DEF BatchInv, SuccessesHaveReceipts, DatabaseIsRight
  <2>8. ExcusesCoverExecutors'
    BY <2>1, <2>2, <2>3 DEF ExcusesCoverExecutors
  <2>9. PartiesAreReady'
    BY <2>1, <2>3 DEF PartiesAreReady
  <2>. QED BY <2>4, <2>5, <2>6, <2>7, <2>8, <2>9 DEF BatchInv
<1>. QED BY <1>1, <1>2

\* The main coroutine between the stages of the requests keeps the invariant.
LEMMA StageStep ==
    ASSUME BatchInv, EndInitial \/ StartTrigger \/ EndTrigger
    PROVE  BatchInv'
<1>0. /\ job = [j \in AllJobs |-> job[j]] /\ jobs \subseteq AllJobs
      /\ \A j \in AllJobs : JobIsSound(job[j]) /\ job[j] \in JobObjects /\ job[j].status = "failed"
  BY DEF BatchInv, JobsAreSound, JobIsSound, StagesInOrder, BatchTypes,
     EndInitial, StartTrigger, EndTrigger
<1>1. UNCHANGED <<counted, jobs, rows, stored>> /\ job' = [j \in AllJobs |-> job'[j]]
  BY DEF EndInitial, StartTrigger, EndTrigger, BatchRest
<1>2. ASSUME NEW j \in AllJobs
      PROVE  JobIsSound(job'[j]) /\ SameAnswers(job[j], job'[j])
  <2>1. ASSUME NEW t \in {"sendstream", "barrier"}, job'[j] = [job[j] EXCEPT !.task = t],
               IsReady(job[j])
        PROVE  JobIsSound(job'[j]) /\ SameAnswers(job[j], job'[j])
    <3>. DEFINE n == [job[j] EXCEPT !.task = t]
    <3>0. t \in Places /\ t \notin {"serialize", "send", "accept", "spinup"}
      BY DEF Places
    <3>1. /\ n \in JobObjects /\ n.task = t /\ n.asked = job[j].asked
          /\ n.receipts = job[j].receipts /\ SameAnswers(job[j], n)
      BY <1>0, <3>0, AnotherPlace
    <3>2. job'[j] = n
      BY <2>1
    <3>. HIDE DEF n
    <3>3. n.asked \/ n.task \in {"serialize", "send", "accept", "spinup"} =>
            "started" \in n.receipts
      BY <1>0, <3>0, <3>1 DEF JobIsSound
    <3>4. JobIsSound(n)
      BY <1>0, <2>1, <3>1, <3>3, SameAnswersSound
    <3>. QED BY <3>1, <3>2, <3>4
  <2>2. CASE job'[j] = job[j]
    BY <1>0, <2>2 DEF SameAnswers
  <2>3. CASE EndInitial
    <3>1. job'[j] = job[j] \/ (j \in ReadyJobs /\ job'[j] = [job[j] EXCEPT !.task = "sendstream"])
      BY <2>3 DEF EndInitial
    <3>2. j \in ReadyJobs => IsReady(job[j])
      BY DEF ReadyJobs, IsReady
    <3>. QED BY <2>1, <2>2, <3>1, <3>2
  <2>4. CASE StartTrigger
    <3>1. job'[j] = job[j] \/ (j \in Triggered /\ job'[j] = [job[j] EXCEPT !.task = "barrier"])
      BY <2>4 DEF StartTrigger
    <3>2. j \in Triggered => IsReady(job[j])
      BY DEF Triggered, BatchInv, PartiesAreReady
    <3>. QED BY <2>1, <2>2, <3>1, <3>2
  <2>5. CASE EndTrigger
    <3>0. PICK ok : job' = [i \in AllJobs |-> [job[i] EXCEPT !.downloaded = i \in ok]]
      BY <2>5 DEF EndTrigger
    <3>. DEFINE d == j \in ok
    <3>1. d \in BOOLEAN /\ job'[j] = [job[j] EXCEPT !.downloaded = d]
      BY <3>0
    <3>. HIDE DEF d
    <3>. DEFINE n == [job[j] EXCEPT !.downloaded = d]
    <3>2. n \in JobObjects
      BY <1>0, <3>1 DEF JobObjects
    <3>3. n.task = job[j].task /\ n.asked = job[j].asked /\ n.receipts = job[j].receipts
          /\ SameAnswers(job[j], n)
      BY <1>0 DEF JobObjects, SameAnswers
    <3>. HIDE DEF n
    <3>4. JobIsSound(n)
      BY <1>0, <3>2, <3>3 DEF JobIsSound, SameAnswers, IsReady
    <3>. QED BY <3>1, <3>3, <3>4 DEF n
  <2>. QED BY <2>3, <2>4, <2>5
<1>3. \A j \in AllJobs : /\ IsReady(job[j]) => IsReady(job'[j])
                         /\ job'[j].status = "failed" /\ job'[j].sent = job[j].sent
  BY <1>0, <1>2 DEF SameAnswers, IsReady
<1>4. /\ bstage' \in {"streaming", "score", "close", "trigger"} /\ parties' \subseteq jobs'
      /\ (bstage' = "trigger" => parties' # {})
      /\ (bstage' = "score" /\ parties' = {} => \A j \in AllJobs : ~job[j].sent)
      /\ \A j \in parties' : IsReady(job[j])
  <2>1. CASE EndInitial
    <3>1. /\ bstage' = (IF ReadyJobs # {} THEN "streaming" ELSE IF AnyBusy THEN "score" ELSE "close")
          /\ parties' = ReadyJobs /\ bstage = "initial"
      BY <2>1 DEF EndInitial
    <3>2. ReadyJobs \subseteq jobs /\ \A j \in ReadyJobs : IsReady(job[j])
      BY DEF ReadyJobs, IsReady
    <3>3. \A j \in AllJobs : ~job[j].sent
      BY <3>1 DEF BatchInv, StagesInOrder
    <3>. QED BY <1>1, <3>1, <3>2, <3>3
  <2>2. CASE StartTrigger
    <3>1. bstage' = (IF Triggered = {} THEN "close" ELSE "trigger") /\ parties' = Triggered
      BY <2>2 DEF StartTrigger
    <3>2. Triggered \subseteq parties
      BY DEF Triggered
    <3>. QED BY <1>1, <3>1, <3>2 DEF BatchInv, BatchTypes, PartiesAreReady
  <2>3. CASE EndTrigger
    <3>1. bstage = "trigger" /\ bstage' = "score" /\ UNCHANGED parties
      BY <2>3 DEF EndTrigger, BatchRest
    <3>2. parties # {}
      BY <3>1 DEF BatchInv, StagesInOrder
    <3>. QED BY <1>1, <3>1, <3>2 DEF BatchInv, BatchTypes, PartiesAreReady
  <2>. QED BY <2>1, <2>2, <2>3
<1>5. BatchTypes' /\ JobsAreSound'
  BY <1>0, <1>1, <1>2, <1>4 DEF BatchInv, BatchTypes, JobsAreSound
<1>6. StagesInOrder'
  BY <1>3, <1>4 DEF StagesInOrder
<1>7. SuccessesHaveReceipts'
  BY <1>3 DEF SuccessesHaveReceipts
<1>8. DatabaseIsRight'
  <2>1. bstage \in EarlyStages
    BY DEF EndInitial, StartTrigger, EndTrigger, EarlyStages
  <2>2. \A j \in AllJobs : rows[j] = "none"
    BY <2>1 DEF BatchInv, DatabaseIsRight, EarlyStages
  <2>. QED BY <1>1, <1>4, <2>2 DEF DatabaseIsRight
<1>9. PartiesAreReady'
  BY <1>0, <1>1, <1>3, <1>4 DEF PartiesAreReady
<1>10. ExcusesCoverExecutors'
  BY <1>0, <1>1, <1>3 DEF ExcusesCoverExecutors
<1>. QED BY <1>5, <1>6, <1>7, <1>8, <1>9, <1>10 DEF BatchInv

-----------------------------------------------------------------------------
(* SyntheticBatch: the miners' messages *)

\* The kinds of messages and what they say.
LEMMA AnswersAreReplies == \A k \in Kinds : Answers[k] \subseteq Replies \ {"none"}
BY DEF Kinds, Answers, Replies

\* More accepted jobs do not make fewer.
LEMMA MoreAccepted ==
    ASSUME NEW S, NEW T, S \subseteq T, T \subseteq AllJobs
    PROVE  Cardinality(S) \in Nat /\ Cardinality(T) \in Nat /\ Cardinality(S) <= Cardinality(T)
<1>1. IsFiniteSet(1 .. MaxExecutors)
  BY FS_Interval, BatchAssumption
<1>2. IsFiniteSet(AllJobs)
  BY <1>1, BatchAssumption, FS_Product DEF AllJobs
<1>3. IsFiniteSet(T)
  BY <1>2, FS_Subset
<1>4. IsFiniteSet(S) /\ Cardinality(S) <= Cardinality(T)
  BY <1>3, FS_Subset
<1>. QED BY <1>3, <1>4, FS_CardinalityType

\* Excuses stay good while no acceptance is taken back.
LEMMA ExcusesStay ==
    ASSUME BatchInv, UNCHANGED <<jobs, counted>>,
           \A i \in AllJobs : /\ job'[i].status = job[i].status /\ job'[i].excuses = job[i].excuses
                              /\ (job[i].got["accept"] = "accepted" =>
                                    job'[i].got["accept"] = "accepted")
    PROVE  ExcusesCoverExecutors'
<1>. SUFFICES ASSUME NEW i \in jobs, job[i].status = "excused"
              PROVE  Cardinality(Accepted(MinerOf(i))') + job[i].excuses >= counted[MinerOf(i)]
  BY DEF ExcusesCoverExecutors, BatchInv, BatchTypes
<1>. DEFINE m == MinerOf(i)
<1>0. i \in AllJobs /\ jobs \subseteq AllJobs /\ job[i] \in JobObjects
  BY DEF BatchInv, BatchTypes, JobsAreSound, JobIsSound
<1>1. Accepted(m) \subseteq Accepted(m)' /\ Accepted(m)' \subseteq AllJobs
  BY <1>0 DEF Accepted
<1>2. Cardinality(Accepted(m)) \in Nat /\ Cardinality(Accepted(m)') \in Nat
      /\ Cardinality(Accepted(m)) <= Cardinality(Accepted(m)')
  BY <1>1, MoreAccepted
<1>3. counted[m] \in Nat /\ job[i].excuses \in Nat
  BY <1>0 DEF BatchInv, BatchTypes, AllJobs, MinerOf, JobObjects
<1>4. Cardinality(Accepted(m)) + job[i].excuses >= counted[m]
  BY DEF BatchInv, ExcusesCoverExecutors
<1>. QED BY <1>2, <1>3, <1>4

\* A message of a miner, in whatever stage it comes, keeps the invariant: the
\* first message of a kind is kept, so nothing that a stage went by changes.
LEMMA MessageStep == ASSUME BatchInv, NEW j \in jobs, MinerSays(j) PROVE BatchInv'
<1>. DEFINE r == job[j]
<1>0. /\ j \in AllJobs /\ JobIsSound(r) /\ r \in JobObjects /\ jobs \subseteq AllJobs
      /\ job = [i \in AllJobs |-> job[i]] /\ \A i \in AllJobs : JobIsSound(job[i])
  BY DEF BatchInv, BatchTypes, JobsAreSound, JobIsSound
<1>1. PICK k \in Kinds : \E v \in Answers[k] : Receive(j, k, v)
  BY DEF MinerSays
<1>2. PICK v \in Answers[k] : Receive(j, k, v)
  BY <1>1
<1>3. v \in Replies /\ v # "none"
  BY AnswersAreReplies
<1>. DEFINE g == [r.got EXCEPT ![k] = v]
            e == r.early \/ (k = "response" /\ ~r.sent)
            n == [r EXCEPT !.got = g, !.early = e]
<1>4. /\ r.got[k] = "none" /\ job' = [job EXCEPT ![j] = n] /\ r.asked
      /\ UNCHANGED <<bstage, counted, jobs, parties, rows, stored>>
      /\ bstage \in {"initial", "streaming", "trigger", "score", "receipts"}
  BY <1>2 DEF MinerSays, Receive, Asked
<1>5. g \in [Kinds -> Replies] /\ e \in BOOLEAN /\ g[k] = v
      /\ \A x \in Kinds : x # k => g[x] = r.got[x]
  BY <1>0, <1>3 DEF JobObjects
<1>6. \A x \in Kinds : r.got[x] # "none" => g[x] = r.got[x]
  BY <1>4, <1>5
<1>7. {"accept", "executor", "response"} \subseteq Kinds
  BY DEF Kinds
<1>8. r.got["response"] # "none" => e = r.early
  BY <1>0, <1>4 DEF JobObjects
<1>. HIDE DEF g, e
<1>9. n \in JobObjects
  BY <1>0, <1>5 DEF JobObjects
<1>10. n.got = g /\ n.early = e /\ n.task = r.task /\ n.asked = r.asked /\ n.sent = r.sent
       /\ n.status = r.status /\ n.excuses = r.excuses /\ n.receipts = r.receipts
  BY <1>0 DEF JobObjects
<1>. HIDE DEF n
<1>11. IsReady(r) => IsReady(n)
  BY <1>6, <1>7, <1>10 DEF IsReady
<1>12. r.status = "success" => n.got["response"] = "finished" /\ n.sent /\ ~n.early
  BY <1>0, <1>6, <1>7, <1>8, <1>10 DEF JobIsSound
<1>13. JobIsSound(n)
  BY <1>0, <1>4, <1>9, <1>10, <1>11, <1>12 DEF JobIsSound
<1>14. /\ job' = [i \in AllJobs |-> job'[i]]
       /\ \A i \in AllJobs : job'[i] = IF i = j THEN n ELSE job[i]
  BY <1>0, <1>4
<1>15. \A i \in AllJobs : /\ JobIsSound(job'[i]) /\ (IsReady(job[i]) => IsReady(job'[i]))
                          /\ job'[i].sent = job[i].sent /\ job'[i].status = job[i].status
                          /\ job'[i].excuses = job[i].excuses
                          /\ (job[i].got["accept"] = "accepted" =>
                                job'[i].got["accept"] = "accepted")
  BY <1>0, <1>6, <1>7, <1>10, <1>11, <1>13, <1>14
<1>16. BatchTypes' /\ JobsAreSound'
  BY <1>4, <1>14, <1>15 DEF BatchInv, BatchTypes, JobsAreSound
<1>17. StagesInOrder'
  BY <1>4, <1>15 DEF BatchInv, StagesInOrder
<1>18. SuccessesHaveReceipts' /\ DatabaseIsRight'
  BY <1>4 DEF BatchInv, SuccessesHaveReceipts, DatabaseIsRight
<1>19. PartiesAreReady'
  BY <1>0, <1>4, <1>15 DEF BatchInv, BatchTypes, PartiesAreReady
<1>20. ExcusesCoverExecutors'
  BY <1>0, <1>4, <1>15, ExcusesStay
<1>. QED BY <1>16, <1>17, <1>18, <1>19, <1>20 DEF BatchInv

-----------------------------------------------------------------------------
(* SyntheticBatch: scoring and the database *)

\* What _score_job can return, and what has to be so for it.
LEMMA ScoreFacts ==
    ASSUME NEW j, NEW n, NEW good \in BOOLEAN
    PROVE  /\ ScoreOf(j, n, good) \in {"failed", "excused", "success"}
           /\ ScoreOf(j, n, good) = "success" => job[j].got["response"] = "finished" /\ InOrder(j)
           /\ ScoreOf(j, n, good) = "excused" => ExcuseOk(j, n)
<1>. DEFINE a == job[j].got["accept"]
<1>1. CASE a \in {"busy", "declined"}
  BY <1>1 DEF ScoreOf
<1>2. CASE a \notin {"busy", "declined"}
  BY <1>2 DEF ScoreOf
<1>. QED BY <1>1, <1>2

\* One iteration of _score_jobs keeps the invariant.
LEMMA ScoreStep == ASSUME BatchInv, NEW j \in jobs, ScoreJob(j) PROVE BatchInv'
<1>. DEFINE r == job[j]
<1>0. /\ j \in AllJobs /\ JobIsSound(r) /\ r \in JobObjects /\ jobs \subseteq AllJobs
      /\ job = [i \in AllJobs |-> job[i]] /\ \A i \in AllJobs : JobIsSound(job[i])
  BY DEF BatchInv, BatchTypes, JobsAreSound, JobIsSound
<1>1. /\ bstage = "score" /\ UNCHANGED <<bstage, counted, jobs, parties, rows, stored>>
  BY DEF ScoreJob
<1>2. PICK m \in Nat, good \in BOOLEAN :
        job' = [job EXCEPT ![j] = [r EXCEPT !.status = ScoreOf(j, m, good), !.excuses = m]]
  <2>. DEFINE R == IF r.got["accept"] = "busy" THEN 0 .. MaxExcuses ELSE {0}
  <2>1. R \subseteq Nat
    BY BatchAssumption
  <2>2. \E m \in R, good \in BOOLEAN :
          job' = [job EXCEPT ![j] = [r EXCEPT !.status = ScoreOf(j, m, good), !.excuses = m]]
    BY DEF ScoreJob
  <2>. HIDE DEF R
  <2>. QED BY <2>1, <2>2
<1>. DEFINE c == ScoreOf(j, m, good)
            n == [r EXCEPT !.status = c, !.excuses = m]
<1>3. /\ c \in {"failed", "excused", "success"}
      /\ c = "success" => r.got["response"] = "finished" /\ r.sent /\ ~r.early
      /\ c = "excused" => Cardinality(Accepted(MinerOf(j))) + m >= counted[MinerOf(j)]
  BY ScoreFacts DEF InOrder, ExcuseOk
<1>. HIDE DEF c
<1>4. n \in JobObjects
  BY <1>0, <1>3 DEF JobObjects
<1>5. n.status = c /\ n.excuses = m /\ n.got = r.got /\ n.sent = r.sent /\ n.early = r.early
      /\ n.task = r.task /\ n.asked = r.asked /\ n.receipts = r.receipts
  BY <1>0 DEF JobObjects
<1>6. job' = [job EXCEPT ![j] = n]
  BY <1>2 DEF c
<1>. HIDE DEF n
<1>7. JobIsSound(n)
  BY <1>0, <1>3, <1>4, <1>5 DEF JobIsSound, IsReady
<1>8. /\ job' = [i \in AllJobs |-> job'[i]]
      /\ \A i \in AllJobs : job'[i] = IF i = j THEN n ELSE job[i]
  BY <1>0, <1>6
<1>9. \A i \in AllJobs : JobIsSound(job'[i]) /\ job'[i].sent = job[i].sent
                         /\ job'[i].got = job[i].got
  BY <1>0, <1>5, <1>7, <1>8
<1>10. BatchTypes' /\ JobsAreSound'
  BY <1>1, <1>8, <1>9 DEF BatchInv, BatchTypes, JobsAreSound
<1>11. StagesInOrder'
  BY <1>1, <1>9 DEF BatchInv, StagesInOrder
<1>12. SuccessesHaveReceipts' /\ DatabaseIsRight'
  BY <1>1 DEF BatchInv, SuccessesHaveReceipts, DatabaseIsRight
<1>13. PartiesAreReady'
  BY <1>0, <1>1, <1>9 DEF BatchInv, BatchTypes, PartiesAreReady, IsReady
<1>14. ExcusesCoverExecutors'
  <2>1. ASSUME NEW x PROVE Accepted(x)' = Accepted(x)
    BY <1>0, <1>1, <1>9 DEF Accepted
  <2>2. ASSUME NEW i \in jobs, job'[i].status = "excused"
        PROVE  Cardinality(Accepted(MinerOf(i))) + job'[i].excuses >= counted[MinerOf(i)]
    <3>1. CASE i = j
      BY <1>0, <1>3, <1>5, <1>8, <2>2, <3>1
    <3>2. CASE i # j
      BY <1>0, <1>8, <2>2, <3>2 DEF BatchInv, ExcusesCoverExecutors
    <3>. QED BY <3>1, <3>2
  <2>. QED BY <1>1, <2>1, <2>2 DEF ExcusesCoverExecutors
<1>. QED BY <1>10, <1>11, <1>12, <1>13, <1>14 DEF BatchInv

\* The stages after scoring, and the time limit, keep the invariant.
LEMMA PersistStep ==
    ASSUME BatchInv,
           \/ EndScoring \/ SendFinishedReceipts \/ CloseClients \/ PersistCritical
           \/ Persist \/ TimeLimit
    PROVE  BatchInv'
<1>0. /\ jobs \subseteq AllJobs /\ parties \subseteq jobs /\ counted \in [Miners -> Nat]
      /\ job = [i \in AllJobs |-> job[i]]
      /\ \A i \in AllJobs : JobIsSound(job[i]) /\ job[i] \in JobObjects
  BY DEF BatchInv, BatchTypes, JobsAreSound, JobIsSound
<1>1. ASSUME UNCHANGED <<counted, jobs, job, parties>>
      PROVE  JobsAreSound' /\ PartiesAreReady' /\ ExcusesCoverExecutors'
  BY <1>1 DEF BatchInv, JobsAreSound, PartiesAreReady, ExcusesCoverExecutors, Accepted
<1>2. CASE EndScoring
  <2>1. /\ bstage = "score" /\ UNCHANGED <<counted, jobs, job, parties, rows, stored>>
        /\ bstage' = IF parties # {} THEN "receipts" ELSE "close"
    BY <1>2 DEF EndScoring, BatchRest
  <2>2. parties = {} => \A j \in AllJobs : job[j].status # "success"
    BY <1>0, <2>1 DEF BatchInv, StagesInOrder, JobIsSound
  <2>3. BatchTypes' /\ StagesInOrder' /\ DatabaseIsRight'
    BY <2>1 DEF BatchInv, BatchTypes, StagesInOrder, DatabaseIsRight
  <2>4. SuccessesHaveReceipts'
    BY <2>1, <2>2 DEF SuccessesHaveReceipts
  <2>. QED BY <1>1, <2>1, <2>3, <2>4 DEF BatchInv
<1>3. CASE SendFinishedReceipts
  <2>1. /\ bstage = "receipts" /\ bstage' = "close" /\ UNCHANGED <<counted, jobs, parties, rows>>
        /\ job' = [j \in AllJobs |-> job'[j]]
    BY <1>3 DEF SendFinishedReceipts, BatchRest
  <2>2. ASSUME NEW j \in AllJobs
        PROVE  /\ JobIsSound(job'[j]) /\ SameAnswers(job[j], job'[j])
               /\ job'[j].status = "success" => "finished" \in job'[j].receipts
    <3>. DEFINE r == job[j]
                n == [r EXCEPT !.receipts = r.receipts \cup {"finished"}]
    <3>1. CASE r.got["response"] # "none" /\ r.sent
      <4>1. job'[j] = n
        BY <1>3, <3>1 DEF SendFinishedReceipts, FinishedReceipt
      <4>2. n \in JobObjects
        BY <1>0 DEF JobObjects
      <4>3. n.task = r.task /\ n.asked = r.asked /\ n.receipts = r.receipts \cup {"finished"}
            /\ SameAnswers(r, n)
        BY <1>0 DEF JobObjects, SameAnswers
      <4>. HIDE DEF n
      <4>4. JobIsSound(n)
        BY <1>0, <4>2, <4>3 DEF JobIsSound, SameAnswers, IsReady
      <4>. QED BY <4>1, <4>3, <4>4
    <3>2. CASE ~(r.got["response"] # "none" /\ r.sent)
      <4>1. job'[j] = r
        BY <1>3, <3>2 DEF SendFinishedReceipts
      <4>2. r.status # "success"
        BY <1>0, <3>2 DEF JobIsSound
      <4>. QED BY <1>0, <4>1, <4>2 DEF SameAnswers
    <3>. QED BY <3>1, <3>2
  <2>3. BatchTypes' /\ JobsAreSound' /\ SuccessesHaveReceipts'
    BY <1>0, <2>1, <2>2 DEF BatchTypes, JobsAreSound, SuccessesHaveReceipts
  <2>4. StagesInOrder' /\ DatabaseIsRight'
    BY <2>1 DEF BatchInv, StagesInOrder, DatabaseIsRight
  <2>5. PartiesAreReady'
    BY <1>0, <2>1, <2>2 DEF BatchInv, PartiesAreReady, SameAnswers, IsReady
  <2>6. ExcusesCoverExecutors'
    BY <2>1, <2>2, ExcusesStay DEF SameAnswers
  <2>. QED BY <2>3, <2>4, <2>5, <2>6 DEF BatchInv
<1>4. CASE CloseClients
  <2>1. /\ bstage = "close" /\ bstage' = "critical"
        /\ UNCHANGED <<counted, jobs, job, parties, rows, stored>>
    BY <1>4 DEF CloseClients
  <2>2. BatchTypes' /\ StagesInOrder' /\ DatabaseIsRight' /\ SuccessesHaveReceipts'
    BY <2>1 DEF BatchInv, BatchTypes, StagesInOrder, DatabaseIsRight, SuccessesHaveReceipts
  <2>. QED BY <1>1, <2>1, <2>2 DEF BatchInv
<1>5. CASE PersistCritical
  <2>1. /\ bstage = "critical" /\ bstage' = "persist"
        /\ UNCHANGED <<counted, jobs, job, parties, stored>>
        /\ rows' = [j \in AllJobs |-> IF j \in jobs THEN job[j].status ELSE "none"]
    BY <1>5 DEF PersistCritical
  <2>2. BatchTypes' /\ StagesInOrder' /\ SuccessesHaveReceipts'
    BY <2>1 DEF BatchInv, BatchTypes, StagesInOrder, SuccessesHaveReceipts
  <2>3. DatabaseIsRight'
    BY <1>0, <2>1 DEF DatabaseIsRight
  <2>. QED BY <1>1, <2>1, <2>2, <2>3 DEF BatchInv
<1>6. CASE Persist
  <2>1. /\ bstage = "persist" /\ bstage' = "end"
        /\ UNCHANGED <<counted, jobs, job, parties, rows>>
        /\ stored' = {p \in jobs \X {"started", "accepted", "finished"} :
                        p[2] \in job[p[1]].receipts}
    BY <1>6 DEF Persist
  <2>2. BatchTypes' /\ StagesInOrder' /\ SuccessesHaveReceipts'
    BY <2>1 DEF BatchInv, BatchTypes, StagesInOrder, SuccessesHaveReceipts
  <2>3. ASSUME NEW j \in jobs, NEW x \in {"started", "accepted", "finished"},
               x \in job[j].receipts
        PROVE  <<j, x>> \in stored'
    BY <2>1, <2>3
  <2>4. DatabaseIsRight'
    BY <2>1, <2>3 DEF BatchInv, DatabaseIsRight
  <2>. QED BY <1>1, <2>1, <2>2, <2>4 DEF BatchInv
<1>7. CASE TimeLimit
  <2>1. /\ bstage' = "killed" /\ jobs' = {} /\ parties' = {} /\ counted' = [m \in Miners |-> 0]
        /\ job' = [j \in AllJobs |-> NewJob]
    BY <1>7 DEF TimeLimit
  <2>2. JobIsSound(NewJob)
    <3>1. NewJob \in JobObjects
      BY DEF NewJob, JobObjects, Places, Replies
    <3>2. \A k \in Kinds : NewJob.got[k] = "none"
      BY DEF NewJob
    <3>. QED BY <3>1, <3>2 DEF NewJob, JobIsSound, Kinds, IsReady
  <2>. HIDE DEF NewJob
  <2>3. JobsAreSound' /\ BatchTypes'
    BY <2>1, <2>2 DEF JobsAreSound, BatchTypes
  <2>. QED BY <2>1, <2>3 DEF BatchInv, StagesInOrder, SuccessesHaveReceipts, DatabaseIsRight,
           PartiesAreReady, ExcusesCoverExecutors
<1>. QED BY <1>2, <1>3, <1>4, <1>5, <1>6, <1>7

\* Every step of the batch, of its miners and of Celery keeps the invariant.
LEMMA NextBatch == BatchInv /\ [BatchNext]_batchVars => BatchInv'
<1>. SUFFICES ASSUME BatchInv, [BatchNext]_batchVars PROVE BatchInv'
  OBVIOUS
<1>1. CASE BatchSteps
  BY <1>1, ManifestStep, TasksStep, ScoreStep, BarrierStep, StageStep, PersistStep DEF BatchSteps
<1>2. CASE UNCHANGED batchVars
  BY <1>2 DEF batchVars, BatchInv, BatchTypes, JobsAreSound, StagesInOrder, SuccessesHaveReceipts,
     DatabaseIsRight, PartiesAreReady, ExcusesCoverExecutors, Accepted
<1>. QED BY <1>1, <1>2, ManifestStep, MessageStep, PersistStep DEF BatchNext

\* A batch with any number of miners and executors, whatever the miners send and
\* in whatever order: a completed job was accepted and answered in order and has
\* its receipts, and an excused job's miner has its executors accounted for.
THEOREM OutcomesAlwaysBacked == BatchSpec => []OutcomesAreBacked
<1>1. BatchInv => OutcomesAreBacked
  <2>. SUFFICES ASSUME BatchInv PROVE OutcomesAreBacked
    OBVIOUS
  <2>1. ASSUME NEW j \in jobs, rows[j] = "success"
        PROVE  /\ JobIsSound(job[j]) /\ IsReady(job[j]) /\ job[j].got["response"] = "finished"
               /\ job[j].sent /\ ~job[j].early
               /\ bstage = "end" => <<j, "started">> \in stored /\ <<j, "finished">> \in stored
    <3>1. j \in AllJobs /\ JobIsSound(job[j])
      BY DEF BatchInv, BatchTypes, JobsAreSound
    <3>2. bstage \in {"persist", "end"} /\ job[j].status = "success"
      BY <2>1, <3>1 DEF BatchInv, DatabaseIsRight, StagesInOrder
    <3>3. "finished" \in job[j].receipts
      BY <3>1, <3>2 DEF BatchInv, SuccessesHaveReceipts
    <3>4. IsReady(job[j]) /\ job[j].got["response"] = "finished" /\ job[j].sent /\ ~job[j].early
      BY <3>1, <3>2 DEF JobIsSound
    <3>5. "started" \in job[j].receipts
      BY <3>1, <3>4 DEF JobIsSound, IsReady
    <3>. QED BY <3>1, <3>3, <3>4, <3>5 DEF BatchInv, DatabaseIsRight
  <2>. QED BY <2>1 DEF OutcomesAreBacked, CompletedJobsWereEarned, CompletedJobsHaveReceipts,
           BatchInv, IsReady
<1>. QED BY InitBatch, NextBatch, <1>1, PTL DEF BatchSpec
=============================================================================
