--------------------------- MODULE ExecutorDriver ---------------------------
(***************************************************************************)
(* An executor that runs one job (executor/job_driver.py, job_runner.py,   *)
(* miner_client.py, utils.py, with the uploader and downloader of          *)
(* compute_horde_core) and the deadlines of the validator that waits for   *)
(* it (compute_horde/miner_client/organic.py).  Time is discrete; both     *)
(* sides extend a deadline at each stage.  A message takes Latency.        *)
(***************************************************************************)
EXTENDS Integers, Sequences, FiniteSets

CONSTANTS
  Streams,          \* the job is a streaming job
  Leeway, DownloadLimit, StreamingLimit, ExecutionLimit, UploadLimit,
                    \* TimingDetails of the job
  StartupLimit,     \* startup_time_limit of the executor
  Latency,          \* of messages between the executor and the validator
  Uploads,          \* files of output_upload
  MaxRetries        \* max_retries of upload_post and upload_put

ASSUME DriverAssumption ==
  /\ Streams \subseteq BOOLEAN
  /\ {Leeway, DownloadLimit, StreamingLimit, ExecutionLimit, UploadLimit,
      StartupLimit, Latency} \subseteq Nat /\ MaxRetries \in Nat \ {0}

VARIABLES
  clock,
  stream,     \* whether this job streams
  stage,      \* JobDriver: where _execute is
  deadline,   \* JobDriver.deadline
  runEnd,     \* when job_cleanup stops waiting for the container
  inbox,      \* what the executor has received: initial request, payload
  said,       \* messages of the executor, each with the time it was sent
  hostbox,    \* containers and networks on the host; old ones are of earlier jobs
  tries,      \* uploads: attempts so far, -1 when done
  hitLimit,   \* the container was stopped by its time limit
  waits,      \* the validator: stage it waits in
  vdeadline   \* the validator's deadline

driverVars == <<clock, stream, stage, deadline, runEnd, inbox, said, hostbox,
                tries, hitLimit, waits, vdeadline>>

Done == -1

DriverInit ==
  /\ clock = 0 /\ stream \in Streams
  /\ stage = "cve" /\ deadline = StartupLimit /\ runEnd = 0
  /\ inbox = {} /\ said = <<>> /\ tries = [f \in Uploads |-> 0]
  /\ hostbox \in SUBSET {"oldjob", "oldnginx"} /\ hitLimit = FALSE
  /\ waits = "ready" /\ vdeadline = 0

Said(m) == \E i \in 1..Len(said) : said[i].what = m
Say(m) == said' = Append(said, [what |-> m, at |-> clock])
Arrived(m) == \E i \in 1..Len(said) : said[i].what = m /\ said[i].at + Latency <= clock
Ended == {"finished", "job_failed", "horde_failed"}
Starting == {"cve", "toolkit", "startup"}

(***************************************************************************)
(* Time does not pass a deadline somebody waits for: asyncio wakes them.   *)
(* The certificate is made without an await, in next to no time.           *)
(***************************************************************************)
Tick ==
  /\ stage # "certificate"
  /\ stage # "over" \/ waits \notin {"ok", "timeout", "failed"}
  /\ stage # "over" => clock < deadline
  /\ stage = "run" => clock < runEnd
  /\ waits \in {"volumes", "streaming", "execution", "final"} => clock < vdeadline
  /\ waits \in {"ok", "timeout", "failed"} => stage # "over"
  /\ \/ stage # "over"
     \/ \E i \in 1..Len(said) : said[i].at + Latency > clock
     \/ waits \in {"volumes", "streaming", "execution", "final"}
  /\ clock' = clock + 1
  /\ UNCHANGED <<stream, stage, deadline, runEnd, inbox, said, hostbox, tries,
                 hitLimit, waits, vdeadline>>

vUnchanged == UNCHANGED <<clock, stream, waits, vdeadline>>

(***************************************************************************)
(* The executor.                                                           *)
(***************************************************************************)
\* execute: the error is sent, unless no initial request came with a job
\* uuid to send; then runner.clean
Fail(m) ==
  /\ stage' = "over"
  /\ IF "initial" \in inbox THEN Say(m) ELSE UNCHANGED said
  /\ UNCHANGED <<deadline, runEnd, inbox>>

ReceiveInitial ==
  /\ stage \in Starting /\ "initial" \notin inbox
  /\ inbox' = inbox \cup {"initial"}
  /\ UNCHANGED <<stage, deadline, runEnd, said, hostbox, tries, hitLimit>> /\ vUnchanged

\* run_cve_2022_0492_check_or_fail, before the initial request is waited for
CveCheck ==
  /\ stage = "cve" /\ stage' = "toolkit"
  /\ UNCHANGED <<deadline, runEnd, inbox, said, hostbox, tries, hitLimit>> /\ vUnchanged

\* run_nvidia_toolkit_version_check_or_fail
ToolkitCheck ==
  /\ stage = "toolkit" /\ stage' = "startup"
  /\ UNCHANGED <<deadline, runEnd, inbox, said, hostbox, tries, hitLimit>> /\ vUnchanged

BeginDownloading == stage' = "download" /\ deadline' = clock + Leeway + DownloadLimit

\* _startup_stage with prepare_initial: cleanup_potential_old_jobs (a kill may
\* fail with a warning), the image is pulled, and the executor reports readiness
StartUp ==
  /\ stage = "startup" /\ "initial" \in inbox
  /\ \E survivors \in SUBSET hostbox : hostbox' = survivors
  /\ Say("ready")
  /\ IF stream THEN stage' = "certificate" /\ UNCHANGED deadline ELSE BeginDownloading
  /\ UNCHANGED <<runEnd, inbox, tries, hitLimit>> /\ vUnchanged

\* generate_streaming_certificate, after readiness was reported
GenerateCertificate ==
  /\ stage = "certificate"
  /\ \/ BeginDownloading /\ UNCHANGED <<said, runEnd, inbox>>
     \/ Fail("horde_failed")
  /\ UNCHANGED <<hostbox, tries, hitLimit>> /\ vUnchanged

\* A security check or the pull fails, or the startup limit passes.
StartUpFails ==
  /\ stage \in Starting /\ Fail("horde_failed")
  /\ UNCHANGED <<hostbox, tries, hitLimit>> /\ vUnchanged

\* _download_stage with download_volume
Download ==
  /\ stage = "download" /\ "payload" \in inbox
  /\ Say("volumes") /\ stage' = "start"
  /\ deadline' = deadline + ExecutionLimit + (IF stream THEN StreamingLimit ELSE 0)
  /\ UNCHANGED <<runEnd, inbox, hostbox, tries, hitLimit>> /\ vUnchanged

\* The download fails or its time is over.
DownloadFails ==
  /\ stage = "download" /\ Fail("job_failed")
  /\ UNCHANGED <<hostbox, tries, hitLimit>> /\ vUnchanged

\* get_docker_run_args: a streaming job gets a network, unless making it fails,
\* which is only logged; nobody removes it but the next executor's cleanup.
Networks == IF stream THEN {{}, {"network"}} ELSE {{}}

\* start_job: the job's container
RunJobContainer ==
  /\ stage = "start" /\ "job" \notin hostbox
  /\ \E made \in Networks : hostbox' = hostbox \cup {"job"} \cup made
  /\ IF stream THEN UNCHANGED <<stage, runEnd>>
     ELSE stage' = "run" /\ runEnd' = clock + ExecutionLimit
  /\ UNCHANGED <<deadline, inbox, said, tries, hitLimit>> /\ vUnchanged

\* start_nginx
StartNginx ==
  /\ stage = "start" /\ "job" \in hostbox /\ "nginx" \notin hostbox
  /\ hostbox' = hostbox \cup {"nginx"}
  /\ UNCHANGED <<stage, deadline, runEnd, inbox, said, tries, hitLimit>> /\ vUnchanged

\* after_start_job: the health check through nginx succeeds
StartStreaming ==
  /\ stage = "start" /\ {"job", "nginx"} \subseteq hostbox
  /\ Say("streaming") /\ stage' = "run" /\ runEnd' = clock + ExecutionLimit
  /\ UNCHANGED <<deadline, inbox, hostbox, tries, hitLimit>> /\ vUnchanged

\* docker_container_wrapper removes the job's container on every way out
LeaveContainer(stopped) == hostbox' = hostbox \ ({"job"} \cup stopped)

\* nginx does not start, the job is not healthy, or the deadline passes
\* before the container is seen to end: what job_cleanup stops stays
ExecutionFails ==
  /\ stage = "start" \/ (stage = "run" /\ clock >= deadline)
  /\ LeaveContainer({})
  /\ \E m \in {"job_failed", "horde_failed"} : Fail(m)
  /\ UNCHANGED <<tries, hitLimit>> /\ vUnchanged

\* job_cleanup: the container exits well, or badly, or at its limit, and
\* nginx is stopped, unless that fails; then fail_if_execution_unsuccessful
FailIfUnsuccessful(timedOut, ok) == timedOut \/ ~ok

RunEnds ==
  /\ stage = "run"
  /\ \E timedOut, ok \in BOOLEAN :
       /\ timedOut => clock = runEnd
       /\ hitLimit' = timedOut
       /\ \E stopped \in {{}, {"nginx"}} : LeaveContainer(stopped)
       /\ IF FailIfUnsuccessful(timedOut, ok) THEN Fail("job_failed")
          ELSE /\ Say("execution") /\ stage' = "upload"
               /\ deadline' = deadline + UploadLimit /\ UNCHANGED <<runEnd, inbox>>
  /\ UNCHANGED tries /\ vUnchanged

\* upload_results: the files at once, each tried MaxRetries times
UploadFile(f) ==
  /\ stage = "upload" /\ tries[f] # Done /\ tries[f] < MaxRetries
  /\ \/ tries' = [tries EXCEPT ![f] = Done]
     \/ tries' = [tries EXCEPT ![f] = @ + 1]
  /\ UNCHANGED <<stage, deadline, runEnd, inbox, said, hostbox, hitLimit>> /\ vUnchanged

\* asyncio.gather: the first error ends it; else the result is sent
AllUploaded == \A f \in Uploads : tries[f] = Done
SendResult ==
  /\ stage = "upload" /\ AllUploaded
  /\ Say("finished") /\ stage' = "over"
  /\ UNCHANGED <<deadline, runEnd, inbox, hostbox, tries, hitLimit>> /\ vUnchanged

UploadFails ==
  /\ stage = "upload"
  /\ (\E f \in Uploads : tries[f] = MaxRetries) \/ clock >= deadline
  /\ Fail("job_failed")
  /\ UNCHANGED <<hostbox, tries, hitLimit>> /\ vUnchanged

(***************************************************************************)
(* The validator, execute_organic_job_on_miner from readiness on.          *)
(***************************************************************************)
xUnchanged == UNCHANGED <<clock, stream, stage, deadline, runEnd, said, hostbox,
                          tries, hitLimit>>

ValidatorReady ==
  /\ waits = "ready" /\ Arrived("ready")
  /\ waits' = "volumes" /\ vdeadline' = clock + Leeway + DownloadLimit
  /\ inbox' = inbox \cup {"payload"}
  /\ xUnchanged

\* Mutant of Extension: streaming gets no time of its own.
ExtensionPlain(s) ==
  CASE s = "execution" -> ExecutionLimit [] s = "final" -> UploadLimit [] OTHER -> 0

\* What the deadline is extended by when a stage is entered
Extension(s) ==
  CASE s = "streaming" -> StreamingLimit [] s = "execution" -> ExecutionLimit
    [] s = "final" -> UploadLimit [] OTHER -> 0

ValidatorHears(m, next) ==
  /\ waits = m /\ Arrived(IF m = "final" THEN "finished" ELSE m)
  /\ waits' = next /\ vdeadline' = vdeadline + Extension(next)
  /\ UNCHANGED inbox /\ xUnchanged

ValidatorStep ==
  \/ ValidatorHears("volumes", IF stream THEN "streaming" ELSE "execution")
  \/ ValidatorHears("streaming", "execution")
  \/ ValidatorHears("execution", "final")
  \/ ValidatorHears("final", "ok")

ValidatorHearsFailure ==
  /\ waits \in {"volumes", "streaming", "execution", "final"}
  /\ Arrived("job_failed") \/ Arrived("horde_failed")
  /\ waits' = "failed" /\ UNCHANGED <<inbox, vdeadline>> /\ xUnchanged

\* asyncio.wait_for of the stage's future: nothing has come by the deadline
ValidatorTimesOut ==
  /\ waits \in {"volumes", "streaming", "execution", "final"} /\ clock >= vdeadline
  /\ ~Arrived(IF waits = "final" THEN "finished" ELSE waits)
  /\ ~Arrived("job_failed") /\ ~Arrived("horde_failed")
  /\ waits' = "timeout" /\ UNCHANGED <<inbox, vdeadline>> /\ xUnchanged

DriverNext ==
  \/ Tick \/ ReceiveInitial \/ CveCheck \/ ToolkitCheck \/ StartUp \/ GenerateCertificate
  \/ StartUpFails \/ Download \/ DownloadFails \/ RunJobContainer \/ StartNginx
  \/ StartStreaming \/ ExecutionFails \/ RunEnds
  \/ (\E f \in Uploads : UploadFile(f)) \/ SendResult \/ UploadFails
  \/ ValidatorReady \/ ValidatorStep \/ ValidatorHearsFailure \/ ValidatorTimesOut

DriverSpec == DriverInit /\ [][DriverNext]_driverVars

-----------------------------------------------------------------------------
\* Streaming was announced later than the limits up to it allow.
StreamingStartedLate ==
  \E i, k \in 1..Len(said) :
    /\ said[i].what = "ready" /\ said[k].what = "streaming"
    /\ said[k].at > said[i].at + Leeway + DownloadLimit + StreamingLimit

(***************************************************************************)
(* The validator never gives up on a job whose executor has finished in    *)
(* its own time: their deadlines are sums of the same limits, and the      *)
(* validator's starts one latency later.  The exception is the start of    *)
(* streaming, for which the executor has lent the execution limit already. *)
(***************************************************************************)
ValidatorOutlastsExecutor ==
  (waits = "timeout" /\ Said("finished")) => StreamingStartedLate

(***************************************************************************)
(* A finished job is one whose container exited by itself with code 0 and  *)
(* whose files were all uploaded; one stopped by its execution limit is    *)
(* reported as failed, whatever it had written.                            *)
(***************************************************************************)
FinishedJobsAreWhole ==
  Said("finished") => ~hitLimit /\ Said("execution") /\ \A f \in Uploads : tries[f] = Done

(***************************************************************************)
(* However the driver ends, its job's container is gone, so that the next  *)
(* executor on this server does not share it with an old job; and it has   *)
(* said one last word, unless it never learned the job's uuid.             *)
(***************************************************************************)
DriverLeavesTheHost ==
  stage = "over" =>
    /\ "job" \notin hostbox
    /\ Cardinality({i \in 1..Len(said) : said[i].what \in Ended}) =
         IF "initial" \in inbox THEN 1 ELSE 0

\* The end of a job on the executor: the validator still waits when an
\* executor that kept its deadlines reports, save for a late start of
\* streaming, a job reported finished ran and uploaded to the end, and the
\* driver leaves no container behind and says one last word.
JobEndsAsReported ==
    /\ ValidatorOutlastsExecutor
    /\ FinishedJobsAreWhole
    /\ DriverLeavesTheHost

=============================================================================
