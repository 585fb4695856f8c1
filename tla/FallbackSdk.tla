---------------------------- MODULE FallbackSdk ----------------------------
(***************************************************************************)
(* The SDK's fallback client (compute_horde_sdk/_internal/fallback): a job *)
(* is run on a SkyPilot cloud, watched by polling, and run again when it   *)
(* fails.  SkyPilot itself is external; the scripts it runs are the ones   *)
(* this client writes.  The unit of time is one poll.                      *)
(***************************************************************************)
EXTENDS Integers, FiniteSets

CONSTANTS
  MaxRuns,      \* max_attempts of run_until_complete
  Timed,        \* run_until_complete is given a timeout
  RunTimeout,   \* that timeout
  MayStream,    \* a streaming job, whose callback calls wait_for_streaming
  StreamLimit,  \* timeout of wait_for_streaming
  EpochOffset,  \* time.time() - time.monotonic()
  MaxTicks      \* bound: polls

ASSUME FallbackAssumption ==
  /\ MaxRuns \in Nat \ {0} /\ Timed \subseteq BOOLEAN /\ MayStream \subseteq BOOLEAN
  /\ {RunTimeout, StreamLimit, EpochOffset, MaxTicks} \subseteq Nat

VARIABLES
  tick,     \* time.monotonic()
  timed, streams,
  runs,     \* attempts made
  fbPhase,  \* where run_until_complete is
  since,    \* when the current wait began
  status,   \* FallbackJob.status of the current attempt
  sky,      \* attempt -> where its script is on the cloud, or how it ended
  made,     \* attempt -> what its script has done
  tunnels   \* attempts whose ssh process is alive

fallbackVars == <<tick, timed, streams, runs, fbPhase, since, status, sky, made, tunnels>>

Attempts == 1..MaxRuns
InProgress == {"SENT", "ACCEPTED"}
SkyOver == {"SUCCEEDED", "FAILED", "FAILED_SETUP", "FAILED_DRIVER"}
Over(a) == sky[a] \in SkyOver \cup {"down"}

FallbackInit ==
  /\ tick = 0 /\ timed \in Timed /\ streams \in MayStream
  /\ runs = 0 /\ fbPhase = "create" /\ since = 0 /\ status = "SENT"
  /\ sky = [a \in Attempts |-> "unknown"] /\ made = [a \in Attempts |-> {}] /\ tunnels = {}

-----------------------------------------------------------------------------
(* The cloud *)

\* setup.sh and run.sh stop at the first command that fails (set -euo pipefail).
ScriptStep(a) ==
  \/ sky[a] = "setup" /\ sky' = [sky EXCEPT ![a] = "volumes"] /\ UNCHANGED made
  \/ sky[a] = "setup" /\ sky' = [sky EXCEPT ![a] = "FAILED_SETUP"] /\ UNCHANGED made
  \/ /\ sky[a] \in {"volumes", "command", "uploads"}
     /\ \/ sky' = [sky EXCEPT ![a] = "FAILED"] /\ UNCHANGED made
        \/ /\ made' = [made EXCEPT ![a] = @ \cup {sky[a]}]
           /\ sky' = [sky EXCEPT ![a] = CASE sky[a] = "volumes" -> "command"
                                          [] sky[a] = "command" -> "uploads"
                                          [] sky[a] = "uploads" -> "SUCCEEDED"]

\* SkyPilot: the job appears in the cluster's queue and is started; a cluster that
\* idles is torn down (idle_minutes_to_autostop, down=True).
SkyMoves(a) ==
  /\ \/ sky[a] = "unknown" /\ a <= runs /\ sky' = [sky EXCEPT ![a] = "pending"]
     \/ sky[a] = "pending" /\ sky' = [sky EXCEPT ![a] = "setup"]
     \/ sky[a] = "pending" /\ sky' = [sky EXCEPT ![a] = "FAILED_DRIVER"]
     \/ sky[a] \in SkyOver /\ sky' = [sky EXCEPT ![a] = "down"]
  /\ UNCHANGED made

CloudStep(a) ==
  /\ ScriptStep(a) \/ SkyMoves(a)
  /\ UNCHANGED <<tick, timed, streams, runs, fbPhase, since, status, tunnels>>

-----------------------------------------------------------------------------
(* The client *)

\* create_ssh_tunnel: the process is started and remembered, or, with no ssh port,
\* an exception leaves the job to itself.
CreateTunnel(a) ==
  \/ tunnels' = tunnels \cup {a} /\ fbPhase' = "accepting"
  \/ tunnels' = tunnels /\ fbPhase' = "raised"

\* create_job: the cluster is launched, and a streaming job gets a tunnel.
CreateJob ==
  /\ fbPhase = "create" /\ runs < MaxRuns
  /\ runs' = runs + 1 /\ status' = "SENT" /\ since' = tick
  /\ \/ streams /\ CreateTunnel(runs + 1)
     \/ ~streams /\ fbPhase' = "waiting" /\ UNCHANGED tunnels
  /\ UNCHANGED <<tick, timed, streams, sky, made>>

\* Mutant of GetStatus: a job that is set up is taken for one that was rejected.
GetStatusEager(a) ==
  IF sky[a] = "unknown" THEN "SENT"
  ELSE IF sky[a] \in {"FAILED_DRIVER", "FAILED_SETUP", "setup"} THEN "REJECTED"
  ELSE IF sky[a] = "SUCCEEDED" THEN "COMPLETED"
  ELSE IF sky[a] = "FAILED" THEN "FAILED" ELSE "ACCEPTED"

\* _get_status; job_status raises when the cluster is gone.
GetStatus(a) ==
  CASE sky[a] = "unknown" -> "SENT"
    [] sky[a] \in {"pending", "setup", "volumes", "command", "uploads"} -> "ACCEPTED"
    [] sky[a] \in {"FAILED_DRIVER", "FAILED_SETUP"} -> "REJECTED"
    [] sky[a] = "SUCCEEDED" -> "COMPLETED"
    [] sky[a] = "FAILED" -> "FAILED"

\* SkyJob.output and download, of a job that is over: rsync fails, or the cluster
\* is gone.
FetchMayFail(a) == Over(a)

\* sleep(JOB_REFRESH_INTERVAL), then refresh: get_job and, for a job that is over,
\* its log and artifacts.
Refresh(next) ==
  /\ tick < MaxTicks /\ tick' = tick + 1
  /\ \/ sky[runs] # "down" /\ status' = GetStatus(runs) /\ fbPhase' = next
     \/ FetchMayFail(runs) /\ fbPhase' = "raised" /\ UNCHANGED status
  /\ UNCHANGED <<timed, streams, runs, since, sky, made, tunnels>>

\* wait_for_streaming, first loop.  start_time is time.time(), but the limit is
\* compared with time.monotonic() - start_time.
WaitForAcceptance ==
  /\ fbPhase = "accepting" /\ status # "ACCEPTED"
  /\ IF tick - (since + EpochOffset) > StreamLimit
     THEN /\ fbPhase' = "raised"
          /\ UNCHANGED <<tick, timed, streams, runs, since, status, sky, made, tunnels>>
     ELSE Refresh("accepting")

\* second loop: the health check through the tunnel, once a second.
WaitForHealth ==
  /\ fbPhase = "accepting" /\ status = "ACCEPTED"
  /\ IF tick - since < StreamLimit
     THEN \/ /\ sky[runs] = "command" /\ runs \in tunnels
             /\ fbPhase' = "waiting" /\ since' = tick /\ UNCHANGED tick
          \/ tick < MaxTicks /\ tick' = tick + 1 /\ UNCHANGED <<fbPhase, since>>
     ELSE fbPhase' = "raised" /\ UNCHANGED <<since, tick>>
  /\ UNCHANGED <<timed, streams, runs, status, sky, made, tunnels>>

\* FallbackJob.wait with what is left of the timeout.
RemainingTimeout == IF RunTimeout > since THEN RunTimeout - since ELSE 0
Wait ==
  /\ fbPhase = "waiting" /\ status \in InProgress
  /\ IF timed /\ tick - since > RemainingTimeout
     THEN /\ fbPhase' = "raised"
          /\ UNCHANGED <<tick, timed, streams, runs, since, status, sky, made, tunnels>>
     ELSE Refresh("waiting")

\* The job is over: returned if successful or the last, else run again after a
\* pause, whatever is left of the timeout.
Settle ==
  /\ fbPhase = "waiting" /\ status \notin InProgress
  /\ fbPhase' = IF status = "COMPLETED" \/ runs >= MaxRuns THEN "returned" ELSE "create"
  /\ UNCHANGED <<tick, timed, streams, runs, since, status, sky, made, tunnels>>

\* __exit__: every tunnel of _active_tunnels is terminated.
Exit ==
  /\ fbPhase \in {"returned", "raised"} /\ fbPhase' = "closed"
  /\ tunnels' = {}
  /\ UNCHANGED <<tick, timed, streams, runs, since, status, sky, made>>

FallbackNext ==
  \/ CreateJob \/ WaitForAcceptance \/ WaitForHealth \/ Wait \/ Settle \/ Exit
  \/ \E a \in Attempts : CloudStep(a)

FallbackSpec == FallbackInit /\ [][FallbackNext]_fallbackVars

-----------------------------------------------------------------------------
(* Properties *)

\* A job is run again only when the attempt before it is over on the cloud, so two
\* clusters never run the same job, whatever the client saw of it by polling.
OneCloudJobAtATime == \A a \in Attempts : a < runs => Over(a)

\* A job that run_until_complete returns as COMPLETED had its volumes, ran, and had
\* its output uploaded: a failure on the way is never reported as success.
CompletedJobsAreWhole ==
  fbPhase = "returned" /\ status = "COMPLETED" => made[runs] = {"volumes", "command", "uploads"}

\* No ssh process outlives the client, also those of attempts that were replaced.
NoTunnelOutlivesClient == fbPhase = "closed" => tunnels = {}

\* Running with retries on a cloud: no second cloud job is started while the
\* first may run, a job that is reported completed ran every step of its
\* script, and no tunnel outlives the client.
FallbackRunsAreSound ==
    /\ OneCloudJobAtATime
    /\ CompletedJobsAreWhole
    /\ NoTunnelOutlivesClient

=============================================================================
