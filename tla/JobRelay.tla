------------------------------ MODULE JobRelay ------------------------------
(***************************************************************************)
(* The path of a job between its user and the validator's worker: the SDK  *)
(* (compute_horde_sdk/_internal/sdk.py) posts it to the facilitator        *)
(* (facilitator core/api.py, models.py, consumers.py, tasks.py), which     *)
(* sends it over a WebSocket to the validator's FacilitatorClient          *)
(* (organic_jobs/facilitator_client.py); statuses travel back the same     *)
(* way.  One user runs one job with run_until_complete and may report the  *)
(* miner afterwards.  What the worker does is OrganicJob's; here it emits  *)
(* one status on its way and one at the end.                               *)
(***************************************************************************)
EXTENDS Integers, Sequences, FiniteSets, SequencesExt, FiniteSetsExt

CONSTANTS
  MaxRelayJobs,     \* bound: Job rows of the facilitator
  MaxConns,    \* bound: connections of the validator, one after another
  MaxAttempts, \* max_attempts of run_until_complete
  MaxFaults    \* bound: broken connections, failed workers, lost answers, timeouts

ASSUME RelayAssumption ==
  /\ MaxRelayJobs \in Nat \ {0} /\ MaxConns \in Nat \ {0} /\ MaxAttempts \in Nat
  /\ MaxFaults \in Nat

Jobs == 1..MaxRelayJobs
Conns == 1..MaxConns
NoConn == 0
EndStates == {"COMPLETED", "REJECTED", "FAILED", "HORDE_FAILED"}
Update(j, s) == [job |-> j, status |-> s]

VARIABLES
  sdk,       \* run_until_complete: its state, job, attempts; the report
  hist,      \* facilitator: JobStatus rows of each job, by created_at
  report,    \* facilitator: CheatedJobReport rows
  channel,   \* facilitator: Channel row of each connection
  link,      \* connections: unused, auth, open, cut (by the validator), closed
  up, down,  \* messages under way on each connection
  ws,        \* FacilitatorClient.ws
  young,     \* run_forever was entered less than 60 seconds ago
  task,      \* process_job_request of each job
  celery,    \* the Celery task of each job: its state; the row it saved
  box,       \* channel layer: job_status_updates__<uuid>
  listening, \* jobs with a handle_job_status_updates task
  started,   \* send_job_status_update tasks, in the order they were created
  retrying,  \* those that found no connection and wait to try again
  cheated,   \* jobs marked as cheated and passed to slash_collateral_task
  disturbed, \* jobs with a message under way on a broken connection, or
             \* one that found no connection
  overdue,   \* jobs whose result was not waited for to the end
  extra,     \* jobs whose creation the user was never told of
  faults

sdkVars == <<sdk, extra>>
facVars == <<hist, report, channel>>
netVars == <<link, up, down, ws, young>>
valVars == <<task, celery, box, listening, started, retrying, cheated>>
ghostVars == <<disturbed, overdue, faults>>
relayVars == <<sdkVars, facVars, netVars, valVars, ghostVars>>

RelayInit ==
  /\ sdk = [st |-> "create", job |-> 0, attempts |-> 1, reported |-> FALSE, ignored |-> FALSE]
  /\ hist = [j \in Jobs |-> <<>>] /\ report = {}
  /\ channel = [c \in Conns |-> "none"] /\ link = [c \in Conns |-> "unused"]
  /\ up = [c \in Conns |-> <<>>] /\ down = [c \in Conns |-> <<>>]
  /\ ws = NoConn /\ young = TRUE
  /\ task = [j \in Jobs |-> "none"]
  /\ celery = [j \in Jobs |-> [st |-> "none", saved |-> FALSE]]
  /\ box = [j \in Jobs |-> <<>>] /\ listening = {} /\ started = <<>>
  /\ retrying = {} /\ cheated = {}
  /\ disturbed = {} /\ overdue = {} /\ extra = {} /\ faults = 0

LastStatus(j) == hist[j][Len(hist[j])]
InProgress(j) == LastStatus(j) \notin EndStates

(***************************************************************************)
(* The SDK.                                                                *)
(***************************************************************************)
\* Job.save with select_validator: the validator has a channel whose last
\* heartbeat is recent, and send_to_validator writes to all its channels.
CanSelectValidator == \E c \in Conns : channel[c] = "fresh"
SendToValidator(msg) ==
  down' = [c \in Conns |-> IF channel[c] # "none" /\ link[c] # "closed"
                           THEN Append(down[c], msg) ELSE down[c]]
Reached == \E c \in Conns : channel[c] # "none" /\ link[c] \in {"auth", "open"}
NextJob == Min({j \in Jobs : hist[j] = <<>>})

\* create_job.  A gateway may answer 5xx after the job was created, and the
\* request is made again; an answer that cannot be read is not retried.
CreateJob ==
  /\ sdk.st = "create" /\ \E j \in Jobs : hist[j] = <<>>
  /\ IF ~CanSelectValidator
     THEN /\ sdk' = [sdk EXCEPT !.st = "raised"]
          /\ UNCHANGED <<extra, hist, down, disturbed, faults>>
     ELSE /\ hist' = [hist EXCEPT ![NextJob] = <<"SENT">>]
          /\ SendToValidator([job |-> NextJob, what |-> "new"])
          /\ disturbed' = IF Reached THEN disturbed ELSE disturbed \cup {NextJob}
          /\ \/ sdk' = [sdk EXCEPT !.st = "wait", !.job = NextJob] /\ UNCHANGED <<extra, faults>>
             \/ /\ faults < MaxFaults /\ faults' = faults + 1
                /\ extra' = extra \cup {NextJob}
                /\ sdk' \in {sdk, [sdk EXCEPT !.st = "raised"]}
  /\ UNCHANGED <<report, channel, link, up, ws, young, valVars, overdue>>

\* Mutant of SdkPoll: a job that was accepted once is not waited for again.
SdkPollImpatient ==
  /\ sdk.st = "wait"
  /\ IF "COMPLETED" = LastStatus(sdk.job) \/ sdk.attempts >= MaxAttempts
     THEN sdk' = [sdk EXCEPT !.st = "returned"]
     ELSE sdk' = [sdk EXCEPT !.st = "create", !.attempts = @ + 1]
  /\ UNCHANGED <<extra, facVars, netVars, valVars, ghostVars>>

\* One turn of the loop of ComputeHordeJob.wait, and what
\* run_until_complete does with the result
SdkPoll ==
  /\ sdk.st = "wait" /\ ~InProgress(sdk.job)
  /\ IF LastStatus(sdk.job) = "COMPLETED" \/ (MaxAttempts > 0 /\ sdk.attempts >= MaxAttempts)
     THEN sdk' = [sdk EXCEPT !.st = "returned"]
     ELSE sdk' = [sdk EXCEPT !.st = "create", !.attempts = @ + 1]
  /\ UNCHANGED <<extra, facVars, netVars, valVars, ghostVars>>

SdkTimeout ==
  /\ sdk.st = "wait" /\ InProgress(sdk.job)
  /\ faults < MaxFaults /\ faults' = faults + 1
  /\ sdk' = [sdk EXCEPT !.st = "raised"]
  /\ UNCHANGED <<extra, facVars, netVars, valVars, disturbed, overdue>>

\* report_cheated_job and CheatedJobViewSet.create: one report per job
ReportCheatedJob ==
  /\ sdk.st = "returned" /\ ~sdk.reported /\ LastStatus(sdk.job) = "COMPLETED"
  /\ sdk' = [sdk EXCEPT !.reported = TRUE]
  /\ report' = report \cup {sdk.job}
  /\ SendToValidator([job |-> sdk.job, what |-> "cheated"])
  /\ disturbed' = IF Reached THEN disturbed ELSE disturbed \cup {sdk.job}
  /\ UNCHANGED <<extra, hist, channel, link, up, ws, young, valVars, overdue, faults>>

(***************************************************************************)
(* The facilitator.                                                        *)
(***************************************************************************)
\* ValidatorConsumer.authenticate
Authenticate(c) ==
  /\ link[c] = "unused" /\ ws = NoConn /\ \A d \in Conns : link[d] # "auth"
  /\ \A d \in Conns : d < c => link[d] # "unused"
  /\ link' = [link EXCEPT ![c] = "auth"]
  /\ channel' = [channel EXCEPT ![c] = "fresh"]
  /\ UNCHANGED <<sdkVars, hist, report, up, down, ws, young, valVars, ghostVars>>

\* job_status_update: a status a job has already is an IntegrityError
JobStatusUpdate(c) ==
  /\ up[c] # <<>>
  /\ LET m == Head(up[c]) IN
     hist' = IF m.status \in ToSet(hist[m.job]) THEN hist
             ELSE [hist EXCEPT ![m.job] = Append(@, m.status)]
  /\ up' = [up EXCEPT ![c] = Tail(@)]
  /\ UNCHANGED <<sdkVars, report, channel, link, down, ws, young, valVars, ghostVars>>

\* disconnect, once the consumer has handled what came before
Disconnect(c) ==
  /\ link[c] = "cut" /\ up[c] = <<>>
  /\ link' = [link EXCEPT ![c] = "closed"]
  /\ channel' = [channel EXCEPT ![c] = "none"]
  /\ UNCHANGED <<sdkVars, hist, report, up, down, ws, young, valVars, ghostVars>>

\* No heartbeat for three minutes; sync_validators deletes the row after ten
MissHeartbeats(c) ==
  /\ link[c] = "cut" /\ channel[c] \in {"fresh", "stale"}
  /\ channel' = [channel EXCEPT ![c] = IF @ = "fresh" THEN "stale" ELSE "none"]
  /\ UNCHANGED <<sdkVars, hist, report, netVars, valVars, ghostVars>>

(***************************************************************************)
(* FacilitatorClient.                                                      *)
(***************************************************************************)
\* handle_connection after the Response: self.ws is set
Welcome(c) ==
  /\ link[c] = "auth" /\ link' = [link EXCEPT ![c] = "open"] /\ ws' = c
  /\ UNCHANGED <<sdkVars, facVars, up, down, young, valVars, ghostVars>>

MinuteHasPassed ==
  /\ young /\ ws # NoConn /\ young' = FALSE
  /\ UNCHANGED <<sdkVars, facVars, link, up, down, ws, valVars, ghostVars>>

\* What the process held is gone with it, and Docker starts it again.
RestartProcess ==
  /\ young' = TRUE /\ started' = <<>> /\ retrying' = {} /\ listening' = {}
  /\ task' = [j \in Jobs |-> IF task[j] = "none" THEN "none" ELSE "over"]
  /\ disturbed' = disturbed \cup {j \in Jobs : hist[j] # <<>>}
  /\ overdue' = overdue \cup {j \in Jobs : task[j] = "waiting"}
  /\ UNCHANGED <<celery, box, cheated>>

(***************************************************************************)
(* The connection breaks: what was not delivered is lost.  run_forever     *)
(* connects again in its first minute; later its retry gives up at once,   *)
(* since stop_after_delay counts from the first attempt, and the process   *)
(* ends.                                                                   *)
(***************************************************************************)
BreakConnection(c) ==
  /\ link[c] \in {"auth", "open"} /\ faults < MaxFaults /\ faults' = faults + 1
  /\ link' = [link EXCEPT ![c] = "cut"] /\ ws' = NoConn
  /\ down' = [down EXCEPT ![c] = <<>>]
  /\ \E n \in 0..Len(up[c]) :
       /\ up' = [up EXCEPT ![c] = SubSeq(@, 1, n)]
       /\ IF young
          THEN /\ disturbed' = disturbed \cup {m.job : m \in ToSet(down[c])}
                                \cup {m.job : m \in ToSet(up[c])}
               /\ UNCHANGED <<young, task, celery, box, listening, started,
                              retrying, cheated, overdue>>
          ELSE RestartProcess
  /\ UNCHANGED <<sdkVars, facVars>>

\* handle_message; process_miner_cheat_report.  Whether the signature passes
\* verify_request_or_fail is left open: SignedRequests is about that.
HandleMessage(c) ==
  /\ ws = c /\ down[c] # <<>>
  /\ LET m == Head(down[c]) IN
     \/ /\ m.what = "new"
        /\ \E t \in {"received", "rejecting"} : task' = [task EXCEPT ![m.job] = t]
        /\ UNCHANGED <<cheated, sdk>>
     \/ m.what = "cheated" /\ UNCHANGED <<task, cheated, sdk>>
     \/ /\ m.what = "cheated" /\ UNCHANGED task
        /\ IF celery[m.job].saved /\ m.job \notin cheated
           THEN cheated' = cheated \cup {m.job} /\ UNCHANGED sdk
           ELSE sdk' = [sdk EXCEPT !.ignored = TRUE] /\ UNCHANGED cheated
  /\ down' = [down EXCEPT ![c] = Tail(@)]
  /\ UNCHANGED <<extra, facVars, link, up, ws, young, celery, box, listening,
                 started, retrying, ghostVars>>

\* send_model while there is a connection
Send(j, s) == up' = [up EXCEPT ![ws] = Append(@, Update(j, s))]

\* _process_job_request sends RECEIVED itself and goes on once it is sent
SendReceived(j) ==
  /\ task[j] = "received" /\ ws # NoConn /\ Send(j, "RECEIVED")
  /\ task' = [task EXCEPT ![j] = "routing"]
  /\ UNCHANGED <<sdkVars, facVars, link, down, ws, young, celery, box, listening,
                 started, retrying, cheated, ghostVars>>

\* pick_miner_for_job_request: no miner, an error, or a worker gets the job
Route(j) ==
  /\ task[j] = "routing"
  /\ \/ /\ task' \in {[task EXCEPT ![j] = t] : t \in {"rejecting", "failing"}}
        /\ UNCHANGED <<celery, listening>>
     \/ /\ task' = [task EXCEPT ![j] = "waiting"]
        /\ listening' = listening \cup {j}
        /\ celery' = [celery EXCEPT ![j].st = "queued"]
  /\ UNCHANGED <<sdkVars, facVars, netVars, box, started, retrying, cheated, ghostVars>>

\* send_job_rejected, send_horde_failed
SendLast(j) ==
  /\ task[j] \in {"rejecting", "failing"} /\ ws # NoConn
  /\ Send(j, IF task[j] = "rejecting" THEN "REJECTED" ELSE "HORDE_FAILED")
  /\ task' = [task EXCEPT ![j] = "over"]
  /\ UNCHANGED <<sdkVars, facVars, link, down, ws, young, celery, box, listening,
                 started, retrying, cheated, ghostVars>>

\* Relaying a status takes moments, the wait for a result minutes.
Relayed(j) == box[j] = <<>> /\ \A m \in ToSet(started) : m.job # j

\* Mutant of WaitForResult: a failed job is reported a second time.
WaitForResultReports(j) ==
  /\ task[j] = "waiting" /\ celery[j].st = "done"
  /\ task' = [task EXCEPT ![j] = IF celery[j].saved THEN "over" ELSE "failing"]
  /\ UNCHANGED <<sdkVars, facVars, netVars, celery, box, listening, started,
                 retrying, cheated, disturbed, overdue, faults>>

\* wait_for_celery_result: the task is done, or ORGANIC_JOB_CELERY_WAIT_TIMEOUT
\* has passed, when a task that was not started yet also expires
WaitForResult(j) ==
  /\ task[j] = "waiting"
  /\ \/ /\ celery[j].st = "done" /\ task' = [task EXCEPT ![j] = "over"]
        /\ UNCHANGED <<celery, overdue, faults>>
     \/ /\ celery[j].st # "done" /\ Relayed(j)
        /\ celery[j].st = "dead" \/ faults < MaxFaults
        /\ faults' = IF celery[j].st = "dead" THEN faults ELSE faults + 1
        /\ task' = [task EXCEPT ![j] = "failing"] /\ overdue' = overdue \cup {j}
        /\ celery' = IF celery[j].st = "queued" THEN [celery EXCEPT ![j].st = "dead"] ELSE celery
  /\ UNCHANGED <<sdkVars, facVars, netVars, box, listening, started, retrying,
                 cheated, disturbed>>

\* The worker, as far as it is seen from here: the row is saved, then the
\* status is put into the channel layer.
WorkerAccepts(j) ==
  /\ celery[j].st = "queued" /\ celery' = [celery EXCEPT ![j].st = "running"]
  /\ box' = [box EXCEPT ![j] = Append(@, "ACCEPTED")]
  /\ UNCHANGED <<sdkVars, facVars, netVars, task, listening, started, retrying,
                 cheated, ghostVars>>

WorkerSaves(j) ==
  /\ celery[j].st = "running"
  /\ \/ celery' = [celery EXCEPT ![j] = [st |-> "completed", saved |-> TRUE]] /\ UNCHANGED faults
     \/ celery' = [celery EXCEPT ![j].st = "failed"] /\ UNCHANGED faults
     \/ /\ faults < MaxFaults /\ faults' = faults + 1
        /\ celery' = [celery EXCEPT ![j].st = "dead"]
  /\ UNCHANGED <<sdkVars, facVars, netVars, task, box, listening, started,
                 retrying, cheated, disturbed, overdue>>

\* status_update_from_success and the others, of which FAILED stands for all.
WorkerNotifies(j) ==
  /\ celery[j].st \in {"completed", "failed"}
  /\ celery' = [celery EXCEPT ![j].st = "done"]
  /\ box' = [box EXCEPT ![j] =
       Append(@, IF celery[j].saved THEN "COMPLETED" ELSE "FAILED")]
  /\ UNCHANGED <<sdkVars, facVars, netVars, task, listening, started, retrying,
                 cheated, ghostVars>>

\* Mutant of Listen: it returns after the first update.
ListenOnce(j) ==
  /\ j \in listening /\ box[j] # <<>>
  /\ started' = Append(started, Update(j, Head(box[j])))
  /\ box' = [box EXCEPT ![j] = Tail(@)]
  /\ listening' = listening \ {j}
  /\ UNCHANGED <<sdkVars, facVars, netVars, task, celery, retrying, cheated, ghostVars>>

\* handle_job_status_updates: a task per update, until an end state
Listen(j) ==
  /\ j \in listening /\ box[j] # <<>>
  /\ started' = Append(started, Update(j, Head(box[j])))
  /\ box' = [box EXCEPT ![j] = Tail(@)]
  /\ listening' = IF Head(box[j]) \in EndStates THEN listening \ {j} ELSE listening
  /\ UNCHANGED <<sdkVars, facVars, netVars, task, celery, retrying, cheated, ghostVars>>

\* The event loop runs the new tasks in turn: send_job_status_update sends,
\* or waits to try again.
FirstTry ==
  /\ started # <<>>
  /\ LET m == Head(started) IN
     IF ws # NoConn THEN Send(m.job, m.status) /\ UNCHANGED <<retrying, disturbed>>
     ELSE /\ retrying' = retrying \cup {m} /\ disturbed' = disturbed \cup {m.job}
          /\ UNCHANGED up
  /\ started' = Tail(started)
  /\ UNCHANGED <<sdkVars, facVars, link, down, ws, young, task, celery, box,
                 listening, cheated, overdue, faults>>

TryAgain(m) ==
  /\ m \in retrying /\ ws # NoConn /\ Send(m.job, m.status)
  /\ retrying' = retrying \ {m}
  /\ UNCHANGED <<sdkVars, facVars, link, down, ws, young, task, celery, box,
                 listening, started, cheated, ghostVars>>

RelayNext ==
  \/ CreateJob \/ SdkPoll \/ SdkTimeout \/ ReportCheatedJob
  \/ MinuteHasPassed \/ FirstTry
  \/ \E c \in Conns :
       \/ Authenticate(c) \/ JobStatusUpdate(c) \/ Disconnect(c) \/ MissHeartbeats(c)
       \/ Welcome(c) \/ BreakConnection(c) \/ HandleMessage(c)
  \/ \E j \in Jobs :
       \/ SendReceived(j) \/ Route(j) \/ SendLast(j) \/ WaitForResult(j)
       \/ WorkerAccepts(j) \/ WorkerSaves(j) \/ WorkerNotifies(j) \/ Listen(j)
  \/ \E m \in retrying : TryAgain(m)

(***************************************************************************)
(* The event loops run their tasks, the user polls, and a Celery worker    *)
(* ends a job.  A new connection is made while the user waits.             *)
(***************************************************************************)
ConnectionStep(c) == JobStatusUpdate(c) \/ Authenticate(c) \/ Welcome(c) \/ HandleMessage(c)
RequestStep(j) == SendReceived(j) \/ Route(j) \/ SendLast(j) \/ WaitForResult(j)
WorkerStep(j) == WorkerAccepts(j) \/ WorkerSaves(j) \/ WorkerNotifies(j)

RelayFairness ==
  /\ WF_relayVars(CreateJob /\ CanSelectValidator) /\ WF_relayVars(SdkPoll)
  /\ WF_relayVars(FirstTry)
  /\ \A c \in Conns : WF_relayVars(ConnectionStep(c))
  /\ \A j \in Jobs :
       WF_relayVars(RequestStep(j)) /\ WF_relayVars(WorkerStep(j)) /\ WF_relayVars(Listen(j))

RelaySpec == RelayInit /\ [][RelayNext]_relayVars /\ RelayFairness

-----------------------------------------------------------------------------
(***************************************************************************)
(* The facilitator shows at most one end state for a job, and a job it     *)
(* shows as completed was completed, although the validator has five       *)
(* places that report an end.  The exception is a result the validator     *)
(* stopped waiting for: then HORDE_FAILED is followed by what the worker   *)
(* says.                                                                   *)
(***************************************************************************)
EndStatesAreTrue ==
  \A j \in Jobs :
    LET ends == ToSet(hist[j]) \cap EndStates IN
    /\ "COMPLETED" \in ends => celery[j].saved
    /\ Cardinality(ends) > 1 => (j \in overdue /\ "HORDE_FAILED" \in ends)

(***************************************************************************)
(* The latest status is the latest stage (ComputeHordeJob.status and       *)
(* Job.status take the row that came last): statuses arrive in the order   *)
(* of the stages although each is sent by a task of its own, unless a      *)
(* connection broke with one under way: the next connection's consumer may *)
(* overtake the old one, and a sender that waits is overtaken by others.   *)
(***************************************************************************)
StatusesArriveInOrder ==
  \A j \in Jobs \ disturbed : \A a, b \in 1..Len(hist[j]) :
    a < b => /\ hist[j][a] \in EndStates => hist[j][b] \in EndStates \/ j \in overdue
             /\ hist[j][b] # "RECEIVED" \/ hist[j][a] = "SENT"

(***************************************************************************)
(* The user's job runs on one worker at a time: run_until_complete starts  *)
(* another one only when the last is over, unless the user was not told of *)
(* a job's creation or the validator gave up waiting for its result.       *)
(***************************************************************************)
OneRunAtATime ==
  \A i, j \in Jobs : (i # j /\ {i, j} \cap (extra \cup overdue) = {}) =>
    ~(celery[i].st \in {"queued", "running"} /\ celery[j].st \in {"queued", "running"})

(***************************************************************************)
(* A cheat report about a job that the user saw completed, if the          *)
(* validator accepts its signature, is never ignored as incomplete or as a *)
(* repetition: the validator saved its row before it told anybody.         *)
(***************************************************************************)
ReportsAreHeeded == ~sdk.ignored

\* What the user sees of a job, over a connection that breaks, with each
\* status sent by a task of its own: its end state is true, its statuses come
\* in the order of the stages, and a cheat report about it is heeded, with the
\* exceptions that each part names.
StatusesAreRight ==
    /\ EndStatesAreTrue
    /\ StatusesArriveInOrder
    /\ ReportsAreHeeded


(***************************************************************************)
(* run_until_complete comes to an end without a timeout of its own, unless *)
(* a message of its job was lost or delayed on a broken connection: then   *)
(* nothing ever asks the validator again.                                  *)
(***************************************************************************)
UserGetsAnAnswer ==
  (sdk.st = "wait") ~>
    (sdk.st \in {"returned", "raised"} \/ disturbed # {} \/ extra # {})
=============================================================================
