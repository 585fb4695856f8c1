------------------------------ MODULE OrganicJob ------------------------------
(***************************************************************************)
(* One organic job, from the validator's reservation to its settlement:    *)
(*                                                                         *)
(*   driver     drive_organic_job and execute_organic_job_on_miner, in a   *)
(*              Celery worker of the validator                             *)
(*   link       the WebSocket between validator and miner, which may break *)
(*              and which the validator's transport opens again            *)
(*   consumer   MinerValidatorConsumer, the miner's end of that socket: it *)
(*              handles one event at a time, a socket message or a message *)
(*              from the channel-layer group of the job's executor token   *)
(*   executor   the executor's JobDriver, together with the miner's        *)
(*              MinerExecutorConsumer, which saves the job's row and       *)
(*              relays each message to the group                           *)
(*                                                                         *)
(* Both consumers keep their own copy of the AcceptedJob row and save all  *)
(* of it.  ExecutorPool models the reservation; Allowance the bookings.    *)
(***************************************************************************)
EXTENDS Integers, Sequences, SequencesExt

CONSTANTS
    Streaming,     \* the job has streaming_details
    Reachable,     \* a broken connection can be opened again
    Patient,       \* time limits only run out when nobody has anything to do
    MaxDrops,      \* bound: connections that break
    MaxFailures    \* bound: validator database errors and killed workers

ASSUME JobConstants ==
    /\ Streaming \in BOOLEAN /\ Reachable \in BOOLEAN /\ Patient \in BOOLEAN
    /\ MaxDrops \in Nat /\ MaxFailures \in Nat

\* What the driver waits for, in this order, and what ends the job early.  A
\* message of the miner has the name of the future it completes.
StageOrder == <<"accept", "ready", "volumes", "streaming", "execution", "finish">>
Stages == Range(StageOrder)
Exceptions == {"rejected", "jobFailed", "hordeFailed"}
TerminalMessages == Exceptions \cup {"finish"}

EndStates == {"finished", "failed", "rejectedJob"}

VARIABLES
    (* driver *)
    pc, fut,       \* where the driver is; OrganicMinerClient's futures
    reading,       \* its read_messages task is alive
    exc,           \* the exception that ended the job
    outcome,       \* OrganicJob.status
    booking,       \* the allowance booking: reserved, spent or released
    receipt,       \* the JobFinishedReceipt sent: none, paid or void
    notified,      \* status updates sent to the facilitator connection
    failures,
    (* link *)
    conn,          \* new, up, down, closing or closed
    v2m, m2v,      \* messages in flight
    drops,
    (* consumer *)
    auth,          \* validator_authenticated
    deferred,      \* defer_executor_ready holds the job
    joined,        \* member of the executor token's group
    task,          \* the handler it is in
    pending,       \* status of its copy in pending_jobs, or "none"
    seen,          \* status it read for handle_job_finished_receipt
    inbox,         \* group messages not yet handled
    row,           \* status in the database
    (* executor *)
    epc, payload   \* its stage; whether it has the full job request

driverVars == <<pc, fut, reading, exc, outcome, booking, receipt, notified, failures>>
linkVars == <<conn, v2m, m2v, drops>>
consumerVars == <<auth, deferred, joined, task, pending, seen, inbox>>
executorVars == <<epc, payload>>
vars == <<driverVars, linkVars, consumerVars, row, executorVars>>

\* The driver's places where it sends, and the ones where it awaits a future.
Sending == {"sendInitial", "sendAccepted", "sendJob", "sendPaid", "sendVoid"}

InProgress(r) == r \in {"waitExecutor", "waitPayload", "running"}

-----------------------------------------------------------------------------
(* Link *)

\* MinerValidatorConsumer.connect: a consumer starts from the database.  Jobs
\* are younger than the ten minutes and the day after which it gives up.
NewConsumer ==
    /\ auth' = FALSE
    /\ joined' = InProgress(row)
    /\ pending' = IF InProgress(row) THEN row ELSE "none"
    /\ deferred' = (row = "waitPayload")
    /\ task' = "idle" /\ seen' = "none" /\ inbox' = <<>>

\* The consumer is gone, and with it what the group sent to it.
NoConsumer ==
    /\ joined' = FALSE /\ pending' = "none" /\ deferred' = FALSE
    /\ task' = "idle" /\ inbox' = <<>>
    /\ UNCHANGED <<auth, seen>>

\* The connection breaks; a handler that waits for the executor is cancelled,
\* shorter ones finish first.
Drop ==
    /\ conn = "up" /\ drops < MaxDrops
    /\ task \in {"idle", "spinup"}
    /\ conn' = "down" /\ drops' = drops + 1
    /\ v2m' = <<>> /\ m2v' = <<>>
    /\ NoConsumer
    /\ UNCHANGED <<driverVars, row, executorVars>>

\* WSTransport connects again, in receive or in send.  It does not authenticate:
\* OrganicMinerClient.connect does, and nobody calls it a second time.
Reconnect ==
    /\ conn = "down" /\ Reachable
    /\ reading \/ pc \in Sending
    /\ conn' = "up"
    /\ NewConsumer
    /\ UNCHANGED <<driverVars, v2m, m2v, drops, row, executorVars>>

\* The validator closed the connection and the consumer has read what was sent.
ConsumerEnds ==
    /\ conn = "closing"
    /\ task = "spinup" \/ (task = "idle" /\ v2m = <<>>)
    /\ conn' = "closed" /\ v2m' = <<>> /\ m2v' = <<>>
    /\ NoConsumer
    /\ UNCHANGED <<driverVars, drops, row, executorVars>>

\* receive gives up after max_retries attempts, which ends read_messages; send
\* starts over for as long as it takes.
GiveUpReading ==
    /\ conn = "down" /\ reading
    /\ reading' = FALSE
    /\ UNCHANGED <<pc, fut, exc, outcome, booking, receipt, notified, failures,
                   linkVars, consumerVars, row, executorVars>>

LinkStep == Drop \/ Reconnect \/ GiveUpReading \/ ConsumerEnds

-----------------------------------------------------------------------------
(* Driver *)

\* Entering the client's context; no receipt is sent when that fails.
Connect ==
    /\ pc = "connect"
    /\ \/ /\ conn' = "up" /\ v2m' = <<"auth">>
          /\ pc' = "sendInitial"
          /\ NewConsumer
          /\ UNCHANGED <<exc, m2v, drops>>
       \/ /\ pc' = "fail" /\ exc' = "connection"
          /\ UNCHANGED <<linkVars, consumerVars>>
    /\ UNCHANGED <<fut, reading, outcome, booking, receipt, notified, failures, row, executorVars>>

\* send_model: retried until the connection is there, without a time limit.
Send(from, msg, to) ==
    /\ pc = from /\ conn = "up"
    /\ pc' = to
    /\ v2m' = Append(v2m, msg)
    /\ UNCHANGED <<fut, reading, exc, outcome, booking, receipt, notified, failures,
                   conn, m2v, drops, consumerVars, row, executorVars>>

\* The receipt that went with the initial request is not saved: the error leaves
\* execute_organic_job_on_miner from outside its try, without another receipt.
InitialNotRecorded ==
    /\ pc = "sendInitial" /\ conn = "up"
    /\ failures < MaxFailures /\ failures' = failures + 1
    /\ v2m' = Append(v2m, "initial")
    /\ pc' = "fail" /\ exc' = "error"
    /\ conn' = "closing"
    /\ UNCHANGED <<fut, reading, outcome, booking, receipt, notified, m2v, drops,
                   consumerVars, row, executorVars>>

\* Mutant of HandleMessage: a failed job completes job_finished_future.
FailureCompletesJob ==
    /\ conn = "up" /\ reading /\ m2v # <<>>
    /\ m2v' = Tail(m2v)
    /\ fut' = [s \in Stages |->
                 IF fut[s] = "pending" /\ (s = Head(m2v) \/ Head(m2v) = "jobFailed")
                 THEN "ok" ELSE fut[s]]
    /\ UNCHANGED <<pc, reading, exc, outcome, booking, receipt, notified, failures,
                   conn, v2m, drops, consumerVars, row, executorVars>>

\* OrganicMinerClient.handle_message: a future that is set stays as it is; a
\* failure goes to all that are not.
HandleMessage ==
    /\ conn = "up" /\ reading /\ m2v # <<>>
    /\ m2v' = Tail(m2v)
    /\ fut' = [s \in Stages |->
                 IF fut[s] # "pending" THEN fut[s]
                 ELSE IF s = Head(m2v) THEN "ok"
                 ELSE IF Head(m2v) \in Exceptions THEN Head(m2v)
                 ELSE "pending"]
    /\ UNCHANGED <<pc, reading, exc, outcome, booking, receipt, notified, failures,
                   conn, v2m, drops, consumerVars, row, executorVars>>

\* Where the driver goes once it has the answer of stage s.
After(s) ==
    CASE s = "accept" -> "sendAccepted"
      [] s = "ready" -> "sendJob"
      [] s = "volumes" -> IF Streaming THEN "streaming" ELSE "execution"
      [] s = "streaming" -> "execution"
      [] s = "execution" -> "finish"
      [] s = "finish" -> "sendPaid"

\* Mutant of StageDone: any answer, a failure too, counts as the stage's success.
StageDoneUnlessPending(s) ==
    /\ pc = s /\ fut[s] # "pending"
    /\ pc' = After(s)
    /\ notified' = IF s = "finish" THEN notified ELSE Append(notified, s)
    /\ UNCHANGED <<fut, reading, exc, outcome, booking, receipt, failures, linkVars,
                   consumerVars, row, executorVars>>

\* The answer is there; every stage but the last is reported at once, and an
\* error of the channel layer there fails the job.
StageDone(s) ==
    /\ pc = s /\ fut[s] = "ok"
    /\ \/ /\ pc' = After(s)
          /\ notified' = IF s = "finish" THEN notified ELSE Append(notified, s)
          /\ UNCHANGED <<exc, failures>>
       \/ /\ s # "finish"
          /\ failures < MaxFailures /\ failures' = failures + 1
          /\ pc' = "sendVoid" /\ exc' = "error"
          /\ UNCHANGED notified
    /\ UNCHANGED <<fut, reading, outcome, booking, receipt, linkVars, consumerVars,
                   row, executorVars>>

\* Nothing is under way that could still produce the answer.
Quiet ==
    /\ v2m = <<>> /\ m2v = <<>> /\ inbox = <<>> /\ task = "idle"
    /\ conn = "up" /\ reading
    /\ epc \in {"never", "finished", "failed"} \/ (epc = "download" /\ ~payload)

\* Mutant of StageFailed: the future is awaited without a time limit.
StageFailedNoTimeLimit(s) ==
    /\ pc = s /\ fut[s] \in Exceptions
    /\ exc' = fut[s]
    /\ pc' = "sendVoid"
    /\ UNCHANGED <<fut, reading, outcome, booking, receipt, notified, failures, linkVars,
                   consumerVars, row, executorVars>>

\* The answer is an exception, or it does not come in time and wait_for cancels
\* the future.
StageFailed(s) ==
    /\ pc = s
    /\ \/ fut[s] \in Exceptions /\ exc' = fut[s] /\ UNCHANGED fut
       \/ /\ fut[s] = "pending" /\ (Patient => Quiet)
          /\ exc' = "timeout" /\ fut' = [fut EXCEPT ![s] = "cancelled"]
    /\ pc' = "sendVoid"
    /\ UNCHANGED <<reading, outcome, booking, receipt, notified, failures, linkVars,
                   consumerVars, row, executorVars>>

\* send_job_finished_receipt_message, with the allowance blocks or with none,
\* and the client's context is left: the connection is closed.
SendReceipt(from, r, to) ==
    /\ pc = from /\ conn = "up"
    /\ pc' = to
    /\ receipt' = r
    /\ v2m' = Append(v2m, "receipt")
    /\ conn' = "closing"
    /\ UNCHANGED <<fut, reading, exc, outcome, booking, notified, failures, m2v, drops,
                   consumerVars, row, executorVars>>

\* spend_allowance; an error is logged.
Spend ==
    /\ pc = "spend"
    /\ pc' = "save"
    /\ \/ booking' = "spent" /\ UNCHANGED failures
       \/ failures < MaxFailures /\ failures' = failures + 1 /\ UNCHANGED booking
    /\ UNCHANGED <<fut, reading, exc, outcome, receipt, notified, linkVars, consumerVars,
                   row, executorVars>>

\* The result is saved and reported; an error here fails the job.
SaveSuccess ==
    /\ pc = "save"
    /\ \/ /\ pc' = "done" /\ outcome' = "completed"
          /\ notified' = Append(notified, "completed")
          /\ UNCHANGED <<exc, failures>>
       \/ /\ failures < MaxFailures /\ failures' = failures + 1
          /\ pc' = "fail" /\ exc' = "error"
          /\ outcome' \in {outcome, "completed"}
          /\ UNCHANGED notified
    /\ UNCHANGED <<fut, reading, booking, receipt, linkVars, consumerVars, row, executorVars>>

\* The except clauses: save, report.  A rejection for being busy may be excused.
\* An error in an except clause leaves drive_organic_job, past the undo.
SaveFailure ==
    /\ pc = "fail"
    /\ \/ /\ pc' = "undo"
          /\ \/ outcome' = "failed"
             \/ exc = "rejected" /\ outcome' = "excused"
          /\ notified' = Append(notified, exc)
          /\ UNCHANGED failures
       \/ /\ failures < MaxFailures /\ failures' = failures + 1
          /\ pc' = "done"
          /\ outcome' \in {outcome, "failed"}
          /\ UNCHANGED notified
    /\ UNCHANGED <<fut, reading, exc, booking, receipt, linkVars, consumerVars, row, executorVars>>

\* undo_allowance_reservation: a spent booking stays spent; errors are logged.
Undo ==
    /\ pc = "undo"
    /\ pc' = "done"
    /\ \/ booking' = (IF booking = "reserved" THEN "released" ELSE booking)
          /\ UNCHANGED failures
       \/ failures < MaxFailures /\ failures' = failures + 1 /\ UNCHANGED booking
    /\ UNCHANGED <<fut, reading, exc, outcome, receipt, notified, linkVars, consumerVars,
                   row, executorVars>>

\* The Celery time limit, or the machine, ends the worker.
WorkerKilled ==
    /\ pc \notin {"done", "killed"}
    /\ failures < MaxFailures /\ failures' = failures + 1
    /\ pc' = "killed"
    /\ conn' = CASE conn = "up" -> "closing" [] conn = "down" -> "closed" [] OTHER -> conn
    /\ UNCHANGED <<fut, reading, exc, outcome, booking, receipt, notified, v2m, m2v, drops,
                   consumerVars, row, executorVars>>

DriverStep ==
    \/ Connect
    \/ Send("sendInitial", "initial", "accept")
    \/ InitialNotRecorded
    \/ Send("sendAccepted", "acceptedReceipt", "ready")
    \/ Send("sendJob", "job", "volumes")
    \/ \E s \in Stages : StageDone(s) \/ StageFailed(s)
    \/ SendReceipt("sendPaid", "paid", "spend")
    \/ SendReceipt("sendVoid", "void", "fail")
    \/ Spend \/ SaveSuccess \/ SaveFailure \/ Undo

-----------------------------------------------------------------------------
(* Consumer: one event at a time *)

Free == conn \in {"up", "closing"} /\ task = "idle"
Received(m) == Free /\ auth /\ v2m # <<>> /\ Head(v2m) = m

\* What is sent on a connection the validator has closed is lost.
SendToValidator(m) == m2v' = IF conn = "up" THEN Append(m2v, m) ELSE m2v

\* handle_authentication: the readiness that connect deferred is sent now.
HandleAuthentication ==
    /\ Free /\ v2m # <<>> /\ Head(v2m) = "auth"
    /\ v2m' = Tail(v2m)
    /\ auth' = TRUE /\ deferred' = FALSE
    /\ IF deferred THEN SendToValidator("ready") ELSE UNCHANGED m2v
    /\ UNCHANGED <<driverVars, conn, drops, joined, task, pending, seen, inbox, row,
                   executorVars>>

\* handle, before authentication: the message goes to msg_queue, which only
\* handle_authentication empties, and that message is always the first.
HandleUnauthenticated ==
    /\ Free /\ ~auth /\ v2m # <<>> /\ Head(v2m) # "auth"
    /\ v2m' = Tail(v2m)
    /\ UNCHANGED <<driverVars, conn, m2v, drops, consumerVars, row, executorVars>>

\* handle_initial_job_request, up to the reservation.
HandleInitialJobRequest ==
    /\ Received("initial")
    /\ v2m' = Tail(v2m)
    /\ \/ /\ SendToValidator("rejected")       \* a blacklisted validator
          /\ UNCHANGED <<joined, row, pending, task>>
       \/ /\ joined' = TRUE
          /\ row' = "waitExecutor" /\ pending' = "waitExecutor"
          /\ task' = "reserving"
          /\ UNCHANGED m2v
    /\ UNCHANGED <<driverVars, conn, drops, auth, deferred, seen, inbox, executorVars>>

\* The executor is reserved, and may start and connect from now on.
ReservationDone ==
    /\ task = "reserving"
    /\ SendToValidator("accept")
    /\ task' = "spinup"
    /\ epc' = "off"
    /\ UNCHANGED <<driverVars, conn, v2m, drops, auth, deferred, joined, pending,
                   seen, inbox, row, payload>>

\* AllExecutorsBusy or ExecutorUnavailable.
GiveUpJob(r, m) ==
    /\ row' = r /\ pending' = "none" /\ joined' = FALSE
    /\ task' = "idle"
    /\ SendToValidator(m)
    /\ epc' = "never"
    /\ UNCHANGED <<driverVars, conn, v2m, drops, auth, deferred, seen, inbox, payload>>

AllExecutorsBusy == task = "reserving" /\ GiveUpJob("rejectedJob", "rejected")
ExecutorUnavailable == task = "spinup" /\ epc = "off" /\ GiveUpJob("failed", "hordeFailed")

\* The executor has started.  The whole row is saved, with the status that the
\* job had when the request came.
SaveAddress ==
    /\ task = "spinup"
    /\ row' = pending
    /\ task' = "idle"
    /\ UNCHANGED <<driverVars, linkVars, auth, deferred, joined, pending, seen, inbox,
                   executorVars>>

\* handle_job_request: the payload goes to the executor, if it is connected, and
\* then the row is saved; a job that is not pending is answered with an error.
HandleJobRequest ==
    /\ Received("job")
    /\ v2m' = Tail(v2m)
    /\ IF pending = "none"
       THEN UNCHANGED <<task, payload>>
       ELSE /\ payload' = (epc = "download")
            /\ task' = "saveRunning"
    /\ UNCHANGED <<driverVars, conn, m2v, drops, auth, deferred, joined, pending, seen,
                   inbox, row, epc>>

SaveRunning ==
    /\ task = "saveRunning"
    /\ row' = "running" /\ pending' = "running"
    /\ task' = "idle"
    /\ UNCHANGED <<driverVars, linkVars, auth, deferred, joined, seen, inbox, executorVars>>

\* handle_job_accepted_receipt only stores the receipt.
HandleAcceptedReceipt ==
    /\ Received("acceptedReceipt")
    /\ v2m' = Tail(v2m)
    /\ UNCHANGED <<driverVars, conn, m2v, drops, consumerVars, row, executorVars>>

\* handle_job_finished_receipt reads the row, and saves all of it.  Without a row
\* the handler fails, and nothing is left to handle.
HandleFinishedReceipt ==
    /\ Received("receipt")
    /\ v2m' = Tail(v2m)
    /\ IF row = "none"
       THEN UNCHANGED <<task, seen>>
       ELSE seen' = row /\ task' = "saveReceipt"
    /\ UNCHANGED <<driverVars, conn, m2v, drops, auth, deferred, joined, pending, inbox,
                   row, executorVars>>

SaveReceipt ==
    /\ task = "saveReceipt"
    /\ row' = seen
    /\ task' = "idle"
    /\ UNCHANGED <<driverVars, linkVars, auth, deferred, joined, pending, seen, inbox,
                   executorVars>>

\* Mutant of HandleGroupMessage: the end of the execution pops the job as well.
PopAfterExecution ==
    /\ Free /\ inbox # <<>>
    /\ inbox' = Tail(inbox)
    /\ SendToValidator(Head(inbox))
    /\ pending' = CASE Head(inbox) = "ready" -> row
                    [] Head(inbox) \in TerminalMessages \cup {"execution"} -> "none"
                    [] OTHER -> pending
    /\ UNCHANGED <<driverVars, conn, v2m, drops, auth, deferred, joined, task, seen, row,
                   executorVars>>

\* A message of the executor: _executor_ready reads the row again, the messages
\* that end a job pop it from pending_jobs.
HandleGroupMessage ==
    /\ Free /\ inbox # <<>>
    /\ inbox' = Tail(inbox)
    /\ SendToValidator(Head(inbox))
    /\ pending' = CASE Head(inbox) = "ready" -> row
                    [] Head(inbox) \in TerminalMessages -> "none"
                    [] OTHER -> pending
    /\ UNCHANGED <<driverVars, conn, v2m, drops, auth, deferred, joined, task, seen, row,
                   executorVars>>

ConsumerStep ==
    \/ HandleAuthentication \/ HandleUnauthenticated
    \/ HandleInitialJobRequest \/ ReservationDone \/ AllExecutorsBusy
    \/ ExecutorUnavailable \/ SaveAddress
    \/ HandleJobRequest \/ SaveRunning
    \/ HandleAcceptedReceipt \/ HandleFinishedReceipt \/ SaveReceipt
    \/ HandleGroupMessage

-----------------------------------------------------------------------------
(* Executor, and the consumer that relays for it *)

ExecutorStages == {"startup", "download", "starting", "execution", "upload"}
ExecutorPlaces == ExecutorStages \cup {"none", "off", "never", "finished", "failed"}

\* Only a validator's consumer in the group gets the message.
Relay(m) == inbox' = IF joined THEN Append(inbox, m) ELSE inbox

\* MinerExecutorConsumer.connect: only a job that waits for its executor.
ExecutorConnects ==
    /\ epc = "off" /\ row = "waitExecutor"
    /\ epc' = "startup"
    /\ UNCHANGED <<driverVars, linkVars, consumerVars, row, payload>>

\* JobDriver leaves stage `from` with message m, for which the row is saved as r.
ExecutorReports(from, m, to, r) ==
    /\ epc = from
    /\ epc' = to
    /\ row' = r
    /\ Relay(m)
    /\ UNCHANGED <<driverVars, linkVars, auth, deferred, joined, task, pending, seen,
                   payload>>

\* The stages of JobDriver._execute; the download waits for the full request.
StageReported ==
    \/ ExecutorReports("startup", "ready", "download", "waitPayload")
    \/ payload /\ ExecutorReports("download", "volumes",
                                  IF Streaming THEN "starting" ELSE "execution", row)
    \/ ExecutorReports("starting", "streaming", "execution", row)
    \/ ExecutorReports("execution", "execution", "upload", row)
    \/ ExecutorReports("upload", "finish", "finished", "finished")

\* A JobError (deadlines included), any other error, or a lost executor.
ExecutorFails ==
    \E s \in ExecutorStages, m \in {"jobFailed", "hordeFailed"} :
        ExecutorReports(s, m, "failed", "failed")

ExecutorStep == ExecutorConnects \/ StageReported \/ ExecutorFails

-----------------------------------------------------------------------------
Init ==
    /\ pc = "connect" /\ fut = [s \in Stages |-> "pending"] /\ reading = TRUE
    /\ exc = "none" /\ outcome = "pending" /\ booking = "reserved"
    /\ receipt = "none" /\ notified = <<>> /\ failures = 0
    /\ conn = "new" /\ v2m = <<>> /\ m2v = <<>> /\ drops = 0
    /\ auth = FALSE /\ deferred = FALSE /\ joined = FALSE /\ task = "idle"
    /\ pending = "none" /\ seen = "none" /\ inbox = <<>>
    /\ row = "none"
    /\ epc = "none" /\ payload = FALSE

Next ==
    \/ LinkStep
    \/ DriverStep \/ HandleMessage \/ WorkerKilled
    \/ ConsumerStep
    \/ ExecutorStep

\* The driver's coroutine runs, with its time limits; a lost connection that can
\* be opened again is.  Nothing is assumed of the miner or of the executor.
Fairness == WF_vars(DriverStep) /\ WF_vars(Reconnect)

Spec == Init /\ [][Next]_vars /\ Fairness

-----------------------------------------------------------------------------
(* Properties *)

\* A receipt that names allowance blocks is only ever sent for a job whose
\* executor finished, and so is COMPLETED: late failures, cancelled futures and
\* reconnections never turn another job into a paid one.
PaidJobsFinished ==
    receipt = "paid" \/ outcome = "completed" => epc = "finished"

\* The blocks that a receipt names are not given back by drive_organic_job, even
\* when one step after the receipt fails and the failure path runs to its undo.
PaidBlocksStayBooked == receipt = "paid" => booking # "released"

\* spend_allowance and undo_allowance_reservation between them: only a job the
\* executor finished is paid for, and the blocks that paid it stay booked
\* whatever the worker still does, whichever of its steps fails.
PaymentIsEarned ==
    /\ PaidJobsFinished
    /\ PaidBlocksStayBooked


\* How far the executor is when the stage has been reported by it.
Passed(s) ==
    CASE s = "accept" -> ExecutorPlaces \ {"none"}
      [] s = "ready" -> ExecutorStages \ {"startup"}
      [] s = "volumes" -> {"starting", "execution", "upload"}
      [] s = "streaming" -> {"execution", "upload"}
      [] s = "execution" -> {"upload"}

\* The stages that a job goes through.
ExpectedStages ==
    IF Streaming THEN StageOrder
    ELSE <<"accept", "ready", "volumes", "execution", "finish">>

\* A stage reported to the facilitator is one that the executor had reached (a
\* failure may have followed), and the reports start with the job's first n
\* stages, in their order, without another one after the job's end: messages
\* lost or repeated by a reconnection never make the driver run ahead.
ReportedStagesReached ==
    /\ \E n \in 0 .. Len(ExpectedStages) :
        /\ n <= Len(notified)
        /\ \A i \in 1 .. n : notified[i] = ExpectedStages[i]
        /\ \A i \in n + 1 .. Len(notified) : notified[i] \notin Stages
    /\ \A s \in Range(notified) \cap Stages : epc \in Passed(s) \cup {"finished", "failed"}

\* _executor_finished, _job_failed and _horde_failed pop the job from pending_jobs
\* and would end the connection with a KeyError if it were not there: whatever
\* consumer gets the message that ends a job still has the job.
EndingJobIsPending ==
    inbox # <<>> /\ Head(inbox) \in TerminalMessages => pending # "none"

\* The booking made for the job is spent or given back in the end, unless a step
\* of the validator itself failed on the way.
BookingSettled == <>(booking # "reserved" \/ failures > 0)

\* Once the row is in an end state its status does not change: what end_states()
\* says of the miner's AcceptedJob.
EndStatesAreFinal == [][(row \in EndStates) => (row' = row)]_vars
=============================================================================
