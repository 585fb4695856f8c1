----------------------------- MODULE ExecutorPool -----------------------------
(***************************************************************************)
(* A miner's pool of executors of one class (ExecutorClassPool) and the    *)
(* handler that uses it (MinerValidatorConsumer.handle_initial_job_request)*)
(* in one asyncio event loop: an action is what runs between two awaits.   *)
(*                                                                         *)
(* Each job has a token and two coroutines.  The handler creates a task,   *)
(* the reserver, that reserves AND starts the executor, and then waits     *)
(* only for the reservation, through a future kept in a dictionary under   *)
(* the token.  Whoever asks first creates the future, and a timer deletes  *)
(* it from the dictionary ten seconds later.                               *)
(***************************************************************************)
EXTENDS Integers, FiniteSets, FiniteSetsExt, Sequences

CONSTANTS
    Tokens,     \* executor tokens, one per job
    Counts,     \* executor counts the manifest may announce
    Prompts,    \* the values of prompt
    NoToken     \* nobody holds a lock

ASSUME PoolConstants ==
    /\ Counts \subseteq Nat /\ Counts # {} /\ Prompts \subseteq BOOLEAN
    /\ NoToken \notin Tokens /\ "loop" \notin Tokens

VARIABLES
    prompt,      \* reservations are decided within the future's ten seconds, and
                 \* the vendor's calls in a cleanup do not raise
    count,       \* _count
    announced,   \* history: the largest count so far
    executors,   \* _executors
    containers,  \* executors that run, whether the pool knows them or not
    orphans,     \* containers whose start was cancelled halfway
    reserver,    \* where each token's reserve_executor task is
    handler,     \* where each token's handle_initial_job_request is
    futures,     \* per token, the futures ever created and their outcome
    dict,        \* _reservation_futures: index into futures, or 0
    awaited,     \* the future the handler awaits, or 0
    rlock,       \* holder of _reservation_lock
    clock,       \* holder of _pool_cleanup_lock: a token or "loop"
    checked      \* executors the running _pool_cleanup looks at

poolVars == <<prompt, count, announced, executors, containers, orphans, rlock, clock, checked>>
futureVars == <<futures, dict, awaited>>
executorPoolVars == <<prompt, count, announced, executors, containers, orphans, reserver, handler,
                      futures, dict, awaited, rlock, clock, checked>>

\* get_availability, with the count the manifest announced last.
Availability(n) == Max({0, n - Cardinality(executors)})

\* _sync_pools_with_manifest: the pool takes the count of the latest manifest.
SyncCount == count' \in Counts /\ announced' = Max({announced, count'})

-----------------------------------------------------------------------------
(* Reservation futures *)

\* _reservation_future: the future of a token, created when it is absent.
FutureOf(t) == IF dict[t] = 0 THEN Len(futures[t]) + 1 ELSE dict[t]

\* The token's futures after future f was created, if it had to be, and given
\* the outcome o.
WithFuture(t, f, o) ==
    IF f > Len(futures[t]) THEN Append(futures[t], o)
    ELSE [futures[t] EXCEPT ![f] = IF o = "pending" THEN @ ELSE o]

\* clear(): ten seconds after its creation the future leaves the dictionary.
\* The handler, which only has the manifest to read first, asked for it by then;
\* the reserver, which waits for locks and for Docker, may be later.
ClearFuture(t) ==
    /\ dict[t] # 0 /\ awaited[t] # 0
    /\ prompt => futures[t][dict[t]] # "pending"
    /\ dict' = [dict EXCEPT ![t] = 0]
    /\ UNCHANGED <<poolVars, reserver, handler, futures, awaited>>

-----------------------------------------------------------------------------
(* handle_initial_job_request *)

\* A job request arrives; the handler creates the reserver task.
ReceiveJob(t) ==
    /\ handler[t] = "idle"
    /\ handler' = [handler EXCEPT ![t] = "created"]
    /\ reserver' = [reserver EXCEPT ![t] = "created"]
    /\ UNCHANGED <<poolVars, futureVars>>

\* wait_for_executor_reservation: the pool is synced with the manifest, then
\* the future is awaited.
AwaitReservation(t) ==
    LET f == FutureOf(t) IN
    /\ handler[t] = "created"
    /\ SyncCount
    /\ futures' = [futures EXCEPT ![t] = WithFuture(t, f, "pending")]
    /\ dict' = [dict EXCEPT ![t] = f]
    /\ awaited' = [awaited EXCEPT ![t] = f]
    /\ handler' = [handler EXCEPT ![t] = "waiting"]
    /\ UNCHANGED <<prompt, executors, containers, orphans, reserver, rlock, clock, checked>>

\* The future has an outcome: the job is accepted, or declined as busy.
ReservationDecided(t) ==
    /\ handler[t] = "waiting"
    /\ \/ /\ futures[t][awaited[t]] = "reserved"
          /\ handler' = [handler EXCEPT ![t] = "accepted"]
       \/ /\ futures[t][awaited[t]] = "busy"
          /\ handler' = [handler EXCEPT ![t] = "declined"]
    /\ UNCHANGED <<poolVars, reserver, futureVars>>

\* The validator is gone when the acceptance is sent: the handler's finally
\* clause cancels the reserver, which may be starting the executor.
AcceptNotSent(t) ==
    /\ handler[t] = "waiting"
    /\ futures[t][awaited[t]] = "reserved"
    /\ handler' = [handler EXCEPT ![t] = "crashed"]
    /\ IF reserver[t] = "starting"
       THEN /\ reserver' = [reserver EXCEPT ![t] = "cancelled"]
            /\ rlock' = NoToken
            /\ \/ UNCHANGED <<containers, orphans>>
               \/ containers' = containers \cup {t} /\ orphans' = orphans \cup {t}
       ELSE UNCHANGED <<reserver, rlock, containers, orphans>>
    /\ UNCHANGED <<prompt, count, announced, executors, clock, checked, futureVars>>

\* The accepted job's executor is up, or failed to start.
SpinupDone(t) ==
    /\ handler[t] = "accepted"
    /\ \/ /\ reserver[t] = "done"
          /\ handler' = [handler EXCEPT ![t] = "running"]
       \/ /\ reserver[t] = "unavailable"
          /\ handler' = [handler EXCEPT ![t] = "failed"]
    /\ UNCHANGED <<poolVars, reserver, futureVars>>

-----------------------------------------------------------------------------
(* ExecutorClassPool.reserve_executor *)

\* reserve_executor_class syncs the pool with the manifest; a full pool is
\* cleaned up first.
EnterReserve(t) ==
    /\ reserver[t] = "created"
    /\ SyncCount
    /\ reserver' = [reserver EXCEPT ![t] =
                        IF Availability(count') = 0 THEN "cleanup" ELSE "lock"]
    /\ UNCHANGED <<prompt, executors, containers, orphans, handler, rlock,
                   clock, checked, futureVars>>

\* Mutant of TakeReservationLock: the lock is gone.
ReserveWithoutLock(t) ==
    LET f == FutureOf(t)
        free == Availability(count) > 0
    IN  /\ reserver[t] = "lock"
        /\ futures' = [futures EXCEPT ![t] =
                          WithFuture(t, f, IF free THEN "reserved" ELSE "busy")]
        /\ dict' = [dict EXCEPT ![t] = f]
        /\ reserver' = [reserver EXCEPT ![t] = IF free THEN "starting" ELSE "busy"]
        /\ UNCHANGED <<prompt, count, announced, executors, containers, orphans, handler, awaited,
                       rlock, clock, checked>>

\* Mutant of TakeReservationLock: AllExecutorsBusy is raised, but not through
\* the future.
BusyNotTold(t) ==
    LET f == FutureOf(t)
        free == Availability(count) > 0
    IN  /\ reserver[t] = "lock"
        /\ rlock = NoToken
        /\ futures' = [futures EXCEPT ![t] =
                          WithFuture(t, f, IF free THEN "reserved" ELSE "pending")]
        /\ dict' = [dict EXCEPT ![t] = f]
        /\ reserver' = [reserver EXCEPT ![t] = IF free THEN "starting" ELSE "busy"]
        /\ rlock' = IF free THEN t ELSE NoToken
        /\ UNCHANGED <<prompt, count, announced, executors, containers, orphans, handler,
                       awaited, clock, checked>>

\* The reservation lock is held until the executor has started.
TakeReservationLock(t) ==
    LET f == FutureOf(t)
        free == Availability(count) > 0
    IN  /\ reserver[t] = "lock"
        /\ rlock = NoToken
        /\ futures' = [futures EXCEPT ![t] =
                          WithFuture(t, f, IF free THEN "reserved" ELSE "busy")]
        /\ dict' = [dict EXCEPT ![t] = f]
        /\ reserver' = [reserver EXCEPT ![t] = IF free THEN "starting" ELSE "busy"]
        /\ rlock' = IF free THEN t ELSE NoToken
        /\ UNCHANGED <<prompt, count, announced, executors, containers, orphans, handler,
                       awaited, clock, checked>>

\* start_new_executor returned, and the executor joins the pool.
ExecutorStarted(t) ==
    /\ reserver[t] = "starting"
    /\ reserver' = [reserver EXCEPT ![t] = "done"]
    /\ executors' = executors \cup {t}
    /\ containers' = containers \cup {t}
    /\ rlock' = NoToken
    /\ UNCHANGED <<prompt, count, announced, orphans, handler, clock, checked, futureVars>>

\* start_new_executor raised: ExecutorUnavailable.
ExecutorNotStarted(t) ==
    /\ reserver[t] = "starting"
    /\ reserver' = [reserver EXCEPT ![t] = "unavailable"]
    /\ rlock' = NoToken
    /\ UNCHANGED <<prompt, count, announced, executors, containers, orphans, handler,
                   clock, checked, futureVars>>

-----------------------------------------------------------------------------
(* _pool_cleanup, forced by a reserver or run by _pool_cleanup_loop *)

StartCleanup(a) ==
    /\ clock = NoToken
    /\ \/ a \in Tokens /\ reserver[a] = "cleanup"
       \/ a = "loop" /\ executors # {}
    /\ clock' = a
    /\ checked' = executors
    /\ UNCHANGED <<prompt, count, announced, executors, containers, orphans, reserver,
                   handler, rlock, futureVars>>

\* All checks returned: what exited or was killed for its age is dropped from
\* the pool as it is now, which may have grown since the checks started.
EndCleanup(a) ==
    \E killed \in SUBSET (checked \cap containers) :
        /\ clock = a
        /\ clock' = NoToken
        /\ checked' = {}
        /\ containers' = containers \ killed
        /\ executors' = executors \ {e \in checked : e \notin containers \/ e \in killed}
        /\ reserver' = IF a = "loop" THEN reserver ELSE [reserver EXCEPT ![a] = "lock"]
        /\ UNCHANGED <<prompt, count, announced, orphans, handler, rlock, futureVars>>

\* One check raised: nothing is dropped.  The loop logs it; in a reserver the
\* exception ends the task before it reaches the future.
FailCleanup(a) ==
    \E killed \in SUBSET (checked \cap containers) :
        /\ ~prompt
        /\ clock = a
        /\ clock' = NoToken
        /\ checked' = {}
        /\ containers' = containers \ killed
        /\ reserver' = IF a = "loop" THEN reserver ELSE [reserver EXCEPT ![a] = "raised"]
        /\ UNCHANGED <<prompt, count, announced, executors, orphans, handler, rlock, futureVars>>

\* An executor finishes its job and exits.
ContainerExits(t) ==
    /\ t \in containers
    /\ containers' = containers \ {t}
    /\ orphans' = orphans \ {t}
    /\ UNCHANGED <<prompt, count, announced, executors, reserver, handler, rlock,
                   clock, checked, futureVars>>

-----------------------------------------------------------------------------
PoolInit ==
    /\ prompt \in Prompts
    /\ count \in Counts /\ announced = count
    /\ executors = {} /\ containers = {} /\ orphans = {}
    /\ reserver = [t \in Tokens |-> "idle"]
    /\ handler = [t \in Tokens |-> "idle"]
    /\ futures = [t \in Tokens |-> <<>>]
    /\ dict = [t \in Tokens |-> 0]
    /\ awaited = [t \in Tokens |-> 0]
    /\ rlock = NoToken /\ clock = NoToken /\ checked = {}

HandlerStep(t) == AwaitReservation(t) \/ ReservationDecided(t) \/ SpinupDone(t)
ReserverStep(t) == EnterReserve(t) \/ TakeReservationLock(t)
StartStep(t) == ExecutorStarted(t) \/ ExecutorNotStarted(t)
CleanupStep(a) == StartCleanup(a) \/ EndCleanup(a) \/ FailCleanup(a)

PoolNext ==
    \/ \E t \in Tokens :
          \/ ReceiveJob(t) \/ HandlerStep(t) \/ AcceptNotSent(t)
          \/ ReserverStep(t) \/ StartStep(t)
          \/ ClearFuture(t) \/ ContainerExits(t)
    \/ \E a \in Tokens \cup {"loop"} : CleanupStep(a)

\* The event loop runs every ready coroutine, a lock is granted in the order
\* it was asked for, and a start or a cleanup ends.
PoolFairness ==
    /\ \A t \in Tokens :
        /\ WF_executorPoolVars(HandlerStep(t)) /\ SF_executorPoolVars(ReserverStep(t))
        /\ WF_executorPoolVars(StartStep(t)) /\ SF_executorPoolVars(CleanupStep(t))
    /\ WF_executorPoolVars(EndCleanup("loop") \/ FailCleanup("loop"))

PoolSpec == PoolInit /\ [][PoolNext]_executorPoolVars /\ PoolFairness

-----------------------------------------------------------------------------
(* Properties *)

Starting == {t \in Tokens : reserver[t] = "starting"}

\* The check of the free executors and the start that follows it, which waits
\* for Docker, are one step to the other reservers: executors that run, were
\* not orphaned by a cancelled start, or are being started never outnumber the
\* largest count announced so far.
NoOvercommit == Cardinality((containers \ orphans) \cup executors \cup Starting) <= announced

\* A validator that was told its job is accepted has an executor reserved, and
\* the one that was declined has none, now or later.
AnswerMatchesReservation ==
    \A t \in Tokens :
        /\ handler[t] \in {"accepted", "running", "failed"} =>
               reserver[t] \in {"starting", "done", "unavailable"}
        /\ handler[t] = "declined" => reserver[t] = "busy" /\ t \notin containers

\* An executor that runs and was started to the end is known to the pool, so
\* the cleanup will see it exit or kill it.
RunningIsTracked == containers \ orphans \subseteq executors

\* The pool's promise across the waits of its coroutines: no more executors
\* than were announced, a reservation behind every acceptance and none behind
\* a refusal, and no running executor that the cleanup does not know.
PoolIsSound ==
    /\ NoOvercommit
    /\ AnswerMatchesReservation
    /\ RunningIsTracked


\* base.py, wait_for_executor_reservation: "Resolves as soon as the executor is
\* reserved - before it's launched.  If there are no free executors, raises
\* AllExecutorsBusy."  The handler, and with it the validator's connection,
\* does not wait forever.
ReservationIsAnswered ==
    \A t \in Tokens : handler[t] = "waiting" ~> handler[t] # "waiting"

\* The same, when reservations are decided while their future is kept and no
\* cleanup raises: locks, forced cleanups and cancelled starts alone leave no
\* handler waiting.
PromptReservationIsAnswered ==
    \A t \in Tokens : (prompt /\ handler[t] = "waiting") ~> handler[t] # "waiting"
=============================================================================
