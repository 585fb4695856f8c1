--------------------------- MODULE AnswerDownload ---------------------------
(***************************************************************************)
(* Downloading the answers of a batch's LLM jobs (batch_run.py): a pool of *)
(* workers takes tasks from one queue and puts a task whose download       *)
(* failed back, until it has been tried often enough.                      *)
(***************************************************************************)
EXTENDS Integers, Sequences, FiniteSets

CONSTANTS
  Downloads,    \* jobs whose answers are downloaded
  Pool,         \* the workers (at most _LLM_ANSWERS_DOWNLOAD_MAX_WORKERS)
  MaxAttempts   \* _LLM_ANSWERS_DOWNLOAD_MAX_ATTEMPTS

ASSUME DownloadAssumption ==
  MaxAttempts \in Nat \ {0} /\ IsFiniteSet(Downloads) /\ IsFiniteSet(Pool)

VARIABLES
  queue,     \* the asyncio queue
  attempt,   \* job -> failed attempts
  answers,   \* job -> "none", "good", or "failed" after the last attempt
  hand       \* worker -> the task it holds, or its state

downloadVars == <<queue, attempt, answers, hand>>

DownloadInit ==
  /\ queue \in {q \in [1..Cardinality(Downloads) -> Downloads] :
                  \A i, k \in DOMAIN q : i # k => q[i] # q[k]}
  /\ attempt = [d \in Downloads |-> 0]
  /\ answers = [d \in Downloads |-> "none"]
  /\ hand = [w \in Pool |-> <<"idle">>]

\* queue.get_nowait(): a task, or the worker leaves its loop.
TakeTask(w) ==
  /\ hand[w] = <<"idle">>
  /\ IF queue = <<>>
     THEN hand' = [hand EXCEPT ![w] = <<"exited">>] /\ queue' = queue
     ELSE hand' = [hand EXCEPT ![w] = <<"task", Head(queue)>>] /\ queue' = Tail(queue)
  /\ UNCHANGED <<attempt, answers>>

Downloaded(w, d) ==
  /\ hand[w] = <<"task", d>>
  /\ answers' = [answers EXCEPT ![d] = "good"]
  /\ hand' = [hand EXCEPT ![w] = <<"idle">>]
  /\ UNCHANGED <<queue, attempt>>

\* Mutant of HttpError: the worker leaves after putting the task back.
HttpErrorLeaves(w, d) ==
  /\ hand[w] = <<"task", d>>
  /\ attempt' = [attempt EXCEPT ![d] = @ + 1]
  /\ hand' = [hand EXCEPT ![w] = <<"exited">>]
  /\ IF attempt'[d] < MaxAttempts
     THEN queue' = Append(queue, d) /\ answers' = answers
     ELSE answers' = [answers EXCEPT ![d] = "failed"] /\ queue' = queue

\* httpx.HTTPError: put back, or given up after the last attempt.
HttpError(w, d) ==
  /\ hand[w] = <<"task", d>>
  /\ attempt' = [attempt EXCEPT ![d] = @ + 1]
  /\ hand' = [hand EXCEPT ![w] = <<"idle">>]
  /\ IF attempt'[d] < MaxAttempts
     THEN queue' = Append(queue, d) /\ answers' = answers
     ELSE answers' = [answers EXCEPT ![d] = "failed"] /\ queue' = queue

\* Any other exception, as for answers that are no valid JSON, ends the worker.
OtherError(w, d) ==
  /\ hand[w] = <<"task", d>>
  /\ hand' = [hand EXCEPT ![w] = <<"dead">>]
  /\ UNCHANGED <<queue, attempt, answers>>

DownloadNext ==
  \E w \in Pool :
    \/ TakeTask(w)
    \/ \E d \in Downloads : Downloaded(w, d) \/ HttpError(w, d) \/ OtherError(w, d)

DownloadSpec == DownloadInit /\ [][DownloadNext]_downloadVars

\* "The worker putting it back should still be alive, so the task will not be
\* ignored": once every worker has stopped no task is left in the queue, unless
\* each of them died of the answers of some job.
NoDownloadIgnored ==
  (\A w \in Pool : hand[w] \in {<<"exited">>, <<"dead">>}) =>
    (queue = <<>> \/ \A w \in Pool : hand[w] = <<"dead">>)
=============================================================================
