-------------------------- MODULE OrganicJobProofs --------------------------
(***************************************************************************)
(* Proofs about one organic job, for any number of broken connections and  *)
(* of failures of the validator, with and without streaming, whether or    *)
(* not the miner can be reached again.                                     *)
(***************************************************************************)
EXTENDS OrganicJob, TLAPS

-----------------------------------------------------------------------------
(* The inductive invariant *)

Messages == Stages \cup Exceptions
Reports == Messages \cup {"none", "connection", "error", "timeout", "completed"}
FutureValues == {"pending", "ok", "cancelled"} \cup Exceptions
Requests == {"auth", "initial", "acceptedReceipt", "job", "receipt"}

\* The messages that can be under way, the executor being where it is.
Sendable ==
    {m \in Messages :
        /\ m = "finish" => epc = "finished"
        /\ m \in Stages \ {"finish"} => epc \in Passed(m) \cup {"finished", "failed"}}

\* What the driver's variables hold.
JobTypes ==
    /\ fut \in [Stages -> FutureValues]
    /\ exc \in Reports \ Stages
    /\ notified \in Seq(Reports)
    /\ failures \in Nat
    /\ v2m \in Seq(Requests)

HasInitial(q) == \E i \in 1 .. Len(q) : q[i] = "initial"
AtMostOneInitial(q) == \A i, j \in 1 .. Len(q) : q[i] = "initial" /\ q[j] = "initial" => i = j

\* The request for the executor is made once, and handled at most once.
OneReservation ==
    /\ pc \in {"connect", "sendInitial"} => row = "none" /\ ~HasInitial(v2m)
    /\ AtMostOneInitial(v2m)
    /\ HasInitial(v2m) => row = "none"
    /\ row = "none" => epc = "none" /\ task = "idle" /\ pending = "none"
    /\ task = "reserving" => epc = "none"
    /\ task \in {"reserving", "spinup"} => pending # "none"
    /\ task = "saveReceipt" => seen # "none"

\* Every message under way, every future that is set and every stage reported
\* is about something the executor had done; so is a copy of the row.
MessagesBacked ==
    /\ m2v \in Seq(Sendable) /\ inbox \in Seq(Sendable)
    /\ \A s \in Stages : fut[s] = "ok" => s \in Sendable
    /\ \A i \in 1 .. Len(notified) : notified[i] \in Stages =>
           notified[i] \in Sendable \ {"finish"}
    /\ row = "waitPayload" \/ pending = "waitPayload" \/ seen = "waitPayload" \/ deferred =>
           "ready" \in Sendable

\* The executor's last message is the last one of the group, and who gets it
\* has the job.
LastMessage ==
    /\ epc \in {"none", "off", "never"} => inbox = <<>>
    /\ joined => pending # "none" \/ epc \in {"finished", "failed"}
    /\ \A i \in 1 .. Len(inbox) : inbox[i] \in TerminalMessages =>
           i = Len(inbox) /\ pending # "none" /\ epc \in {"finished", "failed"}

\* What the driver pays for, and how many of its steps failed when a booking is
\* left behind a receipt that names its blocks.
PaymentOrder ==
    /\ pc \in {"sendPaid", "spend", "save"} \/ receipt = "paid" \/ outcome = "completed" =>
           fut["finish"] = "ok"
    /\ receipt = "paid" => pc \in {"spend", "save", "fail", "undo", "done", "killed"}
    /\ booking = "released" => pc = "done"
    /\ receipt = "paid" /\ booking = "reserved" =>
           /\ pc = "save" => failures >= 1
           /\ pc \in {"fail", "undo"} => failures >= 2
    /\ receipt = "paid" /\ booking = "released" => failures >= 2

\* The stages that were reported when the driver is at p.
Told(p) ==
    CASE p \in {"connect", "sendInitial", "accept"} -> 0
      [] p \in {"sendAccepted", "ready"} -> 1
      [] p \in {"sendJob", "volumes"} -> 2
      [] p = "streaming" -> 3
      [] p = "execution" -> IF Streaming THEN 4 ELSE 3
      [] OTHER -> IF Streaming THEN 5 ELSE 4

Underway == {"connect", "sendInitial", "accept", "sendAccepted", "ready", "sendJob", "volumes",
             "streaming", "execution", "finish", "sendPaid", "spend", "save"}

\* The reports start with the job's first n stages, and no stage follows.
StartsWith(told, n) ==
    /\ n <= Len(told)
    /\ \A i \in 1 .. n : told[i] = ExpectedStages[i]
    /\ \A i \in n + 1 .. Len(told) : told[i] \notin Stages

\* The reports are those of the stages before the one the driver is in.
ReportOrder ==
    /\ pc = "streaming" => Streaming
    /\ pc \in Underway => StartsWith(notified, Told(pc)) /\ Len(notified) = Told(pc)
    /\ \E n \in 0 .. Len(ExpectedStages) : StartsWith(notified, n)

JobInv ==
    /\ JobTypes
    /\ OneReservation
    /\ MessagesBacked
    /\ LastMessage
    /\ PaymentOrder
    /\ ReportOrder

-----------------------------------------------------------------------------
(* Facts about the parts of Next *)

\* The names of the stages.
LEMMA StageNames ==
    Stages = {"accept", "ready", "volumes", "streaming", "execution", "finish"}
BY DEF Stages, StageOrder, Range

\* A job has five stages, or six.
LEMMA ExpectedLength ==
    /\ Len(ExpectedStages) = IF Streaming THEN 6 ELSE 5
    /\ ExpectedStages[1] = "accept" /\ ExpectedStages[2] = "ready" /\ ExpectedStages[3] = "volumes"
    /\ Streaming => ExpectedStages[4] = "streaming" /\ ExpectedStages[5] = "execution"
    /\ ~Streaming => ExpectedStages[4] = "execution"
BY DEF ExpectedStages, StageOrder

\* Neither the link nor the miner changes what the driver decided.
LEMMA DriverUntouched ==
    ASSUME LinkStep \/ ConsumerStep \/ ExecutorStep
    PROVE  UNCHANGED <<pc, fut, exc, outcome, booking, receipt, notified, failures>>
<1>1. CASE LinkStep
  BY <1>1 DEF LinkStep, Drop, Reconnect, GiveUpReading, ConsumerEnds, driverVars
<1>2. CASE ConsumerStep
  BY <1>2 DEF ConsumerStep, HandleAuthentication, HandleUnauthenticated,
     HandleInitialJobRequest, ReservationDone, AllExecutorsBusy, ExecutorUnavailable, GiveUpJob,
     SaveAddress, HandleJobRequest, SaveRunning, HandleAcceptedReceipt, HandleFinishedReceipt,
     SaveReceipt, HandleGroupMessage, driverVars
<1>3. CASE ExecutorStep
  BY <1>3 DEF ExecutorStep, ExecutorConnects, StageReported, ExecutorFails, ExecutorReports,
     driverVars
<1>. QED BY <1>1, <1>2, <1>3

\* The driver changes neither the job's row nor the executor.
LEMMA ExecutorUntouched ==
    ASSUME LinkStep \/ DriverStep \/ HandleMessage \/ WorkerKilled
    PROVE  UNCHANGED <<row, epc, payload>>
<1>1. CASE LinkStep
  BY <1>1 DEF LinkStep, Drop, Reconnect, GiveUpReading, ConsumerEnds, executorVars
<1>2. CASE DriverStep
  BY <1>2 DEF DriverStep, Connect, Send, InitialNotRecorded, StageDone, StageFailed, SendReceipt,
     Spend, SaveSuccess, SaveFailure, Undo, executorVars
<1>3. CASE HandleMessage \/ WorkerKilled
  BY <1>3 DEF HandleMessage, WorkerKilled, executorVars
<1>. QED BY <1>1, <1>2, <1>3

\* What the executor has done stays done: the messages that can be under way
\* only become more.
LEMMA SendableGrows ==
    ASSUME OneReservation, Next
    PROVE  Sendable \subseteq Sendable'
<1>. USE StageNames DEF Sendable, Messages, Passed, ExecutorPlaces, ExecutorStages
<1>1. CASE UNCHANGED epc
  BY <1>1
<1>2. CASE ConsumerStep
  <2>1. \/ UNCHANGED epc
        \/ epc = "none" /\ epc' \in {"off", "never"}
        \/ epc = "off" /\ epc' = "never"
    BY <1>2 DEF ConsumerStep, OneReservation, HandleAuthentication, HandleUnauthenticated,
       HandleInitialJobRequest, ReservationDone, AllExecutorsBusy, ExecutorUnavailable, GiveUpJob,
       SaveAddress, HandleJobRequest, SaveRunning, HandleAcceptedReceipt, HandleFinishedReceipt,
       SaveReceipt, HandleGroupMessage, executorVars
  <2>. QED BY <1>1, <2>1
<1>3. CASE ExecutorStep
  <2>1. \/ epc = "off" /\ epc' = "startup"
        \/ epc = "startup" /\ epc' = "download"
        \/ epc = "download" /\ epc' \in {"starting", "execution"}
        \/ epc = "starting" /\ epc' = "execution"
        \/ epc = "execution" /\ epc' = "upload"
        \/ epc = "upload" /\ epc' = "finished"
        \/ epc \in ExecutorStages /\ epc' = "failed"
    BY <1>3 DEF ExecutorStep, ExecutorConnects, StageReported, ExecutorFails, ExecutorReports
  <2>. QED BY <2>1
<1>. QED BY <1>1, <1>2, <1>3, ExecutorUntouched DEF Next, executorVars

\* Taking a message from a queue.
LEMMA TailSeq ==
    ASSUME NEW S, NEW s \in Seq(S), s # <<>>
    PROVE  /\ Tail(s) \in Seq(S) /\ Head(s) \in S /\ Len(Tail(s)) = Len(s) - 1 /\ Len(s) \in Nat
           /\ Head(s) = s[1] /\ 1 \in 1 .. Len(s)
           /\ \A i \in 1 .. Len(Tail(s)) : Tail(s)[i] = s[i + 1] /\ i + 1 \in 1 .. Len(s)
OBVIOUS

\* Putting a message into a queue.
LEMMA AppendSeq ==
    ASSUME NEW S, NEW s \in Seq(S), NEW m \in S
    PROVE  /\ Append(s, m) \in Seq(S) /\ Len(Append(s, m)) = Len(s) + 1 /\ Len(s) \in Nat
           /\ Append(s, m)[Len(s) + 1] = m
           /\ \A i \in 1 .. Len(s) : Append(s, m)[i] = s[i]
           /\ \A i \in 1 .. Len(Append(s, m)) :
                \/ i \in 1 .. Len(s) /\ Append(s, m)[i] = s[i]
                \/ i = Len(Append(s, m)) /\ Append(s, m)[i] = m
OBVIOUS

\* Where the initial request is after a change of the queue.
LEMMA InitialInQueue ==
    ASSUME NEW q \in Seq(Requests)
    PROVE  /\ \A e \in {<<>>, <<"auth">>} : ~HasInitial(e) /\ AtMostOneInitial(e)
           /\ q # <<>> =>
                 /\ HasInitial(Tail(q)) => HasInitial(q)
                 /\ AtMostOneInitial(q) => AtMostOneInitial(Tail(q))
                 /\ Head(q) = "initial" => HasInitial(q)
                 /\ Head(q) = "initial" /\ AtMostOneInitial(q) => ~HasInitial(Tail(q))
           /\ \A m \in Requests \ {"initial"} :
                 /\ HasInitial(Append(q, m)) => HasInitial(q)
                 /\ AtMostOneInitial(q) => AtMostOneInitial(Append(q, m))
           /\ ~HasInitial(q) => AtMostOneInitial(Append(q, "initial"))
<1>1. \A e \in {<<>>, <<"auth">>} : ~HasInitial(e) /\ AtMostOneInitial(e)
  BY DEF HasInitial, AtMostOneInitial
<1>2. ASSUME q # <<>>
      PROVE  /\ HasInitial(Tail(q)) => HasInitial(q)
             /\ AtMostOneInitial(q) => AtMostOneInitial(Tail(q))
             /\ Head(q) = "initial" => HasInitial(q)
             /\ Head(q) = "initial" /\ AtMostOneInitial(q) => ~HasInitial(Tail(q))
  <2>1. /\ Len(Tail(q)) = Len(q) - 1 /\ Len(q) \in Nat /\ Head(q) = q[1] /\ 1 \in 1 .. Len(q)
        /\ \A i \in 1 .. Len(Tail(q)) : Tail(q)[i] = q[i + 1] /\ i + 1 \in 1 .. Len(q)
    BY <1>2, TailSeq
  <2>2. HasInitial(Tail(q)) => HasInitial(q)
    BY <2>1 DEF HasInitial
  <2>3. AtMostOneInitial(q) => AtMostOneInitial(Tail(q))
    BY <2>1 DEF AtMostOneInitial
  <2>4. Head(q) = "initial" => HasInitial(q)
    BY <2>1 DEF HasInitial
  <2>5. Head(q) = "initial" /\ AtMostOneInitial(q) => ~HasInitial(Tail(q))
    BY <2>1 DEF AtMostOneInitial, HasInitial
  <2>. QED BY <2>2, <2>3, <2>4, <2>5
<1>3. ASSUME NEW m \in Requests
      PROVE  /\ m # "initial" => (HasInitial(Append(q, m)) => HasInitial(q))
             /\ m # "initial" => (AtMostOneInitial(q) => AtMostOneInitial(Append(q, m)))
             /\ ~HasInitial(q) => AtMostOneInitial(Append(q, m))
  <2>1. /\ Len(Append(q, m)) = Len(q) + 1 /\ Len(q) \in Nat
        /\ Append(q, m)[Len(q) + 1] = m
        /\ \A i \in 1 .. Len(q) : Append(q, m)[i] = q[i]
    BY AppendSeq
  <2>2. \A i \in 1 .. Len(Append(q, m)) :
          \/ i \in 1 .. Len(q) /\ Append(q, m)[i] = q[i]
          \/ i = Len(q) + 1 /\ Append(q, m)[i] = m
    BY <2>1
  <2>3. m # "initial" => (HasInitial(Append(q, m)) => HasInitial(q))
    BY <2>2 DEF HasInitial
  <2>4. m # "initial" => (AtMostOneInitial(q) => AtMostOneInitial(Append(q, m)))
    BY <2>2 DEF AtMostOneInitial
  <2>5. ~HasInitial(q) => AtMostOneInitial(Append(q, m))
    BY <2>2 DEF AtMostOneInitial, HasInitial
  <2>. QED BY <2>3, <2>4, <2>5
<1>4. "initial" \in Requests
  BY DEF Requests
<1>. QED BY <1>1, <1>2, <1>3, <1>4

\* A sequence of messages that could be under way still is one.
LEMMA SendableSeq ==
    ASSUME NEW S, NEW T, S \subseteq T, NEW s \in Seq(S)
    PROVE  s \in Seq(T)
OBVIOUS

-----------------------------------------------------------------------------
(* The parts of the invariant *)

\* The initial state.
LEMMA InitJobInv == Init => JobInv
<1>. SUFFICES ASSUME Init PROVE JobInv
  OBVIOUS
<1>. USE DEF Init
<1>1. JobTypes
  BY StageNames DEF JobTypes, FutureValues, Reports, Messages, Exceptions
<1>2. OneReservation /\ PaymentOrder
  BY StageNames DEF OneReservation, PaymentOrder, HasInitial, AtMostOneInitial
<1>3. MessagesBacked
  BY StageNames DEF MessagesBacked
<1>4. LastMessage
  BY DEF LastMessage
<1>5. ReportOrder
  BY ExpectedLength, SMTT(60) DEF ReportOrder, Told, StartsWith
<1>. QED BY <1>1, <1>2, <1>3, <1>4, <1>5 DEF JobInv

\* The driver's variables keep their types.
LEMMA NextTypes == ASSUME JobInv, Next PROVE JobTypes'
<1>. JobTypes
  BY DEF JobInv
<1>. USE DEF JobTypes
<1>1. CASE LinkStep \/ ConsumerStep \/ ExecutorStep
  <2>1. UNCHANGED <<fut, exc, notified, failures>>
    BY <1>1, DriverUntouched
  <2>2. \/ UNCHANGED v2m \/ v2m' = <<>>
        \/ v2m # <<>> /\ v2m' = Tail(v2m)
    BY <1>1 DEF LinkStep, Drop, Reconnect, GiveUpReading, ConsumerEnds, ConsumerStep,
       HandleAuthentication, HandleUnauthenticated, HandleInitialJobRequest, ReservationDone,
       AllExecutorsBusy, ExecutorUnavailable, GiveUpJob, SaveAddress, HandleJobRequest,
       SaveRunning, HandleAcceptedReceipt, HandleFinishedReceipt, SaveReceipt,
       HandleGroupMessage, Received, ExecutorStep, ExecutorConnects, StageReported,
       ExecutorFails, ExecutorReports, linkVars
  <2>3. v2m' \in Seq(Requests)
    <3>1. v2m \in Seq(Requests) /\ <<>> \in Seq(Requests)
      OBVIOUS
    <3>2. v2m # <<>> => Tail(v2m) \in Seq(Requests)
      BY <3>1, TailSeq
    <3>. QED BY <2>2, <3>1, <3>2
  <2>. QED BY <2>1, <2>3
<1>2. CASE HandleMessage
  BY <1>2 DEF HandleMessage, FutureValues, Exceptions
<1>3. CASE WorkerKilled
  BY <1>3 DEF WorkerKilled
<1>4. CASE DriverStep
  <2>0. /\ \A m \in {"connection", "error", "timeout"} \cup Exceptions : m \in Reports \ Stages
        /\ "completed" \in Reports /\ Stages \subseteq Reports
        /\ <<"auth">> \in Seq(Requests) /\ "receipt" \in Requests /\ "initial" \in Requests
        /\ "cancelled" \in FutureValues
    BY StageNames DEF Reports, Messages, Exceptions, Requests, FutureValues
  <2>1. CASE Connect
    BY <2>0, <2>1 DEF Connect, linkVars
  <2>2. ASSUME NEW m \in Requests, NEW from, NEW to, Send(from, m, to)
        PROVE  JobTypes'
    BY <2>2 DEF Send
  <2>3. CASE InitialNotRecorded
    BY <2>0, <2>3 DEF InitialNotRecorded
  <2>4. ASSUME NEW x \in Stages, StageDone(x) PROVE JobTypes'
    <3>1. notified' \in Seq(Reports)
      <4>1. \A m \in Reports : Append(notified, m) \in Seq(Reports)
        BY AppendSeq
      <4>2. exc \in Reports
        OBVIOUS
      <4>. QED BY <2>0, <2>4, <4>1, <4>2 DEF StageDone, JobTypes
    <3>2. exc' \in Reports \ Stages /\ failures' \in Nat /\ UNCHANGED <<fut, v2m>>
      BY <2>0, <2>4 DEF StageDone, linkVars
    <3>. QED BY <3>1, <3>2
  <2>5. ASSUME NEW x \in Stages, StageFailed(x) PROVE JobTypes'
    BY <2>0, <2>5 DEF StageFailed, linkVars
  <2>6. ASSUME NEW from, NEW r, NEW to, SendReceipt(from, r, to) PROVE JobTypes'
    BY <2>0, <2>6 DEF SendReceipt
  <2>7. CASE Spend \/ Undo
    BY <2>7 DEF Spend, Undo, linkVars
  <2>8. CASE SaveSuccess \/ SaveFailure
    <3>1. notified' \in Seq(Reports)
      <4>1. \A m \in Reports : Append(notified, m) \in Seq(Reports)
        BY AppendSeq
      <4>2. exc \in Reports
        OBVIOUS
      <4>. QED BY <2>0, <2>8, <4>1, <4>2 DEF SaveSuccess, SaveFailure, JobTypes
    <3>2. exc' \in Reports \ Stages /\ failures' \in Nat /\ UNCHANGED <<fut, v2m>>
      BY <2>0, <2>8 DEF SaveSuccess, SaveFailure, linkVars
    <3>. QED BY <3>1, <3>2
  <2>9. "acceptedReceipt" \in Requests /\ "job" \in Requests
    BY DEF Requests
  <2>. QED BY <1>4, <2>0, <2>1, <2>2, <2>3, <2>4, <2>5, <2>6, <2>7, <2>8, <2>9 DEF DriverStep
<1>. QED BY <1>1, <1>2, <1>3, <1>4 DEF Next

\* A job is paid for when the executor's last message came, and a booking whose
\* blocks a receipt names is given back only after two failures.
LEMMA NextPayment == ASSUME JobInv, Next PROVE PaymentOrder'
<1>. JobTypes /\ PaymentOrder
  BY DEF JobInv
<1>. USE DEF PaymentOrder
<1>1. CASE LinkStep \/ ConsumerStep \/ ExecutorStep
  BY <1>1, DriverUntouched
<1>2. CASE HandleMessage
  BY <1>2, StageNames DEF HandleMessage, JobTypes
<1>3. CASE WorkerKilled
  BY <1>3 DEF WorkerKilled, JobTypes
<1>4. CASE DriverStep
  <2>1. CASE Connect \/ InitialNotRecorded
    BY <2>1 DEF Connect, InitialNotRecorded
  <2>2. ASSUME NEW m, NEW from \in {"sendInitial", "sendAccepted", "sendJob"},
               NEW to \in {"accept", "ready", "volumes"}, Send(from, m, to)
        PROVE  PaymentOrder'
    BY <2>2 DEF Send
  <2>4. ASSUME NEW x \in Stages, StageDone(x) PROVE PaymentOrder'
    BY <2>4, StageNames DEF StageDone, After, JobTypes
  <2>5. ASSUME NEW x \in Stages, StageFailed(x) PROVE PaymentOrder'
    BY <2>5, StageNames DEF StageFailed, JobTypes
  <2>6. CASE SendReceipt("sendPaid", "paid", "spend") \/ SendReceipt("sendVoid", "void", "fail")
    BY <2>6 DEF SendReceipt
  <2>7. CASE Spend
    BY <2>7 DEF Spend, JobTypes
  <2>8. CASE SaveSuccess
    BY <2>8 DEF SaveSuccess, JobTypes
  <2>9. CASE SaveFailure
    BY <2>9 DEF SaveFailure, JobTypes
  <2>10. CASE Undo
    BY <2>10 DEF Undo, JobTypes
  <2>. QED BY <1>4, <2>1, <2>2, <2>4, <2>5, <2>6, <2>7, <2>8, <2>9, <2>10 DEF DriverStep
<1>. QED BY <1>1, <1>2, <1>3, <1>4 DEF Next

\* The stages are reported in their order.
LEMMA NextReports == ASSUME JobInv, Next PROVE ReportOrder'
<1>. JobTypes /\ ReportOrder
  BY DEF JobInv
<1>1. ASSUME UNCHANGED notified,
             \/ UNCHANGED pc
             \/ pc' \notin Underway
             \/ pc \in Underway /\ Told(pc') = Told(pc) /\ pc' # "streaming"
      PROVE  ReportOrder'
  <2>2. pc' = "streaming" => Streaming
    BY <1>1 DEF ReportOrder, Underway
  <2>3. pc' \in Underway => StartsWith(notified', Told(pc')) /\ Len(notified') = Told(pc')
    BY <1>1 DEF ReportOrder
  <2>. QED BY <1>1, <2>2, <2>3 DEF ReportOrder
<1>2. CASE LinkStep \/ ConsumerStep \/ ExecutorStep
  BY <1>1, <1>2, DriverUntouched
<1>3. CASE HandleMessage
  BY <1>1, <1>3 DEF HandleMessage
<1>4. CASE WorkerKilled
  BY <1>1, <1>4 DEF WorkerKilled, Underway
<1>5. CASE DriverStep
  <2>1. CASE Connect \/ InitialNotRecorded
    BY <1>1, <2>1 DEF Connect, InitialNotRecorded, Underway, Told
  <2>2. CASE \/ Send("sendInitial", "initial", "accept")
             \/ Send("sendAccepted", "acceptedReceipt", "ready")
             \/ Send("sendJob", "job", "volumes")
    BY <1>1, <2>2 DEF Send, Underway, Told
  <2>3. ASSUME NEW x \in Stages, StageDone(x) PROVE ReportOrder'
    <3>1. CASE pc' = "sendVoid" \/ x = "finish"
      BY <1>1, <2>3, <3>1, StageNames DEF StageDone, After, Underway, Told
    <3>2. CASE ~(pc' = "sendVoid" \/ x = "finish")
      <4>1. /\ pc = x /\ pc' = After(x) /\ notified' = Append(notified, x)
            /\ x \in Stages \ {"finish"}
        BY <2>3, <3>2 DEF StageDone
      <4>2. /\ pc \in Underway /\ pc' \in Underway /\ (pc' = "streaming" => Streaming)
            /\ Told(pc) \in 0 .. 4 /\ Told(pc') = Told(pc) + 1
            /\ x = ExpectedStages[Told(pc) + 1] /\ Told(pc') \in 0 .. Len(ExpectedStages)
        BY <4>1, ExpectedLength, StageNames DEF After, Underway, Told, ReportOrder
      <4>3. StartsWith(notified, Told(pc))
        BY <4>2 DEF ReportOrder
      <4>. DEFINE k == Told(pc)
      <4>4. k \in Nat /\ Len(notified) = k /\ notified \in Seq(Reports) /\ x \in Reports
        BY <4>1, <4>2 DEF ReportOrder, JobTypes, Reports, Messages
      <4>5. Len(notified') = k + 1 /\ \A i \in 1 .. k + 1 : notified'[i] = ExpectedStages[i]
        <5>1. \A i \in 1 .. k : notified[i] = ExpectedStages[i]
          BY <4>3 DEF StartsWith
        <5>2. x = ExpectedStages[k + 1]
          BY <4>2
        <5>. HIDE DEF k
        <5>3. Len(notified') = k + 1 /\ notified'[k + 1] = x
              /\ \A i \in 1 .. k : notified'[i] = notified[i]
          BY <4>1, <4>4
        <5>. QED BY <4>4, <5>1, <5>2, <5>3
      <4>6. StartsWith(notified', k + 1)
        BY <4>4, <4>5 DEF StartsWith
      <4>. QED BY <4>2, <4>4, <4>5, <4>6 DEF ReportOrder
    <3>. QED BY <3>1, <3>2
  <2>4. ASSUME NEW x \in Stages, StageFailed(x) PROVE ReportOrder'
    BY <1>1, <2>4 DEF StageFailed, Underway
  <2>5. CASE SendReceipt("sendPaid", "paid", "spend") \/ SendReceipt("sendVoid", "void", "fail")
    BY <1>1, <2>5 DEF SendReceipt, Underway, Told
  <2>6. CASE Spend \/ Undo
    BY <1>1, <2>6 DEF Spend, Undo, Underway, Told
  <2>7. CASE SaveSuccess \/ SaveFailure
    <3>1. CASE UNCHANGED notified
      BY <1>1, <2>7, <3>1 DEF SaveSuccess, SaveFailure, Underway
    <3>2. CASE ~ UNCHANGED notified
      <4>1. PICK x \in Reports \ Stages : notified' = Append(notified, x)
        BY <2>7, <3>2, StageNames DEF SaveSuccess, SaveFailure, JobTypes, Reports, Messages,
           Exceptions
      <4>2. pc' \in {"done", "undo"}
        BY <2>7, <3>2 DEF SaveSuccess, SaveFailure
      <4>3. PICK n \in 0 .. Len(ExpectedStages) : StartsWith(notified, n)
        BY DEF ReportOrder
      <4>4. StartsWith(notified', n)
        BY <4>1, <4>3, ExpectedLength DEF StartsWith, JobTypes
      <4>. QED BY <4>2, <4>4 DEF ReportOrder, Underway
    <3>. QED BY <3>1, <3>2
  <2>. QED BY <1>5, <2>1, <2>2, <2>3, <2>4, <2>5, <2>6, <2>7 DEF DriverStep
<1>. QED BY <1>2, <1>3, <1>4, <1>5 DEF Next

\* The request for the executor stays the only one.
LEMMA NextReservation == ASSUME JobInv, Next PROVE OneReservation'
<1>. JobTypes /\ OneReservation /\ v2m \in Seq(Requests)
  BY DEF JobInv, JobTypes
<1>1. /\ \A e \in {<<>>, <<"auth">>} : ~HasInitial(e) /\ AtMostOneInitial(e)
      /\ v2m # <<>> =>
            /\ HasInitial(Tail(v2m)) => HasInitial(v2m)
            /\ AtMostOneInitial(v2m) => AtMostOneInitial(Tail(v2m))
            /\ Head(v2m) = "initial" => HasInitial(v2m)
            /\ Head(v2m) = "initial" /\ AtMostOneInitial(v2m) => ~HasInitial(Tail(v2m))
      /\ \A m \in Requests \ {"initial"} :
            /\ HasInitial(Append(v2m, m)) => HasInitial(v2m)
            /\ AtMostOneInitial(v2m) => AtMostOneInitial(Append(v2m, m))
      /\ ~HasInitial(v2m) => AtMostOneInitial(Append(v2m, "initial"))
  BY InitialInQueue
<1>. USE DEF OneReservation
<1>2. CASE LinkStep
  <2>1. CASE Drop \/ ConsumerEnds
    BY <1>1, <2>1 DEF Drop, ConsumerEnds, NoConsumer, driverVars, executorVars
  <2>2. CASE Reconnect
    BY <2>2 DEF Reconnect, NewConsumer, InProgress, driverVars, executorVars
  <2>3. CASE GiveUpReading
    BY <2>3 DEF GiveUpReading, linkVars, consumerVars, executorVars
  <2>. QED BY <1>2, <2>1, <2>2, <2>3 DEF LinkStep
<1>3. CASE ExecutorStep
  BY <1>3 DEF ExecutorStep, ExecutorConnects, StageReported, ExecutorFails, ExecutorReports,
     ExecutorStages, driverVars, linkVars, consumerVars, executorVars
<1>4. CASE HandleMessage \/ WorkerKilled
  BY <1>4 DEF HandleMessage, WorkerKilled, consumerVars, executorVars
<1>5. CASE ConsumerStep
  <2>. USE <1>1 DEF driverVars, linkVars, consumerVars, executorVars, Received, Free
  <2>1. CASE HandleAuthentication \/ HandleUnauthenticated \/ HandleAcceptedReceipt
    BY <2>1 DEF HandleAuthentication, HandleUnauthenticated, HandleAcceptedReceipt
  <2>2. CASE HandleInitialJobRequest
    BY <2>2 DEF HandleInitialJobRequest
  <2>3. CASE ReservationDone
    BY <2>3 DEF ReservationDone
  <2>4. CASE AllExecutorsBusy \/ ExecutorUnavailable
    BY <2>4 DEF AllExecutorsBusy, ExecutorUnavailable, GiveUpJob
  <2>5. CASE SaveAddress \/ SaveRunning \/ SaveReceipt
    BY <2>5 DEF SaveAddress, SaveRunning, SaveReceipt
  <2>6. CASE HandleJobRequest
    BY <2>6 DEF HandleJobRequest
  <2>7. CASE HandleFinishedReceipt
    BY <2>7 DEF HandleFinishedReceipt
  <2>8. CASE HandleGroupMessage
    BY <2>8 DEF HandleGroupMessage, TerminalMessages
  <2>. QED BY <1>5, <2>1, <2>2, <2>3, <2>4, <2>5, <2>6, <2>7, <2>8 DEF ConsumerStep
<1>6. CASE DriverStep
  <2>. USE <1>1 DEF linkVars, consumerVars, executorVars
  <2>1. CASE Connect
    BY <2>1 DEF Connect, NewConsumer, InProgress
  <2>2. CASE Send("sendInitial", "initial", "accept") \/ InitialNotRecorded
    BY <2>2 DEF Send, InitialNotRecorded
  <2>3. CASE \/ Send("sendAccepted", "acceptedReceipt", "ready") \/ Send("sendJob", "job", "volumes")
             \/ SendReceipt("sendPaid", "paid", "spend") \/ SendReceipt("sendVoid", "void", "fail")
    <3>1. {"acceptedReceipt", "job", "receipt"} \subseteq Requests \ {"initial"}
      BY DEF Requests
    <3>. QED BY <2>3, <3>1 DEF Send, SendReceipt
  <2>4. ASSUME NEW x \in Stages, StageDone(x) \/ StageFailed(x) PROVE OneReservation'
    BY <2>4, StageNames DEF StageDone, StageFailed, After
  <2>5. CASE Spend \/ SaveSuccess \/ SaveFailure \/ Undo
    BY <2>5 DEF Spend, SaveSuccess, SaveFailure, Undo
  <2>. QED BY <1>6, <2>1, <2>2, <2>3, <2>4, <2>5 DEF DriverStep
<1>. QED BY <1>2, <1>3, <1>4, <1>5, <1>6 DEF Next

\* Nothing is under way, set or reported that the executor has not done.
LEMMA NextMessages == ASSUME JobInv, Next PROVE MessagesBacked'
<1>. JobTypes /\ OneReservation /\ MessagesBacked
  BY DEF JobInv
<1>1. Sendable \subseteq Sendable'
  BY SendableGrows
<1>2. /\ m2v \in Seq(Sendable') /\ inbox \in Seq(Sendable')
      /\ <<>> \in Seq(Sendable')
      /\ m2v # <<>> => Tail(m2v) \in Seq(Sendable') /\ Head(m2v) \in Sendable
      /\ inbox # <<>> => Tail(inbox) \in Seq(Sendable') /\ Head(inbox) \in Sendable'
      /\ \A m \in Sendable' : Append(m2v, m) \in Seq(Sendable') /\ Append(inbox, m) \in Seq(Sendable')
  <2>1. m2v \in Seq(Sendable) /\ inbox \in Seq(Sendable)
    BY DEF MessagesBacked
  <2>2. m2v \in Seq(Sendable') /\ inbox \in Seq(Sendable')
    BY <1>1, <2>1, SendableSeq
  <2>3. m2v # <<>> => Tail(m2v) \in Seq(Sendable') /\ Head(m2v) \in Sendable
    BY <2>1, <2>2, TailSeq
  <2>4. inbox # <<>> => Tail(inbox) \in Seq(Sendable') /\ Head(inbox) \in Sendable'
    BY <2>2, TailSeq
  <2>5. \A m \in Sendable' : Append(m2v, m) \in Seq(Sendable') /\ Append(inbox, m) \in Seq(Sendable')
    BY <2>2, AppendSeq
  <2>. QED BY <2>2, <2>3, <2>4, <2>5
<1>3. "rejected" \in Sendable' /\ "hordeFailed" \in Sendable' /\ "jobFailed" \in Sendable'
  BY StageNames DEF Sendable, Messages, Exceptions
<1>. DEFINE ReadyDone == row' = "waitPayload" \/ pending' = "waitPayload" \/ seen' = "waitPayload"
                             \/ deferred' => "ready" \in Sendable'
            Queues == m2v' \in Seq(Sendable') /\ inbox' \in Seq(Sendable')
            Futures == \A s \in Stages : fut'[s] = "ok" => s \in Sendable'
            Told2 == \A i \in 1 .. Len(notified') : notified'[i] \in Stages =>
                        notified'[i] \in Sendable' \ {"finish"}
<1>4. SUFFICES Queues /\ Futures /\ Told2 /\ ReadyDone
  BY DEF MessagesBacked
<1>5. UNCHANGED fut => Futures
  BY <1>1 DEF MessagesBacked
<1>6. UNCHANGED notified => Told2
  BY <1>1 DEF MessagesBacked
<1>7. /\ row = "waitPayload" \/ pending = "waitPayload" \/ seen = "waitPayload" \/ deferred =>
           "ready" \in Sendable'
      /\ UNCHANGED <<row, pending, seen, deferred>> => ReadyDone
  BY <1>1 DEF MessagesBacked
<1>. HIDE DEF Futures, Told2
<1>8. CASE LinkStep
  <2>1. Futures /\ Told2
    BY <1>5, <1>6, <1>8, DriverUntouched
  <2>2. Queues
    BY <1>2, <1>8 DEF LinkStep, Drop, Reconnect, GiveUpReading, ConsumerEnds, NewConsumer, NoConsumer,
       linkVars, consumerVars
  <2>3. ReadyDone
    BY <1>7, <1>8 DEF LinkStep, Drop, Reconnect, GiveUpReading, ConsumerEnds, NewConsumer,
       NoConsumer, linkVars, consumerVars
  <2>. QED BY <2>1, <2>2, <2>3
<1>9. CASE ExecutorStep
  <2>1. Futures /\ Told2
    BY <1>5, <1>6, <1>9, DriverUntouched
  <2>2. CASE ExecutorConnects
    BY <1>2, <1>7, <2>1, <2>2 DEF ExecutorConnects, linkVars, consumerVars
  <2>3. ASSUME NEW from, NEW m \in Sendable', NEW to, NEW r,
               ExecutorReports(from, m, to, r), r = "waitPayload" => r = row \/ m = "ready"
        PROVE  Queues /\ ReadyDone
    BY <1>2, <1>7, <2>3 DEF ExecutorReports, Relay, linkVars
  <2>4. CASE StageReported
    <3>. USE StageNames DEF Sendable, Messages, Passed, ExecutorReports, ExecutorStages
    <3>1. CASE ExecutorReports("startup", "ready", "download", "waitPayload")
      <4>1. "ready" \in Sendable'
        BY <3>1
      <4>. QED BY <2>1, <2>3, <3>1, <4>1
    <3>2. CASE ExecutorReports("download", "volumes",
                               IF Streaming THEN "starting" ELSE "execution", row)
      <4>1. "volumes" \in Sendable'
        BY <3>2
      <4>. QED BY <2>1, <2>3, <3>2, <4>1
    <3>3. CASE ExecutorReports("starting", "streaming", "execution", row)
      <4>1. "streaming" \in Sendable'
        BY <3>3
      <4>. QED BY <2>1, <2>3, <3>3, <4>1
    <3>4. CASE ExecutorReports("execution", "execution", "upload", row)
      <4>1. "execution" \in Sendable'
        BY <3>4
      <4>. QED BY <2>1, <2>3, <3>4, <4>1
    <3>5. CASE ExecutorReports("upload", "finish", "finished", "finished")
      <4>1. "finish" \in Sendable'
        BY <3>5
      <4>. QED BY <2>1, <2>3, <3>5, <4>1
    <3>. QED BY <2>4, <3>1, <3>2, <3>3, <3>4, <3>5 DEF StageReported
  <2>5. CASE ExecutorFails
    BY <1>3, <2>1, <2>3, <2>5 DEF ExecutorFails
  <2>. QED BY <1>9, <2>2, <2>4, <2>5 DEF ExecutorStep
<1>10. CASE ConsumerStep
  <2>1. Futures /\ Told2
    BY <1>5, <1>6, <1>10, DriverUntouched
  <2>. USE <1>2, <1>3, <1>7 DEF SendToValidator, linkVars, consumerVars
  <2>2. CASE HandleAuthentication
    BY <2>1, <2>2 DEF HandleAuthentication
  <2>3. CASE HandleUnauthenticated \/ HandleAcceptedReceipt \/ HandleJobRequest
    BY <2>1, <2>3 DEF HandleUnauthenticated, HandleAcceptedReceipt, HandleJobRequest
  <2>4. CASE HandleInitialJobRequest
    BY <2>1, <2>4 DEF HandleInitialJobRequest
  <2>5. CASE ReservationDone
    <3>1. "accept" \in Sendable'
      BY <2>5, StageNames DEF ReservationDone, Sendable, Messages, Passed, ExecutorPlaces
    <3>. QED BY <2>1, <2>5, <3>1 DEF ReservationDone
  <2>6. CASE AllExecutorsBusy \/ ExecutorUnavailable
    BY <2>1, <2>6, SMTT(60) DEF AllExecutorsBusy, ExecutorUnavailable, GiveUpJob
  <2>7. CASE SaveAddress \/ SaveRunning \/ SaveReceipt
    BY <2>1, <2>7 DEF SaveAddress, SaveRunning, SaveReceipt
  <2>8. CASE HandleFinishedReceipt
    BY <2>1, <2>8 DEF HandleFinishedReceipt
  <2>9. CASE HandleGroupMessage
    BY <2>1, <2>9 DEF HandleGroupMessage, TerminalMessages
  <2>. QED BY <1>10, <2>2, <2>3, <2>4, <2>5, <2>6, <2>7, <2>8, <2>9 DEF ConsumerStep
<1>11. CASE HandleMessage
  <2>1. Queues /\ Told2 /\ ReadyDone
    BY <1>2, <1>6, <1>7, <1>11 DEF HandleMessage, consumerVars
  <2>2. ASSUME NEW s \in Stages, fut'[s] = "ok" PROVE s \in Sendable'
    <3>1. fut[s] = "ok" \/ s = Head(m2v)
      BY <1>11, <2>2 DEF HandleMessage, Exceptions
    <3>2. m2v # <<>>
      BY <1>11 DEF HandleMessage
    <3>. QED BY <1>1, <1>2, <3>1, <3>2 DEF MessagesBacked
  <2>. QED BY <2>1, <2>2 DEF Futures
<1>12. CASE WorkerKilled
  BY <1>2, <1>5, <1>6, <1>7, <1>12 DEF WorkerKilled, consumerVars
<1>13. CASE DriverStep
  <2>1. Queues /\ ReadyDone
    <3>1. CASE Connect
      BY <1>2, <1>7, <3>1 DEF Connect, NewConsumer, linkVars, consumerVars
    <3>2. CASE ~Connect
      BY <1>2, <1>7, <1>13, <3>2 DEF DriverStep, Send, InitialNotRecorded, StageDone, StageFailed,
         SendReceipt, Spend, SaveSuccess, SaveFailure, Undo, linkVars, consumerVars
    <3>. QED BY <3>1, <3>2
  <2>2. Futures
    <3>1. CASE \E x \in Stages : StageFailed(x)
      BY <1>1, <3>1 DEF StageFailed, Futures, MessagesBacked, JobTypes
    <3>2. CASE ~ \E x \in Stages : StageFailed(x)
      BY <1>5, <1>13, <3>2 DEF DriverStep, Connect, Send, InitialNotRecorded, StageDone, SendReceipt,
         Spend, SaveSuccess, SaveFailure, Undo
    <3>. QED BY <3>1, <3>2
  <2>3. ASSUME NEW x \in Reports, x \in Stages => x \in Sendable' \ {"finish"},
               notified' = Append(notified, x)
        PROVE  Told2
    <3>1. notified \in Seq(Reports)
      BY DEF JobTypes
    <3>2. \A i \in 1 .. Len(notified') :
            \/ notified'[i] = x
            \/ i \in 1 .. Len(notified) /\ notified'[i] = notified[i]
      BY <2>3, <3>1, AppendSeq
    <3>. QED BY <1>1, <2>3, <3>2 DEF MessagesBacked, Told2
  <2>4. Told2
    <3>1. CASE \E x \in Stages : StageDone(x)
      <4>1. PICK x \in Stages : StageDone(x)
        BY <3>1
      <4>2. x \in Reports /\ x \in Sendable'
        BY <1>1, <4>1 DEF StageDone, MessagesBacked, Reports, Messages
      <4>3. UNCHANGED notified \/ (notified' = Append(notified, x) /\ x # "finish")
        BY <4>1 DEF StageDone
      <4>. QED BY <1>6, <2>3, <4>2, <4>3
    <3>2. CASE SaveSuccess \/ SaveFailure
      <4>1. "completed" \in Reports \ Stages /\ exc \in Reports \ Stages
        BY StageNames DEF JobTypes, Reports
      <4>2. UNCHANGED notified \/ \E x \in Reports \ Stages : notified' = Append(notified, x)
        BY <3>2, <4>1 DEF SaveSuccess, SaveFailure
      <4>. QED BY <1>6, <2>3, <4>2
    <3>3. CASE ~(SaveSuccess \/ SaveFailure \/ \E x \in Stages : StageDone(x))
      BY <1>6, <1>13, <3>3 DEF DriverStep, Connect, Send, InitialNotRecorded, StageFailed,
         SendReceipt, Spend, Undo
    <3>. QED BY <3>1, <3>2, <3>3
  <2>. QED BY <2>1, <2>2, <2>4
<1>. QED BY <1>8, <1>9, <1>10, <1>11, <1>12, <1>13 DEF Next

\* The message that ends the job comes last, to a consumer that has the job.
LEMMA NextLast == ASSUME JobInv, Next PROVE LastMessage'
<1>. OneReservation /\ LastMessage /\ MessagesBacked /\ inbox \in Seq(Sendable)
  BY DEF JobInv, MessagesBacked
<1>. USE DEF LastMessage
<1>0. NewConsumer => inbox' = <<>> /\ (joined' => pending' # "none")
  <2>1. InProgress(row) => row # "none"
    BY DEF InProgress
  <2>2. NewConsumer => (joined' => InProgress(row))
    BY Zenon DEF NewConsumer
  <2>3. NewConsumer => inbox' = <<>> /\ (InProgress(row) => pending' = row)
    BY DEF NewConsumer
  <2>. QED BY <2>1, <2>2, <2>3
<1>1. CASE LinkStep
  <2>1. CASE GiveUpReading
    BY <2>1 DEF GiveUpReading, consumerVars, executorVars
  <2>2. CASE Drop \/ ConsumerEnds
    BY <2>2 DEF Drop, ConsumerEnds, NoConsumer, executorVars
  <2>3. CASE Reconnect
    BY <1>0, <2>3 DEF Reconnect, executorVars
  <2>. QED BY <1>1, <2>1, <2>2, <2>3 DEF LinkStep
<1>2. CASE HandleMessage \/ WorkerKilled
  BY <1>2 DEF HandleMessage, WorkerKilled, consumerVars, executorVars
<1>3. CASE DriverStep
  <2>1. CASE Connect
    BY <1>0, <2>1 DEF Connect, consumerVars, executorVars
  <2>2. CASE ~Connect
    <3>1. UNCHANGED <<epc, inbox, joined, pending>>
      BY <1>3, <2>2 DEF DriverStep, Send, InitialNotRecorded, StageDone, StageFailed, SendReceipt,
         Spend, SaveSuccess, SaveFailure, Undo, consumerVars, executorVars
    <3>. QED BY <3>1
  <2>. QED BY <2>1, <2>2
<1>4. CASE ExecutorStep
  <2>1. CASE ExecutorConnects
    BY <2>1 DEF ExecutorConnects, consumerVars
  <2>2. ASSUME NEW from \in ExecutorStages, NEW m \in Messages, NEW to, NEW r,
               ExecutorReports(from, m, to, r), to \notin {"none", "off", "never"},
               m \in TerminalMessages => to \in {"finished", "failed"}
        PROVE  LastMessage'
    <3>1. /\ epc \notin {"none", "off", "never", "finished", "failed"} /\ epc' = to
          /\ UNCHANGED <<joined, pending>> /\ inbox' = IF joined THEN Append(inbox, m) ELSE inbox
      BY <2>2 DEF ExecutorReports, Relay, ExecutorStages
    <3>2. \A i \in 1 .. Len(inbox) : inbox[i] \notin TerminalMessages
      BY <3>1
    <3>3. CASE joined
      <4>1. \A i \in 1 .. Len(inbox') :
              \/ inbox'[i] = m /\ i = Len(inbox')
              \/ i \in 1 .. Len(inbox) /\ inbox'[i] = inbox[i]
        <5>1. inbox \in Seq(Messages) /\ inbox' = Append(inbox, m)
          BY <3>1, <3>3, SendableSeq DEF Sendable
        <5>2. \A i \in 1 .. Len(Append(inbox, m)) :
                \/ i \in 1 .. Len(inbox) /\ Append(inbox, m)[i] = inbox[i]
                \/ i = Len(Append(inbox, m)) /\ Append(inbox, m)[i] = m
          BY <5>1, AppendSeq
        <5>. QED BY <5>1, <5>2
      <4>. QED BY <2>2, <3>1, <3>2, <3>3, <4>1
    <3>4. CASE ~joined
      BY <2>2, <3>1, <3>2, <3>4
    <3>. QED BY <3>3, <3>4
  <2>3. CASE StageReported
    BY <2>2, <2>3, StageNames DEF StageReported, ExecutorStages, Messages, TerminalMessages, Exceptions
  <2>4. CASE ExecutorFails
    BY <2>2, <2>4 DEF ExecutorFails, ExecutorStages, Messages, Exceptions
  <2>. QED BY <1>4, <2>1, <2>3, <2>4 DEF ExecutorStep
<1>5. CASE ConsumerStep
  <2>. USE DEF linkVars, consumerVars, executorVars
  <2>1. CASE HandleAuthentication \/ HandleUnauthenticated \/ HandleAcceptedReceipt
    BY <2>1 DEF HandleAuthentication, HandleUnauthenticated, HandleAcceptedReceipt
  <2>2. CASE HandleInitialJobRequest
    BY <2>2 DEF HandleInitialJobRequest
  <2>3. CASE ReservationDone
    BY <2>3 DEF ReservationDone, OneReservation
  <2>4. CASE AllExecutorsBusy \/ ExecutorUnavailable
    BY <2>4 DEF AllExecutorsBusy, ExecutorUnavailable, GiveUpJob, OneReservation
  <2>5. CASE SaveAddress \/ SaveRunning \/ SaveReceipt
    BY <2>5 DEF SaveAddress, SaveRunning, SaveReceipt
  <2>6. CASE HandleJobRequest \/ HandleFinishedReceipt
    BY <2>6 DEF HandleJobRequest, HandleFinishedReceipt
  <2>7. CASE HandleGroupMessage
    <3>1. /\ inbox # <<>> /\ inbox' = Tail(inbox) /\ UNCHANGED <<epc, joined>>
          /\ pending' = CASE Head(inbox) = "ready" -> row
                          [] Head(inbox) \in TerminalMessages -> "none"
                          [] OTHER -> pending
      BY <2>7 DEF HandleGroupMessage
    <3>2. /\ Len(Tail(inbox)) = Len(inbox) - 1 /\ Len(inbox) \in Nat /\ Head(inbox) = inbox[1]
          /\ 1 \in 1 .. Len(inbox)
          /\ \A i \in 1 .. Len(Tail(inbox)) : Tail(inbox)[i] = inbox[i + 1] /\ i + 1 \in 1 .. Len(inbox)
      BY <3>1, TailSeq
    <3>3. row # "none" /\ epc \notin {"none", "off", "never"}
      BY <3>1 DEF OneReservation
    <3>4. CASE Head(inbox) \in TerminalMessages
      BY <3>1, <3>2, <3>3, <3>4
    <3>5. CASE Head(inbox) \notin TerminalMessages
      BY <3>1, <3>2, <3>3, <3>5
    <3>. QED BY <3>4, <3>5
  <2>. QED BY <1>5, <2>1, <2>2, <2>3, <2>4, <2>5, <2>6, <2>7 DEF ConsumerStep
<1>. QED BY <1>1, <1>2, <1>3, <1>4, <1>5 DEF Next

-----------------------------------------------------------------------------
(* The theorems *)

\* Every step of the job keeps the invariant.
LEMMA NextJobInv == JobInv /\ [Next]_vars => JobInv'
<1>. SUFFICES ASSUME JobInv, [Next]_vars PROVE JobInv'
  OBVIOUS
<1>1. CASE Next
  BY <1>1, NextTypes, NextReservation, NextMessages, NextLast, NextPayment, NextReports DEF JobInv
<1>2. CASE UNCHANGED vars
  <2>. USE <1>2 DEF vars, driverVars, linkVars, consumerVars, executorVars
  <2>1. JobTypes' /\ OneReservation'
    BY DEF JobInv, JobTypes, OneReservation
  <2>2. Sendable' = Sendable
    BY DEF Sendable
  <2>3. MessagesBacked' /\ LastMessage'
    BY <2>2 DEF JobInv, MessagesBacked, LastMessage
  <2>4. PaymentOrder' /\ ReportOrder'
    BY DEF JobInv, PaymentOrder, ReportOrder
  <2>. QED BY <2>1, <2>3, <2>4 DEF JobInv
<1>. QED BY <1>1, <1>2

\* The invariant holds throughout.
LEMMA JobInvAlways == Spec => []JobInv
BY InitJobInv, NextJobInv, PTL DEF Spec

\* Only a job that the executor finished is paid for or saved as COMPLETED,
\* however often the connection breaks and the validator's steps fail; and as
\* long as at most one of them failed, the blocks named in the receipt are not
\* given back (drive_organic_job: receipt, spend_allowance,
\* undo_allowance_reservation).
THEOREM PaymentAlwaysEarned ==
    Spec => [](PaidJobsFinished /\ (failures <= 1 => PaymentIsEarned))
<1>1. JobInv => PaidJobsFinished /\ (failures <= 1 => PaymentIsEarned)
  <2>. SUFFICES ASSUME JobInv PROVE PaidJobsFinished /\ (failures <= 1 => PaymentIsEarned)
    OBVIOUS
  <2>1. fut["finish"] = "ok" => epc = "finished"
    BY StageNames DEF JobInv, MessagesBacked, Sendable
  <2>2. PaidJobsFinished
    BY <2>1 DEF JobInv, PaymentOrder, PaidJobsFinished
  <2>3. failures <= 1 => PaidBlocksStayBooked
    BY DEF JobInv, JobTypes, PaymentOrder, PaidBlocksStayBooked
  <2>. QED BY <2>2, <2>3 DEF PaymentIsEarned
<1>. QED BY JobInvAlways, <1>1, PTL

\* What the facilitator is told of a job's stages, in their order, is what the
\* executor had reached, whatever is lost or repeated on the way.
THEOREM ReportedStagesAlwaysReached == Spec => []ReportedStagesReached
<1>1. JobInv => ReportedStagesReached
  <2>. SUFFICES ASSUME JobInv PROVE ReportedStagesReached
    OBVIOUS
  <2>1. \E n \in 0 .. Len(ExpectedStages) : StartsWith(notified, n)
    BY DEF JobInv, ReportOrder
  <2>2. ASSUME NEW s \in Range(notified) \cap Stages
        PROVE  epc \in Passed(s) \cup {"finished", "failed"}
    <3>1. notified \in Seq(Reports)
      BY DEF JobInv, JobTypes
    <3>2. PICK i \in 1 .. Len(notified) : s = notified[i]
      BY <3>1, <2>2 DEF Range
    <3>3. s \in Sendable \ {"finish"} /\ s \in Stages
      BY <2>2, <3>2 DEF JobInv, MessagesBacked
    <3>. QED BY <3>3 DEF Sendable
  <2>. QED BY <2>1, <2>2 DEF ReportedStagesReached, StartsWith
<1>. QED BY JobInvAlways, <1>1, PTL

\* The consumer that is about to handle the message which ends a job still has
\* the job in pending_jobs, whichever connection of the validator it serves.
THEOREM EndingJobAlwaysPending == Spec => []EndingJobIsPending
<1>1. JobInv => EndingJobIsPending
  <2>. SUFFICES ASSUME JobInv, inbox # <<>>, Head(inbox) \in TerminalMessages
                PROVE  pending # "none"
    BY DEF EndingJobIsPending
  <2>1. inbox \in Seq(Sendable)
    BY DEF JobInv, MessagesBacked
  <2>2. Head(inbox) = inbox[1] /\ 1 \in 1 .. Len(inbox)
    BY <2>1, TailSeq
  <2>. QED BY <2>2 DEF JobInv, LastMessage
<1>. QED BY JobInvAlways, <1>1, PTL
=============================================================================
