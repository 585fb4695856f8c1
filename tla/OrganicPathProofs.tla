------------------------- MODULE OrganicPathProofs -------------------------
(***************************************************************************)
(* Proofs about the two ends of an organic job's path: a miner's executor  *)
(* pool, for any number of jobs and any counts that the manifests          *)
(* announce; and the relay between user and validator, for any number of   *)
(* jobs, connections, attempts and faults.                                 *)
(***************************************************************************)
EXTENDS ExecutorPool, JobRelay, SetFacts, SequenceTheorems

-----------------------------------------------------------------------------
(* The pool: the inductive invariant *)

Outcome == {"pending", "reserved", "busy"}
ReserverState == {"idle", "created", "cleanup", "lock", "starting", "done",
                  "unavailable", "busy", "cancelled", "raised"}
HandlerState == {"idle", "created", "waiting", "accepted", "declined", "crashed",
                 "running", "failed"}

\* What the variables hold.  A running cleanup checks executors of the pool:
\* only a cleanup takes executors out, and one runs at a time.
PoolTypes ==
    /\ count \in Nat /\ announced \in Nat /\ count <= announced
    /\ executors \subseteq Tokens /\ IsFiniteSet(executors)
    /\ containers \subseteq Tokens
    /\ checked \subseteq executors
    /\ reserver \in [Tokens -> ReserverState] /\ handler \in [Tokens -> HandlerState]

\* Only the holder of the reservation lock starts an executor, and it has a
\* place in the pool.
Capacity ==
    /\ \A t \in Tokens : reserver[t] = "starting" => rlock = t
    /\ Cardinality(executors \cup Starting) <= announced
    /\ RunningIsTracked

\* Where a reserver is tells who started it, who cancelled it and whether its
\* executor may run.
ReserverOrder ==
    /\ clock \in Tokens => reserver[clock] = "cleanup"
    /\ \A t \in Tokens :
        /\ handler[t] = "idle" => reserver[t] = "idle"
        /\ t \in containers => reserver[t] \in {"done", "cancelled"}
        /\ reserver[t] = "cancelled" => handler[t] = "crashed"

\* The dictionary and the handlers refer to futures that were created.
FutureTypes ==
    /\ futures \in [Tokens -> Seq(Outcome)]
    /\ dict \in [Tokens -> Nat] /\ awaited \in [Tokens -> Nat]
    /\ \A t \in Tokens :
        /\ dict[t] <= Len(futures[t]) /\ awaited[t] <= Len(futures[t])
        /\ handler[t] = "waiting" => awaited[t] # 0

\* An outcome, of whichever future of the token, is the reserver's.
OutcomesBacked ==
    \A t \in Tokens : \A i \in 1 .. Len(futures[t]) :
        /\ futures[t][i] = "reserved" =>
               reserver[t] \in {"starting", "done", "unavailable", "cancelled"}
        /\ futures[t][i] = "busy" => reserver[t] = "busy"

PoolInv ==
    /\ PoolTypes
    /\ Capacity
    /\ ReserverOrder
    /\ FutureTypes
    /\ OutcomesBacked
    /\ AnswerMatchesReservation

-----------------------------------------------------------------------------
(* Its proof *)

\* An empty pool.
LEMMA InitPoolInv == PoolInit => PoolInv
<1>. SUFFICES ASSUME PoolInit PROVE PoolInv
  OBVIOUS
<1>1. PoolTypes
  BY PoolConstants, FS_EmptySet DEF PoolInit, PoolTypes, ReserverState, HandlerState
<1>2. Starting = {}
  BY DEF PoolInit, Starting
<1>3. Capacity
  <2>1. executors \cup Starting = {}
    BY <1>2 DEF PoolInit
  <2>2. Cardinality(executors \cup Starting) = 0
    BY <2>1, FS_EmptySet
  <2>. QED BY <1>1, <2>2 DEF PoolInit, PoolTypes, Capacity, RunningIsTracked
<1>4. ReserverOrder /\ AnswerMatchesReservation
  BY PoolConstants DEF PoolInit, ReserverOrder, AnswerMatchesReservation
<1>5. FutureTypes /\ OutcomesBacked
  <2>1. \A t \in Tokens : futures[t] = <<>> /\ Len(futures[t]) = 0 /\ dict[t] = 0 /\ awaited[t] = 0
    BY DEF PoolInit
  <2>. QED BY <2>1 DEF PoolInit, FutureTypes, OutcomesBacked
<1>. QED BY <1>1, <1>3, <1>4, <1>5 DEF PoolInv

\* At most one executor is being started.
LEMMA StartingFinite ==
    ASSUME PoolTypes, Capacity
    PROVE  /\ IsFiniteSet(executors \cup Starting)
           /\ rlock \notin Tokens => Starting = {}
<1>1. Starting \subseteq {rlock}
  BY DEF Capacity, Starting
<1>2. IsFiniteSet({rlock})
  BY FS_Singleton
<1>3. IsFiniteSet(Starting)
  BY <1>1, <1>2, FS_Subset
<1>. QED BY <1>1, <1>3, FS_Union DEF PoolTypes, Starting

\* A step that starts nothing and adds nothing keeps the pool within its count.
LEMMA CapacityKept ==
    ASSUME PoolTypes, Capacity, announced \in Nat, announced' \in Nat,
           announced <= announced',
           executors' \cup Starting' \subseteq executors \cup Starting
    PROVE  Cardinality(executors' \cup Starting') <= announced'
<1>. DEFINE old == executors \cup Starting
            new == executors' \cup Starting'
<1>1. IsFiniteSet(old) /\ new \in SUBSET old
  BY StartingFinite
<1>2. Cardinality(old) <= announced
  BY DEF Capacity
<1>. HIDE DEF old, new
<1>3. /\ IsFiniteSet(new) /\ Cardinality(new) <= Cardinality(old)
      /\ Cardinality(old) \in Nat /\ Cardinality(new) \in Nat
  BY <1>1, FS_Subset, FS_CardinalityType
<1>4. Cardinality(new) <= announced'
  BY <1>2, <1>3
<1>. QED BY <1>4 DEF new

\* The pool takes a manifest's count.
LEMMA SyncCountType ==
    ASSUME PoolTypes, SyncCount
    PROVE  count' \in Nat /\ announced' \in Nat /\ count' <= announced' /\ announced <= announced'
<1>1. count' \in Nat /\ announced' = Max({announced, count'}) /\ announced \in Nat
  BY PoolConstants DEF PoolTypes, SyncCount
<1>2. /\ Max({announced, count'}) \in {announced, count'}
      /\ Max({announced, count'}) >= announced /\ Max({announced, count'}) >= count'
  BY <1>1, PairMax
<1>. QED BY <1>1, <1>2

\* What a token's futures are after one got an outcome.
LEMMA WithFutureIs ==
    ASSUME FutureTypes, NEW t \in Tokens, NEW o \in Outcome
    PROVE  LET f == FutureOf(t)
               w == WithFuture(t, f, o)
           IN  /\ w \in Seq(Outcome) /\ f \in 1 .. Len(w) /\ Len(futures[t]) <= Len(w)
               /\ \A i \in 1 .. Len(w) :
                    \/ w[i] = o
                    \/ i \in 1 .. Len(futures[t]) /\ w[i] = futures[t][i]
<1>. DEFINE f == FutureOf(t)
            s == futures[t]
            w == WithFuture(t, f, o)
<1>1. s \in Seq(Outcome) /\ dict[t] \in Nat /\ dict[t] <= Len(s) /\ Len(s) \in Nat
  BY DEF FutureTypes
<1>2. CASE dict[t] = 0
  <2>1. f = Len(s) + 1 /\ w = Append(s, o)
    BY <1>1, <1>2 DEF FutureOf, WithFuture
  <2>. QED BY <1>1, <2>1, SMTT(60)
<1>3. CASE dict[t] # 0
  <2>1. f = dict[t] /\ f \in 1 .. Len(s)
    BY <1>1, <1>3 DEF FutureOf
  <2>2. w = [s EXCEPT ![f] = IF o = "pending" THEN s[f] ELSE o]
    BY <1>1, <2>1 DEF WithFuture
  <2>. QED BY <1>1, <2>1, <2>2
<1>. QED BY <1>2, <1>3

\* A job request creates a reserver that no future, answer or executor is about yet.
LEMMA ReceiveJobInv ==
    ASSUME PoolInv, NEW t \in Tokens, ReceiveJob(t)
    PROVE  PoolInv'
<1>1. PoolTypes'
  BY PoolConstants DEF PoolInv, PoolTypes, ReceiveJob, poolVars, futureVars, ReserverState, HandlerState
<1>2. Capacity'
  <2>1. announced \in Nat /\ announced' \in Nat /\ announced <= announced'
    BY <1>1 DEF PoolInv, PoolTypes, ReceiveJob, poolVars
  <2>2. executors' \cup Starting' \subseteq executors \cup Starting
    BY DEF PoolInv, PoolTypes, Starting, ReceiveJob, poolVars
  <2>3. \A x \in Tokens : reserver'[x] = "starting" => rlock' = x
    BY PoolConstants DEF PoolInv, PoolTypes, Capacity, ReceiveJob, poolVars
  <2>4. RunningIsTracked'
    BY DEF PoolInv, PoolTypes, Capacity, RunningIsTracked, ReceiveJob, poolVars
  <2>. QED BY <2>1, <2>2, <2>3, <2>4, CapacityKept DEF PoolInv, Capacity
<1>3. ReserverOrder'
  BY PoolConstants DEF PoolInv, PoolTypes, ReserverOrder, ReceiveJob, poolVars, futureVars
<1>4. FutureTypes'
  BY DEF PoolInv, PoolTypes, FutureTypes, ReceiveJob, poolVars, futureVars
<1>5. OutcomesBacked'
  <2>1. reserver[t] = "idle" /\ UNCHANGED futures
    BY DEF PoolInv, ReserverOrder, ReceiveJob, futureVars
  <2>2. \A x \in Tokens \ {t} : reserver'[x] = reserver[x]
    BY DEF PoolInv, PoolTypes, ReceiveJob
  <2>. QED BY <2>1, <2>2 DEF PoolInv, OutcomesBacked
<1>6. AnswerMatchesReservation'
  BY DEF PoolInv, PoolTypes, ReserverOrder, FutureTypes, OutcomesBacked, AnswerMatchesReservation, ReceiveJob, poolVars, futureVars
<1>. QED BY <1>1, <1>2, <1>3, <1>4, <1>5, <1>6 DEF PoolInv

\* A handler that starts to wait refers to a future that exists, and adds no outcome.
LEMMA AwaitReservationInv ==
    ASSUME PoolInv, NEW t \in Tokens, AwaitReservation(t)
    PROVE  PoolInv'
<1>1. PoolTypes'
  BY PoolConstants, SyncCountType DEF PoolInv, PoolTypes, AwaitReservation, ReserverState, HandlerState
<1>2. Capacity'
  <2>1. announced \in Nat /\ announced' \in Nat /\ announced <= announced'
    BY <1>1, SyncCountType DEF PoolInv, PoolTypes, AwaitReservation
  <2>2. executors' \cup Starting' \subseteq executors \cup Starting
    BY DEF PoolInv, PoolTypes, Starting, AwaitReservation
  <2>3. \A x \in Tokens : reserver'[x] = "starting" => rlock' = x
    BY PoolConstants DEF PoolInv, PoolTypes, Capacity, AwaitReservation
  <2>4. RunningIsTracked'
    BY DEF PoolInv, PoolTypes, Capacity, RunningIsTracked, AwaitReservation
  <2>. QED BY <2>1, <2>2, <2>3, <2>4, CapacityKept DEF PoolInv, Capacity
<1>3. ReserverOrder'
  BY PoolConstants DEF PoolInv, PoolTypes, ReserverOrder, AwaitReservation
<1>3a. /\ \A x \in Tokens \ {t} : /\ futures'[x] = futures[x] /\ dict'[x] = dict[x]
                                  /\ awaited'[x] = awaited[x] /\ handler'[x] = handler[x]
       /\ futures'[t] = WithFuture(t, FutureOf(t), "pending")
       /\ dict'[t] = FutureOf(t) /\ awaited'[t] = FutureOf(t)
       /\ DOMAIN futures' = Tokens /\ DOMAIN dict' = Tokens /\ DOMAIN awaited' = Tokens
       /\ UNCHANGED reserver
  BY DEF PoolInv, PoolTypes, FutureTypes, AwaitReservation
<1>3b. LET w == futures'[t] IN
       /\ w \in Seq(Outcome) /\ FutureOf(t) \in 1 .. Len(w) /\ Len(futures[t]) <= Len(w)
       /\ \A i \in 1 .. Len(w) :
            \/ w[i] = "pending"
            \/ i \in 1 .. Len(futures[t]) /\ w[i] = futures[t][i]
  BY <1>3a, WithFutureIs DEF PoolInv, Outcome
<1>4. FutureTypes'
  <2>1. futures' = [x \in Tokens |-> futures'[x]] /\ dict' = [x \in Tokens |-> dict'[x]]
        /\ awaited' = [x \in Tokens |-> awaited'[x]]
    BY DEF PoolInv, FutureTypes, AwaitReservation
  <2>2. ASSUME NEW x \in Tokens
        PROVE  /\ futures'[x] \in Seq(Outcome) /\ dict'[x] \in Nat /\ awaited'[x] \in Nat
               /\ dict'[x] <= Len(futures'[x]) /\ awaited'[x] <= Len(futures'[x])
               /\ handler'[x] = "waiting" => awaited'[x] # 0
    <3>1. CASE x = t
      <4>1. futures'[x] \in Seq(Outcome) /\ FutureOf(t) \in 1 .. Len(futures'[x])
        BY <1>3b, <3>1
      <4>2. dict'[x] = FutureOf(t) /\ awaited'[x] = FutureOf(t)
        BY <1>3a, <3>1
      <4>. QED BY <4>1, <4>2
    <3>2. CASE x # t
      BY <1>3a, <3>2 DEF PoolInv, FutureTypes
    <3>. QED BY <3>1, <3>2
  <2>. QED BY <2>1, <2>2 DEF FutureTypes
<1>5. OutcomesBacked'
  BY <1>3a, <1>3b DEF PoolInv, OutcomesBacked
<1>6. AnswerMatchesReservation'
  BY DEF PoolInv, PoolTypes, ReserverOrder, FutureTypes, OutcomesBacked, AnswerMatchesReservation, AwaitReservation
<1>. QED BY <1>1, <1>2, <1>3, <1>4, <1>5, <1>6 DEF PoolInv

\* An answer is the outcome of the awaited future, which the reserver backs.
LEMMA ReservationDecidedInv ==
    ASSUME PoolInv, NEW t \in Tokens, ReservationDecided(t)
    PROVE  PoolInv'
<1>1. PoolTypes'
  BY PoolConstants DEF PoolInv, PoolTypes, ReservationDecided, poolVars, futureVars, ReserverState, HandlerState
<1>2. Capacity'
  <2>1. announced \in Nat /\ announced' \in Nat /\ announced <= announced'
    BY <1>1 DEF PoolInv, PoolTypes, ReservationDecided, poolVars
  <2>2. executors' \cup Starting' \subseteq executors \cup Starting
    BY DEF PoolInv, PoolTypes, Starting, ReservationDecided, poolVars
  <2>3. \A x \in Tokens : reserver'[x] = "starting" => rlock' = x
    BY PoolConstants DEF PoolInv, PoolTypes, Capacity, ReservationDecided, poolVars
  <2>4. RunningIsTracked'
    BY DEF PoolInv, PoolTypes, Capacity, RunningIsTracked, ReservationDecided, poolVars
  <2>. QED BY <2>1, <2>2, <2>3, <2>4, CapacityKept DEF PoolInv, Capacity
<1>3. ReserverOrder'
  BY PoolConstants DEF PoolInv, PoolTypes, ReserverOrder, ReservationDecided, poolVars, futureVars
<1>4. FutureTypes'
  BY DEF PoolInv, PoolTypes, FutureTypes, ReservationDecided, poolVars, futureVars
<1>5. OutcomesBacked'
  BY DEF PoolInv, PoolTypes, FutureTypes, OutcomesBacked, ReservationDecided, poolVars, futureVars
<1>6. AnswerMatchesReservation'
  BY DEF PoolInv, PoolTypes, ReserverOrder, FutureTypes, OutcomesBacked, AnswerMatchesReservation, ReservationDecided, poolVars, futureVars
<1>. QED BY <1>1, <1>2, <1>3, <1>4, <1>5, <1>6 DEF PoolInv

\* A job whose answer was an acceptance goes on.
LEMMA SpinupDoneInv ==
    ASSUME PoolInv, NEW t \in Tokens, SpinupDone(t)
    PROVE  PoolInv'
<1>1. PoolTypes'
  BY PoolConstants DEF PoolInv, PoolTypes, SpinupDone, poolVars, futureVars, ReserverState, HandlerState
<1>2. Capacity'
  <2>1. announced \in Nat /\ announced' \in Nat /\ announced <= announced'
    BY <1>1 DEF PoolInv, PoolTypes, SpinupDone, poolVars
  <2>2. executors' \cup Starting' \subseteq executors \cup Starting
    BY DEF PoolInv, PoolTypes, Starting, SpinupDone, poolVars
  <2>3. \A x \in Tokens : reserver'[x] = "starting" => rlock' = x
    BY PoolConstants DEF PoolInv, PoolTypes, Capacity, SpinupDone, poolVars
  <2>4. RunningIsTracked'
    BY DEF PoolInv, PoolTypes, Capacity, RunningIsTracked, SpinupDone, poolVars
  <2>. QED BY <2>1, <2>2, <2>3, <2>4, CapacityKept DEF PoolInv, Capacity
<1>3. ReserverOrder'
  BY PoolConstants DEF PoolInv, PoolTypes, ReserverOrder, SpinupDone, poolVars, futureVars
<1>4. FutureTypes'
  BY DEF PoolInv, PoolTypes, FutureTypes, SpinupDone, poolVars, futureVars
<1>5. OutcomesBacked'
  BY DEF PoolInv, PoolTypes, FutureTypes, OutcomesBacked, SpinupDone, poolVars, futureVars
<1>6. AnswerMatchesReservation'
  BY DEF PoolInv, PoolTypes, ReserverOrder, FutureTypes, OutcomesBacked, AnswerMatchesReservation, SpinupDone, poolVars, futureVars
<1>. QED BY <1>1, <1>2, <1>3, <1>4, <1>5, <1>6 DEF PoolInv

\* A cancelled start gives the lock back, and what it leaves running is an orphan.
LEMMA AcceptNotSentInv ==
    ASSUME PoolInv, NEW t \in Tokens, AcceptNotSent(t)
    PROVE  PoolInv'
<1>1. PoolTypes'
  BY PoolConstants DEF PoolInv, PoolTypes, AcceptNotSent, futureVars, ReserverState, HandlerState
<1>2. Capacity'
  <2>1. announced \in Nat /\ announced' \in Nat /\ announced <= announced'
    BY <1>1 DEF PoolInv, PoolTypes, AcceptNotSent
  <2>2. executors' \cup Starting' \subseteq executors \cup Starting
    BY DEF PoolInv, PoolTypes, Starting, AcceptNotSent
  <2>3. \A x \in Tokens : reserver'[x] = "starting" => rlock' = x
    BY PoolConstants DEF PoolInv, PoolTypes, Capacity, AcceptNotSent
  <2>4. RunningIsTracked'
    BY DEF PoolInv, PoolTypes, Capacity, RunningIsTracked, AcceptNotSent
  <2>. QED BY <2>1, <2>2, <2>3, <2>4, CapacityKept DEF PoolInv, Capacity
<1>3. ReserverOrder'
  BY PoolConstants DEF PoolInv, PoolTypes, ReserverOrder, AcceptNotSent, futureVars
<1>4. FutureTypes'
  BY DEF PoolInv, PoolTypes, FutureTypes, AcceptNotSent, futureVars
<1>5. OutcomesBacked'
  BY DEF PoolInv, PoolTypes, FutureTypes, OutcomesBacked, AcceptNotSent, futureVars
<1>6. AnswerMatchesReservation'
  BY DEF PoolInv, PoolTypes, ReserverOrder, FutureTypes, OutcomesBacked, AnswerMatchesReservation, AcceptNotSent, futureVars
<1>. QED BY <1>1, <1>2, <1>3, <1>4, <1>5, <1>6 DEF PoolInv

\* A reserver that has not asked for the lock has given no outcome.
LEMMA EnterReserveInv ==
    ASSUME PoolInv, NEW t \in Tokens, EnterReserve(t)
    PROVE  PoolInv'
<1>1. PoolTypes'
  BY PoolConstants, SyncCountType DEF PoolInv, PoolTypes, EnterReserve, futureVars, ReserverState, HandlerState
<1>2. Capacity'
  <2>1. announced \in Nat /\ announced' \in Nat /\ announced <= announced'
    BY <1>1, SyncCountType DEF PoolInv, PoolTypes, EnterReserve
  <2>2. executors' \cup Starting' \subseteq executors \cup Starting
    BY DEF PoolInv, PoolTypes, Starting, EnterReserve
  <2>3. \A x \in Tokens : reserver'[x] = "starting" => rlock' = x
    BY PoolConstants DEF PoolInv, PoolTypes, Capacity, EnterReserve
  <2>4. RunningIsTracked'
    BY DEF PoolInv, PoolTypes, Capacity, RunningIsTracked, EnterReserve
  <2>. QED BY <2>1, <2>2, <2>3, <2>4, CapacityKept DEF PoolInv, Capacity
<1>3. ReserverOrder'
  BY PoolConstants DEF PoolInv, PoolTypes, ReserverOrder, EnterReserve, futureVars
<1>4. FutureTypes'
  BY DEF PoolInv, PoolTypes, FutureTypes, EnterReserve, futureVars
<1>5. OutcomesBacked'
  BY DEF PoolInv, PoolTypes, FutureTypes, OutcomesBacked, EnterReserve, futureVars
<1>6. AnswerMatchesReservation'
  BY DEF PoolInv, PoolTypes, ReserverOrder, FutureTypes, OutcomesBacked, AnswerMatchesReservation, EnterReserve, futureVars
<1>. QED BY <1>1, <1>2, <1>3, <1>4, <1>5, <1>6 DEF PoolInv

\* The one step that takes a place: nothing else is being started, and the pool has room.
LEMMA TakeReservationLockInv ==
    ASSUME PoolInv, NEW t \in Tokens, TakeReservationLock(t)
    PROVE  PoolInv'
<1>1. PoolTypes'
  BY PoolConstants DEF PoolInv, PoolTypes, TakeReservationLock, ReserverState, HandlerState
<1>2. Capacity'
  <2>0. /\ reserver[t] = "lock" /\ rlock = NoToken
        /\ UNCHANGED <<count, announced, executors, containers, orphans>>
        /\ reserver \in [Tokens -> ReserverState] /\ announced \in Nat
    BY DEF TakeReservationLock, PoolInv, PoolTypes
  <2>1. Starting = {}
    BY <2>0, StartingFinite, PoolConstants DEF PoolInv
  <2>2. RunningIsTracked'
    BY <2>0 DEF PoolInv, Capacity, RunningIsTracked
  <2>3. CASE Availability(count) > 0
    <3>1. reserver' = [reserver EXCEPT ![t] = "starting"] /\ rlock' = t
      BY <2>3 DEF TakeReservationLock
    <3>2. Starting' = {t}
      BY <2>0, <2>1, <3>1 DEF Starting
    <3>3. IsFiniteSet(executors) /\ Cardinality(executors) \in Nat /\ count \in Nat
          /\ count <= announced
      BY FS_CardinalityType DEF PoolInv, PoolTypes
    <3>4. Max({0, count - Cardinality(executors)}) > 0
      BY <2>3 DEF Availability
    <3>5. count - Cardinality(executors) > 0
      <4>. DEFINE left == count - Cardinality(executors)
      <4>1. left \in Int /\ 0 \in Int
        BY <3>3
      <4>2. Max({0, left}) > 0
        BY <3>4
      <4>. HIDE DEF left
      <4>3. Max({0, left}) \in {0, left}
        BY <4>1, PairMax
      <4>4. left > 0
        BY <4>1, <4>2, <4>3
      <4>. QED BY <4>4 DEF left
    <3>6. Cardinality(executors \cup {t}) <= Cardinality(executors) + 1
          /\ Cardinality(executors \cup {t}) \in Nat
      <4>. DEFINE more == executors \cup {t}
      <4>1. /\ IsFiniteSet(more)
            /\ Cardinality(more) = Cardinality(executors)
               \/ Cardinality(more) = Cardinality(executors) + 1
        BY <3>3, FS_AddElement
      <4>. HIDE DEF more
      <4>2. Cardinality(more) \in Nat
        BY <4>1, FS_CardinalityType
      <4>3. Cardinality(more) <= Cardinality(executors) + 1
        BY <3>3, <4>1, <4>2
      <4>. QED BY <4>2, <4>3 DEF more
    <3>7. Cardinality(executors' \cup Starting') <= announced'
      BY <2>0, <3>2, <3>3, <3>5, <3>6
    <3>8. \A x \in Tokens : reserver'[x] = "starting" => rlock' = x
      BY <2>0, <2>1, <3>1 DEF Starting
    <3>. QED BY <2>2, <3>7, <3>8 DEF Capacity
  <2>4. CASE ~(Availability(count) > 0)
    <3>1. reserver' = [reserver EXCEPT ![t] = "busy"]
      BY <2>4 DEF TakeReservationLock
    <3>2. Starting' = {} /\ \A x \in Tokens : reserver'[x] # "starting"
      BY <2>0, <2>1, <3>1 DEF Starting
    <3>. QED BY <2>0, <2>1, <2>2, <3>2, CapacityKept DEF PoolInv, Capacity
  <2>. QED BY <2>3, <2>4
<1>3. ReserverOrder'
  BY PoolConstants DEF PoolInv, PoolTypes, ReserverOrder, TakeReservationLock
<1>3a. PICK o \in {"reserved", "busy"} :
         /\ futures' = [futures EXCEPT ![t] = WithFuture(t, FutureOf(t), o)]
         /\ reserver' = [reserver EXCEPT ![t] = IF o = "reserved" THEN "starting" ELSE "busy"]
         /\ reserver[t] = "lock"
         /\ dict' = [dict EXCEPT ![t] = FutureOf(t)]
         /\ UNCHANGED <<awaited, handler>>
  BY DEF TakeReservationLock
<1>3b. LET w == WithFuture(t, FutureOf(t), o) IN
       /\ w \in Seq(Outcome) /\ FutureOf(t) \in 1 .. Len(w) /\ Len(futures[t]) <= Len(w)
       /\ \A i \in 1 .. Len(w) :
            \/ w[i] = o
            \/ i \in 1 .. Len(futures[t]) /\ w[i] = futures[t][i]
  BY WithFutureIs DEF PoolInv, Outcome
<1>3c. /\ \A x \in Tokens \ {t} : /\ futures'[x] = futures[x] /\ dict'[x] = dict[x]
                                  /\ reserver'[x] = reserver[x]
       /\ futures'[t] = WithFuture(t, FutureOf(t), o) /\ dict'[t] = FutureOf(t)
       /\ reserver'[t] = IF o = "reserved" THEN "starting" ELSE "busy"
  BY <1>3a DEF PoolInv, PoolTypes, FutureTypes
<1>4. FutureTypes'
  <2>1. futures' = [x \in Tokens |-> futures'[x]] /\ dict' = [x \in Tokens |-> dict'[x]]
    BY <1>3a DEF PoolInv, FutureTypes
  <2>2. ASSUME NEW x \in Tokens
        PROVE  /\ futures'[x] \in Seq(Outcome) /\ dict'[x] \in Nat
               /\ dict'[x] <= Len(futures'[x]) /\ awaited[x] <= Len(futures'[x])
    BY <1>3b, <1>3c, SMTT(60) DEF PoolInv, FutureTypes
  <2>. QED BY <1>3a, <2>1, <2>2 DEF PoolInv, FutureTypes
<1>5. OutcomesBacked'
  <2>1. \A i \in 1 .. Len(futures[t]) : futures[t][i] \notin {"reserved", "busy"}
    BY <1>3a DEF PoolInv, OutcomesBacked
  <2>2. ASSUME NEW i \in 1 .. Len(futures'[t])
        PROVE  /\ futures'[t][i] = "reserved" => reserver'[t] = "starting"
               /\ futures'[t][i] = "busy" => reserver'[t] = "busy"
    BY <1>3b, <1>3c, <2>1
  <2>. QED BY <1>3c, <2>2 DEF PoolInv, OutcomesBacked
<1>6. AnswerMatchesReservation'
  BY DEF PoolInv, PoolTypes, ReserverOrder, FutureTypes, OutcomesBacked, AnswerMatchesReservation, TakeReservationLock
<1>. QED BY <1>1, <1>2, <1>3, <1>4, <1>5, <1>6 DEF PoolInv

\* The executor that was being started becomes one of the pool.
LEMMA ExecutorStartedInv ==
    ASSUME PoolInv, NEW t \in Tokens, ExecutorStarted(t)
    PROVE  PoolInv'
<1>1. PoolTypes'
  <2>1. IsFiniteSet(executors \cup {t})
    BY FS_AddElement DEF PoolInv, PoolTypes
  <2>. QED BY <2>1 DEF PoolInv, PoolTypes, ExecutorStarted, ReserverState
<1>2. Capacity'
  <2>1. announced \in Nat /\ announced' \in Nat /\ announced <= announced'
    BY <1>1 DEF PoolInv, PoolTypes, ExecutorStarted
  <2>2. executors' \cup Starting' \subseteq executors \cup Starting
    BY DEF PoolInv, PoolTypes, Starting, ExecutorStarted
  <2>3. \A x \in Tokens : reserver'[x] = "starting" => rlock' = x
    BY PoolConstants DEF PoolInv, PoolTypes, Capacity, ExecutorStarted
  <2>4. RunningIsTracked'
    BY DEF PoolInv, PoolTypes, Capacity, RunningIsTracked, ExecutorStarted
  <2>. QED BY <2>1, <2>2, <2>3, <2>4, CapacityKept DEF PoolInv, Capacity
<1>3. ReserverOrder'
  BY PoolConstants DEF PoolInv, PoolTypes, ReserverOrder, ExecutorStarted, futureVars
<1>4. FutureTypes'
  BY DEF PoolInv, PoolTypes, FutureTypes, ExecutorStarted, futureVars
<1>5. OutcomesBacked'
  BY DEF PoolInv, PoolTypes, FutureTypes, OutcomesBacked, ExecutorStarted, futureVars
<1>6. AnswerMatchesReservation'
  BY DEF PoolInv, PoolTypes, ReserverOrder, FutureTypes, OutcomesBacked, AnswerMatchesReservation, ExecutorStarted, futureVars
<1>. QED BY <1>1, <1>2, <1>3, <1>4, <1>5, <1>6 DEF PoolInv

\* A start that failed gives its place back.
LEMMA ExecutorNotStartedInv ==
    ASSUME PoolInv, NEW t \in Tokens, ExecutorNotStarted(t)
    PROVE  PoolInv'
<1>1. PoolTypes'
  BY PoolConstants DEF PoolInv, PoolTypes, ExecutorNotStarted, futureVars, ReserverState, HandlerState
<1>2. Capacity'
  <2>1. announced \in Nat /\ announced' \in Nat /\ announced <= announced'
    BY <1>1 DEF PoolInv, PoolTypes, ExecutorNotStarted
  <2>2. executors' \cup Starting' \subseteq executors \cup Starting
    BY DEF PoolInv, PoolTypes, Starting, ExecutorNotStarted
  <2>3. \A x \in Tokens : reserver'[x] = "starting" => rlock' = x
    BY PoolConstants DEF PoolInv, PoolTypes, Capacity, ExecutorNotStarted
  <2>4. RunningIsTracked'
    BY DEF PoolInv, PoolTypes, Capacity, RunningIsTracked, ExecutorNotStarted
  <2>. QED BY <2>1, <2>2, <2>3, <2>4, CapacityKept DEF PoolInv, Capacity
<1>3. ReserverOrder'
  BY PoolConstants DEF PoolInv, PoolTypes, ReserverOrder, ExecutorNotStarted, futureVars
<1>4. FutureTypes'
  BY DEF PoolInv, PoolTypes, FutureTypes, ExecutorNotStarted, futureVars
<1>5. OutcomesBacked'
  BY DEF PoolInv, PoolTypes, FutureTypes, OutcomesBacked, ExecutorNotStarted, futureVars
<1>6. AnswerMatchesReservation'
  BY DEF PoolInv, PoolTypes, ReserverOrder, FutureTypes, OutcomesBacked, AnswerMatchesReservation, ExecutorNotStarted, futureVars
<1>. QED BY <1>1, <1>2, <1>3, <1>4, <1>5, <1>6 DEF PoolInv

\* A future that leaves the dictionary keeps its outcome.
LEMMA ClearFutureInv ==
    ASSUME PoolInv, NEW t \in Tokens, ClearFuture(t)
    PROVE  PoolInv'
<1>1. PoolTypes'
  BY PoolConstants DEF PoolInv, PoolTypes, ClearFuture, poolVars, ReserverState, HandlerState
<1>2. Capacity'
  <2>1. announced \in Nat /\ announced' \in Nat /\ announced <= announced'
    BY <1>1 DEF PoolInv, PoolTypes, ClearFuture, poolVars
  <2>2. executors' \cup Starting' \subseteq executors \cup Starting
    BY DEF PoolInv, PoolTypes, Starting, ClearFuture, poolVars
  <2>3. \A x \in Tokens : reserver'[x] = "starting" => rlock' = x
    BY PoolConstants DEF PoolInv, PoolTypes, Capacity, ClearFuture, poolVars
  <2>4. RunningIsTracked'
    BY DEF PoolInv, PoolTypes, Capacity, RunningIsTracked, ClearFuture, poolVars
  <2>. QED BY <2>1, <2>2, <2>3, <2>4, CapacityKept DEF PoolInv, Capacity
<1>3. ReserverOrder'
  BY PoolConstants DEF PoolInv, PoolTypes, ReserverOrder, ClearFuture, poolVars
<1>4. FutureTypes'
  BY DEF PoolInv, PoolTypes, FutureTypes, ClearFuture, poolVars
<1>5. OutcomesBacked'
  BY DEF PoolInv, PoolTypes, FutureTypes, OutcomesBacked, ClearFuture, poolVars
<1>6. AnswerMatchesReservation'
  BY DEF PoolInv, PoolTypes, ReserverOrder, FutureTypes, OutcomesBacked, AnswerMatchesReservation, ClearFuture, poolVars
<1>. QED BY <1>1, <1>2, <1>3, <1>4, <1>5, <1>6 DEF PoolInv

\* An executor that exits leaves the pool to the next cleanup.
LEMMA ContainerExitsInv ==
    ASSUME PoolInv, NEW t \in Tokens, ContainerExits(t)
    PROVE  PoolInv'
<1>1. PoolTypes'
  BY PoolConstants DEF PoolInv, PoolTypes, ContainerExits, futureVars, ReserverState, HandlerState
<1>2. Capacity'
  <2>1. announced \in Nat /\ announced' \in Nat /\ announced <= announced'
    BY <1>1 DEF PoolInv, PoolTypes, ContainerExits
  <2>2. executors' \cup Starting' \subseteq executors \cup Starting
    BY DEF PoolInv, PoolTypes, Starting, ContainerExits
  <2>3. \A x \in Tokens : reserver'[x] = "starting" => rlock' = x
    BY PoolConstants DEF PoolInv, PoolTypes, Capacity, ContainerExits
  <2>4. RunningIsTracked'
    BY DEF PoolInv, PoolTypes, Capacity, RunningIsTracked, ContainerExits
  <2>. QED BY <2>1, <2>2, <2>3, <2>4, CapacityKept DEF PoolInv, Capacity
<1>3. ReserverOrder'
  BY PoolConstants DEF PoolInv, PoolTypes, ReserverOrder, ContainerExits, futureVars
<1>4. FutureTypes'
  BY DEF PoolInv, PoolTypes, FutureTypes, ContainerExits, futureVars
<1>5. OutcomesBacked'
  BY DEF PoolInv, PoolTypes, FutureTypes, OutcomesBacked, ContainerExits, futureVars
<1>6. AnswerMatchesReservation'
  BY DEF PoolInv, PoolTypes, ReserverOrder, FutureTypes, OutcomesBacked, AnswerMatchesReservation, ContainerExits, futureVars
<1>. QED BY <1>1, <1>2, <1>3, <1>4, <1>5, <1>6 DEF PoolInv

\* The cleanup will check executors of the pool.
LEMMA StartCleanupInv ==
    ASSUME PoolInv, NEW a \in Tokens \cup {"loop"}, StartCleanup(a)
    PROVE  PoolInv'
<1>1. PoolTypes'
  BY PoolConstants DEF PoolInv, PoolTypes, StartCleanup, futureVars, ReserverState, HandlerState
<1>2. Capacity'
  <2>1. announced \in Nat /\ announced' \in Nat /\ announced <= announced'
    BY <1>1 DEF PoolInv, PoolTypes, StartCleanup
  <2>2. executors' \cup Starting' \subseteq executors \cup Starting
    BY DEF PoolInv, PoolTypes, Starting, StartCleanup
  <2>3. \A x \in Tokens : reserver'[x] = "starting" => rlock' = x
    BY PoolConstants DEF PoolInv, PoolTypes, Capacity, StartCleanup
  <2>4. RunningIsTracked'
    BY DEF PoolInv, PoolTypes, Capacity, RunningIsTracked, StartCleanup
  <2>. QED BY <2>1, <2>2, <2>3, <2>4, CapacityKept DEF PoolInv, Capacity
<1>3. ReserverOrder'
  BY PoolConstants DEF PoolInv, PoolTypes, ReserverOrder, StartCleanup, futureVars
<1>4. FutureTypes'
  BY DEF PoolInv, PoolTypes, FutureTypes, StartCleanup, futureVars
<1>5. OutcomesBacked'
  BY PoolConstants DEF PoolInv, PoolTypes, ReserverOrder, FutureTypes, OutcomesBacked, StartCleanup, futureVars
<1>6. AnswerMatchesReservation'
  BY PoolConstants DEF PoolInv, PoolTypes, ReserverOrder, FutureTypes, OutcomesBacked, AnswerMatchesReservation, StartCleanup, futureVars
<1>. QED BY <1>1, <1>2, <1>3, <1>4, <1>5, <1>6 DEF PoolInv

\* What the cleanup drops does not run.
LEMMA EndCleanupInv ==
    ASSUME PoolInv, NEW a \in Tokens \cup {"loop"}, EndCleanup(a)
    PROVE  PoolInv'
<1>1. PoolTypes'
  <2>1. executors' \subseteq executors /\ containers' \subseteq containers /\ checked' = {}
        /\ UNCHANGED <<count, announced, handler>>
    BY DEF EndCleanup
  <2>2. IsFiniteSet(executors')
    BY <2>1, FS_Subset DEF PoolInv, PoolTypes
  <2>3. reserver' \in [Tokens -> ReserverState]
    BY DEF PoolInv, PoolTypes, EndCleanup, ReserverState
  <2>. QED BY <2>1, <2>2, <2>3 DEF PoolInv, PoolTypes
<1>2. Capacity'
  <2>1. announced \in Nat /\ announced' \in Nat /\ announced <= announced'
    BY <1>1 DEF PoolInv, PoolTypes, EndCleanup
  <2>2. executors' \cup Starting' \subseteq executors \cup Starting
    BY DEF PoolInv, PoolTypes, Starting, EndCleanup
  <2>3. \A x \in Tokens : reserver'[x] = "starting" => rlock' = x
    BY PoolConstants DEF PoolInv, PoolTypes, Capacity, EndCleanup
  <2>4. RunningIsTracked'
    BY DEF PoolInv, PoolTypes, Capacity, RunningIsTracked, EndCleanup
  <2>. QED BY <2>1, <2>2, <2>3, <2>4, CapacityKept DEF PoolInv, Capacity
<1>3. ReserverOrder'
  BY PoolConstants DEF PoolInv, PoolTypes, ReserverOrder, EndCleanup, futureVars
<1>4. FutureTypes'
  BY DEF PoolInv, PoolTypes, FutureTypes, EndCleanup, futureVars
<1>5. OutcomesBacked'
  BY PoolConstants DEF PoolInv, PoolTypes, ReserverOrder, FutureTypes, OutcomesBacked, EndCleanup, futureVars
<1>6. AnswerMatchesReservation'
  BY PoolConstants DEF PoolInv, PoolTypes, ReserverOrder, FutureTypes, OutcomesBacked, AnswerMatchesReservation, EndCleanup, futureVars
<1>. QED BY <1>1, <1>2, <1>3, <1>4, <1>5, <1>6 DEF PoolInv

\* A cleanup that raised drops nothing, and its reserver gives no outcome.
LEMMA FailCleanupInv ==
    ASSUME PoolInv, NEW a \in Tokens \cup {"loop"}, FailCleanup(a)
    PROVE  PoolInv'
<1>1. PoolTypes'
  BY PoolConstants DEF PoolInv, PoolTypes, FailCleanup, futureVars, ReserverState, HandlerState
<1>2. Capacity'
  <2>1. announced \in Nat /\ announced' \in Nat /\ announced <= announced'
    BY <1>1 DEF PoolInv, PoolTypes, FailCleanup
  <2>2. executors' \cup Starting' \subseteq executors \cup Starting
    BY DEF PoolInv, PoolTypes, Starting, FailCleanup
  <2>3. \A x \in Tokens : reserver'[x] = "starting" => rlock' = x
    BY PoolConstants DEF PoolInv, PoolTypes, Capacity, FailCleanup
  <2>4. RunningIsTracked'
    BY DEF PoolInv, PoolTypes, Capacity, RunningIsTracked, FailCleanup
  <2>. QED BY <2>1, <2>2, <2>3, <2>4, CapacityKept DEF PoolInv, Capacity
<1>3. ReserverOrder'
  BY PoolConstants DEF PoolInv, PoolTypes, ReserverOrder, FailCleanup, futureVars
<1>4. FutureTypes'
  BY DEF PoolInv, PoolTypes, FutureTypes, FailCleanup, futureVars
<1>5. OutcomesBacked'
  BY PoolConstants DEF PoolInv, PoolTypes, ReserverOrder, FutureTypes, OutcomesBacked, FailCleanup, futureVars
<1>6. AnswerMatchesReservation'
  BY PoolConstants DEF PoolInv, PoolTypes, ReserverOrder, FutureTypes, OutcomesBacked, AnswerMatchesReservation, FailCleanup, futureVars
<1>. QED BY <1>1, <1>2, <1>3, <1>4, <1>5, <1>6 DEF PoolInv

-----------------------------------------------------------------------------
(* The pool: the theorem *)

\* Every step of the pool, its handlers and its cleanups keeps the invariant.
LEMMA NextPoolInv == PoolInv /\ [PoolNext]_executorPoolVars => PoolInv'
<1>. SUFFICES ASSUME PoolInv, [PoolNext]_executorPoolVars PROVE PoolInv'
  OBVIOUS
<1>1. ASSUME NEW t \in Tokens, ReceiveJob(t) \/ HandlerStep(t) \/ AcceptNotSent(t)
      PROVE  PoolInv'
  BY <1>1, ReceiveJobInv, AwaitReservationInv, ReservationDecidedInv, SpinupDoneInv,
     AcceptNotSentInv DEF HandlerStep
<1>2. ASSUME NEW t \in Tokens,
             ReserverStep(t) \/ StartStep(t) \/ ClearFuture(t) \/ ContainerExits(t)
      PROVE  PoolInv'
  BY <1>2, EnterReserveInv, TakeReservationLockInv, ExecutorStartedInv,
     ExecutorNotStartedInv, ClearFutureInv, ContainerExitsInv DEF ReserverStep, StartStep
<1>3. ASSUME NEW a \in Tokens \cup {"loop"}, CleanupStep(a)
      PROVE  PoolInv'
  BY <1>3, StartCleanupInv, EndCleanupInv, FailCleanupInv DEF CleanupStep
<1>4. CASE UNCHANGED executorPoolVars
  BY <1>4 DEF executorPoolVars, PoolInv, PoolTypes, Capacity, RunningIsTracked, Starting,
     ReserverOrder, FutureTypes, OutcomesBacked, AnswerMatchesReservation
<1>. QED BY <1>1, <1>2, <1>3, <1>4 DEF PoolNext

\* What a miner's pool promises holds at every moment, whatever the number of
\* jobs, the counts its manifests announce and the order in which reservers,
\* handlers, timers and cleanups run: no more executors than were announced, a
\* reservation behind every acceptance and none behind a refusal, and no
\* running executor the cleanup does not know (reserve_executor,
\* wait_for_executor_reservation and _pool_cleanup).
THEOREM PoolAlwaysSound == PoolSpec => []PoolIsSound
<1>1. PoolInv => PoolIsSound
  <2>. SUFFICES ASSUME PoolInv PROVE PoolIsSound
    OBVIOUS
  <2>1. (containers \ orphans) \cup executors \cup Starting = executors \cup Starting
    BY DEF PoolInv, Capacity, RunningIsTracked
  <2>2. NoOvercommit
    BY <2>1 DEF PoolInv, Capacity, NoOvercommit
  <2>. QED BY <2>2 DEF PoolInv, Capacity, PoolIsSound
<1>. QED BY InitPoolInv, NextPoolInv, <1>1, PTL DEF PoolSpec

-----------------------------------------------------------------------------
(* The relay: what is true of a job's statuses wherever they are *)

WorkerWords == {"ACCEPTED", "COMPLETED", "FAILED"}
Statuses == {"SENT", "RECEIVED", "ACCEPTED"} \cup EndStates
Updates == [job : Jobs, status : Statuses \ {"SENT"}]
WorkerUpdates == [job : Jobs, status : WorkerWords]
Orders == [job : Jobs, what : {"new", "cheated"}]
RequestStates == {"none", "received", "routing", "rejecting", "failing", "waiting", "over"}
WorkerStates == {"none", "queued", "running", "completed", "failed", "done", "dead"}
SdkStates == {"create", "wait", "returned", "raised"}

RelayTypes ==
  /\ sdk \in [st : SdkStates, job : Jobs \cup {0}, attempts : Nat, reported : BOOLEAN,
              ignored : BOOLEAN]
  /\ hist \in [Jobs -> Seq(Statuses)]
  /\ channel \in [Conns -> {"none", "fresh", "stale"}]
  /\ link \in [Conns -> {"unused", "auth", "open", "cut", "closed"}]
  /\ up \in [Conns -> Seq(Updates)] /\ down \in [Conns -> Seq(Orders)]
  /\ ws \in Conns \cup {NoConn}
  /\ task \in [Jobs -> RequestStates]
  /\ celery \in [Jobs -> [st : WorkerStates, saved : BOOLEAN]]
  /\ box \in [Jobs -> Seq(WorkerWords)]
  /\ started \in Seq(WorkerUpdates) /\ retrying \subseteq WorkerUpdates

\* At most one connection is alive, and it is the client's; one that was not
\* used yet was never written to.
Live(c) == link[c] \in {"auth", "open"}
OneLiveLink ==
  /\ \A c, d \in Conns : Live(c) /\ Live(d) => c = d
  /\ \A c \in Conns : link[c] = "open" <=> ws = c
  /\ \A c \in Conns : link[c] = "unused" => channel[c] = "none" /\ down[c] = <<>>

\* A message that can still reach the validator is the only one of its kind: a
\* new job has no task yet, and a report is the first, about a row that is saved.
OrdersComeOnce ==
  /\ \A c \in Conns : Live(c) =>
       /\ \A a, b \in DOMAIN down[c] : down[c][a] = down[c][b] => a = b
       /\ \A m \in ToSet(down[c]) :
            /\ hist[m.job] # <<>>
            /\ m.what = "new" => task[m.job] = "none"
            /\ m.what = "cheated" =>
                 sdk.reported /\ celery[m.job].saved /\ m.job \notin cheated
  /\ cheated # {} => sdk.reported
  /\ ReportsAreHeeded

\* A status of a job that is in its history or on its way there.
Told(j, s) ==
  \/ s \in ToSet(hist[j]) \/ s \in ToSet(box[j])
  \/ Update(j, s) \in retrying \cup ToSet(started)
  \/ \E c \in Conns : Update(j, s) \in ToSet(up[c])

\* What the states of the request and of its worker say of the statuses told.
JobWords(j) ==
  /\ hist[j] = <<>> => task[j] = "none" /\ \A s \in Statuses : ~Told(j, s)
  /\ task[j] \in {"none", "received"} => \A s \in Statuses : Told(j, s) => s = "SENT"
  /\ task[j] \in {"none", "received", "routing", "rejecting"} => celery[j].st = "none"
  /\ task[j] = "failing" => celery[j].st = "none" \/ j \in overdue
  /\ task[j] \in {"routing", "rejecting", "failing", "waiting"} =>
       ~Told(j, "REJECTED") /\ ~Told(j, "HORDE_FAILED")
  /\ celery[j].st = "none" => \A s \in WorkerWords : ~Told(j, s)
  /\ Told(j, "COMPLETED") => celery[j].saved /\ celery[j].st = "done"
  /\ Told(j, "FAILED") => ~celery[j].saved /\ celery[j].st = "done"
  /\ Told(j, "REJECTED") => celery[j].st = "none" /\ ~Told(j, "HORDE_FAILED")
  /\ Told(j, "HORDE_FAILED") => celery[j].st = "none" \/ j \in overdue
WordsAreRight == \A j \in Jobs : JobWords(j)

\* Of a sequence of updates: none is about the job; all of the job's are ends;
\* one is; none of the job's follows an end but an end; RECEIVED comes first.
NoneOf(q, j) == \A m \in ToSet(q) : m.job # j
OnlyEnds(q, j) == \A m \in ToSet(q) : m.job = j => m.status \in EndStates
AnyEnd(q, j) == \E m \in ToSet(q) : m.job = j /\ m.status \in EndStates
EndsLast(q, j) ==
  \A a, b \in DOMAIN q : a < b /\ q[a].job = j /\ q[b].job = j /\ q[a].status \in EndStates =>
    q[b].status \in EndStates
ReceivedFirst(q, j) ==
  \A a, b \in DOMAIN q : a < b /\ q[a].job = j => q[b] # Update(j, "RECEIVED")

\* Of a sequence of statuses of one job.
EndsAtLast(q) ==
  \A a, b \in DOMAIN q : a < b /\ q[a] \in EndStates => q[b] \in EndStates
ReceivedAfterSent(q) ==
  \A a, b \in DOMAIN q : a < b /\ q[b] = "RECEIVED" => q[a] = "SENT"
HasEnd(q) == \E s \in ToSet(q) : s \in EndStates
AllEnds(q) == \A s \in ToSet(q) : s \in EndStates

\* The statuses of a job whose messages were never under way on a broken
\* connection: they are on the connection there is, RECEIVED before all others,
\* and with its history, that connection, the tasks that send and the channel
\* layer in a line, nothing but ends follows an end.
InLine(j) ==
  /\ \A c \in Conns : c # ws => NoneOf(up[c], j)
  /\ \A m \in retrying : m.job # j
  /\ ReceivedAfterSent(hist[j])
  /\ \A c \in Conns :
       /\ ReceivedFirst(up[c], j)
       /\ Update(j, "RECEIVED") \in ToSet(up[c]) => \A s \in ToSet(hist[j]) : s = "SENT"
  /\ j \notin overdue =>
       /\ EndsAtLast(hist[j]) /\ EndsLast(started, j) /\ EndsAtLast(box[j])
       /\ \A c \in Conns :
            /\ EndsLast(up[c], j)
            /\ HasEnd(hist[j]) => OnlyEnds(up[c], j)
            /\ AnyEnd(up[c], j) => OnlyEnds(started, j) /\ AllEnds(box[j])
       /\ HasEnd(hist[j]) => OnlyEnds(started, j) /\ AllEnds(box[j])
       /\ AnyEnd(started, j) => AllEnds(box[j])
LinesAreRight == \A j \in Jobs \ disturbed : InLine(j)

\* The user waits for one job; of the others that it knows of, each has ended.
OthersHaveEnded ==
  /\ sdk.st \in {"wait", "returned"} => sdk.job \in Jobs /\ hist[sdk.job] # <<>>
  /\ \A j \in Jobs : hist[j] # <<>> /\ j \notin extra =>
       (j = sdk.job /\ sdk.st # "create") \/ HasEnd(hist[j])

RelayInv ==
  RelayTypes /\ OneLiveLink /\ OrdersComeOnce /\ WordsAreRight /\ LinesAreRight /\ OthersHaveEnded

\* One more update at the end of a sequence.
LEMMA LineGrows ==
  ASSUME NEW S, NEW q \in Seq(S), NEW m \in S
  PROVE  /\ Append(q, m) \in Seq(S) /\ ToSet(Append(q, m)) = ToSet(q) \cup {m}
         /\ \A j : EndsLast(q, j) /\ (m.job = j /\ AnyEnd(q, j) => m.status \in EndStates) =>
              EndsLast(Append(q, m), j)
         /\ \A j : ReceivedFirst(q, j) /\ (m = Update(j, "RECEIVED") => NoneOf(q, j)) =>
              ReceivedFirst(Append(q, m), j)
         /\ EndsAtLast(q) /\ (HasEnd(q) => m \in EndStates) => EndsAtLast(Append(q, m))
         /\ ReceivedAfterSent(q) /\ (m = "RECEIVED" => \A s \in ToSet(q) : s = "SENT") =>
              ReceivedAfterSent(Append(q, m))
         /\ (\A a, b \in DOMAIN q : q[a] = q[b] => a = b) /\ m \notin ToSet(q) =>
              \A a, b \in DOMAIN Append(q, m) : Append(q, m)[a] = Append(q, m)[b] => a = b
<1> DEFINE r == Append(q, m)
           n == Len(q)
<1>1. /\ r \in Seq(S) /\ n \in Nat /\ DOMAIN q = 1 .. n /\ DOMAIN r = 1 .. n + 1
      /\ r[n + 1] = m /\ \A a \in 1 .. n : r[a] = q[a]
  OBVIOUS
<1> HIDE DEF r, n
<1>2. \A a \in DOMAIN r : (a \in DOMAIN q /\ r[a] = q[a]) \/ (a = n + 1 /\ r[a] = m)
  BY <1>1
<1>3. \A a \in DOMAIN r, b \in DOMAIN r : a < b => a \in DOMAIN q /\ r[a] = q[a]
  BY <1>1
<1>4. \A a \in DOMAIN q : q[a] \in ToSet(q) /\ r[a] \in ToSet(r) /\ a # n + 1
  BY <1>1 DEF ToSet
<1>5. ToSet(r) = ToSet(q) \cup {m}
  BY <1>1, <1>2 DEF ToSet
<1>6. ASSUME NEW j, EndsLast(q, j), m.job = j /\ AnyEnd(q, j) => m.status \in EndStates
      PROVE  EndsLast(r, j)
  BY <1>2, <1>3, <1>4, <1>6 DEF EndsLast, AnyEnd
<1>7. ASSUME NEW j, ReceivedFirst(q, j), m = Update(j, "RECEIVED") => NoneOf(q, j)
      PROVE  ReceivedFirst(r, j)
  BY <1>2, <1>3, <1>4, <1>7 DEF ReceivedFirst, NoneOf
<1>8. ASSUME EndsAtLast(q), HasEnd(q) => m \in EndStates PROVE EndsAtLast(r)
  BY <1>2, <1>3, <1>4, <1>8 DEF EndsAtLast, HasEnd
<1>9. ASSUME ReceivedAfterSent(q), m = "RECEIVED" => \A s \in ToSet(q) : s = "SENT"
      PROVE  ReceivedAfterSent(r)
  BY <1>2, <1>3, <1>4, <1>9 DEF ReceivedAfterSent
<1>10. ASSUME \A a, b \in DOMAIN q : q[a] = q[b] => a = b, m \notin ToSet(q)
       PROVE  \A a, b \in DOMAIN r : r[a] = r[b] => a = b
  BY <1>2, <1>4, <1>10
<1>. QED BY <1>1, <1>5, <1>6, <1>7, <1>8, <1>9, <1>10 DEF r

\* The first update is taken from a sequence.
LEMMA LineMovesUp ==
  ASSUME NEW S, NEW q \in Seq(S), q # <<>>
  PROVE  /\ Head(q) \in S /\ Tail(q) \in Seq(S) /\ ToSet(q) = {Head(q)} \cup ToSet(Tail(q))
         /\ \A j : EndsLast(q, j) =>
              /\ EndsLast(Tail(q), j)
              /\ Head(q).job = j /\ Head(q).status \in EndStates => OnlyEnds(Tail(q), j)
         /\ \A j : ReceivedFirst(q, j) =>
              /\ ReceivedFirst(Tail(q), j)
              /\ Head(q).job = j => Update(j, "RECEIVED") \notin ToSet(Tail(q))
         /\ EndsAtLast(q) => /\ EndsAtLast(Tail(q))
                             /\ Head(q) \in EndStates => AllEnds(Tail(q))
         /\ (\A a, b \in DOMAIN q : q[a] = q[b] => a = b) =>
              /\ Head(q) \notin ToSet(Tail(q))
              /\ \A a, b \in DOMAIN Tail(q) : Tail(q)[a] = Tail(q)[b] => a = b
<1> DEFINE r == Tail(q)
           h == Head(q)
           n == Len(q)
<1>1. /\ r \in Seq(S) /\ h \in S /\ h = q[1] /\ n \in Nat \ {0} /\ DOMAIN q = 1 .. n
      /\ DOMAIN r = 1 .. n - 1
      /\ \A a \in 1 .. n - 1 : r[a] = q[a + 1]
  <2>1. r \in Seq(S) /\ h \in S /\ h = q[1] /\ Len(q) \in Nat /\ DOMAIN q = 1 .. Len(q)
    OBVIOUS
  <2>2. Len(q) # 0
    BY EmptySeq
  <2>3. Len(r) = n - 1 /\ \A a \in 1 .. n - 1 : r[a] = q[a + 1]
    BY <2>1, <2>2
  <2>. QED BY <2>1, <2>2, <2>3
<1> HIDE DEF r, h, n
<1>2. \A a \in DOMAIN r : a + 1 \in DOMAIN q /\ r[a] = q[a + 1] /\ 1 < a + 1 /\ a \in Nat
  BY <1>1
<1>3. 1 \in DOMAIN q
  BY <1>1
<1>4. \A a \in DOMAIN q : a = 1 \/ (a - 1 \in DOMAIN r /\ q[a] = r[a - 1])
  BY <1>1
<1>5. ToSet(q) = {h} \cup ToSet(r)
  BY <1>1, <1>2, <1>3, <1>4, SMTT(60) DEF ToSet
<1>6. \A x \in ToSet(r) : \E a \in DOMAIN r : x = r[a]
  BY DEF ToSet
<1>7. \A a, b \in DOMAIN r : a < b => a + 1 < b + 1
  BY <1>2
<1>8. ASSUME NEW j, EndsLast(q, j)
      PROVE  EndsLast(r, j) /\ (h.job = j /\ h.status \in EndStates => OnlyEnds(r, j))
  <2>1. EndsLast(r, j)
    BY <1>2, <1>7, <1>8 DEF EndsLast
  <2>2. h.job = j /\ h.status \in EndStates => OnlyEnds(r, j)
    BY <1>1, <1>2, <1>3, <1>6, <1>8 DEF EndsLast, OnlyEnds
  <2>. QED BY <2>1, <2>2
<1>9. ASSUME NEW j, ReceivedFirst(q, j)
      PROVE  ReceivedFirst(r, j) /\ (h.job = j => Update(j, "RECEIVED") \notin ToSet(r))
  <2>1. ReceivedFirst(r, j)
    BY <1>2, <1>7, <1>9 DEF ReceivedFirst
  <2>2. h.job = j => Update(j, "RECEIVED") \notin ToSet(r)
    BY <1>1, <1>2, <1>3, <1>6, <1>9 DEF ReceivedFirst
  <2>. QED BY <2>1, <2>2
<1>10. ASSUME EndsAtLast(q) PROVE EndsAtLast(r) /\ (h \in EndStates => AllEnds(r))
  <2>1. EndsAtLast(r)
    BY <1>2, <1>7, <1>10 DEF EndsAtLast
  <2>2. h \in EndStates => AllEnds(r)
    BY <1>1, <1>2, <1>3, <1>6, <1>10, ZenonT(60) DEF EndsAtLast, AllEnds
  <2>. QED BY <2>1, <2>2
<1>11. ASSUME \A a, b \in DOMAIN q : q[a] = q[b] => a = b
       PROVE  h \notin ToSet(r) /\ \A a, b \in DOMAIN r : r[a] = r[b] => a = b
  <2>1. \A a, b \in DOMAIN r : r[a] = r[b] => a = b
    BY <1>2, <1>11
  <2>2. \A a \in DOMAIN r : r[a] # h
    BY <1>1, <1>2, <1>3, <1>11, SMTT(60)
  <2>. QED BY <1>6, <2>1, <2>2
<1>. QED BY <1>1, <1>5, <1>8, <1>9, <1>10, <1>11 DEF r, h

\* The first part of a sequence holds nothing else than the sequence.
LEMMA PartOfLine ==
  ASSUME NEW S, NEW q \in Seq(S), NEW n \in 0 .. Len(q)
  PROVE  SubSeq(q, 1, n) \in Seq(S) /\ ToSet(SubSeq(q, 1, n)) \subseteq ToSet(q)
<1>1. /\ SubSeq(q, 1, n) \in Seq(S) /\ Len(SubSeq(q, 1, n)) = n
      /\ \A i \in 1 .. n : SubSeq(q, 1, n)[i] = q[i]
  BY SubSeqProperties
<1>2. DOMAIN SubSeq(q, 1, n) = 1 .. n /\ DOMAIN q = 1 .. Len(q) /\ 1 .. n \subseteq 1 .. Len(q)
  BY <1>1
<1>. QED BY <1>1, <1>2 DEF ToSet

\* In a line without updates of a job everything is in order.
LEMMA NothingInLine ==
  \A q, j : NoneOf(q, j) =>
    /\ OnlyEnds(q, j) /\ ~AnyEnd(q, j) /\ EndsLast(q, j) /\ ReceivedFirst(q, j)
    /\ Update(j, "RECEIVED") \notin ToSet(q)
<1>. SUFFICES ASSUME NEW q, NEW j, NoneOf(q, j)
     PROVE  /\ OnlyEnds(q, j) /\ ~AnyEnd(q, j) /\ EndsLast(q, j) /\ ReceivedFirst(q, j)
            /\ Update(j, "RECEIVED") \notin ToSet(q)
  OBVIOUS
<1>1. \A a \in DOMAIN q : q[a] \in ToSet(q)
  BY DEF ToSet
<1>2. Update(j, "RECEIVED").job = j
  BY DEF Update
<1>. QED BY <1>1, <1>2 DEF NoneOf, OnlyEnds, AnyEnd, EndsLast, ReceivedFirst

\* An update is its job and its status.
LEMMA UpdateIsPair ==
  /\ \A m \in Updates : m = Update(m.job, m.status) /\ m.job \in Jobs /\ m.status \in Statuses
  /\ \A j, s : Update(j, s).job = j /\ Update(j, s).status = s
  /\ \A j \in Jobs, s \in Statuses \ {"SENT"} : Update(j, s) \in Updates
  /\ WorkerWords \subseteq Statuses /\ WorkerUpdates \subseteq Updates
  /\ \A j \in Jobs, s \in WorkerWords : Update(j, s) \in WorkerUpdates
BY DEF Updates, Update, WorkerUpdates, WorkerWords, Statuses, EndStates

\* What a job was told of is what the lines hold of it.
LEMMA LinesOfWords ==
  ASSUME RelayTypes, NEW j \in Jobs
  PROVE  /\ (\A s \in EndStates : ~Told(j, s)) =>
              /\ ~HasEnd(hist[j]) /\ ~HasEnd(box[j]) /\ ~AnyEnd(started, j)
              /\ \A c \in Conns : ~AnyEnd(up[c], j)
         /\ (\A s \in Statuses : Told(j, s) => s = "SENT") =>
              /\ \A s \in ToSet(hist[j]) : s = "SENT"
              /\ \A c \in Conns : NoneOf(up[c], j)
         /\ (\A s \in WorkerWords : ~Told(j, s)) =>
              /\ NoneOf(started, j) /\ AllEnds(box[j]) /\ \A m \in retrying : m.job # j
<1>1. /\ \A c \in Conns : \A m \in ToSet(up[c]) : m \in Updates
      /\ \A m \in ToSet(started) : m \in WorkerUpdates
      /\ \A m \in retrying : m \in WorkerUpdates
      /\ \A s \in ToSet(hist[j]) : s \in Statuses
      /\ \A s \in ToSet(box[j]) : s \in WorkerWords
  BY DEF RelayTypes, ToSet
<1>2. /\ \A c \in Conns : \A m \in ToSet(up[c]) : m.job = j => Told(j, m.status)
      /\ \A m \in ToSet(started) \cup retrying : m.job = j => Told(j, m.status)
      /\ \A s \in ToSet(hist[j]) \cup ToSet(box[j]) : Told(j, s)
  BY <1>1, UpdateIsPair DEF Told
<1>3. \A m \in WorkerUpdates : m.status \in WorkerWords
  BY DEF WorkerUpdates
<1>4. \A m \in Updates : m.status \in Statuses /\ m.status # "SENT"
  BY DEF Updates
<1>5. ASSUME \A s \in EndStates : ~Told(j, s)
      PROVE  /\ ~HasEnd(hist[j]) /\ ~HasEnd(box[j]) /\ ~AnyEnd(started, j)
             /\ \A c \in Conns : ~AnyEnd(up[c], j)
  BY <1>2, <1>5 DEF HasEnd, AnyEnd
<1>6. ASSUME \A s \in Statuses : Told(j, s) => s = "SENT"
      PROVE  /\ \A s \in ToSet(hist[j]) : s = "SENT"
             /\ \A c \in Conns : NoneOf(up[c], j)
  BY <1>1, <1>2, <1>4, <1>6 DEF NoneOf
<1>7. ASSUME \A s \in WorkerWords : ~Told(j, s)
      PROVE  /\ NoneOf(started, j) /\ AllEnds(box[j]) /\ \A m \in retrying : m.job # j
  BY <1>1, <1>2, <1>3, <1>7 DEF NoneOf, AllEnds
<1>. QED BY <1>5, <1>6, <1>7

\* Steps that move no status.
LEMMA QuietKeepsLines ==
  ASSUME LinesAreRight, UNCHANGED <<hist, up, box, started, retrying>>,
         disturbed \subseteq disturbed', overdue \subseteq overdue', ws' = ws \/ ws \notin Conns
  PROVE  LinesAreRight'
<1>. SUFFICES ASSUME NEW j \in Jobs, j \notin disturbed' PROVE InLine(j)'
  BY DEF LinesAreRight
<1>1. InLine(j)
  BY DEF LinesAreRight
<1>. QED BY <1>1 DEF InLine

\* An update is sent over the connection, by the request's own task or by one
\* of those that were started.
LEMMA SendingKeepsLines ==
  ASSUME RelayTypes, LinesAreRight, ws \in Conns, NEW m \in Updates,
         up' = [up EXCEPT ![ws] = Append(@, m)],
         UNCHANGED <<hist, box, ws>>, disturbed \subseteq disturbed', overdue \subseteq overdue',
         retrying' \subseteq retrying, ToSet(started') \subseteq ToSet(started),
         \A j : EndsLast(started, j) => EndsLast(started', j),
         m.job \notin disturbed /\ m.status = "RECEIVED" =>
           NoneOf(up[ws], m.job) /\ \A s \in ToSet(hist[m.job]) : s = "SENT",
         m.job \notin disturbed \cup overdue =>
           /\ m.status \notin EndStates => ~AnyEnd(up[ws], m.job) /\ ~HasEnd(hist[m.job])
           /\ m.status \in EndStates => OnlyEnds(started', m.job) /\ AllEnds(box[m.job])
  PROVE  LinesAreRight'
<1>. SUFFICES ASSUME NEW j \in Jobs, j \notin disturbed' PROVE InLine(j)'
  BY DEF LinesAreRight
<1>1. InLine(j) /\ j \notin disturbed
  BY DEF LinesAreRight
<1> DEFINE q == up[ws]
           r == Append(q, m)
<1>2. q \in Seq(Updates) /\ up'[ws] = r /\ \A c \in Conns : c # ws => up'[c] = up[c]
  BY DEF RelayTypes
<1>3. /\ ToSet(r) = ToSet(q) \cup {m}
      /\ EndsLast(q, j) /\ (m.job = j /\ AnyEnd(q, j) => m.status \in EndStates) => EndsLast(r, j)
      /\ ReceivedFirst(q, j) /\ (m = Update(j, "RECEIVED") => NoneOf(q, j)) => ReceivedFirst(r, j)
  BY <1>2, LineGrows
<1>4. m = Update(j, "RECEIVED") => m.job = j /\ m.status = "RECEIVED"
  BY UpdateIsPair
<1> HIDE DEF q, r
<1>5. ReceivedFirst(r, j) /\ (Update(j, "RECEIVED") \in ToSet(r) => \A s \in ToSet(hist[j]) : s = "SENT")
  BY <1>1, <1>3, <1>4 DEF InLine, q
<1>6. ASSUME j \notin overdue'
      PROVE  /\ EndsLast(r, j)
             /\ HasEnd(hist[j]) => OnlyEnds(r, j)
             /\ AnyEnd(r, j) => OnlyEnds(started', j) /\ AllEnds(box[j])
  <2>1. j \notin overdue
    BY <1>6
  <2>2. /\ EndsLast(q, j) /\ (HasEnd(hist[j]) => OnlyEnds(q, j))
        /\ (AnyEnd(q, j) => OnlyEnds(started, j) /\ AllEnds(box[j]))
    BY <1>1, <2>1 DEF InLine, q
  <2>3. m.job = j => /\ m.status \notin EndStates => ~AnyEnd(q, j) /\ ~HasEnd(hist[j])
                     /\ m.status \in EndStates => OnlyEnds(started', j) /\ AllEnds(box[j])
    BY <1>1, <2>1 DEF q
  <2>4. EndsLast(r, j)
    BY <1>3, <2>2, <2>3
  <2>5. HasEnd(hist[j]) => OnlyEnds(r, j)
    BY <1>3, <2>2, <2>3 DEF OnlyEnds
  <2>6. OnlyEnds(started, j) => OnlyEnds(started', j)
    BY DEF OnlyEnds
  <2>7. AnyEnd(r, j) => AnyEnd(q, j) \/ (m.job = j /\ m.status \in EndStates)
    BY <1>3 DEF AnyEnd
  <2>. QED BY <2>2, <2>3, <2>4, <2>5, <2>6, <2>7
<1>7. /\ OnlyEnds(started, j) => OnlyEnds(started', j)
      /\ AnyEnd(started', j) => AnyEnd(started, j)
      /\ EndsLast(started, j) => EndsLast(started', j)
  BY SMTT(60) DEF OnlyEnds, AnyEnd
<1>. QED BY <1>1, <1>2, <1>5, <1>6, <1>7 DEF InLine

\* The facilitator's consumer takes an update from a connection.
LEMMA ArrivalKeepsLines ==
  ASSUME RelayTypes, LinesAreRight, NEW c \in Conns, up[c] # <<>>,
         NEW m, m = Head(up[c]), up' = [up EXCEPT ![c] = Tail(@)],
         hist' = IF m.status \in ToSet(hist[m.job]) THEN hist
                 ELSE [hist EXCEPT ![m.job] = Append(@, m.status)],
         UNCHANGED <<box, started, retrying, disturbed, overdue, ws>>
  PROVE  LinesAreRight'
<1>. SUFFICES ASSUME NEW j \in Jobs, j \notin disturbed PROVE InLine(j)'
  BY DEF LinesAreRight
<1>1. InLine(j)
  BY DEF LinesAreRight
<1> DEFINE q == up[c]
           r == Tail(q)
           h == hist[j]
           g == Append(h, m.status)
<1>2. q \in Seq(Updates) /\ up'[c] = r /\ \A d \in Conns : d # c => up'[d] = up[d]
  BY DEF RelayTypes
<1>3. /\ m \in Updates /\ ToSet(q) = {m} \cup ToSet(r)
      /\ EndsLast(q, j) => /\ EndsLast(r, j)
                           /\ m.job = j /\ m.status \in EndStates => OnlyEnds(r, j)
      /\ ReceivedFirst(q, j) => /\ ReceivedFirst(r, j)
                                /\ m.job = j => Update(j, "RECEIVED") \notin ToSet(r)
  BY <1>2, LineMovesUp
<1>4. h \in Seq(Statuses) /\ m.status \in Statuses /\ m.job \in Jobs /\ m = Update(m.job, m.status)
  BY <1>3, UpdateIsPair DEF RelayTypes
<1>5. /\ ToSet(g) = ToSet(h) \cup {m.status}
      /\ EndsAtLast(h) /\ (HasEnd(h) => m.status \in EndStates) => EndsAtLast(g)
      /\ ReceivedAfterSent(h) /\ (m.status = "RECEIVED" => \A s \in ToSet(h) : s = "SENT") =>
           ReceivedAfterSent(g)
  BY <1>4, LineGrows
<1>6. hist'[j] = h \/ (m.job = j /\ hist'[j] = g)
  BY <1>4 DEF RelayTypes
<1> HIDE DEF q, r, h, g
<1>7. NoneOf(q, j) => NoneOf(r, j)
  BY <1>3 DEF NoneOf
<1>8. ReceivedAfterSent(hist'[j])
  BY <1>1, <1>3, <1>4, <1>5, <1>6 DEF InLine, q, h
<1>9. /\ ReceivedFirst(r, j)
      /\ Update(j, "RECEIVED") \in ToSet(r) => \A s \in ToSet(hist'[j]) : s = "SENT"
  BY <1>1, <1>3, <1>6 DEF InLine, q, h
<1>10. m.job = j => c = ws
  BY <1>1, <1>3, SMTT(60) DEF InLine, q, NoneOf
<1>11. \A d \in Conns : Update(j, "RECEIVED") \in ToSet(up'[d]) => \A s \in ToSet(hist'[j]) : s = "SENT"
  <2>. SUFFICES ASSUME NEW d \in Conns, d # c, Update(j, "RECEIVED") \in ToSet(up'[d])
       PROVE  \A s \in ToSet(hist'[j]) : s = "SENT"
    BY <1>2, <1>9
  <2>1. up'[d] = up[d] /\ ~NoneOf(up[d], j)
    BY <1>2, NothingInLine
  <2>2. d = ws
    BY <1>1, <2>1 DEF InLine
  <2>. QED BY <1>1, <1>6, <1>10, <2>1, <2>2 DEF InLine, h
<1>12. ASSUME j \notin overdue
       PROVE  /\ EndsAtLast(hist'[j]) /\ EndsLast(r, j)
              /\ HasEnd(hist'[j]) => /\ OnlyEnds(r, j) /\ OnlyEnds(started, j) /\ AllEnds(box[j])
                                     /\ \A d \in Conns : d # c => OnlyEnds(up[d], j)
              /\ AnyEnd(r, j) => OnlyEnds(started, j) /\ AllEnds(box[j])
  <2>1. /\ EndsAtLast(h) /\ EndsLast(q, j) /\ (HasEnd(h) => OnlyEnds(q, j))
        /\ (AnyEnd(q, j) => OnlyEnds(started, j) /\ AllEnds(box[j]))
        /\ (HasEnd(h) => OnlyEnds(started, j) /\ AllEnds(box[j]))
        /\ \A d \in Conns : HasEnd(h) => OnlyEnds(up[d], j)
    BY <1>1, <1>12 DEF InLine, h, q
  <2>2. /\ OnlyEnds(q, j) => OnlyEnds(r, j) /\ (m.job = j => m.status \in EndStates)
        /\ AnyEnd(r, j) => AnyEnd(q, j)
        /\ m.job = j /\ m.status \in EndStates => AnyEnd(q, j)
    BY <1>3 DEF OnlyEnds, AnyEnd
  <2>3. HasEnd(g) => HasEnd(h) \/ m.status \in EndStates
    BY <1>5, SMTT(60) DEF HasEnd
  <2>4. EndsAtLast(hist'[j])
    BY <1>5, <1>6, <2>1, <2>2
  <2>5. m.job = j => \A d \in Conns : d # c => OnlyEnds(up[d], j)
    BY <1>1, <1>10, NothingInLine DEF InLine
  <2>6. HasEnd(hist'[j]) => HasEnd(h) \/ (m.job = j /\ m.status \in EndStates)
    BY <1>6, <2>3
  <2>. QED BY <1>3, <2>1, <2>2, <2>4, <2>5, <2>6
<1>13. \A d \in Conns : d # ws => NoneOf(up'[d], j)
  BY <1>1, <1>2, <1>7 DEF InLine, q
<1>14. \A d \in Conns : ReceivedFirst(up'[d], j)
  BY <1>1, <1>2, <1>9 DEF InLine
<1>. QED BY <1>1, <1>2, <1>8, <1>11, <1>12, <1>13, <1>14 DEF InLine

\* A worker puts a status into the channel layer.
LEMMA WorkersWordKeepsLines ==
  ASSUME RelayTypes, LinesAreRight, NEW k \in Jobs, NEW w \in WorkerWords,
         box' = [box EXCEPT ![k] = Append(@, w)],
         UNCHANGED <<hist, up, started, retrying, disturbed, overdue, ws>>,
         k \notin disturbed \cup overdue /\ w \notin EndStates =>
           /\ ~HasEnd(hist[k]) /\ ~HasEnd(box[k]) /\ ~AnyEnd(started, k)
           /\ \A c \in Conns : ~AnyEnd(up[c], k)
  PROVE  LinesAreRight'
<1>. SUFFICES ASSUME NEW j \in Jobs, j \notin disturbed PROVE InLine(j)'
  BY DEF LinesAreRight
<1>1. InLine(j)
  BY DEF LinesAreRight
<1>2. CASE j # k
  <2>1. box'[j] = box[j]
    BY <1>2 DEF RelayTypes
  <2>. QED BY <1>1, <2>1 DEF InLine
<1>3. CASE j = k
  <2> DEFINE q == box[k]
             r == Append(q, w)
  <2>1. q \in Seq(WorkerWords) /\ box'[k] = r
    BY DEF RelayTypes
  <2>2. ToSet(r) = ToSet(q) \cup {w} /\ (EndsAtLast(q) /\ (HasEnd(q) => w \in EndStates) => EndsAtLast(r))
    BY <2>1, LineGrows
  <2> HIDE DEF r
  <2>3. AllEnds(q) /\ w \in EndStates => AllEnds(r)
    BY <2>2 DEF AllEnds
  <2>. QED BY <1>1, <1>3, <2>1, <2>2, <2>3 DEF InLine
<1>. QED BY <1>2, <1>3

\* A listener takes a status from the channel layer and starts a task for it.
LEMMA ListeningKeepsLines ==
  ASSUME RelayTypes, LinesAreRight, NEW k \in Jobs, box[k] # <<>>,
         started' = Append(started, Update(k, Head(box[k]))),
         box' = [box EXCEPT ![k] = Tail(@)],
         UNCHANGED <<hist, up, retrying, disturbed, overdue, ws>>
  PROVE  LinesAreRight'
<1>. SUFFICES ASSUME NEW j \in Jobs, j \notin disturbed PROVE InLine(j)'
  BY DEF LinesAreRight
<1>1. InLine(j)
  BY DEF LinesAreRight
<1> DEFINE q == box[k]
           w == Head(q)
           r == Tail(q)
           m == Update(k, w)
           t == Append(started, m)
<1>2. q \in Seq(WorkerWords) /\ box'[k] = r /\ (j # k => box'[j] = box[j])
  BY DEF RelayTypes
<1>3. /\ w \in WorkerWords /\ ToSet(q) = {w} \cup ToSet(r)
      /\ EndsAtLast(q) => EndsAtLast(r) /\ (w \in EndStates => AllEnds(r))
  BY <1>2, LineMovesUp
<1>4. m \in WorkerUpdates /\ started \in Seq(WorkerUpdates) /\ m.job = k /\ m.status = w
  BY <1>3, UpdateIsPair DEF RelayTypes
<1>5. /\ ToSet(t) = ToSet(started) \cup {m}
      /\ EndsLast(started, j) /\ (m.job = j /\ AnyEnd(started, j) => m.status \in EndStates) =>
           EndsLast(t, j)
  BY <1>4, LineGrows
<1> HIDE DEF q, w, r, m, t
<1>6. started' = t
  BY DEF t, m, w, q
<1>7. ASSUME j # k PROVE InLine(j)'
  <2>1. /\ EndsLast(started, j) => EndsLast(t, j)
        /\ OnlyEnds(started, j) => OnlyEnds(t, j)
        /\ AnyEnd(t, j) => AnyEnd(started, j)
    BY <1>4, <1>5, <1>7 DEF OnlyEnds, AnyEnd
  <2>. QED BY <1>1, <1>2, <1>6, <1>7, <2>1 DEF InLine
<1>8. ASSUME j = k PROVE InLine(j)'
  <2>1. /\ OnlyEnds(started, j) /\ w \in EndStates => OnlyEnds(t, j)
        /\ AnyEnd(t, j) => AnyEnd(started, j) \/ w \in EndStates
        /\ AllEnds(q) => AllEnds(r) /\ w \in EndStates
    BY <1>3, <1>4, <1>5 DEF OnlyEnds, AnyEnd, AllEnds
  <2>. QED BY <1>1, <1>2, <1>3, <1>4, <1>5, <1>6, <1>8, <2>1 DEF InLine, q
<1>. QED BY <1>7, <1>8

\* A step that is about one job at most.
LEMMA OneJobsWords ==
  ASSUME WordsAreRight, NEW k, k \in Jobs => JobWords(k)',
         \A i \in Jobs : i # k =>
           /\ task'[i] = task[i] /\ celery'[i] = celery[i] /\ (hist'[i] = <<>> => hist[i] = <<>>)
           /\ \A s \in Statuses : Told(i, s)' => Told(i, s),
         overdue \subseteq overdue'
  PROVE  WordsAreRight'
<1>. SUFFICES ASSUME NEW i \in Jobs, i # k PROVE JobWords(i)'
  BY DEF WordsAreRight
<1>1. JobWords(i)
  BY DEF WordsAreRight
<1>2. {"REJECTED", "HORDE_FAILED", "COMPLETED", "FAILED"} \subseteq Statuses /\ WorkerWords \subseteq Statuses
  BY DEF Statuses, EndStates, WorkerWords
<1>3. /\ task'[i] = task[i] /\ celery'[i] = celery[i] /\ (hist'[i] = <<>> => hist[i] = <<>>)
      /\ i \in overdue => i \in overdue'
  OBVIOUS
<1>4. \A s \in Statuses : Told(i, s)' => Told(i, s)
  OBVIOUS
<1> HIDE DEF Told
<1>. QED BY <1>1, <1>2, <1>3, <1>4 DEF JobWords

\* Where nothing is told that was not told before, and no state changes.
LEMMA WordsStay ==
  ASSUME WordsAreRight, UNCHANGED <<task, celery>>,
         \A i \in Jobs : /\ hist'[i] = <<>> => hist[i] = <<>>
                         /\ \A s \in Statuses : Told(i, s)' => Told(i, s),
         overdue \subseteq overdue'
  PROVE  WordsAreRight'
<1>1. PICK k : k \notin Jobs
  BY DEF Jobs
<1>. QED BY <1>1, OneJobsWords

\* A step of the validator's that leaves the user, the rows of the facilitator
\* and the messages to the validator alone.
LEMMA OthersStay ==
  ASSUME OneLiveLink, OrdersComeOnce, OthersHaveEnded,
         UNCHANGED <<sdk, extra, hist, channel, link, down, ws, cheated>>,
         \A j \in Jobs : task[j] = "none" => task'[j] = "none",
         \A j \in Jobs : celery[j].saved => celery'[j].saved,
         \A c \in Conns : \A m \in ToSet(down[c]) : m.job \in Jobs
  PROVE  OneLiveLink' /\ OrdersComeOnce' /\ OthersHaveEnded'
<1>1. OneLiveLink'
  BY DEF OneLiveLink, Live
<1>2. OthersHaveEnded'
  BY DEF OthersHaveEnded
<1>3. OrdersComeOnce'
  BY DEF OrdersComeOnce, Live, ReportsAreHeeded
<1>. QED BY <1>1, <1>2, <1>3

\* What the types say of one message, job and connection.
LEMMA RelayTypesSay ==
  ASSUME RelayTypes
  PROVE  /\ \A c \in Conns : \A m \in ToSet(down[c]) : m \in Orders /\ m.job \in Jobs
         /\ \A c \in Conns : \A m \in ToSet(up[c]) : m \in Updates
         /\ \A m \in ToSet(started) : m \in WorkerUpdates
         /\ \A j \in Jobs : celery[j].saved \in BOOLEAN /\ celery[j].st \in WorkerStates
         /\ \A j \in Jobs : \A s \in ToSet(hist[j]) : s \in Statuses
         /\ NoConn \notin Conns /\ (ws # NoConn => ws \in Conns)
<1>1. \A c \in Conns : \A m \in ToSet(down[c]) : m \in Orders /\ m.job \in Jobs
  <2>1. \A c \in Conns : \A m \in ToSet(down[c]) : m \in Orders
    BY DEF RelayTypes, ToSet
  <2>. QED BY <2>1 DEF Orders
<1>2. \A c \in Conns : \A m \in ToSet(up[c]) : m \in Updates
  BY DEF RelayTypes, ToSet
<1>3. \A m \in ToSet(started) : m \in WorkerUpdates
  BY DEF RelayTypes, ToSet
<1>4. \A j \in Jobs : celery[j].saved \in BOOLEAN /\ celery[j].st \in WorkerStates
  BY DEF RelayTypes
<1>5. \A j \in Jobs : \A s \in ToSet(hist[j]) : s \in Statuses
  BY DEF RelayTypes, ToSet
<1>6. NoConn \notin Conns /\ (ws # NoConn => ws \in Conns)
  BY RelayAssumption DEF NoConn, Conns, RelayTypes
<1>. QED BY <1>1, <1>2, <1>3, <1>4, <1>5, <1>6

\* Sending an update: nothing else is told.
LEMMA SendingTells ==
  ASSUME RelayTypes, ws \in Conns, NEW m \in Updates, up' = [up EXCEPT ![ws] = Append(@, m)],
         UNCHANGED <<hist, box>>, retrying' \subseteq retrying,
         ToSet(started') \subseteq ToSet(started)
  PROVE  /\ up' \in [Conns -> Seq(Updates)]
         /\ \A j \in Jobs, s \in Statuses :
              Told(j, s)' => Told(j, s) \/ (j = m.job /\ s = m.status)
<1>1. up[ws] \in Seq(Updates)
  BY DEF RelayTypes
<1>2. Append(up[ws], m) \in Seq(Updates) /\ ToSet(Append(up[ws], m)) = ToSet(up[ws]) \cup {m}
  BY <1>1, LineGrows
<1>3. up'[ws] = Append(up[ws], m) /\ \A c \in Conns : c # ws => up'[c] = up[c]
  BY DEF RelayTypes
<1>4. \A c \in Conns : \A x \in ToSet(up'[c]) : x \in ToSet(up[c]) \/ x = m
  BY <1>2, <1>3
<1>5. ASSUME NEW j \in Jobs, NEW s \in Statuses, Told(j, s)'
      PROVE  Told(j, s) \/ (j = m.job /\ s = m.status)
  <2>1. Update(j, s) = m => j = m.job /\ s = m.status
    BY UpdateIsPair
  <2>. QED BY <1>4, <1>5, <2>1 DEF Told
<1>6. up' \in [Conns -> Seq(Updates)]
  BY <1>1, <1>2, <1>3 DEF RelayTypes
<1>. QED BY <1>5, <1>6

\* The request's task says that it received the job.
LEMMA SendReceivedKeeps ==
  ASSUME RelayInv, NEW j \in Jobs, SendReceived(j)
  PROVE  RelayInv'
<1>. USE DEF RelayInv
<1> DEFINE m == Update(j, "RECEIVED")
<1>1. /\ task[j] = "received" /\ ws \in Conns /\ up' = [up EXCEPT ![ws] = Append(@, m)]
      /\ task' = [task EXCEPT ![j] = "routing"]
      /\ UNCHANGED <<sdk, extra, hist, channel, link, down, ws, cheated, celery, box, started,
                     retrying, disturbed, overdue>>
  BY RelayTypesSay DEF SendReceived, Send, sdkVars, facVars, ghostVars
<1>2. m \in Updates /\ m.job = j /\ m.status = "RECEIVED"
  BY UpdateIsPair DEF Statuses
<1> HIDE DEF m
<1>3. /\ up' \in [Conns -> Seq(Updates)]
      /\ \A i \in Jobs, s \in Statuses : Told(i, s)' => Told(i, s) \/ (i = j /\ s = "RECEIVED")
  BY <1>1, <1>2, SendingTells
<1>4. task'[j] = "routing" /\ \A i \in Jobs : i # j => task'[i] = task[i]
  BY <1>1 DEF RelayTypes
<1>5. RelayTypes'
  BY <1>1, <1>3 DEF RelayTypes, RequestStates
<1>6. JobWords(j) /\ "RECEIVED" \notin EndStates \cup WorkerWords
  BY DEF WordsAreRight, EndStates, WorkerWords
<1>7. /\ EndStates \subseteq Statuses /\ WorkerWords \subseteq Statuses /\ "SENT" \notin EndStates
      /\ {"REJECTED", "HORDE_FAILED", "COMPLETED", "FAILED"} \subseteq EndStates
  BY DEF Statuses, EndStates, WorkerWords
<1>8. \A s \in Statuses : Told(j, s) => s = "SENT"
  BY <1>1, <1>6 DEF JobWords
<1>9. hist[j] # <<>> /\ celery[j].st = "none" /\ \A s \in WorkerWords : ~Told(j, s)
  BY <1>1, <1>6 DEF JobWords
<1>10. WordsAreRight'
  <2>1. \A s \in EndStates \cup WorkerWords : ~Told(j, s)'
    BY <1>3, <1>6, <1>7, <1>8, <1>9
  <2>2. JobWords(j)'
    BY <1>1, <1>4, <1>7, <1>9, <2>1 DEF JobWords
  <2>. QED BY <1>1, <1>3, <1>4, <2>2, OneJobsWords
<1>11. LinesAreRight'
  <2>1. (\A s \in ToSet(hist[j]) : s = "SENT") /\ \A c \in Conns : NoneOf(up[c], j)
    BY <1>8, LinesOfWords
  <2>2. ~HasEnd(hist[j]) /\ \A c \in Conns : ~AnyEnd(up[c], j)
    BY <1>7, <2>1, NothingInLine DEF HasEnd
  <2>. QED BY <1>1, <1>2, <1>6, <2>1, <2>2, SendingKeepsLines
<1>12. OneLiveLink' /\ OrdersComeOnce' /\ OthersHaveEnded'
  BY <1>1, <1>4, RelayTypesSay, OthersStay
<1>. QED BY <1>5, <1>10, <1>11, <1>12

\* The words that the proofs tell apart.
LEMMA WordSets ==
  /\ EndStates \subseteq Statuses \ {"SENT"} /\ WorkerWords \subseteq Statuses \ {"SENT"}
  /\ EndStates = {"REJECTED", "HORDE_FAILED", "COMPLETED", "FAILED"}
  /\ WorkerWords = {"ACCEPTED", "COMPLETED", "FAILED"}
  /\ {"REJECTED", "HORDE_FAILED"} \cap WorkerWords = {} /\ "ACCEPTED" \notin EndStates
  /\ "RECEIVED" \notin EndStates \cup WorkerWords
BY DEF Statuses, EndStates, WorkerWords

\* The request's task says that the job was rejected, or failed without a worker.
LEMMA SendLastKeeps ==
  ASSUME RelayInv, NEW j \in Jobs, SendLast(j)
  PROVE  RelayInv'
<1>. USE DEF RelayInv
<1> DEFINE e == IF task[j] = "rejecting" THEN "REJECTED" ELSE "HORDE_FAILED"
           m == Update(j, e)
<1>1. /\ task[j] \in {"rejecting", "failing"} /\ ws \in Conns
      /\ up' = [up EXCEPT ![ws] = Append(@, m)]
      /\ task' = [task EXCEPT ![j] = "over"]
      /\ UNCHANGED <<sdk, extra, hist, channel, link, down, ws, cheated, celery, box, started,
                     retrying, disturbed, overdue>>
  BY RelayTypesSay DEF SendLast, Send, sdkVars, facVars, ghostVars
<1>2. /\ e \in {"REJECTED", "HORDE_FAILED"}
      /\ e = "REJECTED" => task[j] = "rejecting"
      /\ e = "HORDE_FAILED" => task[j] = "failing"
  BY <1>1
<1> HIDE DEF e
<1>3. e \in EndStates /\ e \notin WorkerWords /\ e # "RECEIVED" /\ e \notin {"COMPLETED", "FAILED"}
  BY <1>2, WordSets
<1>4. m \in Updates /\ m.job = j /\ m.status = e
  BY <1>3, UpdateIsPair, WordSets
<1> HIDE DEF m
<1>5. /\ up' \in [Conns -> Seq(Updates)]
      /\ \A i \in Jobs, s \in Statuses : Told(i, s)' => Told(i, s) \/ (i = j /\ s = e)
  BY <1>1, <1>4, SendingTells
<1>6. task'[j] = "over" /\ \A i \in Jobs : i # j => task'[i] = task[i]
  BY <1>1 DEF RelayTypes
<1>7. RelayTypes'
  BY <1>1, <1>5 DEF RelayTypes, RequestStates
<1>8. JobWords(j)
  BY DEF WordsAreRight
<1>9. /\ hist[j] # <<>> /\ ~Told(j, "REJECTED") /\ ~Told(j, "HORDE_FAILED")
      /\ celery[j].st = "none" \/ (e = "HORDE_FAILED" /\ j \in overdue)
  BY <1>1, <1>2, <1>8 DEF JobWords
<1>10. WordsAreRight'
  <2>1. \A s \in Statuses : s # e => (Told(j, s)' => Told(j, s))
    BY <1>5
  <2>2. {"REJECTED", "HORDE_FAILED", "COMPLETED", "FAILED"} \cup WorkerWords \subseteq Statuses
    BY WordSets
  <2>3. JobWords(j)'
    <3>1. /\ celery'[j] = celery[j] /\ hist'[j] = hist[j] /\ overdue' = overdue
      BY <1>1
    <3>2. \A s \in WorkerWords : Told(j, s)' => Told(j, s)
      BY <1>3, <2>1, <2>2
    <3>3. /\ Told(j, "COMPLETED")' => Told(j, "COMPLETED")
          /\ Told(j, "FAILED")' => Told(j, "FAILED")
      BY <1>3, <2>1, <2>2
    <3>4. /\ Told(j, "REJECTED")' => e = "REJECTED" /\ celery[j].st = "none" /\ ~Told(j, "HORDE_FAILED")'
          /\ Told(j, "HORDE_FAILED")' => e = "HORDE_FAILED"
      BY <1>2, <1>9, <2>1, <2>2
    <3>. QED BY <1>6, <1>8, <1>9, <3>1, <3>2, <3>3, <3>4 DEF JobWords
  <2>. QED BY <1>1, <1>5, <1>6, <2>3, OneJobsWords
<1>11. LinesAreRight'
  <2>1. j \notin overdue => OnlyEnds(started, j) /\ AllEnds(box[j])
    BY <1>8, <1>9, LinesOfWords, NothingInLine DEF JobWords
  <2>. QED BY <1>1, <1>3, <1>4, <2>1, SendingKeepsLines
<1>12. OneLiveLink' /\ OrdersComeOnce' /\ OthersHaveEnded'
  BY <1>1, <1>6, RelayTypesSay, OthersStay
<1>. QED BY <1>7, <1>10, <1>11, <1>12

\* A step that moves no status and is about one request and its worker.
LEMMA StateStepKeeps ==
  ASSUME RelayInv, NEW j \in Jobs, task[j] # "none",
         NEW t \in RequestStates, task' = [task EXCEPT ![j] = t],
         NEW w \in [st : WorkerStates, saved : BOOLEAN], celery' = [celery EXCEPT ![j] = w],
         celery[j].saved => w.saved,
         overdue' = overdue \/ overdue' = overdue \cup {j},
         UNCHANGED <<sdk, extra, hist, channel, link, up, down, ws, cheated, box, started,
                     retrying, disturbed>>,
         t = "failing" => w.st = "none" \/ j \in overdue',
         t \notin {"none", "received"},
         t \in {"routing", "rejecting"} => w.st = "none",
         t # "over" => task[j] \in {"routing", "rejecting", "failing", "waiting"},
         w.st = "none" => celery[j].st = "none",
         celery[j].st = "done" => w = celery[j],
         task[j] = "routing" \/ w.st = celery[j].st \/ celery[j].st # "none"
  PROVE  RelayInv'
<1>. USE DEF RelayInv
<1>1. /\ task'[j] = t /\ celery'[j] = w
      /\ \A i \in Jobs : i # j => task'[i] = task[i] /\ celery'[i] = celery[i]
  BY DEF RelayTypes
<1>2. RelayTypes'
  BY DEF RelayTypes
<1>3. \A i, s : Told(i, s)' <=> Told(i, s)
  BY DEF Told
<1>4. JobWords(j)
  BY DEF WordsAreRight
<1>5. WordsAreRight'
  <2>1. hist[j] # <<>> /\ hist'[j] = hist[j] /\ (j \in overdue => j \in overdue')
    BY <1>4 DEF JobWords
  <2>2. t # "over" => ~Told(j, "REJECTED") /\ ~Told(j, "HORDE_FAILED")
    BY <1>4 DEF JobWords
  <2>3. w.st = "none" => \A s \in WorkerWords : ~Told(j, s)
    BY <1>4 DEF JobWords
  <2>4. /\ Told(j, "COMPLETED") => w.saved /\ w.st = "done"
        /\ Told(j, "FAILED") => ~w.saved /\ w.st = "done"
    BY <1>4 DEF JobWords
  <2>5. /\ Told(j, "REJECTED") => w.st = "none" /\ ~Told(j, "HORDE_FAILED")
        /\ Told(j, "HORDE_FAILED") => w.st = "none" \/ j \in overdue'
    BY <1>4, <2>1 DEF JobWords
  <2>6. JobWords(j)'
    BY <1>1, <1>3, <2>1, <2>2, <2>3, <2>4, <2>5 DEF JobWords
  <2>. QED BY <1>1, <1>3, <2>6, OneJobsWords
<1>6. LinesAreRight'
  BY QuietKeepsLines
<1>7. OneLiveLink' /\ OrdersComeOnce' /\ OthersHaveEnded'
  BY <1>1, RelayTypesSay, OthersStay
<1>. QED BY <1>2, <1>5, <1>6, <1>7

\* The worker's state with another place in it.
LEMMA WorkerFields ==
  ASSUME RelayTypes, NEW j \in Jobs, NEW s \in WorkerStates
  PROVE  /\ [celery[j] EXCEPT !.st = s] \in [st : WorkerStates, saved : BOOLEAN]
         /\ [celery[j] EXCEPT !.st = s].st = s
         /\ [celery[j] EXCEPT !.st = s].saved = celery[j].saved
         /\ [celery EXCEPT ![j].st = s] = [celery EXCEPT ![j] = [celery[j] EXCEPT !.st = s]]
<1>1. celery[j] \in [st : WorkerStates, saved : BOOLEAN]
  BY DEF RelayTypes
<1>. QED BY <1>1 DEF RelayTypes

\* No miner, an error, or a worker gets the job.
LEMMA RouteKeeps ==
  ASSUME RelayInv, NEW j \in Jobs, Route(j)
  PROVE  RelayInv'
<1>1. /\ task[j] = "routing"
      /\ UNCHANGED <<sdk, extra, hist, channel, link, up, down, ws, cheated, box, started,
                     retrying, disturbed, overdue>>
  BY DEF Route, sdkVars, facVars, netVars, ghostVars
<1>2. RelayTypes /\ JobWords(j)
  BY DEF RelayInv, WordsAreRight
<1>3. celery[j].st = "none" /\ celery[j] \in [st : WorkerStates, saved : BOOLEAN]
  BY <1>1, <1>2 DEF JobWords, RelayTypes
<1>4. ASSUME NEW t \in {"rejecting", "failing"}, task' = [task EXCEPT ![j] = t], celery' = celery
      PROVE  RelayInv'
  <2>1. celery' = [celery EXCEPT ![j] = celery[j]]
    BY <1>2, <1>4 DEF RelayTypes
  <2>2. t \in RequestStates
    BY DEF RequestStates
  <2>. QED BY <1>1, <1>3, <1>4, <2>1, <2>2, StateStepKeeps
<1>5. ASSUME task' = [task EXCEPT ![j] = "waiting"], celery' = [celery EXCEPT ![j].st = "queued"]
      PROVE  RelayInv'
  <2> DEFINE w == [celery[j] EXCEPT !.st = "queued"]
  <2>1. "queued" \in WorkerStates /\ "waiting" \in RequestStates
    BY DEF WorkerStates, RequestStates
  <2>2. /\ w \in [st : WorkerStates, saved : BOOLEAN] /\ w.st = "queued"
        /\ w.saved = celery[j].saved /\ celery' = [celery EXCEPT ![j] = w]
    BY <1>2, <1>5, <2>1, WorkerFields
  <2> HIDE DEF w
  <2>3. PICK t \in RequestStates : t = "waiting"
    BY <2>1
  <2>4. task' = [task EXCEPT ![j] = t] /\ t \notin {"none", "received", "failing", "rejecting"}
        /\ t # "routing"
    BY <1>5, <2>3
  <2>. QED BY <1>1, <1>3, <2>2, <2>4, StateStepKeeps
<1>. QED BY <1>4, <1>5 DEF Route

\* The result is there, or it is waited for no longer.
LEMMA WaitForResultKeeps ==
  ASSUME RelayInv, NEW j \in Jobs, WaitForResult(j)
  PROVE  RelayInv'
<1>1. /\ task[j] = "waiting"
      /\ UNCHANGED <<sdk, extra, hist, channel, link, up, down, ws, cheated, box, started,
                     retrying, disturbed>>
  BY DEF WaitForResult, sdkVars, facVars, netVars
<1>2. RelayTypes
  BY DEF RelayInv
<1>3. /\ celery[j] \in [st : WorkerStates, saved : BOOLEAN]
      /\ celery = [celery EXCEPT ![j] = celery[j]]
      /\ {"over", "failing"} \subseteq RequestStates /\ "dead" \in WorkerStates
  BY <1>2 DEF RelayTypes, RequestStates, WorkerStates
<1> DEFINE u == celery[j]
<1>7. u \in [st : WorkerStates, saved : BOOLEAN] /\ celery = [celery EXCEPT ![j] = u] /\ u = celery[j]
  BY <1>3
<1> HIDE DEF u
<1>8. PICK o \in RequestStates, f \in RequestStates : o = "over" /\ f = "failing"
  BY <1>3
<1>4. CASE task' = [task EXCEPT ![j] = "over"] /\ celery' = celery /\ overdue' = overdue
  <2>1. task' = [task EXCEPT ![j] = o] /\ celery' = [celery EXCEPT ![j] = u] /\ overdue' = overdue
    BY <1>4, <1>7, <1>8
  <2>. QED BY <1>1, <1>7, <1>8, <2>1, StateStepKeeps
<1>5. CASE /\ celery[j].st # "done" /\ task' = [task EXCEPT ![j] = "failing"]
           /\ overdue' = overdue \cup {j} /\ celery' = celery
  <2>1. /\ task' = [task EXCEPT ![j] = f] /\ celery' = [celery EXCEPT ![j] = u]
        /\ overdue' = overdue \cup {j} /\ j \in overdue'
    BY <1>5, <1>7, <1>8
  <2>. QED BY <1>1, <1>7, <1>8, <2>1, StateStepKeeps
<1>6. CASE /\ celery[j].st = "queued" /\ task' = [task EXCEPT ![j] = "failing"]
           /\ overdue' = overdue \cup {j} /\ celery' = [celery EXCEPT ![j].st = "dead"]
  <2> DEFINE w == [celery[j] EXCEPT !.st = "dead"]
  <2>1. /\ w \in [st : WorkerStates, saved : BOOLEAN] /\ w.st = "dead"
        /\ w.saved = celery[j].saved /\ celery' = [celery EXCEPT ![j] = w]
    BY <1>2, <1>3, <1>6, WorkerFields
  <2> HIDE DEF w
  <2>2. /\ task' = [task EXCEPT ![j] = f] /\ overdue' = overdue \cup {j} /\ j \in overdue'
        /\ celery[j].st = "queued"
    BY <1>6, <1>8
  <2>. QED BY <1>1, <1>8, <2>1, <2>2, StateStepKeeps
<1>. QED BY <1>4, <1>5, <1>6 DEF WaitForResult

\* The worker's states, with what its request is doing meanwhile.
LEMMA WorkersRequest ==
  ASSUME RelayInv, NEW j \in Jobs, celery[j].st # "none"
  PROVE  /\ task[j] \in {"failing", "waiting", "over"} /\ task[j] \in RequestStates
         /\ task[j] = "failing" => j \in overdue
         /\ task = [task EXCEPT ![j] = task[j]]
<1>1. RelayTypes /\ JobWords(j)
  BY DEF RelayInv, WordsAreRight
<1>. QED BY <1>1 DEF JobWords, RelayTypes, RequestStates

\* The worker saves how the job ended, or dies.
LEMMA WorkerSavesKeeps ==
  ASSUME RelayInv, NEW j \in Jobs, WorkerSaves(j)
  PROVE  RelayInv'
<1>1. /\ celery[j].st = "running"
      /\ UNCHANGED <<sdk, extra, hist, channel, link, up, down, ws, cheated, box, started,
                     retrying, disturbed, overdue, task>>
  BY DEF WorkerSaves, sdkVars, facVars, netVars
<1>2. RelayTypes
  BY DEF RelayInv
<1>3. /\ task[j] \in {"failing", "waiting", "over"} /\ task[j] \in RequestStates
      /\ task[j] = "failing" => j \in overdue
      /\ task' = [task EXCEPT ![j] = task[j]]
  BY <1>1, WorkersRequest
<1>4. {"completed", "failed", "dead"} \subseteq WorkerStates
  BY DEF WorkerStates
<1>5. CASE celery' = [celery EXCEPT ![j] = [st |-> "completed", saved |-> TRUE]]
  <2> DEFINE w == [st |-> "completed", saved |-> TRUE]
  <2>1. w \in [st : WorkerStates, saved : BOOLEAN] /\ w.st = "completed" /\ w.saved
    BY <1>4
  <2>2. celery' = [celery EXCEPT ![j] = w]
    BY <1>5
  <2> HIDE DEF w
  <2>. QED BY <1>1, <1>3, <2>1, <2>2, StateStepKeeps
<1>6. ASSUME NEW s \in {"failed", "dead"}, celery' = [celery EXCEPT ![j].st = s]
      PROVE  RelayInv'
  <2> DEFINE w == [celery[j] EXCEPT !.st = s]
  <2>1. /\ w \in [st : WorkerStates, saved : BOOLEAN] /\ w.st = s
        /\ w.saved = celery[j].saved /\ celery' = [celery EXCEPT ![j] = w]
    BY <1>2, <1>4, <1>6, WorkerFields
  <2> HIDE DEF w
  <2>. QED BY <1>1, <1>3, <2>1, StateStepKeeps
<1>. QED BY <1>5, <1>6 DEF WorkerSaves

\* The worker puts a status into the channel layer and goes on.
LEMMA WorkerSpeaks ==
  ASSUME RelayInv, NEW j \in Jobs, NEW s \in WorkerWords, NEW p \in WorkerStates,
         celery[j].st # "none", celery' = [celery EXCEPT ![j].st = p],
         box' = [box EXCEPT ![j] = Append(@, s)],
         UNCHANGED <<sdk, extra, hist, channel, link, up, down, ws, cheated, started,
                     retrying, disturbed, overdue, task>>,
         celery[j].st # "done", p # "none",
         s \in EndStates => p = "done" /\ (s = "COMPLETED" <=> celery[j].saved)
  PROVE  RelayInv'
<1>. USE DEF RelayInv
<1> DEFINE w == [celery[j] EXCEPT !.st = p]
<1>1. /\ w \in [st : WorkerStates, saved : BOOLEAN] /\ w.st = p
      /\ w.saved = celery[j].saved /\ celery' = [celery EXCEPT ![j] = w]
  BY WorkerFields
<1> HIDE DEF w
<1>2. celery'[j] = w /\ \A i \in Jobs : i # j => celery'[i] = celery[i]
  BY <1>1 DEF RelayTypes
<1>3. box[j] \in Seq(WorkerWords)
  BY DEF RelayTypes
<1>4. Append(box[j], s) \in Seq(WorkerWords) /\ ToSet(Append(box[j], s)) = ToSet(box[j]) \cup {s}
  BY <1>3, LineGrows
<1>5. box'[j] = Append(box[j], s) /\ \A i \in Jobs : i # j => box'[i] = box[i]
  BY DEF RelayTypes
<1>6. RelayTypes'
  <2>1. box' \in [Jobs -> Seq(WorkerWords)]
    BY <1>4 DEF RelayTypes
  <2>2. celery' \in [Jobs -> [st : WorkerStates, saved : BOOLEAN]]
    BY <1>1 DEF RelayTypes
  <2>. QED BY <2>1, <2>2 DEF RelayTypes
<1>7. \A i \in Jobs : \A x : Told(i, x)' => Told(i, x) \/ (i = j /\ x = s)
  BY <1>4, <1>5 DEF Told
<1>8. JobWords(j)
  BY DEF WordsAreRight
<1>9. ~Told(j, "COMPLETED") /\ ~Told(j, "FAILED") /\ ~Told(j, "REJECTED")
      /\ (Told(j, "HORDE_FAILED") => j \in overdue)
  BY <1>8 DEF JobWords
<1>10. task[j] \in {"failing", "waiting", "over"} /\ (task[j] = "failing" => j \in overdue)
  BY WorkersRequest
<1>11. WordsAreRight'
  <2>1. s \in {"ACCEPTED", "COMPLETED", "FAILED"} /\ s \notin {"REJECTED", "HORDE_FAILED"}
    BY WordSets
  <2>2. /\ Told(j, "COMPLETED")' => s = "COMPLETED"
        /\ Told(j, "FAILED")' => s = "FAILED"
        /\ ~Told(j, "REJECTED")'
        /\ Told(j, "HORDE_FAILED")' => Told(j, "HORDE_FAILED")
    BY <1>7, <1>9, <2>1
  <2>3. {"COMPLETED", "FAILED"} \subseteq EndStates
    BY WordSets
  <2>4. /\ Told(j, "COMPLETED")' => w.saved /\ w.st = "done"
        /\ Told(j, "FAILED")' => ~w.saved /\ w.st = "done"
    BY <1>1, <2>2, <2>3
  <2>5. hist[j] # <<>> /\ w.st # "none"
    BY <1>1, <1>8, <1>10 DEF JobWords
  <2>6. task[j] \in {"failing", "waiting"} => ~Told(j, "HORDE_FAILED")
    BY <1>8 DEF JobWords
  <2>7. JobWords(j)'
    BY <1>2, <1>9, <1>10, <2>2, <2>4, <2>5, <2>6 DEF JobWords
  <2>. QED BY <1>2, <1>7, <2>7, OneJobsWords
<1>12. LinesAreRight'
  <2>1. j \notin overdue => \A x \in EndStates : ~Told(j, x)
    BY <1>9, WordSets
  <2>2. j \notin overdue => /\ ~HasEnd(hist[j]) /\ ~HasEnd(box[j]) /\ ~AnyEnd(started, j)
                            /\ \A c \in Conns : ~AnyEnd(up[c], j)
    BY <2>1, LinesOfWords
  <2>. QED BY <2>2, WorkersWordKeepsLines
<1>13. OneLiveLink' /\ OrdersComeOnce' /\ OthersHaveEnded'
  BY <1>1, <1>2, RelayTypesSay, OthersStay
<1>. QED BY <1>6, <1>11, <1>12, <1>13

\* The worker accepts the job, or tells how it ended.
LEMMA WorkerTellsKeeps ==
  ASSUME RelayInv, NEW j \in Jobs, WorkerAccepts(j) \/ WorkerNotifies(j)
  PROVE  RelayInv'
<1>1. {"running", "done"} \subseteq WorkerStates
  BY DEF WorkerStates
<1>2. UNCHANGED <<sdk, extra, hist, channel, link, up, down, ws, cheated, started,
                  retrying, disturbed, overdue, task>>
  BY DEF WorkerAccepts, WorkerNotifies, sdkVars, facVars, netVars, ghostVars
<1>3. CASE WorkerAccepts(j)
  <2>1. /\ celery[j].st = "queued" /\ celery' = [celery EXCEPT ![j].st = "running"]
        /\ box' = [box EXCEPT ![j] = Append(@, "ACCEPTED")]
    BY <1>3 DEF WorkerAccepts
  <2>2. "ACCEPTED" \in WorkerWords /\ "ACCEPTED" \notin EndStates
    BY WordSets
  <2>. QED BY <1>1, <1>2, <2>1, <2>2, WorkerSpeaks
<1>4. CASE WorkerNotifies(j)
  <2> DEFINE s == IF celery[j].saved THEN "COMPLETED" ELSE "FAILED"
  <2>1. /\ celery[j].st \in {"completed", "failed"} /\ celery' = [celery EXCEPT ![j].st = "done"]
        /\ box' = [box EXCEPT ![j] = Append(@, s)]
    BY <1>4 DEF WorkerNotifies
  <2>2. s \in WorkerWords /\ s \in EndStates /\ (s = "COMPLETED" <=> celery[j].saved)
    BY WordSets
  <2> HIDE DEF s
  <2>. QED BY <1>1, <1>2, <2>1, <2>2, WorkerSpeaks
<1>. QED BY <1>3, <1>4

\* A listener starts a task for a status.
LEMMA ListenKeeps ==
  ASSUME RelayInv, NEW j \in Jobs, Listen(j)
  PROVE  RelayInv'
<1>. USE DEF RelayInv
<1> DEFINE q == box[j]
           m == Update(j, Head(q))
<1>1. /\ q # <<>> /\ started' = Append(started, m) /\ box' = [box EXCEPT ![j] = Tail(@)]
      /\ UNCHANGED <<sdk, extra, hist, channel, link, up, down, ws, cheated, task, celery,
                     retrying, disturbed, overdue>>
  BY DEF Listen, sdkVars, facVars, netVars, ghostVars
<1>2. /\ q \in Seq(WorkerWords) /\ box'[j] = Tail(q)
      /\ \A i \in Jobs : i # j => box'[i] = box[i]
  BY <1>1 DEF RelayTypes
<1>3. Head(q) \in WorkerWords /\ Tail(q) \in Seq(WorkerWords) /\ ToSet(q) = {Head(q)} \cup ToSet(Tail(q))
  BY <1>1, <1>2, LineMovesUp
<1>4. m \in WorkerUpdates /\ m.job = j /\ m.status = Head(q) /\ started \in Seq(WorkerUpdates)
  BY <1>3, UpdateIsPair DEF RelayTypes
<1>5. started' \in Seq(WorkerUpdates) /\ ToSet(started') = ToSet(started) \cup {m}
  BY <1>1, <1>4, LineGrows
<1>6. RelayTypes'
  <2>1. box' \in [Jobs -> Seq(WorkerWords)]
    BY <1>1, <1>3 DEF RelayTypes
  <2>. QED BY <1>1, <1>5, <2>1 DEF RelayTypes
<1>7. \A i \in Jobs : \A s \in Statuses : Told(i, s)' => Told(i, s)
  <2>. SUFFICES ASSUME NEW i \in Jobs, NEW s \in Statuses, Told(i, s)' PROVE Told(i, s)
    OBVIOUS
  <2>1. Update(i, s) = m => i = j /\ s = Head(q)
    BY <1>4, UpdateIsPair
  <2>2. Head(q) \in ToSet(box[j])
    BY <1>3
  <2>3. s \in ToSet(box'[i]) => s \in ToSet(box[i])
    BY <1>2, <1>3
  <2> HIDE DEF m, q
  <2>. QED BY <1>1, <1>5, <2>1, <2>2, <2>3 DEF Told
<1>8. WordsAreRight'
  BY <1>1, <1>7, WordsStay
<1>9. LinesAreRight'
  BY <1>1, ListeningKeepsLines
<1>10. OneLiveLink' /\ OrdersComeOnce' /\ OthersHaveEnded'
  BY <1>1, RelayTypesSay, OthersStay
<1>. QED BY <1>6, <1>8, <1>9, <1>10

\* A task sends its status, or finds no connection.
LEMMA FirstTryKeeps ==
  ASSUME RelayInv, FirstTry
  PROVE  RelayInv'
<1>. USE DEF RelayInv
<1> DEFINE m == Head(started)
<1>1. /\ started # <<>> /\ started' = Tail(started)
      /\ UNCHANGED <<sdk, extra, hist, channel, link, down, ws, cheated, task, celery, box, overdue>>
  BY DEF FirstTry, sdkVars, facVars
<1>2. started \in Seq(WorkerUpdates)
  BY DEF RelayTypes
<1>3. /\ m \in WorkerUpdates /\ started' \in Seq(WorkerUpdates)
      /\ ToSet(started) = {m} \cup ToSet(started')
      /\ \A j : EndsLast(started, j) =>
           /\ EndsLast(started', j)
           /\ m.job = j /\ m.status \in EndStates => OnlyEnds(started', j)
  BY <1>1, <1>2, LineMovesUp
<1>4. /\ m = Update(m.job, m.status) /\ m.job \in Jobs /\ m.status \in Statuses /\ m \in Updates
      /\ m.status \in WorkerWords
  BY <1>3, UpdateIsPair DEF WorkerUpdates
<1>5. OneLiveLink' /\ OrdersComeOnce' /\ OthersHaveEnded'
  BY <1>1, RelayTypesSay, OthersStay
<1>6. CASE ws # NoConn
  <2>1. ws \in Conns
    BY <1>6, RelayTypesSay
  <2>2. up' = [up EXCEPT ![ws] = Append(@, m)] /\ UNCHANGED <<retrying, disturbed>>
    BY <1>4, <1>6 DEF FirstTry, Send
  <2>3. Told(m.job, m.status)
    BY <1>3, <1>4 DEF Told
  <2> HIDE DEF m
  <2>4. /\ up' \in [Conns -> Seq(Updates)]
        /\ \A i \in Jobs, s \in Statuses : Told(i, s)' => Told(i, s) \/ (i = m.job /\ s = m.status)
    BY <1>1, <1>3, <1>4, <2>1, <2>2, SendingTells
  <2>5. WordsAreRight'
    BY <1>1, <2>3, <2>4, WordsStay
  <2>6. RelayTypes'
    BY <1>1, <1>3, <2>2, <2>4 DEF RelayTypes
  <2>7. m.status # "RECEIVED"
    BY <1>4, WordSets
  <2>8. m.job \notin disturbed \cup overdue =>
          /\ m.status \notin EndStates => ~AnyEnd(up[ws], m.job) /\ ~HasEnd(hist[m.job])
          /\ m.status \in EndStates => OnlyEnds(started', m.job) /\ AllEnds(box[m.job])
    <3>. SUFFICES ASSUME m.job \notin disturbed, m.job \notin overdue
         PROVE  /\ m.status \notin EndStates => ~AnyEnd(up[ws], m.job) /\ ~HasEnd(hist[m.job])
                /\ m.status \in EndStates => OnlyEnds(started', m.job) /\ AllEnds(box[m.job])
      OBVIOUS
    <3>1. InLine(m.job)
      BY <1>4 DEF LinesAreRight
    <3>2. /\ EndsLast(started, m.job)
          /\ AnyEnd(up[ws], m.job) => OnlyEnds(started, m.job)
          /\ HasEnd(hist[m.job]) => OnlyEnds(started, m.job)
          /\ AnyEnd(started, m.job) => AllEnds(box[m.job])
      BY <2>1, <3>1 DEF InLine
    <3>3. /\ OnlyEnds(started, m.job) => m.status \in EndStates
          /\ m.status \in EndStates => AnyEnd(started, m.job)
      BY <1>3 DEF OnlyEnds, AnyEnd
    <3>. QED BY <1>3, <3>2, <3>3
  <2>9. LinesAreRight'
    BY <1>1, <1>3, <1>4, <2>1, <2>2, <2>7, <2>8, SendingKeepsLines
  <2>. QED BY <1>5, <2>5, <2>6, <2>9
<1>7. CASE ws = NoConn
  <2>1. /\ retrying' = retrying \cup {m} /\ disturbed' = disturbed \cup {m.job} /\ up' = up
    BY <1>7 DEF FirstTry
  <2> HIDE DEF m
  <2>2. RelayTypes'
    BY <1>1, <1>3, <2>1 DEF RelayTypes
  <2>3. \A i \in Jobs : \A s \in Statuses : Told(i, s)' => Told(i, s)
    BY <1>1, <1>3, <2>1 DEF Told
  <2>4. WordsAreRight'
    BY <1>1, <2>3, WordsStay
  <2>5. LinesAreRight'
    <3>. SUFFICES ASSUME NEW j \in Jobs, j \notin disturbed' PROVE InLine(j)'
      BY DEF LinesAreRight
    <3>1. InLine(j) /\ j # m.job
      BY <2>1 DEF LinesAreRight
    <3>2. /\ EndsLast(started, j) => EndsLast(started', j)
          /\ OnlyEnds(started, j) => OnlyEnds(started', j)
          /\ AnyEnd(started', j) => AnyEnd(started, j)
      BY <1>3 DEF OnlyEnds, AnyEnd
    <3>. QED BY <1>1, <2>1, <3>1, <3>2 DEF InLine
  <2>. QED BY <1>5, <2>2, <2>4, <2>5
<1>. QED BY <1>6, <1>7

\* A task that waited sends its status.
LEMMA TryAgainKeeps ==
  ASSUME RelayInv, NEW m \in retrying, TryAgain(m)
  PROVE  RelayInv'
<1>. USE DEF RelayInv
<1>1. m \in WorkerUpdates
  BY DEF RelayTypes
<1>2. m = Update(m.job, m.status) /\ m.job \in Jobs /\ m.status \in Statuses /\ m \in Updates
  BY <1>1, UpdateIsPair
<1>3. /\ ws \in Conns /\ up' = [up EXCEPT ![ws] = Append(@, m)] /\ retrying' = retrying \ {m}
      /\ UNCHANGED <<sdk, extra, hist, channel, link, down, ws, cheated, task, celery, box, started,
                     disturbed, overdue>>
  BY <1>2, RelayTypesSay DEF TryAgain, Send, sdkVars, facVars, ghostVars
<1>4. Told(m.job, m.status)
  BY <1>2 DEF Told
<1>5. /\ up' \in [Conns -> Seq(Updates)]
      /\ \A i \in Jobs, s \in Statuses : Told(i, s)' => Told(i, s) \/ (i = m.job /\ s = m.status)
  BY <1>2, <1>3, SendingTells
<1>6. WordsAreRight'
  BY <1>3, <1>4, <1>5, WordsStay
<1>7. RelayTypes'
  BY <1>3, <1>5 DEF RelayTypes
<1>8. m.job \in disturbed
  BY <1>2 DEF LinesAreRight, InLine
<1>9. LinesAreRight'
  BY <1>2, <1>3, <1>8, SendingKeepsLines
<1>10. OneLiveLink' /\ OrdersComeOnce' /\ OthersHaveEnded'
  BY <1>3, RelayTypesSay, OthersStay
<1>. QED BY <1>6, <1>7, <1>9, <1>10

\* The facilitator's consumer adds a status to a job's history.
LEMMA JobStatusUpdateKeeps ==
  ASSUME RelayInv, NEW c \in Conns, JobStatusUpdate(c)
  PROVE  RelayInv'
<1>. USE DEF RelayInv
<1> DEFINE m == Head(up[c])
           k == m.job
           g == Append(hist[k], m.status)
<1>1. /\ up[c] # <<>> /\ up' = [up EXCEPT ![c] = Tail(@)]
      /\ hist' = IF m.status \in ToSet(hist[k]) THEN hist ELSE [hist EXCEPT ![k] = g]
      /\ UNCHANGED <<sdk, extra, channel, link, down, ws, cheated, task, celery, box, started,
                     retrying, disturbed, overdue>>
  BY DEF JobStatusUpdate, sdkVars, valVars, ghostVars
<1>2. up[c] \in Seq(Updates) /\ up'[c] = Tail(up[c]) /\ \A d \in Conns : d # c => up'[d] = up[d]
  BY <1>1 DEF RelayTypes
<1>3. /\ m \in Updates /\ Tail(up[c]) \in Seq(Updates)
      /\ ToSet(up[c]) = {m} \cup ToSet(Tail(up[c]))
  BY <1>1, <1>2, LineMovesUp
<1>4. m = Update(k, m.status) /\ k \in Jobs /\ m.status \in Statuses
  BY <1>3, UpdateIsPair
<1>5. hist[k] \in Seq(Statuses)
  BY <1>4 DEF RelayTypes
<1>6. g \in Seq(Statuses) /\ ToSet(g) = ToSet(hist[k]) \cup {m.status} /\ g # <<>>
  BY <1>4, <1>5, LineGrows, SMTT(60)
<1>7. LinesAreRight'
  BY <1>1, ArrivalKeepsLines
<1> HIDE DEF m, k, g
<1>8. \A i \in Jobs : hist'[i] = hist[i] \/ (i = k /\ hist'[i] = g)
  BY <1>1, <1>4 DEF RelayTypes
<1>9. RelayTypes'
  <2>1. hist' \in [Jobs -> Seq(Statuses)]
    BY <1>1, <1>4, <1>6 DEF RelayTypes
  <2>2. up' \in [Conns -> Seq(Updates)]
    BY <1>1, <1>3 DEF RelayTypes
  <2>. QED BY <1>1, <2>1, <2>2 DEF RelayTypes
<1>10. Told(k, m.status)
  BY <1>3, <1>4 DEF Told
<1>11. \A i \in Jobs : \A s \in Statuses : Told(i, s)' => Told(i, s)
  <2>. SUFFICES ASSUME NEW i \in Jobs, NEW s \in Statuses, Told(i, s)' PROVE Told(i, s)
    OBVIOUS
  <2>1. \A d \in Conns : ToSet(up'[d]) \subseteq ToSet(up[d])
    BY <1>2, <1>3
  <2>2. s \in ToSet(hist'[i]) => s \in ToSet(hist[i]) \/ (i = k /\ s = m.status)
    BY <1>6, <1>8
  <2>3. CASE s \in ToSet(hist'[i])
    BY <1>10, <2>2, <2>3 DEF Told
  <2>4. CASE s \notin ToSet(hist'[i])
    BY <1>1, <2>1, <2>4 DEF Told
  <2>. QED BY <2>3, <2>4
<1>12. \A i \in Jobs : /\ hist[i] # <<>> => hist'[i] # <<>>
                       /\ HasEnd(hist[i]) => HasEnd(hist'[i])
  BY <1>6, <1>8 DEF HasEnd
<1>13. \A i \in Jobs : hist[i] # <<>> \/ hist'[i] = <<>>
  <2>1. JobWords(k) /\ hist[k] # <<>>
    BY <1>4, <1>10 DEF WordsAreRight, JobWords
  <2>. QED BY <1>8, <2>1
<1>14. WordsAreRight'
  BY <1>1, <1>11, <1>12, WordsStay
<1>15. OneLiveLink'
  BY <1>1 DEF OneLiveLink, Live
<1>16. OthersHaveEnded'
  BY <1>1, <1>12, <1>13 DEF OthersHaveEnded
<1>17. OrdersComeOnce'
  BY <1>1, <1>12, RelayTypesSay DEF OrdersComeOnce, Live, ReportsAreHeeded
<1>. QED BY <1>7, <1>9, <1>14, <1>15, <1>16, <1>17

\* A message goes to every channel of the validator.
LEMMA SendingAnOrder ==
  ASSUME RelayTypes, OneLiveLink, OrdersComeOnce, NEW m \in Orders, SendToValidator(m),
         UNCHANGED <<channel, link, ws, cheated, task, celery>>,
         \A c \in Conns : Live(c) => m \notin ToSet(down[c]),
         \A j \in Jobs : hist[j] # <<>> => hist'[j] # <<>>, hist'[m.job] # <<>>,
         sdk.reported => sdk'.reported, sdk'.ignored = sdk.ignored,
         m.what = "new" => task[m.job] = "none",
         m.what = "cheated" => sdk'.reported /\ celery[m.job].saved /\ m.job \notin cheated
  PROVE  down' \in [Conns -> Seq(Orders)] /\ OneLiveLink' /\ OrdersComeOnce'
<1>1. \A c \in Conns : down[c] \in Seq(Orders)
  BY DEF RelayTypes
<1>2. ASSUME NEW c \in Conns
      PROVE  /\ Append(down[c], m) \in Seq(Orders)
             /\ ToSet(Append(down[c], m)) = ToSet(down[c]) \cup {m}
             /\ (\A a, b \in DOMAIN down[c] : down[c][a] = down[c][b] => a = b)
                /\ m \notin ToSet(down[c]) =>
                  \A a, b \in DOMAIN Append(down[c], m) :
                    Append(down[c], m)[a] = Append(down[c], m)[b] => a = b
  BY <1>1, LineGrows
<1>3. /\ \A c \in Conns : down'[c] = down[c] \/ (channel[c] # "none" /\ down'[c] = Append(down[c], m))
      /\ down' = [c \in Conns |-> IF channel[c] # "none" /\ link[c] # "closed"
                                  THEN Append(down[c], m) ELSE down[c]]
  BY DEF SendToValidator
<1>4. down' \in [Conns -> Seq(Orders)]
  BY <1>1, <1>2, <1>3
<1>5. OneLiveLink'
  BY <1>3 DEF OneLiveLink, Live
<1>6. ASSUME NEW c \in Conns, Live(c)'
      PROVE  /\ \A a, b \in DOMAIN down'[c] : down'[c][a] = down'[c][b] => a = b
             /\ \A x \in ToSet(down'[c]) :
                  /\ hist'[x.job] # <<>>
                  /\ x.what = "new" => task'[x.job] = "none"
                  /\ x.what = "cheated" =>
                       sdk'.reported /\ celery'[x.job].saved /\ x.job \notin cheated'
  <2>1. Live(c)
    BY <1>6 DEF Live
  <2>2. /\ \A a, b \in DOMAIN down[c] : down[c][a] = down[c][b] => a = b
        /\ \A x \in ToSet(down[c]) :
             /\ x.job \in Jobs /\ hist[x.job] # <<>>
             /\ x.what = "new" => task[x.job] = "none"
             /\ x.what = "cheated" =>
                  sdk.reported /\ celery[x.job].saved /\ x.job \notin cheated
    BY <2>1, RelayTypesSay DEF OrdersComeOnce
  <2>3. \A a, b \in DOMAIN down'[c] : down'[c][a] = down'[c][b] => a = b
    BY <1>2, <1>3, <2>1, <2>2
  <2>4. \A x \in ToSet(down'[c]) : x \in ToSet(down[c]) \/ x = m
    <3>1. CASE down'[c] = down[c]
      BY <3>1
    <3>2. CASE down'[c] = Append(down[c], m)
      BY <1>2, <3>2
    <3>. QED BY <1>3, <3>1, <3>2
  <2>. QED BY <2>2, <2>3, <2>4
<1>7. (cheated # {} => sdk.reported) /\ ReportsAreHeeded
  BY DEF OrdersComeOnce
<1>8. OrdersComeOnce'
  BY <1>6, <1>7 DEF OrdersComeOnce, ReportsAreHeeded
<1>. QED BY <1>4, <1>5, <1>8

\* The user's side: the state of run_until_complete changes.
LEMMA SdkFields ==
  ASSUME RelayTypes, NEW s \in SdkStates
  PROVE  /\ [sdk EXCEPT !.st = s] \in [st : SdkStates, job : Jobs \cup {0}, attempts : Nat,
                                       reported : BOOLEAN, ignored : BOOLEAN]
         /\ [sdk EXCEPT !.st = s].st = s /\ [sdk EXCEPT !.st = s].job = sdk.job
         /\ [sdk EXCEPT !.st = s].reported = sdk.reported
         /\ [sdk EXCEPT !.st = s].ignored = sdk.ignored
BY DEF RelayTypes

\* A result that was waited for: the user gets it, tries again, or gives up.
LEMMA SdkStepKeeps ==
  ASSUME RelayInv, SdkPoll \/ SdkTimeout
  PROVE  RelayInv'
<1>. USE DEF RelayInv
<1>1. /\ sdk.st = "wait"
      /\ UNCHANGED <<extra, hist, report, channel, link, up, down, ws, young, task, celery, box,
                     listening, started, retrying, cheated, disturbed, overdue>>
  BY DEF SdkPoll, SdkTimeout, facVars, netVars, valVars, ghostVars
<1>2. sdk.job \in Jobs /\ hist[sdk.job] # <<>>
  BY <1>1 DEF OthersHaveEnded
<1>3. /\ sdk' \in [st : SdkStates, job : Jobs \cup {0}, attempts : Nat, reported : BOOLEAN,
                   ignored : BOOLEAN]
      /\ sdk'.job = sdk.job /\ sdk'.reported = sdk.reported /\ sdk'.ignored = sdk.ignored
      /\ sdk'.st = "create" => ~InProgress(sdk.job)
  <2>0. {"returned", "raised", "create"} \subseteq SdkStates
    BY DEF SdkStates
  <2>1. CASE \E s \in {"returned", "raised"} : sdk' = [sdk EXCEPT !.st = s]
    BY <2>0, <2>1, SdkFields
  <2>2. CASE sdk' = [sdk EXCEPT !.st = "create", !.attempts = @ + 1] /\ ~InProgress(sdk.job)
    <3>1. PICK n \in Nat, s \in SdkStates : n = sdk.attempts + 1 /\ s = "create"
      BY <2>0 DEF RelayTypes
    <3>2. sdk' = [sdk EXCEPT !.st = s, !.attempts = n]
      BY <2>2, <3>1
    <3>. QED BY <2>2, <3>1, <3>2 DEF RelayTypes
  <2>. QED BY <2>1, <2>2 DEF SdkPoll, SdkTimeout
<1>4. ~InProgress(sdk.job) => HasEnd(hist[sdk.job])
  <2>1. hist[sdk.job] \in Seq(Statuses)
    BY <1>2 DEF RelayTypes
  <2>2. Len(hist[sdk.job]) \in DOMAIN hist[sdk.job]
    BY <1>2, <2>1, EmptySeq
  <2>. QED BY <2>2 DEF InProgress, LastStatus, HasEnd, ToSet
<1>5. OthersHaveEnded'
  BY <1>1, <1>2, <1>3, <1>4 DEF OthersHaveEnded
<1>6. RelayTypes'
  BY <1>1, <1>3 DEF RelayTypes
<1>7. WordsAreRight' /\ LinesAreRight'
  <2>1. \A i, s : Told(i, s)' <=> Told(i, s)
    BY <1>1 DEF Told
  <2>. QED BY <1>1, <2>1, WordsStay, QuietKeepsLines
<1>8. OneLiveLink' /\ OrdersComeOnce'
  BY <1>1, <1>3 DEF OneLiveLink, OrdersComeOnce, Live, ReportsAreHeeded
<1>. QED BY <1>5, <1>6, <1>7, <1>8

\* A job is made: it has no history yet, so nothing is known of it anywhere.
LEMMA CreateJobKeeps ==
  ASSUME RelayInv, CreateJob
  PROVE  RelayInv'
<1>. USE DEF RelayInv
<1>1. /\ sdk.st = "create" /\ \E j \in Jobs : hist[j] = <<>>
      /\ UNCHANGED <<channel, link, up, ws, task, celery, box, started, retrying, cheated, overdue>>
  BY DEF CreateJob, valVars
<1>2. CASE ~CanSelectValidator
  <2>1. sdk' = [sdk EXCEPT !.st = "raised"] /\ UNCHANGED <<extra, hist, down, disturbed>>
    BY <1>2 DEF CreateJob
  <2>2. /\ sdk' \in [st : SdkStates, job : Jobs \cup {0}, attempts : Nat, reported : BOOLEAN,
                     ignored : BOOLEAN]
        /\ sdk'.st = "raised" /\ sdk'.job = sdk.job /\ sdk'.reported = sdk.reported
        /\ sdk'.ignored = sdk.ignored
    <3>1. "raised" \in SdkStates
      BY DEF SdkStates
    <3>. QED BY <2>1, <3>1, SdkFields
  <2>3. RelayTypes' /\ OthersHaveEnded'
    BY <1>1, <2>1, <2>2 DEF RelayTypes, OthersHaveEnded
  <2>4. \A i, s : Told(i, s)' <=> Told(i, s)
    BY <1>1, <2>1 DEF Told
  <2>5. WordsAreRight' /\ LinesAreRight'
    BY <1>1, <2>1, <2>4, WordsStay, QuietKeepsLines
  <2>6. OneLiveLink' /\ OrdersComeOnce'
    BY <1>1, <2>1, <2>2 DEF OneLiveLink, OrdersComeOnce, Live, ReportsAreHeeded
  <2>. QED BY <2>3, <2>5, <2>6
<1>3. CASE CanSelectValidator
  <2>0. PICK k : k = NextJob
    OBVIOUS
  <2> DEFINE m == [job |-> k, what |-> "new"]
  <2>1. /\ hist' = [hist EXCEPT ![k] = <<"SENT">>] /\ SendToValidator(m)
        /\ disturbed \subseteq disturbed'
        /\ \/ sdk' = [sdk EXCEPT !.st = "wait", !.job = k] /\ extra' = extra
           \/ extra' = extra \cup {k} /\ sdk' \in {sdk, [sdk EXCEPT !.st = "raised"]}
    BY <1>3, <2>0 DEF CreateJob
  <2>2. k \in Jobs /\ hist[k] = <<>>
    <3>1. {j \in Jobs : hist[j] = <<>>} \subseteq Nat
      BY RelayAssumption DEF Jobs
    <3>. QED BY <1>1, <2>0, <3>1, NatMin, ZenonT(60) DEF NextJob
  <2>3. m \in Orders /\ m.job = k /\ m.what = "new"
    BY <2>2 DEF Orders
  <2> HIDE DEF m
  <2>4. /\ hist'[k] = <<"SENT">> /\ \A j \in Jobs : j # k => hist'[j] = hist[j]
        /\ hist' \in [Jobs -> Seq(Statuses)]
    BY <2>1, <2>2 DEF RelayTypes, Statuses
  <2>5. hist'[k] # <<>> /\ ToSet(hist'[k]) = {"SENT"}
    BY <2>4 DEF ToSet
  <2>6. /\ sdk' \in [st : SdkStates, job : Jobs \cup {0}, attempts : Nat, reported : BOOLEAN,
                     ignored : BOOLEAN]
        /\ sdk'.reported = sdk.reported /\ sdk'.ignored = sdk.ignored
        /\ \/ sdk'.st = "wait" /\ sdk'.job = k
           \/ sdk'.st \in {"create", "raised"} /\ sdk'.job = sdk.job /\ k \in extra'
        /\ extra \subseteq extra'
    <3>0. {"wait", "raised"} \subseteq SdkStates
      BY DEF SdkStates
    <3>1. CASE sdk' = [sdk EXCEPT !.st = "wait", !.job = k] /\ extra' = extra
      BY <2>2, <3>0, <3>1 DEF RelayTypes
    <3>2. CASE sdk' = sdk /\ extra' = extra \cup {k}
      BY <1>1, <3>2 DEF RelayTypes
    <3>3. CASE sdk' = [sdk EXCEPT !.st = "raised"] /\ extra' = extra \cup {k}
      BY <3>0, <3>3, SdkFields
    <3>. QED BY <2>1, <3>1, <3>2, <3>3
  <2>7. OthersHaveEnded'
    <3>1. \A j \in Jobs : j # k /\ hist[j] # <<>> /\ j \notin extra => HasEnd(hist[j])
      BY <1>1 DEF OthersHaveEnded
    <3>. QED BY <2>2, <2>4, <2>5, <2>6, <3>1 DEF OthersHaveEnded
  <2>8. JobWords(k)
    BY <2>2 DEF WordsAreRight
  <2>9. task[k] = "none" /\ \A s \in Statuses : ~Told(k, s)
    BY <2>2, <2>8 DEF JobWords
  <2>10. down' \in [Conns -> Seq(Orders)] /\ OneLiveLink' /\ OrdersComeOnce'
    <3>1. \A c \in Conns : Live(c) => m \notin ToSet(down[c])
      BY <2>2, <2>3 DEF OrdersComeOnce
    <3>2. \A j \in Jobs : hist[j] # <<>> => hist'[j] # <<>>
      BY <2>4, <2>5
    <3>. QED BY <1>1, <2>1, <2>3, <2>5, <2>6, <2>9, <3>1, <3>2, SendingAnOrder
  <2>11. RelayTypes'
    BY <1>1, <2>4, <2>6, <2>10 DEF RelayTypes
  <2>12. /\ \A i \in Jobs : i # k => \A s : Told(i, s)' => Told(i, s)
         /\ \A s \in Statuses : Told(k, s)' => s = "SENT"
    <3>1. \A i \in Jobs : i # k => \A s : Told(i, s)' => Told(i, s)
      BY <1>1, <2>4 DEF Told
    <3>2. ASSUME NEW s \in Statuses, Told(k, s)', s # "SENT" PROVE FALSE
      BY <1>1, <2>5, <2>9, <3>2 DEF Told
    <3>. QED BY <3>1, <3>2
  <2>13. WordsAreRight'
    <3>1. \A s \in EndStates \cup WorkerWords : ~Told(k, s)'
      BY <2>12, WordSets
    <3>2. {"REJECTED", "HORDE_FAILED", "COMPLETED", "FAILED"} \subseteq EndStates
      BY WordSets
    <3>3. celery[k].st = "none"
      BY <2>8, <2>9 DEF JobWords
    <3>4. JobWords(k)'
      BY <1>1, <2>5, <2>9, <2>12, <3>1, <3>2, <3>3 DEF JobWords
    <3>. QED BY <1>1, <2>4, <2>12, <3>4, OneJobsWords
  <2>14. LinesAreRight'
    <3>. SUFFICES ASSUME NEW j \in Jobs, j \notin disturbed' PROVE InLine(j)'
      BY DEF LinesAreRight
    <3>1. InLine(j)
      BY <2>1 DEF LinesAreRight
    <3>2. CASE j # k
      BY <1>1, <2>4, <3>1, <3>2 DEF InLine
    <3>3. CASE j = k
      <4>1. ReceivedAfterSent(hist'[k]) /\ EndsAtLast(hist'[k])
        BY <2>4 DEF ReceivedAfterSent, EndsAtLast
      <4>2. ~HasEnd(hist'[k]) /\ \A s \in ToSet(hist'[k]) : s = "SENT"
        BY <2>5, WordSets DEF HasEnd
      <4>. QED BY <1>1, <3>1, <3>3, <4>1, <4>2 DEF InLine
    <3>. QED BY <3>2, <3>3
  <2>. QED BY <2>7, <2>10, <2>11, <2>13, <2>14
<1>. QED BY <1>2, <1>3

\* The user reports the miner of a job that is shown as completed.
LEMMA ReportKeeps ==
  ASSUME RelayInv, ReportCheatedJob
  PROVE  RelayInv'
<1>. USE DEF RelayInv
<1> DEFINE k == sdk.job
           m == [job |-> k, what |-> "cheated"]
<1>1. /\ sdk.st = "returned" /\ ~sdk.reported /\ LastStatus(k) = "COMPLETED"
      /\ sdk' = [sdk EXCEPT !.reported = TRUE]
      /\ SendToValidator(m) /\ disturbed \subseteq disturbed'
      /\ UNCHANGED <<extra, hist, channel, link, up, ws, task, celery, box, started, retrying,
                     cheated, overdue>>
  BY DEF ReportCheatedJob, valVars
<1>2. k \in Jobs /\ hist[k] # <<>>
  BY <1>1 DEF OthersHaveEnded
<1>3. /\ sdk' \in [st : SdkStates, job : Jobs \cup {0}, attempts : Nat, reported : BOOLEAN,
                   ignored : BOOLEAN]
      /\ sdk'.st = sdk.st /\ sdk'.job = sdk.job /\ sdk'.reported /\ sdk'.ignored = sdk.ignored
  BY <1>1 DEF RelayTypes
<1>4. m \in Orders /\ m.job = k /\ m.what = "cheated"
  BY <1>2 DEF Orders
<1>5. celery[k].saved
  <2>1. hist[k] \in Seq(Statuses)
    BY <1>2 DEF RelayTypes
  <2>2. Len(hist[k]) \in DOMAIN hist[k]
    BY <1>2, <2>1, EmptySeq
  <2>3. Told(k, "COMPLETED")
    BY <1>1, <2>2 DEF Told, LastStatus, ToSet
  <2>. QED BY <1>2, <2>3 DEF WordsAreRight, JobWords
<1> HIDE DEF m, k
<1>6. down' \in [Conns -> Seq(Orders)] /\ OneLiveLink' /\ OrdersComeOnce'
  <2>1. \A c \in Conns : Live(c) => m \notin ToSet(down[c])
    BY <1>1, <1>4 DEF OrdersComeOnce
  <2>2. k \notin cheated
    BY <1>1 DEF OrdersComeOnce
  <2>. QED BY <1>1, <1>2, <1>3, <1>4, <1>5, <2>1, <2>2, SendingAnOrder
<1>7. RelayTypes' /\ OthersHaveEnded'
  BY <1>1, <1>3, <1>6 DEF RelayTypes, OthersHaveEnded
<1>8. \A i, s : Told(i, s)' <=> Told(i, s)
  BY <1>1 DEF Told
<1>9. WordsAreRight' /\ LinesAreRight'
  BY <1>1, <1>8, WordsStay, QuietKeepsLines
<1>. QED BY <1>6, <1>7, <1>9

\* A step of the connections only.
LEMMA LinkStepKeeps ==
  ASSUME RelayInv,
         UNCHANGED <<sdk, extra, hist, up, down, task, celery, box, started, retrying, cheated,
                     disturbed, overdue>>,
         channel' \in [Conns -> {"none", "fresh", "stale"}],
         link' \in [Conns -> {"unused", "auth", "open", "cut", "closed"}],
         ws' \in Conns \cup {NoConn}, ws' = ws \/ ws \notin Conns,
         \A c \in Conns : Live(c)' => Live(c) \/ down[c] = <<>>, OneLiveLink'
  PROVE  RelayInv'
<1>. USE DEF RelayInv
<1>1. RelayTypes' /\ OthersHaveEnded'
  BY DEF RelayTypes, OthersHaveEnded
<1>2. \A i, s : Told(i, s)' <=> Told(i, s)
  BY DEF Told
<1>3. WordsAreRight' /\ LinesAreRight'
  BY <1>2, WordsStay, QuietKeepsLines
<1>4. OrdersComeOnce'
  <2>1. \A c \in Conns : down[c] = <<>> =>
          /\ \A a, b \in DOMAIN down[c] : down[c][a] = down[c][b] => a = b
          /\ ToSet(down[c]) = {}
    BY DEF ToSet
  <2>2. ASSUME NEW c \in Conns, Live(c)'
        PROVE  /\ \A a, b \in DOMAIN down[c] : down[c][a] = down[c][b] => a = b
               /\ \A m \in ToSet(down[c]) :
                    /\ hist[m.job] # <<>>
                    /\ m.what = "new" => task[m.job] = "none"
                    /\ m.what = "cheated" =>
                         sdk.reported /\ celery[m.job].saved /\ m.job \notin cheated
    BY <2>1, <2>2 DEF OrdersComeOnce
  <2>3. (cheated # {} => sdk.reported) /\ ReportsAreHeeded /\ ReportsAreHeeded'
    BY DEF OrdersComeOnce, ReportsAreHeeded
  <2>. QED BY <2>2, <2>3 DEF OrdersComeOnce
<1>. QED BY <1>1, <1>3, <1>4

\* The facilitator's and the client's sides of a connection.
LEMMA ConnectionKeeps ==
  ASSUME RelayInv, NEW c \in Conns,
         Authenticate(c) \/ Disconnect(c) \/ MissHeartbeats(c) \/ Welcome(c)
  PROVE  RelayInv'
<1>. USE DEF RelayInv
<1>0. /\ channel \in [Conns -> {"none", "fresh", "stale"}]
      /\ link \in [Conns -> {"unused", "auth", "open", "cut", "closed"}]
      /\ NoConn \notin Conns /\ ws \in Conns \cup {NoConn}
  BY RelayTypesSay DEF RelayTypes
<1>1. UNCHANGED <<sdk, extra, hist, up, down, task, celery, box, started, retrying, cheated,
                  disturbed, overdue>>
  BY DEF Authenticate, Disconnect, MissHeartbeats, Welcome, sdkVars, facVars, netVars, valVars,
     ghostVars
<1>2. CASE Authenticate(c)
  <2>1. /\ link[c] = "unused" /\ ws = NoConn /\ \A d \in Conns : link[d] # "auth"
        /\ link' = [link EXCEPT ![c] = "auth"] /\ channel' = [channel EXCEPT ![c] = "fresh"]
        /\ ws' = ws
    BY <1>2 DEF Authenticate
  <2>2. \A d \in Conns : link[d] # "open"
    BY <1>0, <2>1 DEF OneLiveLink
  <2>3. OneLiveLink'
    BY <1>0, <1>1, <2>1, <2>2 DEF OneLiveLink, Live
  <2>4. \A d \in Conns : Live(d)' => Live(d) \/ down[d] = <<>>
    BY <1>0, <2>1 DEF OneLiveLink, Live
  <2>. QED BY <1>0, <1>1, <2>1, <2>3, <2>4, LinkStepKeeps
<1>3. CASE Disconnect(c)
  <2>1. /\ link[c] = "cut" /\ ws' = ws
        /\ link' = [link EXCEPT ![c] = "closed"] /\ channel' = [channel EXCEPT ![c] = "none"]
    BY <1>3 DEF Disconnect
  <2>2. OneLiveLink' /\ \A d \in Conns : Live(d)' => Live(d)
    BY <1>0, <1>1, <2>1 DEF OneLiveLink, Live
  <2>. QED BY <1>0, <1>1, <2>1, <2>2, LinkStepKeeps
<1>4. CASE MissHeartbeats(c)
  <2>1. /\ link[c] = "cut" /\ ws' = ws /\ link' = link
        /\ channel' = [channel EXCEPT ![c] = IF @ = "fresh" THEN "stale" ELSE "none"]
    BY <1>4 DEF MissHeartbeats, netVars
  <2>2. OneLiveLink' /\ \A d \in Conns : Live(d)' => Live(d)
    BY <1>0, <1>1, <2>1 DEF OneLiveLink, Live
  <2>. QED BY <1>0, <1>1, <2>1, <2>2, LinkStepKeeps
<1>5. CASE Welcome(c)
  <2>1. link[c] = "auth" /\ link' = [link EXCEPT ![c] = "open"] /\ ws' = c /\ channel' = channel
    BY <1>5 DEF Welcome, facVars
  <2>2. \A d \in Conns : link[d] # "open" /\ (link[d] = "auth" => d = c)
    BY <2>1 DEF OneLiveLink, Live
  <2>3. ws \notin Conns
    BY <2>2 DEF OneLiveLink
  <2>4. OneLiveLink' /\ \A d \in Conns : Live(d)' => Live(d)
    BY <1>0, <1>1, <2>1, <2>2 DEF OneLiveLink, Live
  <2>. QED BY <1>0, <1>1, <2>1, <2>3, <2>4, LinkStepKeeps
<1>. QED BY <1>2, <1>3, <1>4, <1>5

\* Time, and steps that change nothing of this.
LEMMA IdleKeeps ==
  ASSUME RelayInv,
         UNCHANGED <<sdk, extra, hist, channel, link, up, down, ws, task, celery, box, started,
                     retrying, cheated, disturbed, overdue>>
  PROVE  RelayInv'
<1>1. OneLiveLink'
  BY DEF RelayInv, OneLiveLink, Live
<1>2. /\ channel' \in [Conns -> {"none", "fresh", "stale"}]
      /\ link' \in [Conns -> {"unused", "auth", "open", "cut", "closed"}]
      /\ ws' \in Conns \cup {NoConn}
  BY DEF RelayInv, RelayTypes
<1>3. \A c \in Conns : Live(c)' => Live(c)
  BY DEF Live
<1>. QED BY <1>1, <1>2, <1>3, LinkStepKeeps

\* The client handles a message.
LEMMA HandleMessageKeeps ==
  ASSUME RelayInv, NEW c \in Conns, HandleMessage(c)
  PROVE  RelayInv'
<1>. USE DEF RelayInv
<1>0. PICK m : m = Head(down[c])
  OBVIOUS
<1>1. PICK k : k = m.job
  OBVIOUS
<1>2. /\ ws = c /\ down[c] # <<>> /\ down' = [down EXCEPT ![c] = Tail(@)]
      /\ UNCHANGED <<extra, hist, channel, link, up, ws, celery, box, started, retrying,
                     disturbed, overdue>>
  BY DEF HandleMessage, facVars, ghostVars
<1>3. /\ down[c] \in Seq(Orders) /\ down'[c] = Tail(down[c])
      /\ \A d \in Conns : d # c => down'[d] = down[d]
  BY <1>2 DEF RelayTypes
<1>4. /\ m \in Orders /\ down'[c] \in Seq(Orders) /\ ToSet(down[c]) = {m} \cup ToSet(down'[c])
      /\ (\A a, b \in DOMAIN down[c] : down[c][a] = down[c][b] => a = b) =>
           /\ m \notin ToSet(down'[c])
           /\ \A a, b \in DOMAIN down'[c] : down'[c][a] = down'[c][b] => a = b
  BY <1>0, <1>2, <1>3, LineMovesUp, SMTT(60)
<1>5. k \in Jobs /\ m.what \in {"new", "cheated"} /\ m = [job |-> k, what |-> m.what]
  BY <1>1, <1>4 DEF Orders
<1>6. \A d \in Conns : Live(d) => d = c
  BY <1>2 DEF OneLiveLink, Live
<1>7. Live(c)
  BY <1>2 DEF OneLiveLink, Live
<1>8. /\ m \notin ToSet(down'[c])
      /\ \A a, b \in DOMAIN down'[c] : down'[c][a] = down'[c][b] => a = b
      /\ \A x \in ToSet(down[c]) :
           /\ hist[x.job] # <<>>
           /\ x.what = "new" => task[x.job] = "none"
           /\ x.what = "cheated" => sdk.reported /\ celery[x.job].saved /\ x.job \notin cheated
  BY <1>4, <1>7 DEF OrdersComeOnce
<1>9. \A x \in ToSet(down'[c]) : x \in ToSet(down[c]) /\ x # m
  BY <1>4, <1>8
<1>10. \A x \in ToSet(down'[c]) : x.what = m.what => x.job # k
  <2>1. \A x \in ToSet(down[c]) : x = [job |-> x.job, what |-> x.what]
    BY RelayTypesSay DEF Orders
  <2>. QED BY <1>5, <1>9, <2>1
<1>11. down' \in [Conns -> Seq(Orders)]
  BY <1>2, <1>3, <1>4 DEF RelayTypes
<1>12. OneLiveLink'
  BY <1>2, <1>3, <1>7 DEF OneLiveLink, Live
<1>13. \A i, s : Told(i, s)' <=> Told(i, s)
  BY <1>2 DEF Told
<1>14. LinesAreRight'
  BY <1>2, QuietKeepsLines
<1>15. CASE m.what = "new"
  <2>1. PICK t \in {"received", "rejecting"} :
          task' = [task EXCEPT ![k] = t] /\ UNCHANGED <<cheated, sdk>>
    BY <1>0, <1>1, <1>15 DEF HandleMessage
  <2>2. task'[k] = t /\ task' \in [Jobs -> RequestStates] /\ \A i \in Jobs : i # k => task'[i] = task[i]
    BY <1>5, <2>1 DEF RelayTypes, RequestStates
  <2>3. RelayTypes' /\ OthersHaveEnded'
    BY <1>2, <1>11, <2>1, <2>2 DEF RelayTypes, OthersHaveEnded
  <2>4. OrdersComeOnce'
    <3>1. (cheated # {} => sdk.reported) /\ ReportsAreHeeded'
      BY <2>1 DEF OrdersComeOnce, ReportsAreHeeded
    <3>2. \A d \in Conns : Live(d)' => d = c
      BY <1>2, <1>6 DEF Live
    <3>3. \A x \in ToSet(down'[c]) : x.what = "new" => task'[x.job] = "none"
      BY <1>8, <1>9, <1>10, <1>15, <2>2, RelayTypesSay
    <3>. QED BY <1>2, <1>8, <1>9, <2>1, <3>1, <3>2, <3>3 DEF OrdersComeOnce
  <2>5. JobWords(k) /\ task[k] = "none" /\ hist[k] # <<>>
    BY <1>1, <1>4, <1>5, <1>8, <1>15 DEF WordsAreRight
  <2>6. JobWords(k)'
    <3>1. /\ \A s \in Statuses : Told(k, s) => s = "SENT"
          /\ celery[k].st = "none"
      BY <2>5 DEF JobWords
    <3>2. \A s \in EndStates \cup WorkerWords : ~Told(k, s)
      BY <3>1, WordSets
    <3>3. {"REJECTED", "HORDE_FAILED", "COMPLETED", "FAILED"} \subseteq EndStates
      BY WordSets
    <3>. QED BY <1>2, <1>13, <2>2, <2>5, <3>1, <3>2, <3>3 DEF JobWords
  <2>7. WordsAreRight'
    BY <1>2, <1>13, <2>2, <2>6, OneJobsWords
  <2>. QED BY <1>12, <1>14, <2>3, <2>4, <2>7
<1>16. CASE m.what = "cheated"
  <2>1. /\ sdk' = sdk /\ task' = task
        /\ cheated' = cheated \/ cheated' = cheated \cup {k}
    <3>1. celery[k].saved /\ k \notin cheated
      BY <1>1, <1>4, <1>8, <1>16
    <3>. QED BY <1>0, <1>1, <1>16, <3>1 DEF HandleMessage
  <2>2. RelayTypes' /\ OthersHaveEnded'
    BY <1>2, <1>11, <2>1 DEF RelayTypes, OthersHaveEnded
  <2>3. WordsAreRight'
    BY <1>2, <1>13, <2>1, WordsStay
  <2>4. OrdersComeOnce'
    <3>1. sdk.reported /\ ReportsAreHeeded'
      BY <1>4, <1>8, <1>16, <2>1 DEF OrdersComeOnce, ReportsAreHeeded
    <3>2. \A d \in Conns : Live(d)' => d = c
      BY <1>2, <1>6 DEF Live
    <3>3. \A x \in ToSet(down'[c]) : x.what = "cheated" => x.job \notin cheated'
      BY <1>8, <1>9, <1>10, <1>16, <2>1
    <3>. QED BY <1>2, <1>8, <1>9, <2>1, <3>1, <3>2, <3>3 DEF OrdersComeOnce
  <2>. QED BY <1>12, <1>14, <2>2, <2>3, <2>4
<1>. QED BY <1>5, <1>15, <1>16

\* The connection breaks, and the process may end with it.
LEMMA BreakConnectionKeeps ==
  ASSUME RelayInv, NEW c \in Conns, BreakConnection(c)
  PROVE  RelayInv'
<1>. USE DEF RelayInv
<1>1. /\ Live(c) /\ link' = [link EXCEPT ![c] = "cut"] /\ ws' = NoConn
      /\ down' = [down EXCEPT ![c] = <<>>]
      /\ UNCHANGED <<sdk, extra, hist, channel, celery, box, cheated>>
  BY DEF BreakConnection, RestartProcess, Live, sdkVars, facVars
<1>2. PICK n \in 0 .. Len(up[c]) :
        /\ up' = [up EXCEPT ![c] = SubSeq(@, 1, n)]
        /\ \/ /\ disturbed' = disturbed \cup {m.job : m \in ToSet(down[c])}
                               \cup {m.job : m \in ToSet(up[c])}
              /\ UNCHANGED <<task, started, retrying, overdue>>
           \/ RestartProcess
  BY DEF BreakConnection
<1>3. /\ up[c] \in Seq(Updates) /\ up'[c] = SubSeq(up[c], 1, n)
      /\ \A d \in Conns : d # c => up'[d] = up[d]
  BY <1>2 DEF RelayTypes
<1>4. up'[c] \in Seq(Updates) /\ ToSet(up'[c]) \subseteq ToSet(up[c])
  BY <1>3, PartOfLine
<1>5. /\ up' \in [Conns -> Seq(Updates)] /\ down' \in [Conns -> Seq(Orders)]
      /\ \A d \in Conns : ToSet(up'[d]) \subseteq ToSet(up[d])
  BY <1>1, <1>2, <1>3, <1>4 DEF RelayTypes
<1>6. \A d \in Conns : ~Live(d)' /\ link'[d] # "open" /\ (link'[d] = "unused" => link[d] = "unused" /\ d # c)
  <2>1. \A d \in Conns : d # c => ~Live(d)
    BY <1>1 DEF OneLiveLink
  <2>. QED BY <1>1, <2>1 DEF RelayTypes, Live
<1>7. NoConn \notin Conns
  BY RelayTypesSay
<1>8. OneLiveLink' /\ OrdersComeOnce'
  <2>1. OneLiveLink'
    BY <1>1, <1>6, <1>7 DEF OneLiveLink, RelayTypes
  <2>2. (cheated # {} => sdk.reported) /\ ReportsAreHeeded'
    BY <1>1 DEF OrdersComeOnce, ReportsAreHeeded
  <2>. QED BY <1>1, <1>6, <2>1, <2>2 DEF OrdersComeOnce
<1>9. OthersHaveEnded'
  BY <1>1 DEF OthersHaveEnded
<1>10. link' \in [Conns -> {"unused", "auth", "open", "cut", "closed"}]
  BY <1>1 DEF RelayTypes
<1>11. CASE /\ disturbed' = disturbed \cup {m.job : m \in ToSet(down[c])}
                              \cup {m.job : m \in ToSet(up[c])}
            /\ UNCHANGED <<task, started, retrying, overdue>>
  <2>1. RelayTypes'
    BY <1>1, <1>5, <1>10, <1>11 DEF RelayTypes
  <2>2. \A i \in Jobs : \A s : Told(i, s)' => Told(i, s)
    BY <1>1, <1>5, <1>11 DEF Told
  <2>3. WordsAreRight'
    BY <1>1, <1>11, <2>2, WordsStay
  <2>4. LinesAreRight'
    <3>. SUFFICES ASSUME NEW j \in Jobs, j \notin disturbed' PROVE InLine(j)'
      BY DEF LinesAreRight
    <3>1. InLine(j) /\ NoneOf(up[c], j)
      BY <1>11 DEF LinesAreRight, NoneOf
    <3>2. NoneOf(up'[c], j)
      BY <1>4, <3>1 DEF NoneOf
    <3>3. ASSUME NEW d \in Conns PROVE NoneOf(up'[d], j)
      <4>1. CASE d = c
        BY <3>2, <4>1
      <4>2. CASE d # c
        <5>1. d # ws
          BY <1>1, <4>2 DEF OneLiveLink, Live
        <5>. QED BY <1>3, <3>1, <4>2, <5>1 DEF InLine
      <4>. QED BY <4>1, <4>2
    <3>4. \A d \in Conns :
            /\ NoneOf(up'[d], j) /\ OnlyEnds(up'[d], j) /\ ~AnyEnd(up'[d], j) /\ EndsLast(up'[d], j)
            /\ ReceivedFirst(up'[d], j) /\ Update(j, "RECEIVED") \notin ToSet(up'[d])
      BY <3>3, NothingInLine
    <3>. QED BY <1>1, <1>11, <3>1, <3>4 DEF InLine
  <2>. QED BY <1>8, <1>9, <2>1, <2>3, <2>4
<1>12. CASE RestartProcess
  <2>1. /\ started' = <<>> /\ retrying' = {}
        /\ task' = [j \in Jobs |-> IF task[j] = "none" THEN "none" ELSE "over"]
        /\ disturbed' = disturbed \cup {j \in Jobs : hist[j] # <<>>}
        /\ overdue' = overdue \cup {j \in Jobs : task[j] = "waiting"}
    BY <1>12 DEF RestartProcess
  <2>2. task' \in [Jobs -> RequestStates] /\ ToSet(started') = {} /\ started' \in Seq(WorkerUpdates)
    BY <2>1 DEF RequestStates, ToSet
  <2>3. RelayTypes'
    BY <1>1, <1>5, <1>10, <2>1, <2>2 DEF RelayTypes
  <2>4. \A i \in Jobs : \A s : Told(i, s)' => Told(i, s)
    BY <1>1, <1>5, <2>1, <2>2 DEF Told
  <2>5. WordsAreRight'
    <3>. SUFFICES ASSUME NEW j \in Jobs PROVE JobWords(j)'
      BY DEF WordsAreRight
    <3>1. JobWords(j) /\ hist'[j] = hist[j] /\ celery'[j] = celery[j]
      BY <1>1 DEF WordsAreRight
    <3>2. task'[j] = (IF task[j] = "none" THEN "none" ELSE "over") /\ (j \in overdue => j \in overdue')
      BY <2>1
    <3>. QED BY <2>4, <3>1, <3>2 DEF JobWords
  <2>6. LinesAreRight'
    <3>. SUFFICES ASSUME NEW j \in Jobs, j \notin disturbed' PROVE InLine(j)'
      BY DEF LinesAreRight
    <3>1. hist[j] = <<>> /\ JobWords(j) /\ InLine(j)
      BY <2>1 DEF WordsAreRight, LinesAreRight
    <3>2. \A s \in Statuses : ~Told(j, s)
      BY <3>1 DEF JobWords
    <3>3. \A d \in Conns : NoneOf(up[d], j)
      BY <3>2, LinesOfWords
    <3>4. \A d \in Conns : NoneOf(up'[d], j)
      BY <1>5, <3>3 DEF NoneOf
    <3>5. \A d \in Conns :
            /\ NoneOf(up'[d], j) /\ OnlyEnds(up'[d], j) /\ ~AnyEnd(up'[d], j) /\ EndsLast(up'[d], j)
            /\ ReceivedFirst(up'[d], j) /\ Update(j, "RECEIVED") \notin ToSet(up'[d])
      BY <3>4, NothingInLine
    <3>6. NoneOf(started', j)
      BY <2>2 DEF NoneOf
    <3>7. OnlyEnds(started', j) /\ ~AnyEnd(started', j) /\ EndsLast(started', j)
      BY <3>6, NothingInLine
    <3>8. (\A s \in WorkerWords : ~Told(j, s)) /\ \A s \in EndStates : ~Told(j, s)
      BY <3>2, WordSets
    <3>9. AllEnds(box[j]) /\ ~HasEnd(hist[j]) /\ EndsAtLast(hist[j]) /\ ReceivedAfterSent(hist[j])
      BY <3>1, <3>8, LinesOfWords DEF EndsAtLast, ReceivedAfterSent
    <3>10. EndsAtLast(box[j])
      BY <3>9 DEF AllEnds, EndsAtLast, ToSet
    <3>. QED BY <1>1, <2>1, <3>5, <3>7, <3>9, <3>10 DEF InLine
  <2>. QED BY <1>8, <1>9, <2>3, <2>5, <2>6
<1>. QED BY <1>2, <1>11, <1>12

\* The invariant holds before anything happens.
LEMMA InitRelayInv == RelayInit => RelayInv
<1>. SUFFICES ASSUME RelayInit PROVE RelayInv
  OBVIOUS
<1>1. \A c \in Conns : /\ up[c] = <<>> /\ down[c] = <<>> /\ link[c] = "unused"
                       /\ channel[c] = "none"
  BY DEF RelayInit
<1>2. \A j \in Jobs : /\ hist[j] = <<>> /\ box[j] = <<>> /\ task[j] = "none"
                      /\ celery[j].st = "none"
  BY DEF RelayInit
<1>3. started = <<>> /\ retrying = {} /\ ToSet(<<>>) = {}
  BY DEF RelayInit, ToSet
<1>4. NoConn \notin Conns /\ ws = NoConn
  BY RelayAssumption DEF Conns, NoConn, RelayInit
<1>5. RelayTypes
  <2>1. <<>> \in Seq(Statuses) /\ <<>> \in Seq(Updates) /\ <<>> \in Seq(Orders)
        /\ <<>> \in Seq(WorkerWords) /\ <<>> \in Seq(WorkerUpdates)
    OBVIOUS
  <2>2. "none" \in RequestStates /\ "none" \in WorkerStates /\ "create" \in SdkStates
    BY DEF RequestStates, WorkerStates, SdkStates
  <2>3. sdk \in [st : SdkStates, job : Jobs \cup {0}, attempts : Nat, reported : BOOLEAN,
                 ignored : BOOLEAN]
    BY <2>2 DEF RelayInit
  <2>4. celery \in [Jobs -> [st : WorkerStates, saved : BOOLEAN]]
    BY <2>2 DEF RelayInit
  <2>. QED BY <2>1, <2>2, <2>3, <2>4 DEF RelayInit, RelayTypes
<1>6. OneLiveLink
  BY <1>1, <1>4 DEF OneLiveLink, Live
<1>7. OrdersComeOnce
  BY <1>1 DEF OrdersComeOnce, Live, ReportsAreHeeded, RelayInit
<1>8. \A j \in Jobs : \A s : ~Told(j, s)
  BY <1>1, <1>2, <1>3 DEF Told
<1>9. WordsAreRight
  BY <1>2, <1>8 DEF WordsAreRight, JobWords
<1>10. LinesAreRight
  <2>. SUFFICES ASSUME NEW j \in Jobs PROVE InLine(j)
    BY DEF LinesAreRight
  <2>1. NoneOf(<<>>, j)
    BY <1>3 DEF NoneOf
  <2>2. EndsAtLast(<<>>) /\ ReceivedAfterSent(<<>>) /\ ~HasEnd(<<>>) /\ AllEnds(<<>>)
    BY <1>3 DEF EndsAtLast, ReceivedAfterSent, HasEnd, AllEnds
  <2>. QED BY <1>1, <1>2, <1>3, <2>1, <2>2, NothingInLine DEF InLine
<1>11. OthersHaveEnded
  BY <1>2 DEF OthersHaveEnded, RelayInit
<1>. QED BY <1>5, <1>6, <1>7, <1>9, <1>10, <1>11 DEF RelayInv

\* Every step of the user, the facilitator, the connection, the client and the
\* workers keeps the invariant.
LEMMA NextRelayInv == RelayInv /\ [RelayNext]_relayVars => RelayInv'
<1>. SUFFICES ASSUME RelayInv, [RelayNext]_relayVars PROVE RelayInv'
  OBVIOUS
<1>1. ASSUME CreateJob \/ SdkPoll \/ SdkTimeout \/ ReportCheatedJob \/ FirstTry
      PROVE  RelayInv'
  BY <1>1, CreateJobKeeps, SdkStepKeeps, ReportKeeps, FirstTryKeeps
<1>2. ASSUME NEW c \in Conns,
             \/ Authenticate(c) \/ JobStatusUpdate(c) \/ Disconnect(c) \/ MissHeartbeats(c)
             \/ Welcome(c) \/ BreakConnection(c) \/ HandleMessage(c)
      PROVE  RelayInv'
  BY <1>2, ConnectionKeeps, JobStatusUpdateKeeps, BreakConnectionKeeps, HandleMessageKeeps
<1>3. ASSUME NEW j \in Jobs,
             \/ SendReceived(j) \/ Route(j) \/ SendLast(j) \/ WaitForResult(j)
             \/ WorkerAccepts(j) \/ WorkerSaves(j) \/ WorkerNotifies(j) \/ Listen(j)
      PROVE  RelayInv'
  BY <1>3, SendReceivedKeeps, RouteKeeps, SendLastKeeps, WaitForResultKeeps,
     WorkerTellsKeeps, WorkerSavesKeeps, ListenKeeps
<1>4. ASSUME NEW m \in retrying, TryAgain(m) PROVE RelayInv'
  BY <1>4, TryAgainKeeps
<1>5. ASSUME MinuteHasPassed \/ UNCHANGED relayVars PROVE RelayInv'
  <2>1. UNCHANGED <<sdk, extra, hist, channel, link, up, down, ws, task, celery, box, started,
                    retrying, cheated, disturbed, overdue>>
    BY <1>5 DEF MinuteHasPassed, relayVars, sdkVars, facVars, netVars, valVars, ghostVars
  <2>. QED BY <2>1, IdleKeeps
<1>. QED BY <1>1, <1>2, <1>3, <1>4, <1>5 DEF RelayNext

\* What a job's history says has been told.
LEMMA EndsWereTold ==
  ASSUME RelayInv, NEW j \in Jobs
  PROVE  /\ "COMPLETED" \in ToSet(hist[j]) => celery[j].saved /\ celery[j].st = "done"
         /\ "FAILED" \in ToSet(hist[j]) => ~celery[j].saved /\ celery[j].st = "done"
         /\ "REJECTED" \in ToSet(hist[j]) =>
              celery[j].st = "none" /\ "HORDE_FAILED" \notin ToSet(hist[j])
         /\ "HORDE_FAILED" \in ToSet(hist[j]) => celery[j].st = "none" \/ j \in overdue
<1>1. JobWords(j)
  BY DEF RelayInv, WordsAreRight
<1>2. \A s \in ToSet(hist[j]) : Told(j, s)
  BY DEF Told
<1>. QED BY <1>1, <1>2 DEF JobWords

\* The user sees at most one end of a job, and a true one.
LEMMA EndsAreTrue == RelayInv => EndStatesAreTrue
<1>. SUFFICES ASSUME RelayInv, NEW j \in Jobs,
                     NEW ends, ends = ToSet(hist[j]) \cap EndStates
     PROVE  /\ "COMPLETED" \in ends => celery[j].saved
            /\ Cardinality(ends) > 1 => j \in overdue /\ "HORDE_FAILED" \in ends
  BY DEF EndStatesAreTrue
<1>1. "COMPLETED" \in ends => celery[j].saved
  BY EndsWereTold
<1>2. ASSUME Cardinality(ends) > 1 PROVE \E s, e \in ends : s # e
  <2>1. ends # {}
    BY <1>2, FS_EmptySet
  <2>2. PICK s : s \in ends
    BY <2>1
  <2>3. Cardinality({s}) = 1
    BY FS_Singleton
  <2>4. ends # {s}
    BY <1>2, <2>3
  <2>. QED BY <2>2, <2>4
<1>3. ends \subseteq {"REJECTED", "HORDE_FAILED", "COMPLETED", "FAILED"}
  BY WordSets
<1>4. ASSUME NEW s \in ends, NEW e \in ends, s # e
      PROVE  j \in overdue /\ "HORDE_FAILED" \in ends
  <2>1. \A x \in ends : x \in ToSet(hist[j])
    OBVIOUS
  <2>2. "COMPLETED" \in ends => celery[j].saved /\ celery[j].st = "done"
    BY <2>1, EndsWereTold
  <2>3. "FAILED" \in ends => ~celery[j].saved /\ celery[j].st = "done"
    BY <2>1, EndsWereTold
  <2>4. "REJECTED" \in ends => celery[j].st = "none" /\ "HORDE_FAILED" \notin ends
    BY <2>1, EndsWereTold
  <2>5. "HORDE_FAILED" \in ends => celery[j].st = "none" \/ j \in overdue
    BY <2>1, EndsWereTold
  <2>6. "done" # "none"
    OBVIOUS
  <2>7. "HORDE_FAILED" \in ends /\ ("COMPLETED" \in ends \/ "FAILED" \in ends)
    BY <1>3, <1>4, <2>2, <2>3, <2>4
  <2>. QED BY <2>2, <2>3, <2>5, <2>7
<1>. QED BY <1>1, <1>2, <1>4

\* A job whose messages met no broken connection shows its stages in their order.
LEMMA StagesInOrder == RelayInv => StatusesArriveInOrder
<1>. SUFFICES ASSUME RelayInv, NEW j \in Jobs \ disturbed,
                     NEW a \in 1 .. Len(hist[j]), NEW b \in 1 .. Len(hist[j]), a < b
     PROVE  /\ hist[j][a] \in EndStates => hist[j][b] \in EndStates \/ j \in overdue
            /\ hist[j][b] # "RECEIVED" \/ hist[j][a] = "SENT"
  BY DEF StatusesArriveInOrder
<1>1. InLine(j)
  BY DEF RelayInv, LinesAreRight
<1>2. hist[j] \in Seq(Statuses)
  BY DEF RelayInv, RelayTypes
<1>3. DOMAIN hist[j] = 1 .. Len(hist[j])
  BY <1>2
<1>. QED BY <1>1, <1>3 DEF InLine, ReceivedAfterSent, EndsAtLast

\* A job that a worker has or will get is the one the user waits for.
LEMMA WorkersJobIsTheUsers ==
  ASSUME RelayInv, NEW j \in Jobs, j \notin extra \cup overdue,
         celery[j].st \in {"queued", "running"}
  PROVE  j = sdk.job
<1>1. hist[j] # <<>>
  BY DEF RelayInv, WordsAreRight, JobWords
<1>2. ~HasEnd(hist[j])
  <2>. SUFFICES ASSUME NEW s \in ToSet(hist[j]), s \in EndStates PROVE FALSE
    BY DEF HasEnd
  <2>. QED BY WordSets, EndsWereTold
<1>. QED BY <1>1, <1>2 DEF RelayInv, OthersHaveEnded

\* What the facilitator shows of a job is right at every moment, whatever the
\* number of jobs, connections, attempts and faults: at most one end state, and
\* a true one, unless the validator stopped waiting for the result; the stages
\* in their order, unless a connection broke with a message under way; and a
\* cheat report about a completed job is never taken for a repetition
\* (ComputeHordeJob.wait, ValidatorConsumer.job_status_update and
\* FacilitatorClient).
THEOREM StatusesAlwaysRight == RelaySpec => []StatusesAreRight
<1>1. RelayInv => StatusesAreRight
  BY EndsAreTrue, StagesInOrder DEF RelayInv, OrdersComeOnce, StatusesAreRight
<1>. QED BY InitRelayInv, NextRelayInv, <1>1, PTL DEF RelaySpec

\* Two jobs that the user was told of and whose results the validator still
\* waits for are never at a worker together, however often run_until_complete
\* tries again.
THEOREM AlwaysOneRunAtATime == RelaySpec => []OneRunAtATime
<1>1. RelayInv => OneRunAtATime
  <2>. SUFFICES ASSUME RelayInv, NEW i \in Jobs, NEW j \in Jobs, i # j,
                       {i, j} \cap (extra \cup overdue) = {},
                       celery[i].st \in {"queued", "running"},
                       celery[j].st \in {"queued", "running"}
       PROVE  FALSE
    BY DEF OneRunAtATime
  <2>1. i \notin extra \cup overdue /\ j \notin extra \cup overdue
    OBVIOUS
  <2>2. i = sdk.job /\ j = sdk.job
    BY <2>1, WorkersJobIsTheUsers
  <2>. QED BY <2>2
<1>. QED BY InitRelayInv, NextRelayInv, <1>1, PTL DEF RelaySpec
=============================================================================
