----------------------------- MODULE JobRouting -----------------------------
(***************************************************************************)
(* Which miner gets an organic job, and what happens when it is busy.      *)
(* Requests are routed one at a time: the miners with allowance and        *)
(* collateral, the manifests and the busy counts are read once, and then   *)
(* the miners are tried in a random order until a reservation succeeds.    *)
(* The counts come from receipts that the driver writes later, on a        *)
(* worker, so a miner can be given more jobs than it has executors.  It    *)
(* then declines, with the receipts of its other jobs as an excuse, and    *)
(* the validator weighs them against the manifest.                         *)
(***************************************************************************)
EXTENDS Integers, FiniteSets, FiniteSetsExt, Sequences, SequencesExt

CONSTANTS
    Requests, RouteMiners,
    StartTtl,       \* ttl of a started receipt: the reservation time limit
    AcceptTtl,      \* ttl of an accepted receipt: readiness and the job
    ExcuseLeeway,   \* two seconds, by which an expired receipt still counts
    Announced,      \* executor counts a manifest may announce
    InitialAllowance, \* jobs that each miner's blocks can pay for
    MaxTime, MaxAnnouncements, MaxReceipts

ASSUME RoutingConstants ==
    /\ {StartTtl, AcceptTtl, ExcuseLeeway, InitialAllowance, MaxTime, MaxAnnouncements,
        MaxReceipts} \subseteq Nat
    /\ Announced \subseteq Nat \ {0} /\ Announced # {} /\ ExcuseLeeway > 0
    /\ IsFiniteSet(Requests) /\ IsFiniteSet(RouteMiners)

NoMiner == "none"
Unset == -1

VARIABLES
    time,
    manifests,  \* per miner, the executor counts it announced, oldest first
    allowed,    \* per miner, how many more jobs its allowance can pay for
    request,    \* per request: phase, miner, bookings, the miners left to try, what
                \* was read when it was picked, and what the miner declined with
    started, accepted, finished    \* per request, the time of its receipt

routeVars == <<time, manifests, allowed, request, started, accepted, finished>>

Latest(m) == Last(manifests[m])
InPhase(phases) == {r \in Requests : request[r].phase \in phases}
RunningOn(m) == {r \in InPhase({"running"}) : request[r].miner = m}

-----------------------------------------------------------------------------
(* Receipts *)

\* valid_at
StartValidAt(r, t) == started[r] # Unset /\ started[r] <= t /\ t <= started[r] + StartTtl
AcceptValidAt(r, t) == accepted[r] # Unset /\ accepted[r] <= t /\ t <= accepted[r] + AcceptTtl
FinishedBy(r, t) == finished[r] # Unset /\ finished[r] <= t
Of(m) == {r \in Requests : request[r].miner = m}

\* get_busy_executor_count: jobs with a valid started receipt, and jobs with a
\* valid accepted receipt whose started receipt is no longer valid.
BusyExecutorCount(m) ==
    Cardinality({r \in Of(m) : StartValidAt(r, time) /\ ~FinishedBy(r, time)})
    + Cardinality({r \in Of(m) : /\ AcceptValidAt(r, time) /\ ~FinishedBy(r, time)
                                 /\ ~StartValidAt(r, time)})

-----------------------------------------------------------------------------
(* _pick_miner_for_job_v2 *)

End(r, phase) == request' = [request EXCEPT ![r].phase = phase]

\* A request for the trusted miner, or any request when a debug miner is set,
\* is routed without a reservation.
RouteTrusted(r) ==
    /\ request[r].phase = "new" /\ InPhase({"picking"}) = {}
    /\ End(r, "trusted")
    /\ UNCHANGED <<time, manifests, allowed, started, accepted, finished>>

\* find_miners_with_allowance: those with enough that is neither spent nor
\* reserved, in blocks that have not expired; with none, it raises.
MinersWithAllowance == {m \in RouteMiners : allowed[m] > 0}

\* weighted_shuffle: no probability is below epsilon, so that every order can
\* come out whatever the reliability scores are.
Orders(miners) == SetToSeqs(miners)

\* get_current_manifests, and the comparison with the busy executors.
FullMiners == {m \in RouteMiners : BusyExecutorCount(m) >= Latest(m)}

\* Nobody has the allowance, or the collateral (when listing it fails, nobody
\* is left out); else everything is read and the miners are shuffled.
\* allowance().miners() may lack a miner that the ledger still has.
PickMiner(r) ==
    /\ request[r].phase = "new" /\ InPhase({"picking"}) = {}
    /\ IF MinersWithAllowance = {} THEN End(r, "failed")
       ELSE \E eligible \in SUBSET MinersWithAllowance, known \in SUBSET RouteMiners :
            IF eligible = {} THEN End(r, "failed")
            ELSE \E order \in Orders(eligible) :
                 request' = [request EXCEPT ![r] = [@ EXCEPT
                     !.phase = "picking", !.order = order, !.full = FullMiners,
                     !.known = known]]
    /\ UNCHANGED <<time, manifests, allowed, started, accepted, finished>>

\* Mutant of TryMiner: the next miner is tried although this one is reserved,
\* as if the lookup's error were caught with CannotReserveAllowanceException.
TryMinerCatchesAll(r) ==
    LET m == Head(request[r].order)
        rest == [request[r] EXCEPT !.order = Tail(@)]
    IN  /\ request[r].phase = "picking" /\ request[r].order # <<>>
        /\ IF m \in request[r].full \/ allowed[m] = 0
           THEN request' = [request EXCEPT ![r] = rest] /\ allowed' = allowed
           ELSE /\ allowed' = [allowed EXCEPT ![m] = @ - 1]
                /\ request' = [request EXCEPT ![r] =
                       IF m \in request[r].known
                       THEN [rest EXCEPT !.phase = "routed", !.miner = m, !.booked = @ + 1]
                       ELSE [rest EXCEPT !.booked = @ + 1]]
        /\ UNCHANGED <<time, manifests, started, accepted, finished>>

\* A busy miner is skipped, and so is one whose allowance is gone by now.  The
\* reservation is made before the miner is looked up: a KeyError ends the
\* request with the booking in place.
TryMiner(r) ==
    LET m == Head(request[r].order)
        rest == [request[r] EXCEPT !.order = Tail(@)]
    IN  /\ request[r].phase = "picking" /\ request[r].order # <<>>
        /\ IF m \in request[r].full \/ allowed[m] = 0
           THEN request' = [request EXCEPT ![r] = rest] /\ allowed' = allowed
           ELSE /\ allowed' = [allowed EXCEPT ![m] = @ - 1]
                /\ request' = [request EXCEPT ![r] =
                       [rest EXCEPT !.phase = IF m \in request[r].known THEN "routed" ELSE "failed",
                                    !.miner = m, !.booked = @ + 1]]
        /\ UNCHANGED <<time, manifests, started, accepted, finished>>

AllMinersBusy(r) ==
    /\ request[r].phase = "picking" /\ request[r].order = <<>>
    /\ End(r, "failed")
    /\ UNCHANGED <<time, manifests, allowed, started, accepted, finished>>

-----------------------------------------------------------------------------
(* The job on the miner, as far as receipts and executors are concerned *)

SendRequest(r) ==
    /\ request[r].phase = "routed"
    /\ End(r, "sent")
    /\ started' = [started EXCEPT ![r] = time]
    /\ UNCHANGED <<time, manifests, allowed, accepted, finished>>

MinerAccepts(r) ==
    /\ request[r].phase = "sent"
    /\ Cardinality(RunningOn(request[r].miner)) < Latest(request[r].miner)
    /\ End(r, "running")
    /\ accepted' = [accepted EXCEPT ![r] = time]
    /\ UNCHANGED <<time, manifests, allowed, started, finished>>

JobFinishes(r) ==
    /\ request[r].phase = "running"
    /\ End(r, "finished")
    /\ finished' = [finished EXCEPT ![r] = time]
    /\ UNCHANGED <<time, manifests, allowed, started, accepted>>

\* The receipts a full miner sends: its started receipts that are valid at the
\* time of the request, except the request's own.
HonestExcuse(r) ==
    {[job |-> q, miner |-> request[q].miner, trusted |-> TRUE, at |-> started[q]] :
        q \in {x \in Of(request[r].miner) \ {r} : StartValidAt(x, started[r])}}

\* ... and what another miner may send: receipts twice, of other miners, of the
\* declined job, expired, or of a validator without stake.
AnyReceipts ==
    {[job |-> q, miner |-> request[q].miner, trusted |-> t, at |-> started[q]] :
        q \in {x \in Requests : started[x] # Unset}, t \in BOOLEAN}

\* filter_valid_excuse_receipts: of this miner, for another job, by a validator
\* that counts, older than the request and not expired, and each job once.
IsExcuse(r, receipts, i) ==
    LET e == receipts[i] IN
    /\ e.miner = request[r].miner /\ e.job # r /\ e.trusted
    /\ e.at < started[r] /\ started[r] < e.at + StartTtl + ExcuseLeeway
    /\ \A j \in 1 .. i - 1 : receipts[j].job = e.job => ~receipts[j].trusted

\* get_expected_miner_executor_count: order_by("created_at").first(), so the
\* oldest manifest there is.
ExpectedExecutorCount(m) == Head(manifests[m])

\* MinerRejectedJob in drive_organic_job: the reservation is undone, and the
\* job is excused or the miner gets an incident.
MinerDeclines(r) ==
    LET m == request[r].miner
        full == Cardinality(RunningOn(m)) >= Latest(m)
    IN  /\ request[r].phase = "sent"
        /\ \E receipts \in (IF full THEN SetToSeqs(HonestExcuse(r)) ELSE {})
                           \cup SeqOf(AnyReceipts, MaxReceipts) :
           LET excuses == {i \in DOMAIN receipts : IsExcuse(r, receipts, i)}
               enough == Cardinality(excuses) >= ExpectedExecutorCount(m)
           IN  /\ request' = [request EXCEPT ![r] = [@ EXCEPT
                      !.phase = IF enough THEN "excused" ELSE "rejected", !.booked = 0,
                      !.proof = IF full /\ ToSet(receipts) = HonestExcuse(r)
                                THEN RunningOn(m) ELSE {}]]
               /\ allowed' = [allowed EXCEPT ![m] = @ + request[r].booked]
        /\ UNCHANGED <<time, manifests, started, accepted, finished>>

Announce(m) ==
    /\ Len(manifests[m]) <= MaxAnnouncements
    /\ \E n \in Announced \ {Latest(m)} : manifests' = [manifests EXCEPT ![m] = Append(@, n)]
    /\ UNCHANGED <<time, allowed, request, started, accepted, finished>>

PassTime ==
    /\ time < MaxTime
    /\ time' = time + 1
    /\ UNCHANGED <<manifests, allowed, request, started, accepted, finished>>

-----------------------------------------------------------------------------
NewRequest == [phase |-> "new", miner |-> NoMiner, booked |-> 0, order |-> <<>>, full |-> {},
               known |-> {}, proof |-> {}]

RouteInit ==
    /\ time = 0
    /\ manifests \in [RouteMiners -> {<<n>> : n \in Announced}]
    /\ allowed = [m \in RouteMiners |-> InitialAllowance]
    /\ request = [r \in Requests |-> NewRequest]
    /\ started = [r \in Requests |-> Unset]
    /\ accepted = [r \in Requests |-> Unset] /\ finished = [r \in Requests |-> Unset]

RouteNext ==
    \/ PassTime
    \/ \E m \in RouteMiners : Announce(m)
    \/ \E r \in Requests :
           \/ RouteTrusted(r) \/ PickMiner(r) \/ TryMiner(r) \/ AllMinersBusy(r)
           \/ SendRequest(r) \/ MinerAccepts(r) \/ MinerDeclines(r) \/ JobFinishes(r)

RouteSpec == RouteInit /\ [][RouteNext]_routeVars

-----------------------------------------------------------------------------
(* Properties *)

\* Allowance is neither lost nor doubled on the way from routing to the end of
\* a job: what is booked and what is left add up, a request never books twice,
\* and one that failed or was declined holds nothing, unless the lookup after
\* the reservation failed.
BookingsFollowRequests ==
    /\ \A m \in RouteMiners :
           allowed[m] + Cardinality({r \in Of(m) : request[r].booked > 0}) = InitialAllowance
    /\ \A r \in Requests :
           /\ request[r].booked <= 1
           /\ request[r].phase \in {"failed", "excused", "rejected"} /\ request[r].booked = 1
              => request[r].miner \notin request[r].known

\* The busy count is the number of the miner's unfinished jobs that some valid
\* receipt stands for, each counted once as it passes from its started receipt
\* to its accepted one.
BusyCountsJobsOnce ==
    \A m \in RouteMiners :
        BusyExecutorCount(m) =
            Cardinality({r \in Of(m) : /\ StartValidAt(r, time) \/ AcceptValidAt(r, time)
                                       /\ ~FinishedBy(r, time)})

OverlapsStart(q, r) == started[q] < started[r] /\ started[r] <= started[q] + StartTtl

\* Whatever receipts a miner sends, it is excused only for as many different
\* jobs of its own, begun before and not expired for longer than the leeway, as
\* it had executors in its first manifest.
ExcusesAreEarned ==
    \A r \in InPhase({"excused"}) :
        Cardinality({q \in Of(request[r].miner) \ {r} :
                        /\ started[q] # Unset /\ started[q] < started[r]
                        /\ started[r] < started[q] + StartTtl + ExcuseLeeway})
            >= Head(manifests[request[r].miner])

\* A miner that is full and shows all its valid receipts is excused, as long as
\* its manifest has not changed and every job it runs was requested before and
\* within the life of a started receipt.
FreshlyBusyIsExcused ==
    \A r \in InPhase({"rejected"}) :
        ~(/\ request[r].proof # {}
          /\ Len(manifests[request[r].miner]) = 1
          /\ \A q \in request[r].proof : OverlapsStart(q, r))

\* Between pick_miner_for_job_request, the driver and the receipts: every
\* booking belongs to a request that holds it, a job makes its miner busy
\* once, and a miner that declines is excused if its executors are full with
\* other jobs that were requested before, and not otherwise.
RoutingIsFair ==
    /\ BookingsFollowRequests
    /\ BusyCountsJobsOnce
    /\ ExcusesAreEarned
    /\ FreshlyBusyIsExcused

=============================================================================
