---------------------------- MODULE MachineSpecs ----------------------------
(***************************************************************************)
(* The hardware that executors report.  The validator forwards the specs   *)
(* of finished jobs to the facilitator through a queue that survives a     *)
(* broken connection (organic_jobs/facilitator_client.py).  There, every   *)
(* connection saves what it gets in a row of queries, none of which share  *)
(* a transaction: the raw data once, a snapshot, and the parsed rows that  *)
(* the raw data stands for (core/specs.py); eviction deletes old rows in   *)
(* between (core/eviction.py).  All machines have one set of other specs   *)
(* and one GPU model: what is shared is the hard part.  CpuSpecs is like   *)
(* OtherSpecs, with a constraint that works, and is left out.              *)
(***************************************************************************)
EXTENDS Integers, FiniteSets, Sequences

CONSTANTS SpecData,    \* contents of a report
          Forwarder,   \* the connection of the validator that is modelled
          OtherValidators,
          MaxReports   \* bound: specs the validator forwards

ASSUME SpecsAssumption ==
  Forwarder \notin OtherValidators /\ MaxReports \in Nat

VARIABLES
  kindOf,     \* data -> what get_machine_specs could read: see Scraped
  specsSent,  \* reports so far: each is a number with its data
  outbox,     \* MACHINE_SPEC_CHANNEL of the channel layer
  specsQueue, \* the deque of wait_for_specs
  linkUp,     \* self.ws is not None
  onWire,     \* sent, and not yet handled by the facilitator
  arrived,    \* handled, in this order
  lostSpecs,  \* numbers of reports refused by the channel or lost on the wire
  saver,      \* connection -> save_machine_specs: its place and its data
  raw,        \* RawSpecsData: data -> "none", or its age "fresh" or "old"
  snapshots,  \* data with an ExecutorSpecsSnapshot
  parsed,     \* data with a ParsedSpecsData row
  gpuSpecs,   \* data with their GpuSpecs rows
  otherRows,  \* OtherSpecs: how many
  gpuRow,     \* GPU: its age
  evicting,   \* statements of evict_machine_specs that are done
  broken,     \* data whose last save was cut short
  bare        \* parsed data that lost, or never got, their GpuSpecs

forwardVars == <<specsSent, outbox, specsQueue, linkUp, onWire, arrived, lostSpecs>>
tableVars == <<kindOf, raw, snapshots, parsed, gpuSpecs, otherRows, gpuRow>>
specsVars == <<forwardVars, saver, tableVars, evicting, broken, bare>>

Idle == [at |-> "idle"]
Connections == OtherValidators \cup {Forwarder}
Busy(d) == \E c \in Connections : saver[c].at # "idle" /\ saver[c].data = d
Numbers(s) == {s[i].n : i \in DOMAIN s}

\* get_machine_specs: without nvidia-smi there are no GPU details, and a GPU field
\* that is "[N/A]" is kept, which HardwareSpec refuses.
Scraped == {"gpus", "no gpus", "odd gpus"}

SpecsInit ==
  /\ specsSent = 0 /\ outbox = <<>> /\ specsQueue = <<>> /\ linkUp = FALSE
  /\ onWire = <<>> /\ arrived = <<>> /\ lostSpecs = {}
  /\ saver = [c \in Connections |-> Idle]
  /\ raw = [d \in SpecData |-> "none"]
  /\ snapshots = {} /\ parsed = {} /\ gpuSpecs = {}
  /\ kindOf \in [SpecData -> Scraped] /\ otherRows = 0 /\ gpuRow = "none"
  /\ evicting = 0 /\ broken = {} /\ bare = {}

-----------------------------------------------------------------------------
(* The validator *)

\* _send_machine_specs: one message per job, and an exception or a timeout only
\* counts.
SendMachineSpecs ==
  /\ specsSent < MaxReports /\ specsSent' = specsSent + 1
  /\ \/ \E d \in SpecData : outbox' = Append(outbox, [n |-> specsSent + 1, data |-> d])
        /\ UNCHANGED lostSpecs
     \/ lostSpecs' = lostSpecs \cup {specsSent + 1} /\ UNCHANGED outbox
  /\ UNCHANGED <<specsQueue, linkUp, onWire, arrived, saver, tableVars, evicting, broken, bare>>

\* What is left when k messages were sent: the next one is put back in front.
Unsent(queue, k) == SubSeq(queue, k + 1, Len(queue))

\* wait_for_specs: a message is received and queued, and the queue is sent as
\* far as it goes.  It is only looked at when a message is received.
WaitForSpecs ==
  /\ outbox # <<>> /\ outbox' = Tail(outbox)
  /\ LET queue == Append(specsQueue, Head(outbox)) IN
     \E k \in (IF linkUp THEN 0 .. Len(queue) ELSE {0}) :
        specsQueue' = Unsent(queue, k) /\ onWire' = onWire \o SubSeq(queue, 1, k)
  /\ UNCHANGED <<specsSent, linkUp, arrived, lostSpecs, saver, tableVars, evicting, broken, bare>>

\* run_forever
LinkOpens ==
  /\ ~linkUp /\ linkUp' = TRUE
  /\ UNCHANGED <<specsSent, outbox, specsQueue, onWire, arrived, lostSpecs, saver, tableVars,
                 evicting, broken, bare>>

Sever == linkUp' = FALSE /\ onWire' = <<>> /\ lostSpecs' = lostSpecs \cup Numbers(onWire)

LinkBreaks ==
  /\ linkUp /\ Sever
  /\ UNCHANGED <<specsSent, outbox, specsQueue, arrived, saver, tableVars, evicting, broken, bare>>

-----------------------------------------------------------------------------
(* save_machine_specs: one step per query *)

SavesAt(c, place) == saver[c].at = place
Goes(c, place) == saver' = [saver EXCEPT ![c].at = place]

\* machine_specs_update: nothing is saved for a miner or a validator that is not
\* active.  A consumer handles one message at a time.
BeginSaving(c) ==
  /\ SavesAt(c, "idle")
  /\ \/ /\ c # Forwarder
        /\ \E d \in SpecData : saver' = [saver EXCEPT ![c] = [at |-> "raw", data |-> d]]
        /\ UNCHANGED forwardVars
     \/ /\ c = Forwarder /\ onWire # <<>>
        /\ onWire' = Tail(onWire) /\ arrived' = Append(arrived, Head(onWire))
        /\ saver' \in {saver, [saver EXCEPT ![c] = [at |-> "raw", data |-> Head(onWire).data]]}
        /\ UNCHANGED <<specsSent, outbox, specsQueue, linkUp, lostSpecs>>
  /\ UNCHANGED <<tableVars, evicting, broken, bare>>

\* An exception in the handler ends the consumer, and with it the connection.
Raises(c) ==
  /\ saver' = [saver EXCEPT ![c] = Idle]
  /\ broken' = broken \cup {saver[c].data}
  /\ bare' = IF saver[c].at \in {"gpu", "gpuspecs"} THEN bare \cup {saver[c].data} ELSE bare
  /\ IF c = Forwarder THEN Sever /\ UNCHANGED <<specsSent, outbox, specsQueue, arrived>>
     ELSE UNCHANGED forwardVars
  /\ UNCHANGED <<tableVars, evicting>>

\* The save ends normally.
Saved(c) == saver' = [saver EXCEPT ![c] = Idle] /\ broken' = broken \ {saver[c].data}

SaveRaw(c) ==
  /\ SavesAt(c, "raw") /\ Goes(c, "snapshot")
  /\ raw' = [raw EXCEPT ![saver[c].data] = IF @ = "none" THEN "fresh" ELSE @]
  /\ UNCHANGED <<forwardVars, kindOf, snapshots, parsed, gpuSpecs, otherRows, gpuRow, evicting,
                 broken, bare>>

\* The foreign key fails when the raw data was evicted meanwhile.
SaveSnapshot(c) ==
  /\ SavesAt(c, "snapshot")
  /\ \/ /\ raw[saver[c].data] # "none" /\ snapshots' = snapshots \cup {saver[c].data}
        /\ Goes(c, "parsed")
        /\ UNCHANGED <<forwardVars, kindOf, raw, parsed, gpuSpecs, otherRows, gpuRow, evicting,
                       broken, bare>>
     \/ raw[saver[c].data] = "none" /\ Raises(c)

\* Mutant of IsParsed: data that an earlier save stopped at counts as parsed.
IsParsedIfKnown(d) == d \in parsed \/ d \in broken

\* ParsedSpecsData.objects.filter(pk=raw_specs.pk).aexists()
IsParsed(d) == d \in parsed

\* The test whether the data is parsed, and the parsing; when that fails, the
\* name that should hold its result is unbound.
ParseSpecs(c) ==
  /\ SavesAt(c, "parsed")
  /\ \/ IsParsed(saver[c].data) /\ Saved(c) /\ UNCHANGED <<forwardVars, tableVars, evicting, bare>>
     \/ /\ ~IsParsed(saver[c].data) /\ kindOf[saver[c].data] # "odd gpus" /\ Goes(c, "other")
        /\ UNCHANGED <<forwardVars, tableVars, evicting, broken, bare>>
     \/ ~IsParsed(saver[c].data) /\ kindOf[saver[c].data] = "odd gpus" /\ Raises(c)

\* OtherSpecs.objects.aget_or_create: the get.  It raises on two rows.
GetOther(c) ==
  /\ SavesAt(c, "other")
  /\ \/ /\ \/ otherRows = 0 /\ Goes(c, "newother")
           \/ otherRows = 1 /\ Goes(c, "row")
        /\ UNCHANGED <<forwardVars, tableVars, evicting, broken, bare>>
     \/ otherRows > 1 /\ Raises(c)

\* ... and the create.  virtualization is never sent, and unique_other_specs does
\* not compare rows in which it is NULL.
CreateOther(c) ==
  /\ SavesAt(c, "newother") /\ Goes(c, "row") /\ otherRows' = otherRows + 1
  /\ UNCHANGED <<forwardVars, kindOf, raw, snapshots, parsed, gpuSpecs, gpuRow, evicting,
                 broken, bare>>

\* ParsedSpecsData.objects.aget_or_create: only the one who made the row goes on,
\* "if parsed_specs already exists, then gpu_specs should also exist".
SaveParsed(c) ==
  LET d == saver[c].data IN
  /\ SavesAt(c, "row")
  /\ \/ d \in parsed /\ Saved(c) /\ UNCHANGED <<forwardVars, tableVars, evicting, bare>>
     \/ /\ d \notin parsed /\ raw[d] # "none" /\ otherRows > 0
        /\ parsed' = parsed \cup {d}
        /\ IF kindOf[d] = "no gpus" THEN Saved(c) ELSE Goes(c, "gpu") /\ UNCHANGED broken
        /\ UNCHANGED <<forwardVars, kindOf, raw, snapshots, gpuSpecs, otherRows, gpuRow, evicting,
                       bare>>
     \/ d \notin parsed /\ ~(raw[d] # "none" /\ otherRows > 0) /\ Raises(c)

\* GPU.objects.aget_or_create
SaveGpu(c) ==
  /\ SavesAt(c, "gpu") /\ Goes(c, "gpuspecs")
  /\ gpuRow' = IF gpuRow = "none" THEN "fresh" ELSE gpuRow
  /\ UNCHANGED <<forwardVars, kindOf, raw, snapshots, parsed, gpuSpecs, otherRows, evicting,
                 broken, bare>>

\* GpuSpecs.objects.abulk_create: the parsed row, or the GPU, may be gone.
SaveGpuSpecs(c) ==
  LET d == saver[c].data IN
  /\ SavesAt(c, "gpuspecs")
  /\ \/ /\ d \in parsed /\ gpuRow # "none" /\ Saved(c) /\ gpuSpecs' = gpuSpecs \cup {d}
        /\ UNCHANGED <<forwardVars, kindOf, raw, snapshots, parsed, otherRows,
                       gpuRow, evicting, bare>>
     \/ (d \notin parsed \/ gpuRow = "none") /\ Raises(c)

\* A restart, or an error of the database, cuts a save short.
SavingFails(c) == ~SavesAt(c, "idle") /\ Raises(c)

-----------------------------------------------------------------------------
(* Other tasks of the facilitator *)

\* record_compute_subnet_hardware: the GPU rows its counts refer to.
RecordHardware ==
  /\ gpuRow = "none" /\ gpuRow' = "fresh"
  /\ UNCHANGED <<forwardVars, saver, kindOf, raw, snapshots, parsed, gpuSpecs, otherRows, evicting,
                 broken, bare>>

\* Seven days pass for the raw data, or for the GPU: created_at is when it was
\* first seen.
RowsAge ==
  /\ \/ raw' \in {[raw EXCEPT ![d] = "old"] : d \in {x \in SpecData : raw[x] = "fresh"}}
        /\ UNCHANGED gpuRow
     \/ gpuRow = "fresh" /\ gpuRow' = "old" /\ UNCHANGED raw
  /\ UNCHANGED <<forwardVars, saver, kindOf, snapshots, parsed, gpuSpecs, otherRows, evicting,
                 broken, bare>>

\* Deleting raw data takes its snapshots, its parsed row and its GpuSpecs along.
EvictRaw ==
  LET gone == {d \in SpecData : raw[d] = "old"} IN
  /\ evicting = 0 /\ evicting' = 1
  /\ raw' = [d \in SpecData |-> IF d \in gone THEN "none" ELSE raw[d]]
  /\ snapshots' = snapshots \ gone /\ parsed' = parsed \ gone /\ gpuSpecs' = gpuSpecs \ gone
  /\ bare' = bare \ gone /\ broken' = broken \ gone
  /\ UNCHANGED <<forwardVars, saver, kindOf, otherRows, gpuRow>>

\* Deleting a GPU takes the GpuSpecs along, however new.
EvictGpu ==
  /\ evicting = 1 /\ evicting' = 2
  /\ gpuRow' = IF gpuRow = "old" THEN "none" ELSE gpuRow
  /\ gpuSpecs' = IF gpuRow = "old" THEN {} ELSE gpuSpecs
  /\ bare' = IF gpuRow = "old" THEN bare \cup gpuSpecs ELSE bare
  /\ UNCHANGED <<forwardVars, saver, kindOf, raw, snapshots, parsed, otherRows, broken>>

\* Other specs that no parsed row refers to.
EvictUnloved ==
  /\ evicting = 2 /\ evicting' = 0
  /\ otherRows' = IF parsed = {} THEN 0 ELSE otherRows
  /\ UNCHANGED <<forwardVars, saver, kindOf, raw, snapshots, parsed, gpuSpecs,
                 gpuRow, broken, bare>>

SpecsNext ==
  \/ SendMachineSpecs \/ WaitForSpecs \/ LinkOpens \/ LinkBreaks
  \/ \E c \in Connections :
       \/ BeginSaving(c) \/ SaveRaw(c) \/ SaveSnapshot(c) \/ ParseSpecs(c) \/ GetOther(c)
       \/ CreateOther(c) \/ SaveParsed(c) \/ SaveGpu(c) \/ SaveGpuSpecs(c) \/ SavingFails(c)
  \/ RecordHardware \/ RowsAge \/ EvictRaw \/ EvictGpu \/ EvictUnloved

SpecsSpec == SpecsInit /\ [][SpecsNext]_specsVars

-----------------------------------------------------------------------------
(* Properties *)

Pipeline == arrived \o onWire \o specsQueue \o outbox

\* Specs reach the facilitator in the order in which they were reported, so that
\* a miner's last snapshot is its last state, and none is lost but those the
\* channel refused and those on the wire when the connection broke: the queue of
\* wait_for_specs keeps its order through failed sends.
SpecsArriveInOrder ==
  /\ \A i, k \in DOMAIN Pipeline : i < k => Pipeline[i].n < Pipeline[k].n
  /\ Numbers(Pipeline) \cup lostSpecs = 1 .. specsSent

\* Saved data ends up parsed, however saves of the same data by two connections
\* and eviction interleave: if it is not, someone is at it or the last save of it
\* was cut short, and the next save of it makes up for that.
SavedSpecsGetParsed == \A d \in snapshots : d \in parsed \/ Busy(d) \/ d \in broken

\* Parsed data has its GPU rows: process_raw_specs_data's "if parsed_specs already
\* exists, then gpu_specs should also exist".  The exceptions are a save cut short
\* after the parsed row was made, and a GPU evicted with everything that refers to
\* it; in both cases the rows are not made up for until the raw data is evicted.
ParsedSpecsHaveGpus ==
  \A d \in parsed : kindOf[d] = "no gpus" \/ d \in gpuSpecs \/ Busy(d) \/ d \in bare

\* Specs from the validator's queue to the facilitator's tables, over a
\* connection that breaks and with saves cut short: they arrive in the order
\* of their reports, saved data gets parsed, and parsed data has its GPU rows,
\* with the exceptions that each part names.
SpecsAreComplete ==
    /\ SpecsArriveInOrder
    /\ SavedSpecsGetParsed
    /\ ParsedSpecsHaveGpus


\* OtherSpecs has the constraint unique_other_specs: no two rows are the same.
OtherSpecsAreUnique == otherRows <= 1
=============================================================================
