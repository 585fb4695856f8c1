----------------------------- MODULE MCServices -----------------------------
(***************************************************************************)
(* The parts around the validator, and those it shares with a miner, whose *)
(* safety is checked on their own: a behaviour is one of one part.  The    *)
(* parts share no state, so they are checked side by side, as a disjoint   *)
(* sum of their specifications.                                            *)
(***************************************************************************)
EXTENDS AnswerDownload, ReceiptTransfer, DockerServers, ExecutorDriver,
        FallbackSdk, SignedRequests, Transport, FacilitatorUpkeep, MachineSpecs,
        PeriodicFetches

VARIABLE part

\* A part that is not taken stays in one of its initial states.
ServicesInit ==
  /\ part \in {"downloads", "receipts", "docker", "driver", "fallback", "signed",
               "transport", "facilitator", "specs", "validators", "settings"}
  /\ TransferInit /\ TransportInit /\ FacilitatorInit
  /\ DownloadInit
  /\ part # "downloads" => queue = CHOOSE q \in [1..Cardinality(Downloads) -> Downloads] :
                                     \A i, k \in DOMAIN q : i # k => q[i] # q[k]
  /\ DockerInit
  /\ part # "docker" => config = [s \in Servers |-> CHOOSE c \in Classes : TRUE]
  /\ DriverInit
  /\ part # "driver" => stream \in {CHOOSE b \in Streams : TRUE} /\ hostbox = {}
  /\ FallbackInit
  /\ part # "fallback" => ~timed /\ ~streams
  /\ SignedInit
  /\ part # "signed" => listed /\ \A c \in Creators : call[c].data = CHOOSE d \in JobSpecs : TRUE
  /\ SpecsInit
  /\ part # "specs" => kindOf = [d \in SpecData |-> "gpus"]
  /\ FetchesInit
  /\ part # "validators" => stake = [k \in Holders |-> 0]
  /\ part # "settings" => /\ dynamicFiles = [f \in {"own", "common"} |-> <<>>]
                          /\ contract = "unused"

\* The variables of all the parts but one.
Others(own) ==
  /\ UNCHANGED part
  /\ own # "downloads" => UNCHANGED downloadVars
  /\ own # "receipts" => UNCHANGED transferVars
  /\ own # "docker" => UNCHANGED dockerVars
  /\ own # "driver" => UNCHANGED driverVars
  /\ own # "fallback" => UNCHANGED fallbackVars
  /\ own # "signed" => UNCHANGED signedVars
  /\ own # "transport" => UNCHANGED transportVars
  /\ own # "facilitator" => UNCHANGED facilitatorVars
  /\ own # "specs" => UNCHANGED specsVars
  /\ own # "fetches" => UNCHANGED fetchesVars

ServicesNext ==
  \/ part = "downloads" /\ DownloadNext /\ Others("downloads")
  \/ part = "receipts" /\ TransferNext /\ Others("receipts")
  \/ part = "docker" /\ DockerNext /\ Others("docker")
  \/ part = "driver" /\ DriverNext /\ Others("driver")
  \/ part = "fallback" /\ FallbackNext /\ Others("fallback")
  \/ part = "signed" /\ SignedNext /\ Others("signed")
  \/ part = "transport" /\ TransportNext /\ Others("transport")
  \/ part = "facilitator" /\ FacilitatorNext /\ Others("facilitator")
  \/ part = "specs" /\ SpecsNext /\ Others("specs")
  \/ part = "validators" /\ ValidatorListNext /\ Others("fetches")
  \/ part = "settings" /\ DynamicConfigNext /\ Others("fetches")
=============================================================================
