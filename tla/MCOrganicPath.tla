---------------------------- MODULE MCOrganicPath ----------------------------
(***************************************************************************)
(* The two ends of an organic job's path: a behaviour is one of the relay  *)
(* between user and validator, or one of a miner's executor pool.  The two *)
(* share no state, so they are checked side by side.                       *)
(***************************************************************************)
EXTENDS JobRelay, ExecutorPool

VARIABLE part

\* The part that is not taken stays in one of its initial states.
PathInit ==
  /\ part \in {"relay", "pool"}
  /\ RelayInit /\ PoolInit
  /\ part # "pool" => count = Max(Counts) /\ ~prompt

PathNext ==
  \/ part = "relay" /\ RelayNext /\ UNCHANGED <<part, executorPoolVars>>
  \/ part = "pool" /\ PoolNext /\ UNCHANGED <<part, relayVars>>

PathSpec ==
  /\ PathInit /\ [][PathNext]_<<part, relayVars, executorPoolVars>>
  /\ \/ part = "relay" /\ RelayFairness
     \/ part = "pool" /\ PoolFairness
=============================================================================
