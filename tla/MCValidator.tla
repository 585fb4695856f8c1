----------------------------- MODULE MCValidator -----------------------------
(***************************************************************************)
(* Seven parts of a validator whose safety is checked on their own: a      *)
(* behaviour is one of one part.  The parts share no state, so they are    *)
(* checked side by side, as a disjoint sum of their specifications.        *)
(***************************************************************************)
EXTENDS PromptPipeline, WeightSetting, MinerUpkeep, SpendingCheck, Dancing,
        JobRouting, ChainCache

VARIABLE part

\* Blocks at the edges of the commit window and of the cycles around it.
MCSetterHeads == {2880, 2886, 2900, 3248, 3249, 3250, 3594, 3595, 3596, 3597,
                  3609, 3610, 3611, 3970, 3971}

\* A part that is not taken stays in one of its initial states.
ValidatorInit ==
  /\ part \in {"prompts", "weights", "miners", "slashing", "events", "spending",
               "dancing", "routing", "cache"}
  /\ PromptInit /\ SetterInit /\ UpkeepInit /\ CacheInit
  /\ RouteInit
  /\ part # "routing" => manifests = [m \in RouteMiners |-> <<Max(Announced)>>]
  /\ SpendingInit
  /\ part # "spending" => rows = Chain /\ invalidated = [b \in Chain |-> Never]
  /\ DanceInit
  /\ part # "dancing" => /\ coldkeyOf = [h \in DanceHotkeys |-> h]
                         /\ paidScores = [k \in Classes2 |-> [h \in DanceHotkeys |-> 0]]
                         /\ previousMain = [c \in Coldkeys |-> Silent]

\* The variables of all the parts but one.
Others(own) ==
  /\ UNCHANGED part
  /\ own # "prompts" => UNCHANGED promptVars
  /\ own # "weights" => UNCHANGED setterVars
  /\ own # "upkeep" => UNCHANGED upkeepVars
  /\ own # "spending" => UNCHANGED spendingVars
  /\ own # "dancing" => UNCHANGED danceVars
  /\ own # "routing" => UNCHANGED routeVars
  /\ own # "cache" => UNCHANGED cacheVars

ValidatorNext ==
  \/ part = "prompts" /\ PromptNext /\ Others("prompts")
  \/ part = "weights" /\ SetterNext /\ Others("weights")
  \/ part = "miners" /\ MinersNext /\ Others("upkeep")
  \/ part = "slashing" /\ SlashNext /\ Others("upkeep")
  \/ part = "events" /\ EventsNext /\ Others("upkeep")
  \/ part = "spending" /\ SpendingNext /\ Others("spending")
  \/ part = "dancing" /\ DanceNext /\ Others("dancing")
  \/ part = "routing" /\ RouteNext /\ Others("routing")
  \/ part = "cache" /\ CacheNext /\ Others("cache")
=============================================================================
