------------------------------- MODULE Dancing -------------------------------
(***************************************************************************)
(* From paid job scores to weights.  For each executor class the scores of *)
(* a coldkey's hotkeys are added up and handed out again: most of it to    *)
(* the main hotkey the miner names, with a bonus if that is another one    *)
(* than in the cycle before.  The miners are asked while the scores are    *)
(* computed, class by class, and may fail to answer; the first answer of a *)
(* cycle is a row of MinerMainHotkey, in the transaction that sets the     *)
(* weights.  At the end a part of the weights is given to the burners.     *)
(*                                                                         *)
(* The code's scores and weights are fractions.  Here they are counted in  *)
(* parts so small that every division is exact.                            *)
(***************************************************************************)
EXTENDS Integers, FiniteSets, FiniteSetsExt, Functions

CONSTANTS
    DanceHotkeys, Coldkeys,
    Ghost,           \* a main hotkey that is not registered
    Silent,          \* no answer, or no row
    ScoreUnit,       \* divisible by every number of hotkeys
    BonusPercent,    \* DYNAMIC_DANCING_BONUS
    SharePercent,    \* MAIN_HOTKEY_SHARE
    BurnPercent,     \* DYNAMIC_BURN_RATE
    PartitionPercent \* DYNAMIC_BURN_PARTITION

ASSUME DancingConstants ==
    /\ DanceHotkeys \cap Coldkeys = {} /\ {Ghost, Silent} \cap DanceHotkeys = {}
    /\ IsFiniteSet(DanceHotkeys)
    /\ ScoreUnit \in Nat \ {0} /\ \A n \in 1 .. Cardinality(DanceHotkeys) : ScoreUnit % n = 0
    /\ {BonusPercent, SharePercent, BurnPercent, PartitionPercent} \subseteq 0 .. 100

VARIABLES
    coldkeyOf,     \* hotkey_to_coldkey, the hotkey itself where none is known
    paidScores,    \* per class, calculate_allowance_paid_job_scores
    previousMain,  \* per coldkey, the row of the previous cycle
    mainRow,       \* per coldkey, the row of this cycle
    classesDone,   \* the classes that were scored are 1 .. classesDone
    shares,        \* per class, the final scores
    mainUsed,      \* per class and coldkey, the main hotkey the scores used
    burn           \* weight_adjustment of the burners; <<>> while not computed

danceVars == <<coldkeyOf, paidScores, previousMain, mainRow, classesDone, shares, mainUsed,
               burn>>

\* The score of one paid job: the bonus and the share are percentages of it.
JobScore == 10000 * ScoreUnit

Classes2 == {1, 2}
Owners == Coldkeys \cup DanceHotkeys
HotkeysOf(c) == {h \in DanceHotkeys : coldkeyOf[h] = c}

\* _group_scores_by_coldkey
GroupScore(k, c) == SumFunctionOnSet(paidScores[k], HotkeysOf(c))
Grouped(k) == {c \in Owners : \E h \in HotkeysOf(c) : paidScores[k][h] > 0}

EvenSplit(total, hotkeys) == [h \in hotkeys |-> total \div Cardinality(hotkeys)]

\* _apply_main_hotkey_distribution and its variant with the bonus, which only
\* differs in the total.
Distribute(total, main, hotkeys) ==
    LET mainScore == (total * SharePercent) \div 100 IN
    IF main \notin hotkeys THEN EvenSplit(total, hotkeys)
    ELSE IF hotkeys = {main} THEN [h \in hotkeys |-> total]
    ELSE [h \in hotkeys |-> IF h = main THEN mainScore
                            ELSE EvenSplit(total - mainScore, hotkeys \ {main})[h]]

\* _process_coldkey_main_hotkey
Dances(c, main) == main # Silent /\ previousMain[c] # Silent /\ main # previousMain[c]
WithBonus(c, total, main) ==
    IF Dances(c, main) THEN (total * (100 + BonusPercent)) \div 100 ELSE total
DistributeFor(c, total, main) ==
    IF main = Silent THEN EvenSplit(total, HotkeysOf(c))
    ELSE Distribute(WithBonus(c, total, main), main, HotkeysOf(c))

\* Mutant of MainHotkey: the miner is asked again for every class.
MainHotkeyAsked(c, answer) == answer

\* _query_current_main_hotkeys: the row of this cycle, else the first usable
\* answer of the coldkey's hotkeys (query_miner_main_hotkeys).
MainHotkey(c, answer) == IF mainRow[c] # Silent THEN mainRow[c] ELSE answer

\* One executor class in the loop of calculate_scores_for_cycles.  A hotkey
\* without a coldkey stands for itself and keeps its score.
ScoreClass(k) ==
    \E answers \in [Coldkeys -> DanceHotkeys \cup {Ghost, Silent}] :
        LET asked == Grouped(k) \cap Coldkeys
            main == [c \in asked |-> MainHotkey(c, answers[c])]
        IN  /\ k = classesDone + 1 /\ classesDone' = k
            /\ \A c \in Coldkeys \ asked : answers[c] = Silent
            /\ mainRow' = [c \in Coldkeys |-> IF c \in asked THEN main[c] ELSE mainRow[c]]
            /\ mainUsed' = [mainUsed EXCEPT ![k] = main]
            /\ shares' = [shares EXCEPT ![k] =
                   [h \in {x \in DanceHotkeys : coldkeyOf[x] \in Grouped(k)} |->
                       IF coldkeyOf[h] = h THEN paidScores[k][h]
                       ELSE DistributeFor(coldkeyOf[h], GroupScore(k, coldkeyOf[h]),
                                          main[coldkeyOf[h]])[h]]]
            /\ UNCHANGED <<coldkeyOf, paidScores, previousMain, burn>>

\* An error rolls the transaction back, the rows of the main hotkeys included;
\* the next run of set_scores starts over.
ScoringFails ==
    /\ classesDone > 0
    /\ classesDone' = 0
    /\ shares' = [k \in Classes2 |-> <<>>]
    /\ mainUsed' = [k \in Classes2 |-> <<>>]
    /\ mainRow' = [c \in Coldkeys |-> Silent]
    /\ burn' = <<>>
    /\ UNCHANGED <<coldkeyOf, paidScores, previousMain>>

\* weight_adjustment in apply_dancing_burners; all the weight is JobScore.
BurnShare(h, main, burners) ==
    IF Cardinality(burners) = 1 THEN BurnPercent * 100 * ScoreUnit
    ELSE IF h = main THEN BurnPercent * PartitionPercent * ScoreUnit
    ELSE (BurnPercent * (100 - PartitionPercent) * ScoreUnit) \div (Cardinality(burners) - 1)

\* The burners that are registered share the burn; the main one is drawn with
\* the cycle as the seed.
ApplyBurners ==
    /\ classesDone = 2 /\ burn = <<>>
    /\ \E burners \in SUBSET DanceHotkeys : \E main \in burners :
           burn' = [h \in burners |-> BurnShare(h, main, burners)]
    /\ UNCHANGED <<coldkeyOf, paidScores, previousMain, mainRow, classesDone, shares, mainUsed>>

DanceInit ==
    /\ coldkeyOf \in [DanceHotkeys -> Owners]
    /\ \A h \in DanceHotkeys : coldkeyOf[h] \in Coldkeys \cup {h}
    /\ paidScores \in [Classes2 -> [DanceHotkeys -> {0, JobScore}]]
    /\ previousMain \in [Coldkeys -> DanceHotkeys \cup {Silent}]
    /\ mainRow = [c \in Coldkeys |-> Silent]
    /\ shares = [k \in Classes2 |-> <<>>] /\ mainUsed = [k \in Classes2 |-> <<>>]
    /\ classesDone = 0 /\ burn = <<>>

DanceNext == (\E k \in Classes2 : ScoreClass(k)) \/ ScoringFails \/ ApplyBurners

DanceSpec == DanceInit /\ [][DanceNext]_danceVars

-----------------------------------------------------------------------------
(* Properties *)

\* Handing a coldkey's score out again neither creates nor loses any of it,
\* save the bonus, whether the miner answers, names a hotkey of its own, an
\* unregistered one, or has a single hotkey; and its hotkeys get no share of
\* another coldkey's score.
ScoreIsConserved ==
    \A k \in 1 .. classesDone :
        \A c \in Grouped(k) :
            LET total == GroupScore(k, c)
                got == SumFunctionOnSet(shares[k], HotkeysOf(c))
            IN  IF c \in Coldkeys THEN got = WithBonus(c, total, mainUsed[k][c]) ELSE got = total

\* The miner cannot name a different main hotkey for each executor class: the
\* classes of a cycle that got an answer got the same one.
ClassesAgreeOnMain ==
    \A j, k \in Classes2 : \A c \in DOMAIN mainUsed[j] \cap DOMAIN mainUsed[k] :
        Silent \in {mainUsed[j][c], mainUsed[k][c]} \/ mainUsed[j][c] = mainUsed[k][c]

\* However many burners are registered, they get the burn rate between them.
BurnIsShared == burn # <<>> => SumFunction(burn) = BurnPercent * 100 * ScoreUnit

\* Dancing moves the score of a coldkey among its hotkeys: none is made or
\* lost beyond the bonus, every executor class has the same main hotkey, and
\* the burnt share is spread over the burners.
ScoresAreSharedRight ==
    /\ ScoreIsConserved
    /\ ClassesAgreeOnMain
    /\ BurnIsShared

=============================================================================
