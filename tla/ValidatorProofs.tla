--------------------------- MODULE ValidatorProofs ---------------------------
(***************************************************************************)
(* Proofs about parts of the validator that MCValidator checks side by     *)
(* side: weight setting, the upkeep of miners, the prompt pipeline, the    *)
(* chain cache, routing, the validation of spendings, and dancing.         *)
(***************************************************************************)
EXTENDS WeightSetting, MinerUpkeep, PromptPipeline, ChainCache, JobRouting,
        SpendingCheck, Dancing, SetFacts, SequenceTheorems

-----------------------------------------------------------------------------
(* WeightSetting: the three ways of counting cycles *)

\* The first block after the subnet's offset that begins an epoch, in epochs.
Shift == (Netuid + 2) \div EpochLength

\* get_epoch_containing_block rounds down to a multiple of the epoch's length,
\* counted from the subnet's offset.
LEMMA EpochOf ==
    ASSUME NEW e \in Int, NEW s \in 0 .. 360
    PROVE  EpochStart(361 * e + s - (Netuid + 2)) = 361 * e - (Netuid + 2)
<1>. DEFINE b == 361 * e + s - (Netuid + 2)
<1>0. Netuid \in Nat /\ b \in Int
  BY SetterAssumption
<1>1. b + Netuid + 1 = 361 * e + (s - 1)
  BY <1>0
<1>2. CASE s = 0
  <2>1. b + Netuid + 1 = 361 * (e - 1) + 360
    BY <1>1, <1>2
  <2>2. (b + Netuid + 1) % 361 = 360
    BY <2>1
  <2>. QED BY <1>0, <1>2, <2>2 DEF EpochStart, EpochLength, TEMPO
<1>3. CASE s # 0
  <2>1. s - 1 \in 0 .. 359
    BY <1>3
  <2>2. (b + Netuid + 1) % 361 = s - 1
    BY <1>1, <2>1
  <2>. QED BY <1>0, <2>1, <2>2 DEF EpochStart, EpochLength, TEMPO
<1>. QED BY <1>2, <1>3

\* The epoch of block 0.
LEMMA FirstEpoch == EpochStart(0) = 361 * Shift - (Netuid + 2) /\ Shift \in Nat
<1>. DEFINE s == (Netuid + 2) % 361
<1>1. Netuid \in Nat
  BY SetterAssumption
<1>2. Shift \in Nat /\ s \in 0 .. 360 /\ Netuid + 2 = 361 * Shift + s
  BY <1>1 DEF Shift, EpochLength, TEMPO
<1>3. 361 * Shift + s - (Netuid + 2) = 0
  BY <1>1, <1>2
<1>. HIDE DEF s
<1>. QED BY <1>2, <1>3, EpochOf

\* get_cycle_containing_block rounds down to every other epoch, those that
\* have the parity of block 0's.
LEMMA CycleOf ==
    ASSUME NEW e \in Int, NEW s \in 0 .. 360
    PROVE  CycleStart(361 * e + s - (Netuid + 2)) =
             361 * (e - ((e - Shift) % 2)) - (Netuid + 2)
<1>. DEFINE b == 361 * e + s - (Netuid + 2)
<1>0. Netuid \in Nat /\ Shift \in Nat
  BY SetterAssumption, FirstEpoch
<1>1. EpochStart(b) = 361 * e - (Netuid + 2)
  BY EpochOf
<1>2. EpochStart(0) = 361 * Shift - (Netuid + 2)
  BY FirstEpoch
<1>3. EpochStart(b) - EpochStart(0) = 361 * (e - Shift)
  BY <1>0, <1>1, <1>2
<1>4. (EpochStart(b) - EpochStart(0)) \div 361 = e - Shift
  BY <1>0, <1>3
<1>5. (e - Shift) % 2 = 0 \/ (e - Shift) % 2 = 1
  BY <1>0
<1>. HIDE DEF b
<1>6. CycleStart(b) = 361 * (e - ((e - Shift) % 2)) - (Netuid + 2)
  BY <1>0, <1>1, <1>4, <1>5 DEF CycleStart, EpochLength, TEMPO
<1>. QED BY <1>6 DEF b

\* In the commit window, with an offset and an end buffer that keep out of the
\* blocks around a multiple of the cycle's length, the cycle that is scored is
\* the cycle that is recorded.
LEMMA WindowCycles ==
    ASSUME CommitOffset >= 1, Netuid + 2 <= CommitEndBuffer,
           NEW b \in Nat, InCommitWindow(b)
    PROVE  RecordedCycle(b) = ScoredCycle(b)
<1>. DEFINE k == b \div 722
            r == b % 722
            e == (r + Netuid + 2) \div 361
            s == (r + Netuid + 2) % 361
            f == (Netuid + 2) \div 361
            t == (Netuid + 2) % 361
<1>0. Netuid \in Nat /\ CommitOffset \in Nat /\ CommitEndBuffer \in Nat
  BY SetterAssumption
<1>1. k \in Nat /\ r \in 0 .. 721 /\ b = 722 * k + r
  OBVIOUS
<1>2. r >= 1 /\ r + Netuid + 2 <= 721
  BY <1>0, <1>1 DEF InCommitWindow, CycleLength, EpochLength, TEMPO
<1>3. /\ e \in 0 .. 1 /\ s \in 0 .. 360 /\ r + Netuid + 2 = 361 * e + s
      /\ f \in 0 .. 1 /\ t \in 0 .. 360 /\ Netuid + 2 = 361 * f + t
      /\ f <= e /\ Shift = f
  BY <1>0, <1>1, <1>2 DEF Shift, EpochLength, TEMPO
<1>. HIDE DEF k, r, e, s, f, t
<1>4. (b - CycleLength - 1) \div CycleLength = k - 1
  <2>1. b - CycleLength - 1 = 722 * (k - 1) + (r - 1)
    BY <1>1 DEF CycleLength, EpochLength, TEMPO
  <2>2. (722 * (k - 1) + (r - 1)) \div 722 = k - 1
    BY <1>1, <1>2
  <2>. QED BY <2>1, <2>2 DEF CycleLength, EpochLength, TEMPO
<1>5. CycleStart(b) = 361 * (2 * k + f) - (Netuid + 2)
  <2>1. b = 361 * (2 * k + e) + s - (Netuid + 2) /\ 2 * k + e \in Int
    BY <1>0, <1>1, <1>3
  <2>2. CycleStart(b) = 361 * ((2 * k + e) - ((2 * k + e - Shift) % 2)) - (Netuid + 2)
    <3>. DEFINE c == 2 * k + e
    <3>1. c \in Int /\ b = 361 * c + s - (Netuid + 2)
      BY <2>1
    <3>. HIDE DEF c
    <3>2. CycleStart(b) = 361 * (c - ((c - Shift) % 2)) - (Netuid + 2)
      <4>0. c \in Int /\ s \in 0 .. 360
        BY <1>3, <3>1
      <4>1. CycleStart(361 * c + s - (Netuid + 2)) =
              361 * (c - ((c - Shift) % 2)) - (Netuid + 2)
        BY <4>0, CycleOf, ZenonT(60)
      <4>. QED BY <3>1, <4>1
    <3>. QED BY <1>0, <1>1, <1>3, <3>2 DEF c
  <2>3. (2 * k + e - Shift) % 2 = e - f
    BY <1>1, <1>3
  <2>. QED BY <1>0, <1>1, <1>3, <2>2, <2>3, SMTT(60)
<1>6. CycleStart(722 * (k - 1)) = 361 * (2 * (k - 1) + f) - (Netuid + 2)
  <2>1. 722 * (k - 1) = 361 * (2 * (k - 1) + f) + t - (Netuid + 2) /\ 2 * (k - 1) + f \in Int
    BY <1>0, <1>1, <1>3
  <2>2. CycleStart(722 * (k - 1)) =
          361 * ((2 * (k - 1) + f) - ((2 * (k - 1) + f - Shift) % 2)) - (Netuid + 2)
    <3>. DEFINE c == 2 * (k - 1) + f
                y == 722 * (k - 1)
    <3>1. c \in Int /\ y = 361 * c + t - (Netuid + 2)
      BY <2>1
    <3>. HIDE DEF c, y
    <3>2. CycleStart(y) = 361 * (c - ((c - Shift) % 2)) - (Netuid + 2)
      <4>0. c \in Int /\ t \in 0 .. 360
        BY <1>3, <3>1
      <4>1. CycleStart(361 * c + t - (Netuid + 2)) =
              361 * (c - ((c - Shift) % 2)) - (Netuid + 2)
        BY <4>0, CycleOf, ZenonT(60)
      <4>. QED BY <3>1, <4>1
    <3>. QED BY <1>0, <1>1, <1>3, <3>2 DEF c, y
  <2>3. (2 * (k - 1) + f - Shift) % 2 = 0
    BY <1>1, <1>3
  <2>. QED BY <1>0, <1>1, <1>3, <2>2, <2>3
<1>7. RecordedCycle(b) = 361 * (2 * k + f) - (Netuid + 2) - 722
  BY <1>5 DEF RecordedCycle, CycleLength, EpochLength, TEMPO
<1>8. ScoredCycle(b) = 361 * (2 * (k - 1) + f) - (Netuid + 2)
  BY <1>4, <1>6 DEF ScoredCycle, CycleLength, EpochLength, TEMPO
<1>. QED BY <1>0, <1>1, <1>3, <1>7, <1>8

-----------------------------------------------------------------------------
(* WeightSetting: one transaction at a time *)

InTransaction(w) == setter[w].at \in {"scored", "set", "gaveup"}

SetterTypes ==
  /\ whead \in SetterHeads
  /\ setter \in [Setters -> [at : {"idle", "window", "scored", "set", "gaveup"},
                            head : Nat, tries : Nat]]

\* A worker between get_advisory_lock and the end of its transaction holds the
\* lock, and its cycle had no row when it looked and has none since.
LockedCycleIsUnrecorded ==
  \A w \in Setters : InTransaction(w) =>
    wlock = {w} /\ RecordedCycle(setter[w].head) \notin wsfe

\* A worker that got an answer has its weights on the chain.
SetIsOnChain ==
  \A w \in Setters : setter[w].at = "set" =>
    \E x \in onChain : x[1] = RecordedCycle(setter[w].head)

\* A worker past the first check goes by a head of the commit window.
HeadsInWindow ==
  \A w \in Setters : setter[w].at # "idle" => (CommitReveal => InCommitWindow(setter[w].head))

\* What was set was set from a head of the commit window.
SetInWindow ==
  \A x \in onChain : \E b \in Nat :
    x = <<RecordedCycle(b), ScoredCycle(b)>> /\ (CommitReveal => InCommitWindow(b))

SetterInv ==
  /\ SetterTypes /\ LockedCycleIsUnrecorded /\ SetIsOnChain /\ HeadsInWindow /\ SetInWindow
  /\ RecordedWeightsAreFinal

\* No worker runs.
LEMMA InitSetter == SetterInit => SetterInv
<1>. SUFFICES ASSUME SetterInit PROVE SetterInv
  OBVIOUS
<1>1. Min(SetterHeads) \in SetterHeads /\ \A c \in SetterHeads : Min(SetterHeads) <= c
  BY NatMin, SetterAssumption
<1>2. whead \in SetterHeads
  BY <1>1 DEF SetterInit
<1>3. NoSetter \in [at : {"idle", "window", "scored", "set", "gaveup"}, head : Nat, tries : Nat]
      /\ NoSetter.at = "idle"
  BY DEF NoSetter
<1>4. setter = [w \in Setters |-> NoSetter] /\ wsfe = {} /\ onChain = {} /\ resets = {}
  BY DEF SetterInit
<1>. HIDE DEF NoSetter
<1>. QED BY <1>2, <1>3, <1>4 DEF SetterInv, SetterTypes, LockedCycleIsUnrecorded,
         SetIsOnChain, HeadsInWindow, SetInWindow, RecordedWeightsAreFinal, InTransaction

\* Every step of the workers and of the chain keeps the invariant.
LEMMA NextSetter == SetterInv /\ [SetterNext]_setterVars => SetterInv'
<1>. SUFFICES ASSUME SetterInv, [SetterNext]_setterVars PROVE SetterInv'
  OBVIOUS
<1>. DEFINE Rec == [at : {"idle", "window", "scored", "set", "gaveup"}, head : Nat, tries : Nat]
<1>0. NoSetter \in Rec /\ NoSetter.at = "idle"
  BY DEF NoSetter
<1>. USE DEF SetterInv, SetterTypes, LockedCycleIsUnrecorded, SetIsOnChain, HeadsInWindow,
             SetInWindow, RecordedWeightsAreFinal, InTransaction
<1>. HIDE DEF NoSetter
<1>1. CASE NewBlock
  <2>. DEFINE later == {b \in SetterHeads : b > whead}
  <2>1. later \subseteq Nat /\ later # {}
    BY <1>1, SetterAssumption DEF NewBlock
  <2>2. Min(later) \in later /\ \A c \in later : Min(later) <= c
    BY <2>1, NatMin
  <2>3. whead' \in SetterHeads
    BY <1>1, <2>2 DEF NewBlock
  <2>. QED BY <1>1, <2>3 DEF NewBlock
<1>2. ASSUME NEW w \in Setters, ReadHead(w) PROVE SetterInv'
  <2>. DEFINE n == [NoSetter EXCEPT !.at = "window", !.head = whead]
  <2>1. whead \in Nat
    BY SetterAssumption
  <2>2. n \in Rec /\ n.at = "window" /\ n.head = whead
    BY <1>0, <2>1
  <2>3. setter' = [setter EXCEPT ![w] = n] /\ (CommitReveal => InCommitWindow(whead))
        /\ UNCHANGED <<whead, wlock, wsfe, onChain, resets>>
    BY <1>2 DEF ReadHead
  <2>. HIDE DEF n
  <2>. QED BY <2>2, <2>3
<1>3. ASSUME NEW w \in Setters, OpenTransaction(w) PROVE SetterInv'
  <2>1. CASE setter' = [setter EXCEPT ![w] = NoSetter] /\ UNCHANGED wlock
    <3>1. UNCHANGED <<whead, wsfe, onChain, resets>>
      BY <1>3 DEF OpenTransaction
    <3>. QED BY <1>0, <2>1, <3>1
  <2>2. CASE ~(setter' = [setter EXCEPT ![w] = NoSetter] /\ UNCHANGED wlock)
    <3>. DEFINE n == [setter[w] EXCEPT !.at = "scored"]
    <3>1. /\ setter' = [setter EXCEPT ![w] = n] /\ wlock' = {w} /\ wlock = {}
          /\ RecordedCycle(setter[w].head) \notin wsfe /\ setter[w].at = "window"
          /\ UNCHANGED <<whead, wsfe, onChain, resets>>
      BY <1>3, <2>2 DEF OpenTransaction
    <3>2. n \in Rec /\ n.at = "scored" /\ n.head = setter[w].head
      OBVIOUS
    <3>3. \A v \in Setters : ~InTransaction(v)
      BY <3>1
    <3>. HIDE DEF n
    <3>. QED BY <3>1, <3>2, <3>3
  <2>. QED BY <2>1, <2>2
<1>4. ASSUME NEW w \in Setters, TrySetWeights(w) PROVE SetterInv'
  <2>. DEFINE b == setter[w].head
              p == <<RecordedCycle(b), ScoredCycle(b)>>
  <2>1. PICK applied \in BOOLEAN, answered \in BOOLEAN :
          /\ answered => applied
          /\ setter' = [setter EXCEPT ![w] =
               [at |-> IF answered THEN "set"
                       ELSE IF setter[w].tries + 1 = SetAttempts THEN "gaveup" ELSE "scored",
                head |-> b, tries |-> setter[w].tries + 1]]
          /\ onChain' = IF applied THEN onChain \cup {p} ELSE onChain
          /\ resets' = IF applied /\ RecordedCycle(b) \in wsfe
                       THEN resets \cup {RecordedCycle(b)} ELSE resets
    BY <1>4 DEF TrySetWeights
  <2>2. /\ setter[w].at = "scored" /\ wlock = {w} /\ RecordedCycle(b) \notin wsfe
        /\ UNCHANGED <<whead, wlock, wsfe>> /\ (CommitReveal => InCommitWindow(b))
    BY <1>4 DEF TrySetWeights
  <2>. DEFINE n == [at |-> IF answered THEN "set"
                           ELSE IF setter[w].tries + 1 = SetAttempts THEN "gaveup" ELSE "scored",
                    head |-> b, tries |-> setter[w].tries + 1]
  <2>3. setter' = [setter EXCEPT ![w] = n]
    BY <2>1
  <2>4. n \in Rec /\ n.at \in {"scored", "set", "gaveup"} /\ n.head = b
        /\ (n.at = "set" => answered)
    OBVIOUS
  <2>5. p[1] = RecordedCycle(b) /\ b \in Nat
    OBVIOUS
  <2>6. onChain \subseteq onChain' /\ onChain' \subseteq onChain \cup {p}
        /\ (applied => p \in onChain') /\ resets' = resets
    BY <2>1, <2>2
  <2>7. \A v \in Setters : setter'[v].head = setter[v].head
    BY <2>3, <2>4
  <2>. HIDE DEF n
  <2>8. SetterTypes'
    BY <2>2, <2>3, <2>4
  <2>9. LockedCycleIsUnrecorded'
    BY <2>2, <2>3, <2>4
  <2>10. SetIsOnChain'
    BY <2>1, <2>3, <2>4, <2>5, <2>6
  <2>11. HeadsInWindow'
    BY <2>2, <2>3, <2>4
  <2>12. SetInWindow'
    BY <2>2, <2>5, <2>6
  <2>13. RecordedWeightsAreFinal'
    BY <2>2, <2>6
  <2>. QED BY <2>8, <2>9, <2>10, <2>11, <2>12, <2>13
<1>5. ASSUME NEW w \in Setters, EndTransaction(w) PROVE SetterInv'
  <2>1. /\ setter' = [setter EXCEPT ![w] = NoSetter] /\ wlock' = {}
        /\ UNCHANGED <<whead, onChain, resets>> /\ wlock = {w}
        /\ wsfe' = IF setter[w].at = "set" THEN wsfe \cup {RecordedCycle(setter[w].head)}
                   ELSE wsfe
    BY <1>5 DEF EndTransaction
  <2>2. \A v \in Setters : InTransaction(v) => v = w
    BY <2>1
  <2>3. \A v \in Setters : ~InTransaction(v)'
    BY <1>0, <2>1, <2>2
  <2>4. SetterTypes' /\ HeadsInWindow' /\ SetInWindow'
    BY <1>0, <2>1
  <2>5. LockedCycleIsUnrecorded' /\ SetIsOnChain'
    BY <2>3
  <2>6. RecordedWeightsAreFinal'
    BY <2>1
  <2>. QED BY <2>4, <2>5, <2>6
<1>6. ASSUME NEW w \in Setters, SetterFails(w) PROVE SetterInv'
  <2>1. /\ setter' = [setter EXCEPT ![w] = NoSetter] /\ wlock' = wlock \ {w}
        /\ UNCHANGED <<whead, wsfe, onChain, resets>>
    BY <1>6 DEF SetterFails
  <2>. QED BY <1>0, <2>1
<1>7. CASE UNCHANGED setterVars
  BY <1>7 DEF setterVars
<1>. QED BY <1>1, <1>2, <1>3, <1>4, <1>5, <1>6, <1>7 DEF SetterNext

\* set_scores with any number of workers and any settings: a row of a cycle is
\* only ever there for weights that were set, and they are not set again.
THEOREM RecordedWeightsAlwaysFinal == SetterSpec => []RecordedWeightsAreFinal
<1>1. SetterInv => RecordedWeightsAreFinal
  BY DEF SetterInv
<1>. QED BY InitSetter, NextSetter, <1>1, PTL DEF SetterSpec

\* With commit-reveal on, a commit window that begins after the cycle's first
\* block and ends Netuid + 2 blocks before its last (the settings' 361 and 15
\* do, on subnet 12) makes set_scores score the cycle that it records.
THEOREM WeightsAlwaysForTheirCycle ==
    ASSUME CommitReveal, CommitOffset >= 1, Netuid + 2 <= CommitEndBuffer
    PROVE  SetterSpec => []WeightsAreForTheirCycle
<1>1. SetterInv => WeightsAreForTheirCycle
  <2>. SUFFICES ASSUME SetterInv, NEW x \in onChain PROVE x[1] = x[2]
    BY DEF SetterInv, WeightsAreForTheirCycle, ScoredCycleIsRecorded
  <2>1. PICK b \in Nat : x = <<RecordedCycle(b), ScoredCycle(b)>> /\ InCommitWindow(b)
    BY DEF SetterInv, SetInWindow
  <2>2. RecordedCycle(b) = ScoredCycle(b)
    BY <2>1, WindowCycles
  <2>. QED BY <2>1, <2>2
<1>. QED BY InitSetter, NextSetter, <1>1, PTL DEF SetterSpec

-----------------------------------------------------------------------------
(* MinerUpkeep: slashing *)

\* A task that did not mark its job has taken nothing it is sure of.
SlashInv ==
  /\ slash \in [CheatedJobs -> [runs : Nat, marked : BOOLEAN, taken : Nat, unsure : Nat]]
  /\ \A j \in CheatedJobs :
       /\ ~slash[j].marked => slash[j].taken <= slash[j].unsure
       /\ slash[j].marked => slash[j].taken >= 1 /\ slash[j].taken <= 1 + slash[j].unsure

\* A run of slash_collateral_task keeps the invariant.
LEMMA SlashStep == ASSUME SlashInv, NEW j \in CheatedJobs, SlashCollateral(j) PROVE SlashInv'
<1>. DEFINE Rec == [runs : Nat, marked : BOOLEAN, taken : Nat, unsure : Nat]
            s == slash[j]
<1>0. s \in Rec /\ s.runs \in Nat /\ s.marked \in BOOLEAN /\ s.taken \in Nat /\ s.unsure \in Nat
  BY DEF SlashInv
<1>1. ASSUME NEW n \in Rec, slash' = [slash EXCEPT ![j] = n],
             ~n.marked => n.taken <= n.unsure,
             n.marked => n.taken >= 1 /\ n.taken <= 1 + n.unsure
      PROVE  SlashInv'
  BY <1>1 DEF SlashInv
<1>2. CASE s.marked
  <2>. DEFINE n == [s EXCEPT !.runs = s.runs + 1]
  <2>1. slash' = [slash EXCEPT ![j] = n]
    BY <1>2 DEF SlashCollateral
  <2>2. n \in Rec /\ n.marked = s.marked /\ n.taken = s.taken /\ n.unsure = s.unsure
    BY <1>0
  <2>. HIDE DEF n
  <2>. QED BY <1>0, <1>1, <1>2, <2>1, <2>2 DEF SlashInv
<1>3. CASE ~s.marked
  <2>1. PICK t \in SlashTransaction :
          slash' = [slash EXCEPT ![j] =
            [runs |-> s.runs + 1, marked |-> t.answered,
             taken |-> IF t.mined THEN s.taken + 1 ELSE s.taken,
             unsure |-> IF t.mined /\ ~t.answered THEN s.unsure + 1 ELSE s.unsure]]
    BY <1>3 DEF SlashCollateral
  <2>2. t.mined \in BOOLEAN /\ t.answered \in BOOLEAN /\ (t.answered => t.mined)
    BY DEF SlashTransaction
  <2>3. s.taken <= s.unsure
    BY <1>3 DEF SlashInv
  <2>. DEFINE n == [runs |-> s.runs + 1, marked |-> t.answered,
                    taken |-> IF t.mined THEN s.taken + 1 ELSE s.taken,
                    unsure |-> IF t.mined /\ ~t.answered THEN s.unsure + 1 ELSE s.unsure]
  <2>4. n \in Rec /\ n.marked = t.answered
    BY <1>0, <2>2
  <2>5. /\ n.taken = IF t.mined THEN s.taken + 1 ELSE s.taken
        /\ n.unsure = IF t.mined /\ ~t.answered THEN s.unsure + 1 ELSE s.unsure
    OBVIOUS
  <2>. HIDE DEF n
  <2>6. (~n.marked => n.taken <= n.unsure) /\ (n.marked => n.taken >= 1 /\ n.taken <= 1 + n.unsure)
    BY <1>0, <2>2, <2>3, <2>4, <2>5
  <2>7. slash' = [slash EXCEPT ![j] = n]
    BY <2>1 DEF n
  <2>. QED BY <1>1, <2>4, <2>6, <2>7
<1>. QED BY <1>2, <1>3

-----------------------------------------------------------------------------
(* MinerUpkeep: system events *)

\* An event is locked by one worker at most, and only while it is unsent; an
\* unsent event has been delivered as often as answers were lost.
OutboxInv ==
  /\ outbox \in [Events -> [sent : BOOLEAN, locked : SUBSET Senders, copies : Nat, unsure : Nat]]
  /\ \A e \in Events :
       /\ outbox[e].locked # {} => ~outbox[e].sent
       /\ \A v, w \in outbox[e].locked : v = w
       /\ ~outbox[e].sent => outbox[e].copies <= outbox[e].unsure
       /\ outbox[e].sent => outbox[e].copies >= 1 /\ outbox[e].copies <= 1 + outbox[e].unsure

\* The transactions of send_events_to_facilitator keep the invariant.
LEMMA OutboxStep ==
    ASSUME OutboxInv, NEW w \in Senders, LockEvents(w) \/ PostEvents(w) PROVE OutboxInv'
<1>. DEFINE Rec == [sent : BOOLEAN, locked : SUBSET Senders, copies : Nat, unsure : Nat]
            Good(n) == /\ n.locked # {} => ~n.sent
                       /\ \A u, v \in n.locked : u = v
                       /\ ~n.sent => n.copies <= n.unsure
                       /\ n.sent => n.copies >= 1 /\ n.copies <= 1 + n.unsure
<1>0. \A e \in Events : outbox[e] \in Rec /\ Good(outbox[e])
  BY DEF OutboxInv
<1>1. (\A e \in Events : outbox'[e] \in Rec /\ Good(outbox'[e]))
        /\ outbox' = [e \in Events |-> outbox'[e]] => OutboxInv'
  BY DEF OutboxInv
<1>2. CASE LockEvents(w)
  <2>1. ASSUME NEW e \in Events PROVE outbox'[e] \in Rec /\ Good(outbox'[e])
    <3>1. CASE Unlocked(e)
      <4>. DEFINE n == [outbox[e] EXCEPT !.locked = outbox[e].locked \cup {w}]
      <4>1. outbox'[e] = n
        BY <1>2, <3>1 DEF LockEvents
      <4>2. n \in Rec /\ n.sent = outbox[e].sent /\ n.locked = outbox[e].locked \cup {w}
            /\ n.copies = outbox[e].copies /\ n.unsure = outbox[e].unsure
        BY <1>0
      <4>3. ~outbox[e].sent /\ outbox[e].locked = {}
        BY <3>1 DEF Unlocked
      <4>. HIDE DEF n
      <4>. QED BY <1>0, <4>1, <4>2, <4>3
    <3>2. CASE ~Unlocked(e)
      <4>1. outbox'[e] = outbox[e]
        BY <1>2, <3>2 DEF LockEvents
      <4>. QED BY <1>0, <4>1
    <3>. QED BY <3>1, <3>2
  <2>2. outbox' = [e \in Events |-> outbox'[e]]
    BY <1>2 DEF LockEvents
  <2>. QED BY <1>1, <2>1, <2>2
<1>3. CASE PostEvents(w)
  <2>0. PICK delivered \in BOOLEAN, answered \in BOOLEAN :
          /\ answered => delivered
          /\ outbox' = [e \in Events |->
               IF w \notin outbox[e].locked THEN outbox[e]
               ELSE [sent |-> outbox[e].sent \/ answered,
                     locked |-> outbox[e].locked \ {w},
                     copies |-> outbox[e].copies + (IF delivered THEN 1 ELSE 0),
                     unsure |-> outbox[e].unsure + (IF delivered /\ ~answered THEN 1 ELSE 0)]]
    BY <1>3, ZenonT(60) DEF PostEvents
  <2>1. ASSUME NEW e \in Events PROVE outbox'[e] \in Rec /\ Good(outbox'[e])
    <3>. DEFINE o == outbox[e]
    <3>1. CASE w \notin o.locked
      <4>1. outbox'[e] = o
        BY <2>0, <3>1
      <4>. QED BY <1>0, <4>1
    <3>2. CASE w \in o.locked
      <4>. DEFINE n == [sent |-> o.sent \/ answered,
                        locked |-> o.locked \ {w},
                        copies |-> o.copies + (IF delivered THEN 1 ELSE 0),
                        unsure |-> o.unsure + (IF delivered /\ ~answered THEN 1 ELSE 0)]
      <4>1. outbox'[e] = n
        BY <2>0, <3>2
      <4>2. ~o.sent /\ o.locked \ {w} = {} /\ o.copies \in Nat /\ o.unsure \in Nat
            /\ o.copies <= o.unsure /\ o.locked \in SUBSET Senders
        BY <1>0, <3>2
      <4>3. n.sent = (o.sent \/ answered) /\ n.locked = o.locked \ {w}
            /\ n.copies = o.copies + (IF delivered THEN 1 ELSE 0)
            /\ n.unsure = o.unsure + (IF delivered /\ ~answered THEN 1 ELSE 0)
        OBVIOUS
      <4>4. n \in Rec
        BY <4>2
      <4>. HIDE DEF n
      <4>5. (~n.sent => n.copies <= n.unsure)
            /\ (n.sent => n.copies >= 1 /\ n.copies <= 1 + n.unsure)
        BY <2>0, <4>2, <4>3
      <4>6. Good(n)
        BY <4>2, <4>3, <4>5
      <4>. QED BY <4>1, <4>4, <4>6
    <3>. QED BY <3>1, <3>2
  <2>2. outbox' = [e \in Events |-> outbox'[e]]
    BY <2>0
  <2>. QED BY <1>1, <2>1, <2>2
<1>. QED BY <1>2, <1>3

-----------------------------------------------------------------------------
(* MinerUpkeep: collateral *)

EvmMaps == [Uids -> {{}} \cup {{e} : e \in Evms}]
ChainBlocks == [neuron : [Uids -> Hotkeys], evm : EvmMaps, deposit : [Evms -> {0, 1}]]

\* The chain only grows, sync_collaterals reads a block of it, and an amount in
\* a row is the deposit of one of its blocks.
CollateralInv ==
  /\ chainBlock \in Seq(ChainBlocks) /\ Len(chainBlock) >= 1
  /\ csync \in 0 .. Len(chainBlock)
  /\ row \in [Hotkeys -> [uid : Int, evm : {{}} \cup {{e} : e \in Evms}, wei : Nat]]
  /\ CollateralIsFromOneBlock

\* A block after the last one leaves the earlier blocks as they are.
LEMMA ChainGrows ==
    ASSUME CollateralInv, NEW b \in ChainBlocks, chainBlock' = Append(chainBlock, b),
           UNCHANGED <<row, csync>>
    PROVE  CollateralInv'
<1>1. chainBlock' \in Seq(ChainBlocks) /\ Len(chainBlock') = Len(chainBlock) + 1
      /\ \A i \in 1 .. Len(chainBlock) : chainBlock'[i] = chainBlock[i]
  BY DEF CollateralInv
<1>2. Len(chainBlock) \in Nat
  BY DEF CollateralInv
<1>3. csync' \in 0 .. Len(chainBlock')
  BY <1>1, <1>2 DEF CollateralInv
<1>4. 1 .. Len(chainBlock) \subseteq 1 .. Len(chainBlock')
  BY <1>1, <1>2
<1>5. CollateralIsFromOneBlock'
  BY <1>1, <1>4 DEF CollateralInv, CollateralIsFromOneBlock
<1>. QED BY <1>1, <1>2, <1>3, <1>5, SMTT(60) DEF CollateralInv

\* Every step of the chain and of the miners' tasks keeps the invariant.
LEMMA CollateralStep == ASSUME CollateralInv, MinersNext PROVE CollateralInv'
<1>0. Len(chainBlock) \in Nat /\ Head1 \in ChainBlocks
  BY SMTT(60) DEF CollateralInv, Head1
<1>1. CASE ChainMoves
  <2>1. ASSUME NEW u \in Uids, NEW h \in Hotkeys,
               chainBlock' = Append(chainBlock, [Head1 EXCEPT !.neuron[u] = h, !.evm[u] = {}])
        PROVE  CollateralInv'
    <3>. DEFINE b == [Head1 EXCEPT !.neuron[u] = h, !.evm[u] = {}]
    <3>1. b \in ChainBlocks
      BY <1>0 DEF ChainBlocks, EvmMaps
    <3>2. UNCHANGED <<row, csync>>
      BY <1>1 DEF ChainMoves
    <3>. HIDE DEF b
    <3>. QED BY <2>1, <3>1, <3>2, ChainGrows DEF b
  <2>2. ASSUME NEW u \in Uids, NEW e \in Evms,
               chainBlock' = Append(chainBlock, [Head1 EXCEPT !.evm[u] = {e}])
        PROVE  CollateralInv'
    <3>. DEFINE b == [Head1 EXCEPT !.evm[u] = {e}]
    <3>1. b \in ChainBlocks
      BY <1>0 DEF ChainBlocks, EvmMaps
    <3>2. UNCHANGED <<row, csync>>
      BY <1>1 DEF ChainMoves
    <3>. HIDE DEF b
    <3>. QED BY <2>2, <3>1, <3>2, ChainGrows DEF b
  <2>3. ASSUME NEW e \in Evms,
               chainBlock' = Append(chainBlock, [Head1 EXCEPT !.deposit[e] = 1 - @])
        PROVE  CollateralInv'
    <3>. DEFINE b == [Head1 EXCEPT !.deposit[e] = 1 - @]
    <3>1. b \in ChainBlocks
      BY <1>0 DEF ChainBlocks
    <3>2. UNCHANGED <<row, csync>>
      BY <1>1 DEF ChainMoves
    <3>. HIDE DEF b
    <3>. QED BY <2>3, <3>1, <3>2, ChainGrows DEF b
  <2>. QED BY <1>1, <2>1, <2>2, <2>3 DEF ChainMoves
<1>2. CASE SyncMiners
  <2>1. ASSUME NEW h \in Hotkeys
        PROVE  /\ row'[h] \in [uid : Int, evm : {{}} \cup {{e} : e \in Evms}, wei : Nat]
               /\ row'[h].wei = row[h].wei
    <3>. DEFINE u == UidAt(Len(chainBlock), h)
    <3>1. u \in Int
      BY UpkeepAssumption DEF UidAt, NoUid
    <3>2. row'[h] = IF u = NoUid THEN row[h] ELSE [row[h] EXCEPT !.uid = u]
      BY <1>2 DEF SyncMiners
    <3>3. row[h] \in [uid : Int, evm : {{}} \cup {{e} : e \in Evms}, wei : Nat]
      BY DEF CollateralInv
    <3>. HIDE DEF u
    <3>. QED BY <3>1, <3>2, <3>3
  <2>2. row' = [h \in Hotkeys |-> row'[h]] /\ UNCHANGED <<chainBlock, csync>>
    BY <1>2 DEF SyncMiners
  <2>. QED BY <2>1, <2>2 DEF CollateralInv, CollateralIsFromOneBlock
<1>3. CASE BeginCollateralSync
  <2>1. row' = row /\ chainBlock' = chainBlock /\ csync' = Len(chainBlock)
    BY <1>3, Zenon DEF BeginCollateralSync
  <2>2. csync' \in 0 .. Len(chainBlock)
    BY <1>0, <2>1
  <2>3. CollateralIsFromOneBlock'
    BY <2>1, Zenon DEF CollateralInv, CollateralIsFromOneBlock
  <2>. QED BY <2>1, <2>2, <2>3, Zenon DEF CollateralInv
<1>4. CASE EndCollateralSync
  <2>. DEFINE Rec == [uid : Int, evm : {{}} \cup {{e} : e \in Evms}, wei : Nat]
              Backed(n) == \E b \in 1 .. Len(chainBlock), u \in Uids :
                             \E e \in chainBlock[b].evm[u] : chainBlock[b].deposit[e] = n
  <2>. DEFINE NewRow(h, failed) ==
            LET u == row[h].uid
                evm == IF u \in Uids THEN chainBlock[csync].evm[u] ELSE {}
            IN  IF UidAt(csync, h) = NoUid \/ u \in {NoUid, 0} THEN row[h]
                ELSE [row[h] EXCEPT !.evm = evm,
                        !.wei = IF evm = {} \/ h \in failed THEN @
                                ELSE CollateralAt(csync, CHOOSE e \in Evms : evm = {e})]
  <2>0. PICK failed \in SUBSET Hotkeys : row' = [h \in Hotkeys |-> NewRow(h, failed)]
    BY <1>4, ZenonT(60) DEF EndCollateralSync
  <2>1. csync \in 1 .. Len(chainBlock) /\ UNCHANGED chainBlock /\ csync' = 0
    <3>1. csync # 0 /\ UNCHANGED chainBlock /\ csync' = 0
      BY <1>4, ZenonT(60) DEF EndCollateralSync
    <3>2. csync \in 0 .. Len(chainBlock)
      BY DEF CollateralInv
    <3>. QED BY <1>0, <3>1, <3>2
  <2>2. chainBlock[csync] \in ChainBlocks
    BY <1>0, <2>1 DEF CollateralInv
  <2>3. ASSUME NEW h \in Hotkeys
        PROVE  row'[h] \in Rec /\ (row'[h].wei > 0 => Backed(row'[h].wei))
    <3>. DEFINE u == row[h].uid
                evm == IF u \in Uids THEN chainBlock[csync].evm[u] ELSE {}
                amount == IF evm = {} \/ h \in failed THEN row[h].wei
                          ELSE CollateralAt(csync, CHOOSE e \in Evms : evm = {e})
    <3>1. row[h] \in Rec /\ (row[h].wei > 0 => Backed(row[h].wei))
      BY DEF CollateralInv, CollateralIsFromOneBlock
    <3>2. row'[h] = row[h] \/ row'[h] = [row[h] EXCEPT !.evm = evm, !.wei = amount]
      BY <2>0, ZenonT(60)
    <3>3. evm = {} \/ \E e \in Evms : evm = {e}
      BY <2>2, SMTT(60) DEF ChainBlocks, EvmMaps
    <3>4. amount \in Nat /\ (amount > 0 => Backed(amount))
      <4>1. CASE evm = {} \/ h \in failed
        BY <3>1, <4>1
      <4>2. CASE ~(evm = {} \/ h \in failed)
        <5>1. PICK e \in Evms : evm = {e}
          BY <3>3, <4>2
        <5>2. (CHOOSE x \in Evms : evm = {x}) = e
          <6>. HIDE DEF evm
          <6>. QED BY <5>1
        <5>3. amount = chainBlock[csync].deposit[e]
          BY <4>2, <5>2 DEF CollateralAt
        <5>4. amount \in {0, 1}
          BY <2>2, <5>3 DEF ChainBlocks
        <5>5. u \in Uids /\ e \in chainBlock[csync].evm[u]
          BY <5>1
        <5>. HIDE DEF amount, u, evm
        <5>. QED BY <2>1, <5>3, <5>4, <5>5
      <4>. QED BY <4>1, <4>2
    <3>. HIDE DEF amount, evm
    <3>5. [row[h] EXCEPT !.evm = evm, !.wei = amount] \in Rec
          /\ [row[h] EXCEPT !.evm = evm, !.wei = amount].wei = amount
      BY <3>1, <3>3, <3>4
    <3>. QED BY <3>1, <3>2, <3>4, <3>5, ZenonT(60)
  <2>4. row' = [h \in Hotkeys |-> row'[h]]
    <3>. HIDE DEF NewRow
    <3>. QED BY <2>0
  <2>. HIDE DEF Rec
  <2>5. row' \in [Hotkeys -> Rec]
    BY <2>3, <2>4
  <2>6. CollateralIsFromOneBlock'
    BY <2>1, <2>3 DEF CollateralIsFromOneBlock
  <2>7. csync' \in 0 .. Len(chainBlock')
    BY <1>0, <2>1
  <2>8. chainBlock' \in Seq(ChainBlocks) /\ Len(chainBlock') >= 1
    BY <2>1 DEF CollateralInv
  <2>. QED BY <2>5, <2>6, <2>7, <2>8 DEF CollateralInv, Rec
<1>5. CASE PollMinerManifests
  BY <1>5 DEF PollMinerManifests, CollateralInv, CollateralIsFromOneBlock
<1>. QED BY <1>1, <1>2, <1>3, <1>4, <1>5 DEF MinersNext

\* The tasks at the start: nothing synced, taken or sent.
LEMMA InitUpkeep == UpkeepInit => SlashInv /\ OutboxInv /\ CollateralInv
<1>. SUFFICES ASSUME UpkeepInit PROVE SlashInv /\ OutboxInv /\ CollateralInv
  OBVIOUS
<1>1. SlashInv
  BY DEF UpkeepInit, SlashInv
<1>2. OutboxInv
  BY DEF UpkeepInit, OutboxInv
<1>3. CollateralInv
  <2>. DEFINE f == CHOOSE f \in [Uids -> Hotkeys] : \A u, v \in Uids : f[u] = f[v] => u = v
              b == [neuron |-> f, evm |-> [u \in Uids |-> {}], deposit |-> [e \in Evms |-> 0]]
  <2>1. f \in [Uids -> Hotkeys]
    BY UpkeepAssumption
  <2>. HIDE DEF f
  <2>2. b \in ChainBlocks
    BY <2>1 DEF ChainBlocks, EvmMaps
  <2>3. chainBlock = <<b>> /\ csync = 0
        /\ row = [h \in Hotkeys |-> [uid |-> NoUid, evm |-> {}, wei |-> 0]]
    BY DEF UpkeepInit, f
  <2>. HIDE DEF b
  <2>4. chainBlock \in Seq(ChainBlocks) /\ Len(chainBlock) = 1
    BY <2>2, <2>3
  <2>5. row \in [Hotkeys -> [uid : Int, evm : {{}} \cup {{e} : e \in Evms}, wei : Nat]]
    BY <2>3 DEF NoUid
  <2>6. CollateralIsFromOneBlock
    BY <2>3 DEF CollateralIsFromOneBlock
  <2>. QED BY <2>3, <2>4, <2>5, <2>6 DEF CollateralInv
<1>. QED BY <1>1, <1>2, <1>3

\* Each task leaves the others' state alone and keeps its own invariant.
LEMMA NextUpkeep ==
    /\ SlashInv /\ OutboxInv /\ CollateralInv
    /\ [MinersNext \/ SlashNext \/ EventsNext]_upkeepVars
    => (SlashInv /\ OutboxInv /\ CollateralInv)'
<1>. SUFFICES ASSUME SlashInv, OutboxInv, CollateralInv,
                     [MinersNext \/ SlashNext \/ EventsNext]_upkeepVars
              PROVE  SlashInv' /\ OutboxInv' /\ CollateralInv'
  OBVIOUS
<1>1. UNCHANGED slash => SlashInv'
  BY DEF SlashInv
<1>2. UNCHANGED outbox => OutboxInv'
  BY DEF OutboxInv
<1>3. UNCHANGED <<chainBlock, row, csync>> => CollateralInv'
  BY DEF CollateralInv, CollateralIsFromOneBlock
<1>4. CASE MinersNext
  <2>1. UNCHANGED <<slash, outbox>>
    BY <1>4, ZenonT(60) DEF MinersNext, ChainMoves, SyncMiners, BeginCollateralSync, EndCollateralSync,
       PollMinerManifests
  <2>. QED BY <1>1, <1>2, <1>4, <2>1, CollateralStep, SMTT(60)
<1>5. CASE SlashNext
  <2>1. PICK j \in CheatedJobs : SlashCollateral(j)
    BY <1>5 DEF SlashNext
  <2>2. UNCHANGED <<outbox, chainBlock, row, csync>>
    BY <2>1 DEF SlashCollateral
  <2>. QED BY <1>2, <1>3, <2>1, <2>2, SlashStep
<1>6. CASE EventsNext
  <2>1. PICK w \in Senders : LockEvents(w) \/ PostEvents(w)
    BY <1>6 DEF EventsNext
  <2>2. UNCHANGED <<slash, chainBlock, row, csync>>
    BY <2>1 DEF LockEvents, PostEvents
  <2>. QED BY <1>1, <1>3, <2>1, <2>2, OutboxStep
<1>7. CASE UNCHANGED upkeepVars
  BY <1>1, <1>2, <1>3, <1>7 DEF upkeepVars
<1>. QED BY <1>4, <1>5, <1>6, <1>7

\* sync_collaterals, slash_collateral_task and send_events_to_facilitator, for
\* any number of miners, jobs, events and workers: a collateral is a deposit of
\* one block, and a job is slashed and an event sent once for sure at most.
THEOREM UpkeepAlwaysSound == UpkeepSpec => []UpkeepIsSound
<1>1. SlashInv => SlashedOnceUnlessUnsure
  <2>. SUFFICES ASSUME SlashInv, NEW j \in CheatedJobs
                PROVE  /\ slash[j].taken <= 1 + slash[j].unsure
                       /\ slash[j].marked => slash[j].taken >= 1
    BY DEF SlashedOnceUnlessUnsure
  <2>1. slash[j].taken \in Nat /\ slash[j].unsure \in Nat
    BY DEF SlashInv
  <2>. QED BY <2>1 DEF SlashInv
<1>2. OutboxInv => EventsSentOnceUnlessUnsure
  <2>. SUFFICES ASSUME OutboxInv, NEW e \in Events
                PROVE  /\ outbox[e].copies <= 1 + outbox[e].unsure
                       /\ outbox[e].sent => outbox[e].copies >= 1
    BY DEF EventsSentOnceUnlessUnsure
  <2>1. outbox[e].copies \in Nat /\ outbox[e].unsure \in Nat
    BY DEF OutboxInv
  <2>. QED BY <2>1 DEF OutboxInv
<1>3. SlashInv /\ OutboxInv /\ CollateralInv => UpkeepIsSound
  BY <1>1, <1>2 DEF CollateralInv, UpkeepIsSound
<1>. QED BY InitUpkeep, NextUpkeep, <1>3, PTL DEF UpkeepSpec

-----------------------------------------------------------------------------
(* PromptPipeline *)

LoadRows == [saved : BOOLEAN, samples : SUBSET Series, file : SUBSET Series,
             answered : SUBSET Series, finished : BOOLEAN]

PromptTypes ==
  /\ load \in [Workloads -> LoadRows] /\ used \subseteq Series \X Workloads
  /\ sampler \subseteq Workloads /\ Known \subseteq Series
  /\ todo \in [Answerers -> SUBSET Workloads]

\* A finished workload has an answer for each of its samples.
FinishedIsAnswered ==
  \A w \in Workloads : load[w].finished => load[w].samples \subseteq load[w].answered

\* The workload that is being filled for the first time is not in the database.
FilledIsNew ==
  \A w \in Workloads : w \in sampler /\ w \notin reused =>
    ~load[w].saved /\ ~load[w].finished /\ load[w].samples = {} /\ load[w].answered = {}

\* What is about to be answered is in the database.
AskedIsSaved ==
  /\ \A a \in Answerers : \A w \in todo[a] : load[w].saved
  /\ \A a \in Answerers, w \in Workloads : lock = <<a, w>> => load[w].saved

PromptInv ==
  /\ PromptTypes /\ FinishedIsAnswered /\ FilledIsNew /\ AskedIsSaved
  /\ JobsUseAnsweredSamples /\ OpenWorkloadsAreAnswerable

\* No prompts, no workloads.
LEMMA InitPrompt == PromptInit => PromptInv
<1>. SUFFICES ASSUME PromptInit PROVE PromptInv
  OBVIOUS
<1>1. NoLoad \in LoadRows /\ ~NoLoad.saved /\ ~NoLoad.finished
      /\ NoLoad.samples = {} /\ NoLoad.answered = {}
  BY DEF NoLoad, LoadRows
<1>2. load = [w \in Workloads |-> NoLoad] /\ used = {} /\ sampler = {} /\ Known = {}
      /\ todo = [a \in Answerers |-> {}] /\ lock = <<>>
  BY DEF PromptInit, Known, Free
<1>3. \A a, w : <<a, w>> # <<>>
  OBVIOUS
<1>. HIDE DEF NoLoad, Known, LoadRows
<1>. QED BY <1>1, <1>2, <1>3 DEF PromptInv, PromptTypes, FinishedIsAnswered, FilledIsNew,
         AskedIsSaved, JobsUseAnsweredSamples, OpenWorkloadsAreAnswerable, Open

\* A workload's row gets new values: what they have to satisfy.
LEMMA LoadStep ==
    ASSUME PromptInv, NEW w \in Workloads, NEW n \in LoadRows,
           load' = [load EXCEPT ![w] = n],
           UNCHANGED <<series, used, todo>>,
           n.finished => n.samples \subseteq n.answered,
           load[w].saved => n.saved,
           load[w].answered \subseteq n.answered,
           UNCHANGED lock \/ lock' = <<>>,
           reused \subseteq reused', sampler' \subseteq Workloads,
           w \in sampler' => w \in reused',
           \A v \in sampler' : v \in sampler \/ load[v] = NoLoad,
           n.saved /\ ~n.finished /\ w \notin reused' => n.samples \ n.answered \subseteq n.file
    PROVE  PromptInv'
<1>0. \A v \in Workloads : load'[v] = IF v = w THEN n ELSE load[v]
  BY DEF PromptInv, PromptTypes
<1>1. PromptTypes'
  BY DEF PromptInv, PromptTypes, Known
<1>2. FinishedIsAnswered'
  BY <1>0 DEF PromptInv, FinishedIsAnswered
<1>3. FilledIsNew'
  <2>. SUFFICES ASSUME NEW v \in Workloads, v \in sampler', v \notin reused'
                PROVE  ~load'[v].saved /\ ~load'[v].finished /\ load'[v].samples = {}
                       /\ load'[v].answered = {}
    BY DEF FilledIsNew
  <2>1. v # w /\ load'[v] = load[v] /\ v \notin reused
    BY <1>0
  <2>2. CASE v \in sampler
    BY <2>1, <2>2 DEF PromptInv, FilledIsNew
  <2>3. CASE load[v] = NoLoad
    BY <2>1, <2>3 DEF NoLoad
  <2>. QED BY <2>2, <2>3
<1>4. AskedIsSaved'
  <2>1. \A v \in Workloads : load[v].saved => load'[v].saved
    BY <1>0
  <2>2. \A a, v : <<a, v>> # <<>>
    OBVIOUS
  <2>3. \A a \in Answerers : \A v \in todo'[a] : load'[v].saved
    BY <2>1 DEF PromptInv, PromptTypes, AskedIsSaved
  <2>4. \A a \in Answerers, v \in Workloads : lock' = <<a, v>> => load'[v].saved
    BY <2>1, <2>2 DEF PromptInv, AskedIsSaved
  <2>. QED BY <2>3, <2>4 DEF AskedIsSaved
<1>5. JobsUseAnsweredSamples'
  BY <1>0 DEF PromptInv, PromptTypes, JobsUseAnsweredSamples
<1>6. OpenWorkloadsAreAnswerable'
  BY <1>0 DEF PromptInv, OpenWorkloadsAreAnswerable, Open
<1>. QED BY <1>1, <1>2, <1>3, <1>4, <1>5, <1>6 DEF PromptInv

\* Every step of generation, sampling, answering, use and eviction keeps the
\* invariant.
LEMMA NextPrompt == PromptInv /\ [PromptNext]_promptVars => PromptInv'
<1>. SUFFICES ASSUME PromptInv, [PromptNext]_promptVars PROVE PromptInv'
  OBVIOUS
<1>0. \A a, w : <<a, w>> # <<"generation">> /\ <<a, w>> # <<>>
  OBVIOUS
<1>1. CASE BeginGeneration \/ EndSampling
  BY <1>0, <1>1 DEF BeginGeneration, EndSampling, PromptInv, PromptTypes, FinishedIsAnswered,
     FilledIsNew, AskedIsSaved, JobsUseAnsweredSamples, OpenWorkloadsAreAnswerable, Open, Known
<1>2. CASE EndGeneration
  <2>1. Known' \subseteq Series
    <3>1. CASE series' = series
      BY <3>1 DEF Known, PromptInv, PromptTypes
    <3>2. CASE series' # series
      <4>1. PICK s \in Series \ Known, full \in BOOLEAN :
              series' = [x \in Known \cup {s} |-> IF x = s THEN full ELSE series[x]]
        BY <1>2, <3>2 DEF EndGeneration
      <4>2. DOMAIN series' = Known \cup {s}
        <5>. HIDE DEF Known
        <5>. QED BY <4>1
      <4>3. Known' = DOMAIN series'
        BY DEF Known
      <4>. QED BY <4>1, <4>2, <4>3 DEF PromptInv, PromptTypes
    <3>. QED BY <3>1, <3>2
  <2>2. UNCHANGED <<load, used, todo, sampler, reused>> /\ lock' = <<>>
    BY <1>2 DEF EndGeneration, Free
  <2>. HIDE DEF Known
  <2>. QED BY <1>0, <2>1, <2>2 DEF PromptInv, PromptTypes, FinishedIsAnswered,
     FilledIsNew, AskedIsSaved, JobsUseAnsweredSamples, OpenWorkloadsAreAnswerable, Open
<1>3. ASSUME NEW w \in Workloads, BeginSampling(w) PROVE PromptInv'
  <2>1. load[w] = NoLoad /\ sampler' = {w} /\ UNCHANGED <<series, load, used, lock, todo, reused>>
    BY <1>3 DEF BeginSampling
  <2>2. FilledIsNew'
    BY <2>1 DEF FilledIsNew, NoLoad
  <2>. QED BY <2>1, <2>2 DEF PromptInv, PromptTypes, FinishedIsAnswered,
     AskedIsSaved, JobsUseAnsweredSamples, OpenWorkloadsAreAnswerable, Open, Known
<1>4. ASSUME NEW w \in Workloads, FillWorkload(w) PROVE PromptInv'
  <2>1. /\ sampler = {w} /\ UNCHANGED <<series, used, todo>> /\ UNCHANGED lock
        /\ reused \subseteq reused' /\ sampler' \subseteq Workloads
        /\ (w \in sampler' => w \in reused')
        /\ \A v \in sampler' : v \in sampler \/ load[v] = NoLoad
    BY <1>4 DEF FillWorkload
  <2>2. PICK S \in SUBSET Known : SaveWorkload(w, S) \/ load' = [load EXCEPT ![w].file = S]
                                  \/ load' = load
    BY <1>4 DEF FillWorkload
  <2>3. S \in SUBSET Series /\ load[w] \in LoadRows
    BY DEF PromptInv, PromptTypes
  <2>4. w \notin reused' => ~load[w].saved /\ load[w].samples = {} /\ load[w].answered = {}
    BY <2>1 DEF PromptInv, FilledIsNew
  <2>5. CASE SaveWorkload(w, S)
    <3>. DEFINE n == [saved |-> TRUE, samples |-> load[w].samples \cup S, file |-> S,
                      answered |-> load[w].answered, finished |-> FALSE]
    <3>1. n \in LoadRows
      BY <2>3 DEF LoadRows
    <3>2. n.saved /\ ~n.finished /\ n.samples = load[w].samples \cup S /\ n.file = S
          /\ n.answered = load[w].answered
      OBVIOUS
    <3>3. load' = [load EXCEPT ![w] = n]
      BY <2>5 DEF SaveWorkload
    <3>4. n.saved /\ ~n.finished /\ w \notin reused' => n.samples \ n.answered \subseteq n.file
      BY <2>4, <3>2
    <3>. HIDE DEF n
    <3>. QED BY <2>1, <3>1, <3>2, <3>3, <3>4, LoadStep
  <2>6. CASE load' = [load EXCEPT ![w].file = S]
    <3>. DEFINE n == [load[w] EXCEPT !.file = S]
    <3>1. n \in LoadRows
      BY <2>3 DEF LoadRows
    <3>2. n.saved = load[w].saved /\ n.finished = load[w].finished
          /\ n.samples = load[w].samples /\ n.answered = load[w].answered
      BY <2>3 DEF LoadRows
    <3>3. load' = [load EXCEPT ![w] = n]
      BY <2>6
    <3>4. n.finished => n.samples \subseteq n.answered
      BY <3>2 DEF PromptInv, FinishedIsAnswered
    <3>. HIDE DEF n
    <3>. QED BY <2>1, <2>4, <3>1, <3>2, <3>3, <3>4, LoadStep
  <2>7. CASE load' = load
    <3>1. load' = [load EXCEPT ![w] = load[w]]
      BY <2>7 DEF PromptInv, PromptTypes
    <3>2. load[w].finished => load[w].samples \subseteq load[w].answered
      BY DEF PromptInv, FinishedIsAnswered
    <3>. QED BY <2>1, <2>3, <2>4, <3>1, <3>2, LoadStep
  <2>. QED BY <2>2, <2>5, <2>6, <2>7
<1>5. ASSUME NEW a \in Answerers, ReadWorkloads(a) PROVE PromptInv'
  <2>1. todo' = [todo EXCEPT ![a] = Open] /\ UNCHANGED <<series, load, used, lock, sampler, reused>>
    BY <1>5 DEF ReadWorkloads
  <2>2. Open \subseteq Workloads /\ \A w \in Open : load[w].saved
    BY DEF Open
  <2>3. Open' = Open
    BY <2>1 DEF Open
  <2>. HIDE DEF Open
  <2>4. AskedIsSaved'
    BY <2>1, <2>2 DEF AskedIsSaved, PromptInv, PromptTypes
  <2>. QED BY <2>1, <2>2, <2>3, <2>4 DEF PromptInv, PromptTypes, FinishedIsAnswered, FilledIsNew,
     JobsUseAnsweredSamples, OpenWorkloadsAreAnswerable, Known
<1>6. ASSUME NEW a \in Answerers, NEW w \in Workloads, BeginAnswering(a, w) PROVE PromptInv'
  <2>1. w \in todo[a] /\ load[w].saved /\ UNCHANGED <<series, load, used, sampler, reused>>
    BY <1>6 DEF BeginAnswering, PromptInv, AskedIsSaved
  <2>2. lock' = lock \/ lock' = <<a, w>>
    BY <1>6 DEF BeginAnswering
  <2>3. todo' \in [Answerers -> SUBSET Workloads] /\ \A x \in Answerers : todo'[x] \subseteq todo[x]
    BY <1>6 DEF BeginAnswering, PromptInv, PromptTypes
  <2>4. \A x, v : <<a, w>> = <<x, v>> => w = v
    OBVIOUS
  <2>5. AskedIsSaved'
    BY <2>1, <2>2, <2>3, <2>4 DEF PromptInv, AskedIsSaved
  <2>. QED BY <2>1, <2>3, <2>5 DEF PromptInv, PromptTypes, FinishedIsAnswered, FilledIsNew,
     JobsUseAnsweredSamples, OpenWorkloadsAreAnswerable, Open, Known
<1>7. ASSUME NEW a \in Answerers, NEW w \in Workloads, EndAnswering(a, w) PROVE PromptInv'
  <2>1. lock = <<a, w>> /\ lock' = <<>> /\ UNCHANGED <<series, used, todo, sampler, reused>>
    BY <1>7 DEF EndAnswering, Free
  <2>2. load[w].saved
    BY <2>1 DEF PromptInv, AskedIsSaved
  <2>3. w \in sampler' => w \in reused'
    BY <2>1, <2>2 DEF PromptInv, FilledIsNew
  <2>4. reused \subseteq reused' /\ sampler' \subseteq Workloads
        /\ \A v \in sampler' : v \in sampler \/ load[v] = NoLoad
    BY <2>1 DEF PromptInv, PromptTypes
  <2>5. load[w] \in LoadRows
    BY DEF PromptInv, PromptTypes
  <2>6. CASE load' = load
    <3>1. load' = [load EXCEPT ![w] = load[w]]
      BY <2>6 DEF PromptInv, PromptTypes
    <3>2. load[w].finished => load[w].samples \subseteq load[w].answered
      BY DEF PromptInv, FinishedIsAnswered
    <3>3. load[w].saved /\ ~load[w].finished /\ w \notin reused' =>
            load[w].samples \ load[w].answered \subseteq load[w].file
      BY <2>1 DEF PromptInv, OpenWorkloadsAreAnswerable, Open
    <3>. QED BY <2>1, <2>3, <2>4, <2>5, <3>1, <3>2, <3>3, LoadStep
  <2>7. CASE load' # load
    <3>. DEFINE asked == load[w].samples \ load[w].answered
                n == [load[w] EXCEPT !.finished = TRUE, !.answered = load[w].answered \cup asked]
    <3>1. load' = [load EXCEPT ![w] = n]
      BY <1>7, <2>7 DEF EndAnswering, SaveAnswers
    <3>2. n \in LoadRows
      BY <2>5 DEF LoadRows
    <3>3. n.saved = load[w].saved /\ n.finished /\ n.samples = load[w].samples
          /\ n.answered = load[w].answered \cup asked
      BY <2>5 DEF LoadRows
    <3>. HIDE DEF n
    <3>4. n.samples \subseteq n.answered /\ load[w].answered \subseteq n.answered
      BY <3>3
    <3>. QED BY <2>1, <2>3, <2>4, <3>1, <3>2, <3>3, <3>4, LoadStep
  <2>. QED BY <2>6, <2>7
<1>8. ASSUME NEW p \in Series \X Workloads, UseSample(p) PROVE PromptInv'
  <2>1. p \in Unused /\ load[p[2]].finished /\ used' = used \cup {p}
        /\ UNCHANGED <<series, load, lock, todo, sampler, reused>>
    BY <1>8 DEF UseSample
  <2>2. p[1] \in load[p[2]].answered
    BY <2>1 DEF Unused, PromptInv, FinishedIsAnswered
  <2>. QED BY <2>1, <2>2 DEF PromptInv, PromptTypes, FinishedIsAnswered, FilledIsNew,
     AskedIsSaved, JobsUseAnsweredSamples, OpenWorkloadsAreAnswerable, Open, Known
<1>9. ASSUME NEW w \in Workloads, Evict(w) PROVE PromptInv'
  <2>0. NoLoad \in LoadRows /\ ~NoLoad.saved /\ ~NoLoad.finished
    BY DEF NoLoad, LoadRows
  <2>. HIDE DEF NoLoad
  <2>1. /\ load' = [load EXCEPT ![w] = NoLoad] /\ used' = {p \in used : p[2] # w}
        /\ todo' = [a \in Answerers |-> todo[a] \ {w}]
        /\ lock \notin (Answerers \X {w}) /\ w \notin sampler /\ reused' = reused \ {w}
        /\ UNCHANGED <<series, lock, sampler>>
    BY <1>9 DEF Evict
  <2>2. \A v \in Workloads : load'[v] = IF v = w THEN NoLoad ELSE load[v]
    BY <2>1 DEF PromptInv, PromptTypes
  <2>3. PromptTypes'
    BY <2>0, <2>1 DEF PromptInv, PromptTypes, Known
  <2>4. FinishedIsAnswered' /\ FilledIsNew' /\ OpenWorkloadsAreAnswerable'
    BY <2>0, <2>1, <2>2 DEF PromptInv, FinishedIsAnswered, FilledIsNew,
       OpenWorkloadsAreAnswerable, Open
  <2>5. AskedIsSaved'
    <3>1. \A a \in Answerers : \A v \in todo'[a] : v # w /\ v \in todo[a]
      BY <2>1
    <3>2. \A a \in Answerers, v \in Workloads : lock' = <<a, v>> => v # w
      BY <2>1
    <3>. QED BY <2>1, <2>2, <3>1, <3>2 DEF PromptInv, PromptTypes, AskedIsSaved
  <2>6. JobsUseAnsweredSamples'
    BY <2>1, <2>2 DEF PromptInv, PromptTypes, JobsUseAnsweredSamples
  <2>. QED BY <2>3, <2>4, <2>5, <2>6 DEF PromptInv
<1>10. CASE UNCHANGED promptVars
  BY <1>10 DEF promptVars, PromptInv, PromptTypes, FinishedIsAnswered, FilledIsNew,
     AskedIsSaved, JobsUseAnsweredSamples, OpenWorkloadsAreAnswerable, Open, Known
<1>. QED BY <1>1, <1>2, <1>3, <1>4, <1>5, <1>6, <1>7, <1>8, <1>9, <1>10 DEF PromptNext

\* Sampling, answering, use and eviction without a lock around them, for any
\* number of series, workloads and workers: a job is made only from answered
\* samples, and an open workload that was filled once can be answered.
THEOREM SamplesAlwaysSound == PromptSpec => []SamplesAreSound
<1>1. PromptInv => SamplesAreSound
  BY DEF PromptInv, SamplesAreSound
<1>. QED BY InitPrompt, NextPrompt, <1>1, PTL DEF PromptSpec

-----------------------------------------------------------------------------
(* The chain cache *)

Fetches == Kinds \X Nat
Tasks == Fetches \cup {THE_END}
Waiting(ts) == {ts[i] : i \in 1 .. Len(ts)}
Getters == {w \in Threads : thread[w] = <<"get">>}

CacheTypes ==
  /\ tasks \in Seq(Tasks)
  /\ thread \in [Threads -> Fetches \cup {<<"fresh">>, <<"get">>, <<"quit">>}]
  /\ submitted \in Nat \cup {NotSet}
  /\ submitted # NotSet => first \in Nat
  /\ producer = "put" => submitted # NotSet
  /\ reader.at # "idle" => reader.task \in Kinds \X (Nat \ {0})
  /\ reader \in [at : {"idle", "asked", "lookup"}, task : Tasks]

\* The data of every block that was submitted are somewhere.
NothingSkipped ==
  submitted # NotSet =>
    \A t \in Kinds \X (first .. submitted) :
      t \in cached \cup dropped \cup Waiting(tasks) \/ \E w \in Threads : thread[w] = t

CacheInv == CacheTypes /\ NothingSkipped /\ NoWorkerIsLeft

\* A task is not one of the places of a worker that has none.
LEMMA TasksAreNotPlaces ==
  /\ \A t \in Fetches : /\ t # <<"fresh">> /\ t # <<"get">> /\ t # <<"quit">> /\ t # THE_END
                        /\ t[1] \in Kinds /\ t[2] \in Nat
  /\ \A t \in {<<"fresh">>, <<"get">>, <<"quit">>} : t[1] \notin Kinds
BY DEF Fetches, Kinds, THE_END

\* What the first task of a queue, and what new ones, change.
LEMMA QueueSteps ==
  ASSUME NEW S, NEW q \in Seq(S)
  PROVE  /\ q # <<>> => /\ Head(q) \in S /\ Tail(q) \in Seq(S) /\ Len(Tail(q)) = Len(q) - 1
                        /\ Waiting(q) = {Head(q)} \cup Waiting(Tail(q))
         /\ \A r \in Seq(S) : /\ q \o r \in Seq(S) /\ Len(q \o r) = Len(q) + Len(r)
                              /\ Waiting(q \o r) = Waiting(q) \cup Waiting(r)
         /\ Len(q) \in Nat
<1>1. ASSUME q # <<>>
      PROVE  /\ Head(q) \in S /\ Tail(q) \in Seq(S) /\ Len(Tail(q)) = Len(q) - 1
             /\ Waiting(q) = {Head(q)} \cup Waiting(Tail(q))
  <2>1. /\ Head(q) \in S /\ Tail(q) \in Seq(S) /\ Head(q) = q[1] /\ Len(q) \in Nat \ {0}
        /\ Len(Tail(q)) = Len(q) - 1
    BY <1>1, EmptySeq
  <2>2. \A i \in 1 .. Len(q) - 1 : Tail(q)[i] = q[i + 1]
    BY <1>1, <2>1
  <2>3. \A i \in 1 .. Len(q) : i = 1 \/ (i - 1 \in 1 .. Len(Tail(q)) /\ q[i] = Tail(q)[i - 1])
    BY <2>1, <2>2
  <2>4. \A i \in 1 .. Len(Tail(q)) : i + 1 \in 1 .. Len(q) /\ q[i + 1] = Tail(q)[i]
    BY <2>1, <2>2
  <2>5. Waiting(q) \subseteq {Head(q)} \cup Waiting(Tail(q))
    BY <2>1, <2>3 DEF Waiting
  <2>6. 1 \in 1 .. Len(q)
    BY <2>1
  <2>7. {Head(q)} \cup Waiting(Tail(q)) \subseteq Waiting(q)
    BY <2>1, <2>4, <2>6 DEF Waiting
  <2>. QED BY <2>1, <2>5, <2>7
<1>2. ASSUME NEW r \in Seq(S)
      PROVE  /\ q \o r \in Seq(S) /\ Len(q \o r) = Len(q) + Len(r)
             /\ Waiting(q \o r) = Waiting(q) \cup Waiting(r)
  <2>1. /\ q \o r \in Seq(S) /\ Len(q \o r) = Len(q) + Len(r) /\ Len(q) \in Nat /\ Len(r) \in Nat
    BY ConcatProperties
  <2>2. \A i \in 1 .. Len(q) + Len(r) :
          (q \o r)[i] = IF i <= Len(q) THEN q[i] ELSE r[i - Len(q)]
    BY ConcatProperties
  <2>3. \A i \in 1 .. Len(q) : i \in 1 .. Len(q \o r) /\ (q \o r)[i] = q[i]
    BY <2>1, <2>2
  <2>4. \A i \in 1 .. Len(r) : i + Len(q) \in 1 .. Len(q \o r) /\ (q \o r)[i + Len(q)] = r[i]
    BY <2>1, <2>2
  <2>5. \A i \in 1 .. Len(q \o r) :
          \/ i \in 1 .. Len(q) /\ (q \o r)[i] = q[i]
          \/ i - Len(q) \in 1 .. Len(r) /\ (q \o r)[i] = r[i - Len(q)]
    BY <2>1, <2>2
  <2>6. Waiting(q \o r) \subseteq Waiting(q) \cup Waiting(r)
    BY <2>5 DEF Waiting
  <2>7. Waiting(q) \cup Waiting(r) \subseteq Waiting(q \o r)
    BY <2>3, <2>4 DEF Waiting
  <2>. QED BY <2>1, <2>6, <2>7
<1>. QED BY <1>1, <1>2

\* The invariant holds before anything happens.
LEMMA InitCacheInv == CacheInit => CacheInv
<1>. SUFFICES ASSUME CacheInit PROVE CacheInv
  OBVIOUS
<1>1. CacheTypes
  BY DEF CacheInit, CacheTypes, NotSet, Idling, Tasks
<1>2. NothingSkipped /\ NoWorkerIsLeft
  BY DEF CacheInit, NothingSkipped, NoWorkerIsLeft
<1>. QED BY <1>1, <1>2 DEF CacheInv

\* A step that leaves the workers alone and takes nothing from the queue keeps
\* every worker's way out; the data of the blocks stay where they are.
LEMMA DataStay ==
  ASSUME CacheInv, thread' = thread, submitted' = submitted, first' = first,
         Waiting(tasks) \subseteq Waiting(tasks'),
         cached \cup dropped \subseteq (cached \cup dropped)'
  PROVE  NothingSkipped'
BY DEF CacheInv, NothingSkipped

\* A worker's turn.
LEMMA WorkerInv ==
  ASSUME CacheInv, NEW w \in Threads, WorkerLoops(w) \/ WorkerGets(w) \/ WorkerFetches(w)
  PROVE  CacheInv'
<1>. USE DEF CacheInv
<1>1. /\ tasks \in Seq(Tasks)
      /\ thread \in [Threads -> Fetches \cup {<<"fresh">>, <<"get">>, <<"quit">>}]
      /\ Len(tasks) \in Nat /\ IsFiniteSet(Getters) /\ Cardinality(Getters) \in Nat
  <2>1. IsFiniteSet(Getters)
    BY CacheAssumption, FS_Subset DEF Getters
  <2>. QED BY <2>1, FS_CardinalityType, QueueSteps DEF CacheTypes
<1>2. UNCHANGED <<producer, requested, submitted, first, reader, closing>>
  BY DEF WorkerLoops, WorkerGets, WorkerFetches
<1>3. CASE WorkerLoops(w)
  <2>1. /\ thread[w] = <<"fresh">> /\ UNCHANGED <<tasks, cached, dropped>>
        /\ thread' = [thread EXCEPT ![w] = IF closing = "open" THEN <<"get">> ELSE <<"quit">>]
    BY <1>3 DEF WorkerLoops
  <2>2. CacheTypes'
    BY <1>1, <1>2, <2>1 DEF CacheTypes
  <2>3. NothingSkipped'
    <3>1. \A t : (\E v \in Threads : thread[v] = t) /\ t # <<"fresh">> =>
                   \E v \in Threads : thread'[v] = t
      BY <1>1, <2>1
    <3>2. submitted # NotSet => \A t \in Kinds \X (first .. submitted) : t # <<"fresh">>
      OBVIOUS
    <3>. QED BY <1>2, <2>1, <3>1, <3>2 DEF NothingSkipped, Waiting
  <2>4. ASSUME closing = "ended" PROVE Getters' = Getters
    BY <1>1, <2>1, <2>4 DEF Getters
  <2>5. NoWorkerIsLeft'
    BY <1>2, <2>1, <2>4 DEF NoWorkerIsLeft, Getters
  <2>. QED BY <2>2, <2>3, <2>5
<1>4. CASE WorkerGets(w)
  <2>0. PICK h : h = Head(tasks)
    OBVIOUS
  <2>1. /\ thread[w] = <<"get">> /\ tasks # <<>> /\ tasks' = Tail(tasks)
        /\ UNCHANGED <<cached, dropped>>
        /\ thread' = [thread EXCEPT ![w] = IF h = THE_END THEN <<"quit">>
                                           ELSE IF h \in cached THEN <<"fresh">> ELSE h]
    BY <1>4, <2>0 DEF WorkerGets
  <2>2. /\ h \in Tasks /\ tasks' \in Seq(Tasks) /\ Len(tasks') = Len(tasks) - 1
        /\ Waiting(tasks) = {h} \cup Waiting(tasks')
    BY <1>1, <2>0, <2>1, QueueSteps
  <2>3. CacheTypes'
    BY <1>1, <1>2, <2>1, <2>2 DEF CacheTypes, Tasks
  <2>4. NothingSkipped'
    <3>. SUFFICES ASSUME submitted # NotSet, NEW t \in Kinds \X (first .. submitted)
         PROVE  \/ t \in cached \cup dropped \cup Waiting(tasks')
                \/ \E v \in Threads : thread'[v] = t
      BY <1>2, <2>1 DEF NothingSkipped
    <3>1. t # <<"get">> /\ t # THE_END
      BY DEF THE_END, Kinds
    <3>2. \/ t \in cached \cup dropped \/ t \in Waiting(tasks') \/ t = h
          \/ \E v \in Threads : thread[v] = t
      BY <2>2 DEF NothingSkipped
    <3>3. CASE t = h /\ t \notin cached
      <4>1. thread'[w] = t
        BY <1>1, <2>1, <3>1, <3>3
      <4>. QED BY <4>1
    <3>4. ASSUME NEW v \in Threads, thread[v] = t PROVE thread'[v] = t
      BY <1>1, <2>1, <3>1, <3>4
    <3>. QED BY <3>2, <3>3, <3>4
  <2>5. Getters' = Getters \ {w} /\ w \in Getters
    <3>1. thread'[w] # <<"get">>
      BY <1>1, <2>1, <2>2, TasksAreNotPlaces DEF Tasks
    <3>. QED BY <1>1, <2>1, <3>1 DEF Getters
  <2>6. Cardinality(Getters') = Cardinality(Getters) - 1
    BY <1>1, <2>5, FS_RemoveElement
  <2>7. NoWorkerIsLeft'
    BY <1>1, <1>2, <2>2, <2>6 DEF NoWorkerIsLeft, Getters
  <2>. QED BY <2>3, <2>4, <2>7
<1>5. CASE WorkerFetches(w)
  <2>0. PICK h : h = thread[w]
    OBVIOUS
  <2>1. /\ h[1] \in Kinds /\ thread' = [thread EXCEPT ![w] = <<"fresh">>] /\ UNCHANGED tasks
        /\ (cached \cup dropped)' = cached \cup dropped \cup {h}
    BY <1>5, <2>0 DEF WorkerFetches, FetchAndPut
  <2>2. CacheTypes'
    BY <1>1, <1>2, <2>1 DEF CacheTypes
  <2>3. NothingSkipped'
    <3>1. \A t : (\E v \in Threads : thread[v] = t) /\ t # h =>
                   \E v \in Threads : thread'[v] = t
      BY <1>1, <2>0, <2>1
    <3>. QED BY <1>2, <2>1, <3>1 DEF NothingSkipped, Waiting
  <2>4. Getters' = Getters
    <3>1. h # <<"get">>
      BY <2>1, TasksAreNotPlaces
    <3>. QED BY <1>1, <2>0, <2>1, <3>1 DEF Getters
  <2>5. NoWorkerIsLeft'
    BY <1>2, <2>1, <2>4 DEF NoWorkerIsLeft, Getters
  <2>. QED BY <2>2, <2>3, <2>5
<1>. QED BY <1>3, <1>4, <1>5

\* The producer's puts: both data of the next block, and the count.
LEMMA ProducerPutsInv ==
  ASSUME CacheInv, ProducerPuts
  PROVE  CacheInv'
<1>. USE DEF CacheInv
<1> DEFINE new == <<<<"timestamp", submitted + 1>>, <<"state", submitted + 1>>>>
<1>1. /\ producer = "put" /\ producer' = "loop" /\ tasks' = tasks \o new
      /\ submitted' = submitted + 1
      /\ UNCHANGED <<thread, first, reader, cached, dropped, closing>>
  BY DEF ProducerPuts
<1>2. submitted \in Nat /\ submitted # NotSet /\ first \in Nat /\ submitted + 1 \in Nat
  BY <1>1 DEF CacheTypes, NotSet
<1>3. /\ new \in Seq(Tasks) /\ Len(new) = 2
      /\ Waiting(new) = {<<"timestamp", submitted + 1>>, <<"state", submitted + 1>>}
  <2>1. <<"timestamp", submitted + 1>> \in Tasks /\ <<"state", submitted + 1>> \in Tasks
    BY <1>2 DEF Tasks, Fetches, Kinds
  <2>2. new \in Seq(Tasks) /\ Len(new) = 2 /\ 1 .. 2 = {1, 2}
    BY <2>1
  <2>. QED BY <2>2 DEF Waiting
<1>. HIDE DEF new
<1>4. /\ tasks \in Seq(Tasks) /\ tasks' \in Seq(Tasks) /\ Len(tasks') = Len(tasks) + 2
      /\ Waiting(tasks') = Waiting(tasks) \cup Waiting(new) /\ Len(tasks) \in Nat
  <2>1. tasks \in Seq(Tasks)
    BY DEF CacheTypes
  <2>2. /\ tasks \o new \in Seq(Tasks) /\ Len(tasks \o new) = Len(tasks) + Len(new)
        /\ Waiting(tasks \o new) = Waiting(tasks) \cup Waiting(new) /\ Len(tasks) \in Nat
    <3>1. new \in Seq(Tasks)
      BY <1>3
    <3>. QED BY <2>1, <3>1, QueueSteps
  <2>. QED BY <1>1, <1>3, <2>1, <2>2
<1>5. CacheTypes'
  BY <1>1, <1>2, <1>4 DEF CacheTypes
<1>6. NothingSkipped'
  <2>. SUFFICES ASSUME NEW t \in Kinds \X (first .. submitted + 1)
       PROVE  \/ t \in cached \cup dropped \cup Waiting(tasks')
              \/ \E v \in Threads : thread[v] = t
    BY <1>1 DEF NothingSkipped
  <2>0. PICK k \in Kinds, b \in first .. submitted + 1 : t = <<k, b>>
    OBVIOUS
  <2>1. CASE b = submitted + 1
    BY <1>3, <1>4, <2>0, <2>1 DEF Kinds
  <2>2. CASE b # submitted + 1
    <3>1. t \in Kinds \X (first .. submitted)
      BY <1>2, <2>0, <2>2
    <3>. QED BY <1>2, <1>4, <3>1 DEF NothingSkipped
  <2>. QED BY <2>1, <2>2
<1>7. IsFiniteSet(Getters) /\ Cardinality(Getters) \in Nat
  BY CacheAssumption, FS_Subset, FS_CardinalityType DEF Getters
<1>8. NoWorkerIsLeft'
  BY <1>1, <1>4, <1>7 DEF NoWorkerIsLeft, Getters
<1>. QED BY <1>5, <1>6, <1>8

\* close() puts as many ends as there are threads.
LEMMA PutEndsInv ==
  ASSUME CacheInv, PutEnds
  PROVE  CacheInv'
<1>. USE DEF CacheInv
<1> DEFINE n == Cardinality(Threads)
           ends == [i \in 1 .. n |-> THE_END]
<1>1. /\ closing' = "ended" /\ tasks' = tasks \o ends
      /\ UNCHANGED <<thread, producer, submitted, first, reader, cached, dropped>>
  BY DEF PutEnds
<1>2. n \in Nat
  BY CacheAssumption, FS_CardinalityType
<1>3. ends \in Seq(Tasks) /\ Len(ends) = n
  BY <1>2 DEF Tasks
<1>. HIDE DEF n, ends
<1>4. /\ tasks' \in Seq(Tasks) /\ Len(tasks') = Len(tasks) + n /\ Len(tasks) \in Nat
      /\ Waiting(tasks) \subseteq Waiting(tasks')
  <2>1. tasks \in Seq(Tasks)
    BY DEF CacheTypes
  <2>2. /\ tasks \o ends \in Seq(Tasks) /\ Len(tasks \o ends) = Len(tasks) + Len(ends)
        /\ Waiting(tasks) \subseteq Waiting(tasks \o ends) /\ Len(tasks) \in Nat
    BY <1>3, <2>1, QueueSteps
  <2>. QED BY <1>1, <1>3, <2>2
<1>5. CacheTypes' /\ NothingSkipped'
  BY <1>1, <1>4, DataStay DEF CacheTypes
<1>6. Cardinality(Getters) <= n /\ Cardinality(Getters) \in Nat
  BY CacheAssumption, FS_Subset, FS_CardinalityType DEF Getters, n
<1>7. NoWorkerIsLeft'
  BY <1>1, <1>2, <1>4, <1>6 DEF NoWorkerIsLeft, Getters
<1>. QED BY <1>5, <1>7

\* The scan, and what happens around it.
LEMMA OtherCacheInv ==
  ASSUME CacheInv,
         \/ Mint \/ ProducerDecides \/ ProducerQuits \/ SetSubmitted \/ ReadThrough
         \/ BeginClose \/ UNCHANGED cacheVars
         \/ \E k \in Kinds, b \in 1 .. MaxHead : AskFor(k, b)
         \/ \E t \in Kinds \X (1 .. MaxHead) : Expire(t)
  PROVE  CacheInv'
<1>. USE DEF CacheInv
<1>1. UNCHANGED <<tasks, thread>> /\ (closing' = "ended" => closing = "ended")
  BY DEF Mint, ProducerDecides, ProducerQuits, SetSubmitted, ReadThrough, BeginClose,
     cacheVars, AskFor, Expire
<1>2. NoWorkerIsLeft'
  BY <1>1 DEF NoWorkerIsLeft
<1>3. CASE SetSubmitted
  <2>1. /\ reader.at = "asked" /\ reader' = [reader EXCEPT !.at = "lookup"]
        /\ UNCHANGED <<producer, cached, dropped>>
    BY <1>3 DEF SetSubmitted
  <2>2. reader.task \in Kinds \X (Nat \ {0}) /\ reader.task[2] \in Nat \ {0}
    BY <2>1 DEF CacheTypes
  <2>3. /\ reader' \in [at : {"idle", "asked", "lookup"}, task : Tasks]
        /\ reader'.task = reader.task
    BY <2>1 DEF CacheTypes
  <2>4. CASE submitted = NotSet
    <3>1. /\ submitted' = reader.task[2] - 1 /\ first' = reader.task[2]
          /\ submitted' \in Nat /\ first' \in Nat
      BY <1>3, <2>2, <2>4 DEF SetSubmitted
    <3>2. first' .. submitted' = {} /\ submitted' # NotSet
      BY <2>2, <3>1 DEF NotSet
    <3>3. NothingSkipped'
      BY <3>2 DEF NothingSkipped
    <3>. QED BY <1>1, <1>2, <2>1, <2>2, <2>3, <3>1, <3>2, <3>3 DEF CacheTypes
  <2>5. CASE submitted # NotSet
    <3>1. UNCHANGED <<submitted, first>>
      BY <1>3, <2>5 DEF SetSubmitted
    <3>2. NothingSkipped'
      BY <1>1, <2>1, <3>1, DataStay
    <3>. QED BY <1>1, <1>2, <2>1, <2>2, <2>3, <3>1, <3>2 DEF CacheTypes
  <2>. QED BY <2>4, <2>5
<1>4. CASE ~SetSubmitted
  <2>1. UNCHANGED <<submitted, first>> /\ cached \cup dropped \subseteq (cached \cup dropped)'
    BY <1>4 DEF Mint, ProducerDecides, ProducerQuits, ReadThrough, BeginClose, cacheVars,
       AskFor, Expire
  <2>2. NothingSkipped'
    BY <1>1, <2>1, DataStay
  <2>3. producer' = "put" => submitted # NotSet
    BY <1>4 DEF CacheTypes, Mint, ProducerDecides, ProducerQuits, ReadThrough, BeginClose,
       cacheVars, AskFor, Expire
  <2>4. \/ reader' = reader \/ reader' = Idling
        \/ \E k \in Kinds, b \in 1 .. MaxHead : reader' = [at |-> "asked", task |-> <<k, b>>]
    BY <1>4 DEF Mint, ProducerDecides, ProducerQuits, ReadThrough, BeginClose,
       cacheVars, AskFor, Expire
  <2>5. /\ reader'.at # "idle" => reader'.task \in Kinds \X (Nat \ {0})
        /\ reader' \in [at : {"idle", "asked", "lookup"}, task : Tasks]
    <3>1. CASE reader' = reader
      BY <3>1 DEF CacheTypes
    <3>2. CASE reader' = Idling
      BY <3>2 DEF Idling, Tasks
    <3>3. ASSUME NEW k \in Kinds, NEW b \in 1 .. MaxHead,
                 reader' = [at |-> "asked", task |-> <<k, b>>]
          PROVE  <2>5!1 /\ <2>5!2
      <4>1. <<k, b>> \in Kinds \X (Nat \ {0}) /\ <<k, b>> \in Tasks
        BY CacheAssumption DEF Tasks, Fetches
      <4>. QED BY <3>3, <4>1
    <3>. QED BY <2>4, <3>1, <3>2, <3>3
  <2>. QED BY <1>1, <1>2, <2>1, <2>2, <2>3, <2>5 DEF CacheTypes
<1>. QED BY <1>3, <1>4

\* The threads of a PrecachingSuperTensor are sound at every moment, whatever
\* their number, the blocks it reads ahead and the fetches that fail or expire:
\* close() leaves no worker in task_queue.get() without an end to take, and no
\* block between the first one asked for and highest_block_submitted is skipped.
THEOREM CacheThreadsAlwaysSound == CacheSpec => []CacheThreadsAreSound
<1>1. CacheInv /\ [CacheNext]_cacheVars => CacheInv'
  BY WorkerInv, ProducerPutsInv, PutEndsInv, OtherCacheInv DEF CacheNext
<1>2. CacheInv => CacheThreadsAreSound
  <2>. SUFFICES ASSUME CacheInv PROVE CacheThreadsAreSound
    OBVIOUS
  <2>1. PrefetchSkipsNoBlock
    BY DEF CacheInv, NothingSkipped, PrefetchSkipsNoBlock, Waiting
  <2>. QED BY <2>1 DEF CacheInv, CacheThreadsAreSound
<1>. QED BY InitCacheInv, <1>1, <1>2, PTL DEF CacheSpec

-----------------------------------------------------------------------------
(* Routing: bookings, busy counts and excuses *)

RoutePhases ==
  {"new", "picking", "trusted", "failed", "routed", "sent", "running", "finished", "excused",
   "rejected"}
RouteRecords ==
  [phase : RoutePhases, miner : RouteMiners \cup {NoMiner}, booked : {0, 1},
   order : Seq(RouteMiners), full : SUBSET RouteMiners, known : SUBSET RouteMiners,
   proof : SUBSET Requests]

RouteTypes ==
  /\ time \in Nat
  /\ manifests \in [RouteMiners -> Seq(Nat)]
  /\ allowed \in [RouteMiners -> Nat]
  /\ request \in [Requests -> RouteRecords]
  /\ started \in [Requests -> Nat \cup {Unset}]

\* A miner's first manifest stays, and every miner has one.
ManifestsAreThere == \A m \in RouteMiners : manifests[m] # <<>>

\* What a request holds goes with its phase: a booking from the reservation
\* until the miner declines, and a started receipt once it was sent.
HoldsWhatItShould(r) ==
  /\ request[r].phase \in {"routed", "sent", "running", "finished"} =>
       request[r].booked = 1 /\ request[r].miner \in RouteMiners
  /\ request[r].phase \in {"excused", "rejected"} =>
       request[r].booked = 0 /\ request[r].miner \in RouteMiners
  /\ request[r].phase \in {"new", "picking", "trusted"} => request[r].booked = 0
  /\ request[r].phase = "failed" /\ request[r].booked = 1 => request[r].miner \notin request[r].known
  /\ started[r] = Unset <=>
       request[r].phase \in {"new", "picking", "trusted", "failed", "routed"}
  /\ \A q \in request[r].proof : started[q] # Unset

BookedOn(m) == {r \in Of(m) : request[r].booked > 0}

BookingsAddUp ==
  \A m \in RouteMiners : allowed[m] + Cardinality(BookedOn(m)) = InitialAllowance

\* The other jobs of its miner that can excuse a request.
Before(r) ==
  {q \in Of(request[r].miner) \ {r} :
     /\ started[q] # Unset /\ started[q] < started[r]
     /\ started[r] < started[q] + StartTtl + ExcuseLeeway}

Earned(r) == Cardinality(Before(r)) >= Head(manifests[request[r].miner])

Fresh(r) ==
  ~(/\ request[r].proof # {}
    /\ Len(manifests[request[r].miner]) = 1
    /\ \A q \in request[r].proof : OverlapsStart(q, r))

RouteInv ==
  /\ RouteTypes /\ ManifestsAreThere /\ BookingsAddUp
  /\ \A r \in Requests : HoldsWhatItShould(r)
  /\ \A r \in Requests : request[r].phase = "excused" => Earned(r)
  /\ \A r \in Requests : request[r].phase = "rejected" => Fresh(r)

\* The invariant holds before anything happens.
LEMMA InitRouteInv == RouteInit => RouteInv
<1>. SUFFICES ASSUME RouteInit PROVE RouteInv
  OBVIOUS
<1>1. NewRequest \in RouteRecords
  BY DEF NewRequest, RouteRecords, RoutePhases
<1>2. \A r \in Requests : /\ request[r].phase = "new" /\ request[r].booked = 0
                          /\ request[r].proof = {} /\ started[r] = Unset
  BY DEF RouteInit, NewRequest
<1>3. manifests \in [RouteMiners -> Seq(Nat)] /\ ManifestsAreThere
  <2>1. \A n \in Announced : n \in Nat
    BY RoutingConstants
  <2>2. \A m \in RouteMiners : \E n \in Announced : manifests[m] = <<n>>
    BY DEF RouteInit
  <2>3. \A m \in RouteMiners : manifests[m] \in Seq(Nat) /\ manifests[m] # <<>>
    <3>. SUFFICES ASSUME NEW m \in RouteMiners PROVE manifests[m] \in Seq(Nat) /\ manifests[m] # <<>>
      OBVIOUS
    <3>1. PICK n \in Nat : manifests[m] = <<n>>
      BY <2>1, <2>2
    <3>. QED BY <3>1
  <2>4. manifests = [m \in RouteMiners |-> manifests[m]]
    BY DEF RouteInit
  <2>. QED BY <2>3, <2>4 DEF ManifestsAreThere
<1>4. InitialAllowance \in Nat
  BY RoutingConstants
<1>5. RouteTypes
  BY <1>1, <1>3, <1>4 DEF RouteInit, RouteTypes, Unset
<1>6. BookingsAddUp
  <2>1. \A m : BookedOn(m) = {}
    BY <1>2 DEF BookedOn, Of
  <2>2. \A m \in RouteMiners : allowed[m] = InitialAllowance
    BY DEF RouteInit
  <2>. QED BY <1>4, <2>1, <2>2, FS_EmptySet DEF BookingsAddUp
<1>7. \A r \in Requests : HoldsWhatItShould(r)
  BY <1>2 DEF HoldsWhatItShould
<1>. QED BY <1>2, <1>3, <1>5, <1>6, <1>7 DEF RouteInv

\* Nothing that can excuse a request is lost: what was started stays started,
\* at its miner, and manifests are only added.
LEMMA ExcusesStay ==
  ASSUME RouteInv, NEW r \in Requests, request[r].phase \in {"excused", "rejected"},
         request'[r] = request[r],
         \A q \in Requests : started[q] # Unset =>
             started'[q] = started[q] /\ request'[q].miner = request[q].miner,
         \A m \in RouteMiners : Head(manifests'[m]) = Head(manifests[m])
                                /\ Len(manifests'[m]) >= Len(manifests[m]),
         RouteTypes'
  PROVE  (Earned(r) => Earned(r)') /\ (Fresh(r) => Fresh(r)')
<1>1. started[r] # Unset /\ request[r].miner \in RouteMiners
  BY DEF RouteInv, HoldsWhatItShould
<1>2. started'[r] = started[r]
  BY <1>1
<1>3. Earned(r) => Earned(r)'
  <2>1. Before(r) \subseteq Before(r)'
    BY <1>2 DEF Before, Of
  <2>2. Before(r)' \subseteq Requests /\ IsFiniteSet(Requests)
    BY RoutingConstants DEF Before, Of
  <2>3. IsFiniteSet(Before(r)')
    BY <2>2, FS_Subset
  <2>4. Cardinality(Before(r)) <= Cardinality(Before(r)') /\ Cardinality(Before(r)') \in Nat
        /\ Cardinality(Before(r)) \in Nat
    BY <2>1, <2>3, FS_Subset, FS_CardinalityType
  <2>5. Head(manifests[request[r].miner]) \in Nat
    BY <1>1, SMTT(60) DEF RouteInv, RouteTypes, ManifestsAreThere
  <2>6. Head(manifests[request[r].miner])' = Head(manifests[request[r].miner])
    BY <1>1
  <2>. QED BY <2>4, <2>5, <2>6 DEF Earned
<1>4. Fresh(r) => Fresh(r)'
  <2>1. \A q \in request[r].proof : started'[q] = started[q]
    <3>1. \A q \in request[r].proof : q \in Requests /\ started[q] # Unset
      BY DEF RouteInv, RouteTypes, RouteRecords, HoldsWhatItShould
    <3>. QED BY <3>1
  <2>2. PICK m \in RouteMiners : m = request[r].miner
    BY <1>1
  <2>3. Len(manifests'[m]) = 1 => Len(manifests[m]) = 1
    <3>1. manifests[m] \in Seq(Nat) /\ manifests[m] # <<>> /\ manifests'[m] \in Seq(Nat)
      BY DEF RouteInv, RouteTypes, ManifestsAreThere
    <3>2. Len(manifests[m]) \in Nat /\ Len(manifests[m]) # 0 /\ Len(manifests'[m]) \in Nat
      BY <3>1
    <3>3. PICK a, b \in Nat : a = Len(manifests[m]) /\ b = Len(manifests'[m])
      BY <3>2
    <3>4. b >= a
      BY <2>2, <3>3
    <3>5. a # 0
      BY <3>2, <3>3
    <3>6. b = 1 => a = 1
      BY <3>4, <3>5
    <3>. QED BY <3>3, <3>6
  <2>. QED BY <1>2, <2>1, <2>2, <2>3 DEF Fresh, OverlapsStart
<1>. QED BY <1>3, <1>4

\* A request changes: the others hold what they did.
LEMMA OneRequestMoves ==
  ASSUME RouteInv, NEW r \in Requests, NEW x \in RouteRecords,
         request' = [request EXCEPT ![r] = x], UNCHANGED <<time, manifests>>,
         started' \in [Requests -> Nat \cup {Unset}], allowed' \in [RouteMiners -> Nat],
         \A q \in Requests : q # r => started'[q] = started[q],
         started[r] # Unset => started'[r] = started[r] /\ x.miner = request[r].miner,
         HoldsWhatItShould(r)', BookingsAddUp',
         x.phase = "excused" => Earned(r)', x.phase = "rejected" => Fresh(r)'
  PROVE  RouteInv'
<1>1. /\ request' \in [Requests -> RouteRecords] /\ request'[r] = x
      /\ \A q \in Requests : q # r => request'[q] = request[q]
  <2>1. request \in [Requests -> RouteRecords]
    BY DEF RouteInv, RouteTypes
  <2>. QED BY <2>1
<1>2. RouteTypes' /\ ManifestsAreThere'
  BY <1>1 DEF RouteInv, RouteTypes, ManifestsAreThere
<1>3. \A q \in Requests : started[q] # Unset =>
        started'[q] = started[q] /\ request'[q].miner = request[q].miner
  BY <1>1
<1>4. ASSUME NEW q \in Requests PROVE HoldsWhatItShould(q)'
  <2>1. CASE q = r
    BY <2>1
  <2>2. CASE q # r
    <3>1. request'[q] = request[q] /\ started'[q] = started[q]
      BY <1>1, <2>2
    <3>2. HoldsWhatItShould(q)
      BY DEF RouteInv
    <3>3. \A p \in request[q].proof : p \in Requests
      BY DEF RouteInv, RouteTypes, RouteRecords
    <3>4. \A p \in request[q].proof : started'[p] # Unset
      BY <1>3, <3>2, <3>3 DEF HoldsWhatItShould
    <3>. QED BY <3>1, <3>2, <3>4 DEF HoldsWhatItShould
  <2>. QED BY <2>1, <2>2
<1>5. ASSUME NEW q \in Requests
      PROVE  /\ request'[q].phase = "excused" => Earned(q)'
             /\ request'[q].phase = "rejected" => Fresh(q)'
  <2>1. CASE q = r
    BY <1>1, <2>1
  <2>2. CASE q # r
    <3>1. request'[q] = request[q]
      BY <1>1, <2>2
    <3>2. /\ request[q].phase = "excused" => Earned(q)
          /\ request[q].phase = "rejected" => Fresh(q)
      BY DEF RouteInv
    <3>3. \A m \in RouteMiners : Head(manifests'[m]) = Head(manifests[m])
                                 /\ Len(manifests'[m]) >= Len(manifests[m])
      BY DEF RouteInv, RouteTypes
    <3>4. CASE request[q].phase \in {"excused", "rejected"}
      <4>1. (Earned(q) => Earned(q)') /\ (Fresh(q) => Fresh(q)')
        BY <1>2, <1>3, <3>1, <3>3, <3>4, ExcusesStay
      <4>. QED BY <3>1, <3>2, <4>1
    <3>. QED BY <3>1, <3>4
  <2>. QED BY <2>1, <2>2
<1>. QED BY <1>2, <1>4, <1>5 DEF RouteInv

\* The bookings add up as long as no booking is made or undone.
LEMMA BookingsStay ==
  ASSUME RouteInv, NEW r \in Requests, NEW x \in RouteRecords,
         request' = [request EXCEPT ![r] = x], allowed' = allowed,
         x.booked = request[r].booked, x.miner = request[r].miner
  PROVE  BookingsAddUp'
<1>1. request \in [Requests -> RouteRecords]
  BY DEF RouteInv, RouteTypes
<1>2. \A q \in Requests : /\ request'[q].booked = request[q].booked
                          /\ request'[q].miner = request[q].miner
  BY <1>1
<1>3. \A m : BookedOn(m)' = BookedOn(m)
  BY <1>2 DEF BookedOn, Of
<1>. QED BY <1>3 DEF RouteInv, BookingsAddUp

\* What a request's record becomes when its phase changes.
LEMMA EndRecord ==
  ASSUME RouteInv, NEW r \in Requests, NEW p \in RoutePhases, End(r, p)
  PROVE  \E x \in RouteRecords :
           /\ request' = [request EXCEPT ![r] = x] /\ x.phase = p
           /\ x.booked = request[r].booked /\ x.miner = request[r].miner
           /\ x.known = request[r].known /\ x.proof = request[r].proof
<1>1. request[r] \in RouteRecords
  BY DEF RouteInv, RouteTypes
<1>2. PICK x : x = [request[r] EXCEPT !.phase = p]
  OBVIOUS
<1>3. /\ x \in RouteRecords /\ x.phase = p /\ x.booked = request[r].booked
      /\ x.miner = request[r].miner /\ x.known = request[r].known /\ x.proof = request[r].proof
  BY <1>1, <1>2 DEF RouteRecords
<1>4. request' = [request EXCEPT ![r] = x]
  BY <1>2 DEF End
<1>. QED BY <1>3, <1>4

\* A request ends, is sent, is accepted or finishes: only its phase changes, and
\* its started receipt is written when it is sent.
LEMMA PhaseMoves ==
  ASSUME RouteInv, NEW r \in Requests, NEW p \in RoutePhases, End(r, p),
         UNCHANGED <<time, manifests, allowed>>,
         \/ request[r].phase \in {"new", "picking"} /\ p \in {"trusted", "failed"}
            /\ UNCHANGED started
         \/ request[r].phase = "routed" /\ p = "sent" /\ started' = [started EXCEPT ![r] = time]
         \/ request[r].phase = "sent" /\ p = "running" /\ UNCHANGED started
         \/ request[r].phase = "running" /\ p = "finished" /\ UNCHANGED started
  PROVE  RouteInv'
<1>1. PICK x \in RouteRecords :
           /\ request' = [request EXCEPT ![r] = x] /\ x.phase = p
           /\ x.booked = request[r].booked /\ x.miner = request[r].miner
           /\ x.known = request[r].known /\ x.proof = request[r].proof
  BY EndRecord
<1>2. started \in [Requests -> Nat \cup {Unset}] /\ time \in Nat /\ allowed \in [RouteMiners -> Nat]
      /\ request \in [Requests -> RouteRecords] /\ Unset \notin Nat
  BY DEF RouteInv, RouteTypes, Unset
<1>3. HoldsWhatItShould(r)
  BY DEF RouteInv
<1>4. /\ started' \in [Requests -> Nat \cup {Unset}]
      /\ \A q \in Requests : q # r => started'[q] = started[q]
      /\ started[r] # Unset => started'[r] = started[r]
      /\ p = "sent" => started'[r] # Unset
      /\ p # "sent" => started'[r] = started[r]
  BY <1>2, <1>3 DEF HoldsWhatItShould
<1>5. request'[r] = x
  BY <1>1, <1>2
<1>6. \A q \in x.proof : started'[q] # Unset
  <2>1. \A q \in x.proof : q \in Requests /\ started[q] # Unset
    BY <1>1, <1>3 DEF HoldsWhatItShould, RouteRecords
  <2>. QED BY <1>4, <2>1
<1>7. HoldsWhatItShould(r)'
  BY <1>1, <1>3, <1>4, <1>5, <1>6 DEF HoldsWhatItShould
<1>8. BookingsAddUp'
  BY <1>1, BookingsStay
<1>9. x.phase \notin {"excused", "rejected"}
  BY <1>1
<1>10. allowed' \in [RouteMiners -> Nat]
  BY <1>2
<1>. QED BY <1>1, <1>4, <1>7, <1>8, <1>9, <1>10, OneRequestMoves

\* Nobody is reserved yet: the request fails, or its candidates are read.
LEMMA PickMinerInv ==
  ASSUME RouteInv, NEW r \in Requests, PickMiner(r)
  PROVE  RouteInv'
<1>1. request[r].phase = "new" /\ UNCHANGED <<time, manifests, allowed, started>>
  BY DEF PickMiner
<1>2. CASE End(r, "failed")
  <2>1. PICK p \in RoutePhases : p = "failed"
    BY DEF RoutePhases
  <2>. QED BY <1>1, <1>2, <2>1, PhaseMoves
<1>3. ASSUME NEW eligible \in SUBSET MinersWithAllowance, NEW known \in SUBSET RouteMiners,
             NEW order \in Orders(eligible),
             request' = [request EXCEPT ![r] = [@ EXCEPT
                     !.phase = "picking", !.order = order, !.full = FullMiners,
                     !.known = known]]
      PROVE  RouteInv'
  <2>1. request[r] \in RouteRecords /\ request \in [Requests -> RouteRecords]
    BY DEF RouteInv, RouteTypes
  <2>2. order \in Seq(RouteMiners)
    <3>1. eligible \subseteq RouteMiners
      BY DEF MinersWithAllowance
    <3>2. IsFiniteSet(eligible)
      BY <3>1, RoutingConstants, FS_Subset
    <3>3. Cardinality(eligible) \in Nat
      BY <3>2, FS_CardinalityType
    <3>4. order \in [1 .. Cardinality(eligible) -> RouteMiners]
      BY <3>1 DEF Orders, SetToSeqs
    <3>. QED BY <3>3, <3>4
  <2>3. PICK full \in SUBSET RouteMiners : full = FullMiners
    BY DEF FullMiners
  <2>4. PICK x : x = [request[r] EXCEPT !.phase = "picking", !.order = order, !.full = full,
                                        !.known = known]
    OBVIOUS
  <2>5. x = [phase |-> "picking", miner |-> request[r].miner, booked |-> request[r].booked,
             order |-> order, full |-> full, known |-> known, proof |-> request[r].proof]
    BY <2>1, <2>4 DEF RouteRecords
  <2>6. /\ x \in RouteRecords /\ x.phase = "picking" /\ x.booked = request[r].booked
        /\ x.miner = request[r].miner /\ x.proof = request[r].proof
    BY <2>1, <2>2, <2>5 DEF RouteRecords, RoutePhases
  <2>7. request' = [request EXCEPT ![r] = x] /\ request'[r] = x
    BY <1>3, <2>1, <2>3, <2>4
  <2>8. HoldsWhatItShould(r)
    BY DEF RouteInv
  <2>9. HoldsWhatItShould(r)'
    BY <1>1, <2>6, <2>7, <2>8 DEF HoldsWhatItShould
  <2>10. BookingsAddUp'
    BY <1>1, <2>6, <2>7, BookingsStay
  <2>11. started' \in [Requests -> Nat \cup {Unset}] /\ allowed' \in [RouteMiners -> Nat]
    BY <1>1 DEF RouteInv, RouteTypes
  <2>. QED BY <1>1, <2>6, <2>7, <2>9, <2>10, <2>11, OneRequestMoves
<1>. QED BY <1>2, <1>3 DEF PickMiner

\* A miner is skipped, or is reserved and then looked up.
LEMMA TryMinerInv ==
  ASSUME RouteInv, NEW r \in Requests, TryMiner(r)
  PROVE  RouteInv'
<1> DEFINE head == Head(request[r].order)
           tail == Tail(request[r].order)
           shorter == [request[r] EXCEPT !.order = Tail(@)]
<1>1. /\ request[r].phase = "picking" /\ request[r].order # <<>>
      /\ UNCHANGED <<time, manifests, started>>
  BY DEF TryMiner
<1>2. request[r] \in RouteRecords /\ request \in [Requests -> RouteRecords]
      /\ allowed \in [RouteMiners -> Nat] /\ started \in [Requests -> Nat \cup {Unset}]
  BY DEF RouteInv, RouteTypes
<1>3. PICK t \in Seq(RouteMiners) : t = tail
  <2>1. request[r].order \in Seq(RouteMiners)
    BY <1>2 DEF RouteRecords
  <2>2. PICK s \in Seq(RouteMiners) : s = request[r].order
    BY <2>1
  <2>3. s # <<>>
    BY <1>1, <2>2
  <2>4. Tail(s) \in Seq(RouteMiners)
    BY <2>3, HeadTailProperties
  <2>. QED BY <2>2, <2>4
<1>4. PICK m \in RouteMiners : m = head
  BY <1>1, <1>2 DEF RouteRecords
<1>5. PICK y : y = shorter
  OBVIOUS
<1>6. /\ y \in RouteRecords /\ y.phase = "picking" /\ y.booked = request[r].booked
      /\ y.miner = request[r].miner /\ y.proof = request[r].proof /\ y.known = request[r].known
  <2>1. y = [request[r] EXCEPT !.order = t]
    BY <1>3, <1>5
  <2>. QED BY <1>1, <1>2, <2>1 DEF RouteRecords
<1>7. \/ request' = [request EXCEPT ![r] = y] /\ allowed' = allowed
      \/ /\ allowed[m] # 0 /\ allowed' = [allowed EXCEPT ![m] = @ - 1]
         /\ request' = [request EXCEPT ![r] =
              [y EXCEPT !.phase = IF m \in request[r].known THEN "routed" ELSE "failed",
                        !.miner = m, !.booked = @ + 1]]
  BY <1>4, <1>5 DEF TryMiner
<1>8. HoldsWhatItShould(r) /\ request[r].booked = 0 /\ started[r] = Unset
  BY <1>1 DEF RouteInv, HoldsWhatItShould
<1>. HIDE DEF head, tail, shorter
<1>9. CASE request' = [request EXCEPT ![r] = y] /\ allowed' = allowed
  <2>1. request'[r] = y
    BY <1>2, <1>9
  <2>2. HoldsWhatItShould(r)'
    BY <1>1, <1>6, <1>8, <2>1 DEF HoldsWhatItShould
  <2>3. BookingsAddUp'
    BY <1>6, <1>9, BookingsStay
  <2>4. started' \in [Requests -> Nat \cup {Unset}] /\ allowed' \in [RouteMiners -> Nat]
        /\ \A q \in Requests : q # r => started'[q] = started[q]
    BY <1>1, <1>2, <1>9
  <2>. QED BY <1>1, <1>6, <1>8, <1>9, <2>2, <2>3, <2>4, OneRequestMoves
<1>10. CASE /\ allowed[m] # 0 /\ allowed' = [allowed EXCEPT ![m] = @ - 1]
            /\ request' = [request EXCEPT ![r] =
                 [y EXCEPT !.phase = IF m \in request[r].known THEN "routed" ELSE "failed",
                           !.miner = m, !.booked = @ + 1]]
  <2>1. PICK p : p = IF m \in request[r].known THEN "routed" ELSE "failed"
    OBVIOUS
  <2>2. p \in {"routed", "failed"} /\ (p = "failed" => m \notin request[r].known)
    BY <2>1
  <2>3. PICK x : x = [y EXCEPT !.phase = p, !.miner = m, !.booked = @ + 1]
    OBVIOUS
  <2>4. x = [phase |-> p, miner |-> m, booked |-> y.booked + 1, order |-> y.order,
             full |-> y.full, known |-> y.known, proof |-> y.proof]
    BY <1>6, <2>3 DEF RouteRecords
  <2>5. y.booked + 1 = 1
    BY <1>6, <1>8
  <2>6. /\ x \in RouteRecords /\ x.phase = p /\ x.booked = 1 /\ x.miner = m
        /\ x.proof = request[r].proof /\ x.known = request[r].known
    BY <1>6, <2>2, <2>4, <2>5 DEF RouteRecords, RoutePhases
  <2>7. request' = [request EXCEPT ![r] = x] /\ request'[r] = x
        /\ \A q \in Requests : q # r => request'[q] = request[q]
    BY <1>2, <1>10, <2>1, <2>3
  <2>8. /\ allowed' \in [RouteMiners -> Nat] /\ allowed'[m] = allowed[m] - 1
        /\ \A n \in RouteMiners : n # m => allowed'[n] = allowed[n]
    BY <1>2, <1>10
  <2>9. HoldsWhatItShould(r)'
    BY <1>1, <1>8, <2>2, <2>6, <2>7 DEF HoldsWhatItShould
  <2>10. BookingsAddUp'
    <3>1. r \notin BookedOn(m) /\ \A n \in RouteMiners : n # m => BookedOn(n)' = BookedOn(n)
      BY <1>8, <2>6, <2>7 DEF BookedOn, Of
    <3>2. BookedOn(m)' = BookedOn(m) \cup {r}
      BY <2>6, <2>7 DEF BookedOn, Of
    <3>3. IsFiniteSet(BookedOn(m))
      <4>1. BookedOn(m) \subseteq Requests /\ IsFiniteSet(Requests)
        BY RoutingConstants DEF BookedOn, Of
      <4>. QED BY <4>1, FS_Subset
    <3>4. Cardinality(BookedOn(m) \cup {r}) = Cardinality(BookedOn(m)) + 1
          /\ Cardinality(BookedOn(m)) \in Nat
      BY <3>1, <3>3, FS_AddElement, FS_CardinalityType
    <3>5. allowed[m] + Cardinality(BookedOn(m)) = InitialAllowance /\ allowed[m] \in Nat
      BY <1>2 DEF RouteInv, BookingsAddUp
    <3>6. allowed'[m] + Cardinality(BookedOn(m)') = InitialAllowance
      <4>1. PICK a, k \in Nat : a = allowed[m] /\ k = Cardinality(BookedOn(m))
        BY <3>4, <3>5
      <4>2. allowed'[m] = a - 1 /\ Cardinality(BookedOn(m)') = k + 1 /\ a + k = InitialAllowance
        BY <2>8, <3>2, <3>4, <3>5, <4>1
      <4>3. (a - 1) + (k + 1) = a + k
        OBVIOUS
      <4>. QED BY <4>2, <4>3
    <3>7. ASSUME NEW n \in RouteMiners
          PROVE  allowed'[n] + Cardinality(BookedOn(n)') = InitialAllowance
      <4>1. CASE n = m
        BY <3>6, <4>1
      <4>2. CASE n # m
        BY <2>8, <3>1, <4>2 DEF RouteInv, BookingsAddUp
      <4>. QED BY <4>1, <4>2
    <3>. QED BY <3>7 DEF BookingsAddUp
  <2>11. started' \in [Requests -> Nat \cup {Unset}] /\ x.phase \notin {"excused", "rejected"}
         /\ \A q \in Requests : q # r => started'[q] = started[q]
    BY <1>1, <1>2, <2>2, <2>6
  <2>12. request' = [request EXCEPT ![r] = x]
    BY <2>7
  <2>. QED BY <1>1, <1>8, <2>6, <2>8, <2>9, <2>10, <2>11, <2>12, OneRequestMoves
<1>. QED BY <1>7, <1>9, <1>10

\* A manifest is added, or time passes.
LEMMA AnnounceInv ==
  ASSUME RouteInv, (\E m \in RouteMiners : Announce(m)) \/ PassTime
  PROVE  RouteInv'
<1>1. UNCHANGED <<allowed, request, started>> /\ time' \in Nat
  BY DEF Announce, PassTime, RouteInv, RouteTypes
<1>2. manifests \in [RouteMiners -> Seq(Nat)]
  BY DEF RouteInv, RouteTypes
<1>3. /\ manifests' \in [RouteMiners -> Seq(Nat)]
      /\ \A n \in RouteMiners : /\ manifests'[n] # <<>> /\ Head(manifests'[n]) = Head(manifests[n])
                                /\ Len(manifests'[n]) >= Len(manifests[n])
  <2>1. CASE PassTime
    BY <1>2, <2>1 DEF PassTime, RouteInv, ManifestsAreThere
  <2>2. ASSUME NEW m \in RouteMiners, Announce(m) PROVE <1>3!1 /\ <1>3!2
    <3>1. PICK n \in Nat : manifests' = [manifests EXCEPT ![m] = Append(@, n)]
      BY <2>2, RoutingConstants DEF Announce
    <3>2. PICK s \in Seq(Nat) : s = manifests[m] /\ s # <<>>
      BY <1>2 DEF RouteInv, ManifestsAreThere
    <3>3. /\ Append(s, n) \in Seq(Nat) /\ Append(s, n) # <<>> /\ Head(Append(s, n)) = Head(s)
          /\ Len(Append(s, n)) >= Len(s)
      BY <3>2
    <3>4. \A k \in RouteMiners : manifests'[k] = IF k = m THEN Append(s, n) ELSE manifests[k]
      BY <1>2, <3>1, <3>2
    <3>5. manifests' \in [RouteMiners -> Seq(Nat)]
      BY <1>2, <3>1, <3>2, <3>3
    <3>6. \A k \in RouteMiners : manifests[k] # <<>> /\ Len(manifests[k]) \in Nat
      BY <1>2 DEF RouteInv, ManifestsAreThere
    <3>7. \A k \in RouteMiners : Len(manifests[k]) >= Len(manifests[k])
      BY <3>6
    <3>. QED BY <3>2, <3>3, <3>4, <3>5, <3>6, <3>7
  <2>. QED BY <2>1, <2>2
<1>4. RouteTypes' /\ ManifestsAreThere'
  BY <1>1, <1>3 DEF RouteInv, RouteTypes, ManifestsAreThere
<1>5. BookingsAddUp' /\ \A r \in Requests : HoldsWhatItShould(r)'
  BY <1>1 DEF RouteInv, BookingsAddUp, BookedOn, Of, HoldsWhatItShould
<1>6. \A r \in Requests : request'[r] = request[r]
  BY <1>1
<1>7. ASSUME NEW r \in Requests, request[r].phase \in {"excused", "rejected"}
      PROVE  (Earned(r) => Earned(r)') /\ (Fresh(r) => Fresh(r)')
  <2>1. \A q \in Requests : started[q] # Unset =>
             started'[q] = started[q] /\ request'[q].miner = request[q].miner
    BY <1>1
  <2>2. \A n \in RouteMiners : /\ Head(manifests'[n]) = Head(manifests[n])
                               /\ Len(manifests'[n]) >= Len(manifests[n])
    BY <1>3
  <2>3. request'[r] = request[r]
    BY <1>1
  <2>. QED BY <1>4, <1>7, <2>1, <2>2, <2>3, ExcusesStay
<1>8. ASSUME NEW r \in Requests
      PROVE  /\ request'[r].phase = "excused" => Earned(r)'
             /\ request'[r].phase = "rejected" => Fresh(r)'
  BY <1>6, <1>7 DEF RouteInv
<1>. QED BY <1>4, <1>5, <1>8 DEF RouteInv

\* A list of receipts: each is of a request that was sent, at the miner it was
\* sent to.
RealReceipts(shown) ==
  \E n \in Nat :
    /\ DOMAIN shown = 1 .. n
    /\ \A i \in 1 .. n : /\ shown[i].job \in Requests
                         /\ started[shown[i].job] # Unset
                         /\ shown[i].miner = request[shown[i].job].miner
                         /\ shown[i].at = started[shown[i].job]

\* Whatever a miner sends is such a list.
LEMMA ReceiptsAreReal ==
  ASSUME NEW r \in Requests,
         NEW shown \in SetToSeqs(HonestExcuse(r)) \cup SeqOf(AnyReceipts, MaxReceipts)
  PROVE  RealReceipts(shown)
<1>1. \A e \in AnyReceipts \cup HonestExcuse(r) :
        /\ e.job \in Requests /\ started[e.job] # Unset
        /\ e.miner = request[e.job].miner /\ e.at = started[e.job]
  BY DEF AnyReceipts, HonestExcuse, StartValidAt, Of
<1>2. CASE shown \in SeqOf(AnyReceipts, MaxReceipts)
  <2>1. PICK n \in 0 .. MaxReceipts : shown \in [1 .. n -> AnyReceipts]
    BY <1>2 DEF SeqOf
  <2>2. n \in Nat
    BY <2>1, RoutingConstants
  <2>. QED BY <1>1, <2>1, <2>2 DEF RealReceipts
<1>3. CASE shown \in SetToSeqs(HonestExcuse(r))
  <2> DEFINE X == {x \in Of(request[r].miner) \ {r} : StartValidAt(x, started[r])}
             f == [q \in X |-> [job |-> q, miner |-> request[q].miner, trusted |-> TRUE,
                                at |-> started[q]]]
  <2>1. IsFiniteSet(X)
    <3>1. X \subseteq Requests /\ IsFiniteSet(Requests)
      BY RoutingConstants DEF Of
    <3>. HIDE DEF X
    <3>. QED BY <3>1, FS_Subset
  <2>2. f \in Surjection(X, HonestExcuse(r))
    BY DEF Surjection, HonestExcuse
  <2>. HIDE DEF X, f
  <2>3. IsFiniteSet(HonestExcuse(r))
    BY <2>1, <2>2, FS_Surjection
  <2>4. Cardinality(HonestExcuse(r)) \in Nat
    BY <2>3, FS_CardinalityType
  <2>5. shown \in [1 .. Cardinality(HonestExcuse(r)) -> HonestExcuse(r)]
    BY <1>3 DEF SetToSeqs
  <2>. QED BY <1>1, <2>4, <2>5 DEF RealReceipts
<1>. QED BY <1>2, <1>3

Excuses(r, shown) == {i \in DOMAIN shown : IsExcuse(r, shown, i)}

\* There are at most as many excuses as jobs that can excuse the request: each
\* counts once.
LEMMA ExcusesAreFew ==
  ASSUME NEW r \in Requests, NEW shown, RealReceipts(shown)
  PROVE  /\ Cardinality(Excuses(r, shown)) <= Cardinality(Before(r))
         /\ Cardinality(Excuses(r, shown)) \in Nat /\ Cardinality(Before(r)) \in Nat
         /\ IsFiniteSet(Excuses(r, shown))
<1> DEFINE E == Excuses(r, shown)
           f == [i \in E |-> shown[i].job]
<1>1. PICK n \in Nat :
        /\ DOMAIN shown = 1 .. n
        /\ \A i \in 1 .. n : /\ shown[i].job \in Requests
                             /\ started[shown[i].job] # Unset
                             /\ shown[i].miner = request[shown[i].job].miner
                             /\ shown[i].at = started[shown[i].job]
  BY DEF RealReceipts
<1>2. \A i \in E : shown[i].job \in Before(r)
  BY <1>1 DEF Excuses, IsExcuse, Before, Of
<1>3. ASSUME NEW i \in E, NEW j \in E, shown[i].job = shown[j].job, i < j PROVE FALSE
  <2>1. i \in 1 .. j - 1
    BY <1>1, <1>3 DEF Excuses
  <2>2. shown[i].trusted /\ ~shown[i].trusted
    BY <1>3, <2>1 DEF Excuses, IsExcuse
  <2>. QED BY <2>2
<1>4. \A i \in E, j \in E : shown[i].job = shown[j].job => i = j
  <2>1. \A i \in E : i \in Nat
    BY <1>1 DEF Excuses
  <2>2. \A i \in E, j \in E : i < j \/ j < i \/ i = j
    BY <2>1
  <2>. QED BY <1>3, <2>2
<1>. HIDE DEF E
<1>5. f \in Injection(E, Before(r))
  BY <1>2, <1>4 DEF Injection, IsInjective
<1>6. IsFiniteSet(Before(r))
  <2>1. Before(r) \subseteq Requests /\ IsFiniteSet(Requests)
    BY RoutingConstants DEF Before, Of
  <2>. QED BY <2>1, FS_Subset
<1>. HIDE DEF f
<1>7. IsFiniteSet(E) /\ Cardinality(E) <= Cardinality(Before(r))
  BY <1>5, <1>6, FS_Injection
<1>8. Cardinality(E) \in Nat /\ Cardinality(Before(r)) \in Nat
  BY <1>6, <1>7, FS_CardinalityType
<1>. QED BY <1>7, <1>8 DEF E

\* A miner that shows all its valid receipts has an excuse for every job it runs
\* that was requested before and within the life of a started receipt.
LEMMA FullMinersHaveExcuses ==
  ASSUME RouteInv, NEW r \in Requests, request[r].phase = "sent",
         NEW shown, RealReceipts(shown), ToSet(shown) = HonestExcuse(r),
         \A q \in RunningOn(request[r].miner) : OverlapsStart(q, r)
  PROVE  Cardinality(RunningOn(request[r].miner)) <= Cardinality(Excuses(r, shown))
<1> DEFINE R == RunningOn(request[r].miner)
           at(q) == {i \in DOMAIN shown : shown[i].job = q}
           f == [q \in R |-> Min(at(q))]
<1>1. PICK n \in Nat : DOMAIN shown = 1 .. n
  BY DEF RealReceipts
<1>2. \A q \in R : /\ q \in Requests /\ q # r /\ request[q].miner = request[r].miner
                   /\ started[q] # Unset /\ started[q] \in Nat
  BY DEF RunningOn, InPhase, RouteInv, RouteTypes, HoldsWhatItShould
<1>3. started[r] \in Nat /\ StartTtl \in Nat /\ ExcuseLeeway \in Nat /\ ExcuseLeeway > 0
  BY RoutingConstants DEF RouteInv, RouteTypes, HoldsWhatItShould
<1>4. ASSUME NEW q \in R
      PROVE  [job |-> q, miner |-> request[q].miner, trusted |-> TRUE, at |-> started[q]]
               \in HonestExcuse(r)
  <2>1. StartValidAt(q, started[r])
    <3>1. started[q] < started[r] /\ started[r] <= started[q] + StartTtl
      BY DEF OverlapsStart
    <3>. QED BY <1>2, <1>3, <3>1 DEF StartValidAt
  <2>2. q \in Of(request[r].miner) \ {r}
    BY <1>2 DEF Of
  <2>. QED BY <2>1, <2>2 DEF HonestExcuse
<1>5. ASSUME NEW q \in R PROVE Min(at(q)) \in at(q) /\ \A y \in at(q) : Min(at(q)) <= y
  <2>1. PICK i \in DOMAIN shown :
          shown[i] = [job |-> q, miner |-> request[q].miner, trusted |-> TRUE, at |-> started[q]]
    BY <1>4 DEF ToSet
  <2>2. at(q) \subseteq Nat /\ at(q) # {}
    BY <1>1, <2>1
  <2>. HIDE DEF at
  <2>. QED BY <2>2, NatMin
<1>6. ASSUME NEW i \in DOMAIN shown
      PROVE  /\ shown[i].trusted = TRUE /\ shown[i].miner = request[r].miner
             /\ shown[i].job # r /\ shown[i].at = started[shown[i].job]
  <2>1. shown[i] \in HonestExcuse(r)
    BY DEF ToSet
  <2>. QED BY <2>1 DEF HonestExcuse, Of
<1>7. ASSUME NEW q \in R PROVE f[q] \in Excuses(r, shown) /\ shown[f[q]].job = q
  <2>1. PICK i \in DOMAIN shown : i = f[q] /\ shown[i].job = q
    BY <1>5
  <2>2. \A j \in 1 .. i - 1 : shown[j].job # q
    <3>. SUFFICES ASSUME NEW j \in 1 .. i - 1, shown[j].job = q PROVE FALSE
      OBVIOUS
    <3>1. j \in 1 .. n /\ j < i
      BY <1>1, <2>1
    <3>2. i <= j
      BY <1>1, <1>5, <2>1, <3>1
    <3>. QED BY <1>1, <3>1, <3>2
  <2>3. started[q] < started[r] /\ started[r] < started[q] + StartTtl + ExcuseLeeway
    <3>1. started[q] < started[r] /\ started[r] <= started[q] + StartTtl
      BY DEF OverlapsStart
    <3>. QED BY <1>2, <1>3, <3>1
  <2>4. IsExcuse(r, shown, i)
    BY <1>6, <2>1, <2>2, <2>3 DEF IsExcuse
  <2>. QED BY <2>1, <2>4 DEF Excuses
<1>. HIDE DEF R
<1>8. f \in Injection(R, Excuses(r, shown))
  <2>1. f \in [R -> Excuses(r, shown)]
    BY <1>7
  <2>2. \A a \in R, b \in R : f[a] = f[b] => a = b
    BY <1>7
  <2>3. DOMAIN f = R
    OBVIOUS
  <2>. HIDE DEF f
  <2>. QED BY <2>1, <2>2, <2>3 DEF Injection, IsInjective
<1>. HIDE DEF f
<1>9. IsFiniteSet(Excuses(r, shown))
  BY ExcusesAreFew
<1>10. Cardinality(R) <= Cardinality(Excuses(r, shown))
  BY <1>8, <1>9, FS_Injection
<1>. QED BY <1>10 DEF R

\* A miner declines: the booking is undone, and the excuse is weighed.
LEMMA MinerDeclinesInv ==
  ASSUME RouteInv, NEW r \in Requests, MinerDeclines(r)
  PROVE  RouteInv'
<1>1. request[r].phase = "sent" /\ UNCHANGED <<time, manifests, started>>
  BY DEF MinerDeclines
<1>2. /\ request[r] \in RouteRecords /\ request \in [Requests -> RouteRecords]
      /\ allowed \in [RouteMiners -> Nat] /\ started \in [Requests -> Nat \cup {Unset}]
      /\ manifests \in [RouteMiners -> Seq(Nat)]
  BY DEF RouteInv, RouteTypes
<1>3. HoldsWhatItShould(r) /\ request[r].booked = 1 /\ started[r] # Unset
      /\ request[r].miner \in RouteMiners
  BY <1>1 DEF RouteInv, HoldsWhatItShould
<1>4. PICK m \in RouteMiners : m = request[r].miner
  BY <1>3, SMTT(60)
<1> DEFINE full == Cardinality(RunningOn(m)) >= Latest(m)
<1>5. PICK shown \in SetToSeqs(HonestExcuse(r)) \cup SeqOf(AnyReceipts, MaxReceipts) :
        /\ request' = [request EXCEPT ![r] = [@ EXCEPT
             !.phase = IF Cardinality(Excuses(r, shown)) >= ExpectedExecutorCount(m)
                       THEN "excused" ELSE "rejected", !.booked = 0,
             !.proof = IF full /\ ToSet(shown) = HonestExcuse(r) THEN RunningOn(m) ELSE {}]]
        /\ allowed' = [allowed EXCEPT ![m] = @ + request[r].booked]
  BY <1>4, ZenonT(60) DEF MinerDeclines, Excuses
<1>6. RealReceipts(shown)
  BY ReceiptsAreReal
<1>7. PICK p : p = IF Cardinality(Excuses(r, shown)) >= ExpectedExecutorCount(m)
                   THEN "excused" ELSE "rejected"
  OBVIOUS
<1>8. PICK pr : pr = IF full /\ ToSet(shown) = HonestExcuse(r) THEN RunningOn(m) ELSE {}
  OBVIOUS
<1>9. /\ p \in {"excused", "rejected"}
      /\ p = "excused" <=> Cardinality(Excuses(r, shown)) >= ExpectedExecutorCount(m)
      /\ pr # {} => full /\ ToSet(shown) = HonestExcuse(r) /\ pr = RunningOn(m)
  BY <1>7, <1>8
<1>10. pr \subseteq Requests /\ \A q \in pr : started[q] # Unset
  <2>1. \A q \in RunningOn(m) : q \in Requests /\ started[q] # Unset
    BY DEF RunningOn, InPhase, RouteInv, HoldsWhatItShould
  <2>. QED BY <1>9, <2>1
<1>11. PICK x : x = [request[r] EXCEPT !.phase = p, !.booked = 0, !.proof = pr]
  OBVIOUS
<1>12. x = [phase |-> p, miner |-> request[r].miner, booked |-> 0, order |-> request[r].order,
            full |-> request[r].full, known |-> request[r].known, proof |-> pr]
  BY <1>2, <1>11 DEF RouteRecords
<1>13. /\ x \in RouteRecords /\ x.phase = p /\ x.booked = 0 /\ x.miner = m /\ x.proof = pr
  BY <1>2, <1>4, <1>9, <1>10, <1>12 DEF RouteRecords, RoutePhases
<1>14. request' = [request EXCEPT ![r] = x]
  BY <1>5, <1>7, <1>8, <1>11
<1>15. /\ request'[r] = x /\ \A q \in Requests : q # r => request'[q] = request[q]
       /\ \A q \in Requests : request'[q].miner = request[q].miner
  BY <1>2, <1>4, <1>13, <1>14
<1>16. /\ allowed' \in [RouteMiners -> Nat] /\ allowed'[m] = allowed[m] + 1
       /\ \A n \in RouteMiners : n # m => allowed'[n] = allowed[n]
  BY <1>2, <1>3, <1>5
<1>. HIDE DEF full
<1>17. HoldsWhatItShould(r)'
  BY <1>1, <1>3, <1>9, <1>10, <1>13, <1>15 DEF HoldsWhatItShould
<1>18. BookingsAddUp'
  <2>1. r \in BookedOn(m) /\ \A n \in RouteMiners : n # m => BookedOn(n)' = BookedOn(n)
    BY <1>3, <1>4, <1>13, <1>15 DEF BookedOn, Of
  <2>2. BookedOn(m)' = BookedOn(m) \ {r}
    BY <1>13, <1>15 DEF BookedOn, Of
  <2>3. IsFiniteSet(BookedOn(m))
    <3>1. BookedOn(m) \subseteq Requests /\ IsFiniteSet(Requests)
      BY RoutingConstants DEF BookedOn, Of
    <3>. QED BY <3>1, FS_Subset
  <2>4. Cardinality(BookedOn(m) \ {r}) = Cardinality(BookedOn(m)) - 1
        /\ Cardinality(BookedOn(m)) \in Nat
    BY <2>1, <2>3, FS_RemoveElement, FS_CardinalityType
  <2>5. allowed[m] + Cardinality(BookedOn(m)) = InitialAllowance /\ allowed[m] \in Nat
    BY <1>2 DEF RouteInv, BookingsAddUp
  <2>6. allowed'[m] + Cardinality(BookedOn(m)') = InitialAllowance
    <3>1. PICK a, k \in Nat : a = allowed[m] /\ k = Cardinality(BookedOn(m))
      BY <2>4, <2>5
    <3>2. allowed'[m] = a + 1 /\ Cardinality(BookedOn(m)') = k - 1 /\ a + k = InitialAllowance
      BY <1>16, <2>2, <2>4, <2>5, <3>1
    <3>3. (a + 1) + (k - 1) = a + k
      OBVIOUS
    <3>. QED BY <3>2, <3>3
  <2>7. ASSUME NEW n \in RouteMiners
        PROVE  allowed'[n] + Cardinality(BookedOn(n)') = InitialAllowance
    <3>1. CASE n = m
      BY <2>6, <3>1
    <3>2. CASE n # m
      BY <1>16, <2>1, <3>2 DEF RouteInv, BookingsAddUp
    <3>. QED BY <3>1, <3>2
  <2>. QED BY <2>7 DEF BookingsAddUp
<1>19. manifests[m] \in Seq(Nat) /\ manifests[m] # <<>> /\ Head(manifests[m]) \in Nat
  BY <1>2 DEF RouteInv, ManifestsAreThere
<1>20. x.phase = "excused" => Earned(r)'
  <2>1. Before(r)' = Before(r)
    BY <1>1, <1>15 DEF Before, Of
  <2>2. /\ Cardinality(Excuses(r, shown)) <= Cardinality(Before(r))
        /\ Cardinality(Excuses(r, shown)) \in Nat /\ Cardinality(Before(r)) \in Nat
    BY <1>6, ExcusesAreFew
  <2>3. p = "excused" => Cardinality(Before(r)) >= Head(manifests[m])
    BY <1>9, <1>19, <2>2 DEF ExpectedExecutorCount
  <2>4. Head(manifests[request[r].miner])' = Head(manifests[m])
    BY <1>1, <1>13, <1>15
  <2>. QED BY <1>13, <2>1, <2>3, <2>4 DEF Earned
<1>21. x.phase = "rejected" => Fresh(r)'
  <2>. SUFFICES ASSUME p = "rejected", pr # {}, Len(manifests[m]) = 1,
                       \A q \in pr : OverlapsStart(q, r)
       PROVE  FALSE
    BY <1>1, <1>13, <1>15 DEF Fresh, OverlapsStart
  <2>1. /\ Cardinality(RunningOn(m)) >= Latest(m) /\ ToSet(shown) = HonestExcuse(r)
        /\ \A q \in RunningOn(m) : OverlapsStart(q, r)
    BY <1>9 DEF full
  <2>2. Latest(m) = Head(manifests[m])
    BY <1>19 DEF Latest, Last
  <2>3. Cardinality(RunningOn(m)) <= Cardinality(Excuses(r, shown))
    BY <1>1, <1>4, <1>6, <2>1, FullMinersHaveExcuses
  <2>4. Cardinality(RunningOn(m)) \in Nat
    <3>1. RunningOn(m) \subseteq Requests /\ IsFiniteSet(Requests)
      BY RoutingConstants DEF RunningOn, InPhase
    <3>2. IsFiniteSet(RunningOn(m))
      BY <3>1, FS_Subset
    <3>. QED BY <3>2, FS_CardinalityType
  <2>5. Cardinality(Excuses(r, shown)) \in Nat
    BY <1>6, ExcusesAreFew
  <2>6. Cardinality(Excuses(r, shown)) >= Head(manifests[m])
    BY <1>19, <2>1, <2>2, <2>3, <2>4, <2>5
  <2>. QED BY <1>9, <2>6 DEF ExpectedExecutorCount
<1>22. started' \in [Requests -> Nat \cup {Unset}] /\ \A q \in Requests : q # r => started'[q] = started[q]
  BY <1>1, <1>2
<1>. QED BY <1>1, <1>4, <1>13, <1>14, <1>16, <1>17, <1>18, <1>20, <1>21, <1>22, OneRequestMoves

\* Every step keeps the invariant.
LEMMA RouteStep == RouteInv /\ [RouteNext]_routeVars => RouteInv'
<1>. SUFFICES ASSUME RouteInv, [RouteNext]_routeVars PROVE RouteInv'
  OBVIOUS
<1>1. CASE UNCHANGED routeVars
  <2>1. /\ time' = time /\ manifests' = manifests /\ allowed' = allowed /\ request' = request
        /\ started' = started
    BY <1>1 DEF routeVars
  <2>2. RouteTypes' /\ ManifestsAreThere'
    BY <2>1 DEF RouteInv, RouteTypes, ManifestsAreThere
  <2>3. BookingsAddUp'
    <3>1. \A m : BookedOn(m)' = BookedOn(m)
      BY <2>1 DEF BookedOn, Of
    <3>. QED BY <2>1, <3>1 DEF RouteInv, BookingsAddUp
  <2>4. \A r \in Requests : HoldsWhatItShould(r)'
    BY <2>1 DEF RouteInv, HoldsWhatItShould
  <2>5. \A m \in RouteMiners : Head(manifests'[m]) = Head(manifests[m])
                                /\ Len(manifests'[m]) >= Len(manifests[m])
    <3>1. \A m \in RouteMiners : Len(manifests[m]) \in Nat
      BY DEF RouteInv, RouteTypes
    <3>. QED BY <2>1, <3>1
  <2>6. ASSUME NEW r \in Requests
        PROVE  /\ request'[r].phase = "excused" => Earned(r)'
               /\ request'[r].phase = "rejected" => Fresh(r)'
    BY <2>1, <2>2, <2>5, ExcusesStay DEF RouteInv
  <2>. QED BY <2>2, <2>3, <2>4, <2>6 DEF RouteInv
<1>2. ASSUME NEW r \in Requests, RouteTrusted(r) PROVE RouteInv'
  <2>1. PICK p \in RoutePhases : p = "trusted"
    BY DEF RoutePhases
  <2>. QED BY <1>2, <2>1, PhaseMoves DEF RouteTrusted
<1>3. ASSUME NEW r \in Requests, AllMinersBusy(r) PROVE RouteInv'
  <2>1. PICK p \in RoutePhases : p = "failed"
    BY DEF RoutePhases
  <2>. QED BY <1>3, <2>1, PhaseMoves DEF AllMinersBusy
<1>4. ASSUME NEW r \in Requests, SendRequest(r) PROVE RouteInv'
  <2>1. PICK p \in RoutePhases : p = "sent"
    BY DEF RoutePhases
  <2>. QED BY <1>4, <2>1, PhaseMoves DEF SendRequest
<1>5. ASSUME NEW r \in Requests, MinerAccepts(r) PROVE RouteInv'
  <2>1. PICK p \in RoutePhases : p = "running"
    BY DEF RoutePhases
  <2>. QED BY <1>5, <2>1, PhaseMoves DEF MinerAccepts
<1>6. ASSUME NEW r \in Requests, JobFinishes(r) PROVE RouteInv'
  <2>1. PICK p \in RoutePhases : p = "finished"
    BY DEF RoutePhases
  <2>. QED BY <1>6, <2>1, PhaseMoves DEF JobFinishes
<1>7. CASE RouteNext
  BY <1>2, <1>3, <1>4, <1>5, <1>6, <1>7, PickMinerInv, TryMinerInv, MinerDeclinesInv,
     AnnounceInv DEF RouteNext
<1>. QED BY <1>1, <1>7

\* A job is counted by its started receipt or by its accepted one, not by both.
LEMMA BusyOnce == BusyCountsJobsOnce
<1>. SUFFICES ASSUME NEW m \in RouteMiners
     PROVE  BusyExecutorCount(m) =
              Cardinality({r \in Of(m) : /\ StartValidAt(r, time) \/ AcceptValidAt(r, time)
                                         /\ ~FinishedBy(r, time)})
  BY DEF BusyCountsJobsOnce
<1> DEFINE A == {r \in Of(m) : StartValidAt(r, time) /\ ~FinishedBy(r, time)}
           B == {r \in Of(m) : /\ AcceptValidAt(r, time) /\ ~FinishedBy(r, time)
                               /\ ~StartValidAt(r, time)}
           C == {r \in Of(m) : /\ StartValidAt(r, time) \/ AcceptValidAt(r, time)
                               /\ ~FinishedBy(r, time)}
<1>1. A \cup B = C /\ A \cap B = {} /\ A \subseteq Requests /\ B \subseteq Requests
  BY DEF Of
<1>2. BusyExecutorCount(m) = Cardinality(A) + Cardinality(B)
  BY DEF BusyExecutorCount
<1>. HIDE DEF A, B, C
<1>3. IsFiniteSet(A) /\ IsFiniteSet(B)
  BY <1>1, RoutingConstants, FS_Subset
<1>4. Cardinality(A \cup B) = Cardinality(A) + Cardinality(B) - Cardinality(A \cap B)
  BY <1>3, FS_Union
<1>5. Cardinality(A \cap B) = 0 /\ Cardinality(A) \in Nat /\ Cardinality(B) \in Nat
  BY <1>1, <1>3, FS_EmptySet, FS_CardinalityType
<1>6. Cardinality(C) = Cardinality(A) + Cardinality(B)
  <2>1. PICK a \in Nat, b \in Nat : a = Cardinality(A) /\ b = Cardinality(B)
    BY <1>5
  <2>2. Cardinality(C) = a + b - 0
    BY <1>1, <1>4, <1>5, <2>1
  <2>. QED BY <2>1, <2>2
<1>. QED BY <1>2, <1>6 DEF C

\* For any number of requests, miners and manifests, what is booked and what is
\* left add up, a job makes its miner busy once, no miner is excused without
\* having earned it, and one that shows a full set of fresh receipts is excused
\* (pick_miner_for_job_request, drive_organic_job and job_excuses.py).
THEOREM RoutingAlwaysFair == RouteSpec => []RoutingIsFair
<1>1. RouteInv => RoutingIsFair
  <2>. SUFFICES ASSUME RouteInv PROVE RoutingIsFair
    OBVIOUS
  <2>1. BookingsFollowRequests
    <3>1. ASSUME NEW r \in Requests
          PROVE  /\ request[r].booked <= 1
                 /\ request[r].phase \in {"failed", "excused", "rejected"} /\ request[r].booked = 1
                    => request[r].miner \notin request[r].known
      <4>1. request[r].booked \in {0, 1} /\ HoldsWhatItShould(r)
        BY DEF RouteInv, RouteTypes, RouteRecords
      <4>. QED BY <4>1 DEF HoldsWhatItShould
    <3>. QED BY <3>1 DEF RouteInv, BookingsAddUp, BookedOn, BookingsFollowRequests
  <2>2. ExcusesAreEarned
    BY DEF ExcusesAreEarned, InPhase, RouteInv, Earned, Before
  <2>3. FreshlyBusyIsExcused
    BY DEF FreshlyBusyIsExcused, InPhase, RouteInv, Fresh
  <2>. QED BY <2>1, <2>2, <2>3, BusyOnce DEF RoutingIsFair
<1>. QED BY <1>1, InitRouteInv, RouteStep, PTL DEF RouteSpec

-----------------------------------------------------------------------------
(* SpendingCheck: the search for the block a job started in *)

Ascending(blocks, n) == /\ blocks \in [1 .. n -> Int]
                        /\ \A i, j \in 1 .. n : i < j => blocks[i] < blocks[j]

\* What the loop is to return: the last index between its bounds whose block
\* is not younger than t, or what it has found before.
Hits(blocks, t, s) == {i \in s.left .. s.right : 2 * blocks[i] <= t}
Target(blocks, t, s) == IF Hits(blocks, t, s) = {} THEN s.found ELSE Max(Hits(blocks, t, s))

\* A turn of the loop stays within its states and makes the range smaller.
LEMMA HalveShrinks ==
  ASSUME NEW n \in Nat, NEW blocks, NEW t, NEW s \in SearchStates(n), s.left <= s.right
  PROVE  /\ Halve(blocks, t, s) \in SearchStates(n)
         /\ Halve(blocks, t, s).right - Halve(blocks, t, s).left < s.right - s.left
         /\ Halve(blocks, t, s).right - Halve(blocks, t, s).left >= -1
<1>1. PICK l \in 1 .. n + 1, r \in 0 .. n : l = s.left /\ r = s.right /\ s.found \in 0 .. n
  BY DEF SearchStates
<1>2. PICK mid : mid = (l + r) \div 2
  OBVIOUS
<1>3. mid \in Int /\ l <= mid /\ mid <= r
  BY <1>1, <1>2
<1>4. CASE 2 * blocks[mid] <= t
  <2>1. Halve(blocks, t, s) = [left |-> mid + 1, right |-> r, found |-> mid]
    BY <1>1, <1>2, <1>4 DEF Halve
  <2>2. mid + 1 \in 1 .. n + 1 /\ mid \in 0 .. n
    BY <1>1, <1>3
  <2>3. r - (mid + 1) < r - l /\ r - (mid + 1) >= -1
    BY <1>1, <1>3
  <2>. QED BY <1>1, <2>1, <2>2, <2>3 DEF SearchStates
<1>5. CASE ~(2 * blocks[mid] <= t)
  <2>1. Halve(blocks, t, s) = [left |-> l, right |-> mid - 1, found |-> s.found]
    BY <1>1, <1>2, <1>5 DEF Halve
  <2>2. mid - 1 \in 0 .. n
    BY <1>1, <1>3
  <2>3. (mid - 1) - l < r - l /\ (mid - 1) - l >= -1
    BY <1>1, <1>3
  <2>. QED BY <1>1, <2>1, <2>2, <2>3 DEF SearchStates
<1>. QED BY <1>4, <1>5

\* A turn of the loop does not change what it is to return.
LEMMA HalveKeepsTarget ==
  ASSUME NEW n \in Nat, NEW blocks, Ascending(blocks, n), NEW t \in Int,
         NEW s \in SearchStates(n), s.left <= s.right
  PROVE  Target(blocks, t, Halve(blocks, t, s)) = Target(blocks, t, s)
<1>1. PICK l \in 1 .. n + 1, r \in 0 .. n : l = s.left /\ r = s.right /\ s.found \in 0 .. n
  BY DEF SearchStates
<1>2. PICK mid : mid = (l + r) \div 2
  OBVIOUS
<1>3. mid \in Int /\ l <= mid /\ mid <= r
  BY <1>1, <1>2
<1>4. mid \in 1 .. n
  BY <1>1, <1>3
<1>5. CASE 2 * blocks[mid] <= t
  <2>1. PICK h : h = Halve(blocks, t, s)
    OBVIOUS
  <2>2. h.left = mid + 1 /\ h.right = r /\ h.found = mid
    BY <1>1, <1>2, <1>5, <2>1 DEF Halve
  <2>3. PICK A, B : A = Hits(blocks, t, h) /\ B = Hits(blocks, t, s)
    OBVIOUS
  <2>4. mid \in B /\ A \subseteq B /\ B \subseteq l .. r /\ A = B \cap (mid + 1 .. r)
    BY <1>1, <1>3, <1>5, <2>2, <2>3 DEF Hits
  <2>5. IsFiniteSet(B) /\ IsFiniteSet(A) /\ B \subseteq Int /\ A \subseteq Int
    <3>1. IsFiniteSet(l .. r)
      BY FS_Interval
    <3>2. IsFiniteSet(B)
      BY <2>4, <3>1, FS_Subset
    <3>3. IsFiniteSet(A)
      BY <2>4, <3>2, FS_Subset
    <3>. QED BY <2>4, <3>2, <3>3
  <2>6. PICK mb : mb = Max(B)
    OBVIOUS
  <2>7. mb \in B /\ mb \in Int /\ \A y \in B : mb >= y
    BY <2>4, <2>5, <2>6, FiniteMax
  <2>8. CASE A = {}
    <3>1. mb = mid
      BY <1>1, <1>3, <2>4, <2>7, <2>8
    <3>. QED BY <2>1, <2>2, <2>3, <2>4, <2>6, <2>8, <3>1 DEF Target
  <2>9. CASE A # {}
    <3>1. Max(A) \in A /\ \A y \in A : Max(A) >= y
      BY <2>5, <2>9, FiniteMax
    <3>2. PICK ma \in Int : ma = Max(A)
      BY <2>5, <3>1
    <3>3. ma > mid /\ mb >= ma
      BY <1>3, <2>4, <2>7, <3>1, <3>2
    <3>4. mb \in A
      BY <1>1, <1>3, <2>4, <2>7, <3>3
    <3>5. ma = mb
      BY <2>7, <3>1, <3>2, <3>3, <3>4
    <3>. QED BY <2>1, <2>3, <2>4, <2>6, <2>9, <3>2, <3>5 DEF Target
  <2>. QED BY <2>8, <2>9
<1>6. CASE ~(2 * blocks[mid] <= t)
  <2>1. PICK h : h = Halve(blocks, t, s)
    OBVIOUS
  <2>2. h.left = l /\ h.right = mid - 1 /\ h.found = s.found
    BY <1>1, <1>2, <1>6, <2>1 DEF Halve
  <2>3. ASSUME NEW i \in l .. r, 2 * blocks[i] <= t PROVE i \in l .. mid - 1
    <3>1. i \in 1 .. n
      BY <1>1
    <3>2. blocks[i] \in Int /\ blocks[mid] \in Int
      BY <1>4, <3>1 DEF Ascending
    <3>3. ~(mid < i)
      BY <1>4, <1>6, <2>3, <3>1, <3>2 DEF Ascending
    <3>. QED BY <1>1, <1>3, <1>6, <2>3, <3>3
  <2>4. Hits(blocks, t, h) = Hits(blocks, t, s)
    BY <1>1, <1>3, <2>2, <2>3 DEF Hits
  <2>. QED BY <2>1, <2>2, <2>4 DEF Target
<1>. QED BY <1>5, <1>6

Recursion(blocks, n, t, g) ==
  [s \in SearchStates(n) |-> IF s.left > s.right THEN s.found ELSE g[Halve(blocks, t, s)]]

\* The loop ends, and returns its target.
LEMMA SearchHitsTarget ==
  ASSUME NEW n \in Nat, NEW blocks, Ascending(blocks, n), NEW t \in Int
  PROVE  \A s \in SearchStates(n) : Search(blocks, n, t)[s] = Target(blocks, t, s)
<1>1. PICK g : g = Search(blocks, n, t)
  OBVIOUS
<1>2. PICK f : f = [s \in SearchStates(n) |-> Target(blocks, t, s)]
  OBVIOUS
<1>3. ASSUME NEW s \in SearchStates(n)
      PROVE  f[s] = IF s.left > s.right THEN s.found ELSE f[Halve(blocks, t, s)]
  <2>1. s.left \in Int /\ s.right \in Int
    BY DEF SearchStates
  <2>2. CASE s.left > s.right
    <3>1. Hits(blocks, t, s) = {}
      BY <2>1, <2>2 DEF Hits
    <3>. QED BY <1>2, <2>2, <3>1 DEF Target
  <2>3. CASE ~(s.left > s.right)
    <3>1. s.left <= s.right
      BY <2>1, <2>3
    <3>2. Halve(blocks, t, s) \in SearchStates(n)
      BY <3>1, HalveShrinks
    <3>3. Target(blocks, t, Halve(blocks, t, s)) = Target(blocks, t, s)
      BY <3>1, HalveKeepsTarget
    <3>. QED BY <1>2, <2>3, <3>2, <3>3
  <2>. QED BY <2>2, <2>3
<1>4. f = Recursion(blocks, n, t, f)
  BY <1>2, <1>3 DEF Recursion
<1>5. g = CHOOSE x : x = Recursion(blocks, n, t, x)
  BY <1>1 DEF Search, Recursion
<1>6. g = Recursion(blocks, n, t, g)
  BY <1>4, <1>5
<1>. DEFINE Size(s) == s.right - s.left + 1
            Wrong == {s \in SearchStates(n) : g[s] # f[s] /\ s.left <= s.right}
            Sizes == {Size(s) : s \in Wrong}
<1>7. ASSUME NEW s \in SearchStates(n)
      PROVE  g[s] = IF s.left > s.right THEN s.found ELSE g[Halve(blocks, t, s)]
  BY <1>6 DEF Recursion
<1>8. ASSUME NEW s \in SearchStates(n), s.left > s.right PROVE g[s] = f[s]
  BY <1>3, <1>7, <1>8
<1>9. Sizes = {}
  <2>. SUFFICES ASSUME Sizes # {} PROVE FALSE
    OBVIOUS
  <2>1. \A s \in SearchStates(n) : s.left \in Int /\ s.right \in Int
    BY DEF SearchStates
  <2>2. Sizes \subseteq Nat
    BY <2>1
  <2>3. Min(Sizes) \in Sizes /\ \A y \in Sizes : Min(Sizes) <= y
    <3>. HIDE DEF Sizes
    <3>. QED BY <2>2, NatMin
  <2>4. PICK s \in Wrong : Min(Sizes) = Size(s)
    BY <2>3
  <2>5. PICK h : h = Halve(blocks, t, s)
    OBVIOUS
  <2>6. s \in SearchStates(n) /\ s.left <= s.right /\ g[s] # f[s] /\ ~(s.left > s.right)
    BY <2>1, <2>4
  <2>7. h \in SearchStates(n) /\ h.right - h.left < s.right - s.left
    BY <2>5, <2>6, HalveShrinks
  <2>8. g[h] # f[h]
    BY <1>3, <1>7, <2>5, <2>6
  <2>9. h \in Wrong
    <3>1. ~(h.left > h.right)
      BY <1>8, <2>7, <2>8
    <3>. QED BY <2>1, <2>7, <2>8, <3>1
  <2>10. Size(h) \in Sizes
    BY <2>9
  <2>11. Size(s) <= Size(h)
    BY <2>3, <2>4, <2>10
  <2>. QED BY <2>1, <2>6, <2>7, <2>11
<1>10. ASSUME NEW s \in SearchStates(n) PROVE g[s] = f[s]
  <2>1. CASE s.left > s.right
    BY <1>8, <2>1
  <2>2. CASE ~(s.left > s.right)
    <3>1. s.left <= s.right
      BY <2>2 DEF SearchStates
    <3>2. Wrong = {}
      BY <1>9
    <3>. QED BY <3>1, <3>2
  <2>. QED BY <2>1, <2>2
<1>. QED BY <1>1, <1>2, <1>10

\* What an accepted receipt takes is on the chain.
LEMMA LoadedOnChain == Loaded \subseteq Chain /\ IsFiniteSet(Loaded)
<1>1. /\ CheckedFrom \in Nat /\ CheckedTo \in Nat /\ MaxRunBlocks \in Nat /\ BlockExpiry \in Nat
      /\ LeewayLower \in Nat
  BY SpendingConstants
<1>2. Loaded \subseteq Chain
  BY <1>1 DEF Loaded, Chain
<1>3. IsFiniteSet(Loaded)
  <2>1. PICK a \in Int, b \in Int : a = CheckedFrom - MaxRunBlocks - BlockExpiry /\ b = CheckedTo - 1
    BY <1>1
  <2>2. IsFiniteSet(a .. b)
    BY FS_Interval
  <2>. QED BY <2>1, <2>2 DEF Loaded
<1>. QED BY <1>2, <1>3

\* The rows that are loaded, in their order, are every known block once.
LEMMA LoadedBlocksAscend ==
  ASSUME rows \subseteq Chain
  PROVE  /\ IsFiniteSet(KnownBlocks) /\ KnownBlocks \subseteq Nat
         /\ Cardinality(KnownBlocks) \in Nat
         /\ Ascending(LoadedBlocks, Cardinality(KnownBlocks))
         /\ \A i \in 1 .. Cardinality(KnownBlocks) : LoadedBlocks[i] \in KnownBlocks
         /\ \A b \in KnownBlocks : \E i \in 1 .. Cardinality(KnownBlocks) : b = LoadedBlocks[i]
<1>1. /\ CheckedFrom \in Nat /\ CheckedTo \in Nat /\ MaxRunBlocks \in Nat /\ BlockExpiry \in Nat
      /\ LeewayLower \in Nat /\ CheckedFrom >= MaxRunBlocks + BlockExpiry + LeewayLower
  BY SpendingConstants
<1>2. Loaded \subseteq Nat /\ CheckedTo \in Nat
  BY <1>1 DEF Loaded
<1>3. KnownBlocks \subseteq Nat /\ KnownBlocks \subseteq Loaded \cup {CheckedTo}
  BY <1>2 DEF KnownBlocks
<1>4. IsFiniteSet(Loaded \cup {CheckedTo})
  BY LoadedOnChain, FS_AddElement
<1>5. IsFiniteSet(KnownBlocks)
  BY <1>3, <1>4, FS_Subset
<1>6. PICK S : S = KnownBlocks
  OBVIOUS
<1>7. IsFiniteSet(S) /\ S \subseteq Int /\ Cardinality(S) \in Nat
  BY <1>3, <1>5, <1>6, FS_CardinalityType
<1>8. PICK n \in Nat : n = Cardinality(S)
  BY <1>7
<1>9. PICK f : f = LoadedBlocks
  OBVIOUS
<1>10. f = [i \in 1 .. n |-> CHOOSE b \in S : Rank(S, b) = i]
  BY <1>6, <1>8, <1>9 DEF LoadedBlocks, Rank
<1>11. /\ \A b \in S : Rank(S, b) \in 1 .. n
       /\ \A i \in 1 .. n : \E b \in S : Rank(S, b) = i
  BY <1>7, <1>8, RanksAreTaken
<1>12. ASSUME NEW i \in 1 .. n PROVE f[i] \in S /\ Rank(S, f[i]) = i
  BY <1>10, <1>11
<1>13. ASSUME NEW i \in 1 .. n, NEW j \in 1 .. n, i < j PROVE f[i] < f[j]
  <2>1. PICK a \in S, b \in S : a = f[i] /\ b = f[j] /\ Rank(S, a) = i /\ Rank(S, b) = j
    BY <1>12
  <2>2. b < a => Rank(S, b) < Rank(S, a)
    BY <1>7, RankGrows
  <2>3. a \in Int /\ b \in Int
    BY <1>7
  <2>4. a # b
    BY <1>13, <2>1
  <2>5. ~(b < a)
    BY <1>13, <2>1, <2>2
  <2>. QED BY <2>1, <2>3, <2>4, <2>5
<1>14. f \in [1 .. n -> Int]
  BY <1>7, <1>10, <1>12
<1>15. Ascending(f, n)
  BY <1>13, <1>14 DEF Ascending
<1>16. ASSUME NEW b \in S PROVE \E i \in 1 .. n : b = f[i]
  <2>1. PICK i \in 1 .. n : i = Rank(S, b)
    BY <1>11
  <2>2. PICK c \in S : c = f[i] /\ Rank(S, c) = i
    BY <1>12
  <2>3. b \in Int /\ c \in Int
    BY <1>7
  <2>4. (b < c => Rank(S, b) < Rank(S, c)) /\ (c < b => Rank(S, c) < Rank(S, b))
    BY <1>7, RankGrows
  <2>5. b = c
    BY <2>1, <2>2, <2>3, <2>4
  <2>. QED BY <2>2, <2>5
<1>. QED BY <1>3, <1>5, <1>6, <1>7, <1>8, <1>9, <1>12, <1>15, <1>16

Older(t) == {b \in KnownBlocks : 2 * b <= t}

\* The search returns the latest block as of the given time, if the rows
\* around that time are known.
LEMMA SearchIsRight ==
  ASSUME rows \subseteq Chain, NEW t \in Int
  PROVE  GetBlockAtTime(t) =
           IF Older(t) = {} \/ t >= 2 * Max(KnownBlocks) THEN NoBlock ELSE Max(Older(t))
<1>1. PICK S : S = KnownBlocks
  OBVIOUS
<1>2. PICK n \in Nat : n = Cardinality(S)
  BY <1>1, LoadedBlocksAscend
<1>3. PICK f : f = LoadedBlocks
  OBVIOUS
<1>4. /\ IsFiniteSet(S) /\ S \subseteq Nat /\ Ascending(f, n)
      /\ \A i \in 1 .. n : f[i] \in S
      /\ \A b \in S : \E i \in 1 .. n : b = f[i]
  BY <1>1, <1>2, <1>3, LoadedBlocksAscend
<1>5. \A i \in 1 .. n : f[i] \in Int
  BY <1>4 DEF Ascending
<1>6. PICK old : old = Older(t)
  OBVIOUS
<1>7. old = {b \in S : 2 * b <= t}
  BY <1>1, <1>6 DEF Older
<1>8. CASE n = 0
  <2>1. S = {}
    BY <1>2, <1>4, <1>8, FS_EmptySet
  <2>. QED BY <1>1, <1>2, <1>6, <1>7, <1>8, <2>1 DEF GetBlockAtTime
<1>9. CASE n # 0
  <2>1. PICK k \in 1 .. n : k = n
    BY <1>9
  <2>2. 1 \in 1 .. n
    BY <1>9
  <2>3. ASSUME NEW i \in 1 .. n PROVE f[1] <= f[i] /\ f[i] <= f[k]
    BY <1>4, <1>5, <2>1, <2>2 DEF Ascending
  <2>4. Max(S) = f[k]
    <3>1. f[k] \in S /\ \A y \in S : f[k] >= y
      <4>1. ASSUME NEW y \in S PROVE f[k] >= y
        <5>1. PICK i \in 1 .. n : y = f[i]
          BY <1>4
        <5>. QED BY <1>5, <2>3, <5>1
      <4>. QED BY <1>4, <4>1
    <3>2. S \subseteq Int
      BY <1>4
    <3>3. Max(S) \in S /\ \A y \in S : Max(S) >= y
      BY <1>4, <3>1, <3>2, FiniteMax
    <3>4. PICK m \in Int : m = Max(S)
      BY <3>2, <3>3
    <3>5. m >= f[k] /\ f[k] >= m
      BY <3>1, <3>3, <3>4
    <3>. QED BY <1>5, <3>4, <3>5
  <2>5. CASE t < 2 * f[1]
    <3>1. old = {}
      <4>. SUFFICES ASSUME NEW b \in old PROVE FALSE
        OBVIOUS
      <4>1. PICK i \in 1 .. n : b = f[i] /\ 2 * b <= t
        BY <1>4, <1>7
      <4>2. f[1] <= f[i] /\ f[1] \in Int /\ f[i] \in Int
        BY <1>5, <2>2, <2>3
      <4>. QED BY <2>5, <4>1, <4>2
    <3>2. GetBlockAtTime(t) = NoBlock
      BY <1>1, <1>2, <1>3, <2>5 DEF GetBlockAtTime
    <3>. QED BY <1>6, <3>1, <3>2
  <2>6. CASE t >= 2 * f[k]
    BY <1>1, <1>2, <1>3, <2>1, <2>4, <2>6 DEF GetBlockAtTime
  <2>7. CASE ~(t < 2 * f[1]) /\ ~(t >= 2 * f[k])
    <3>1. n # 1
      BY <1>5, <2>1, <2>2, <2>7
    <3>2. ~(n < 2) /\ n - 1 \in 0 .. n /\ 1 \in 1 .. n - 1
      BY <1>9, <3>1
    <3>3. PICK s : s = [left |-> 1, right |-> n - 1, found |-> 0]
      OBVIOUS
    <3>4. s \in SearchStates(n) /\ s.left = 1 /\ s.right = n - 1
      BY <3>2, <3>3 DEF SearchStates
    <3>5. PICK H : H = Hits(f, t, s)
      OBVIOUS
    <3>6. H = {i \in 1 .. n - 1 : 2 * f[i] <= t}
      BY <3>4, <3>5 DEF Hits
    <3>7. 1 \in H /\ H \subseteq 1 .. n /\ H \subseteq Int
      <4>1. 2 * f[1] <= t
        BY <1>5, <2>2, <2>7
      <4>. QED BY <3>2, <3>6, <4>1
    <3>8. IsFiniteSet(H)
      <4>1. IsFiniteSet(1 .. n)
        BY FS_Interval
      <4>. QED BY <3>7, <4>1, FS_Subset
    <3>9. Max(H) \in H /\ \A y \in H : Max(H) >= y
      BY <3>7, <3>8, FiniteMax
    <3>10. PICK i \in 1 .. n : i = Max(H) /\ i \in H
      BY <3>7, <3>9
    <3>11. Search(f, n, t)[s] = i
      <4>1. Search(f, n, t)[s] = Target(f, t, s)
        BY <1>4, <3>4, SearchHitsTarget
      <4>2. H # {}
        BY <3>7
      <4>. QED BY <3>5, <3>10, <4>1, <4>2 DEF Target
    <3>12. GetBlockAtTime(t) = f[i]
      BY <1>1, <1>2, <1>3, <2>1, <2>7, <3>2, <3>3, <3>11 DEF GetBlockAtTime
    <3>13. f[i] \in old /\ 2 * f[i] <= t
      BY <1>4, <1>7, <3>6, <3>10
    <3>14. ASSUME NEW b \in old PROVE f[i] >= b
      <4>1. PICK j \in 1 .. n : b = f[j] /\ 2 * b <= t
        BY <1>4, <1>7
      <4>2. j # n
        BY <1>5, <2>1, <2>7, <4>1
      <4>3. j \in H
        BY <3>6, <4>1, <4>2
      <4>4. i >= j
        BY <3>9, <3>10, <4>3
      <4>5. j = i \/ j < i
        BY <4>4
      <4>. QED BY <1>4, <1>5, <4>1, <4>5 DEF Ascending
    <3>15. Max(old) = f[i]
      <4>1. old \subseteq Int /\ IsFiniteSet(old)
        <5>1. old \subseteq S
          BY <1>7
        <5>2. IsFiniteSet(old)
          BY <1>4, <5>1, FS_Subset
        <5>. QED BY <1>4, <5>1, <5>2
      <4>2. Max(old) \in old /\ \A y \in old : Max(old) >= y
        BY <3>13, <4>1, FiniteMax
      <4>3. PICK m \in Int : m = Max(old)
        BY <4>1, <4>2
      <4>4. m >= f[i] /\ f[i] >= m
        BY <3>13, <3>14, <4>2, <4>3
      <4>. QED BY <1>5, <4>3, <4>4
    <3>16. old # {} /\ ~(t >= 2 * Max(S))
      BY <2>4, <2>7, <3>13
    <3>. QED BY <1>1, <1>6, <3>12, <3>15, <3>16
  <2>. QED BY <2>5, <2>6, <2>7
<1>. QED BY <1>8, <1>9

-----------------------------------------------------------------------------
(* SpendingCheck: a block pays once, and an honest receipt is accepted *)

\* What was spent is what was scored, and the receipt at hand was judged right.
SpendingInv ==
  /\ rows \subseteq Chain /\ invalidated \in [Chain -> Nat \cup {Never}]
  /\ spent \subseteq Chain
  /\ scored = [b \in Chain |-> IF b \in spent THEN 1 ELSE 0]
  /\ payment.outcome = "success" => Cardinality(payment.taken) >= payment.receipt.cost
  /\ HonestSpendingIsAccepted

\* The invariant holds before anything happens.
LEMMA InitSpendingInv == SpendingInit => SpendingInv
<1>. SUFFICES ASSUME SpendingInit PROVE SpendingInv
  OBVIOUS
<1>1. CheckedFrom \in Nat /\ CheckedTo \in Nat /\ MaxRunBlocks \in Nat
      /\ CheckedFrom >= MaxRunBlocks
  BY SpendingConstants
<1>2. \A x \in CheckedFrom - MaxRunBlocks .. CheckedTo : x \in Nat
  BY <1>1
<1>3. rows \subseteq Chain /\ invalidated \in [Chain -> Nat \cup {Never}]
  <2>1. PICK b \in Chain \cup {0}, at \in (CheckedFrom - MaxRunBlocks .. CheckedTo) \cup {Never} :
           /\ rows = IF at = Never THEN Chain \ {b} ELSE Chain
           /\ invalidated = [x \in Chain |-> IF x = b THEN at ELSE Never]
    BY DEF SpendingInit
  <2>. QED BY <1>2, <2>1
<1>4. HonestSpendingIsAccepted
  BY DEF SpendingInit, HonestSpendingIsAccepted
<1>. QED BY <1>3, <1>4 DEF SpendingInit, SpendingInv, Unpaid

\* For blocks that were reserved by the ledger's rule, the block found for the
\* job's start makes all of them usable.
LEMMA ReservedIsSpendable ==
  ASSUME SpendingInv, CheckedTo \in rows, NEW r \in FinishedJobs, NEW lag \in 0 .. LeewayLower,
         r.start - lag >= CheckedFrom - MaxRunBlocks, ReservedAt(r, r.start - lag),
         r.blocks \cap spent = {}, NEW at, at = GetBlockAtTime(r.time)
  PROVE  /\ at # NoBlock
         /\ (((r.blocks \cap AllowedRange(at)) \ spent) \ InvalidatedBy(at)) \cap Loaded = r.blocks
<1>1. /\ CheckedFrom \in Nat /\ CheckedTo \in Nat /\ MaxRunBlocks \in Nat /\ BlockExpiry \in Nat
      /\ LeewayLower \in Nat /\ LeewayUpper \in Nat
      /\ CheckedFrom >= MaxRunBlocks + BlockExpiry + LeewayLower
  BY SpendingConstants
<1>2. PICK start \in CheckedFrom - MaxRunBlocks .. CheckedTo - 1, half \in {0, 1} :
        r.start = start /\ r.time = 2 * start + half /\ r.cost \in {1, 2}
  BY DEF FinishedJobs
<1>3. start \in Int /\ half \in Int /\ 0 <= half /\ half <= 1 /\ start < CheckedTo
  BY <1>1, <1>2
<1>4. PICK t \in Int : t = r.time
  BY <1>2, <1>3
<1>5. r.blocks \subseteq rows /\ r.blocks # {}
      /\ \A b \in r.blocks : b \in Int /\ b >= start - lag - BlockExpiry /\ b <= start - lag - 1
  <2>1. r.blocks \subseteq rows \cap (start - lag - BlockExpiry .. start - lag - 1)
        /\ Cardinality(r.blocks) >= r.cost
    BY <1>2 DEF ReservedAt
  <2>2. r.blocks # {}
    <3>. SUFFICES ASSUME r.blocks = {} PROVE FALSE
      OBVIOUS
    <3>1. Cardinality(r.blocks) = 0
      BY FS_EmptySet
    <3>. QED BY <1>2, <2>1, <3>1
  <2>. QED BY <2>1, <2>2
<1>6. lag \in Int /\ 0 <= lag /\ lag <= LeewayLower /\ start - lag >= CheckedFrom - MaxRunBlocks
  BY <1>1, <1>2
<1>7. ASSUME NEW b \in r.blocks
      PROVE  b \in Loaded /\ b \in KnownBlocks /\ 2 * b <= t
  <2>1. b \in Int /\ b >= start - lag - BlockExpiry /\ b <= start - lag - 1 /\ b \in rows
    BY <1>5
  <2>2. b \in Loaded
    BY <1>1, <1>3, <1>6, <2>1 DEF Loaded
  <2>3. 2 * b <= t
    BY <1>2, <1>3, <1>4, <1>6, <2>1
  <2>. QED BY <2>1, <2>2, <2>3 DEF KnownBlocks
<1>8. PICK old : old = Older(t)
  OBVIOUS
<1>9. r.blocks \subseteq old /\ old # {}
  BY <1>5, <1>7, <1>8 DEF Older
<1>10. /\ IsFiniteSet(KnownBlocks) /\ KnownBlocks \subseteq Int /\ KnownBlocks \subseteq Nat
  <2>1. IsFiniteSet(KnownBlocks) /\ KnownBlocks \subseteq Nat
    BY LoadedBlocksAscend DEF SpendingInv
  <2>. QED BY <2>1
<1>11. old \subseteq KnownBlocks /\ IsFiniteSet(old) /\ old \subseteq Int
  <2>1. old \subseteq KnownBlocks
    BY <1>8 DEF Older
  <2>2. IsFiniteSet(old)
    BY <1>10, <2>1, FS_Subset
  <2>. QED BY <1>10, <2>1, <2>2
<1>12. PICK last \in Int : last = Max(KnownBlocks) /\ last >= CheckedTo
  <2>1. CheckedTo \in KnownBlocks
    BY DEF KnownBlocks
  <2>2. Max(KnownBlocks) \in KnownBlocks /\ \A y \in KnownBlocks : Max(KnownBlocks) >= y
    BY <1>10, <2>1, FiniteMax
  <2>. QED BY <1>10, <2>1, <2>2
<1>13. ~(t >= 2 * last)
  BY <1>1, <1>2, <1>3, <1>4, <1>12
<1>14. at = Max(old)
  BY <1>4, <1>8, <1>9, <1>12, <1>13, SearchIsRight DEF SpendingInv
<1>15. at \in old /\ \A y \in old : at >= y
  BY <1>9, <1>11, <1>14, FiniteMax
<1>16. at \in Int /\ at >= 0 /\ at <= start
  <2>1. at \in Nat /\ 2 * at <= t
    BY <1>8, <1>10, <1>11, <1>15 DEF Older
  <2>. QED BY <1>2, <1>3, <1>4, <2>1
<1>17. ASSUME NEW b \in r.blocks
       PROVE  b \in AllowedRange(at) /\ b \notin spent /\ b \notin InvalidatedBy(at)
  <2>1. b \in Int /\ b >= start - lag - BlockExpiry /\ at >= b
    BY <1>5, <1>9, <1>15
  <2>2. b \in AllowedRange(at)
    BY <1>1, <1>3, <1>6, <1>16, <2>1 DEF AllowedRange
  <2>3. ASSUME b \in InvalidatedBy(at) PROVE b \in InvalidatedBy(start)
    <3>1. b \in Chain /\ invalidated[b] # Never /\ invalidated[b] <= at
      BY <2>3 DEF InvalidatedBy
    <3>2. invalidated[b] \in Nat
      BY <3>1 DEF SpendingInv
    <3>3. invalidated[b] <= start
      BY <1>3, <1>16, <3>1, <3>2
    <3>. QED BY <3>1, <3>3 DEF InvalidatedBy
  <2>4. b \notin InvalidatedBy(start)
    BY <1>2 DEF ReservedAt
  <2>. QED BY <2>2, <2>3, <2>4
<1>18. at # NoBlock
  BY <1>16 DEF NoBlock
<1>. QED BY <1>7, <1>17, <1>18

\* Spending a receipt keeps the invariant.
LEMMA SpendInv ==
  ASSUME SpendingInv, NEW r \in FinishedJobs, Spend(r)
  PROVE  SpendingInv'
<1>1. PICK at : at = GetBlockAtTime(r.time)
  OBVIOUS
<1>2. PICK money : money = (((r.blocks \cap AllowedRange(at)) \ spent) \ InvalidatedBy(at)) \cap Loaded
  OBVIOUS
<1>3. PICK out : out = IF at = NoBlock THEN "failed"
                       ELSE IF Cardinality(money) < r.cost THEN "rejected" ELSE "success"
  OBVIOUS
<1>4. PICK taken : taken = IF out = "success" THEN money ELSE {}
  OBVIOUS
<1>5. /\ spent' = spent \cup taken
      /\ scored' = [b \in Chain |-> scored[b] + IF b \in taken THEN 1 ELSE 0]
      /\ payment' = [receipt |-> r, outcome |-> out, taken |-> taken, before |-> spent]
      /\ rows' = rows /\ invalidated' = invalidated
  BY <1>1, <1>2, <1>3, <1>4 DEF Spend, Register
<1>6. money \subseteq Chain /\ money \cap spent = {} /\ IsFiniteSet(money)
  BY <1>2, LoadedOnChain, FS_Subset
<1>7. taken \subseteq Chain /\ taken \cap spent = {}
  BY <1>4, <1>6
<1>8. scored' = [b \in Chain |-> IF b \in spent' THEN 1 ELSE 0]
  BY <1>5, <1>7 DEF SpendingInv
<1>9. Cardinality(money) \in Nat /\ r.cost \in Nat
  BY <1>6, FS_CardinalityType DEF FinishedJobs
<1>10. out = "success" => Cardinality(taken) >= r.cost
  BY <1>3, <1>4, <1>9
<1>11. HonestSpendingIsAccepted'
  <2>1. payment'.receipt = r /\ payment'.before = spent /\ payment'.outcome = out
    BY <1>5
  <2>2. \A seen : ReservedAt(r, seen)' <=> ReservedAt(r, seen)
    BY <1>5 DEF ReservedAt, InvalidatedBy
  <2>. SUFFICES ASSUME CheckedTo \in rows, r.blocks \cap spent = {},
                       NEW lag \in 0 .. LeewayLower,
                       r.start - lag >= CheckedFrom - MaxRunBlocks, ReservedAt(r, r.start - lag)
       PROVE  out = "success"
    BY <1>5, <2>1, <2>2 DEF HonestSpendingIsAccepted
  <2>3. at # NoBlock /\ money = r.blocks
    BY <1>1, <1>2, ReservedIsSpendable
  <2>4. Cardinality(r.blocks) >= r.cost
    BY DEF ReservedAt
  <2>. QED BY <1>3, <1>9, <2>3, <2>4
<1>. QED BY <1>5, <1>7, <1>8, <1>10, <1>11 DEF SpendingInv

\* For any chain, cycle, expiry and leeways, any missing or invalidated block
\* and any receipts: a block pays for one job, an accepted receipt is paid in
\* full, an honest one is accepted, and the binary search finds the latest
\* block as of a time (InMemorySpendingBookkeeper).
THEOREM SpendingAlwaysJudgedRight == SpendingSpec => []SpendingIsJudgedRight
<1>1. SpendingInv /\ [SpendingNext]_spendingVars => SpendingInv'
  <2>. SUFFICES ASSUME SpendingInv, [SpendingNext]_spendingVars PROVE SpendingInv'
    OBVIOUS
  <2>1. CASE UNCHANGED spendingVars
    <3>1. /\ rows' = rows /\ invalidated' = invalidated /\ spent' = spent /\ scored' = scored
          /\ payment' = payment
      BY <2>1 DEF spendingVars
    <3>2. HonestSpendingIsAccepted'
      BY <3>1 DEF SpendingInv, HonestSpendingIsAccepted, ReservedAt, InvalidatedBy
    <3>. QED BY <3>1, <3>2 DEF SpendingInv
  <2>2. CASE CountPayment
    BY <2>2 DEF SpendingInv, CountPayment, Unpaid, HonestSpendingIsAccepted
  <2>3. CASE SpendNextReceipt
    BY <2>3, SpendInv DEF SpendNextReceipt
  <2>. QED BY <2>1, <2>2, <2>3 DEF SpendingNext
<1>2. SpendingInv => SpendingIsJudgedRight
  <2>. SUFFICES ASSUME SpendingInv PROVE SpendingIsJudgedRight
    OBVIOUS
  <2>1. NoBlockScoresTwice /\ HonestSpendingIsAccepted
    BY DEF SpendingInv, NoBlockScoresTwice
  <2>2. SearchFindsLatestBlock
    <3>1. ASSUME NEW t \in 2 * Min(Chain) .. 2 * CheckedTo + 1
          PROVE  GetBlockAtTime(t) =
                   IF Older(t) = {} \/ t >= 2 * Max(KnownBlocks) THEN NoBlock ELSE Max(Older(t))
      BY t \in Int, SearchIsRight DEF SpendingInv
    <3>. QED BY <3>1 DEF SearchFindsLatestBlock, Older
  <2>. QED BY <2>1, <2>2 DEF SpendingIsJudgedRight
<1>. QED BY <1>1, <1>2, InitSpendingInv, PTL DEF SpendingSpec

-----------------------------------------------------------------------------
(* Dancing: scores are handed out whole, with one main hotkey for a cycle *)

Mains == DanceHotkeys \cup {Ghost, Silent}
Asked(k) == Grouped(k) \cap Coldkeys

\* The constants, one by one.
LEMMA DanceNumbers ==
  /\ ScoreUnit \in Nat /\ JobScore \in Nat /\ BonusPercent \in Nat
  /\ SharePercent \in 0 .. 100 /\ BurnPercent \in Nat /\ PartitionPercent \in 0 .. 100
BY DancingConstants DEF JobScore

\* The unit can be divided among any of the hotkeys.
LEMMA UnitDivides ==
  ASSUME NEW H \in SUBSET DanceHotkeys, H # {}
  PROVE  /\ IsFiniteSet(H) /\ Cardinality(H) \in Nat /\ Cardinality(H) > 0
         /\ \E v \in Nat : ScoreUnit = Cardinality(H) * v
<1>1. IsFiniteSet(H) /\ Cardinality(H) <= Cardinality(DanceHotkeys)
  BY DancingConstants, FS_Subset
<1>2. PICK n : n = Cardinality(H)
  OBVIOUS
<1>3. n \in Nat /\ n # 0 /\ Cardinality(DanceHotkeys) \in Nat
  BY <1>1, <1>2, DancingConstants, FS_CardinalityType, FS_EmptySet
<1>4. n \in Int /\ n > 0 /\ n \in 1 .. Cardinality(DanceHotkeys)
  BY <1>1, <1>2, <1>3
<1>5. ScoreUnit \in Int /\ ScoreUnit % n = 0
  BY <1>4, DancingConstants
<1>6. PICK v \in Int : v = ScoreUnit \div n /\ ScoreUnit = n * v
  BY <1>4, <1>5, ExactMultiple
<1>7. v >= 0
  <2>. SUFFICES ASSUME v < 0 PROVE FALSE
    OBVIOUS
  <2>1. PICK k \in Nat : v = -k - 1
    BY -v - 1 \in Nat
  <2>2. n * v = -(n * k) - n /\ n * k \in Nat
    BY <1>4, <2>1
  <2>. QED BY <1>3, <1>4, <1>6, <2>2, DanceNumbers
<1>. QED BY <1>1, <1>2, <1>3, <1>4, <1>6, <1>7

\* An even split hands out the whole of what the unit is a factor of.
LEMMA EvenSplitIsWhole ==
  ASSUME NEW H \in SUBSET DanceHotkeys, H # {}, NEW w \in Nat
  PROVE  /\ SumOn(EvenSplit(ScoreUnit * w, H), H) = ScoreUnit * w
         /\ \A h \in H : EvenSplit(ScoreUnit * w, H)[h] \in Nat
<1>1. IsFiniteSet(H)
  BY UnitDivides
<1>2. PICK n \in Int : n = Cardinality(H) /\ n > 0
  BY UnitDivides
<1>3. PICK v \in Nat : ScoreUnit = n * v
  BY <1>2, UnitDivides
<1>4. PICK q \in Nat : q = v * w
  OBVIOUS
<1>5. ScoreUnit * w = n * q
  BY <1>2, <1>3, <1>4
<1>6. (n * q) \div n = q
  BY <1>2, ExactDivision
<1>7. \A h \in H : EvenSplit(ScoreUnit * w, H)[h] = q
  BY <1>2, <1>5, <1>6 DEF EvenSplit
<1>8. SumOn(EvenSplit(ScoreUnit * w, H), H) = n * q
  <2>1. PICK f : f = EvenSplit(ScoreUnit * w, H)
    OBVIOUS
  <2>. QED BY <1>1, <1>2, <1>7, <2>1, SumOfEqual
<1>. QED BY <1>5, <1>7, <1>8

\* The share of the main hotkey and an even split of what is left make up the
\* whole, whether or not the main hotkey is one of the coldkey's.
LEMMA DistributeIsWhole ==
  ASSUME NEW H \in SUBSET DanceHotkeys, H # {}, NEW w \in Nat, NEW main,
         NEW t \in Nat, t = 100 * (ScoreUnit * w)
  PROVE  SumOn(Distribute(t, main, H), H) = t
<1>1. IsFiniteSet(H)
  BY UnitDivides
<1>2. PICK s \in 0 .. 100 : s = SharePercent
  BY DanceNumbers
<1>3. PICK u \in Nat : u = ScoreUnit * w
  BY DanceNumbers
<1>4. t = 100 * u
  BY <1>3
<1>5. CASE main \notin H
  <2>1. PICK x \in Nat : x = 100 * w
    OBVIOUS
  <2>2. t = ScoreUnit * x
    BY <2>1, DanceNumbers
  <2>3. SumOn(EvenSplit(t, H), H) = t
    BY <2>2, EvenSplitIsWhole
  <2>. QED BY <1>5, <2>3 DEF Distribute
<1>6. CASE H = {main}
  <2>1. PICK f : f = Distribute(t, main, H)
    OBVIOUS
  <2>2. \A h \in H : f[h] = t
    BY <1>6, <2>1 DEF Distribute
  <2>3. SumOn(f, H) = Cardinality(H) * t
    BY <1>1, <2>2, SumOfEqual
  <2>4. Cardinality(H) = 1
    BY <1>6, FS_Singleton
  <2>. QED BY <2>1, <2>3, <2>4
<1>7. CASE main \in H /\ H # {main}
  <2>1. PICK ms : ms = (t * SharePercent) \div 100
    OBVIOUS
  <2>2. ms = u * s
    <3>1. PICK q \in Int : q = u * s
      BY <1>2
    <3>2. t * s = 100 * q
      BY <1>2, <1>4, <3>1
    <3>3. (100 * q) \div 100 = q
      OBVIOUS
    <3>. QED BY <1>2, <2>1, <3>1, <3>2, <3>3
  <2>3. PICK x \in Nat : x = w * (100 - s)
    <3>1. 100 - s \in Nat
      BY <1>2
    <3>. QED BY <3>1
  <2>4. t - ms = ScoreUnit * x
    <3>1. t - ms = 100 * u - u * s
      BY <1>4, <2>2
    <3>2. 100 * u - u * s = u * (100 - s)
      BY <1>2
    <3>3. u * (100 - s) = ScoreUnit * x
      BY <1>2, <1>3, <2>3, DanceNumbers
    <3>. QED BY <3>1, <3>2, <3>3
  <2>5. H \ {main} # {} /\ H \ {main} \in SUBSET DanceHotkeys /\ IsFiniteSet(H \ {main})
    BY <1>1, <1>7, FS_RemoveElement
  <2>6. PICK rest : rest = H \ {main}
    OBVIOUS
  <2>7. PICK g : g = EvenSplit(t - ms, rest)
    OBVIOUS
  <2>8. SumOn(g, rest) = t - ms /\ \A h \in rest : g[h] \in Nat
    BY <2>4, <2>5, <2>6, <2>7, EvenSplitIsWhole, ZenonT(60)
  <2>9. PICK f : f = Distribute(t, main, H)
    OBVIOUS
  <2>10. f = [h \in H |-> IF h = main THEN ms ELSE g[h]]
    BY <1>7, <2>1, <2>6, <2>7, <2>9 DEF Distribute
  <2>11. \A h \in rest : f[h] = g[h]
    BY <2>6, <2>10
  <2>12. f[main] = ms /\ ms \in Nat
    <3>1. u * s \in Nat
      BY <1>2
    <3>. QED BY <1>7, <2>2, <2>10, <3>1
  <2>13. \A h \in H : f[h] \in Nat
    BY <2>6, <2>8, <2>11, <2>12
  <2>14. SumOn(f, rest) = SumOn(g, rest)
    BY <2>5, <2>6, <2>11, SumSame
  <2>15. SumOn(f, H) = f[main] + SumOn(f, rest)
    BY <1>1, <1>7, <2>6, <2>13, SumRemove
  <2>16. SumOn(f, H) = ms + (t - ms)
    BY <2>8, <2>12, <2>14, <2>15
  <2>. QED BY <2>9, <2>12, <2>16
<1>. QED BY <1>5, <1>6, <1>7

\* The bonus included, a coldkey's total can be handed out whole.
LEMMA DistributeForIsWhole ==
  ASSUME NEW c, HotkeysOf(c) # {}, NEW j \in Nat, NEW total \in Nat, total = JobScore * j, NEW main
  PROVE  SumOn(DistributeFor(c, total, main), HotkeysOf(c)) = WithBonus(c, total, main)
<1>1. HotkeysOf(c) \in SUBSET DanceHotkeys
  BY DEF HotkeysOf
<1>2. PICK x \in Nat : x = 100 * j
  OBVIOUS
<1>3. total = 100 * (ScoreUnit * x)
  BY <1>2, DanceNumbers DEF JobScore
<1>4. \E y \in Nat : /\ WithBonus(c, total, main) = 100 * (ScoreUnit * y)
                     /\ WithBonus(c, total, main) \in Nat
  <2>1. CASE ~Dances(c, main)
    BY <1>3, <2>1 DEF WithBonus
  <2>2. CASE Dances(c, main)
    <3>1. PICK p \in Nat : p = 100 + BonusPercent
      BY DanceNumbers
    <3>2. PICK y \in Nat : y = j * p
      OBVIOUS
    <3>3. PICK q \in Nat : q = 100 * (ScoreUnit * y)
      BY DanceNumbers
    <3>4. total * p = 100 * q
      <4>1. PICK un \in Nat : un = ScoreUnit
        BY DanceNumbers
      <4>2. total = 10000 * un * j
        BY <4>1 DEF JobScore
      <4>3. total * p = 10000 * (un * (j * p))
        BY <4>2
      <4>4. PICK z \in Nat : z = un * y
        OBVIOUS
      <4>5. total * p = 10000 * z /\ q = 100 * z
        BY <3>2, <3>3, <4>1, <4>3, <4>4
      <4>. QED BY <4>5
    <3>5. (100 * q) \div 100 = q
      OBVIOUS
    <3>6. WithBonus(c, total, main) = (total * (100 + BonusPercent)) \div 100
      BY <2>2 DEF WithBonus
    <3>7. WithBonus(c, total, main) = q
      BY <3>1, <3>4, <3>5, <3>6
    <3>. QED BY <3>3, <3>7
  <2>. QED BY <2>1, <2>2
<1>5. CASE main = Silent
  <2>1. PICK y \in Nat : y = 100 * x
    OBVIOUS
  <2>2. total = ScoreUnit * y
    BY <1>3, <2>1, DanceNumbers
  <2>3. SumOn(EvenSplit(total, HotkeysOf(c)), HotkeysOf(c)) = total
    BY <1>1, <2>2, EvenSplitIsWhole
  <2>. QED BY <1>5, <2>3 DEF DistributeFor, WithBonus, Dances
<1>6. CASE main # Silent
  <2>1. PICK y \in Nat, t \in Nat : t = WithBonus(c, total, main) /\ t = 100 * (ScoreUnit * y)
    BY <1>4
  <2>2. SumOn(Distribute(t, main, HotkeysOf(c)), HotkeysOf(c)) = t
    BY <1>1, <2>1, DistributeIsWhole
  <2>. QED BY <1>6, <2>1, <2>2 DEF DistributeFor
<1>. QED BY <1>5, <1>6

\* What the computation starts from.
DanceInputs ==
  /\ coldkeyOf \in [DanceHotkeys -> Owners]
  /\ \A h \in DanceHotkeys : coldkeyOf[h] \in Coldkeys \cup {h}
  /\ paidScores \in [Classes2 -> [DanceHotkeys -> {0, JobScore}]]

\* The row of a coldkey is its first answer in this cycle, and a class used the
\* row or had no answer yet.
MainsFollowRows ==
  /\ mainRow \in [Coldkeys -> Mains]
  /\ mainUsed = [k \in Classes2 |-> mainUsed[k]] /\ shares = [k \in Classes2 |-> shares[k]]
  /\ \A k \in Classes2 : DOMAIN mainUsed[k] \subseteq Coldkeys
  /\ \A k \in Classes2 : \A c \in DOMAIN mainUsed[k] : mainUsed[k][c] \in {Silent, mainRow[c]}

DanceInv ==
  /\ DanceInputs /\ classesDone \in 0 .. 2 /\ MainsFollowRows
  /\ ScoreIsConserved /\ BurnIsShared

\* The invariant holds before anything happens.
LEMMA InitDanceInv == DanceInit => DanceInv
<1>. SUFFICES ASSUME DanceInit PROVE DanceInv
  OBVIOUS
<1>1. DanceInputs /\ classesDone \in 0 .. 2 /\ BurnIsShared
  BY DEF DanceInit, DanceInputs, BurnIsShared
<1>2. MainsFollowRows
  BY DEF DanceInit, MainsFollowRows, Mains
<1>3. ScoreIsConserved
  BY DEF DanceInit, ScoreIsConserved
<1>. QED BY <1>1, <1>2, <1>3 DEF DanceInv

\* The total of a coldkey is the score of some number of jobs.
LEMMA GroupScoreIsWhole ==
  ASSUME DanceInputs, NEW k \in Classes2, NEW c
  PROVE  \E j \in Nat : GroupScore(k, c) = JobScore * j /\ GroupScore(k, c) \in Nat
<1>1. HotkeysOf(c) \subseteq DanceHotkeys /\ IsFiniteSet(HotkeysOf(c))
  BY DancingConstants, FS_Subset DEF HotkeysOf
<1>2. PICK f : f = paidScores[k]
  OBVIOUS
<1>3. \A h \in HotkeysOf(c) : f[h] \in {0, JobScore}
  BY <1>1, <1>2 DEF DanceInputs
<1>4. GroupScore(k, c) = SumOn(f, HotkeysOf(c))
  BY <1>2, SumFunctionIsSum DEF GroupScore
<1>5. PICK j \in Nat : SumOn(f, HotkeysOf(c)) = JobScore * j
  BY <1>1, <1>3, SumOfMultiples, DanceNumbers
<1>. QED BY <1>4, <1>5, DanceNumbers

\* One executor class: what its coldkeys get is what they earned, bonus
\* included, and the rows still say which main hotkey was used.
LEMMA ScoreClassInv ==
  ASSUME DanceInv, NEW k \in Classes2, ScoreClass(k)
  PROVE  DanceInv'
<1>1. PICK answers \in [Coldkeys -> Mains] :
        LET asked == Grouped(k) \cap Coldkeys
            main == [c \in asked |-> MainHotkey(c, answers[c])]
        IN  /\ k = classesDone + 1 /\ classesDone' = k
            /\ \A c \in Coldkeys \ asked : answers[c] = Silent
            /\ mainRow' = [c \in Coldkeys |-> IF c \in asked THEN main[c] ELSE mainRow[c]]
            /\ mainUsed' = [mainUsed EXCEPT ![k] = main]
            /\ shares' = [shares EXCEPT ![k] =
                   [h \in {x \in DanceHotkeys : coldkeyOf[x] \in Grouped(k)} |->
                       IF coldkeyOf[h] = h THEN paidScores[k][h]
                       ELSE DistributeFor(coldkeyOf[h], GroupScore(k, coldkeyOf[h]),
                                          main[coldkeyOf[h]])[h]]]
            /\ UNCHANGED <<coldkeyOf, paidScores, previousMain, burn>>
  BY DEF ScoreClass, Mains
<1>2. PICK main : main = [c \in Asked(k) |-> MainHotkey(c, answers[c])]
  OBVIOUS
<1>3. PICK given : given =
        [h \in {x \in DanceHotkeys : coldkeyOf[x] \in Grouped(k)} |->
            IF coldkeyOf[h] = h THEN paidScores[k][h]
            ELSE DistributeFor(coldkeyOf[h], GroupScore(k, coldkeyOf[h]), main[coldkeyOf[h]])[h]]
  OBVIOUS
<1>4. /\ k = classesDone + 1 /\ classesDone' = k
      /\ mainRow' = [c \in Coldkeys |-> IF c \in Asked(k) THEN main[c] ELSE mainRow[c]]
      /\ mainUsed' = [mainUsed EXCEPT ![k] = main] /\ shares' = [shares EXCEPT ![k] = given]
      /\ coldkeyOf' = coldkeyOf /\ paidScores' = paidScores /\ previousMain' = previousMain
      /\ burn' = burn
  BY <1>1, <1>2, <1>3 DEF Asked
<1>5. DanceInputs' /\ BurnIsShared' /\ classesDone' \in 0 .. 2
  BY <1>4 DEF DanceInv, DanceInputs, BurnIsShared, Classes2, Owners
<1>6. MainsFollowRows'
  <2>1. \A c \in Asked(k) : /\ c \in Coldkeys /\ main[c] \in Mains
                            /\ mainRow[c] # Silent => main[c] = mainRow[c]
    BY <1>2 DEF Asked, MainHotkey, DanceInv, MainsFollowRows
  <2>2. DOMAIN main = Asked(k)
    BY <1>2
  <2>3. mainRow' \in [Coldkeys -> Mains]
    BY <1>4, <2>1 DEF DanceInv, MainsFollowRows
  <2>4. mainUsed' = [i \in Classes2 |-> mainUsed'[i]] /\ shares' = [i \in Classes2 |-> shares'[i]]
    BY <1>4 DEF DanceInv, MainsFollowRows
  <2>5. mainUsed'[k] = main /\ \A i \in Classes2 : i # k => mainUsed'[i] = mainUsed[i]
    BY <1>4 DEF DanceInv, MainsFollowRows
  <2>6. ASSUME NEW i \in Classes2
        PROVE  /\ DOMAIN mainUsed'[i] \subseteq Coldkeys
               /\ \A c \in DOMAIN mainUsed'[i] : mainUsed'[i][c] \in {Silent, mainRow'[c]}
    <3>1. CASE i = k
      BY <1>4, <2>1, <2>2, <2>5, <3>1
    <3>2. CASE i # k
      <4>1. DOMAIN mainUsed[i] \subseteq Coldkeys
            /\ \A c \in DOMAIN mainUsed[i] : mainUsed[i][c] \in {Silent, mainRow[c]}
        BY DEF DanceInv, MainsFollowRows
      <4>2. \A c \in Coldkeys : mainRow[c] # Silent => mainRow'[c] = mainRow[c]
        BY <1>4, <2>1
      <4>. QED BY <2>5, <3>2, <4>1, <4>2
    <3>. QED BY <3>1, <3>2
  <2>. QED BY <2>3, <2>4, <2>6 DEF MainsFollowRows
<1>7. \A i \in Classes2 : Grouped(i)' = Grouped(i)
  BY <1>4 DEF Grouped, HotkeysOf, Owners
<1>8. \A c : HotkeysOf(c)' = HotkeysOf(c)
  BY <1>4 DEF HotkeysOf
<1>9. \A i, c : GroupScore(i, c)' = GroupScore(i, c)
  BY <1>4, <1>8 DEF GroupScore
<1>10. \A c, t, a : WithBonus(c, t, a)' = WithBonus(c, t, a)
  BY <1>4 DEF WithBonus, Dances
<1>11. shares'[k] = given /\ mainUsed'[k] = main
  BY <1>4 DEF DanceInv, MainsFollowRows
<1>12. ASSUME NEW c \in Grouped(k)
       PROVE  IF c \in Coldkeys
              THEN SumOn(given, HotkeysOf(c)) = WithBonus(c, GroupScore(k, c), main[c])
              ELSE SumOn(given, HotkeysOf(c)) = GroupScore(k, c)
  <2>1. HotkeysOf(c) # {} /\ HotkeysOf(c) \subseteq DanceHotkeys /\ c \in Owners
    BY DEF Grouped, HotkeysOf
  <2>2. IsFiniteSet(HotkeysOf(c))
    BY <2>1, DancingConstants, FS_Subset
  <2>3. CASE c \in Coldkeys
    <3>1. PICK f : f = DistributeFor(c, GroupScore(k, c), main[c])
      OBVIOUS
    <3>2. \A h \in HotkeysOf(c) : given[h] = f[h]
      BY <1>3, <2>1, <2>3, <3>1, DancingConstants DEF HotkeysOf
    <3>3. SumOn(given, HotkeysOf(c)) = SumOn(f, HotkeysOf(c))
      BY <2>2, <3>2, SumSame
    <3>4. PICK j \in Nat, total \in Nat : total = GroupScore(k, c) /\ total = JobScore * j
      BY GroupScoreIsWhole DEF DanceInv
    <3>5. PICK a : a = main[c]
      OBVIOUS
    <3>6. SumOn(DistributeFor(c, total, a), HotkeysOf(c)) = WithBonus(c, total, a)
      BY <2>1, <3>4, DistributeForIsWhole
    <3>. QED BY <2>3, <3>1, <3>3, <3>4, <3>5, <3>6
  <2>4. CASE c \notin Coldkeys
    <3>1. PICK f : f = paidScores[k]
      OBVIOUS
    <3>2. \A h \in HotkeysOf(c) : given[h] = f[h]
      BY <1>3, <2>1, <2>4, <3>1 DEF HotkeysOf, DanceInv, DanceInputs
    <3>3. SumOn(given, HotkeysOf(c)) = SumOn(f, HotkeysOf(c))
      BY <2>2, <3>2, SumSame
    <3>. QED BY <2>4, <3>1, <3>3, SumFunctionIsSum DEF GroupScore
  <2>. QED BY <2>3, <2>4
<1>13. ScoreIsConserved'
  <2>. SUFFICES ASSUME NEW i \in 1 .. classesDone', NEW c \in Grouped(i)'
       PROVE  IF c \in Coldkeys
              THEN SumOn(shares'[i], HotkeysOf(c)) = WithBonus(c, GroupScore(i, c), mainUsed'[i][c])
              ELSE SumOn(shares'[i], HotkeysOf(c)) = GroupScore(i, c)
    BY <1>8, <1>9, <1>10, SumFunctionIsSum DEF ScoreIsConserved
  <2>1. i \in Classes2 /\ c \in Grouped(i)
    BY <1>4, <1>7 DEF DanceInv, Classes2
  <2>2. CASE i = k
    BY <1>11, <1>12, <2>1, <2>2
  <2>3. CASE i # k
    <3>1. i \in 1 .. classesDone
      BY <1>4, <2>3 DEF DanceInv
    <3>2. shares'[i] = shares[i] /\ mainUsed'[i] = mainUsed[i]
      BY <1>4, <2>1, <2>3 DEF DanceInv, MainsFollowRows
    <3>3. IF c \in Coldkeys
          THEN SumFunctionOnSet(shares[i], HotkeysOf(c)) = WithBonus(c, GroupScore(i, c), mainUsed[i][c])
          ELSE SumFunctionOnSet(shares[i], HotkeysOf(c)) = GroupScore(i, c)
      BY <2>1, <3>1 DEF DanceInv, ScoreIsConserved
    <3>. QED BY <3>2, <3>3, SumFunctionIsSum
  <2>. QED BY <2>2, <2>3
<1>. QED BY <1>5, <1>6, <1>13 DEF DanceInv

\* The burners get the burn rate between them.
LEMMA BurnIsWhole ==
  ASSUME NEW burners \in SUBSET DanceHotkeys, NEW main \in burners, NEW f,
         f = [h \in burners |-> BurnShare(h, main, burners)]
  PROVE  SumFunction(f) = BurnPercent * 100 * ScoreUnit
<1>1. IsFiniteSet(burners) /\ DOMAIN f = burners
  BY UnitDivides
<1>2. SumFunction(f) = SumOn(f, burners)
  BY <1>1, SumFunctionIsSum DEF SumFunction
<1>3. PICK n \in Nat : n = Cardinality(burners) /\ n > 0
  BY UnitDivides
<1>4. PICK un \in Nat, b \in Nat, p \in 0 .. 100 :
        un = ScoreUnit /\ b = BurnPercent /\ p = PartitionPercent
  BY DanceNumbers
<1>5. CASE n = 1
  <2>1. PICK v \in Nat : v = b * 100 * un
    OBVIOUS
  <2>2. \A h \in burners : f[h] = v
    BY <1>3, <1>4, <1>5, <2>1 DEF BurnShare
  <2>3. SumOn(f, burners) = Cardinality(burners) * v
    BY <1>1, <2>2, SumOfEqual
  <2>. QED BY <1>2, <1>3, <1>4, <1>5, <2>1, <2>3
<1>6. CASE n # 1
  <2>1. PICK rest \in SUBSET DanceHotkeys : rest = burners \ {main}
    OBVIOUS
  <2>2. IsFiniteSet(rest) /\ Cardinality(rest) = n - 1
    BY <1>1, <1>3, <2>1, FS_RemoveElement
  <2>3. rest # {}
    BY <1>3, <1>6, <2>2, FS_EmptySet
  <2>4. PICK w \in Nat : w = b * (100 - p)
    <3>1. 100 - p \in Nat
      BY <1>4
    <3>. QED BY <3>1
  <2>5. PICK g : g = EvenSplit(un * w, rest)
    OBVIOUS
  <2>6. SumOn(g, rest) = un * w /\ \A h \in rest : g[h] \in Nat
    BY <1>4, <2>3, <2>5, EvenSplitIsWhole
  <2>7. BurnPercent * (100 - PartitionPercent) * ScoreUnit = un * w
    BY <1>4, <2>4
  <2>8. \A h \in rest : f[h] = g[h]
    BY <1>3, <1>6, <2>1, <2>2, <2>5, <2>7 DEF BurnShare, EvenSplit
  <2>9. PICK v \in Nat : v = b * p * un
    BY <1>4
  <2>10. f[main] = v
    BY <1>3, <1>4, <1>6, <2>9 DEF BurnShare
  <2>11. \A h \in burners : f[h] \in Nat
    BY <2>1, <2>6, <2>8, <2>10
  <2>12. SumOn(f, rest) = SumOn(g, rest)
    BY <2>2, <2>8, SumSame
  <2>13. SumOn(f, burners) = f[main] + SumOn(f, rest)
    BY <1>1, <2>1, <2>11, SumRemove
  <2>14. SumOn(f, burners) = b * p * un + un * (b * (100 - p))
    BY <2>4, <2>6, <2>9, <2>10, <2>12, <2>13
  <2>15. b * p * un + un * (b * (100 - p)) = b * 100 * un
    BY <1>4
  <2>. QED BY <1>2, <1>4, <2>14, <2>15
<1>. QED BY <1>5, <1>6

\* For any hotkeys, coldkeys, paid jobs and answers, and any percentages, a
\* coldkey's score is handed out whole, the classes of a cycle agree on the main
\* hotkey, also after a transaction was rolled back, and the burners share the
\* burn rate (DefaultScoringEngine and apply_dancing_burners).
THEOREM ScoresAlwaysSharedRight == DanceSpec => []ScoresAreSharedRight
<1>1. DanceInv /\ [DanceNext]_danceVars => DanceInv'
  <2>. SUFFICES ASSUME DanceInv, [DanceNext]_danceVars PROVE DanceInv'
    OBVIOUS
  <2>1. ASSUME coldkeyOf' = coldkeyOf, paidScores' = paidScores, previousMain' = previousMain,
               classesDone' = classesDone, shares' = shares, mainUsed' = mainUsed,
               mainRow' = mainRow
        PROVE  DanceInputs' /\ classesDone' \in 0 .. 2 /\ MainsFollowRows' /\ ScoreIsConserved'
    <3>1. DanceInputs' /\ classesDone' \in 0 .. 2 /\ MainsFollowRows'
      BY <2>1 DEF DanceInv, DanceInputs, MainsFollowRows
    <3>2. \A c : HotkeysOf(c)' = HotkeysOf(c)
      BY <2>1 DEF HotkeysOf
    <3>3. /\ \A i, c : GroupScore(i, c)' = GroupScore(i, c)
          /\ \A i : Grouped(i)' = Grouped(i)
          /\ \A c, t, a : WithBonus(c, t, a)' = WithBonus(c, t, a)
      BY <2>1, <3>2 DEF GroupScore, Grouped, WithBonus, Dances
    <3>4. ScoreIsConserved'
      BY <2>1, <3>2, <3>3 DEF DanceInv, ScoreIsConserved
    <3>. QED BY <3>1, <3>4
  <2>2. CASE UNCHANGED danceVars
    BY <2>1, <2>2 DEF danceVars, DanceInv, BurnIsShared
  <2>3. CASE \E k \in Classes2 : ScoreClass(k)
    BY <2>3, ScoreClassInv
  <2>4. CASE ScoringFails
    <3>1. DanceInputs' /\ classesDone' \in 0 .. 2 /\ BurnIsShared'
      BY <2>4 DEF ScoringFails, DanceInv, DanceInputs, BurnIsShared
    <3>2. MainsFollowRows'
      BY <2>4 DEF ScoringFails, MainsFollowRows, Mains
    <3>3. ScoreIsConserved'
      BY <2>4 DEF ScoringFails, ScoreIsConserved
    <3>. QED BY <3>1, <3>2, <3>3 DEF DanceInv
  <2>5. CASE ApplyBurners
    <3>0. PICK burners \in SUBSET DanceHotkeys : \E main \in burners :
            burn' = [h \in burners |-> BurnShare(h, main, burners)]
      BY <2>5 DEF ApplyBurners
    <3>1. PICK main \in burners : burn' = [h \in burners |-> BurnShare(h, main, burners)]
      BY <3>0
    <3>2. SumFunction(burn') = BurnPercent * 100 * ScoreUnit
      BY <3>1, BurnIsWhole
    <3>. QED BY <2>1, <2>5, <3>2 DEF ApplyBurners, DanceInv, BurnIsShared
  <2>. QED BY <2>2, <2>3, <2>4, <2>5 DEF DanceNext
<1>2. DanceInv => ScoresAreSharedRight
  <2>1. MainsFollowRows => ClassesAgreeOnMain
    BY DEF MainsFollowRows, ClassesAgreeOnMain
  <2>. QED BY <2>1 DEF DanceInv, ScoresAreSharedRight
<1>. QED BY <1>1, <1>2, InitDanceInv, PTL DEF DanceSpec

=============================================================================
