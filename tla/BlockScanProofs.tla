--------------------------- MODULE BlockScanProofs ---------------------------
(***************************************************************************)
(* Proofs about the two block scans, for any chain, windows and number of  *)
(* failures.                                                               *)
(***************************************************************************)
EXTENDS BlockScan, SetFacts

-----------------------------------------------------------------------------
(* The inductive invariant *)

Scan == [pc : {"off", "scan"} \cup InTransaction, head : Int, todo : SUBSET Int,
         n : Int, final : SUBSET Int, worked : BOOLEAN]

\* What the variables hold; a scan's list of missing blocks is finite.
ScanTypes ==
    /\ current \in Int
    /\ blocks \subseteq Int
    /\ scan \in [Scanners -> Scan]
    /\ \A s \in Scanners : IsFiniteSet(scan[s].todo)

\* Two open transactions insert different blocks, and none that is committed:
\* the primary key of Block.
KeysAreFree ==
    \A s \in Scanners : scan[s].pc \in InTransaction =>
        /\ scan[s].n \notin blocks
        /\ \A t \in Scanners \ {s} :
              scan[t].pc \in InTransaction => scan[t].n # scan[s].n

\* What a transaction has found to finalise stays right until it commits: its
\* own block has its successor, and the block before it is stored and open,
\* because only the transaction of that block or of this one can end it.
FindingsHold ==
    \A s \in Scanners :
        LET n == scan[s].n
            final == scan[s].final
        IN  /\ scan[s].pc \notin {"sawNext", "sawPrev"} => final = {}
            /\ scan[s].pc = "sawNext" => final \subseteq {n}
            /\ scan[s].pc = "sawPrev" => final \subseteq {n, n - 1}
            /\ scan[s].pc \in InTransaction =>
                 /\ n \in final => n + 1 \in blocks
                 /\ n - 1 \in final => n - 1 \in blocks /\ n - 1 \notin ended

ScanInv ==
    /\ ScanTypes
    /\ KeysAreFree
    /\ FindingsHold
    /\ GrantsFollowBlocks

-----------------------------------------------------------------------------
(* Its proof *)

\* Nothing is stored at first and no scan runs.
LEMMA InitScanInv == ScanInit => ScanInv
<1>. SUFFICES ASSUME ScanInit PROVE ScanInv
  OBVIOUS
<1>1. ScanTypes
  BY ScanConstants, FS_EmptySet
     DEF ScanInit, ScanTypes, Scan, IdleScan
<1>2. \A s \in Scanners : scan[s].pc = "off" /\ scan[s].final = {}
  BY DEF ScanInit, IdleScan
<1>. QED BY <1>1, <1>2 DEF ScanInit, ScanInv, KeysAreFree, FindingsHold,
            GrantsFollowBlocks, GrantedExactlyWhenEnded, EndedHasSuccessor, InTransaction

\* The next block is a number.
LEMMA NextBlockType ==
    ASSUME ScanTypes, NEW s \in Scanners
    PROVE  NextBlock(s) \in Int
<1>1. /\ scan[s].todo \subseteq Int /\ IsFiniteSet(scan[s].todo)
      /\ scan[s].head \in Int
  BY DEF ScanTypes, Scan
<1>2. CASE scan[s].todo # {}
  BY <1>1, <1>2, FiniteMin, FiniteMax DEF NextBlock
<1>3. CASE scan[s].todo = {}
  BY <1>1, <1>3 DEF NextBlock
<1>. QED BY <1>2, <1>3

\* A scan that picks its next block keeps its fields' types.
LEMMA AdvancedType ==
    ASSUME ScanTypes, NEW s \in Scanners
    PROVE  /\ Advanced(s) \in Scan
           /\ Advanced(s).pc = scan[s].pc /\ Advanced(s).final = scan[s].final
           /\ Advanced(s).n = scan[s].n
           /\ IsFiniteSet(Advanced(s).todo)
<1>1. scan[s] \in Scan /\ IsFiniteSet(scan[s].todo)
  BY DEF ScanTypes
<1>2. IsFiniteSet(scan[s].todo \ {NextBlock(s)})
  BY <1>1, FS_RemoveElement
<1>. DEFINE a == scan[s].todo \ {NextBlock(s)}
            h == IF scan[s].todo = {} THEN scan[s].head + 1 ELSE scan[s].head
            r == [scan[s] EXCEPT !.todo = a, !.head = h, !.worked = TRUE]
<1>3. a \in SUBSET Int /\ h \in Int
  BY <1>1 DEF Scan
<1>4. Advanced(s) = r
  BY DEF Advanced
<1>. HIDE DEF a, h
<1>5. /\ r \in Scan /\ r.pc = scan[s].pc /\ r.final = scan[s].final
      /\ r.n = scan[s].n /\ r.todo = a
  BY <1>1, <1>3 DEF Scan
<1>. HIDE DEF r
<1>. QED BY <1>2, <1>4, <1>5 DEF a

\* A new scan's list is finite.
LEMMA MissingType ==
    ASSUME ScanTypes, NEW s \in Scanners, NEW head \in Int
    PROVE  Missing(s, head) \subseteq Int /\ IsFiniteSet(Missing(s, head))
<1>. DEFINE range == IF s = "live"
                     THEN head - BLOCK_LOOKBACK .. head
                     ELSE head - ARCHIVE_MAX_LOOKBACK .. head - ARCHIVE_START_OFFSET
<1>1. IsFiniteSet(range) /\ range \subseteq Int
  BY ScanConstants, FS_Interval
<1>2. Missing(s, head) = range \ blocks
  BY DEF Missing
<1>. HIDE DEF range
<1>. QED BY <1>1, <1>2, FS_Difference

\* A step of one scan that stores no block and opens no transaction keeps the
\* invariant when what it found is right.
LEMMA LocalStep ==
    ASSUME ScanInv, NEW s \in Scanners, NEW r \in Scan, IsFiniteSet(r.todo),
           scan' = [scan EXCEPT ![s] = r],
           UNCHANGED <<current, blocks, ended, granted>>,
           r.pc \in InTransaction =>
              /\ r.n \notin blocks
              /\ \A t \in Scanners \ {s} :
                    scan[t].pc \in InTransaction => scan[t].n # r.n
              /\ r.n \in r.final => r.n + 1 \in blocks
              /\ r.n - 1 \in r.final => r.n - 1 \in blocks /\ r.n - 1 \notin ended,
           r.pc \notin {"sawNext", "sawPrev"} => r.final = {},
           r.pc = "sawNext" => r.final \subseteq {r.n},
           r.pc = "sawPrev" => r.final \subseteq {r.n, r.n - 1}
    PROVE  ScanInv'
<1>1. scan'[s] = r /\ \A t \in Scanners \ {s} : scan'[t] = scan[t]
  BY DEF ScanInv, ScanTypes
<1>2. ScanTypes'
  BY <1>1 DEF ScanInv, ScanTypes
<1>3. KeysAreFree'
  BY <1>1 DEF ScanInv, KeysAreFree
<1>4. FindingsHold'
  <2>1. ASSUME NEW t \in Scanners
        PROVE  LET n == scan'[t].n
                   final == scan'[t].final
               IN  /\ scan'[t].pc \notin {"sawNext", "sawPrev"} => final = {}
                   /\ scan'[t].pc = "sawNext" => final \subseteq {n}
                   /\ scan'[t].pc = "sawPrev" => final \subseteq {n, n - 1}
                   /\ scan'[t].pc \in InTransaction =>
                        /\ n \in final => n + 1 \in blocks
                        /\ n - 1 \in final => n - 1 \in blocks /\ n - 1 \notin ended
    <3>1. CASE t = s
      BY <1>1, <3>1
    <3>2. CASE t # s
      BY <1>1, <3>2 DEF ScanInv, FindingsHold
    <3>. QED BY <3>1, <3>2
  <2>. QED BY <2>1 DEF FindingsHold, InTransaction
<1>5. GrantsFollowBlocks'
  BY DEF ScanInv, GrantsFollowBlocks, GrantedExactlyWhenEnded, EndedHasSuccessor
<1>. QED BY <1>2, <1>3, <1>4, <1>5 DEF ScanInv

\* A scan that leaves its transaction keeps its fields' types.
LEMMA ClosedType ==
    ASSUME NEW r \in Scan
    PROVE  [r EXCEPT !.pc = "scan", !.n = 0, !.final = {}] \in Scan
<1>1. ASSUME NEW p \in {"off", "scan"} \cup InTransaction, NEW m \in Int,
             NEW f \in SUBSET Int
      PROVE  [r EXCEPT !.pc = p, !.n = m, !.final = f] \in Scan
  BY DEF Scan
<1>2. 0 \in Int
  OBVIOUS
<1>. QED BY <1>1, <1>2, Zenon

\* A commit stores its block and ends what it found, once.
LEMMA CommitStep ==
    ASSUME ScanInv, NEW s \in Scanners, CommitBlock(s)
    PROVE  ScanInv'
<1>. DEFINE n == scan[s].n
            final == scan[s].final
<1>0. scan[s] \in Scan /\ n \in Int /\ blocks \subseteq Int
  BY DEF ScanInv, ScanTypes, Scan
<1>1. /\ scan[s].pc = "sawPrev"
      /\ blocks' = blocks \cup {n}
      /\ ended' = ended \cup final
      /\ UNCHANGED current
  BY DEF CommitBlock
<1>2. /\ n \notin blocks
      /\ final \subseteq {n, n - 1}
      /\ n \in final => n + 1 \in blocks
      /\ n - 1 \in final => n - 1 \in blocks /\ n - 1 \notin ended
      /\ \A t \in Scanners \ {s} :
            scan[t].pc \in InTransaction => scan[t].n # n
  BY <1>1 DEF ScanInv, KeysAreFree, FindingsHold, InTransaction
<1>3. /\ \A t \in Scanners \ {s} : scan'[t] = scan[t]
      /\ scan'[s].pc = "scan" /\ scan'[s].todo = scan[s].todo /\ scan'[s].final = {}
      /\ scan' \in [Scanners -> Scan]
  <2>. DEFINE r == [scan[s] EXCEPT !.pc = "scan", !.n = 0, !.final = {}]
  <2>1. scan' = [scan EXCEPT ![s] = r] /\ scan \in [Scanners -> Scan]
    BY <1>0 DEF CommitBlock, ScanInv, ScanTypes, Scan
  <2>2. r \in Scan
    BY <1>0, ClosedType
  <2>3. r.pc = "scan" /\ r.final = {} /\ r.todo = scan[s].todo
    BY <1>0 DEF Scan
  <2>. HIDE DEF r
  <2>. QED BY <2>1, <2>2, <2>3
<1>4. ScanTypes'
  BY <1>0, <1>1, <1>3 DEF ScanInv, ScanTypes
<1>5. KeysAreFree'
  BY <1>1, <1>2, <1>3 DEF ScanInv, KeysAreFree, InTransaction
<1>6. FindingsHold'
  <2>1. ASSUME NEW t \in Scanners \ {s}, scan[t].pc \in InTransaction,
               scan[t].n - 1 \in scan[t].final
        PROVE  scan[t].n - 1 \notin ended'
    <3>1. scan[t].n \in Int /\ scan[t].n # n
      BY <1>2, <2>1 DEF ScanInv, ScanTypes, Scan
    <3>2. scan[t].n - 1 \in blocks /\ scan[t].n - 1 \notin ended
      BY <2>1 DEF ScanInv, FindingsHold
    <3>. QED BY <1>0, <1>1, <1>2, <3>1, <3>2
  <2>2. ASSUME NEW t \in Scanners \ {s}
        PROVE  LET m == scan[t].n
                   fin == scan[t].final
               IN  /\ scan[t].pc \notin {"sawNext", "sawPrev"} => fin = {}
                   /\ scan[t].pc = "sawNext" => fin \subseteq {m}
                   /\ scan[t].pc = "sawPrev" => fin \subseteq {m, m - 1}
                   /\ scan[t].pc \in InTransaction =>
                        /\ m \in fin => m + 1 \in blocks'
                        /\ m - 1 \in fin => m - 1 \in blocks' /\ m - 1 \notin ended'
    BY <1>1, <2>1 DEF ScanInv, FindingsHold
  <2>3. scan'[s].pc \notin InTransaction /\ scan'[s].pc \notin {"sawNext", "sawPrev"}
    BY <1>3 DEF InTransaction
  <2>. QED BY <1>3, <2>2, <2>3 DEF FindingsHold, InTransaction
<1>7. EndedHasSuccessor'
  <2>1. ASSUME NEW e \in ended' PROVE e \in blocks' /\ e + 1 \in blocks'
    <3>1. CASE e \in ended
      BY <1>1, <3>1 DEF ScanInv, GrantsFollowBlocks, EndedHasSuccessor
    <3>2. CASE e \in final
      BY <1>0, <1>1, <1>2, <3>2
    <3>. QED BY <1>1, <3>1, <3>2
  <2>. QED BY <2>1 DEF EndedHasSuccessor
<1>8. GrantedExactlyWhenEnded'
  <2>1. final \cap ended = {}
    BY <1>2 DEF ScanInv, GrantsFollowBlocks, EndedHasSuccessor
  <2>2. \A e \in BlockNumbers : granted[e] = IF e \in ended THEN 1 ELSE 0
    BY DEF ScanInv, GrantsFollowBlocks, GrantedExactlyWhenEnded
  <2>3. \A e \in BlockNumbers :
           granted'[e] = granted[e] + (IF e \in final THEN 1 ELSE 0)
    BY DEF CommitBlock
  <2>. QED BY <1>1, <2>1, <2>2, <2>3 DEF GrantedExactlyWhenEnded
<1>. QED BY <1>4, <1>5, <1>6, <1>7, <1>8 DEF ScanInv, GrantsFollowBlocks

\* Every step of the scans and of the chain keeps the invariant.
LEMMA NextScanInv == ScanInv /\ [ScanNext]_scanVars => ScanInv'
<1>. SUFFICES ASSUME ScanInv, [ScanNext]_scanVars PROVE ScanInv'
  OBVIOUS
<1>0. ScanTypes
  BY DEF ScanInv
<1>1. CASE MintBlock
  BY <1>1 DEF MintBlock, ScanInv, ScanTypes, KeysAreFree, FindingsHold,
              GrantsFollowBlocks, GrantedExactlyWhenEnded, EndedHasSuccessor
<1>2. ASSUME NEW s \in Scanners, ScanStep(s) \/ FailBlock(s) PROVE ScanInv'
  <2>0. /\ scan[s] \in Scan /\ IsFiniteSet(scan[s].todo)
        /\ scan \in [Scanners -> Scan]
    BY <1>0 DEF ScanTypes
  <2>1. IdleScan \in Scan /\ IsFiniteSet(IdleScan.todo) /\ IdleScan.pc = "off"
    BY FS_EmptySet DEF IdleScan, Scan
  <2>2. CASE StartScan(s)
    <3>1. PICK head \in current - HeadLag .. current :
             scan' = [scan EXCEPT ![s] = [IdleScan EXCEPT !.pc = "scan", !.head = head,
                                                          !.todo = Missing(s, head)]]
      BY <2>2 DEF StartScan
    <3>. DEFINE r == [IdleScan EXCEPT !.pc = "scan", !.head = head,
                                      !.todo = Missing(s, head)]
    <3>2. head \in Int
      BY <1>0, ScanConstants DEF ScanTypes
    <3>3. Missing(s, head) \subseteq Int /\ IsFiniteSet(Missing(s, head))
      BY <1>0, <3>2, MissingType
    <3>4. r \in Scan /\ r.pc = "scan" /\ r.todo = Missing(s, head) /\ r.final = {}
      BY <2>1, <3>2, <3>3 DEF Scan, IdleScan
    <3>5. UNCHANGED <<current, blocks, ended, granted>>
      BY <2>2 DEF StartScan
    <3>. HIDE DEF r
    <3>6. scan' = [scan EXCEPT ![s] = r]
      BY <3>1 DEF r
    <3>. QED BY <3>3, <3>4, <3>5, <3>6, LocalStep DEF InTransaction
  <2>3. CASE InsertBlock(s)
    <3>. DEFINE r == [Advanced(s) EXCEPT !.pc = "inserted", !.n = NextBlock(s)]
    <3>1. /\ NextBlock(s) \notin blocks
          /\ \A t \in Scanners \ {s} : ~(scan[t].pc \in InTransaction /\ scan[t].n = NextBlock(s))
          /\ scan[s].pc = "scan"
          /\ scan' = [scan EXCEPT ![s] = r]
          /\ UNCHANGED <<current, blocks, ended, granted>>
      BY <2>3 DEF InsertBlock
    <3>2. /\ Advanced(s) \in Scan /\ Advanced(s).final = scan[s].final
          /\ IsFiniteSet(Advanced(s).todo) /\ NextBlock(s) \in Int
      BY <1>0, AdvancedType, NextBlockType
    <3>3. scan[s].final = {}
      BY <3>1 DEF ScanInv, FindingsHold
    <3>4. /\ r \in Scan /\ r.pc = "inserted" /\ r.n = NextBlock(s) /\ r.final = {}
          /\ r.todo = Advanced(s).todo
      BY <3>2, <3>3 DEF Scan, InTransaction
    <3>. HIDE DEF r
    <3>. QED BY <3>1, <3>2, <3>4, LocalStep, ZenonT(60)
  <2>4. CASE AlreadyProcessed(s)
    <3>. DEFINE r == Advanced(s)
    <3>1. /\ scan[s].pc = "scan" /\ scan' = [scan EXCEPT ![s] = r]
          /\ UNCHANGED <<current, blocks, ended, granted>>
      BY <2>4 DEF AlreadyProcessed
    <3>2. r \in Scan /\ r.final = scan[s].final /\ r.pc = scan[s].pc /\ IsFiniteSet(r.todo)
      BY <1>0, AdvancedType
    <3>3. scan[s].final = {}
      BY <3>1 DEF ScanInv, FindingsHold
    <3>. HIDE DEF r
    <3>. QED BY <3>1, <3>2, <3>3, LocalStep DEF InTransaction
  <2>5. CASE LookForNext(s)
    <3>. DEFINE n == scan[s].n
                found == IF n + 1 \in blocks THEN {n} ELSE {}
                r == [scan[s] EXCEPT !.pc = "sawNext", !.final = found]
    <3>1. /\ scan[s].pc = "inserted" /\ scan' = [scan EXCEPT ![s] = r]
          /\ UNCHANGED <<current, blocks, ended, granted>>
      BY <2>0, <2>5 DEF LookForNext, Scan
    <3>2. found \subseteq {n} /\ (n \in found => n + 1 \in blocks) /\ n \in Int
      BY <2>0 DEF Scan
    <3>. HIDE DEF found
    <3>3. /\ r \in Scan /\ r.pc = "sawNext" /\ r.n = n /\ r.final = found
          /\ r.todo = scan[s].todo
      BY <2>0, <3>2 DEF Scan, InTransaction
    <3>4. /\ n \notin blocks
          /\ \A t \in Scanners \ {s} : scan[t].pc \in InTransaction => scan[t].n # n
      BY <3>1 DEF ScanInv, KeysAreFree, InTransaction
    <3>5. n - 1 \notin found
      BY <3>2
    <3>. HIDE DEF r, n
    <3>. QED BY <2>0, <3>1, <3>2, <3>3, <3>4, <3>5, LocalStep
  <2>6. CASE LookForPrev(s)
    <3>. DEFINE n == scan[s].n
                found == IF n - 1 \in blocks /\ n - 1 \notin ended
                         THEN scan[s].final \cup {n - 1} ELSE scan[s].final
                r == [scan[s] EXCEPT !.pc = "sawPrev", !.final = found]
    <3>1. /\ scan[s].pc = "sawNext" /\ scan' = [scan EXCEPT ![s] = r]
          /\ UNCHANGED <<current, blocks, ended, granted>>
      BY <2>0, <2>6 DEF LookForPrev, Scan
    <3>2. /\ n \notin blocks
          /\ \A t \in Scanners \ {s} : scan[t].pc \in InTransaction => scan[t].n # n
          /\ scan[s].final \subseteq {n} /\ (n \in scan[s].final => n + 1 \in blocks)
          /\ n \in Int
      BY <2>0, <3>1 DEF ScanInv, KeysAreFree, FindingsHold, InTransaction, Scan
    <3>3. /\ found \subseteq {n, n - 1} /\ found \subseteq Int
          /\ n \in found => n + 1 \in blocks
          /\ n - 1 \in found => n - 1 \in blocks /\ n - 1 \notin ended
      BY <3>2
    <3>. HIDE DEF found
    <3>4. /\ r \in Scan /\ r.pc = "sawPrev" /\ r.n = n /\ r.final = found
          /\ r.todo = scan[s].todo
      BY <2>0, <3>3 DEF Scan, InTransaction
    <3>. HIDE DEF r, n
    <3>. QED BY <2>0, <3>1, <3>2, <3>3, <3>4, LocalStep
  <2>7. CASE CommitBlock(s)
    BY <2>7, CommitStep
  <2>8. CASE EndScan(s)
    <3>1. /\ scan' = [scan EXCEPT ![s] = IdleScan]
          /\ UNCHANGED <<current, blocks, ended, granted>>
      BY <2>8 DEF EndScan
    <3>2. IdleScan.final = {}
      BY DEF IdleScan
    <3>. QED BY <2>1, <3>1, <3>2, LocalStep DEF InTransaction
  <2>9. CASE FailBlock(s)
    <3>. DEFINE r == [scan[s] EXCEPT !.pc = "scan", !.n = 0, !.final = {}]
    <3>1. UNCHANGED <<current, blocks, ended, granted>>
      BY <2>9 DEF FailBlock
    <3>2. CASE scan' = [scan EXCEPT ![s] = IdleScan]
      <4>1. IdleScan.final = {}
        BY DEF IdleScan
      <4>. QED BY <2>1, <3>1, <3>2, <4>1, LocalStep DEF InTransaction
    <3>3. CASE scan' = [scan EXCEPT ![s] = r]
      <4>1. r \in Scan
        BY <2>0, ClosedType
      <4>2. r.pc = "scan" /\ r.final = {} /\ r.todo = scan[s].todo
        BY <2>0 DEF Scan
      <4>. HIDE DEF r
      <4>. QED BY <2>0, <3>1, <3>3, <4>1, <4>2, LocalStep DEF InTransaction
    <3>4. \/ scan' = [scan EXCEPT ![s] = IdleScan]
          \/ scan' = [scan EXCEPT ![s] = r]
      BY <2>0, <2>9 DEF FailBlock, Scan
    <3>. QED BY <3>2, <3>3, <3>4
  <2>. QED BY <1>2, <2>2, <2>3, <2>4, <2>5, <2>6, <2>7, <2>8, <2>9 DEF ScanStep
<1>3. CASE UNCHANGED scanVars
  BY <1>3 DEF scanVars, ScanInv, ScanTypes, KeysAreFree, FindingsHold,
              GrantsFollowBlocks, GrantedExactlyWhenEnded, EndedHasSuccessor
<1>. QED BY <1>1, <1>2, <1>3 DEF ScanNext

\* However the scans interleave and fail, a block's allowance is granted once,
\* exactly when the block is finalised, and only when its successor is stored.
THEOREM GrantsAlwaysFollowBlocks == ScanSpec => []GrantsFollowBlocks
<1>1. ScanInv => GrantsFollowBlocks
  BY DEF ScanInv
<1>. QED BY <1>1, InitScanInv, NextScanInv, PTL DEF ScanSpec
=============================================================================
