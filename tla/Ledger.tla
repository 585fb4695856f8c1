------------------------------- MODULE Ledger -------------------------------
(***************************************************************************)
(* What the allowance ledger promises, whatever its tables look like.  A   *)
(* slot is the allowance of one miner in one block.  It is granted once,   *)
(* is held by at most one job at a time, is given back or spent as one     *)
(* with the other slots of that job, and spending is final.  A slot that   *)
(* was voided is never taken by a new job.  In the end it lapses, and is   *)
(* not granted again.  Allowance implements this specification.            *)
(***************************************************************************)
EXTENDS Integers

CONSTANT Slots  \* <<miner, block>> pairs

VARIABLES slot, \* slot -> its state, the job that has it, whether it is void
          last  \* the last job number given out

ledgerVars == <<slot, last>>

NoJob == 0
Mark(st, j, void) == [st |-> st, by |-> j, void |-> void]

LedgerInit ==
  /\ slot \in [Slots -> {Mark("none", NoJob, FALSE), Mark("gone", NoJob, FALSE)}]
  /\ last = 0

\* Slots move one by one, or stay.
Each(Move(_, _)) ==
  /\ DOMAIN slot' = Slots
  /\ \A s \in Slots : slot'[s] = slot[s] \/ Move(slot[s], slot'[s])

Granted(a, b) == a.st = "none" /\ b \in {Mark("free", NoJob, FALSE), Mark("free", NoJob, TRUE)}
Voided(a, b) == a.st # "none" /\ b = [a EXCEPT !.void = TRUE]
Lapsed(a, b) == b = Mark("gone", NoJob, FALSE)

Grant == UNCHANGED last /\ Each(Granted)
Void == UNCHANGED last /\ Each(Voided)
Lapse == UNCHANGED last /\ Each(Lapsed)

\* A new job takes slots of one miner.
Hold ==
  /\ last' = last + 1
  /\ DOMAIN slot' = Slots
  /\ \E t \in Slots : \A s \in Slots :
       \/ slot'[s] = slot[s]
       \/ /\ s[1] = t[1] /\ slot[s] = Mark("free", NoJob, FALSE)
          /\ slot'[s] = Mark("held", last', FALSE)

HeldBy(j, s) == slot[s].st = "held" /\ slot[s].by = j

\* All that the job holds, together.
Release(j) ==
  /\ UNCHANGED last
  /\ slot' = [s \in Slots |-> IF HeldBy(j, s) THEN Mark("free", NoJob, slot[s].void) ELSE slot[s]]

Spend(j) ==
  /\ UNCHANGED last
  /\ slot' = [s \in Slots |-> IF HeldBy(j, s) THEN [slot[s] EXCEPT !.st = "spent"] ELSE slot[s]]

LedgerNext ==
  \/ Grant \/ Void \/ Lapse \/ Hold
  \/ \E j \in 1..last : Release(j) \/ Spend(j)

LedgerSpec == LedgerInit /\ [][LedgerNext]_ledgerVars
=============================================================================
