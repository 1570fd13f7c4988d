-------------------------- MODULE LedgerCertificates --------------------------
(***************************************************************************)
(* Financial certificates over a running ledger: src/finance.rs and the    *)
(* certificate baseline of src/budget.rs.                                  *)
(*                                                                         *)
(* certify_ledger freezes a snapshot under the exclusive checkpoint guard, *)
(* lets go of it, and later rotates the baseline under the baseline's own  *)
(* mutex: two steps, between which other callers spend, certify, read and  *)
(* restore.  committed_since_last_certificate also reads in two steps, the *)
(* total and then the baseline.  The digest, a function of the frozen      *)
(* snapshot alone, is left out.                                            *)
(*                                                                         *)
(* certified and base are history: what all certificates since the last    *)
(* restore (or the start) report as spent, and the baseline at that point. *)
(***************************************************************************)
EXTENDS Sums

CONSTANTS
  TenantCount,       \* tenants are 1..TenantCount
  MaxI64,            \* i64::MAX
  Callers,           \* callers of certify_ledger and of the reader
  ExclusiveRecovery  \* whether no caller is inside a call when a restore runs

ASSUME ConstantsAssumption ==
  /\ TenantCount \in Nat
  /\ MaxI64 \in Nat
  /\ ExclusiveRecovery \in BOOLEAN

Tenants == 1..TenantCount

VARIABLES
  initials,   \* initial_microcents
  committed,  \* committed_microcents
  saved,      \* a snapshot the application kept: the two maps above
  baseline,   \* last_certified_committed_total
  pc,         \* pc[c]: "idle", "rotate" or "subtract"
  frozen,     \* frozen[c]: the totals caller c has read
  since,      \* the last value committed_since_last_certificate returned
  certified, base

ledger == <<initials, committed>>
certVars == <<ledger, saved, baseline, pc, frozen, since, certified, base>>

NoTotals == [ok |-> FALSE, committed |-> 0]

CertInit ==
  /\ initials = [x \in Tenants |-> 0]
  /\ committed = [x \in Tenants |-> 0]
  /\ saved = [initials |-> initials, committed |-> committed]
  /\ baseline = 0
  /\ pc = [c \in Callers |-> "idle"]
  /\ frozen = [c \in Callers |-> NoTotals]
  /\ since = 0
  /\ certified = 0
  /\ base = 0

Goto(c, label, totals) ==
  /\ pc' = [pc EXCEPT ![c] = label]
  /\ frozen' = [frozen EXCEPT ![c] = totals]

-----------------------------------------------------------------------------
Total(f) == Sum(f, TenantCount)

\* Both sums must be representable, or the certificate carries no totals.
SnapshotTotals ==
  LET ok == Total(initials) <= MaxI64 /\ Total(committed) <= MaxI64
  IN  [ok |-> ok, committed |-> IF ok THEN Total(committed) ELSE 0]

\* The checked sum of a restore and of the reader saturates.
Saturated(f) == IF Total(f) <= MaxI64 THEN Total(f) ELSE MaxI64

\* Grants and commits of the engine, as far as the totals see them.
Grant(x, amount) ==
  /\ initials[x] + amount <= MaxI64
  /\ initials' = [initials EXCEPT ![x] = @ + amount]
  /\ UNCHANGED <<committed, saved, baseline, pc, frozen, since, certified, base>>

Spend(x, amount) ==
  /\ committed[x] + amount <= initials[x]
  /\ committed' = [committed EXCEPT ![x] = @ + amount]
  /\ UNCHANGED <<initials, saved, baseline, pc, frozen, since, certified, base>>

Snapshot ==
  /\ saved' = [initials |-> initials, committed |-> committed]
  /\ UNCHANGED <<ledger, baseline, pc, frozen, since, certified, base>>

Restore ==
  /\ ExclusiveRecovery => \A c \in Callers : pc[c] = "idle"
  /\ initials' = saved.initials
  /\ committed' = saved.committed
  /\ baseline' = Saturated(saved.committed)
  /\ certified' = 0
  /\ base' = Saturated(saved.committed)
  /\ UNCHANGED <<saved, pc, frozen, since>>

-----------------------------------------------------------------------------
\* certify_ledger, first step: the frozen snapshot and its totals.
CertifyFreeze(c) ==
  /\ pc[c] = "idle"
  /\ Goto(c, "rotate", SnapshotTotals)
  /\ UNCHANGED <<ledger, saved, baseline, since, certified, base>>

\* A slip of the translation: a smaller total moves the baseline back.
CertifyRotateBack(c) ==
  /\ pc[c] = "rotate"
  /\ IF frozen[c].ok
     THEN /\ baseline' = frozen[c].committed
          /\ certified' = certified + (IF frozen[c].committed <= baseline THEN 0
                                       ELSE frozen[c].committed - baseline)
     ELSE UNCHANGED <<baseline, certified>>
  /\ Goto(c, "idle", NoTotals)
  /\ UNCHANGED <<ledger, saved, since, base>>

\* certify_ledger, second step: the certificate reports what the baseline moved
\* by, nothing when another certificate already covers the frozen total.
CertifyRotate(c) ==
  /\ pc[c] = "rotate"
  /\ IF frozen[c].ok /\ frozen[c].committed > baseline
     THEN /\ baseline' = frozen[c].committed
          /\ certified' = certified + (frozen[c].committed - baseline)
     ELSE UNCHANGED <<baseline, certified>>
  /\ Goto(c, "idle", NoTotals)
  /\ UNCHANGED <<ledger, saved, since, base>>

\* committed_since_last_certificate reads the total, then the baseline.
SinceTotal(c) ==
  /\ pc[c] = "idle"
  /\ Goto(c, "subtract", [ok |-> TRUE, committed |-> Saturated(committed)])
  /\ UNCHANGED <<ledger, saved, baseline, since, certified, base>>

SinceSubtract(c) ==
  /\ pc[c] = "subtract"
  /\ since' = frozen[c].committed - baseline
  /\ Goto(c, "idle", NoTotals)
  /\ UNCHANGED <<ledger, saved, baseline, certified, base>>

CertNext ==
  \/ \E x \in Tenants, amount \in 1..MaxI64 : Grant(x, amount) \/ Spend(x, amount)
  \/ Snapshot
  \/ Restore
  \/ \E c \in Callers :
       CertifyFreeze(c) \/ CertifyRotate(c) \/ SinceTotal(c) \/ SinceSubtract(c)

CertSpec == CertInit /\ [][CertNext]_certVars

-----------------------------------------------------------------------------
Amounts == [Tenants -> 0..MaxI64]

\* Every counter is an i64; the reported difference never leaves the range of
\* i64, so that saturating_sub never saturates.
CertTypeOK ==
  /\ initials \in Amounts
  /\ committed \in Amounts
  /\ saved \in [initials : Amounts, committed : Amounts]
  /\ baseline \in 0..MaxI64
  /\ pc \in [Callers -> {"idle", "rotate", "subtract"}]
  /\ frozen \in [Callers -> [ok : BOOLEAN, committed : 0..MaxI64]]
  /\ since \in -MaxI64..MaxI64
  /\ certified \in 0..MaxI64
  /\ base \in 0..MaxI64

\* The certificates issued since the last restore report exactly what the
\* baseline has advanced by, and never more than the ledger has really spent:
\* however certify_ledger calls overlap, no spend is reported twice.
SpendCertifiedOnce ==
  /\ certified = baseline - base
  /\ baseline <= Total(committed)
=============================================================================
