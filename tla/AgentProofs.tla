------------------------------ MODULE AgentProofs ------------------------------
(***************************************************************************)
(* Machine-checked theorems about the agent budget, for any calls, names,  *)
(* budgets, amounts and capacities, and about owned reservations, which    *)
(* are an instance here: their theorem assumes what module                 *)
(* OwnedReservation assumes of its constants.                              *)
(*                                                                         *)
(* The invariant of the agent budget relates every entry of the registry   *)
(* to the hold, the settled amount and the call that belong to it.         *)
(***************************************************************************)
EXTENDS AgentBudget, SumsProofs

Call == [attempt : Nat, at : {"operation", "except"}]
Record == [tenant : {Run}, amount : Amounts]

Overran(e) == e.actual # None /\ e.actual > e.reserved

\* What the status of an entry says of its amounts.
EntryOK(e) ==
  /\ e.status \in {"running", "uncertain"} => e.actual = None
  /\ e.status = "committed" => e.actual # None /\ ~Overran(e)
  /\ e.status \in {"overrun_settled", "overrun_unsettled", "corrected"} => Overran(e)
  /\ e.status = "released" => e.actual = 0
  /\ e.status = "corrected" <=> e.corrected # None

LedgerTypes ==
  /\ available \in [{Run} -> Nat] /\ spent \in [{Run} -> Nat]
  /\ holds \in [Ids -> Record \cup {None}]

AttemptsInv ==
  /\ attempts \in Seq(Entry) /\ Len(attempts) <= MaxAttempts
  /\ \A a \in Admitted : EntryOK(attempts[a])

\* The hold of an attempt has its number, and is open until the attempt is settled.
HoldsInv ==
  /\ \A a \in Admitted :
       IF attempts[a].status \in Settled THEN attempts[a].hold = None
       ELSE attempts[a].hold = a /\ holds[a] = [tenant |-> Run, amount |-> attempts[a].reserved]
  /\ \A i \in Ids : holds[i] # None => i \in Admitted /\ attempts[i].hold = i

SpendInv == spent[Run] = Sum([a \in 1..MaxAttempts |-> Charged(a)], MaxAttempts)

ClosedInv == closed \in {None, "explicit", "overrun"} /\ OverrunClosesRun

HistoryInv ==
  /\ denied \in Seq(Names) /\ deniedTotal \in Nat /\ largest \in Nat
  /\ HistoryIsExact

\* The books of a run.
AccountInv == LedgerTypes /\ AttemptsInv /\ HoldsInv /\ SpendInv /\ ClosedInv /\ HistoryInv

\* An attempt is executed by at most one call, which still runs the operation only if the
\* attempt is running.
CallsInv ==
  /\ calls \in [Calls -> Call \cup {None}]
  /\ \A c \in Calls : calls[c] # None =>
       /\ calls[c].attempt \in Admitted
       /\ calls[c].at = "operation" => attempts[calls[c].attempt].status = "running"
  /\ \A c, d \in Calls :
       calls[c] # None /\ calls[d] # None /\ calls[c].attempt = calls[d].attempt => c = d
  /\ \A a \in Admitted : attempts[a].status = "running" =>
       \E c \in Calls : calls[c] # None /\ calls[c].attempt = a

AgentInv == AccountInv /\ CallsInv

-----------------------------------------------------------------------------
\* What an entry costs once it is settled.
ChargeOf(e) == IF e.corrected # None THEN e.corrected ELSE e.actual

\* There is one reservation id per attempt.
LEMMA AgentIds == Ids = 1..MaxAttempts
BY AgentAssumption DEF Ids, Engine!Ids

\* The fields of an entry of the registry, and what a settled one was charged.
LEMMA EntryTyped ==
  ASSUME NEW e \in Entry
  PROVE  /\ e.reserved \in Nat /\ e.status \in Status
         /\ e.actual # None => e.actual \in Nat
         /\ e.corrected # None => e.corrected \in Nat
         /\ EntryOK(e) /\ e.status \in Settled => ChargeOf(e) \in Nat
<1>1. /\ e.reserved \in Nat /\ e.status \in Status
      /\ e.actual # None => e.actual \in Nat
      /\ e.corrected # None => e.corrected \in Nat
  <2>1. /\ e.reserved \in Amounts /\ e.status \in Status
        /\ e.actual \in Amounts \cup {0, None} /\ e.corrected \in Amounts \cup {None}
    BY Zenon DEF Entry
  <2>2. \A x \in Amounts : x \in Nat
    BY Zenon, AgentAssumption
  <2> QED BY <2>1, <2>2
<1>2. ASSUME EntryOK(e), e.status \in Settled, e.corrected = None PROVE e.actual # None
  <2>1. e.status \in {"committed", "overrun_settled", "released"} /\ 0 # None
    BY <1>2, AgentAssumption DEF EntryOK, Settled
  <2> QED BY Zenon, <1>2, <2>1 DEF EntryOK, Overran
<1> QED BY Zenon, <1>1, <1>2 DEF ChargeOf

\* Charges are numbers.
LEMMA ChargedTyped ==
  ASSUME AttemptsInv
  PROVE  [a \in 1..MaxAttempts |-> Charged(a)] \in [1..MaxAttempts -> Int]
<1> SUFFICES ASSUME NEW a \in 1..MaxAttempts PROVE Charged(a) \in Int
  BY Zenon
<1>1. CASE a \in Admitted /\ attempts[a].status \in Settled
  <2>1. attempts[a] \in Entry /\ EntryOK(attempts[a])
    BY <1>1 DEF AttemptsInv, Admitted
  <2>2. ChargeOf(attempts[a]) \in Nat
    BY Zenon, <1>1, <2>1, EntryTyped
  <2> QED BY <1>1, <2>2 DEF Charged, ChargeOf
<1>2. CASE ~(a \in Admitted /\ attempts[a].status \in Settled)
  BY <1>2 DEF Charged
<1> QED BY Zenon, <1>1, <1>2

\* The registry when one entry is replaced.
LEMMA EntryReplaced ==
  ASSUME AttemptsInv, NEW a \in Admitted, NEW f \in Entry, EntryOK(f),
         attempts' = [attempts EXCEPT ![a] = f]
  PROVE  /\ AttemptsInv' /\ Admitted' = Admitted /\ attempts'[a] = f
         /\ \A b \in Admitted : b # a => attempts'[b] = attempts[b]
<1>1. attempts \in Seq(Entry) /\ Len(attempts) <= MaxAttempts /\ a \in DOMAIN attempts
  BY Zenon DEF AttemptsInv, Admitted
<1>2. attempts' \in Seq(Entry) /\ Len(attempts') = Len(attempts) /\ DOMAIN attempts' = DOMAIN attempts
  BY <1>1
<1>3. attempts'[a] = f /\ \A b \in DOMAIN attempts : b # a => attempts'[b] = attempts[b]
  BY Zenon, <1>1
<1>4. AttemptsInv'
  BY Zenon, <1>1, <1>2, <1>3 DEF AttemptsInv, Admitted
<1> QED BY Zenon, <1>2, <1>3, <1>4 DEF Admitted

\* An attempt that is not settled keeps its hold.
LEMMA StatusMoves ==
  ASSUME AccountInv, NEW a \in Admitted, attempts[a].status \notin Settled, NEW f \in Entry, EntryOK(f),
         attempts' = [attempts EXCEPT ![a] = f], f.reserved = attempts[a].reserved,
         f.status \notin Settled, f.hold = attempts[a].hold, UNCHANGED <<available, spent, holds>>
  PROVE  LedgerTypes' /\ AttemptsInv' /\ HoldsInv' /\ SpendInv'
<1>1. /\ AttemptsInv' /\ Admitted' = Admitted /\ attempts'[a] = f
      /\ \A b \in Admitted : b # a => attempts'[b] = attempts[b]
  BY Zenon, EntryReplaced DEF AccountInv
<1>2. LedgerTypes'
  BY Zenon DEF AccountInv, LedgerTypes
<1>3. HoldsInv'
  BY <1>1 DEF AccountInv, HoldsInv
<1>4. \A b \in 1..MaxAttempts : Charged(b)' = Charged(b)
  BY <1>1 DEF Charged
<1>5. SpendInv'
  BY Zenon, <1>4 DEF AccountInv, SpendInv
<1> QED BY Zenon, <1>1, <1>2, <1>3, <1>5

\* An attempt that is settled gives its hold back and is charged.
LEMMA AttemptSettles ==
  ASSUME AccountInv, NEW a \in Admitted, attempts[a].status \notin Settled, NEW f \in Entry, EntryOK(f),
         attempts' = [attempts EXCEPT ![a] = f], f.reserved = attempts[a].reserved,
         f.status \in Settled, f.hold = None, holds' = [holds EXCEPT ![a] = None],
         available' \in [{Run} -> Nat], spent' = [spent EXCEPT ![Run] = @ + ChargeOf(f)]
  PROVE  LedgerTypes' /\ AttemptsInv' /\ HoldsInv' /\ SpendInv'
<1>1. /\ AttemptsInv' /\ Admitted' = Admitted /\ attempts'[a] = f
      /\ \A b \in Admitted : b # a => attempts'[b] = attempts[b]
  BY Zenon, EntryReplaced DEF AccountInv
<1>2. a \in 1..MaxAttempts /\ Ids = 1..MaxAttempts /\ MaxAttempts \in Nat
  BY AgentIds, AgentAssumption DEF AccountInv, AttemptsInv, Admitted
<1>3. ChargeOf(f) \in Nat
  BY Zenon, EntryTyped
<1>4. LedgerTypes'
  <2>1. spent' \in [{Run} -> Nat]
    BY <1>3 DEF AccountInv, LedgerTypes
  <2>2. holds' \in [Ids -> Record \cup {None}]
    BY Zenon DEF AccountInv, LedgerTypes
  <2> QED BY Zenon, <2>1, <2>2 DEF LedgerTypes
<1>5. holds'[a] = None /\ \A i \in Ids : i # a => holds'[i] = holds[i]
  BY Zenon, <1>2 DEF AccountInv, LedgerTypes
<1>6. HoldsInv'
  <2>1. ASSUME NEW b \in Admitted
        PROVE  IF attempts'[b].status \in Settled THEN attempts'[b].hold = None
               ELSE /\ attempts'[b].hold = b
                    /\ holds'[b] = [tenant |-> Run, amount |-> attempts'[b].reserved]
    <3>1. CASE b = a
      BY Zenon, <1>1, <3>1
    <3>2. CASE b # a
      <4>1. b \in Ids
        BY <1>2 DEF AccountInv, AttemptsInv, Admitted
      <4> QED BY <1>1, <1>5, <3>2, <4>1 DEF AccountInv, HoldsInv
    <3> QED BY Zenon, <3>1, <3>2
  <2>2. ASSUME NEW i \in Ids, holds'[i] # None PROVE i \in Admitted /\ attempts'[i].hold = i
    BY Zenon, <1>1, <1>5, <2>2 DEF AccountInv, HoldsInv
  <2> QED BY Zenon, <1>1, <2>1, <2>2 DEF HoldsInv
<1>7. SpendInv'
  <2> DEFINE before == [b \in 1..MaxAttempts |-> Charged(b)]
             after == [b \in 1..MaxAttempts |-> Charged(b)']
  <2>1. before \in [1..MaxAttempts -> Int]
    BY Zenon, ChargedTyped DEF AccountInv
  <2>2. before[a] = 0 /\ after[a] = ChargeOf(f)
    BY <1>1, <1>2 DEF Charged, ChargeOf
  <2>3. \A b \in 1..MaxAttempts : b # a => after[b] = before[b]
    BY <1>1 DEF Charged
  <2>4. after \in [1..MaxAttempts -> Int]
    BY <1>2, <1>3, <2>1, <2>2, <2>3
  <2> HIDE DEF before, after
  <2>5. Sum(after, MaxAttempts) = Sum(before, MaxAttempts) + ChargeOf(f)
    <3>1. Sum(after, MaxAttempts) = Sum(before, MaxAttempts) - before[a] + after[a]
      BY Zenon, <1>2, <2>1, <2>3, <2>4, SumUpdate
    <3>2. Sum(before, MaxAttempts) \in Int
      BY Zenon, <1>2, <2>1, SumType
    <3> QED BY <1>3, <2>2, <3>1, <3>2
  <2>6. spent'[Run] = spent[Run] + ChargeOf(f)
    BY Zenon DEF AccountInv, LedgerTypes
  <2>7. spent[Run] = Sum(before, MaxAttempts)
    BY Zenon DEF AccountInv, SpendInv, before
  <2> QED BY Zenon, <2>5, <2>6, <2>7 DEF SpendInv, after
<1> QED BY Zenon, <1>1, <1>4, <1>6, <1>7

-----------------------------------------------------------------------------
\* What is known of an attempt that is not settled.
LEMMA Unsettled ==
  ASSUME AccountInv, NEW a \in Admitted, attempts[a].status \notin Settled
  PROVE  /\ a \in Ids /\ a # None /\ attempts[a] \in Entry /\ EntryOK(attempts[a])
         /\ attempts[a].hold = a /\ attempts[a].corrected = None
         /\ attempts[a].reserved \in Nat /\ available[Run] \in Nat
         /\ holds[a] = [tenant |-> Run, amount |-> attempts[a].reserved] /\ holds[a] # None
<1>1. a \in Ids /\ a # None /\ attempts[a] \in Entry /\ EntryOK(attempts[a])
  BY AgentIds, AgentAssumption DEF AccountInv, AttemptsInv, Admitted
<1>2. attempts[a].hold = a /\ holds[a] = [tenant |-> Run, amount |-> attempts[a].reserved]
  BY Zenon DEF AccountInv, HoldsInv
<1>3. attempts[a].corrected = None
  BY Zenon, <1>1 DEF EntryOK, Settled
<1>4. attempts[a].reserved \in Nat /\ attempts[a].reserved \in Amounts
  BY Zenon, <1>1, EntryTyped DEF Entry
<1>5. holds[a] # None
  BY <1>2, <1>4, AgentAssumption
<1>6. available[Run] \in Nat
  BY Zenon DEF AccountInv, LedgerTypes
<1> QED BY Zenon, <1>1, <1>2, <1>3, <1>4, <1>5, <1>6

\* What a commit of the engine does to the ledger of a run.
LEMMA EngineCommits ==
  ASSUME AccountInv, NEW a \in Admitted, attempts[a].status \notin Settled, NEW actual \in Nat,
         Pays(a, actual), Engine!Commit(a, actual)
  PROVE  /\ holds' = [holds EXCEPT ![a] = None] /\ available' \in [{Run} -> Nat]
         /\ spent' = [spent EXCEPT ![Run] = @ + actual]
<1>1. /\ holds[a] = [tenant |-> Run, amount |-> attempts[a].reserved]
      /\ attempts[a].reserved \in Nat /\ available[Run] \in Nat
  BY Zenon, Unsettled
<1>2. holds[a].tenant = Run /\ holds[a].amount = attempts[a].reserved
  BY <1>1
<1>3. /\ holds' = [holds EXCEPT ![a] = None]
      /\ spent' = [spent EXCEPT ![Run] = @ + actual]
      /\ available' = [available EXCEPT ![Run] = @ + attempts[a].reserved - actual]
  BY Zenon, <1>2 DEF Engine!Commit
<1>4. available[Run] + attempts[a].reserved - actual \in Nat
  BY <1>1, <1>2 DEF Pays
<1>5. available' \in [{Run} -> Nat]
  BY Zenon, <1>3, <1>4 DEF AccountInv, LedgerTypes
<1> QED BY Zenon, <1>3, <1>5

\* A settlement: paid and charged, or recorded as a debt.
LEMMA SettleKeeps ==
  ASSUME AccountInv, NEW a \in Admitted, attempts[a].status \notin Settled, NEW actual \in Amounts,
         attempts[a].actual \in {None, actual}, Settle(a, actual)
  PROVE  /\ AccountInv' /\ Admitted' = Admitted
         /\ attempts'[a].status # "running" /\ attempts'[a].actual = actual
         /\ \A b \in Admitted : b # a => attempts'[b] = attempts[b]
<1> DEFINE e == attempts[a]
           overrun == actual > e.reserved
           paid == Pays(a, actual)
           f == [e EXCEPT !.actual = actual, !.status = StatusAfter(overrun, paid),
                          !.hold = IF paid THEN None ELSE a]
<1>1. /\ a \in Ids /\ a # None /\ e \in Entry /\ EntryOK(e) /\ e.hold = a /\ e.corrected = None
      /\ e.reserved \in Nat /\ available[Run] \in Nat
      /\ holds[a] = [tenant |-> Run, amount |-> e.reserved] /\ holds[a] # None
  BY Zenon, Unsettled
<1>2. actual \in Nat /\ actual # None
  BY AgentAssumption
<1>3. ~overrun => paid
  BY <1>1, <1>2 DEF Pays
<1>4. /\ attempts' = [attempts EXCEPT ![a] = f]
      /\ closed' = ClosedAfter(overrun, paid) /\ largest' = LargestAfter(actual, paid)
      /\ UNCHANGED history
      /\ IF paid THEN Engine!Commit(a, actual) ELSE UNCHANGED ledger
  BY Zenon, <1>1 DEF Settle
<1>5. /\ f.name = e.name /\ f.reserved = e.reserved /\ f.actual = actual /\ f.corrected = None
      /\ f.status = StatusAfter(overrun, paid) /\ f.hold = IF paid THEN None ELSE a
  BY Zenon, <1>1 DEF Entry
<1>6. f \in Entry
  <2>1. StatusAfter(overrun, paid) \in Status
    BY Zenon DEF StatusAfter, Status, Settled, Unresolved
  <2> QED BY Zenon, <1>1, <2>1 DEF Entry
<1>7. Overran(f) <=> overrun
  BY Zenon, <1>2, <1>5 DEF Overran
<1>8. EntryOK(f)
  <2>1. f.status = IF paid THEN IF overrun THEN "overrun_settled" ELSE "committed"
                   ELSE "overrun_unsettled"
    BY Zenon, <1>3, <1>5 DEF StatusAfter
  <2> HIDE DEF f, overrun, paid
  <2> QED BY Zenon, <1>2, <1>3, <1>5, <1>7, <2>1 DEF EntryOK
<1> HIDE DEF f, overrun, paid
<1>9. /\ Admitted' = Admitted /\ attempts'[a] = f
      /\ \A b \in Admitted : b # a => attempts'[b] = attempts[b]
  BY Zenon, <1>4, <1>6, <1>8, EntryReplaced DEF AccountInv
<1>10. LedgerTypes' /\ AttemptsInv' /\ HoldsInv' /\ SpendInv'
  <2>1. CASE paid
    <3>1. /\ holds' = [holds EXCEPT ![a] = None] /\ available' \in [{Run} -> Nat]
          /\ spent' = [spent EXCEPT ![Run] = @ + actual]
      BY Zenon, <1>2, <1>4, <2>1, EngineCommits DEF paid
    <3>2. f.status \in Settled /\ f.hold = None /\ ChargeOf(f) = actual
      BY Zenon, <1>5, <2>1 DEF StatusAfter, Settled, ChargeOf
    <3> QED BY Zenon, <1>4, <1>5, <1>6, <1>8, <3>1, <3>2, AttemptSettles
  <2>2. CASE ~paid
    <3>1. UNCHANGED <<available, spent, holds>>
      BY Zenon, <1>4, <2>2 DEF ledger
    <3>2. f.status \notin Settled /\ f.hold = e.hold
      BY Zenon, <1>1, <1>5, <2>2 DEF StatusAfter, Settled
    <3> QED BY Zenon, <1>4, <1>5, <1>6, <1>8, <3>1, <3>2, StatusMoves
  <2> QED BY Zenon, <2>1, <2>2
<1>11. ClosedInv'
  <2>1. \A b \in Admitted : b # a => (Overran(attempts[b])' <=> Overran(attempts[b]))
    BY Zenon, <1>9 DEF Overran
  <2>2. CASE overrun
    <3>1. closed' = "overrun"
      BY Zenon, <1>4, <2>2 DEF ClosedAfter
    <3>2. a \in Admitted' /\ Overran(attempts[a])'
      BY Zenon, <1>7, <1>9, <2>2 DEF Overran
    <3> QED BY Zenon, <3>1, <3>2 DEF ClosedInv, OverrunClosesRun, Overran
  <2>3. CASE ~overrun
    <3>1. closed' = closed
      BY Zenon, <1>3, <1>4, <2>3 DEF ClosedAfter
    <3>2. ~Overran(attempts[a])' /\ ~Overran(attempts[a])
      BY Zenon, <1>2, <1>7, <1>9, <2>3 DEF Overran, overrun
    <3>3. (\E b \in Admitted' : Overran(attempts[b])') <=> \E b \in Admitted : Overran(attempts[b])
      BY Zenon, <1>9, <2>1, <3>2
    <3> QED BY Zenon, <3>1, <3>3 DEF AccountInv, ClosedInv, OverrunClosesRun, Overran
  <2> QED BY Zenon, <2>2, <2>3
<1>12. HistoryInv'
  <2>1. a \notin CostsPaid /\ \A b \in CostsPaid : attempts[b].actual \in Nat
    <3>1. a \notin CostsPaid
      BY Zenon DEF CostsPaid, Settled
    <3>2. ASSUME NEW b \in CostsPaid PROVE attempts[b].actual \in Nat
      <4>1. attempts[b] \in Entry /\ EntryOK(attempts[b])
        BY DEF CostsPaid, AccountInv, AttemptsInv, Admitted
      <4>2. attempts[b].actual # None
        BY Zenon, <4>1 DEF CostsPaid, EntryOK, Overran
      <4> QED BY Zenon, <4>1, <4>2, EntryTyped
    <3> QED BY Zenon, <3>1, <3>2
  <2>2. /\ denied' \in Seq(Names) /\ deniedTotal' \in Nat /\ largest \in Nat
        /\ Len(denied') = IF deniedTotal' <= MaxDenied THEN deniedTotal' ELSE MaxDenied
    BY Zenon, <1>4 DEF AccountInv, HistoryInv, HistoryIsExact, history
  <2>3. CASE paid
    <3>1. CostsPaid' = CostsPaid \cup {a}
      BY Zenon, <1>5, <1>9, <2>3 DEF CostsPaid, StatusAfter
    <3>2. attempts'[a].actual = actual /\ \A b \in CostsPaid : attempts'[b].actual = attempts[b].actual
      BY Zenon, <1>5, <1>9, <2>1 DEF CostsPaid
    <3>3. /\ \A b \in CostsPaid : attempts[b].actual <= largest
          /\ largest = 0 \/ \E b \in CostsPaid : attempts[b].actual = largest
      BY Zenon DEF AccountInv, HistoryInv, HistoryIsExact
    <3>4. largest' = IF actual > largest THEN actual ELSE largest
      BY Zenon, <1>4, <2>3 DEF LargestAfter
    <3>5. \A b \in CostsPaid' : attempts'[b].actual <= largest'
      BY <1>2, <2>1, <2>2, <3>1, <3>2, <3>3, <3>4
    <3>6. largest' = 0 \/ \E b \in CostsPaid' : attempts'[b].actual = largest'
      BY Zenon, <3>1, <3>2, <3>3, <3>4
    <3> QED BY Zenon, <1>2, <2>2, <3>4, <3>5, <3>6 DEF HistoryInv, HistoryIsExact
  <2>4. CASE ~paid
    <3>1. CostsPaid' = CostsPaid
      BY Zenon, <1>5, <1>9, <2>1, <2>4 DEF CostsPaid, StatusAfter
    <3>2. \A b \in CostsPaid : attempts'[b].actual = attempts[b].actual
      BY Zenon, <1>9, <2>1 DEF CostsPaid
    <3>3. largest' = largest
      BY Zenon, <1>4, <2>4 DEF LargestAfter
    <3> QED BY Zenon, <2>2, <3>1, <3>2, <3>3 DEF AccountInv, HistoryInv, HistoryIsExact
  <2> QED BY Zenon, <2>3, <2>4
<1>13. attempts'[a].status # "running" /\ attempts'[a].actual = actual
  BY Zenon, <1>5, <1>9 DEF StatusAfter
<1> QED BY Zenon, <1>9, <1>10, <1>11, <1>12, <1>13 DEF AccountInv

\* The reason and the history when no attempt starts or stops to exceed its reservation or to
\* be a paid cost.
LEMMA HistoryStays ==
  ASSUME AccountInv, Admitted' = Admitted, UNCHANGED <<closed, history, largest>>,
         NEW a \in Admitted, Overran(attempts[a])' <=> Overran(attempts[a]),
         a \notin CostsPaid, attempts'[a].status \notin {"committed", "overrun_settled"},
         \A b \in Admitted : b # a => attempts'[b] = attempts[b]
  PROVE  ClosedInv' /\ HistoryInv'
<1>1. CostsPaid' = CostsPaid /\ \A b \in CostsPaid : attempts'[b] = attempts[b]
  BY Zenon DEF CostsPaid
<1>2. (\E b \in Admitted' : Overran(attempts[b])') <=> \E b \in Admitted : Overran(attempts[b])
  BY Zenon DEF Overran
<1>3. ClosedInv'
  BY Zenon, <1>2 DEF AccountInv, ClosedInv, OverrunClosesRun, Overran
<1>4. HistoryInv'
  BY Zenon, <1>1 DEF AccountInv, HistoryInv, HistoryIsExact, history
<1> QED BY Zenon, <1>3, <1>4

\* Only the balance changes.
LEMMA BooksSame ==
  ASSUME AccountInv, available' \in [{Run} -> Nat],
         UNCHANGED <<spent, holds, attempts, history, largest, closed>>
  PROVE  AccountInv'
<1>1. LedgerTypes' /\ AttemptsInv'
  BY Zenon DEF AccountInv, LedgerTypes, AttemptsInv, Admitted
<1>2. HoldsInv' /\ SpendInv'
  BY Zenon DEF AccountInv, HoldsInv, SpendInv, Admitted, Charged
<1>3. ClosedInv' /\ HistoryInv'
  BY Zenon DEF AccountInv, ClosedInv, OverrunClosesRun, HistoryInv, HistoryIsExact, CostsPaid,
     Admitted, history
<1> QED BY Zenon, <1>1, <1>2, <1>3 DEF AccountInv

\* The calls when neither they nor the statuses of running attempts change.
LEMMA CallsSame ==
  ASSUME CallsInv, UNCHANGED calls, Admitted' = Admitted,
         \A b \in Admitted : attempts'[b].status = "running" <=> attempts[b].status = "running"
  PROVE  CallsInv'
BY Zenon DEF CallsInv

\* Before the first call.
LEMMA AgentInit ==
  ASSUME Init
  PROVE  AgentInv
<1>1. LedgerTypes
  BY Zenon DEF Init, Engine!Init, LedgerTypes, Ids
<1>2. attempts = <<>> /\ Admitted = {} /\ calls = [c \in Calls |-> None] /\ closed = None
  BY DEF Init, Admitted
<1>3. AttemptsInv
  BY <1>2, AgentAssumption DEF AttemptsInv
<1>4. HoldsInv
  BY Zenon, <1>2 DEF HoldsInv, Init, Engine!Init, Ids
<1>5. SpendInv
  <2>1. \A a \in 1..MaxAttempts : Charged(a) = 0
    BY Zenon, <1>2 DEF Charged
  <2>2. Sum([a \in 1..MaxAttempts |-> Charged(a)], MaxAttempts) = 0
    BY Zenon, <2>1, <1>3, ChargedTyped, SumZero, AgentAssumption
  <2> QED BY Zenon, <2>2 DEF SpendInv, Init, Engine!Init
<1>6. ClosedInv
  BY Zenon, <1>2, AgentAssumption DEF ClosedInv, OverrunClosesRun
<1>7. HistoryInv
  BY <1>2, AgentAssumption DEF HistoryInv, HistoryIsExact, CostsPaid, Init
<1>8. CallsInv
  BY Zenon, <1>2 DEF CallsInv
<1> QED BY Zenon, <1>1, <1>3, <1>4, <1>5, <1>6, <1>7, <1>8 DEF AgentInv, AccountInv

\* An attempt is admitted.
LEMMA AdmitKeeps ==
  ASSUME AgentInv, NEW c \in Calls, NEW name \in Names, NEW amount \in Amounts, Admit(c, name, amount)
  PROVE  /\ AgentInv' /\ \A b \in Admitted : attempts'[b] = attempts[b]
<1> DEFINE i == Len(attempts) + 1
           e == [name |-> name, status |-> "running", reserved |-> amount, actual |-> None,
                 corrected |-> None, hold |-> i]
<1>1. /\ attempts \in Seq(Entry) /\ Len(attempts) \in Nat /\ Len(attempts) < MaxAttempts
      /\ calls[c] = None /\ MaxAttempts \in Nat
  BY AgentAssumption DEF Admit, MayBegin, AgentInv, AccountInv, AttemptsInv
<1>2. i \in 1..MaxAttempts /\ i \in Ids
  BY <1>1, AgentIds
<1>3. /\ attempts' = Append(attempts, e)
      /\ calls' = [calls EXCEPT ![c] = [attempt |-> i, at |-> "operation"]]
      /\ UNCHANGED <<history, largest, closed>>
      /\ holds[i] = None /\ holds' = [holds EXCEPT ![i] = [tenant |-> Run, amount |-> amount]]
      /\ amount <= available[Run] /\ available' = [available EXCEPT ![Run] = @ - amount]
      /\ UNCHANGED spent
  BY Zenon DEF Admit, Engine!Reserve
<1>4. e \in Entry /\ e.status = "running" /\ e.hold = i /\ e.reserved = amount /\ EntryOK(e) /\ ~Overran(e)
  BY Zenon, <1>2, AgentAssumption DEF Entry, Status, EntryOK, Overran
<1> HIDE DEF e
<1>5. /\ attempts' \in Seq(Entry) /\ Len(attempts') = i /\ Admitted = 1..Len(attempts) /\ Admitted' = 1..i
      /\ attempts'[i] = e /\ \A b \in Admitted : attempts'[b] = attempts[b]
  BY <1>1, <1>3, <1>4 DEF Admitted
<1>6. /\ Admitted' = Admitted \cup {i} /\ i \notin Admitted /\ \A b \in Admitted : b \in Ids
  BY <1>1, <1>2, <1>5, AgentIds
<1> HIDE DEF i
<1>7. LedgerTypes'
  <2>1. available[Run] \in Nat /\ amount \in Nat
    BY Zenon, AgentAssumption DEF AgentInv, AccountInv, LedgerTypes
  <2>2. available[Run] - amount \in Nat
    BY <1>3, <2>1
  <2> QED BY Zenon, <1>3, <2>2 DEF AgentInv, AccountInv, LedgerTypes, Record
<1>8. AttemptsInv'
  BY <1>1, <1>2, <1>4, <1>5, <1>6 DEF AgentInv, AccountInv, AttemptsInv
<1>9. HoldsInv'
  <2>1. holds'[i] = [tenant |-> Run, amount |-> amount] /\ \A k \in Ids : k # i => holds'[k] = holds[k]
    BY Zenon, <1>2, <1>3 DEF AgentInv, AccountInv, LedgerTypes
  <2>2. "running" \notin Settled
    BY Zenon DEF Settled
  <2>3. ASSUME NEW b \in Admitted'
        PROVE  IF attempts'[b].status \in Settled THEN attempts'[b].hold = None
               ELSE /\ attempts'[b].hold = b
                    /\ holds'[b] = [tenant |-> Run, amount |-> attempts'[b].reserved]
    <3>1. CASE b = i
      BY Zenon, <1>4, <1>5, <2>1, <2>2, <3>1
    <3>2. CASE b \in Admitted
      BY Zenon, <1>5, <1>6, <2>1, <3>2 DEF AgentInv, AccountInv, HoldsInv
    <3> QED BY Zenon, <1>6, <3>1, <3>2
  <2>4. ASSUME NEW k \in Ids, holds'[k] # None PROVE k \in Admitted' /\ attempts'[k].hold = k
    <3>1. CASE k = i
      BY Zenon, <1>4, <1>5, <1>6, <3>1
    <3>2. CASE k # i
      BY Zenon, <1>5, <1>6, <2>1, <2>4, <3>2 DEF AgentInv, AccountInv, HoldsInv
    <3> QED BY Zenon, <3>1, <3>2
  <2> QED BY Zenon, <2>3, <2>4 DEF HoldsInv
<1>10. SpendInv'
  <2>1. \A b \in 1..MaxAttempts : Charged(b)' = Charged(b)
    BY Zenon, <1>4, <1>5, <1>6 DEF Charged, Settled
  <2> QED BY Zenon, <1>3, <2>1 DEF AgentInv, AccountInv, SpendInv
<1>11. ClosedInv'
  <2>1. (\E b \in Admitted' : Overran(attempts[b])') <=> \E b \in Admitted : Overran(attempts[b])
    BY Zenon, <1>4, <1>5, <1>6 DEF Overran
  <2> QED BY Zenon, <1>3, <2>1 DEF AgentInv, AccountInv, ClosedInv, OverrunClosesRun, Overran
<1>12. HistoryInv'
  <2>1. CostsPaid' = CostsPaid /\ \A b \in CostsPaid : attempts'[b] = attempts[b]
    BY Zenon, <1>4, <1>5, <1>6 DEF CostsPaid
  <2> QED BY Zenon, <1>3, <2>1 DEF AgentInv, AccountInv, HistoryInv, HistoryIsExact, history
<1>13. CallsInv'
  <2>1. [attempt |-> i, at |-> "operation"] \in Call /\ [attempt |-> i, at |-> "operation"] # None
    BY <1>2, AgentAssumption DEF Call
  <2>2. /\ calls'[c] = [attempt |-> i, at |-> "operation"]
        /\ \A d \in Calls : d # c => calls'[d] = calls[d]
        /\ calls' \in [Calls -> Call \cup {None}]
    BY Zenon, <1>3, <2>1 DEF AgentInv, CallsInv
  <2>3. calls'[c].attempt = i /\ calls'[c] # None
    BY <2>1, <2>2
  <2>4. ASSUME NEW d \in Calls, calls'[d] # None
        PROVE  /\ calls'[d].attempt \in Admitted'
               /\ calls'[d].at = "operation" => attempts'[calls'[d].attempt].status = "running"
               /\ d # c => calls'[d].attempt \in Admitted
    <3>1. CASE d = c
      BY Zenon, <1>4, <1>5, <1>6, <2>3, <3>1
    <3>2. CASE d # c
      BY <1>5, <1>6, <2>2, <2>4, <3>2 DEF AgentInv, CallsInv
    <3> QED BY Zenon, <3>1, <3>2
  <2>5. ASSUME NEW d \in Calls, NEW g \in Calls, calls'[d] # None, calls'[g] # None,
               calls'[d].attempt = calls'[g].attempt
        PROVE  d = g
    BY <1>6, <2>2, <2>3, <2>4, <2>5 DEF AgentInv, CallsInv
  <2>6. ASSUME NEW b \in Admitted', attempts'[b].status = "running"
        PROVE  \E d \in Calls : calls'[d] # None /\ calls'[d].attempt = b
    <3>1. CASE b = i
      BY Zenon, <2>3, <3>1
    <3>2. CASE b \in Admitted
      <4>1. PICK d \in Calls : calls[d] # None /\ calls[d].attempt = b
        BY Zenon, <1>5, <2>6, <3>2 DEF AgentInv, CallsInv
      <4> QED BY Zenon, <1>1, <2>2, <4>1
    <3> QED BY Zenon, <1>6, <3>1, <3>2
  <2> QED BY Zenon, <2>2, <2>4, <2>5, <2>6 DEF CallsInv
<1> QED BY Zenon, <1>5, <1>7, <1>8, <1>9, <1>10, <1>11, <1>12, <1>13 DEF AgentInv, AccountInv

\* A reservation is refused: only the history of denials grows.
LEMMA DenyKeeps ==
  ASSUME AgentInv, NEW c \in Calls, NEW name \in Names, NEW amount \in Amounts, Deny(c, name, amount)
  PROVE  AgentInv'
<1>1. /\ deniedTotal' = deniedTotal + 1 /\ denied' = Remember(name)
      /\ UNCHANGED <<ledger, attempts, largest, closed, calls>>
  BY Zenon DEF Deny
<1>2. LedgerTypes' /\ AttemptsInv'
  BY Zenon, <1>1 DEF AgentInv, AccountInv, LedgerTypes, AttemptsInv, Admitted, ledger
<1>3. HoldsInv' /\ SpendInv'
  BY Zenon, <1>1 DEF AgentInv, AccountInv, HoldsInv, SpendInv, Admitted, Charged, ledger
<1>4. ClosedInv' /\ CallsInv'
  BY Zenon, <1>1 DEF AgentInv, AccountInv, ClosedInv, OverrunClosesRun, Admitted, CallsInv
<1>5. HistoryInv'
  <2>1. /\ denied \in Seq(Names) /\ deniedTotal \in Nat /\ largest \in Nat /\ MaxDenied \in Nat \ {0}
        /\ Len(denied) = IF deniedTotal <= MaxDenied THEN deniedTotal ELSE MaxDenied
    BY Zenon, AgentAssumption DEF AgentInv, AccountInv, HistoryInv, HistoryIsExact
  <2>2. denied' \in Seq(Names) /\ Len(denied') = IF Len(denied) < MaxDenied THEN Len(denied) + 1 ELSE MaxDenied
    <3>1. CASE Len(denied) < MaxDenied
      BY <1>1, <2>1, <3>1 DEF Remember
    <3>2. CASE ~(Len(denied) < MaxDenied)
      <4>1. denied' = Append(Tail(denied), name)
        BY Zenon, <1>1, <3>2 DEF Remember
      <4>2. Len(denied) = MaxDenied /\ denied # <<>>
        BY <2>1, <3>2
      <4>3. Tail(denied) \in Seq(Names) /\ Len(Tail(denied)) = MaxDenied - 1
        BY <2>1, <4>2
      <4> QED BY <2>1, <3>2, <4>1, <4>3
    <3> QED BY Zenon, <3>1, <3>2
  <2>3. /\ deniedTotal' \in Nat
        /\ Len(denied') = IF deniedTotal' <= MaxDenied THEN deniedTotal' ELSE MaxDenied
    BY <1>1, <2>1, <2>2
  <2>4. UNCHANGED <<attempts, largest>>
    BY Zenon, <1>1
  <2> QED BY Zenon, <2>2, <2>3, <2>4
             DEF AgentInv, AccountInv, HistoryInv, HistoryIsExact, CostsPaid, Admitted
<1> QED BY Zenon, <1>2, <1>3, <1>4, <1>5 DEF AgentInv, AccountInv

\* A call that ends its operation frees itself or goes to its exception handler.
LEMMA CallsEnd ==
  ASSUME AgentInv, NEW c \in Calls, calls[c] # None, NEW next,
         calls' = [calls EXCEPT ![c] = next],
         next = None \/ next = [attempt |-> calls[c].attempt, at |-> "except"],
         Admitted' = Admitted,
         attempts'[calls[c].attempt].status = "running" => next # None,
         \A b \in Admitted : b # calls[c].attempt =>
           (attempts'[b].status = "running" <=> attempts[b].status = "running")
  PROVE  CallsInv'
<1>1. calls[c] \in Call /\ calls[c].attempt \in Nat /\ calls[c].attempt \in Admitted
  BY DEF AgentInv, CallsInv, Call
<1>2. next \in Call \cup {None} /\ (next # None => next.attempt = calls[c].attempt /\ next.at = "except")
  BY <1>1 DEF Call
<1>3. /\ calls' \in [Calls -> Call \cup {None}] /\ calls'[c] = next
      /\ \A d \in Calls : d # c => calls'[d] = calls[d]
  BY Zenon, <1>2 DEF AgentInv, CallsInv
<1>4. \A d \in Calls : calls'[d] # None => calls[d] # None /\ calls'[d].attempt = calls[d].attempt
  BY Zenon, <1>2, <1>3
<1>5. ASSUME NEW d \in Calls, calls'[d] # None
      PROVE  /\ calls'[d].attempt \in Admitted
             /\ calls'[d].at = "operation" => attempts'[calls'[d].attempt].status = "running"
  <2>1. CASE d = c
    BY Zenon, <1>1, <1>2, <1>3, <1>5, <2>1
  <2>2. CASE d # c
    <3>1. calls[d] # None /\ calls'[d] = calls[d]
      BY Zenon, <1>3, <1>5, <2>2
    <3>2. calls[d].attempt \in Admitted /\ calls[d].attempt # calls[c].attempt
      BY Zenon, <2>2, <3>1 DEF AgentInv, CallsInv
    <3> QED BY Zenon, <3>1, <3>2 DEF AgentInv, CallsInv
  <2> QED BY Zenon, <2>1, <2>2
<1>6. ASSUME NEW d \in Calls, NEW g \in Calls, calls'[d] # None, calls'[g] # None,
             calls'[d].attempt = calls'[g].attempt
      PROVE  d = g
  BY <1>4, <1>6 DEF AgentInv, CallsInv
<1>7. ASSUME NEW b \in Admitted, attempts'[b].status = "running"
      PROVE  \E d \in Calls : calls'[d] # None /\ calls'[d].attempt = b
  <2>1. CASE b = calls[c].attempt
    BY Zenon, <1>2, <1>3, <1>7, <2>1
  <2>2. CASE b # calls[c].attempt
    <3>1. PICK d \in Calls : calls[d] # None /\ calls[d].attempt = b
      BY Zenon, <1>7, <2>2 DEF AgentInv, CallsInv
    <3> QED BY Zenon, <1>3, <2>2, <3>1
  <2> QED BY Zenon, <2>1, <2>2
<1> QED BY <1>3, <1>5, <1>6, <1>7 DEF CallsInv

-----------------------------------------------------------------------------
\* What no step does to an attempt: lose its observed cost, or change it once it is settled.
CostsKept ==
  \A a \in Admitted :
    /\ attempts[a].actual # None => attempts'[a].actual = attempts[a].actual
    /\ attempts[a].status \in Settled => attempts'[a] = attempts[a]

\* A step that changes one entry keeps every observed cost when that entry is not settled and
\* keeps a cost that it has.
LEMMA OneChanges ==
  ASSUME NEW a, attempts[a].status \notin Settled,
         attempts[a].actual # None => attempts'[a].actual = attempts[a].actual,
         \A b \in Admitted : b # a => attempts'[b] = attempts[b]
  PROVE  CostsKept
BY Zenon DEF CostsKept

\* The operation ends and its cost is settled.
LEMMA FinishKeeps ==
  ASSUME AgentInv, NEW c \in Calls, NEW actual \in Amounts, Finish(c, actual)
  PROVE  AgentInv' /\ CostsKept
<1> DEFINE a == calls[c].attempt
           next == IF actual > attempts[a].reserved THEN [calls[c] EXCEPT !.at = "except"] ELSE None
<1>1. /\ calls[c] # None /\ calls[c].at = "operation" /\ Settle(a, actual)
      /\ calls' = [calls EXCEPT ![c] = next]
  BY Zenon DEF Finish, At, AgentInv, CallsInv
<1>2. calls[c] \in Call /\ a \in Admitted /\ attempts[a].status = "running"
  BY Zenon, <1>1 DEF AgentInv, CallsInv
<1>3. attempts[a].status \notin Settled /\ attempts[a].actual = None
  BY Zenon, <1>2 DEF Settled, AgentInv, AccountInv, AttemptsInv, EntryOK
<1>4. next = None \/ next = [attempt |-> a, at |-> "except"]
  BY Zenon, <1>2 DEF Call
<1> HIDE DEF a, next
<1>5. /\ AccountInv' /\ Admitted' = Admitted
      /\ attempts'[a].status # "running" /\ attempts'[a].actual = actual
      /\ \A b \in Admitted : b # a => attempts'[b] = attempts[b]
  BY Zenon, <1>1, <1>2, <1>3, SettleKeeps DEF AgentInv
<1>6. CallsInv'
  BY Zenon, <1>1, <1>4, <1>5, CallsEnd DEF a
<1>7. CostsKept
  BY Zenon, <1>3, <1>5, OneChanges
<1> QED BY Zenon, <1>5, <1>6, <1>7 DEF AgentInv

\* The operation raises.
LEMMA RaiseKeeps ==
  ASSUME AgentInv, NEW c \in Calls, Raise(c)
  PROVE  AgentInv' /\ CostsKept
<1> DEFINE next == [attempt |-> calls[c].attempt, at |-> "except"]
<1>1. calls[c] # None /\ calls[c] \in Call /\ UNCHANGED <<ledger, attempts, history, largest, closed>>
  BY DEF Raise, At, AgentInv, CallsInv
<1>2. [calls[c] EXCEPT !.at = "except"] = next
  BY <1>1 DEF Call
<1>3. calls' = [calls EXCEPT ![c] = next]
  BY Zenon, <1>2 DEF Raise, AgentInv, CallsInv
<1>4. next # None
  BY <1>1, AgentAssumption DEF Call
<1> HIDE DEF next
<1>5. CallsInv'
  BY Zenon, <1>1, <1>3, <1>4, CallsEnd DEF Admitted, next
<1>6. AccountInv'
  BY Zenon, <1>1, BooksSame DEF ledger, AgentInv, AccountInv, LedgerTypes
<1> QED BY Zenon, <1>1, <1>5, <1>6 DEF AgentInv, CostsKept

\* The exception handler: a running attempt becomes uncertain.
LEMMA UncertainKeeps ==
  ASSUME AgentInv, NEW c \in Calls, Uncertain(c)
  PROVE  AgentInv' /\ CostsKept
<1>a. PICK a : a = calls[c].attempt
  BY Zenon
<1> DEFINE e == attempts[a]
           f == [e EXCEPT !.status = IF e.status = "running" THEN "uncertain" ELSE e.status]
<1>1. /\ calls[c] # None /\ a \in Admitted /\ calls' = [calls EXCEPT ![c] = None]
      /\ UNCHANGED <<ledger, history, largest, closed>>
  BY Zenon, <1>a DEF Uncertain, At, AgentInv, CallsInv
<1>2. e \in Entry /\ EntryOK(e)
  BY <1>1 DEF AgentInv, AccountInv, AttemptsInv, Admitted
<1>3. attempts' = [attempts EXCEPT ![a] = f]
  BY Zenon, <1>a, <1>1 DEF Uncertain, AgentInv, AccountInv, AttemptsInv, Admitted
<1>4. CASE e.status = "running"
  <2>1. /\ f.status = "uncertain" /\ f.reserved = e.reserved /\ f.hold = e.hold
        /\ f.actual = e.actual /\ f.corrected = e.corrected
    BY Zenon, <1>2, <1>4 DEF Entry
  <2>2. f \in Entry
    BY Zenon, <1>2, <1>4 DEF Entry, Status, Unresolved
  <2>3. EntryOK(f)
    BY Zenon, <1>2, <1>4, <2>1 DEF EntryOK, Overran
  <2>4. e.status \notin Settled /\ f.status \notin Settled
    BY Zenon, <1>4, <2>1 DEF Settled
  <2> HIDE DEF f
  <2>5. UNCHANGED <<available, spent, holds>>
    BY Zenon, <1>1 DEF ledger
  <2>6. LedgerTypes' /\ AttemptsInv' /\ HoldsInv' /\ SpendInv'
    BY Zenon, <1>1, <1>3, <2>1, <2>2, <2>3, <2>4, <2>5, StatusMoves DEF AgentInv
  <2>7. /\ Admitted' = Admitted /\ attempts'[a] = f
        /\ \A b \in Admitted : b # a => attempts'[b] = attempts[b]
    BY Zenon, <1>1, <1>3, <2>2, <2>3, EntryReplaced DEF AgentInv, AccountInv
  <2>8. (Overran(attempts[a])' <=> Overran(attempts[a])) /\ a \notin CostsPaid
    BY Zenon, <1>4, <2>1, <2>7 DEF Overran, CostsPaid
  <2>9. ClosedInv' /\ HistoryInv'
    <3>1. attempts'[a].status \notin {"committed", "overrun_settled"}
      BY Zenon, <2>1, <2>7
    <3> QED BY Zenon, <1>1, <2>7, <2>8, <3>1, HistoryStays DEF AgentInv
  <2>10. CallsInv'
    <3>1. attempts'[calls[c].attempt].status # "running"
      BY Zenon, <1>a, <2>1, <2>7
    <3>2. \A b \in Admitted : b # calls[c].attempt =>
            (attempts'[b].status = "running" <=> attempts[b].status = "running")
      BY Zenon, <1>a, <2>7
    <3> QED BY Zenon, <1>1, <2>7, <3>1, <3>2, CallsEnd
  <2>11. CostsKept
    BY Zenon, <2>1, <2>4, <2>7, OneChanges
  <2> QED BY Zenon, <2>6, <2>9, <2>10, <2>11 DEF AgentInv, AccountInv
<1>5. CASE e.status # "running"
  <2>1. f = e
    BY Zenon, <1>2, <1>5 DEF Entry
  <2>2. attempts' = attempts
    BY <1>1, <1>3, <2>1 DEF AgentInv, AccountInv, AttemptsInv, Admitted
  <2>3. AccountInv'
    BY Zenon, <1>1, <2>2, BooksSame DEF ledger, AgentInv, AccountInv, LedgerTypes
  <2>4. CallsInv'
    BY Zenon, <1>a, <1>1, <1>5, <2>2, CallsEnd DEF Admitted
  <2> QED BY Zenon, <2>2, <2>3, <2>4 DEF AgentInv, CostsKept
<1> QED BY Zenon, <1>4, <1>5

\* A late settlement.
LEMMA ReconcileKeeps ==
  ASSUME AgentInv, NEW a \in Admitted, NEW actual \in Amounts, Reconcile(a, actual)
  PROVE  AgentInv' /\ CostsKept
<1>1. /\ attempts[a].status \notin Settled /\ attempts[a].status # "running" /\ UNCHANGED calls
      /\ attempts[a].actual \in {None, actual} /\ Settle(a, actual)
  BY Zenon DEF Reconcile, IsUnresolved, Unresolved, Settled
<1>2. /\ AccountInv' /\ Admitted' = Admitted
      /\ attempts'[a].status # "running" /\ attempts'[a].actual = actual
      /\ \A b \in Admitted : b # a => attempts'[b] = attempts[b]
  BY Zenon, <1>1, SettleKeeps DEF AgentInv
<1>3. CallsInv'
  BY Zenon, <1>1, <1>2, CallsSame DEF AgentInv
<1>4. CostsKept
  BY Zenon, <1>1, <1>2, OneChanges
<1> QED BY Zenon, <1>2, <1>3, <1>4 DEF AgentInv

\* An attempt that is not settled becomes settled outside _settle_locked.
LEMMA ResolvedKeeps ==
  ASSUME AgentInv, NEW a \in Admitted, attempts[a].status \in Unresolved, NEW f \in Entry, EntryOK(f),
         attempts' = [attempts EXCEPT ![a] = f], f.reserved = attempts[a].reserved,
         f.status \in {"released", "corrected"}, f.hold = None,
         attempts[a].actual # None => f.actual = attempts[a].actual,
         Overran(f) <=> Overran(attempts[a]),
         holds' = [holds EXCEPT ![a] = None], available' \in [{Run} -> Nat],
         spent' = [spent EXCEPT ![Run] = @ + ChargeOf(f)],
         UNCHANGED <<history, largest, closed, calls>>
  PROVE  AgentInv' /\ CostsKept
<1>1. /\ attempts[a].status \notin Settled /\ attempts[a].status # "running" /\ f.status \in Settled
      /\ f.status # "running" /\ a \notin CostsPaid
  BY Zenon DEF Unresolved, Settled, CostsPaid
<1>2. LedgerTypes' /\ AttemptsInv' /\ HoldsInv' /\ SpendInv'
  BY Zenon, <1>1, AttemptSettles DEF AgentInv
<1>3. /\ Admitted' = Admitted /\ attempts'[a] = f
      /\ \A b \in Admitted : b # a => attempts'[b] = attempts[b]
  BY Zenon, EntryReplaced DEF AgentInv, AccountInv
<1>4. ClosedInv' /\ HistoryInv'
  <2>1. Overran(attempts[a])' <=> Overran(attempts[a])
    BY Zenon, <1>3 DEF Overran
  <2>2. attempts'[a].status \notin {"committed", "overrun_settled"}
    BY Zenon, <1>3
  <2> QED BY Zenon, <1>1, <1>3, <2>1, <2>2, HistoryStays DEF AgentInv
<1>5. CallsInv'
  BY Zenon, <1>1, <1>3, CallsSame DEF AgentInv
<1>6. CostsKept
  BY Zenon, <1>1, <1>3, OneChanges
<1> QED BY Zenon, <1>2, <1>4, <1>5, <1>6 DEF AgentInv, AccountInv

\* An attempt that cost nothing gives its hold back: the release never fails.
LEMMA ReleaseKeeps ==
  ASSUME AgentInv, NEW a \in Admitted, Release(a)
  PROVE  AgentInv' /\ CostsKept
<1> DEFINE e == attempts[a]
           f == [e EXCEPT !.status = "released", !.actual = 0, !.hold = None]
<1>1. e.status \in Unresolved /\ e.status \notin Settled /\ e.actual = None
  BY Zenon DEF Release, IsUnresolved, Unresolved, Settled
<1>2. /\ a \in Ids /\ e \in Entry /\ EntryOK(e) /\ e.hold = a /\ e.corrected = None
      /\ e.reserved \in Nat /\ available[Run] \in Nat
      /\ holds[a] = [tenant |-> Run, amount |-> e.reserved] /\ holds[a] # None
  BY Zenon, <1>1, Unsettled DEF AgentInv
<1>3. /\ Engine!Release(a) /\ attempts' = [attempts EXCEPT ![a] = f]
      /\ UNCHANGED <<history, largest, closed, calls>>
  BY Zenon, <1>2 DEF Release
<1>4. /\ f.status = "released" /\ f.actual = 0 /\ f.hold = None /\ f.reserved = e.reserved
      /\ f.corrected = None
  BY Zenon, <1>2 DEF Entry
<1>5. f \in Entry
  BY Zenon, <1>2 DEF Entry, Status, Settled
<1>6. ~Overran(f) /\ ~Overran(e) /\ EntryOK(f) /\ ChargeOf(f) = 0
  <2> HIDE DEF f
  <2>1. ~Overran(f) /\ ~Overran(e)
    BY <1>1, <1>2, <1>4 DEF Overran
  <2> QED BY Zenon, <1>4, <2>1 DEF EntryOK, ChargeOf
<1>7. /\ holds' = [holds EXCEPT ![a] = None] /\ UNCHANGED spent
      /\ available' = [available EXCEPT ![Run] = @ + e.reserved]
  <2>1. holds[a].tenant = Run /\ holds[a].amount = e.reserved
    BY <1>2
  <2> QED BY Zenon, <1>3, <2>1 DEF Engine!Release
<1>8. available' \in [{Run} -> Nat] /\ spent' = [spent EXCEPT ![Run] = @ + ChargeOf(f)]
  <2>1. available[Run] + e.reserved \in Nat
    BY <1>2
  <2> QED BY <1>6, <1>7, <2>1 DEF AgentInv, AccountInv, LedgerTypes
<1> HIDE DEF f
<1> QED BY Zenon, <1>1, <1>3, <1>4, <1>5, <1>6, <1>7, <1>8, ResolvedKeeps

\* An unpaid overrun is settled at a lower amount, beside the observed cost.
LEMMA CorrectKeeps ==
  ASSUME AgentInv, NEW a \in Admitted, NEW amount \in Amounts, Correct(a, amount)
  PROVE  AgentInv' /\ CostsKept
<1> DEFINE e == attempts[a]
           f == [e EXCEPT !.status = "corrected", !.corrected = amount, !.hold = None]
<1>1. e.status = "overrun_unsettled" /\ e.status \in Unresolved /\ e.status \notin Settled
  BY Zenon DEF Correct, Unresolved, Settled
<1>2. a \in Ids /\ e \in Entry /\ EntryOK(e) /\ e.hold = a /\ e.reserved \in Nat
  BY Zenon, <1>1, Unsettled DEF AgentInv
<1>3. /\ Engine!Commit(a, amount) /\ Pays(a, amount) /\ attempts' = [attempts EXCEPT ![a] = f]
      /\ UNCHANGED <<history, largest, closed, calls>>
  BY Zenon, <1>2 DEF Correct
<1>4. /\ f.status = "corrected" /\ f.actual = e.actual /\ f.hold = None /\ f.reserved = e.reserved
      /\ f.corrected = amount
  BY Zenon, <1>2 DEF Entry
<1>5. f \in Entry
  BY Zenon, <1>2 DEF Entry, Status, Settled
<1>6. amount \in Nat /\ amount # None
  BY AgentAssumption
<1> HIDE DEF f
<1>7. Overran(f) /\ Overran(e) /\ EntryOK(f) /\ ChargeOf(f) = amount
  <2>1. Overran(f) /\ Overran(e)
    BY Zenon, <1>1, <1>2, <1>4 DEF EntryOK, Overran
  <2> QED BY Zenon, <1>4, <1>6, <2>1 DEF EntryOK, ChargeOf
<1>8. /\ holds' = [holds EXCEPT ![a] = None] /\ available' \in [{Run} -> Nat]
      /\ spent' = [spent EXCEPT ![Run] = @ + ChargeOf(f)]
  BY Zenon, <1>1, <1>3, <1>6, <1>7, EngineCommits DEF AgentInv
<1> QED BY Zenon, <1>1, <1>3, <1>4, <1>5, <1>7, <1>8, ResolvedKeeps

\* The run is made, or closed by its owner.
LEMMA CreateOrCloseKeeps ==
  ASSUME AgentInv, (\E budget \in Budgets : Create(budget)) \/ Close
  PROVE  AgentInv' /\ CostsKept
<1>1. ASSUME NEW budget \in Budgets, Create(budget) PROVE AgentInv' /\ CostsKept
  <2>1. /\ UNCHANGED <<spent, holds, attempts, history, largest, closed, calls>>
        /\ available' = [available EXCEPT ![Run] = budget]
    BY Zenon, <1>1 DEF Create, Engine!EnsureTenant
  <2>2. available' \in [{Run} -> Nat]
    BY Zenon, <2>1, AgentAssumption DEF AgentInv, AccountInv, LedgerTypes
  <2>3. AccountInv'
    BY Zenon, <2>1, <2>2, BooksSame DEF AgentInv
  <2>4. CallsInv'
    BY Zenon, <2>1, CallsSame DEF AgentInv, Admitted
  <2> QED BY Zenon, <2>1, <2>3, <2>4 DEF AgentInv, CostsKept
<1>2. CASE Close
  <2>1. UNCHANGED <<ledger, attempts, history, largest, calls>>
    BY Zenon, <1>2 DEF Close
  <2>2. closed' = IF closed = None THEN "explicit" ELSE closed
    BY Zenon, <1>2 DEF Close
  <2>3. LedgerTypes' /\ AttemptsInv' /\ HoldsInv' /\ SpendInv'
    BY Zenon, <2>1 DEF AgentInv, AccountInv, LedgerTypes, AttemptsInv, HoldsInv, SpendInv, Admitted,
       Charged, ledger
  <2>4. ClosedInv'
    BY Zenon, <2>1, <2>2, AgentAssumption
       DEF AgentInv, AccountInv, ClosedInv, OverrunClosesRun, Admitted
  <2>5. HistoryInv'
    BY Zenon, <2>1 DEF AgentInv, AccountInv, HistoryInv, HistoryIsExact, CostsPaid, Admitted, history
  <2>6. CallsInv'
    BY Zenon, <2>1, CallsSame DEF AgentInv, Admitted
  <2> QED BY Zenon, <2>1, <2>3, <2>4, <2>5, <2>6 DEF AgentInv, AccountInv, CostsKept
<1> QED BY Zenon, <1>1, <1>2

\* Every step of the agent budget keeps its books and the costs it has observed.
LEMMA AgentStep ==
  ASSUME AgentInv, [Next]_vars
  PROVE  AgentInv' /\ CostsKept
<1>1. ASSUME NEW c \in Calls, NEW name \in Names, NEW amount \in Amounts,
             Admit(c, name, amount) \/ Deny(c, name, amount)
      PROVE  AgentInv' /\ CostsKept
  <2>1. CASE Admit(c, name, amount)
    BY Zenon, <2>1, AdmitKeeps DEF CostsKept
  <2>2. CASE Deny(c, name, amount)
    BY Zenon, <2>2, DenyKeeps DEF CostsKept, Deny
  <2> QED BY Zenon, <1>1, <2>1, <2>2
<1>2. CASE UNCHANGED vars
  <2>1. UNCHANGED <<available, spent, holds, attempts, history, largest, closed, calls>>
    BY Zenon, <1>2 DEF vars, ledger
  <2>2. AccountInv'
    BY Zenon, <2>1, BooksSame DEF AgentInv, AccountInv, LedgerTypes
  <2>3. CallsInv'
    BY Zenon, <2>1, CallsSame DEF AgentInv, Admitted
  <2> QED BY Zenon, <2>1, <2>2, <2>3 DEF AgentInv, CostsKept
<1>3. CASE Next
  BY Zenon, <1>1, <1>3, CreateOrCloseKeeps, FinishKeeps, RaiseKeeps, UncertainKeeps, ReconcileKeeps,
     CorrectKeeps, ReleaseKeeps DEF Next
<1> QED BY Zenon, <1>2, <1>3

\* The invariant of a run.
THEOREM AgentInvariant == Spec => []AgentInv
<1>1. AgentInv /\ [Next]_vars => AgentInv'
  BY Zenon, AgentStep
<1> QED BY <1>1, AgentInit, PTL DEF Spec

\* RunReport, _settle_locked, release and correct: for every number of calls and attempts and
\* every budget, the lifetime spend is what the settled attempts were charged, and the open
\* holds are the reservations of the attempts that are not settled.
THEOREM ReportsMatchLedger == Spec => []ReportMatchesLedger
<1>1. AgentInv => ReportMatchesLedger
  <2> SUFFICES ASSUME AgentInv PROVE ReportMatchesLedger
    BY Zenon
  <2>1. ASSUME NEW a \in Admitted
        PROVE  /\ a # None /\ (attempts[a].hold = None <=> attempts[a].status \in Settled)
               /\ attempts[a].hold # None =>
                    holds[attempts[a].hold] = [tenant |-> Run, amount |-> attempts[a].reserved]
               /\ attempts[a].hold \in {None, a}
    <3>1. a # None
      BY AgentAssumption DEF AgentInv, AccountInv, AttemptsInv, Admitted
    <3> QED BY Zenon, <3>1 DEF AgentInv, AccountInv, HoldsInv
  <2>2. ASSUME NEW i \in Ids, holds[i] # None
        PROVE  \E a \in Admitted : /\ attempts[a].hold = i
                                   /\ \A b \in Admitted : attempts[b].hold = i => b = a
    <3>1. i \in Admitted /\ attempts[i].hold = i
      BY Zenon, <2>2 DEF AgentInv, AccountInv, HoldsInv
    <3> QED BY <2>1, <3>1
  <2> QED BY Zenon, <2>1, <2>2 DEF ReportMatchesLedger, AgentInv, AccountInv, SpendInv
<1> QED BY <1>1, AgentInvariant, PTL

\* _settle_locked: an overrun, paid or not, closes the run for good and is named as the
\* reason, and a settlement within its reservation never fails.
THEOREM OverrunsCloseRun == Spec => []OverrunClosesRun
<1>1. AgentInv => OverrunClosesRun
  BY Zenon DEF AgentInv, AccountInv, ClosedInv
<1> QED BY <1>1, AgentInvariant, PTL

\* _begin and _settle_locked: the largest settled cost is one that was settled, and the ring
\* of denials drops only what exceeds its size.
THEOREM HistoryExact == Spec => []HistoryIsExact
<1>1. AgentInv => HistoryIsExact
  BY Zenon DEF AgentInv, AccountInv, HistoryInv
<1> QED BY <1>1, AgentInvariant, PTL

\* reconcile, release, correct and the exception handler: an observed cost is never replaced
\* or forgotten, and a settled attempt never changes.
THEOREM ObservedCostsKept == Spec => ObservedCostKept
<1>1. AgentInv /\ [Next]_vars => CostsKept
  BY Zenon, AgentStep
<1>2. CostsKept <=> \A a \in Admitted :
        /\ attempts[a].actual # None => attempts'[a].actual = attempts[a].actual
        /\ attempts[a].status \in Settled => attempts'[a] = attempts[a]
  BY Zenon DEF CostsKept
<1> QED BY <1>1, <1>2, AgentInvariant, PTL DEF Spec, ObservedCostKept

-----------------------------------------------------------------------------
(***************************************************************************)
(* Owned reservations: module OwnedReservation, for any tenants, amounts   *)
(* and range of the allocator.                                             *)
(*                                                                         *)
(* The invariant adds that every id a value or a caller has is below the   *)
(* allocator: a new reservation's number is in nobody's hands.             *)
(***************************************************************************)
CONSTANTS Tenants, AllocatorMask

VARIABLES nextId, owned, ids

Owned == INSTANCE OwnedReservation

OwnedInv ==
  /\ nextId \in Nat
  /\ owned \subseteq Owned!Ids
  /\ \A i \in owned \cup ids : i < nextId
  /\ holds \in [Owned!Ids -> [tenant : Tenants, amount : Amounts] \cup {None}]
  /\ Owned!ValueNamesOpenHold

\* A step that empties at most the hold of one id leaves every value of another id open; that
\* id belongs to no value or is a number that somebody has.
LEMMA OneHoldCloses ==
  ASSUME Owned!OwnedAssumption,
         OwnedInv, NEW i \in Owned!Ids, i \notin owned' \ ids',
         owned' \subseteq owned, ids \subseteq ids', ids' \subseteq ids \cup {i}, i < nextId,
         nextId' = nextId,
         holds' = holds \/ holds' = [holds EXCEPT ![i] = None]
  PROVE  OwnedInv'
<1>1. holds' \in [Owned!Ids -> [tenant : Tenants, amount : Amounts] \cup {None}]
  BY Zenon DEF OwnedInv
<1>2. \A j \in owned' \ ids' : holds'[j] # None
  BY Zenon DEF OwnedInv, Owned!ValueNamesOpenHold
<1>3. \A j \in owned' \cup ids' : j < nextId
  BY Zenon DEF OwnedInv
<1> QED BY Zenon, <1>1, <1>2, <1>3 DEF OwnedInv, Owned!ValueNamesOpenHold

\* A settlement by the engine empties the hold of its own id or changes none.
LEMMA EngineSettles ==
  ASSUME Owned!OwnedAssumption,
         NEW i, NEW actual, Owned!EngineCommit(i, actual) \/ Owned!Release(i) \/ UNCHANGED Owned!vars
  PROVE  holds' = holds \/ holds' = [holds EXCEPT ![i] = None]
BY Zenon DEF Owned!EngineCommit, Owned!Commit, Owned!Release, Owned!vars

\* A new reservation has an id that no value and no number handed out before has.
LEMMA ReserveOwnedStep ==
  ASSUME Owned!OwnedAssumption,
         OwnedInv, NEW x \in Tenants, NEW cost \in Amounts, Owned!ReserveOwned(x, cost)
  PROVE  OwnedInv'
<1>1. /\ nextId \in Owned!Ids /\ nextId' = nextId + 1 /\ owned' = owned \cup {nextId} /\ ids' = ids
      /\ holds' = [holds EXCEPT ![nextId] = [tenant |-> x, amount |-> cost]]
  BY Zenon DEF Owned!ReserveOwned, Owned!Reserve
<1>2. [tenant |-> x, amount |-> cost] \in [tenant : Tenants, amount : Amounts]
  BY Zenon
<1>3. nextId \notin owned \cup ids
  BY DEF OwnedInv
<1>4. holds' \in [Owned!Ids -> [tenant : Tenants, amount : Amounts] \cup {None}]
  BY Zenon, <1>1, <1>2 DEF OwnedInv
<1>5. \A j \in owned' \ ids' : holds'[j] # None
  <2>1. holds'[nextId] # None
    BY Zenon, <1>1, <1>2, Owned!OwnedAssumption DEF Owned!OwnedAssumption, OwnedInv
  <2>2. \A j \in owned : holds'[j] = holds[j]
    BY Zenon, <1>1, <1>3 DEF OwnedInv
  <2> QED BY Zenon, <1>1, <2>1, <2>2 DEF OwnedInv, Owned!ValueNamesOpenHold
<1>6. \A j \in owned' \cup ids' : j < nextId'
  BY <1>1 DEF OwnedInv
<1> QED BY <1>1, <1>3, <1>4, <1>5, <1>6 DEF OwnedInv, Owned!ValueNamesOpenHold

\* Every step keeps an open hold for each value whose number nobody has.
LEMMA OwnedStep ==
  ASSUME Owned!OwnedAssumption
  PROVE  OwnedInv /\ [Owned!OwnedNext]_Owned!allVars => OwnedInv'
<1> SUFFICES ASSUME OwnedInv, [Owned!OwnedNext]_Owned!allVars PROVE OwnedInv'
  BY Zenon
<1>1. ASSUME NEW x \in Tenants, NEW amount \in Amounts, Owned!Setup(x, amount) PROVE OwnedInv'
  BY Zenon, <1>1 DEF Owned!Setup, Owned!EnsureTenant, Owned!TopUp, OwnedInv, Owned!ValueNamesOpenHold
<1>2. ASSUME NEW x \in Tenants, NEW amount \in Amounts, Owned!ReserveOwned(x, amount) PROVE OwnedInv'
  BY Zenon, <1>2, ReserveOwnedStep
<1>3. ASSUME NEW i \in Owned!Ids, NEW actual \in Amounts, Owned!CommitOwned(i, actual) PROVE OwnedInv'
  <2>1. i \in owned /\ i < nextId /\ nextId' = nextId /\ ids' = ids
    BY Zenon, <1>3 DEF Owned!CommitOwned, OwnedInv
  <2>2. CASE Owned!Settlement(i, actual) = "Overrun"
    BY Zenon, <1>3, <2>1, <2>2
       DEF Owned!CommitOwned, Owned!EngineCommit, Owned!vars, OwnedInv, Owned!ValueNamesOpenHold
  <2>3. CASE Owned!Settlement(i, actual) # "Overrun"
    <3>1. owned' = owned \ {i}
      BY Zenon, <1>3, <2>3 DEF Owned!CommitOwned
    <3>2. holds' = holds \/ holds' = [holds EXCEPT ![i] = None]
      BY Zenon, <1>3, EngineSettles DEF Owned!CommitOwned
    <3> QED BY Zenon, <2>1, <3>1, <3>2, OneHoldCloses DEF OwnedInv
  <2> QED BY Zenon, <2>2, <2>3
<1>4. ASSUME NEW i \in Owned!Ids, NEW actual \in Amounts, Owned!SettleById(i, actual) PROVE OwnedInv'
  <2>1. /\ i \in ids /\ i < nextId
        /\ nextId' = nextId /\ owned' = owned /\ ids' = ids
    BY Zenon, <1>4 DEF Owned!SettleById, OwnedInv
  <2>2. holds' = holds \/ holds' = [holds EXCEPT ![i] = None]
    BY Zenon, <1>4, EngineSettles DEF Owned!SettleById
  <2> QED BY Zenon, <2>1, <2>2, OneHoldCloses DEF OwnedInv
<1>5. ASSUME NEW i \in Owned!Ids, Owned!ReleaseOwned(i) \/ Owned!Drop(i) \/ Owned!IntoId(i) PROVE OwnedInv'
  <2>1. /\ i \in owned /\ i < nextId /\ owned' = owned \ {i}
        /\ nextId' = nextId /\ (ids' = ids \/ ids' = ids \cup {i})
    BY Zenon, <1>5 DEF Owned!ReleaseOwned, Owned!Drop, Owned!IntoId, OwnedInv
  <2>2. holds' = holds \/ holds' = [holds EXCEPT ![i] = None]
    BY Zenon, <1>5 DEF Owned!ReleaseOwned, Owned!Drop, Owned!IntoId, Owned!Release, Owned!vars
  <2> QED BY Zenon, <2>1, <2>2, OneHoldCloses DEF OwnedInv
<1>6. ASSUME NEW i \in Owned!Ids, Owned!ReadId(i) PROVE OwnedInv'
  <2>1. /\ i \in owned /\ i < nextId /\ owned' = owned /\ ids' = ids \cup {i}
        /\ nextId' = nextId /\ holds' = holds
    BY Zenon, <1>6 DEF Owned!ReadId, Owned!vars, OwnedInv
  <2> QED BY Zenon, <2>1, OneHoldCloses
<1>7. CASE UNCHANGED Owned!allVars
  BY Zenon, <1>7 DEF Owned!allVars, Owned!vars, OwnedInv, Owned!ValueNamesOpenHold
<1> QED BY Zenon, <1>1, <1>2, <1>3, <1>4, <1>5, <1>6, <1>7 DEF Owned!OwnedNext

\* Reservation in budget.rs: a value that is alive names an open hold for as long as nobody has
\* its number, for any tenants and amounts and whatever is done with other values and with the
\* numbers that id and into_id have given out.
THEOREM ValuesNameOpenHolds ==
  ASSUME Owned!OwnedAssumption
  PROVE  Owned!OwnedSpec => []Owned!ValueNamesOpenHold
<1>1. Owned!OwnedInit => OwnedInv
  BY DEF Owned!OwnedInit, Owned!Init, OwnedInv, Owned!ValueNamesOpenHold
<1>2. OwnedInv => Owned!ValueNamesOpenHold
  BY Zenon DEF OwnedInv
<1> QED BY <1>1, <1>2, OwnedStep, PTL DEF Owned!OwnedSpec
=============================================================================
