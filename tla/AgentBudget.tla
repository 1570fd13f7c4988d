------------------------------ MODULE AgentBudget ------------------------------
(***************************************************************************)
(* AgentBudget (python/calybris/agent.py): calls of an agent that share    *)
(* one budget.                                                             *)
(*                                                                         *)
(* A call reserves, runs the operation outside the lock, and settles.  A   *)
(* call that fails leaves its attempt uncertain, with its hold, for        *)
(* somebody to reconcile, release or correct later.  Every method body     *)
(* runs under one lock and is one action here; the parts of call and acall *)
(* between two of them are separate actions.  The budget engine below is   *)
(* the atomic ledger of module BudgetLedger, which module BudgetEngine     *)
(* implements.  Calls that are refused before anything is recorded (a      *)
(* closed run, a duplicate, a full registry, an invalid argument) change   *)
(* nothing and are left out, and so are the reports, which only read.      *)
(***************************************************************************)
EXTENDS Sums, Sequences

CONSTANTS
  Calls,         \* threads and tasks that make calls
  Names,         \* attempt identifiers
  Run,           \* the engine's only tenant
  MaxI64,
  Budgets,       \* what a run may be given
  Amounts,       \* reservations and costs
  MaxAttempts,   \* max_attempts
  MaxDenied,     \* max_denied_records
  MaxDenials,    \* bound on the number of denials
  None

ASSUME AgentAssumption ==
  /\ MaxAttempts \in Nat \ {0} /\ MaxDenied \in Nat \ {0} /\ MaxDenials \in Nat
  /\ Budgets \subseteq Nat /\ Amounts \subseteq Nat
  /\ None \notin Int /\ None \notin {"explicit", "overrun", "settlement_error"}
  /\ None \notin [tenant : {Run}, amount : Amounts]
  /\ None \notin [attempt : Nat, at : {"operation", "except"}]

VARIABLES
  tenants, available, spent, granted, limits, holds, saved,  \* the engine: BudgetLedger
  attempts,     \* self._attempts: the entries in the order they were admitted
  denied,       \* self._denied: the last denied attempts
  deniedTotal,  \* self._denied_total
  headroom,     \* self._denials_with_headroom
  largest,      \* self._largest_settled
  closed,       \* self._close_reason, None while the run is open
  calls         \* calls[c]: the attempt that c executes and where it is, or None

ledger == <<tenants, available, spent, granted, limits, holds, saved>>
history == <<denied, deniedTotal, headroom>>
vars == <<ledger, attempts, history, largest, closed, calls>>

Engine == INSTANCE BudgetLedger WITH
  Tenants <- {Run}, AllocatorMask <- MaxAttempts + 1

Ids == Engine!Ids

\* SETTLED_STATUSES: the statuses whose amount the ledger took.
Settled == {"committed", "overrun_settled", "corrected", "released"}
Unresolved == {"uncertain", "overrun_unsettled"}
Status == Settled \cup Unresolved \cup {"running"}

\* _Attempt and its AttemptReport.
Entry ==
  [name : Names, status : Status, reserved : Amounts, actual : Amounts \cup {0, None},
   corrected : Amounts \cup {None}, hold : Ids \cup {None}]

Admitted == DOMAIN attempts

Init ==
  /\ Engine!Init
  /\ attempts = <<>>
  /\ denied = <<>>
  /\ deniedTotal = 0
  /\ headroom = 0
  /\ largest = 0
  /\ closed = None
  /\ calls = [c \in Calls |-> None]

\* __init__: the engine is made with the run as its only tenant.
Create(budget) ==
  /\ Engine!EnsureTenant(Run, budget)
  /\ UNCHANGED <<attempts, history, largest, closed, calls>>

-----------------------------------------------------------------------------
\* What _begin checks under the lock before it asks the engine.
MayBegin(name) ==
  /\ Run \in tenants
  /\ closed = None
  /\ \A a \in Admitted : attempts[a].name # name
  /\ Len(attempts) < MaxAttempts

\* _begin, when the engine reserves: every attempt has the next reservation id.
Admit(c, name, amount) ==
  /\ calls[c] = None
  /\ MayBegin(name)
  /\ LET i == Len(attempts) + 1
     IN  /\ Engine!Reserve(Run, amount, i)
         /\ attempts' = Append(attempts,
              [name |-> name, status |-> "running", reserved |-> amount, actual |-> None,
               corrected |-> None, hold |-> i])
         /\ calls' = [calls EXCEPT ![c] = [attempt |-> i, at |-> "operation"]]
  /\ UNCHANGED <<history, largest, closed>>

\* A deque of max_denied_records.
Remember(name) == Append(IF Len(denied) < MaxDenied THEN denied ELSE Tail(denied), name)

\* _begin, when the engine refuses: only the history of denials changes.
Deny(c, name, amount) ==
  /\ calls[c] = None
  /\ MayBegin(name)
  /\ deniedTotal < MaxDenials
  /\ amount > available[Run]
  /\ deniedTotal' = deniedTotal + 1
  /\ denied' = Remember(name)
  /\ headroom' = IF largest > 0 /\ available[Run] >= largest THEN headroom + 1 ELSE headroom
  /\ UNCHANGED <<ledger, attempts, largest, closed, calls>>

-----------------------------------------------------------------------------
\* The engine commits when the balance covers what exceeds the hold.
Pays(i, actual) == holds[i] # None /\ actual <= holds[i].amount + available[Run]

StatusAfter(overrun, paid) ==
  IF paid THEN IF overrun THEN "overrun_settled" ELSE "committed"
  ELSE IF overrun THEN "overrun_unsettled" ELSE "uncertain"

\* A slip of the translation: only an overrun that cannot be paid closes the run.
ClosedAfterUnpaid(overrun, paid) ==
  IF paid THEN closed ELSE IF overrun THEN "overrun" ELSE "settlement_error"

ClosedAfter(overrun, paid) ==
  IF overrun THEN "overrun" ELSE IF paid THEN closed ELSE "settlement_error"

\* A slip of the translation: the last cost is kept instead of the largest.
LargestAfterLast(actual, paid) == IF paid THEN actual ELSE largest

LargestAfter(actual, paid) == IF paid /\ actual > largest THEN actual ELSE largest

\* _settle_locked.  The observed cost is recorded whether or not it can be paid.
Settle(a, actual) ==
  LET e == attempts[a]
      overrun == actual > e.reserved
      paid == Pays(e.hold, actual)
  IN  /\ e.hold # None
      /\ IF paid THEN Engine!Commit(e.hold, actual) ELSE UNCHANGED ledger
      /\ attempts' = [attempts EXCEPT ![a] =
           [e EXCEPT !.actual = actual, !.status = StatusAfter(overrun, paid),
                     !.hold = IF paid THEN None ELSE e.hold]]
      /\ closed' = ClosedAfter(overrun, paid)
      /\ largest' = LargestAfter(actual, paid)
      /\ UNCHANGED history

At(c, stage) == calls[c] # None /\ calls[c].at = stage

\* The operation completes with a valid cost: _finish.  An overrun raises.
Finish(c, actual) ==
  /\ At(c, "operation")
  /\ Settle(calls[c].attempt, actual)
  /\ calls' = [calls EXCEPT ![c] =
       IF actual > attempts[calls[c].attempt].reserved THEN [@ EXCEPT !.at = "except"] ELSE None]

\* The operation or the cost callback raises, is cancelled, or returns something
\* that is not a completed cost.
Raise(c) ==
  /\ At(c, "operation")
  /\ calls' = [calls EXCEPT ![c].at = "except"]
  /\ UNCHANGED <<ledger, attempts, history, largest, closed>>

\* A slip of the translation: the handler does not look at the status.
UncertainAlways(c) ==
  /\ At(c, "except")
  /\ attempts' = [attempts EXCEPT ![calls[c].attempt].status = "uncertain"]
  /\ calls' = [calls EXCEPT ![c] = None]
  /\ UNCHANGED <<ledger, history, largest, closed>>

\* The exception handler of call and acall: _uncertain, then the exception is raised again.
Uncertain(c) ==
  /\ At(c, "except")
  /\ attempts' = [attempts EXCEPT ![calls[c].attempt].status =
       IF @ = "running" THEN "uncertain" ELSE @]
  /\ calls' = [calls EXCEPT ![c] = None]
  /\ UNCHANGED <<ledger, history, largest, closed>>

-----------------------------------------------------------------------------
\* _unresolved
IsUnresolved(a) == a \in Admitted /\ attempts[a].status \in Unresolved

\* A slip of the translation: a cost observed before may be replaced.
ReconcileAnyCost(a, actual) ==
  /\ IsUnresolved(a)
  /\ Settle(a, actual)
  /\ UNCHANGED calls

Reconcile(a, actual) ==
  /\ IsUnresolved(a)
  /\ attempts[a].actual \in {None, actual}
  /\ Settle(a, actual)
  /\ UNCHANGED calls

\* release, with confirmed_no_charge.
Release(a) ==
  /\ IsUnresolved(a)
  /\ attempts[a].actual = None
  /\ attempts[a].hold # None
  /\ IF holds[attempts[a].hold] # None
     THEN /\ Engine!Release(attempts[a].hold)
          /\ attempts' = [attempts EXCEPT ![a] =
               [@ EXCEPT !.status = "released", !.actual = 0, !.hold = None]]
          /\ UNCHANGED closed
     ELSE /\ closed' = "settlement_error"
          /\ UNCHANGED <<ledger, attempts>>
  /\ UNCHANGED <<history, largest, calls>>

\* correct: an unsettled overrun is settled at a lower amount that can be paid.
Correct(a, amount) ==
  /\ a \in Admitted
  /\ attempts[a].status = "overrun_unsettled"
  /\ amount < attempts[a].actual
  /\ attempts[a].hold # None
  /\ Pays(attempts[a].hold, amount)
  /\ Engine!Commit(attempts[a].hold, amount)
  /\ attempts' = [attempts EXCEPT ![a] =
       [@ EXCEPT !.status = "corrected", !.corrected = amount, !.hold = None]]
  /\ UNCHANGED <<history, largest, closed, calls>>

Close ==
  /\ Run \in tenants
  /\ closed' = IF closed = None THEN "explicit" ELSE closed
  /\ UNCHANGED <<ledger, attempts, history, largest, calls>>

\* A slip of the translation: an unpaid overrun is offered for release.
NextActionRelease(a) ==
  IF attempts[a].status = "running" THEN "wait_for_operation"
  ELSE "reconcile_or_confirm_no_charge"

\* lifecycle_report: what it tells the reader to do about an attempt that is not settled.
NextAction(a) ==
  IF attempts[a].status = "running" THEN "wait_for_operation"
  ELSE IF attempts[a].status = "uncertain" /\ attempts[a].actual = None
  THEN "reconcile_or_confirm_no_charge"
  ELSE "documented_correction"

Next ==
  \/ \E budget \in Budgets : Create(budget)
  \/ \E c \in Calls, name \in Names, amount \in Amounts :
       Admit(c, name, amount) \/ Deny(c, name, amount)
  \/ \E c \in Calls, actual \in Amounts : Finish(c, actual)
  \/ \E c \in Calls : Raise(c) \/ Uncertain(c)
  \/ \E a \in Admitted, actual \in Amounts : Reconcile(a, actual) \/ Correct(a, actual)
  \/ \E a \in Admitted : Release(a)
  \/ Close

Spec == Init /\ [][Next]_vars

-----------------------------------------------------------------------------
\* The amount the ledger took for the attempt with a number, if it was settled.
Charged(a) ==
  IF a \in Admitted /\ attempts[a].status \in Settled
  THEN IF attempts[a].corrected # None THEN attempts[a].corrected ELSE attempts[a].actual
  ELSE 0

\* The report accounts for the ledger: the lifetime spend is exactly what the settled
\* attempts were charged, and every open hold is the reservation of exactly one attempt
\* that is not settled (RunReport, _settle_locked, release, correct).
ReportMatchesLedger ==
  /\ spent[Run] = Sum([a \in 1..MaxAttempts |-> Charged(a)], MaxAttempts)
  /\ \A a \in Admitted : attempts[a].hold = None <=> attempts[a].status \in Settled
  /\ \A i \in Ids : holds[i] # None =>
       \E a \in Admitted : /\ attempts[a].hold = i
                           /\ \A b \in Admitted : attempts[b].hold = i => b = a
  /\ \A a \in Admitted : attempts[a].hold # None =>
       holds[attempts[a].hold] = [tenant |-> Run, amount |-> attempts[a].reserved]

\* An overrun, paid or not, closes the run for good and is named as the reason, and a
\* settlement within its reservation never fails (_settle_locked).
OverrunClosesRun ==
  /\ closed = "overrun" <=>
       \E a \in Admitted : attempts[a].actual # None /\ attempts[a].actual > attempts[a].reserved
  /\ closed # "settlement_error"

\* A cost that was observed is never replaced, released or forgotten, also when the
\* settlement is tried again later, and a settled attempt never changes again, so nothing
\* is charged twice (docs/AGENT_BUDGET.md, reconcile, release).
ObservedCostKept ==
  [][\A a \in Admitted :
       /\ attempts[a].actual # None => attempts'[a].actual = attempts[a].actual
       /\ attempts[a].status \in Settled => attempts'[a] = attempts[a]]_vars

CostsPaid == {a \in Admitted : attempts[a].status \in {"committed", "overrun_settled"}}

\* The largest settled cost, which headroom is measured by, is that of a settled
\* attempt, and only the denials beyond the ring's size are dropped (_begin).
HistoryIsExact ==
  /\ \A a \in CostsPaid : attempts[a].actual <= largest
  /\ largest = 0 \/ \E a \in CostsPaid : attempts[a].actual = largest
  /\ Len(denied) = IF deniedTotal <= MaxDenied THEN deniedTotal ELSE MaxDenied

\* What lifecycle_report tells the reader to do about an unsettled attempt can be
\* done: there is a call to wait for, a hold to release, or an amount to correct to.
SuggestionIsPossible ==
  \A a \in {b \in Admitted : attempts[b].status \notin Settled} :
    /\ NextAction(a) = "wait_for_operation" => \E c \in Calls : calls[c] # None /\ calls[c].attempt = a
    /\ NextAction(a) = "reconcile_or_confirm_no_charge" => ENABLED Release(a)
    /\ NextAction(a) = "documented_correction" => ENABLED \E amount \in Amounts : Correct(a, amount)
=============================================================================
