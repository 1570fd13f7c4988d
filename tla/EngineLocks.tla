------------------------------ MODULE EngineLocks ------------------------------
(***************************************************************************)
(* Every lock of the budget engine of src/budget.rs, in the order in which *)
(* each operation takes and drops it: the checkpoint gate (a RwLock), the  *)
(* six maps and the certificate baseline (mutexes).                        *)
(*                                                                         *)
(* An operation is a script: Lock and Unlock are the guards it takes and   *)
(* drops explicitly or at the end of an inner block, MayReturn an early    *)
(* return.  When it returns, the guards it still holds are dropped in      *)
(* reverse order, as Rust drops locals.  What is done under the locks is   *)
(* in module BudgetEngine.                                                 *)
(***************************************************************************)
EXTENDS Naturals, SequencesExt

CONSTANTS
  EngineThreads,  \* threads that call the engine
  Rounds    \* operations each thread calls (a bound)

ASSUME LocksAssumption == Rounds \in Nat

Lock(l) == <<"lock", l>>
Unlock(l) == <<"unlock", l>>
MayReturn == <<"may return">>

Operations ==
  {"ensure", "top_up", "reserve", "commit", "release", "set_max", "snapshot", "restore",
   "certify", "since", "remaining"}

Script(op) ==
  CASE op = "ensure" ->
         <<Lock("gate read"), Lock("budgets"), Lock("initials"), Lock("committed"),
           Lock("totals")>>
    [] op = "top_up" ->
         <<Lock("gate read"), Lock("budgets"), MayReturn, Unlock("budgets"),
           Lock("initials"), MayReturn>>
    [] op = "reserve" ->
         <<Lock("gate read"), Lock("budgets"), Lock("totals"), MayReturn,
           Unlock("totals"), Unlock("budgets"), Lock("limits"), Unlock("limits"),
           MayReturn, Lock("reservations")>>
    [] op = "commit" ->
         <<Lock("gate read"), Lock("reservations"), MayReturn, Lock("budgets"), MayReturn,
           Unlock("budgets"), Lock("committed"), MayReturn, Unlock("committed"),
           Lock("totals"), Unlock("totals")>>
    [] op = "release" ->
         <<Lock("gate read"), Lock("reservations"), MayReturn, Lock("budgets"), MayReturn,
           Unlock("budgets"), Lock("totals"), Unlock("totals")>>
    [] op = "set_max" -> <<Lock("gate write"), Lock("limits")>>
    [] op = "snapshot" ->
         <<Lock("gate write"), Lock("reservations"), Lock("budgets"), Lock("initials"),
           Lock("committed"), Lock("totals")>>
    [] op = "restore" ->
         <<Lock("gate write"), Lock("reservations"), Unlock("reservations"),
           Lock("budgets"), Lock("initials"), Lock("committed"), Lock("totals"),
           Lock("limits"), Lock("baseline")>>
    [] op = "certify" ->
         <<Lock("gate write"), Lock("reservations"), Lock("budgets"), Lock("initials"),
           Lock("committed"), Lock("totals"), Unlock("totals"), Unlock("committed"),
           Unlock("initials"), Unlock("budgets"), Unlock("reservations"),
           Unlock("gate write"), MayReturn, Lock("baseline")>>
    [] op = "since" ->
         <<Lock("committed"), Unlock("committed"), Lock("baseline")>>
    [] op = "remaining" -> <<Lock("budgets")>>

VARIABLES
  left,  \* left[t]: operations thread t has still to call
  op,    \* op[t]: the operation t is in, or "none"
  at,    \* at[t]: the next line of its script
  held,  \* held[t]: the guards t holds, in the order it took them
  prefersWriters  \* whether a waiting writer keeps new readers out of the gate

lockVars == <<left, op, at, held, prefersWriters>>

\* std's RwLock leaves its policy to the platform: either one.
LocksInit ==
  /\ prefersWriters \in BOOLEAN
  /\ left = [t \in EngineThreads |-> Rounds]
  /\ op = [t \in EngineThreads |-> "none"]
  /\ at = [t \in EngineThreads |-> 1]
  /\ held = [t \in EngineThreads |-> <<>>]

-----------------------------------------------------------------------------
InScript(t) == op[t] # "none" /\ at[t] <= Len(Script(op[t]))

Line(t) == Script(op[t])[at[t]]

\* Thread t's next line takes lock l.
Wants(t, l) == InScript(t) /\ Line(t) = Lock(l)

Holds(t, l) == Contains(held[t], l)

\* A guard k keeps another thread from taking l.
Excludes(k, l) ==
  \/ k = l /\ l # "gate read"
  \/ {k, l} = {"gate read", "gate write"}

\* Thread u keeps thread t from taking l.
Blocks(u, t, l) ==
  \/ \E i \in DOMAIN held[u] : Excludes(held[u][i], l)
  \/ prefersWriters /\ u # t /\ l = "gate read" /\ Wants(u, "gate write")

Start(t, o) ==
  /\ op[t] = "none"
  /\ left[t] > 0
  /\ left' = [left EXCEPT ![t] = @ - 1]
  /\ op' = [op EXCEPT ![t] = o]
  /\ at' = [at EXCEPT ![t] = 1]
  /\ UNCHANGED <<held, prefersWriters>>

Take(t) ==
  /\ InScript(t)
  /\ Line(t)[1] = "lock"
  /\ \A u \in EngineThreads : ~Blocks(u, t, Line(t)[2])
  /\ held' = [held EXCEPT ![t] = Append(@, Line(t)[2])]
  /\ at' = [at EXCEPT ![t] = @ + 1]
  /\ UNCHANGED <<left, op, prefersWriters>>

DropGuard(t) ==
  /\ InScript(t)
  /\ Line(t)[1] = "unlock"
  /\ held' = [held EXCEPT ![t] = Remove(@, Line(t)[2])]
  /\ at' = [at EXCEPT ![t] = @ + 1]
  /\ UNCHANGED <<left, op, prefersWriters>>

\* A slip of the translation: a refused call is tried again from the start.
DecideRetries(t) ==
  /\ InScript(t)
  /\ Line(t) = MayReturn
  /\ \/ at' = [at EXCEPT ![t] = @ + 1] /\ UNCHANGED held
     \/ at' = [at EXCEPT ![t] = 1] /\ held' = [held EXCEPT ![t] = <<>>]
  /\ UNCHANGED <<left, op, prefersWriters>>

Decide(t) ==
  /\ InScript(t)
  /\ Line(t) = MayReturn
  /\ \E next \in {at[t] + 1, Len(Script(op[t])) + 1} : at' = [at EXCEPT ![t] = next]
  /\ UNCHANGED <<left, op, held, prefersWriters>>

\* Return: the last guard taken is dropped first.
Unwind(t) ==
  /\ op[t] # "none"
  /\ ~InScript(t)
  /\ IF held[t] = <<>>
     THEN op' = [op EXCEPT ![t] = "none"] /\ UNCHANGED held
     ELSE held' = [held EXCEPT ![t] = Front(@)] /\ UNCHANGED op
  /\ UNCHANGED <<left, at, prefersWriters>>

Step(t) == Take(t) \/ DropGuard(t) \/ Decide(t) \/ Unwind(t)

Done == \A t \in EngineThreads : op[t] = "none" /\ left[t] = 0

LocksNext ==
  \/ \E t \in EngineThreads : Step(t) \/ \E o \in Operations : Start(t, o)
  \/ Done /\ UNCHANGED lockVars

\* A thread inside an operation keeps running unless a lock stops it.
Fairness == \A t \in EngineThreads : WF_lockVars(Step(t))

LocksSpec == LocksInit /\ [][LocksNext]_lockVars /\ Fairness

-----------------------------------------------------------------------------
\* Every operation that was called returns, however the threads are scheduled and
\* whichever of them a freed lock goes to, as long as calls stop coming.
EveryCallReturns == \A t \in EngineThreads : op[t] # "none" ~> op[t] = "none"
=============================================================================
