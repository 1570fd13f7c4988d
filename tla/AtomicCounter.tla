----------------------------- MODULE AtomicCounter -----------------------------
(***************************************************************************)
(* What a conditional update of a shared counter promises: the condition   *)
(* and the update are one step.  Debit takes an amount that is there,      *)
(* credit adds one that fits, count adds one that fits and stays within a  *)
(* cap; each is refused otherwise and then changes nothing.                *)
(***************************************************************************)
EXTENDS Integers

CONSTANTS Threads, MaxCounter, NoRequest

Requests ==
  [kind : {"debit", "credit"}, amount : 1..MaxCounter, max : {0}]
    \cup [kind : {"count"}, amount : 1..MaxCounter, max : 0..MaxCounter]

ASSUME CounterAssumption == MaxCounter \in Nat /\ NoRequest \notin Requests

VARIABLES
  value,    \* the counter
  asked,    \* asked[t]: the update t has been asked for, or NoRequest
  answer    \* answer[t]: what it answers, or NoRequest

counterVars == <<value, asked, answer>>

Target(r, v) == IF r.kind = "debit" THEN v - r.amount ELSE v + r.amount

\* The update that request r asks for is refused at value v.
Refused(r, v) ==
  \/ r.kind = "debit" /\ v < r.amount
  \/ r.kind # "debit" /\ v + r.amount > MaxCounter
  \/ r.kind = "count" /\ r.max > 0 /\ v + r.amount > r.max

Ok(v) == [ok |-> TRUE, value |-> v]
Err(v) == [ok |-> FALSE, value |-> v]

CounterInit ==
  /\ value \in 0..MaxCounter
  /\ asked = [t \in Threads |-> NoRequest]
  /\ answer = [t \in Threads |-> NoRequest]

Call(t, r) ==
  /\ asked[t] = NoRequest
  /\ asked' = [asked EXCEPT ![t] = r]
  /\ UNCHANGED <<value, answer>>

Update(t) ==
  /\ asked[t] # NoRequest
  /\ answer[t] = NoRequest
  /\ IF Refused(asked[t], value)
     THEN answer' = [answer EXCEPT ![t] = Err(value)] /\ UNCHANGED value
     ELSE /\ value' = Target(asked[t], value)
          /\ answer' = [answer EXCEPT ![t] = Ok(Target(asked[t], value))]
  /\ UNCHANGED asked

Return(t) ==
  /\ answer[t] # NoRequest
  /\ asked' = [asked EXCEPT ![t] = NoRequest]
  /\ answer' = [answer EXCEPT ![t] = NoRequest]
  /\ UNCHANGED value

\* An unconditional fetch_add or fetch_sub of another operation.
Adjust ==
  /\ value' \in 0..MaxCounter
  /\ UNCHANGED <<asked, answer>>

CounterNext ==
  \/ \E t \in Threads : Update(t) \/ Return(t) \/ \E r \in Requests : Call(t, r)
  \/ Adjust

CounterSpec == CounterInit /\ [][CounterNext]_counterVars
=============================================================================
