-------------------------------- MODULE CasLoop --------------------------------
(***************************************************************************)
(* The compare-and-swap loops of src/budget.rs: debit_if_available,        *)
(* credit_if_no_overflow and try_increment_reserved_total, on one counter. *)
(*                                                                         *)
(* A loop loads the counter once.  Each turn decides on the value it saw   *)
(* last; a compare_exchange_weak that fails, because the counter has moved *)
(* on or for no reason at all, brings the next value to decide on.         *)
(***************************************************************************)
EXTENDS AtomicCounter

VARIABLES
  loop,    \* loop[t]: "idle", "load", "exchange" or "done"
  current  \* current[t]: the value the loop decides on

loopVars == <<counterVars, loop, current>>

LoopInit ==
  /\ CounterInit
  /\ loop = [t \in Threads |-> "idle"]
  /\ current = [t \in Threads |-> 0]

Enter(t, r) ==
  /\ loop[t] = "idle"
  /\ Call(t, r)
  /\ loop' = [loop EXCEPT ![t] = "load"]
  /\ UNCHANGED current

\* The loop has seen value v: it answers a refusal or goes on to exchange.
See(t, v) ==
  /\ current' = [current EXCEPT ![t] = v]
  /\ IF Refused(asked[t], v)
     THEN /\ answer' = [answer EXCEPT ![t] = Err(v)]
          /\ loop' = [loop EXCEPT ![t] = "done"]
     ELSE /\ loop' = [loop EXCEPT ![t] = "exchange"]
          /\ UNCHANGED answer
  /\ UNCHANGED <<value, asked>>

Load(t) ==
  /\ loop[t] = "load"
  /\ See(t, value)

\* A slip of the translation: a plain store in place of the exchange.
ExchangeUncompared(t) ==
  /\ loop[t] = "exchange"
  /\ value' = Target(asked[t], current[t])
  /\ answer' = [answer EXCEPT ![t] = Ok(value')]
  /\ loop' = [loop EXCEPT ![t] = "done"]
  /\ UNCHANGED <<asked, current>>

Exchange(t) ==
  /\ loop[t] = "exchange"
  /\ value = current[t]
  /\ value' = Target(asked[t], current[t])
  /\ answer' = [answer EXCEPT ![t] = Ok(value')]
  /\ loop' = [loop EXCEPT ![t] = "done"]
  /\ UNCHANGED <<asked, current>>

\* compare_exchange_weak may also fail while the values agree.
ExchangeFails(t) ==
  /\ loop[t] = "exchange"
  /\ See(t, value)

Leave(t) ==
  /\ loop[t] = "done"
  /\ Return(t)
  /\ loop' = [loop EXCEPT ![t] = "idle"]
  /\ current' = [current EXCEPT ![t] = 0]

LoopNext ==
  \/ \E t \in Threads :
       \/ Load(t) \/ Exchange(t) \/ ExchangeFails(t) \/ Leave(t)
       \/ \E r \in Requests : Enter(t, r)
  \/ Adjust /\ UNCHANGED <<loop, current>>

LoopSpec == LoopInit /\ [][LoopNext]_loopVars

-----------------------------------------------------------------------------
\* The loops are atomic: each one decides and updates in a single step, on a
\* value that the counter has at that moment, whatever other threads do between.
LoopsAreAtomic == CounterSpec
=============================================================================
