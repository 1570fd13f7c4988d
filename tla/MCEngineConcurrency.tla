-------------------------- MODULE MCEngineConcurrency --------------------------
(***************************************************************************)
(* What threads do to one another inside the budget engine, in one run:    *)
(* they call its operations and meet at its locks, they run its            *)
(* compare-and-swap loops on one counter, or they certify its ledger.  The *)
(* three parts share no state.                                             *)
(***************************************************************************)
EXTENDS EngineLocks, CasLoop, LedgerCertificates

VARIABLES part  \* which part moves: "locks", "loops" or "certificates"

concurrencyVars == <<lockVars, loopVars, certVars, part>>

ConcurrencyInit ==
  /\ part \in {"locks", "loops", "certificates"}
  /\ LocksInit
  /\ LoopInit
  /\ CertInit
  /\ part # "loops" => value = 0
  /\ part # "locks" => prefersWriters

ConcurrencyNext ==
  \/ part = "locks" /\ LocksNext /\ UNCHANGED <<loopVars, certVars, part>>
  \/ part = "loops" /\ LoopNext /\ UNCHANGED <<lockVars, certVars, part>>
  \/ part = "certificates" /\ CertNext /\ UNCHANGED <<lockVars, loopVars, part>>

ConcurrencySpec == ConcurrencyInit /\ [][ConcurrencyNext]_concurrencyVars /\ Fairness
=============================================================================
