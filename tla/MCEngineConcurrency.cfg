\* Two threads that call two operations each, any of them, under both policies of the gate; two
\* loops of any kind and other operations that move the counter; two overlapping callers of
\* certify_ledger over a ledger whose totals can pass i64::MAX.
CONSTANTS
  EngineThreads = {e1, e2}
  Rounds = 2
  Threads = {t1, t2}
  MaxCounter = 3
  NoRequest = NoRequest
  TenantCount = 2
  MaxI64 = 2
  Callers = {c1, c2}
  ExclusiveRecovery = TRUE
SPECIFICATION ConcurrencySpec
INVARIANT
  SpendCertifiedOnce
PROPERTIES
  EveryCallReturns
  LoopsAreAtomic
