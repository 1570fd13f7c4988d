\* Two calls at a time of up to three attempts, with failures, overruns, late
\* reconciliations, releases and corrections.
CONSTANTS
  Calls = {c1, c2}
  Names = {a1, a2, a3, a4}
  Run = Run
  MaxI64 = 6
  Budgets <- MCBudgets
  Amounts <- MCAmounts
  MaxAttempts = 3
  MaxDenied = 1
  MaxDenials = 2
  None = None
SPECIFICATION Spec
SYMMETRY Symmetric
INVARIANTS
  ReportMatchesLedger
  OverrunClosesRun
  HistoryIsExact
  SuggestionIsPossible
PROPERTIES
  ObservedCostKept
