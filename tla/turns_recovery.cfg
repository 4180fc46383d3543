SPECIFICATION Spec
CONSTANTS
  f1 = f1
  f2 = f2
  m1 = m1
  Flushes = {f1, f2}
  Forced = {m1}
  MaxDrain = 3
  MaxBatch = 20
  MaxAttempts = 2
  MaxFallbacks = 1
  CoalesceEnabled = TRUE
  RetryEnabled = TRUE
  ClaudeOutcomes = {"reply", "fallback"}
  History <- OldHistory
  Budget <- BudgetRecovery
INVARIANTS
  ClaimsOfTheRunningTurn
PROPERTIES
  NobodyLeftWaiting
CHECK_DEADLOCK FALSE
