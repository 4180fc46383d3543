SPECIFICATION Spec
CONSTANTS
  f1 = f1
  f2 = f2
  m1 = m1
  Flushes = {f1, f2}
  Forced = {}
  MaxDrain = 3
  MaxBatch = 20
  MaxAttempts = 2
  MaxFallbacks = 1
  CoalesceEnabled = FALSE
  RetryEnabled = FALSE
  ClaudeOutcomes = {"reply", "fallback"}
  History <- NoHistory
  Budget <- BudgetTakeover
INVARIANTS
  TakeoverStopsBot
CHECK_DEADLOCK FALSE
