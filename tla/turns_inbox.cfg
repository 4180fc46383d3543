SPECIFICATION Spec
CONSTANTS
  f1 = f1
  f2 = f2
  m1 = m1
  Flushes = {f1, f2}
  Forced = {}
  MaxDrain = 3
  MaxBatch = 20
  MaxAttempts = 2
  MaxFallbacks = 1
  CoalesceEnabled = TRUE
  RetryEnabled = FALSE
  ClaudeOutcomes = {"reply", "fallback", "silence", "handoff", "order"}
  History <- OldHistory
  Budget <- BudgetInbox
PROPERTIES
  RefinesInbox
CHECK_DEADLOCK FALSE
