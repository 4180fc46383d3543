SPECIFICATION Spec
CONSTANTS
  MaxSends = 3
  Split = {3}
  Like <- MCLike
  MaxRecent = 1
  MaxJobs = 2
  MaxBubbles = 1
  Budgets <- MCBudgets
INVARIANTS
  TypeOK
  OneNudgePerSilence
  SlotIsCurrent
  OwnSendOnce
  EchoKnowsOwn
CHECK_DEADLOCK FALSE
