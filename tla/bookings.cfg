SPECIFICATION Spec
CONSTANTS
  a = a
  b = b
  bot = bot
  m1 = m1
  m2 = m2
  monday = monday
  tuesday = tuesday
  noSlot = noSlot
  Services = {a, b}
  Slots = {monday, tuesday}
  NoSlot = noSlot
  Bot = bot
  Managers = {m1}
  MaxVisits = 2
  MaxRecords = 3
  Budgets <- MCBudgets
SYMMETRY Symmetric
INVARIANTS
  TypeOK
  OneKnownVisit
  OrderFollowsVisit
  MoveFreesOldSlot
  ConfirmedLinesBooked
PROPERTIES
  CancelIsFinal
CHECK_DEADLOCK FALSE
