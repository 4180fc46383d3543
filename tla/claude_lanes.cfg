SPECIFICATION Spec
CONSTANTS
  dm1 = dm1
  box = box
  nudge = nudge
  agenda = agenda
  teach = teach
  Calls <- MCCalls
  Lanes = {"shared", "meta"}
  LaneOf <- MCLaneOf
  PurposeOf <- MCPurposeOf
  Streams = {box, teach}
  MaxConcurrency <- MCMaxConcurrency
  MaxPending = 0
INVARIANTS
  TypeOK
  SlotsConserved
  NoIdleSlot
  QueueBounded
PROPERTIES
  EveryCallReturns
