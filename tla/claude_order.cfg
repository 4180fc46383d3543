SPECIFICATION Spec
CONSTANTS
  dm1 = dm1
  box = box
  nudge = nudge
  agenda = agenda
  teach = teach
  Calls <- MCCalls
  Lanes = {"shared", "meta"}
  LaneOf <- MCLaneOf
  PurposeOf <- MCPurposeOf
  Streams = {box, teach}
  MaxConcurrency <- MCOneSlot
  MaxPending = 1
PROPERTY NoOvertaking
