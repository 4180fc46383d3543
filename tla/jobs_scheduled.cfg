SPECIFICATION Spec
CONSTANTS
  r1 = r1
  r2 = r2
  s1 = s1
  Asked = {"deploy", "destroy", "backup", "restore"}
  Requests = {r1}
  Scheduled = {s1}
INVARIANTS
  OneActiveJob
CHECK_DEADLOCK FALSE
