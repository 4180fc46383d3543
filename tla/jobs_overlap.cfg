SPECIFICATION Spec
CONSTANTS
  r1 = r1
  r2 = r2
  s1 = s1
  Asked = {"deploy", "destroy"}
  Requests = {r1, r2}
  Scheduled = {}
INVARIANTS
  DeployDestroyExclude
CHECK_DEADLOCK FALSE
