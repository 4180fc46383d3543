SPECIFICATION HostSpec
CONSTANTS
  r1 = r1
  r2 = r2
  s1 = s1
  Asked = {"deploy", "destroy", "backup"}
  Requests = {r1, r2}
  Scheduled = {s1}
INVARIANTS
  TypeOK
  HostTypeOK
  NoLockLeak
  BackupsAlone
  RunningRowHasJob
  SuccessIsReal
  DeploysAlone
PROPERTIES
  NoDeployOverFailedDump
  RowsSettle
CHECK_DEADLOCK FALSE
