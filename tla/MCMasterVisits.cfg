SPECIFICATION Spec
CONSTANTS
  s1 = s1
  s2 = s2
  sub = sub
  cron = cron
  manual = manual
  Ships = {s1}
  Subsidiaries = {sub}
  SubsidiaryOf <- MCSubsidiaryOf
  TracksExternal <- MCFalse
  AllowPreReg <- MCFalse
  HasCost <- MCTrue
  Created <- MCCreated
  Imported <- MCImported
  Scans <- MCWeekScans
  Headers <- MCWeekHeaders
  Instants <- MCWeekInstants
  CronRuns = {}
  ManualRuns = {manual}
  MaxOps = 1
  MaxFails = 1
INVARIANTS
  TypeOK
  ThirdVisitIsReal
  DeliveredIsCharged
PROPERTIES
  InternalOperationStands
