SPECIFICATION Spec
CONSTANTS
  s1 = s1
  s2 = s2
  sub = sub
  cron = cron
  manual = manual
  Ships = {s1}
  Subsidiaries = {sub}
  SubsidiaryOf <- MCSubsidiaryOf
  TracksExternal <- MCFalse
  AllowPreReg <- MCFalse
  HasCost <- MCTrue
  Created <- MCCreated
  Imported <- MCImported
  Scans <- MCSundayScans
  Headers <- MCSundayHeaders
  Instants <- MCSundayInstants
  CronRuns = {}
  ManualRuns = {manual}
  MaxOps = 0
  MaxFails = 0
INVARIANTS
  ChargedOncePerMondayToSunday
