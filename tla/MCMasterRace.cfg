SPECIFICATION FairSpec
CONSTANTS
  s1 = s1
  s2 = s2
  sub = sub
  cron = cron
  manual = manual
  Ships = {s1}
  Subsidiaries = {sub}
  SubsidiaryOf <- MCSubsidiaryOf
  TracksExternal <- MCFalse
  AllowPreReg <- MCTrue
  HasCost <- MCTrue
  Created <- MCRaceCreated
  Imported <- MCImported
  Scans <- MCRaceScans
  Headers <- MCWeekHeaders
  Instants <- MCRaceInstants
  CronRuns = {cron}
  ManualRuns = {manual}
  MaxOps = 1
  MaxFails = 1
INVARIANTS
  ChargedOncePerWeek
  ScanRecordedOnce
PROPERTIES
  TerminalStands
  DeliveryReachesTheRow
