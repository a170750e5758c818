SPECIFICATION Spec
CONSTANTS
  s1 = s1
  s2 = s2
  sub = sub
  cron = cron
  manual = manual
  Ships = {s1, s2}
  Subsidiaries = {sub}
  SubsidiaryOf <- MCSubsidiaryOf
  TracksExternal <- MCTrue
  AllowPreReg <- MCFalse
  HasCost <- MCTrue
  Created <- MCRecycledCreated
  Imported <- MCRecycled
  Scans <- MCTakeOverScans
  Headers <- MCTransitOnly
  Instants <- MCRaceInstants
  CronRuns = {cron}
  ManualRuns = {manual}
  MaxOps = 1
  MaxFails = 0
PROPERTIES
  ImplementsLedger
  ChargedDeliveryIsOurs
