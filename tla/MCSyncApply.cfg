SPECIFICATION PFairSpec
CONSTANTS
  s1 = s1
  sub = sub
  cron = cron
  manual = manual
  opening = opening
  apply = apply
  Ships = {s1}
  Subsidiaries = {sub}
  SubsidiaryOf <- MCSubsidiaryOf
  TracksExternal <- MCFalse
  AllowPreReg <- MCFalse
  HasCost <- MCTrue
  Created <- MCCreated
  Imported <- MCImported
  Scans <- MCSettleScans
  Headers <- MCTransitOnly
  Instants <- MCInstants
  CronRuns = {cron}
  ManualRuns = {}
  MaxOps = 0
  MaxFails = 1
  Sessions = {apply}
INVARIANTS
  DuplicatesBounded
PROPERTIES
  SeenTerminalStands
  NothingMissing
  DeliverySettles
