SPECIFICATION RSpec
CONSTANTS
  s1 = s1
  sub = sub
  cron = cron
  opening = opening
  panelist = panelist
  closing = closing
  Ships = {s1}
  Subsidiaries = {sub}
  SubsidiaryOf <- MCSubsidiaryOf
  TracksExternal <- MCFalse
  AllowPreReg <- MCFalse
  HasCost <- MCTrue
  Created <- MCCreated
  Imported <- MCImported
  Scans <- MCDayScans
  Headers <- MCTransitOnly
  Instants <- MCInstants
  CronRuns = {cron}
  ManualRuns = {}
  MaxOps = 1
  MaxFails = 0
  Sessions = {opening}
  Openings = {opening}
  Closings = {closing}
  RouteSubsidiary = sub
  RouteDay = 31
INVARIANTS
  RTypeOK
  OverchargeBounded
  IncomeHasCause
PROPERTIES
  UpdateNeverSecond
