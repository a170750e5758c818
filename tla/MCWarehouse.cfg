SPECIFICATION Spec
CONSTANTS
  p1 = p1
  s1 = s1
  s2 = s2
  c1 = c1
  c2 = c2
  Packages <- MCPackages
  Pieced <- MCPieced
  Subsidiaries <- MCSubsidiaries
  Home <- MCHome
  Callers <- MCCallers
  Scanned <- MCScanned
  MaxOperations = 3
  MaxScans = 1
  MaxRollbacks = 2
SYMMETRY MCSymmetry
CHECK_DEADLOCK FALSE
INVARIANTS
  WTypeOK
  StatusIsNewestRow
PROPERTIES
  ScanIsKept
  RollbackRestores
