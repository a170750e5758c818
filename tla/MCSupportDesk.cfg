SPECIFICATION Spec
CONSTANTS
  MaxInFlight = 2
  InitialPriority <- MCInitialPriority
  Priorities <- MCPriorities
  Deadline <- MCDeadline
  Wants <- MCWants
  MaxNow = 2
  MaxRequests = 3
  MaxFaults = 1
INVARIANTS
  STypeOK
  DatesFollowState
  NoticesBounded
PROPERTIES
  PendingNeedsSuper
  OverdueIsSwept
CHECK_DEADLOCK FALSE
