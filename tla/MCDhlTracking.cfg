SPECIFICATION Spec
CONSTANTS
  PollCap = 2
  RegCap = 3
  Rows <- MCRows
  GuideOf <- MCGuideOf
  Invalid <- MCInvalid
  Webhooks <- MCWebhooks
  Raw <- MCRaw
  EventTime <- MCEventTime
  Times <- MCTimes
  MaxFaults = 1
INVARIANTS
  DTypeOK
  EventRecordedBounded
  DeliveryChargedOnce
PROPERTIES
  DeliveryRecorded
  EveryRowRegistered
