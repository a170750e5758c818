SPECIFICATION Spec
CONSTANTS
  Guides <- MCGuides
  Imports <- MCImports
  Sheet <- MCSheet
  Number <- MCNumber
  Subsidiary <- MCSubsidiary
  Answers <- MCAnswers
  DeliveredAt <- MCDeliveredAt
  Days <- MCDays
  MaxProgress = 1
  MaxFaults = 1
  MaxTogether = 2
CHECK_DEADLOCK FALSE
INVARIANTS
  CountIsInserted
