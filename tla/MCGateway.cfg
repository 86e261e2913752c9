SPECIFICATION FairSpec
CONSTANTS
  a1 = a1  a2 = a2  a3 = a3  m1 = m1  r1 = r1
  NoAccount = NoAccount  NoModel = NoModel  NoRow = NoRow
  Models <- MCModels
  Policy = "health_first"
  Accounts <- Three
  Order <- InOrder3
  Index <- AllListed3
  InitialRows <- OldEvidence
  MaxRetries = 3
  Kinds <- AllKinds
  Requests = {r1}
  Streams = {TRUE, FALSE}
  PoolEdits = TRUE
  MaxFaults = 1
INVARIANTS
  AttemptsAreSound
PROPERTIES
  DiagnosticLeavesNoTrace
  EveryRequestAnswered
CHECK_DEADLOCK FALSE
