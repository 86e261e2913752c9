SPECIFICATION OutboxFairSpec
CONSTANTS
  Dispatchers = {d1}
  Ticker = ticker
  Keys = {k1}
  Locks = {l1, l2}
  None = None
  MaxAttempts = 2
  MaxRows = 2
  MaxMsgs = 2
  MaxFaults = 1
  MaxEdits = 1
INVARIANTS
  OutboxIsSound
PROPERTIES
  QueueDrains
CHECK_DEADLOCK FALSE
