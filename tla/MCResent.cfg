SPECIFICATION OutboxSpec
CONSTANTS
  Dispatchers = {d1, d2}
  Ticker = ticker
  Keys = {k1, k2}
  Locks = {l1, l2}
  None = None
  MaxAttempts = 2
  MaxRows = 2
  MaxMsgs = 2
  MaxFaults = 0
  MaxEdits = 0
INVARIANTS
  RemovedIsNotSent
CHECK_DEADLOCK FALSE
