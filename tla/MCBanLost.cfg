SPECIFICATION StateSpec
CONSTANTS
  a1 = a1  m1 = m1  r1 = r1
  NoAccount = NoAccount  NoModel = NoModel  NoRow = NoRow
  Accounts <- MCAccounts
  Models <- MCModels
  Order <- MCOrder
  Index <- MCIndex
  Policy = "ordered"
  MaxRetries = 1
  MaxFaults = 0
  PoolEdits = FALSE
  Kinds <- OnlyOrdinary
  InitialRows <- OneCodex
  Requests = {r1}
  Streams = {FALSE}
  Discoveries = {"ok"}
  Files = {"ok"}
  Tokens = {"none"}
  Metas = {"ready"}
  Fetches = {"http_auth"}
  MaxRounds = 0
  MaxRefreshes = 1
  MaxEdits = 0
  Endless = FALSE
PROPERTY ProbeKeepsBan
CHECK_DEADLOCK FALSE
