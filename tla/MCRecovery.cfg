SPECIFICATION StateFairSpec
CONSTANTS
  a1 = a1  m1 = m1  r1 = r1
  NoAccount = NoAccount  NoModel = NoModel  NoRow = NoRow
  Accounts <- MCAccounts
  Models <- MCModels
  Order <- MCOrder
  Index <- MCIndex
  Policy = "ordered"
  MaxRetries = 1
  MaxFaults = 0
  PoolEdits = FALSE
  Kinds <- OnlyOrdinary
  InitialRows <- OneCompat
  Requests = {r1}
  Streams = {FALSE}
  Discoveries = {"unreachable", "http_error", "ok", "slow"}
  Files = {"ok"}
  Tokens = {"none"}
  Metas = {"ready"}
  Fetches = {"allowed"}
  MaxRounds = 0
  MaxRefreshes = 0
  MaxEdits = 2
  Endless = TRUE
PROPERTIES
  EnabledRecovers
CHECK_DEADLOCK FALSE
