SPECIFICATION TwoWriters
CONSTANTS
  a1 = a1  m1 = m1  r1 = r1
  NoAccount = NoAccount  NoModel = NoModel  NoRow = NoRow
  Accounts <- MCAccounts
  Models <- MCModels
  Order <- MCOrder
  Index <- MCIndex
  Policy = "ordered"
  MaxRetries = 1
  MaxFaults = 0
  PoolEdits = FALSE
  Kinds <- Traffic
  InitialRows <- OneCodex
  Requests = {r1, r2}
  Streams = {FALSE}
  Discoveries = {"service_down", "unreachable", "http_error", "ok", "slow"}
  Files = {"ok", "older", "missing", "disabled", "no_service"}
  Tokens = {"past"}
  Metas = {"ready", "pending", "unreachable"}
  Fetches = {"no_answer", "http_auth", "http_error", "empty", "allowed", "blocked"}
  MaxRounds = 1
  MaxRefreshes = 1
  MaxEdits = 0
  Endless = FALSE
SYMMETRY Symmetry
INVARIANTS
  CountsMatchRouter
  SchedFollowsStable
PROPERTIES
  ProbeKeepsServing
  TransientKeepsStable
  FailedFetchKeepsRouting
  DiscoveryKeepsFreshError
CHECK_DEADLOCK FALSE
