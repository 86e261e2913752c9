CONSTANTS
  NoSettings = NoSettings
  MaxValue = 2
  MaxSaves = 2
  MaxLoads = 2
  MaxPrunes = 1
  Urls = {u1, u2}
  BadUrl = BadUrl
  Bodies = {b1, b2}
  MaxPuts = 3
  MaxTests = 1
  Tokens = {t1, t2}
  MaxCalls = 3
  MaxTurns = 3
  NoLog = NoLog
  PageLen = 1
  PageCap = 2
  RowsPerPage = 1
  MaxLogs = 3
  MaxRefresh = 2
  MaxClicks = 2
SPECIFICATION Spec
INVARIANTS
  SettingsAgree
  NotesAgree
  TokensAgree
  LogIsTrue
CHECK_DEADLOCK FALSE
