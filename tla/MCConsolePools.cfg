CONSTANTS
  Pools = {p1, p2}
  NoDetail = NoDetail
  MaxGestures = 3
  NoList = NoList
  MaxChanges = 1
  MaxRefresh = 1
  MaxCreates = 2
  Cards = {c1, c2}
  Tests = {m1, m2}
  NoCard = NoCard
  MaxEdits = 2
  MaxTabs = 2
  Tiles = {c1, c2, c3, c4}
  NoFiles = NoFiles
  FileSets = {f1, f2}
  BadFiles = {f2}
  MaxPools = 3
  Limits <- MCLimits
  NoSession = NoSession
  Budgets <- MCBudgets
  MaxSessions = 3
  MaxCreating = 2
SPECIFICATION Spec
INVARIANTS
  PageInv
  QuietPageIsCurrent
  SidebarIsSound
  SheetIsTrue
  DrawerIsSound
  SessionsAreServed
  LoginIsFollowed
PROPERTIES
  DropMovesOneCard
  PageIsFreshView
  LostUpdateNeedsOverlap
  SidebarIsFreshView
CHECK_DEADLOCK FALSE
