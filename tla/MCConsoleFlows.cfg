CONSTANTS
  NoSession = NoSession
  MaxSessions = 1
  MaxCreating = 1
  Budgets <- MCBudgets
  TokenPools = {p1, p2}
  Accounts = {a1, a2}
  NoToken = NoToken
  MaxClicks = 3
  MinSamples = 5
  TallyBound <- MCTally
  LeapHours <- MCLeapHours
  Horizon = 240
  ChartDays = {3, 4}
  Expiring = {x1, x2}
  Critical = {c1}
  NoOverview = NoOverview
  MaxChanges = 2
  MaxVisits2 = 4
SPECIFICATION Spec
INVARIANTS
  TokenIsShared
  DigestIsTrue
  BucketsAreTrue
  AlertsAreTrue
PROPERTIES
  LoginEnds
  SelfCheckEnds
CHECK_DEADLOCK FALSE
