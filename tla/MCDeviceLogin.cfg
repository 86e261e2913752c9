CONSTANTS
  NoSession = NoSession
  MaxSessions = 1
  MaxCreating = 1
  Budgets <- MCBudgets
SPECIFICATION LoginSpec
PROPERTY LoginContinues
CHECK_DEADLOCK FALSE
