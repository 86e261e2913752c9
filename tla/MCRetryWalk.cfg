SPECIFICATION MCSpec
CONSTANTS
  a1 = a1  a2 = a2  a3 = a3  m1 = m1  m2 = m2
  NoAccount = NoAccount
  Accounts <- MCAccounts
  Models <- MCModels
  Rows <- MCRows
  Lists <- MCLists
  Order <- MCOrder
  Off <- MCOff
  Gone <- MCGone
  Targets <- MCTargets
  model = m1
  Slots = {s1, s2}
  PoolRows <- MCPoolRows
  Stables <- MCStables
  Subs <- MCSubs
INVARIANTS
  WalkIsSorted
  ChoiceIsExplained
  ConsoleLikeRouter
  PoolHealthsAgree
CHECK_DEADLOCK FALSE
