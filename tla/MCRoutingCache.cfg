SPECIFICATION FairSpec
CONSTANTS
  Readers = {r1, r2}
  Writers = {w1}
  NTables = 2
  Nil = Nil
  NoOne = NoOne
  MaxVer = 3
  MaxCommits = 2
  MaxFails = 1
INVARIANTS
  NoLostInvalidation
PROPERTIES
  SnapshotNeverGoesBack
  RepairedByHealthRound
