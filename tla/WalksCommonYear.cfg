SPECIFICATION Spec
CONSTANTS
  NumMeters = 3
  Enabled <- MCEnabled
  NumOldDays = 3
  Starts <- MCStarts
  OdStarts <- MCOdStarts
  OdDays = 3
  MaxOd = 1
  MaxMidnights = 1
INVARIANTS TypeOK WalksKeepCount OldDaysSearched
PROPERTY SearchedAgain
