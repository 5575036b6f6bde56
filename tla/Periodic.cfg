SPECIFICATION Spec
CONSTANTS
  MinPerHour = 4
  HourPerDay = 2
  Interface = "SERIAL"
  Enabled = {"inst", "mn", "event"}
  Interval <- MCInterval
  CleanHour = 1
  CleanWindow = {0, 1}
  MaxTurn = 1
INVARIANTS TypeOK FreshData CleanedEveryDay
PROPERTY PolledAgain
