SPECIFICATION Spec
CONSTANTS
  MinPerHour = 4
  HourPerDay = 4
  Interface = "SERIAL"
  Enabled = {"mn"}
  Interval <- MCHourly
  CleanHour = 3
  CleanWindow = {0, 1}
  MaxTurn = 1
PROPERTY PolledAgain
