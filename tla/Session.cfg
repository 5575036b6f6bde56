SPECIFICATION Spec
CONSTANTS
  NumMeters = 2
  Interfaces = {"SERIAL", "PLCC"}
  InitialPoll <- MCInitialPoll
  StorePoll <- MCStorePoll
  OldDays = 2
  Events <- MCEvents
  IdleEvents <- MCEvents
INVARIANTS TypeOK RightMeter RightStatus InitDataAccounted
PROPERTY ReachesIdle
