SPECIFICATION Spec
CONSTANTS
  NumMeters = 2
  Interfaces = {"SERIAL"}
  InitialPoll <- MCInitialPoll
  StorePoll <- MCStoreEvents
  OldDays = 1
  Events <- MCEvents
  IdleEvents <- MCEvents
INVARIANT RightMeter
