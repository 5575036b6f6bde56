SPECIFICATION Spec
CONSTANTS
  Meters <- MCMeters
  Interfaces = {"SERIAL", "PLCC"}
  MaxFrames = 2
INVARIANTS TypeOK StatusFollowsEvents
PROPERTIES NotCommunicatingEarned CallsReturn
