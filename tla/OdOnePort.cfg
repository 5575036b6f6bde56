SPECIFICATION FairSpec
CONSTANTS
  Ports = {0}
  Cmds = {"a", "b", "c"}
  NoCmd = "none"
  Port <- MCPort
  Key <- MCKey
  Unparsable = {}
  NoMeter = {"a"}
  Interface = "SERIAL"
  MaxSubmits = 2
  MaxFaults = 1
INVARIANTS TypeOK Unshifted Accounted OwnCommandsOnly
PROPERTIES EventuallyTaken ServiceImplemented
