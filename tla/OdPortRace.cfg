SPECIFICATION Spec
CONSTANTS
  Ports = {0, 1}
  Cmds = {"a", "b", "c"}
  NoCmd = "none"
  Port <- MCPort
  Key <- MCKey
  Unparsable = {}
  NoMeter = {}
  Interface = "SERIAL"
  MaxSubmits = 1
  MaxFaults = 0
INVARIANT OwnCommandsOnly
