SPECIFICATION Spec
CONSTANTS
  Ports = {0, 1}
  Cmds = {"a", "b", "c", "junk"}
  NoCmd = "none"
  Port <- MCPort
  Key <- MCKey
  Unparsable = {"junk"}
  NoMeter = {"a"}
  Interface = "SERIAL"
  MaxSubmits = 1
  MaxFaults = 1
INVARIANT NoSilentLoss
