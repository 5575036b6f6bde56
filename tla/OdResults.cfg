SPECIFICATION Spec
CONSTANTS
  Cmds = {"days", "all", "cat", "limit", "time", "load",
          "recharge", "relay", "other"}
  NoCmd = "none"
  Kind <- MCKind
  Source <- MCSource
  Table <- MCTable
  NoTable = "none"
  Parts <- MCParts
  Param <- MCParam
  MaxResp = 2
  MaxTaken = 2
  MaxOther = 2
  MaxFaults = 1
INVARIANTS TypeOK WebAnswered MqttAnswered
PROPERTIES LostOnlyOverlapped PeriodicRowsPlaced AcksConsumed
