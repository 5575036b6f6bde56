SPECIFICATION Spec
CONSTANTS
  Cmds = {"all"}
  NoCmd = "none"
  Kind <- MCKind
  Source <- MCSource
  Table <- MCTable
  NoTable = "none"
  Parts <- MCParts
  Param <- MCParam
  MaxResp = 2
  MaxTaken = 1
  MaxOther = 0
  MaxFaults = 0
INVARIANT SuccessEarned
