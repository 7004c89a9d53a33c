SPECIFICATION FairSpec
CONSTANTS
  CspInCap = 1  CspOutCap = 1  D2mInCap = 1  D2mOutCap = 1
  Total = 1  NoAck = {}  Window = 1  ExtraFrames = {}  Extra = 0
  LinkFaults = {"eof"}  ReadMax = 1
  ProtocolFaults = {}  RunsDry = 0
  Reflections = 2  SiblingTxns = 1  MediatorFaults = {}
  a = a  b = b
  Key <- MCKey  TextKey = {}  TextReflection = {}  Content <- MCContent
  TaskSteps = {"fetch", "update", "message"}  MaxBatch = 1  DriverFaults = {}
  ConnectFaults = {"csp", "d2m"}  MaxCommands = 1
PROPERTIES NothingElseBlocks
CHECK_DEADLOCK FALSE
