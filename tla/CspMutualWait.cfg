SPECIFICATION FairSpec
CONSTANTS
  CspInCap = 4  CspOutCap = 4  D2mInCap = 16  D2mOutCap = 16
  Total = 10  NoAck = {}  Window = 10  ExtraFrames = {}  Extra = 0
  LinkFaults = {}  ReadMax = 10
  ProtocolFaults = {}  RunsDry = 0
  Reflections = 0  SiblingTxns = 0  MediatorFaults = {}
  a = a  b = b
  Key <- MCKey  TextKey <- MCTextKey  TextReflection = {}  Content <- MCContent
  TaskSteps = {}  MaxBatch = 0  DriverFaults = {}
  ConnectFaults = {}  MaxCommands = 0
PROPERTIES MessagesAcked
CHECK_DEADLOCK FALSE
