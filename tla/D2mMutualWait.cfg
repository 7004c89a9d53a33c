SPECIFICATION FairSpec
CONSTANTS
  CspInCap = 4  CspOutCap = 4  D2mInCap = 2  D2mOutCap = 2
  Total = 0  NoAck = {}  Window = 0  ExtraFrames = {}  Extra = 0
  LinkFaults = {}  ReadMax = 1
  ProtocolFaults = {}  RunsDry = 0
  Reflections = 6  SiblingTxns = 0  MediatorFaults = {}
  a = a  b = b
  Key <- MCKey  TextKey <- MCTextKey  TextReflection = {}  Content <- MCContent
  TaskSteps = {}  MaxBatch = 0  DriverFaults = {}
  ConnectFaults = {}  MaxCommands = 0
PROPERTIES ReflectionsAcked
CHECK_DEADLOCK FALSE
