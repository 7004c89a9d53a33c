SPECIFICATION Spec
CONSTANTS
  CspInCap = 1  CspOutCap = 1  D2mInCap = 1  D2mOutCap = 2
  Total = 4  NoAck = {}  Window = 3  ExtraFrames = {}  Extra = 0
  LinkFaults = {}  ReadMax = 3
  ProtocolFaults = {}  RunsDry = 0
  Reflections = 1  SiblingTxns = 0  MediatorFaults = {}
  a = a  b = b
  Key <- MCKey  TextKey <- MCTextKey  TextReflection = {}  Content <- MCContent
  TaskSteps = {"update"}  MaxBatch = 2  DriverFaults = {}
  ConnectFaults = {}  MaxCommands = 0
INVARIANTS NoCspDeadlock NoD2mDeadlock
CHECK_DEADLOCK FALSE
