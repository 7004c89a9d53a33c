SPECIFICATION FairDeviceSpec
CONSTANTS
  CspInCap = 1  CspOutCap = 1  D2mInCap = 1  D2mOutCap = 1
  Total = 3  NoAck = {}  Window = 2  ExtraFrames = {}  Extra = 0
  LinkFaults = {"reset"}  ReadMax = 1
  ProtocolFaults = {}  RunsDry = 0
  Reflections = 0  SiblingTxns = 0  MediatorFaults = {}
  a = a  b = b
  Key <- MCKey  TextKey <- MCKey  TextReflection = {}  Content <- MCContent
  TaskSteps = {}  MaxBatch = 0  DriverFaults = {}
  ConnectFaults = {"d2m"}  MaxCommands = 1
  SaveFirst = {2}  MaxRuns = 2
  IoFaults = {"create", "write", "sync", "rename"}
INVARIANTS AckedIsSaved
PROPERTIES Delivers AllAcked
CHECK_DEADLOCK FALSE
