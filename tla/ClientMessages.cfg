SPECIFICATION Spec
CONSTANTS
  CspInCap = 1  CspOutCap = 1  D2mInCap = 1  D2mOutCap = 1
  Total = 4  NoAck = {2}  Window = 2  ExtraFrames = {"MessageAck", "Control"}  Extra = 1
  LinkFaults = {"eof", "reset"}  ReadMax = 2
  ProtocolFaults = {"csp"}  RunsDry = 1
  Reflections = 0  SiblingTxns = 0  MediatorFaults = {}
  a = a  b = b
  Key <- MCKey  TextKey <- MCTextKey  TextReflection = {}  Content <- MCContent
  TaskSteps = {}  MaxBatch = 0  DriverFaults = {}
  ConnectFaults = {}  MaxCommands = 0
INVARIANTS TypeOK EachMessageOnceInOrder UnblockOnlyAsLeader NoDuplicateReport
CHECK_DEADLOCK FALSE
