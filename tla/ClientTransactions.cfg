SPECIFICATION Spec
CONSTANTS
  CspInCap = 1  CspOutCap = 1  D2mInCap = 1  D2mOutCap = 2
  Total = 1  NoAck = {}  Window = 1  ExtraFrames = {}  Extra = 0
  LinkFaults = {}  ReadMax = 1
  ProtocolFaults = {"d2m"}  RunsDry = 0
  Reflections = 2  SiblingTxns = 2  MediatorFaults = {"closed"}
  a = a  b = b
  Key <- MCKey  TextKey <- MCTextKey  TextReflection = {1}  Content <- MCContent
  TaskSteps = {"fetch", "create", "message"}  MaxBatch = 2  DriverFaults = {"task", "promotion"}
  ConnectFaults = {}  MaxCommands = 0
INVARIANTS ContactsReflectedInTransaction TransactionEndStillToCome ReflectedOnceInOrder
PROPERTIES ReflectResponseComplete
CHECK_DEADLOCK FALSE
