SPECIFICATION Spec
CONSTANTS
  Identity = {"alice", "bob", "user"}
  User = "user"
  Name = {"", "x", "y"}
  Additions <- MCAdditions
  Changes <- MCChanges
  Texts <- MCTexts
  MaxBatch = 2
  IoFaults = {"create", "write", "sync", "rename"}
  CrashKinds = {"process"}
PROPERTIES WholeBatches PrintedFromBook
