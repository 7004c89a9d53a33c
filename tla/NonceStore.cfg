SPECIFICATION Spec
CONSTANTS
  Nonce = {n1, n2}
  IoFaults = {"create", "write", "sync", "rename"}
  CrashKinds = {"process", "power"}
INVARIANTS AcceptedNoncesStay NextRunLoads MemoryIsSaved
