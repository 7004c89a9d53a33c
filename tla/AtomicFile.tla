----------------------------- MODULE AtomicFile -----------------------------
(***************************************************************************)
(* A file of src/src/store.rs: loaded when a run starts and rewritten by   *)
(* `atomic_write_json` on every mutation, each system call a step, with    *)
(* the failures of each and the ends a process may come to.  Nothing else  *)
(* of the client runs meanwhile: the calls are synchronous.                *)
(***************************************************************************)
CONSTANTS
  Value,         \* what the file holds, parsed
  Default,       \* T::default()
  IoFaults,      \* bound: steps that may fail, among "create", "write", "sync", "rename"
  CrashKinds     \* bound: how the process may die, among "process", "power"

VARIABLES
  memory,     \* the RefCell's value
  path,       \* what is found at the file's path
  tmp,        \* what is found at the temporary path
  synced,     \* sync_all has returned for the temporary file
  durable,    \* what a power loss may leave at the path: the directory is never synced
  powerLost,  \* auxiliary: the power was lost once
  step        \* "down" (no run), "idle", "failed" (an Err is on its way out of the run),
              \* or where atomic_write_json is

file == <<memory, path, tmp, synced, durable, powerLost, step>>

OnDisk == [state: {"absent", "torn", "whole"}, value: Value]
Absent == [state |-> "absent", value |-> Default]
Torn == [state |-> "torn", value |-> Default]
Whole(v) == [state |-> "whole", value |-> v]

FileInit ==
  /\ memory = Default /\ path = Absent /\ tmp = Absent /\ synced = FALSE
  /\ durable = {Absent} /\ powerLost = FALSE /\ step = "down"

FileTypeOK ==
  /\ memory \in Value /\ path \in OnDisk /\ tmp \in OnDisk
  /\ synced \in BOOLEAN /\ durable \subseteq OnDisk /\ powerLost \in BOOLEAN
  /\ step \in {"down", "idle", "failed", "create", "write", "sync", "rename"}

\* load_json: a file that does not parse fails this run and every later one.
Load ==
  /\ step = "down" /\ path.state # "torn"
  /\ memory' = path.value /\ step' = "idle"
  /\ UNCHANGED <<path, tmp, synced, durable, powerLost>>

\* A mutation of the value in memory, to be saved, or to be abandoned with an Err.
Mutate(v, next) ==
  /\ step = "idle"
  /\ memory' = v /\ step' = next
  /\ UNCHANGED <<path, tmp, synced, durable, powerLost>>

\* Mutant: the temporary file must not exist yet, as with create_new.
CreateTmpNew ==
  /\ step = "create"
  /\ tmp' = (IF tmp = Absent THEN Torn ELSE tmp) /\ synced' = FALSE
  /\ step' = (IF tmp = Absent THEN "write" ELSE "failed")
  /\ UNCHANGED <<memory, path, durable, powerLost>>

\* Mutant: the file itself is emptied and rewritten.
CreateInPlace ==
  /\ step = "create"
  /\ tmp' = Torn /\ path' = Torn /\ synced' = FALSE /\ step' = "write"
  /\ UNCHANGED <<memory, durable, powerLost>>

\* fs::File::create empties what an earlier run left behind.
CreateTmp ==
  /\ step = "create"
  /\ tmp' = Torn /\ synced' = FALSE /\ step' = "write"
  /\ UNCHANGED <<memory, path, durable, powerLost>>

WriteTmp ==
  /\ step = "write"
  /\ tmp' = Whole(memory) /\ step' = "sync"
  /\ UNCHANGED <<memory, path, synced, durable, powerLost>>

\* Mutant: goes on to the rename without sync_all.
SyncSkipped ==
  /\ step = "sync"
  /\ step' = "rename"
  /\ UNCHANGED <<memory, path, tmp, synced, durable, powerLost>>

SyncTmp ==
  /\ step = "sync"
  /\ synced' = TRUE /\ step' = "rename"
  /\ UNCHANGED <<memory, path, tmp, durable, powerLost>>

\* The rename shows at once, and survives a power loss or not; what it may leave
\* is not kept track of where none is considered.
RenameTmp ==
  /\ step = "rename"
  /\ path' = tmp /\ tmp' = Absent /\ step' = "idle"
  /\ durable' = durable \cup {IF synced THEN tmp ELSE Torn : kind \in CrashKinds \cap {"power"}}
  /\ UNCHANGED <<memory, synced, powerLost>>

\* Mutant: the failure of a save is logged, and the run goes on.
IoFailsSwallowed ==
  /\ step \in IoFaults
  /\ step' = "idle"
  /\ UNCHANGED <<memory, path, tmp, synced, durable, powerLost>>

IoFails ==
  /\ step \in IoFaults
  /\ step' = "failed"
  /\ UNCHANGED <<memory, path, tmp, synced, durable, powerLost>>

\* The Err ends the run, and the value in memory with it (src/src/e2e.rs:109).
RunFails ==
  /\ step = "failed"
  /\ step' = "down" /\ memory' = Default
  /\ UNCHANGED <<path, tmp, synced, durable, powerLost>>

\* The run, or the process, ends between any two steps.
Dies ==
  /\ step # "down" /\ "process" \in CrashKinds
  /\ step' = "down" /\ memory' = Default
  /\ UNCHANGED <<path, tmp, synced, durable, powerLost>>

LosesPower ==
  /\ step # "down" /\ "power" \in CrashKinds
  /\ step' = "down" /\ memory' = Default /\ powerLost' = TRUE
  /\ path' \in durable /\ durable' = {path'}
  /\ tmp' = (IF synced THEN tmp ELSE Torn)
  /\ UNCHANGED synced

\* Every step but the mutations; RenameTmp is where a save returns Ok.
FileNext ==
  \/ Load \/ CreateTmp \/ WriteTmp \/ SyncTmp \/ IoFails \/ RunFails \/ Dies \/ LosesPower
=============================================================================
