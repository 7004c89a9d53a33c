----------------------------- MODULE NonceStore -----------------------------
(***************************************************************************)
(* `NonceStore` (src/src/store.rs): the nonces of both scopes, in one file *)
(* behind two views that share the value in memory.                        *)
(***************************************************************************)
CONSTANTS Nonce, IoFaults, CrashKinds

Scope == {"csp_e2e", "d2x"}
NonceFile == [Scope -> SUBSET Nonce]
NoNonces == [scope \in Scope |-> {}]

VARIABLES
  memory, path, tmp, synced, durable, powerLost, step,
  adding,      \* the scope and the nonces of the add_many in progress
  accepted     \* auxiliary: the nonces whose add_many has returned Ok

INSTANCE AtomicFile WITH Value <- NonceFile, Default <- NoNonces

vars == <<file, adding, accepted>>

Init ==
  /\ FileInit
  /\ adding = [scope |-> "d2x", nonces |-> {}] /\ accepted = NoNonces

\* Mutant: a view that would keep, and save, its own scope's nonces only.
AddManyOwnScope(scope, nonces) ==
  /\ Mutate([NoNonces EXCEPT ![scope] = memory[scope] \cup nonces], "create")
  /\ adding' = [scope |-> scope, nonces |-> nonces]
  /\ UNCHANGED accepted

AddMany(scope, nonces) ==
  /\ Mutate([memory EXCEPT ![scope] = @ \cup nonces], "create")
  /\ adding' = [scope |-> scope, nonces |-> nonces]
  /\ UNCHANGED accepted

\* The save, and so add_many, returns Ok.
Saved ==
  /\ RenameTmp
  /\ accepted' = [accepted EXCEPT ![adding.scope] = @ \cup adding.nonces]
  /\ UNCHANGED adding

Next ==
  \/ \E scope \in Scope, nonces \in SUBSET Nonce : AddMany(scope, nonces)
  \/ Saved
  \/ FileNext /\ UNCHANGED <<adding, accepted>>

Spec == Init /\ [][Next]_vars

-----------------------------------------------------------------------------
(* Properties.                                                             *)

NonceTypeOK ==
  /\ FileTypeOK
  /\ adding \in [scope: Scope, nonces: SUBSET Nonce] /\ accepted \in NonceFile

\* A nonce whose add_many returned Ok is found by every later run, whatever was
\* added in either scope since and wherever a run ended, until the power is lost
\* (store.rs:26-38 and 112-122).
AcceptedNoncesStay ==
  ~powerLost => \A scope \in Scope : accepted[scope] \subseteq path.value[scope]

\* Whatever ends the process, and wherever in a save, the next run can load the
\* file: it is never found half written (store.rs:26-38).
NextRunLoads == \A content \in durable \cup {path} : content.state # "torn"

\* A run that is not saving has in memory what the file holds, so that a nonce
\* that was refused with an Err is not reported as used: store.rs:3-4.
MemoryIsSaved == step = "idle" => memory = path.value
=============================================================================
