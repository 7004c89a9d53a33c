-------------------------- MODULE NonceStoreProofs --------------------------
(***************************************************************************)
(* For every set of nonces, every failure and every way for the process to *)
(* die: the file is never torn, and accepted nonces stay in it.            *)
(***************************************************************************)
EXTENDS NonceStore, TLAPS

Saving == {"create", "write", "sync", "rename"}

\* While a save is under way the file holds the value before the mutation, which
\* only added nonces; once it has been written, the temporary file holds the
\* value after it.
SaveInv ==
  /\ NextRunLoads /\ MemoryIsSaved
  /\ step \in {"sync", "rename"} => tmp = Whole(memory)
  /\ step = "rename" => synced
  /\ step \in Saving =>
       /\ \A scope \in Scope : path.value[scope] \subseteq memory[scope]
       /\ adding.nonces \subseteq memory[adding.scope]

NonceInv == NonceTypeOK /\ SaveInv /\ AcceptedNoncesStay

LEMMA Contents ==
  /\ Absent \in OnDisk /\ Torn \in OnDisk /\ NoNonces \in NonceFile
  /\ \A v \in NonceFile : Whole(v) \in OnDisk
  /\ \A v : Whole(v).state = "whole" /\ Whole(v).value = v
BY DEF Absent, Torn, Whole, OnDisk, NoNonces, NonceFile

LEMMA InvInit == Init => NonceInv
<1> SUFFICES ASSUME Init PROVE NonceInv
  OBVIOUS
<1>1. /\ memory = NoNonces /\ path = Absent /\ tmp = Absent /\ durable = {Absent} /\ step = "down"
      /\ adding = [scope |-> "d2x", nonces |-> {}] /\ accepted = NoNonces
  BY DEF Init, FileInit
<1>2. synced \in BOOLEAN /\ powerLost \in BOOLEAN
  BY Zenon DEF Init, FileInit
<1>3. NonceTypeOK
  BY <1>1, <1>2, Contents DEF NonceTypeOK, FileTypeOK, Scope
<1>4. SaveInv
  BY <1>1 DEF SaveInv, NextRunLoads, MemoryIsSaved, Saving, Absent
<1>5. AcceptedNoncesStay
  BY <1>1 DEF AcceptedNoncesStay, Absent, NoNonces
<1> QED BY <1>3, <1>4, <1>5 DEF NonceInv

LEMMA InvAdd ==
  ASSUME NonceInv, NEW scope \in Scope, NEW nonces \in SUBSET Nonce, AddMany(scope, nonces)
  PROVE  NonceInv'
<1>1. /\ step = "idle" /\ step' = "create" /\ adding' = [scope |-> scope, nonces |-> nonces]
      /\ memory' = [memory EXCEPT ![scope] = @ \cup nonces]
      /\ UNCHANGED <<path, tmp, synced, durable, powerLost, accepted>>
  BY DEF AddMany, Mutate
<1>2. memory = path.value /\ memory \in NonceFile
  BY <1>1 DEF NonceInv, SaveInv, MemoryIsSaved, NonceTypeOK, FileTypeOK
<1>3. memory' \in NonceFile
  BY <1>1, <1>2 DEF NonceFile
<1>4. NonceTypeOK'
  <2>1. powerLost' \in BOOLEAN /\ synced' \in BOOLEAN
    BY <1>1, Zenon DEF NonceInv, NonceTypeOK, FileTypeOK
  <2> QED BY <1>1, <1>3, <2>1 DEF NonceInv, NonceTypeOK, FileTypeOK
<1>5. SaveInv'
  <2>1. /\ \A s \in Scope : path'.value[s] \subseteq memory'[s]
        /\ adding'.nonces \subseteq memory'[adding'.scope]
    BY <1>1, <1>2 DEF NonceFile
  <2> QED BY <1>1, <2>1 DEF NonceInv, SaveInv, NextRunLoads, MemoryIsSaved
<1>6. AcceptedNoncesStay'
  BY <1>1 DEF NonceInv, AcceptedNoncesStay
<1> QED BY <1>4, <1>5, <1>6 DEF NonceInv

LEMMA InvSaved ==
  ASSUME NonceInv, Saved
  PROVE  NonceInv'
<1>1. /\ step = "rename" /\ step' = "idle" /\ path' = tmp /\ tmp' = Absent
      /\ durable' = durable \cup {IF synced THEN tmp ELSE Torn : kind \in CrashKinds \cap {"power"}}
      /\ accepted' = [accepted EXCEPT ![adding.scope] = @ \cup adding.nonces]
      /\ UNCHANGED <<memory, synced, powerLost, adding>>
  BY DEF Saved, RenameTmp
<1>2. synced /\ tmp = Whole(memory) /\ tmp \in OnDisk
  BY <1>1 DEF NonceInv, SaveInv, NonceTypeOK, FileTypeOK
<1>3. path'.state = "whole" /\ path'.value = memory
  BY <1>1, <1>2, Contents
<1>4. durable' \subseteq durable \cup {tmp}
  BY <1>1, <1>2
<1>5. /\ memory \in NonceFile /\ accepted \in NonceFile
      /\ adding \in [scope: Scope, nonces: SUBSET Nonce]
  BY DEF NonceInv, NonceTypeOK, FileTypeOK
<1>6. accepted' \in NonceFile
  BY <1>1, <1>5 DEF NonceFile
<1>7. NonceTypeOK'
  <2>1. powerLost' \in BOOLEAN /\ synced' \in BOOLEAN
    BY <1>1, Zenon DEF NonceInv, NonceTypeOK, FileTypeOK
  <2> QED BY <1>1, <1>2, <1>4, <1>6, <2>1, Contents DEF NonceInv, NonceTypeOK, FileTypeOK
<1>8. SaveInv'
  <2>1. NextRunLoads'
    BY <1>1, <1>3, <1>4, <1>2, Contents DEF NonceInv, SaveInv, NextRunLoads
  <2> QED BY <1>1, <1>3, <2>1 DEF SaveInv, MemoryIsSaved, Saving
<1>9. AcceptedNoncesStay'
  <2> SUFFICES ASSUME ~powerLost, NEW scope \in Scope
               PROVE  accepted'[scope] \subseteq path'.value[scope]
    BY <1>1 DEF AcceptedNoncesStay
  <2>1. path.value[scope] \subseteq memory[scope] /\ adding.nonces \subseteq memory[adding.scope]
    BY <1>1 DEF NonceInv, SaveInv, Saving
  <2>2. accepted[scope] \subseteq path.value[scope]
    BY DEF NonceInv, AcceptedNoncesStay
  <2> QED BY <1>1, <1>3, <1>5, <2>1, <2>2 DEF NonceFile
<1> QED BY <1>7, <1>8, <1>9 DEF NonceInv

LEMMA InvFile ==
  ASSUME NonceInv, FileNext, UNCHANGED <<adding, accepted>>
  PROVE  NonceInv'
<1> USE DEF NonceInv
<1>1. NonceTypeOK'
  <2>1. powerLost' \in BOOLEAN /\ synced' \in BOOLEAN
    BY Zenon DEF FileNext, Load, CreateTmp, WriteTmp, SyncTmp, IoFails, RunFails, Dies, LosesPower,
                 NonceTypeOK, FileTypeOK
  <2>2. /\ memory' \in NonceFile /\ path' \in OnDisk /\ tmp' \in OnDisk /\ durable' \subseteq OnDisk
        /\ step' \in {"down", "idle", "failed", "create", "write", "sync", "rename"}
    <3> USE Contents DEF NonceTypeOK, FileTypeOK
    <3>1. CASE Load
      BY <3>1 DEF Load, OnDisk
    <3>2. CASE CreateTmp \/ WriteTmp \/ SyncTmp \/ IoFails \/ RunFails \/ Dies
      BY <3>2 DEF CreateTmp, WriteTmp, SyncTmp, IoFails, RunFails, Dies
    <3>3. CASE LosesPower
      <4>1. tmp' = tmp \/ tmp' = Torn
        BY <3>3 DEF LosesPower
      <4> QED BY <3>3, <4>1 DEF LosesPower
    <3> QED BY <3>1, <3>2, <3>3 DEF FileNext
  <2> QED BY <2>1, <2>2 DEF NonceTypeOK, FileTypeOK
<1>2. CASE LosesPower
  <2>1. /\ powerLost' /\ path' \in durable /\ durable' = {path'} /\ step' = "down"
    BY <1>2 DEF LosesPower
  <2>2. NextRunLoads'
    BY <2>1 DEF SaveInv, NextRunLoads
  <2> QED BY <1>1, <2>1, <2>2 DEF SaveInv, MemoryIsSaved, AcceptedNoncesStay, Saving
<1>3. CASE Load \/ CreateTmp \/ WriteTmp \/ SyncTmp \/ IoFails \/ RunFails \/ Dies
  <2>1. path' = path /\ durable' = durable /\ powerLost' = powerLost
    BY <1>3 DEF Load, CreateTmp, WriteTmp, SyncTmp, IoFails, RunFails, Dies
  <2>2. NextRunLoads' /\ AcceptedNoncesStay'
    BY <2>1 DEF SaveInv, NextRunLoads, AcceptedNoncesStay
  <2>3. MemoryIsSaved'
    BY <1>3 DEF Load, CreateTmp, WriteTmp, SyncTmp, IoFails, RunFails, Dies, MemoryIsSaved
  <2>4. /\ step' \in {"sync", "rename"} => tmp' = Whole(memory')
        /\ step' \in Saving => memory' = memory /\ step \in Saving
    BY <1>3 DEF Load, CreateTmp, WriteTmp, SyncTmp, IoFails, RunFails, Dies, Saving, SaveInv
  <2>5. step' = "rename" => synced'
    BY <1>3, Zenon DEF Load, CreateTmp, WriteTmp, SyncTmp, IoFails, RunFails, Dies
  <2> QED BY <1>1, <2>1, <2>2, <2>3, <2>4, <2>5 DEF SaveInv
<1> QED BY <1>2, <1>3 DEF FileNext

THEOREM NonceInvariant == Spec => []NonceInv
<1>1. NonceInv /\ [Next]_vars => NonceInv'
  <2> SUFFICES ASSUME NonceInv, [Next]_vars PROVE NonceInv'
    OBVIOUS
  <2>1. CASE UNCHANGED vars
    BY <2>1 DEF vars, file, NonceInv, NonceTypeOK, FileTypeOK, SaveInv, NextRunLoads, MemoryIsSaved,
                AcceptedNoncesStay
  <2> QED BY <2>1, InvAdd, InvSaved, InvFile DEF Next
<1> QED BY InvInit, <1>1, PTL DEF Spec

\* The next run can always load the nonces: whatever ends the process, the file
\* is never found half written.
THEOREM NeverTorn == Spec => []NextRunLoads
BY NonceInvariant, PTL DEF NonceInv, SaveInv

\* A run that is not saving has in memory exactly what the file holds, so that a
\* nonce that was refused is not taken for a used one (store.rs:3-4).
THEOREM NothingUnsaved == Spec => []MemoryIsSaved
BY NonceInvariant, PTL DEF NonceInv, SaveInv

\* A nonce that was accepted is found by every later run, unless the power was lost.
THEOREM NoncesStay == Spec => []AcceptedNoncesStay
BY NonceInvariant, PTL DEF NonceInv
=============================================================================
