---------------------------- MODULE ContactStore ----------------------------
(***************************************************************************)
(* `ContactStore` (src/src/store.rs): batches of contacts are added or     *)
(* updated in memory, one after the other, and then saved.  An update      *)
(* fails at the first contact it does not find, with those before it       *)
(* already changed in memory.  Between the calls, the texts that arrive    *)
(* are reported with the names found in memory.  A contact is its three    *)
(* name fields; nothing reads the others.                                  *)
(***************************************************************************)
EXTENDS Naturals, SequencesExt, Attribution

CONSTANTS
  Identity,
  Name,              \* values of a field
  Additions,         \* bound: the elements of a batch to add, [identity, contact]
  Changes,           \* bound: the elements of a batch to update, [identity, delta]
  Texts,             \* bound: the texts that arrive
  MaxBatch,          \* bound: elements of a batch
  IoFaults, CrashKinds

Contact == [{"first", "last", "nick"} -> Name \cup {"none"}]
Delta == [{"first", "last", "nick"} -> Name \cup {"unchanged", "remove"}]

ASSUME ContactAssumption ==
  /\ User \in Identity /\ {"none", "unchanged", "remove"} \cap Name = {} /\ MaxBatch \in Nat
  /\ Additions \subseteq [identity: Identity, contact: Contact]
  /\ Changes \subseteq [identity: Identity, delta: Delta]
  /\ Texts \subseteq [outgoing: BOOLEAN, peer: Identity \cup {"none"},
                      kind: {"contact", "group", "malformed group", "list", "none"}]

Contacts == UNION {[known -> Contact] : known \in SUBSET Identity}
NoContacts == [identity \in {} |-> "none"]

VARIABLES
  memory, path, tmp, synced, durable, powerLost, step,
  call,    \* auxiliary: the call in progress and its batch
  line     \* auxiliary: the text just reported, how it came, and its line

INSTANCE AtomicFile WITH Value <- Contacts, Default <- NoContacts

store == <<memory, path, tmp, synced, durable, powerLost, step>>
vars == <<store, call, line>>
NoCall == [op |-> "none", batch |-> <<>>]
NoLine == <<>>

Batches(S) == UNION {[1..size -> S] : size \in 0..MaxBatch}

\* apply_delta_string.
ApplyDelta(field, delta) ==
  CASE delta = "unchanged" -> field
    [] delta = "remove" -> "none"
    [] OTHER -> delta

Insert(contacts, addition) ==
  [identity \in DOMAIN contacts \cup {addition.identity} |->
     IF identity = addition.identity THEN addition.contact ELSE contacts[identity]]
Apply(contacts, change) ==
  [contacts EXCEPT ![change.identity] =
     [field \in DOMAIN @ |-> ApplyDelta(@[field], change.delta[field])]]

\* Every contact is checked before the first is inserted.
Add(additions) ==
  IF \A i \in 1..Len(additions) : additions[i].identity \notin DOMAIN memory \cup {User}
  THEN Mutate(FoldLeft(Insert, memory, additions), "create")
  ELSE Mutate(memory, "failed")

\* Where the update stops: contacts are looked up as it comes to them.
Failing(changes) == {i \in 1..Len(changes) : ~Known(memory, changes[i].identity)}
AppliedCount(changes) ==
  IF Failing(changes) = {} THEN Len(changes) ELSE Min(Failing(changes)) - 1

\* Mutant: saves what has been changed when a contact is not found.
UpdateSavesPart(changes) ==
  Mutate(FoldLeft(Apply, memory, SubSeq(changes, 1, AppliedCount(changes))), "create")

Update(changes) ==
  Mutate(FoldLeft(Apply, memory, SubSeq(changes, 1, AppliedCount(changes))),
         IF Failing(changes) = {} THEN "create" ELSE "failed")

Init == FileInit /\ call = NoCall /\ line = NoLine

AddCalled(batch) == Add(batch) /\ call' = [op |-> "add", batch |-> batch] /\ line' = NoLine
UpdateCalled(batch) == Update(batch) /\ call' = [op |-> "update", batch |-> batch] /\ line' = NoLine

Reported(text, way, event) == <<text, way, Line(event)>>

\* A message of the chat server, new to the provider (Reporting).
ReportDirect(text) ==
  /\ step = "idle" /\ ~text.outgoing /\ text.kind \in {"contact", "group"}
  /\ IF Accepts(memory, text)
     THEN UNCHANGED store /\ line' = Reported(text, "direct", DirectEvent(memory, text))
     ELSE Mutate(memory, "failed") /\ line' = NoLine
  /\ UNCHANGED call

\* A text a sibling reflects.
ReportReflected(text) ==
  /\ step = "idle"
  /\ line' = Reported(text, "reflected", ReflectedEvent(memory, text))
  /\ UNCHANGED <<store, call>>

\* The save, and so the call, returns Ok; RunFails and the ends of the process
\* are where a call ends without.
Saved == RenameTmp /\ call' = NoCall /\ line' = NoLine
OtherStep == FileNext /\ call' = (IF step' = "down" THEN NoCall ELSE call) /\ line' = NoLine

Next ==
  \/ \E batch \in Batches(Additions) : AddCalled(batch)
  \/ \E batch \in Batches(Changes) : UpdateCalled(batch)
  \/ \E text \in Texts : ReportDirect(text) \/ ReportReflected(text)
  \/ Saved \/ OtherStep

Spec == Init /\ [][Next]_vars

-----------------------------------------------------------------------------
(* Properties.                                                             *)

Book == INSTANCE ContactBook WITH book <- path.value

\* What the next run finds changes by the whole batches of calls that return Ok
\* only, however a batch that fails half way, a failing save or the end of the
\* process may leave memory (store.rs:287-348): the store implements ContactBook.
WholeBatches == Book!Spec

\* What is printed of a text is what the saved contacts say, never a name that a
\* batch left behind in memory when it failed, and the same whether the text came
\* directly or reflected, but for the group of a reflected incoming one
\* (conversation.rs:77-131 against d2d.rs:31-115, main.rs:27-65).
PrintedFromBook ==
  [][line' # NoLine => line'[3] = Book!Shown(line'[1], line'[2])]_vars
=============================================================================
