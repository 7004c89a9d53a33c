---------------------------- MODULE ContactBook -----------------------------
(***************************************************************************)
(* What ContactStore promises its callers: a map from identities to        *)
(* contacts that outlives the run.  A call applies its whole batch and     *)
(* returns Ok, or applies nothing of it and returns an Err, or never       *)
(* returns; one whose batch is invalid does not return Ok.  And what is    *)
(* printed of a text that arrives while the book is this.                  *)
(***************************************************************************)
EXTENDS Naturals, Sequences, FiniteSetsExt

CONSTANTS User, Additions, Changes, MaxBatch

VARIABLES
  book,
  call     \* the call in progress, [op, batch]

NoContacts == [identity \in {} |-> "none"]
NoCall == [op |-> "none", batch |-> <<>>]

Identities == {call.batch[i].identity : i \in 1..Len(call.batch)}

\* The last contact of the batch with an identity is the one that is kept.
Added ==
  [identity \in Identities |->
     call.batch[Max({i \in 1..Len(call.batch) : call.batch[i].identity = identity})].contact]

AddReturns ==
  /\ call.op = "add" /\ User \notin Identities /\ Identities \cap DOMAIN book = {}
  /\ book' = [identity \in DOMAIN book \cup Identities |->
                IF identity \in Identities THEN Added[identity] ELSE book[identity]]
  /\ call' = NoCall

\* The last delta of the batch that changes a field decides.
Changed(identity, field) ==
  LET changes == {i \in 1..Len(call.batch) :
                    call.batch[i].identity = identity /\ call.batch[i].delta[field] # "unchanged"}
  IN CASE changes = {} -> book[identity][field]
       [] changes # {} /\ call.batch[Max(changes)].delta[field] = "remove" -> "none"
       [] OTHER -> call.batch[Max(changes)].delta[field]

UpdateReturns ==
  /\ call.op = "update" /\ Identities \subseteq DOMAIN book \ {User}
  /\ book' = [identity \in DOMAIN book |->
                [field \in DOMAIN book[identity] |-> Changed(identity, field)]]
  /\ call' = NoCall

BatchesOf(S) == UNION {[1..size -> S] : size \in 0..MaxBatch}

Calls ==
  /\ call = NoCall /\ book' = book
  /\ \/ \E batch \in BatchesOf(Additions) : call' = [op |-> "add", batch |-> batch]
     \/ \E batch \in BatchesOf(Changes) : call' = [op |-> "update", batch |-> batch]

\* An Err, or the end of the process.
Fails == call' = NoCall /\ book' = book

Spec ==
  /\ book = NoContacts /\ call = NoCall
  /\ [][Calls \/ AddReturns \/ UpdateReturns \/ Fails]_<<book, call>>

-----------------------------------------------------------------------------
(* What is printed.                                                        *)

\* A nickname that is not empty, else the first and the last name it has, unless
\* that is one empty word.
NameOf(identity) ==
  LET contact == book[identity]
      words == {field \in {"first", "last"} : contact[field] # "none"}
  IN CASE identity \notin DOMAIN book \ {User} -> <<>>
       [] identity \in DOMAIN book \ {User} /\ contact["nick"] \notin {"none", ""} -> <<contact["nick"]>>
       [] OTHER -> CASE words = {"first", "last"} -> <<contact["first"], contact["last"]>>
                     [] \E field \in words : words = {field} /\ contact[field] # "" ->
                          <<contact[CHOOSE field \in words : TRUE]>>
                     [] OTHER -> <<>>

\* Way is "direct" or "reflected".
Shown(text, way) ==
  LET named == ~text.outgoing \/ text.kind = "contact"
  IN [from |-> IF text.outgoing THEN "me" ELSE text.peer,
      to |-> CASE ~text.outgoing ->
                    IF text.kind = "group" /\ way = "direct" THEN "group" ELSE "me"
               [] text.outgoing /\ text.kind \in {"contact", "group", "list"} -> text.kind
               [] OTHER -> "unknown",
      whom |-> IF named THEN text.peer ELSE "none",
      name |-> IF named THEN NameOf(text.peer) ELSE <<>>]
=============================================================================
