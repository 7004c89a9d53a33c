----------------------------- MODULE MCContacts -----------------------------
(***************************************************************************)
(* Values of the constants of ContactStore that a configuration cannot     *)
(* write: contacts with each choice of fields, deltas of one field, and    *)
(* every kind of text to or from a contact, a stranger and the user.       *)
(***************************************************************************)
EXTENDS ContactStore

MCContact(first, last, nick) == [first |-> first, last |-> last, nick |-> nick]

Contacted(identity, contact) == [identity |-> identity, contact |-> contact]
MCAdditions ==
  {Contacted("alice", MCContact("x", "y", "none")), Contacted("alice", MCContact("", "none", "")),
   Contacted("bob", MCContact("none", "none", "x")), Contacted("user", MCContact("x", "none", "none"))}

Change(identity, field, delta) ==
  [identity |-> identity,
   delta |-> [MCContact("unchanged", "unchanged", "unchanged") EXCEPT ![field] = delta]]
MCChanges ==
  {Change("alice", "first", "remove"), Change("alice", "nick", "x"), Change("alice", "nick", "remove"),
   Change("bob", "last", "y"), Change("bob", "nick", ""), Change("user", "nick", "x")}

MCTexts ==
  [outgoing: {FALSE}, kind: {"contact", "group"}, peer: Identity]
    \cup [outgoing: {TRUE}, kind: {"contact"}, peer: Identity]
    \cup [outgoing: {TRUE}, kind: {"group", "malformed group", "list", "none"}, peer: {"none"}]
=============================================================================
