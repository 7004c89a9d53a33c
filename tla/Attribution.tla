----------------------------- MODULE Attribution -----------------------------
(***************************************************************************)
(* Whom a text is attributed to: the name the contact store has for an     *)
(* identity, the event made of a message of the chat server                *)
(* (src/src/conversation.rs) and of a reflected envelope (src/src/d2d.rs), *)
(* and what the program prints of an event (src/src/main.rs).  Events own  *)
(* their strings: what is known when one is made is what is printed of it. *)
(* A text is [outgoing, kind, peer]: the kind of its conversation, and its *)
(* sender or, if outgoing, whom it was sent to.                            *)
(***************************************************************************)
EXTENDS Sequences

CONSTANT User    \* the user's own identity

\* `has`, and whether `get` finds a contact: neither does for the user's own identity.
Known(contacts, identity) == identity # User /\ identity \in DOMAIN contacts

\* Mutant: an empty nickname hides the other names.
ContactNameUnfiltered(contacts, identity) ==
  IF ~Known(contacts, identity) THEN <<>>
  ELSE LET contact == contacts[identity]
           Given(part) == IF part = "none" THEN <<>> ELSE <<part>>
           full == Given(contact.first) \o Given(contact.last)
       IN IF contact.nick # "none" THEN <<contact.nick>>
          ELSE IF full = <<"">> THEN <<>> ELSE full

\* contact_name: the words that are joined, <<>> where there is no name.  An
\* identity that does not parse is one that no contact has.
ContactName(contacts, identity) ==
  IF ~Known(contacts, identity) THEN <<>>
  ELSE LET contact == contacts[identity]
           Given(part) == IF part = "none" THEN <<>> ELSE <<part>>
           full == Given(contact.first) \o Given(contact.last)
       IN IF contact.nick \notin {"none", ""} THEN <<contact.nick>>
          ELSE IF full = <<"">> THEN <<>> ELSE full

Conversation(kind) == [kind |-> kind, identity |-> "none", name |-> <<>>]
ContactConversation(contacts, identity) ==
  [kind |-> "contact", identity |-> identity, name |-> ContactName(contacts, identity)]

\* A one-to-one message of an identity without a contact is refused.
Accepts(contacts, text) == text.kind = "contact" => Known(contacts, text.peer)

DirectEvent(contacts, text) ==
  [outgoing |-> FALSE,
   conversation |-> IF text.kind = "contact" THEN ContactConversation(contacts, text.peer)
                                             ELSE Conversation("group"),
   sender |-> text.peer,
   name |-> ContactName(contacts, text.peer)]

\* Where a sibling says it sent a text.
SentTo(contacts, text) ==
  CASE text.kind = "contact" -> ContactConversation(contacts, text.peer)
    [] text.kind \in {"group", "list"} -> Conversation(text.kind)
    [] OTHER -> Conversation("unknown")    \* none given, or a malformed group

\* An incoming group text's group is in the body, which is not decoded.
ReflectedEvent(contacts, text) ==
  IF text.outgoing
  THEN [outgoing |-> TRUE, conversation |-> SentTo(contacts, text), sender |-> "none", name |-> <<>>]
  ELSE [outgoing |-> FALSE,
        conversation |-> IF text.kind = "contact" THEN ContactConversation(contacts, text.peer)
                                                  ELSE Conversation("unknown"),
        sender |-> text.peer,
        name |-> ContactName(contacts, text.peer)]

\* print_text_message: whom the line names, how, and the conversation it shows,
\* that of an incoming text only if it is a group's.
Line(event) ==
  IF event.outgoing
  THEN [from |-> "me", to |-> event.conversation.kind,
        whom |-> event.conversation.identity, name |-> event.conversation.name]
  ELSE [from |-> event.sender,
        to |-> IF event.conversation.kind = "group" THEN "group" ELSE "me",
        whom |-> event.sender, name |-> event.name]
=============================================================================
