------------------------------ MODULE Mediator ------------------------------
(***************************************************************************)
(* The mediator server with the sibling devices behind it, outside this    *)
(* repository, as the client uses it: after the two-datagram handshake it  *)
(* may promote this device to leader, relays what siblings reflect, runs   *)
(* at most one transaction of the device group at a time, and answers each *)
(* request in the order it arrives.                                        *)
(***************************************************************************)
EXTENDS Wiring

CONSTANTS
  Reflections,     \* number of envelopes siblings reflect, numbered in order
  RunsDry,         \* bound: how often it says that its reflection queue is dry
  SiblingTxns,     \* bound: transactions siblings run
  MediatorFaults   \* bound: whether the connection may end, a subset of {"closed"}

ASSUME MediatorAssumption ==
  /\ Reflections \in Nat /\ RunsDry \in Nat /\ SiblingTxns \in Nat
  /\ MediatorFaults \subseteq {"closed"}

VARIABLES
  d2mWire,        \* datagrams sent to the client and not yet received by it
  d2mLink,        \* "hello" (before the server info), "open" or "closed"
  promoted,       \* this device has been promoted to leader
  dry,            \* ReflectionQueueDry payloads sent
  holder,         \* who holds the transaction: "nobody", "client" or "sibling"
  siblingTxns,    \* transactions siblings have begun
  reflected,      \* envelopes 1..reflected have been sent
  reflectedAcks,  \* the reflected-acks received, in order
  reflectLog      \* the reflect ids received, in order, with the holder at that time

mediator ==
  <<d2mWire, d2mLink, promoted, dry, holder, siblingTxns, reflected, reflectedAcks, reflectLog>>

Plain(type) == [type |-> type, id |-> 0]

MediatorInit ==
  /\ d2mWire = <<>> /\ d2mLink = "hello" /\ promoted = FALSE /\ dry = 0
  /\ holder = "nobody" /\ siblingTxns = 0
  /\ reflected = 0 /\ reflectedAcks = <<>> /\ reflectLog = <<>>

Sends(payload) == d2mLink = "open" /\ d2mWire' = Append(d2mWire, payload)

MediatorPromotes ==
  /\ ~promoted
  /\ promoted' = TRUE
  /\ Sends(Plain("RolePromotedToLeader"))
  /\ UNCHANGED <<d2mLink, dry, holder, siblingTxns, reflected, reflectedAcks, reflectLog>>

\* Once what was queued while the device was away has been relayed.
MediatorRunsDry ==
  /\ dry < RunsDry
  /\ dry' = dry + 1
  /\ Sends(Plain("ReflectionQueueDry"))
  /\ UNCHANGED <<d2mLink, promoted, holder, siblingTxns, reflected, reflectedAcks, reflectLog>>

MediatorReflects ==
  /\ reflected < Reflections
  /\ reflected' = reflected + 1
  /\ Sends([type |-> "Reflected", id |-> reflected + 1])
  /\ UNCHANGED <<d2mLink, promoted, dry, holder, siblingTxns, reflectedAcks, reflectLog>>

SiblingBegins ==
  /\ d2mLink = "open" /\ holder = "nobody" /\ siblingTxns < SiblingTxns
  /\ holder' = "sibling" /\ siblingTxns' = siblingTxns + 1
  /\ UNCHANGED <<d2mWire, d2mLink, promoted, dry, reflected, reflectedAcks, reflectLog>>

\* The end of a transaction is announced to every device but its holder.
SiblingEnds ==
  /\ holder = "sibling"
  /\ holder' = "nobody"
  /\ Sends(Plain("TransactionEnded"))
  /\ UNCHANGED <<d2mLink, promoted, dry, siblingTxns, reflected, reflectedAcks, reflectLog>>

MediatorCloses ==
  /\ d2mLink # "closed" /\ "closed" \in MediatorFaults
  /\ d2mLink' = "closed"
  /\ UNCHANGED <<d2mWire, promoted, dry, holder, siblingTxns, reflected, reflectedAcks, reflectLog>>

\* The answers to a request: an ephemeral reflect gets none.
Answers(p) ==
  CASE p.type = "BeginTransaction" ->
         <<Plain(IF holder = "nobody" THEN "BeginTransactionAck" ELSE "TransactionRejected")>>
    [] p.type = "CommitTransaction" -> <<Plain("CommitTransactionAck")>>
    [] p.type = "Reflect" /\ ~p.ephemeral -> <<[type |-> "ReflectAck", id |-> p.id]>>
    [] OTHER -> <<>>

\* What the mediator does with a payload the client writes; nothing once it
\* has closed the connection.
MediatorReceives(p) ==
  /\ IF d2mLink = "closed"
     THEN UNCHANGED <<d2mWire, holder, reflectedAcks, reflectLog>>
     ELSE /\ d2mWire' = d2mWire \o Answers(p)
          /\ holder' = CASE p.type = "BeginTransaction" /\ holder = "nobody" -> "client"
                         [] p.type = "CommitTransaction" -> "nobody"
                         [] OTHER -> holder
          /\ reflectedAcks' =
               IF p.type = "ReflectedAck" THEN Append(reflectedAcks, p.id) ELSE reflectedAcks
          /\ reflectLog' =
               IF p.type = "Reflect" THEN Append(reflectLog, [id |-> p.id, holder |-> holder])
                                     ELSE reflectLog
  /\ UNCHANGED <<d2mLink, promoted, dry, siblingTxns, reflected>>
=============================================================================
