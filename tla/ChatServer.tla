----------------------------- MODULE ChatServer -----------------------------
(***************************************************************************)
(* The chat server, outside this repository, as the client uses it: it     *)
(* completes the two-round handshake, withholds the identity's queued      *)
(* messages until the client sends `unblock-incoming-messages`, then sends *)
(* them in order without waiting for each acknowledgement, and may end the *)
(* connection.  Window bounds the messages it has sent and not yet seen    *)
(* acknowledged; Extra bounds the other frames it sends.                   *)
(***************************************************************************)
EXTENDS Wiring

CONSTANTS
  Window,         \* bound: most messages in flight
  ExtraFrames,    \* bound: kinds of other frames the server sends
  Extra,          \* bound: how many of them
  LinkFaults      \* bound: how the connection may end, a subset of {"eof", "reset"}

ASSUME ServerAssumption ==
  /\ Window \in Nat /\ Extra \in Nat
  /\ ExtraFrames \subseteq {"MessageAck", "Control"}
  /\ LinkFaults \subseteq {"eof", "reset"}

VARIABLES
  cspWire,     \* frames sent to the client and not yet read by it
  cspLink,     \* "open", "eof" (the server's half is closed) or "reset"
  unblocked,   \* the client has sent unblock-incoming-messages
  sent,        \* messages 1..sent have been sent
  acks,        \* the message-acks received, in order
  extra        \* other frames sent

chatServer == <<cspWire, cspLink, unblocked, sent, acks, extra>>

\* A frame on the TCP stream.  Control stands for echo requests, which the
\* client answers straight from its protocol state, and for the payloads its
\* match arm ignores (src/src/csp.rs:148-172).
Frame == CspInPayload \cup [type: {"Handshake", "Control"}, n: {0}]
Handshake == [type |-> "Handshake", n |-> 0]

Unacknowledged == Cardinality((1..sent) \ NoAck) - Len(acks)

ServerInit ==
  /\ cspWire = <<>> /\ cspLink = "open" /\ unblocked = FALSE
  /\ sent = 0 /\ acks = <<>> /\ extra = 0

ServerSendsMessage ==
  /\ unblocked /\ cspLink = "open" /\ sent < Total
  /\ Unacknowledged < Window
  /\ sent' = sent + 1
  /\ cspWire' = Append(cspWire, [type |-> "Message", n |-> sent + 1])
  /\ UNCHANGED <<cspLink, unblocked, acks, extra>>

ServerSendsExtra(type) ==
  /\ unblocked /\ cspLink = "open" /\ extra < Extra
  /\ extra' = extra + 1
  /\ cspWire' = Append(cspWire, [type |-> type, n |-> 0])
  /\ UNCHANGED <<cspLink, unblocked, sent, acks>>

ServerEnds(how) ==
  /\ cspLink = "open"
  /\ cspLink' = how
  /\ UNCHANGED <<cspWire, unblocked, sent, acks, extra>>

\* What the server does with a payload the client writes; nothing once it has
\* ended the connection.
ServerReceives(p) ==
  /\ acks' = IF cspLink = "open" /\ p.type = "MessageAck" THEN Append(acks, p.n) ELSE acks
  /\ unblocked' = (unblocked \/ (cspLink = "open" /\ p.type = "UnblockIncomingMessages"))
  /\ UNCHANGED <<cspWire, cspLink, sent, extra>>
=============================================================================
