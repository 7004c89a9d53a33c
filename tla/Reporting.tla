----------------------------- MODULE Reporting ------------------------------
(***************************************************************************)
(* What turns processed messages into events for the embedder: the         *)
(* conversation provider for messages of the chat server                   *)
(* (src/src/conversation.rs) and the decoder of reflected envelopes        *)
(* (src/src/d2d.rs).  The event channel is unbounded, so emitting never    *)
(* waits.  A key stands for the pair (sender identity, message id).        *)
(***************************************************************************)
EXTENDS Naturals, Sequences

CONSTANTS
  Key,              \* keys of the messages in the chat server's queue
  TextKey,          \* those whose body is plain text
  TextReflection    \* reflected envelopes that decrypt and decode to a plain text

ASSUME ReportingAssumption == TextKey \subseteq Key /\ TextReflection \subseteq Nat

VARIABLES
  seen,     \* `EventConversationProvider::seen`; in memory only
  events    \* everything sent to the embedder, in order

reporting == <<seen, events>>

Event(kind, key) == [kind |-> kind, key |-> key]

ReportingInit == seen = {} /\ events = <<>>

ReportingTypeOK ==
  /\ seen \subseteq Key
  /\ events \in Seq([kind: {"Connected", "Direct", "Reflected"}, key: Key \cup Nat])

\* Mutant: records the message without looking whether it was seen.
AddOrUpdateUnchecked(key) ==
  /\ seen' = seen \cup {key}
  /\ events' = IF key \in TextKey THEN Append(events, Event("Direct", key)) ELSE events

\* The message is recorded as seen before the filter on its body, so that a
\* non-text message is recorded too; one that was seen before is discarded.
AddOrUpdateIncomingMessage(key) ==
  /\ seen' = seen \cup {key}
  /\ events' = IF key \in TextKey \ seen THEN Append(events, Event("Direct", key)) ELSE events

\* Reflected texts are not checked against `seen`.  An envelope that fails to
\* decrypt or decode is logged by the caller, like other content is ignored.
HandleReflectedEnvelope(id) ==
  events' = IF id \in TextReflection THEN Append(events, Event("Reflected", id)) ELSE events
=============================================================================
