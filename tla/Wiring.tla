------------------------------- MODULE Wiring -------------------------------
(***************************************************************************)
(* The four bounded tokio channels that `run` (src/src/lib.rs) creates     *)
(* between the chat-server connection, the mediator connection and the     *)
(* end-to-end driver, and the payloads they carry.  A payload keeps the    *)
(* variant of the Rust enum (`type`) and the identity the protocol refers  *)
(* to it by: the position `n` of a message in the chat server's queue, the    *)
(* number `id` of an envelope a sibling reflected, or the reflect id `id`  *)
(* this client chose.  0 stands for "no identity".                         *)
(***************************************************************************)
EXTENDS Naturals, Sequences, FiniteSets

CONSTANTS
  CspInCap, CspOutCap,    \* chat connection -> driver, driver -> chat connection
  D2mInCap, D2mOutCap,    \* mediator connection -> driver, driver -> mediator connection
  Total,                  \* number of messages in the chat server's queue, numbered in order
  NoAck,                  \* those whose processing yields no message-ack
  ProtocolFaults          \* bound: connections whose protocol may fail, of {"csp", "d2m"}

\* tokio panics on a channel of capacity 0.
ASSUME CapAssumption ==
  /\ CspInCap \in Nat \ {0} /\ CspOutCap \in Nat \ {0}
  /\ D2mInCap \in Nat \ {0} /\ D2mOutCap \in Nat \ {0}

ASSUME ProtocolAssumption == ProtocolFaults \subseteq {"csp", "d2m"}

ASSUME MessageAssumption == Total \in Nat /\ NoAck \subseteq 1..Total

VARIABLES
  cspIn, cspOut, d2mIn, d2mOut,
  d2mOpen    \* FALSE once the mediator connection has dropped its channel halves

channels == <<cspIn, cspOut, d2mIn, d2mOut, d2mOpen>>

CspInPayload  == [type: {"Message"}, n: 1..Total] \cup [type: {"MessageAck"}, n: {0}]
CspOutPayload == [type: {"MessageAck", "UnblockIncomingMessages"}, n: 0..Total]
\* A reflect id this client chose: the message whose task reflects, the task's
\* stage, and the place in the instruction's list.  libthreema draws them at
\* random; they are told apart by where they come from.
ReflectId == Nat \X Nat \X Nat

D2mInPayload  ==
  [type: {"RolePromotedToLeader", "ReflectionQueueDry", "Reflected", "ReflectAck", "BeginTransactionAck",
          "TransactionRejected", "TransactionEnded", "CommitTransactionAck"},
   id: Nat \cup ReflectId]
D2mOutPayload ==
  [type: {"Reflect", "ReflectedAck", "BeginTransaction", "CommitTransaction"},
   id: Nat \cup ReflectId, ephemeral: BOOLEAN]

WiringInit ==
  /\ cspIn = <<>> /\ cspOut = <<>> /\ d2mIn = <<>> /\ d2mOut = <<>>
  /\ d2mOpen = TRUE

WiringTypeOK ==
  /\ cspIn \in Seq(CspInPayload)   /\ Len(cspIn) =< CspInCap
  /\ cspOut \in Seq(CspOutPayload) /\ Len(cspOut) =< CspOutCap
  /\ d2mIn \in Seq(D2mInPayload)   /\ Len(d2mIn) =< D2mInCap
  /\ d2mOut \in Seq(D2mOutPayload) /\ Len(d2mOut) =< D2mOutCap
  /\ d2mOpen \in BOOLEAN
=============================================================================
