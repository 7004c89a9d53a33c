---------------------------- MODULE CspE2eDriver ----------------------------
(***************************************************************************)
(* The end-to-end driver, `CspE2eProtocolRunner` (src/src/e2e.rs): takes   *)
(* one message of the chat server at a time, carries out the instructions  *)
(* libthreema's task for it yields, and acknowledges it.  While it waits   *)
(* for the mediator's answer to an instruction it handles every other      *)
(* payload of the mediator where it stands (`handle_unsolicited_d2m`).     *)
(* A handler's remaining `send(..).await`s are kept in two outboxes; the   *)
(* driver does nothing else until both are empty.                          *)
(***************************************************************************)
EXTENDS Wiring, Reporting

CONSTANTS
  Content,        \* Content[n] is the key of message n
  TaskSteps,      \* bound: the instructions tasks yield
  MaxBatch,       \* bound: most reflect messages in one instruction
  DriverFaults    \* bound: what libthreema may refuse, a subset of {"task", "promotion"}

ASSUME DriverAssumption ==
  /\ Content \in [1..Total -> Key]
  /\ TaskSteps \subseteq {"fetch", "create", "update", "message"}
  /\ MaxBatch \in Nat
  /\ DriverFaults \subseteq {"task", "promotion"}

VARIABLES
  e2ePc,      \* "idle", "poll", or the answer awaited
  task,       \* the message of `pending_task`, 0 if there is none
  stage,      \* how far the task's instructions have come
  txn,        \* the task's transaction: "none", "rejected", "retry" or "granted"
  outCsp,     \* payloads still to be sent to the chat connection
  outD2m,     \* payloads still to be sent to the mediator connection
  pending,    \* `pending` of `reflect`
  acked,      \* `acknowledged_reflect_ids`
  expected,   \* auxiliary: the reflect ids the response must acknowledge
  role        \* the role `update_d2m_state` was last told

driver == <<e2ePc, task, stage, txn, outCsp, outD2m, pending, acked, expected, role>>

Waits == {"begin", "rejected", "abort", "commit", "reflect"}

\* The order in which a task yields its instructions; it may skip any.
Order == [fetch |-> 1, create |-> 2, update |-> 3, message |-> 4]

\* Mutant: unblocks the queue at once, as a client without siblings would.
DriverInitUnblocks ==
  /\ e2ePc = "idle" /\ task = 0 /\ stage = 0 /\ txn = "none"
  /\ outCsp = <<[type |-> "UnblockIncomingMessages", n |-> 0]>> /\ outD2m = <<>>
  /\ pending = 0 /\ acked = <<>> /\ expected = {} /\ role = "none"

DriverInit ==
  /\ e2ePc = "idle" /\ task = 0 /\ stage = 0 /\ txn = "none"
  /\ outCsp = <<>> /\ outD2m = <<>>
  /\ pending = 0 /\ acked = <<>> /\ expected = {} /\ role = "none"

DriverTypeOK ==
  /\ e2ePc \in {"idle", "poll", "fetch"} \cup Waits
  /\ task \in 0..Total /\ (task = 0 <=> e2ePc = "idle")
  /\ stage \in 0..4 /\ txn \in {"none", "rejected", "retry", "granted"}
  /\ outCsp \in Seq(CspOutPayload) /\ Len(outCsp) =< 1
  /\ outD2m \in Seq(D2mOutPayload)
  /\ pending \in Nat /\ acked \in Seq(Nat \cup ReflectId) /\ expected \subseteq ReflectId
  /\ role \in {"none", "leader"}

-----------------------------------------------------------------------------
(* Sending.                                                                *)

Out(type) == [type |-> type, id |-> 0, ephemeral |-> FALSE]

Quiet == outCsp = <<>> /\ outD2m = <<>>

SendCsp ==
  /\ outCsp # <<>> /\ Len(cspOut) < CspOutCap
  /\ cspOut' = Append(cspOut, Head(outCsp))
  /\ outCsp' = Tail(outCsp)
  /\ UNCHANGED <<e2ePc, task, stage, txn, outD2m, pending, acked, expected, role,
                 cspIn, d2mIn, d2mOut, d2mOpen, reporting>>

SendD2m ==
  /\ outD2m # <<>> /\ d2mOpen /\ Len(d2mOut) < D2mOutCap
  /\ d2mOut' = Append(d2mOut, Head(outD2m))
  /\ outD2m' = Tail(outD2m)
  /\ UNCHANGED <<e2ePc, task, stage, txn, outCsp, pending, acked, expected, role,
                 cspIn, cspOut, d2mIn, d2mOpen, reporting>>

-----------------------------------------------------------------------------
(* The main loop: without a task, select between the two channels.         *)

TakeCspPayload ==
  /\ e2ePc = "idle" /\ Quiet /\ cspIn # <<>>
  /\ cspIn' = Tail(cspIn)
  /\ IF Head(cspIn).type = "Message"
     THEN e2ePc' = "poll" /\ task' = Head(cspIn).n
     ELSE UNCHANGED <<e2ePc, task>>     \* "Unexpected message-ack"
  /\ UNCHANGED <<stage, txn, outCsp, outD2m, pending, acked, expected, role,
                 cspOut, d2mIn, d2mOut, d2mOpen, reporting>>

\* `task.poll` may yield the instruction of this kind next.
Polls(kind) ==
  /\ e2ePc = "poll" /\ Quiet
  /\ kind \in TaskSteps /\ Order[kind] > stage
  /\ txn = "none"

PollFetchSender ==
  /\ Polls("fetch")
  /\ e2ePc' = "fetch" /\ stage' = Order["fetch"]
  /\ UNCHANGED <<task, txn, outCsp, outD2m, pending, acked, expected, role, channels, reporting>>

\* Both directory requests have answered; the task gets the results.
SenderFetched ==
  /\ e2ePc = "fetch"
  /\ e2ePc' = "poll"
  /\ UNCHANGED <<task, stage, txn, outCsp, outD2m, pending, acked, expected, role,
                 channels, reporting>>

\* BeginTransaction for a contact to create or update; also again after the
\* transaction that got in the way has ended.
PollBeginTransaction ==
  /\ \/ \E kind \in {"create", "update"} : Polls(kind) /\ stage' = Order[kind]
     \/ e2ePc = "poll" /\ Quiet /\ txn = "retry" /\ stage' = stage
  /\ e2ePc' = "begin" /\ txn' = "none"
  /\ outD2m' = <<Out("BeginTransaction")>>
  /\ UNCHANGED <<task, outCsp, pending, acked, expected, role, channels, reporting>>

\* TransactionRejected: nothing is sent, the end of the other transaction is awaited.
PollTransactionRejected ==
  /\ e2ePc = "poll" /\ Quiet /\ txn = "rejected"
  /\ e2ePc' = "rejected"
  /\ UNCHANGED <<task, stage, txn, outCsp, outD2m, pending, acked, expected, role,
                 channels, reporting>>

PollAbortTransaction ==
  /\ e2ePc = "poll" /\ Quiet /\ txn = "granted"
  /\ e2ePc' = "abort" /\ txn' = "none"
  /\ outD2m' = <<Out("CommitTransaction")>>
  /\ UNCHANGED <<task, stage, outCsp, pending, acked, expected, role, channels, reporting>>

\* The reflect messages of an instruction of the task's stage s; which of them
\* are ephemeral, and so never acknowledged, is libthreema's choice.
Batch(s, size, ephemerals) ==
  [i \in 1..size |->
     [type |-> "Reflect", id |-> <<task, s, i>>, ephemeral |-> i \in ephemerals]]

Acknowledged(s, size, ephemerals) == {<<task, s, i>> : i \in (1..size) \ ephemerals}

PollReflectAndCommit ==
  /\ e2ePc = "poll" /\ Quiet /\ txn = "granted"
  /\ e2ePc' = "commit" /\ txn' = "none" /\ acked' = <<>>
  /\ \E size \in 0..MaxBatch : \E ephemerals \in SUBSET (1..size) :
       /\ outD2m' = Append(Batch(stage, size, ephemerals), Out("CommitTransaction"))
       /\ expected' = Acknowledged(stage, size, ephemerals)
  /\ UNCHANGED <<task, stage, outCsp, pending, role, channels, reporting>>

PollReflectMessage ==
  /\ Polls("message")
  /\ e2ePc' = "reflect" /\ stage' = Order["message"] /\ acked' = <<>>
  /\ \E size \in 0..MaxBatch : \E ephemerals \in SUBSET (1..size) :
       /\ outD2m' = Batch(stage', size, ephemerals)
       /\ pending' = Cardinality((1..size) \ ephemerals)
       /\ expected' = Acknowledged(stage', size, ephemerals)
  /\ UNCHANGED <<task, txn, outCsp, role, channels, reporting>>

\* The task is done: it has handed the message to the conversation provider or
\* discarded it, and the message is acknowledged unless its result has no ack.
PollDone ==
  /\ e2ePc = "poll" /\ Quiet /\ txn = "none"
  /\ \/ AddOrUpdateIncomingMessage(Content[task])
     \/ UNCHANGED reporting
  /\ outCsp' = IF task \in NoAck THEN <<>> ELSE <<[type |-> "MessageAck", n |-> task]>>
  /\ e2ePc' = "idle" /\ task' = 0 /\ stage' = 0
  /\ UNCHANGED <<txn, outD2m, pending, acked, expected, role, channels>>

-----------------------------------------------------------------------------
(* Payloads of the mediator connection.                                    *)

\* Mutant: waiting for a transaction to end, its end counts as unsolicited too.
AwaitedAnswers ==
  CASE e2ePc = "begin"    -> {"BeginTransactionAck", "TransactionRejected"}
    [] e2ePc = "abort"    -> {"CommitTransactionAck"}
    [] e2ePc = "commit"   -> {"CommitTransactionAck", "ReflectAck"}
    [] e2ePc = "reflect"  -> {"ReflectAck"}
    [] OTHER -> {}

\* What the current wait is for; anything else is unsolicited.
Awaited ==
  CASE e2ePc = "begin"    -> {"BeginTransactionAck", "TransactionRejected"}
    [] e2ePc = "rejected" -> {"TransactionEnded"}
    [] e2ePc = "abort"    -> {"CommitTransactionAck"}
    [] e2ePc = "commit"   -> {"CommitTransactionAck", "ReflectAck"}
    [] e2ePc = "reflect"  -> {"ReflectAck"}
    [] OTHER -> {}

\* The driver is in `d2m_incoming.recv()`, in its main loop or in a wait.
Listens ==
  /\ e2ePc \in {"idle"} \cup Waits /\ Quiet
  /\ e2ePc = "reflect" => pending > 0

Receives(type) ==
  /\ Listens /\ d2mIn # <<>>
  /\ Head(d2mIn).type = type
  /\ d2mIn' = Tail(d2mIn)

\* Mutant: takes any answer for an acceptance.
OnBeginReplyGrants(type) ==
  /\ e2ePc = "begin" /\ type \in Awaited /\ Receives(type)
  /\ e2ePc' = "poll" /\ txn' = "granted"
  /\ UNCHANGED <<task, stage, outCsp, outD2m, pending, acked, expected, role,
                 cspIn, cspOut, d2mOut, d2mOpen, reporting>>

OnBeginReply(type) ==
  /\ e2ePc = "begin" /\ type \in Awaited /\ Receives(type)
  /\ e2ePc' = "poll"
  /\ txn' = IF type = "BeginTransactionAck" THEN "granted" ELSE "rejected"
  /\ UNCHANGED <<task, stage, outCsp, outD2m, pending, acked, expected, role,
                 cspIn, cspOut, d2mOut, d2mOpen, reporting>>

\* The task is not told: its next `poll` yields BeginTransaction again.
OnTransactionEnded ==
  /\ e2ePc = "rejected" /\ Receives("TransactionEnded")
  /\ e2ePc' = "poll" /\ txn' = "retry"
  /\ UNCHANGED <<task, stage, outCsp, outD2m, pending, acked, expected, role,
                 cspIn, cspOut, d2mOut, d2mOpen, reporting>>

\* The end of an abort or of a commit.
OnCommitAck ==
  /\ e2ePc \in {"abort", "commit"} /\ Receives("CommitTransactionAck")
  /\ e2ePc' = "poll"
  /\ UNCHANGED <<task, stage, txn, outCsp, outD2m, pending, acked, expected, role,
                 cspIn, cspOut, d2mOut, d2mOpen, reporting>>

\* Any reflect-ack counts, whatever its id.
OnReflectAck ==
  /\ e2ePc \in {"commit", "reflect"} /\ Receives("ReflectAck")
  /\ acked' = Append(acked, Head(d2mIn).id)
  /\ pending' = IF e2ePc = "reflect" THEN pending - 1 ELSE pending
  /\ UNCHANGED <<e2ePc, task, stage, txn, outCsp, outD2m, expected, role,
                 cspIn, cspOut, d2mOut, d2mOpen, reporting>>

\* Mutant: off by one in the loop's condition.
ReflectReturnsEarly ==
  /\ e2ePc = "reflect" /\ Quiet /\ pending =< 1
  /\ e2ePc' = "poll"
  /\ UNCHANGED <<task, stage, txn, outCsp, outD2m, pending, acked, expected, role,
                 channels, reporting>>

\* `reflect` returns once nothing is pending; at once if all was ephemeral.
ReflectReturns ==
  /\ e2ePc = "reflect" /\ Quiet /\ pending = 0
  /\ e2ePc' = "poll"
  /\ UNCHANGED <<task, stage, txn, outCsp, outD2m, pending, acked, expected, role,
                 channels, reporting>>

\* handle_unsolicited_d2m.
OnPromotion ==
  /\ Receives("RolePromotedToLeader")
  /\ role' = "leader"
  /\ outCsp' = <<[type |-> "UnblockIncomingMessages", n |-> 0]>>
  /\ UNCHANGED <<e2ePc, task, stage, txn, outD2m, pending, acked, expected,
                 cspIn, cspOut, d2mOut, d2mOpen, reporting>>

\* Mutant: acknowledges an envelope before it decodes it, and again afterwards.
OnReflectedAcksTwice ==
  /\ Receives("Reflected")
  /\ HandleReflectedEnvelope(Head(d2mIn).id) /\ UNCHANGED seen
  /\ outD2m' = [i \in 1..2 |-> [Out("ReflectedAck") EXCEPT !.id = Head(d2mIn).id]]
  /\ UNCHANGED <<e2ePc, task, stage, txn, outCsp, pending, acked, expected, role,
                 cspIn, cspOut, d2mOut, d2mOpen>>

\* Mutant: an envelope that fails to decode, or is no text, is not acknowledged.
OnReflectedIfDecoded ==
  /\ Receives("Reflected")
  /\ HandleReflectedEnvelope(Head(d2mIn).id) /\ UNCHANGED seen
  /\ outD2m' = IF Head(d2mIn).id \in TextReflection
               THEN <<[Out("ReflectedAck") EXCEPT !.id = Head(d2mIn).id]>> ELSE <<>>
  /\ UNCHANGED <<e2ePc, task, stage, txn, outCsp, pending, acked, expected, role,
                 cspIn, cspOut, d2mOut, d2mOpen>>

OnReflected ==
  /\ Receives("Reflected")
  /\ HandleReflectedEnvelope(Head(d2mIn).id) /\ UNCHANGED seen
  /\ outD2m' = <<[Out("ReflectedAck") EXCEPT !.id = Head(d2mIn).id]>>
  /\ UNCHANGED <<e2ePc, task, stage, txn, outCsp, pending, acked, expected, role,
                 cspIn, cspOut, d2mOut, d2mOpen>>

\* ReflectionQueueDry, and, as an "Unhandled D2M payload", an answer that nothing
\* is waiting for, are dropped.
DropUnsolicited ==
  /\ \E type \in {"ReflectionQueueDry", "ReflectAck", "BeginTransactionAck", "TransactionRejected",
                   "TransactionEnded", "CommitTransactionAck"} \ Awaited : Receives(type)
  /\ UNCHANGED <<driver, cspIn, cspOut, d2mOut, d2mOpen, reporting>>

OnD2m ==
  \/ \E type \in {"BeginTransactionAck", "TransactionRejected"} : OnBeginReply(type)
  \/ OnTransactionEnded \/ OnCommitAck \/ OnReflectAck
  \/ OnPromotion \/ OnReflected \/ DropUnsolicited

Polling ==
  \/ PollFetchSender \/ PollBeginTransaction \/ PollTransactionRejected
  \/ PollAbortTransaction \/ PollReflectAndCommit \/ PollReflectMessage \/ PollDone

DriverNext ==
  SendCsp \/ SendD2m \/ TakeCspPayload \/ Polling \/ SenderFetched \/ OnD2m \/ ReflectReturns

\* `run` returns an error: a task fails, `update_d2m_state` refuses the
\* promotion, or a channel of the mediator connection is closed when the driver
\* sends to it or waits for it.
DriverFails ==
  \/ "task" \in DriverFaults /\ e2ePc = "poll" /\ Quiet
  \/ /\ "promotion" \in DriverFaults
     /\ Listens /\ d2mIn # <<>> /\ Head(d2mIn).type = "RolePromotedToLeader"
  \/ ~d2mOpen /\ outD2m # <<>>
  \/ ~d2mOpen /\ Listens /\ d2mIn = <<>>
=============================================================================
