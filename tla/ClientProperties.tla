-------------------------- MODULE ClientProperties --------------------------
(***************************************************************************)
(* What the client promises: the properties of Client that the runs check  *)
(* and ClientProofs proves for every value of the constants.               *)
(***************************************************************************)
EXTENDS Client, SequencesExt

\* Every variable holds a value of its type; channels stay within the
\* capacities that `run` gives them (src/src/lib.rs:117-123).
TypeOK ==
  /\ WiringTypeOK /\ CspTypeOK /\ D2mTypeOK
  /\ ReportingTypeOK /\ DriverTypeOK /\ ClientTypeOK

-----------------------------------------------------------------------------
(* What is on its way, front first, through the places it waits in.        *)

Handed   == cspIn \o cspHand                 \* from the chat connection to the driver
Frames   == cspBuf \o cspWire                \* from the chat server to its connection
Replies  == cspOut \o outCsp                 \* from the driver to the chat connection
Incoming == (d2mIn \o d2mHand) \o d2mWire    \* from the mediator to the driver
Outgoing == d2mOut \o outD2m                 \* from the driver to the mediator connection

\* The numbers or ids that the payloads of a type carry, each at its payload's place.
Marks(payloads, type, mark) ==
  [i \in {j \in 1..Len(payloads) : payloads[j].type = type} |-> payloads[i][mark]]

Rising(numbers) == \A i, j \in DOMAIN numbers : i < j => numbers[i] < numbers[j]

\* The numbers at the places of `first`, then those of `second`, are those of a
\* set, each once and in order.
List(first, second, set) ==
  /\ Rising(first) /\ Rising(second)
  /\ \A m \in Range(first), n \in Range(second) : m < n
  /\ Range(first) \cup Range(second) = set

-----------------------------------------------------------------------------
(* Messages of the chat server.                                            *)

\* No message is lost, duplicated or overtaken between the socket and the
\* driver, whatever else the server sends; and the acks the driver has sent are
\* those of exactly the messages it is done with, once each and in order, but
\* for the ones that want none (csp.rs:105-180 and e2e.rs:83-180).
EachMessageOnceInOrder ==
  \E done \in 0..sent :
    /\ List(IF task = 0 THEN <<>> ELSE <<task>>, Marks(Handed \o Frames, "Message", "n"),
            done + 1 .. sent)
    /\ cspLink = "open" => List(acks, Marks(Replies, "MessageAck", "n"), (1..done) \ NoAck)

\* Only the leader may unblock the identity's incoming queue (e2e.rs:188-194):
\* no unblock-incoming-messages is on its way, and no message has been released,
\* before the mediator promoted this device and the driver was told so.
UnblockOnlyAsLeader ==
  (\/ unblocked \/ sent > 0
   \/ \E i \in 1..Len(cspOut) : cspOut[i].type = "UnblockIncomingMessages"
   \/ \E i \in 1..Len(outCsp) : outCsp[i].type = "UnblockIncomingMessages")
  => promoted /\ role = "leader"

\* The chat connection waits to hand a payload to the driver, whose channel is
\* full, while the driver waits to send to the chat connection, whose channel
\* is full too: neither looks at the channel the other waits for.
CspDeadlock ==
  /\ cspHand # <<>> /\ Len(cspIn) = CspInCap
  /\ outCsp # <<>> /\ Len(cspOut) = CspOutCap

\* A server that keeps at most the two capacities and one more message in
\* flight, and sends nothing else to the driver, cannot bring the chat
\* connection and the driver to wait for each other.
CspWindow ==
  /\ Window =< CspInCap + CspOutCap + 1
  /\ NoAck = {} /\ "MessageAck" \notin ExtraFrames
NoCspDeadlock == CspWindow => ~CspDeadlock

\* A message that arrives again, with its sender and id, in the same run is not
\* reported twice: `seen` in conversation.rs:97-104.
NoDuplicateReport ==
  \A i, j \in 1..Len(events) :
    (events[i].kind = "Direct" /\ events[j].kind = "Direct" /\ events[i].key = events[j].key)
      => i = j

-----------------------------------------------------------------------------
(* The mediator's payloads.                                                *)

\* The same between the mediator connection and the driver.
D2mDeadlock ==
  /\ d2mHand # <<>> /\ Len(d2mIn) = D2mInCap
  /\ outD2m # <<>> /\ Len(d2mOut) = D2mOutCap

\* What the mediator may send unasked, and what one instruction of a task asks
\* it for (all its reflects and the commit), has room in the two channels and one
\* hand.  The promotion counts only where no task asks for more: it comes before
\* every task.  Ephemeral reflects of messages, which may pile up without an
\* answer, are left out.
D2mBurst ==
  LET own == IF TaskSteps \cap {"create", "update"} = {} THEN 1 ELSE MaxBatch + 1
  IN /\ "message" \in TaskSteps => MaxBatch = 0
     /\ RunsDry + Reflections + SiblingTxns + own =< D2mInCap + D2mOutCap + 1

\* Such a burst cannot bring the mediator connection and the driver to wait for
\* each other (d2m.rs:102-105 against e2e.rs:210-214, 228-234 and 310-313).
NoD2mDeadlock == D2mBurst => ~D2mDeadlock

\* The envelopes reported.
ReportedEnvelopes ==
  [i \in {j \in 1..Len(events) : events[j].kind = "Reflected"} |-> events[i].key]

\* Whatever the driver is waiting for when an envelope arrives, it is reported
\* if it is a text, then acknowledged, each once and in the mediator's order
\* (handle_unsolicited_d2m, e2e.rs:199-215).
ReflectedOnceInOrder ==
  \E handled \in 0..reflected :
    /\ List(<<>>, Marks(Incoming, "Reflected", "id"), handled + 1 .. reflected)
    /\ List(<<>>, ReportedEnvelopes, (1..handled) \cap TextReflection)
    /\ d2mOpen /\ d2mLink # "closed" =>
         List(reflectedAcks, Marks(Outgoing, "ReflectedAck", "id"), 1..handled)

ContactStages == {Order["create"], Order["update"]}

\* What a task reflects about a contact reaches the mediator only while this
\* device holds the group's transaction, and no commit is on its way otherwise:
\* begin_transaction and reflect_and_commit_transaction, e2e.rs:252-330.
ContactsReflectedInTransaction ==
  /\ \A i \in 1..Len(reflectLog) :
       reflectLog[i].id[2] \in ContactStages => reflectLog[i].holder = "client"
  /\ \A i \in 1..Len(Outgoing) : Outgoing[i].type = "CommitTransaction" => holder = "client"

\* The response given to the task lists exactly the reflect ids that were to be
\* acknowledged, once each, although acks are only counted (e2e.rs:315-353).
ReflectResponseComplete ==
  [][(e2ePc \in {"commit", "reflect"} /\ e2ePc' = "poll")
       => ToSet(acked) = expected /\ Len(acked) = Cardinality(expected)]_vars

\* While the driver waits for another device's transaction to end, that end is
\* still to come: it was not among the payloads dropped as unsolicited before
\* (e2e.rs:257-263).
TransactionEndStillToCome ==
  (e2ePc = "rejected" \/ txn = "rejected") =>
    \/ holder = "sibling"
    \/ \E i \in 1..Len(Incoming) : Incoming[i].type = "TransactionEnded"

-----------------------------------------------------------------------------
(* Progress.  Every component whose future is ready is polled again: tokio's *)
(* select polls the branches that can run, whenever the branch it polled    *)
(* last has returned Pending; one that Spins never does, and disables the   *)
(* others.  Of the environment only the end of other devices' transactions  *)
(* is assumed.                                                              *)

Fairness ==
  /\ WF_vars(CspRuns) /\ WF_vars(D2mRuns) /\ WF_vars(DriverRuns)
  /\ WF_vars(TakeSendText) /\ WF_vars(RunEnds)
  /\ WF_vars(Running /\ SiblingEnds
               /\ UNCHANGED <<channels, chatServer, csp, d2m, reporting, driver, run>>)

FairSpec == Spec /\ Fairness

\* Every message the server has sent is handled and acknowledged, or the run
\* ends: no wait of the driver for the mediator is forever.
MessagesAcked ==
  \A n \in (1..Total) \ NoAck : (sent >= n) ~> (Contains(acks, n) \/ Ended)

\* Every envelope relayed is acknowledged, or the run ends: "so the mediator's
\* reflection queue keeps moving" (e2e.rs:203-204).
ReflectionsAcked ==
  \A i \in 1..Reflections : (reflected >= i) ~> (Contains(reflectedAcks, i) \/ Ended)

\* The two mutual waits and the spinning at the end of the chat stream are the
\* only ways in which a run that goes on comes to a stop: but for them every
\* message sent and every envelope relayed is acknowledged, whichever wait of the
\* driver it meets, as long as the directory answers (e2e.rs:109-178, 183-353).
NothingElseBlocks ==
  LET blocked == Ended \/ CspDeadlock \/ D2mDeadlock \/ Spins
  IN /\ \A n \in (1..Total) \ NoAck : (sent >= n) ~> (Contains(acks, n) \/ blocked)
     /\ \A i \in 1..Reflections : (reflected >= i) ~> (Contains(reflectedAcks, i) \/ blocked)

\* src/src/lib.rs:62-64: `run` goes on "until one of the connections ends or fails,
\* Shutdown arrives (or the command sender is dropped)".  Each is to end the run;
\* all the more when the chat connection has ended, and it is asked to as well.
RunEndsAtLast ==
  (Running /\ cspLink # "open" /\ (Contains(commands, "Shutdown") \/ ~issued.open)) ~> Ended

\* src/src/event.rs: Connected means that both connections completed their
\* handshakes.
ConnectedAfterHandshakes ==
  (\E i \in 1..Len(events) : events[i].kind = "Connected") => cspPc = "flow" /\ d2mPc = "flow"
=============================================================================
