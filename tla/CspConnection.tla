--------------------------- MODULE CspConnection ----------------------------
(***************************************************************************)
(* The chat-server connection, `CspProtocolRunner` (src/src/csp.rs): the   *)
(* handshake, then a loop that first drains the frames already read, one   *)
(* per turn, forwarding each message to the driver before it looks at      *)
(* anything else, and only then selects between reading the socket and     *)
(* taking a payload from the driver.  Between two awaits the code is       *)
(* atomic: the whole client is one task.                                   *)
(***************************************************************************)
EXTENDS ChatServer

CONSTANT ReadMax    \* bound: most whole frames one 8192-byte read returns

ASSUME ReadAssumption == ReadMax \in Nat \ {0}

VARIABLES
  cspPc,     \* "start", "hello", "login" (handshake rounds) or "flow"
  cspBuf,    \* frames the protocol holds and `poll` has not returned yet
  cspHand    \* the payload `queues.incoming.send` is waiting to hand over: <<>> or <<p>>

csp == <<cspPc, cspBuf, cspHand>>

CspInit == cspPc = "start" /\ cspBuf = <<>> /\ cspHand = <<>>

CspTypeOK ==
  /\ cspPc \in {"start", "hello", "login", "flow"}
  /\ cspBuf \in Seq(Frame)
  /\ cspHand \in Seq(CspInPayload) /\ Len(cspHand) =< 1
  /\ cspWire \in Seq(Frame)
  /\ cspLink \in {"open", "eof", "reset"}
  /\ unblocked \in BOOLEAN /\ sent \in 0..Total /\ extra \in 0..Extra
  /\ acks \in Seq(0..Total)

ServerReply == IF cspLink = "open" THEN <<Handshake>> ELSE <<>>

\* run_handshake_flow writes the client hello; the server answers.
CspStart ==
  /\ cspPc = "start"
  /\ cspPc' = "hello"
  /\ cspWire' = cspWire \o ServerReply
  /\ UNCHANGED <<cspBuf, cspHand, cspLink, unblocked, sent, acks, extra, channels>>

\* `receive_required` fails on a short read, and, after a full one, when the
\* look for additional bytes finds the stream closed.
HandshakeBroken == cspLink = "reset" \/ (cspLink = "eof" /\ Len(cspWire) =< 1)

\* A handshake round: the server hello is answered with the login, the login
\* ack completes the handshake.
CspHandshake ==
  /\ cspPc \in {"hello", "login"} /\ cspWire # <<>> /\ ~HandshakeBroken
  /\ IF cspPc = "hello"
     THEN cspPc' = "login" /\ cspWire' = Tail(cspWire) \o ServerReply
     ELSE cspPc' = "flow" /\ cspWire' = Tail(cspWire)
  /\ UNCHANGED <<cspBuf, cspHand, cspLink, unblocked, sent, acks, extra, channels>>

\* In the payload flow and not waiting in `queues.incoming.send`.
CspTurn == cspPc = "flow" /\ cspHand = <<>>

\* `poll` returned a frame: a message or message-ack goes to the driver, the
\* others leave the connection's state and every channel alone.
CspPoll ==
  /\ CspTurn /\ cspBuf # <<>>
  /\ cspHand' = IF Head(cspBuf).type \in {"Message", "MessageAck"} THEN <<Head(cspBuf)>> ELSE <<>>
  /\ cspBuf' = Tail(cspBuf)
  /\ UNCHANGED <<cspPc, channels, chatServer>>

\* Mutant: sends without waiting for room in the channel.
CspForwardUnbounded ==
  /\ cspHand # <<>>
  /\ cspIn' = Append(cspIn, Head(cspHand))
  /\ cspHand' = <<>>
  /\ UNCHANGED <<cspPc, cspBuf, cspOut, d2mIn, d2mOut, d2mOpen, chatServer>>

CspForward ==
  /\ cspHand # <<>> /\ Len(cspIn) < CspInCap
  /\ cspIn' = Append(cspIn, Head(cspHand))
  /\ cspHand' = <<>>
  /\ UNCHANGED <<cspPc, cspBuf, cspOut, d2mIn, d2mOut, d2mOpen, chatServer>>

\* Mutant: reads while `poll` still has frames, and forgets them.
CspReadOverwrites ==
  /\ CspTurn /\ cspWire # <<>> /\ cspLink # "reset"
  /\ cspBuf' = SubSeq(cspWire, 1, 1)
  /\ cspWire' = Tail(cspWire)
  /\ UNCHANGED <<cspPc, cspHand, cspLink, unblocked, sent, acks, extra, channels>>

\* `poll` returned None: the select.  Its read branch takes what one read
\* returns; a read of 0 bytes is left to Spins.
CspRead ==
  /\ CspTurn /\ cspBuf = <<>> /\ cspWire # <<>> /\ cspLink # "reset"
  /\ \E k \in 1..ReadMax :
       /\ k =< Len(cspWire)
       /\ cspBuf' = SubSeq(cspWire, 1, k)
       /\ cspWire' = SubSeq(cspWire, k + 1, Len(cspWire))
  /\ UNCHANGED <<cspPc, cspHand, cspLink, unblocked, sent, acks, extra, channels>>

\* The stream has ended and all of it has been read: `readable` is ready at once
\* and for ever, `try_receive` returns Ok(0), an empty chunk is added, and the
\* loop comes back here without once returning Pending, so nothing else of the
\* task is polled.  A step that another branch takes between the end of the
\* stream and this loop's next turn does not depend on the stream: in the model
\* it comes before the end.  The loop only leaves by its other branch.
Spins == CspTurn /\ cspBuf = <<>> /\ cspWire = <<>> /\ cspLink = "eof"

\* The select's other branch: a payload of the driver is written to the socket.
CspSend ==
  /\ CspTurn /\ cspBuf = <<>> /\ cspOut # <<>>
  /\ cspOut' = Tail(cspOut)
  /\ ServerReceives(Head(cspOut))
  /\ UNCHANGED <<csp, cspIn, d2mIn, d2mOut, d2mOpen>>

CspNext == CspStart \/ CspHandshake \/ CspPoll \/ CspForward \/ CspRead \/ CspSend

\* The runner's future completes with an error: a broken handshake, a read or
\* write of a reset stream (an echo request is answered with a write), or a frame
\* or payload that libthreema's protocol refuses.  While it waits in CspForward
\* it cannot notice.
CspFails ==
  \/ cspPc \in {"hello", "login"} /\ HandshakeBroken
  \/ CspTurn /\ cspLink = "reset" /\ (cspBuf # <<>> => Head(cspBuf).type = "Control")
  \/ "csp" \in ProtocolFaults /\ cspPc \in {"hello", "login"} /\ cspWire # <<>>
  \/ "csp" \in ProtocolFaults /\ CspTurn /\ (cspBuf # <<>> \/ cspOut # <<>>)
=============================================================================
