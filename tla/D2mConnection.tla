--------------------------- MODULE D2mConnection ----------------------------
(***************************************************************************)
(* The mediator connection, `D2mProtocolRunner` (src/src/d2m.rs): the      *)
(* WebSocket handshake, then a loop that selects between receiving one     *)
(* datagram and taking one payload from the driver.  The received payload  *)
(* is handed to the driver before the next turn.                           *)
(***************************************************************************)
EXTENDS Mediator

VARIABLES
  d2mPc,    \* "connect", "hello", "info" (handshake rounds) or "flow"
  d2mHand   \* the payload `incoming.send` is waiting to hand over: <<>> or <<p>>

d2m == <<d2mPc, d2mHand>>

D2mInit == d2mPc = "connect" /\ d2mHand = <<>>

Datagram == D2mInPayload \cup {Plain("Handshake")}

D2mTypeOK ==
  /\ d2mPc \in {"connect", "hello", "info", "flow"}
  /\ d2mHand \in Seq(D2mInPayload) /\ Len(d2mHand) =< 1
  /\ d2mWire \in Seq(Datagram)
  /\ d2mLink \in {"hello", "open", "closed"}
  /\ promoted \in BOOLEAN /\ dry \in 0..RunsDry /\ holder \in {"nobody", "client", "sibling"}
  /\ siblingTxns \in 0..SiblingTxns /\ reflected \in 0..Reflections
  /\ reflectedAcks \in Seq(Nat \cup ReflectId)
  /\ reflectLog \in Seq([id: Nat \cup ReflectId, holder: {"nobody", "client", "sibling"}])

\* `new` has opened the WebSocket (`connect_async`); the server sends its hello.
D2mConnect ==
  /\ d2mPc = "connect"
  /\ d2mPc' = "hello"
  /\ d2mWire' = IF d2mLink = "closed" THEN d2mWire ELSE Append(d2mWire, Plain("Handshake"))
  /\ UNCHANGED <<d2mHand, d2mLink, promoted, dry, holder, siblingTxns, reflected, reflectedAcks,
                 reflectLog>>

\* A handshake round: the server hello is answered with the client hello, and
\* the mediator opens the session with its server info, which completes it.
D2mHandshake ==
  /\ d2mPc \in {"hello", "info"} /\ d2mWire # <<>>
  /\ IF d2mPc = "hello" /\ d2mLink = "hello"
     THEN d2mLink' = "open" /\ d2mWire' = Append(Tail(d2mWire), Plain("Handshake"))
     ELSE d2mLink' = d2mLink /\ d2mWire' = Tail(d2mWire)
  /\ d2mPc' = IF d2mPc = "hello" THEN "info" ELSE "flow"
  /\ UNCHANGED <<d2mHand, promoted, dry, holder, siblingTxns, reflected, reflectedAcks, reflectLog,
                 channels>>

\* In the payload flow and not waiting in `incoming.send`.
D2mTurn == d2mPc = "flow" /\ d2mOpen /\ d2mHand = <<>>

\* The select's receive branch; the next turn's `poll` returns the payload.
\* Pings and pongs are consumed inside `receive` and touch no other state.
D2mReceive ==
  /\ D2mTurn /\ d2mWire # <<>>
  /\ d2mHand' = <<Head(d2mWire)>>
  /\ d2mWire' = Tail(d2mWire)
  /\ UNCHANGED <<d2mPc, d2mLink, promoted, dry, holder, siblingTxns, reflected, reflectedAcks,
                 reflectLog, channels>>

D2mForward ==
  /\ d2mOpen /\ d2mHand # <<>> /\ Len(d2mIn) < D2mInCap
  /\ d2mIn' = Append(d2mIn, Head(d2mHand))
  /\ d2mHand' = <<>>
  /\ UNCHANGED <<d2mPc, cspIn, cspOut, d2mOut, d2mOpen, mediator>>

\* The select's other branch: a payload of the driver is written.
D2mSend ==
  /\ D2mTurn /\ d2mOut # <<>>
  /\ d2mOut' = Tail(d2mOut)
  /\ MediatorReceives(Head(d2mOut))
  /\ UNCHANGED <<d2m, cspIn, cspOut, d2mIn, d2mOpen>>

\* The payload flow ends: reading finds the closed stream, writing fails, or
\* libthreema's protocol refuses what was read or is to be written.
\* Both channel halves are dropped here, before `shutdown` is awaited, so for
\* a while the driver runs against closed channels.
D2mFlowEnds ==
  /\ D2mTurn
  /\ \/ d2mLink = "closed" /\ (d2mWire = <<>> \/ d2mOut # <<>>)
     \/ "d2m" \in ProtocolFaults /\ (d2mWire # <<>> \/ d2mOut # <<>>)
  /\ d2mOpen' = FALSE
  /\ d2mOut' = <<>>
  /\ UNCHANGED <<d2m, cspIn, cspOut, d2mIn, mediator>>

D2mNext == D2mHandshake \/ D2mReceive \/ D2mForward \/ D2mSend \/ D2mFlowEnds

\* The runner's future completes with an error: the handshake finds the stream
\* closed or its protocol fails, or `shutdown` has returned after the payload
\* flow's end.
D2mFails ==
  \/ d2mPc \in {"hello", "info"} /\ d2mWire = <<>> /\ d2mLink = "closed"
  \/ d2mPc \in {"hello", "info"} /\ d2mWire # <<>> /\ "d2m" \in ProtocolFaults
  \/ ~d2mOpen
=============================================================================
