---------------------------- MODULE ClientProofs ----------------------------
(***************************************************************************)
(* For every value of the constants, capacities, windows, numbers of       *)
(* messages, faults: the client is well typed, and only the leader         *)
(* unblocks the chat server's queue.                                       *)
(***************************************************************************)
EXTENDS ClientProperties, TLAPS, SequenceTheorems, FiniteSetTheorems

-----------------------------------------------------------------------------
(* Type correctness.  The handshake datagrams are what makes TypeOK not    *)
(* inductive: the payload flow takes every datagram for a payload, so none *)
(* of the handshake may be left when it begins.                            *)

D2mWireOK ==
  /\ d2mPc = "connect" => d2mWire = <<>> /\ d2mLink # "open"
  /\ d2mPc = "hello" => d2mWire \in {<<>>, <<Plain("Handshake")>>} /\ d2mLink # "open"
  /\ d2mPc = "info" => \/ d2mWire = <<>> /\ d2mLink = "closed"
                       \/ d2mWire # <<>> /\ Tail(d2mWire) \in Seq(D2mInPayload)
  /\ d2mPc = "flow" => d2mWire \in Seq(D2mInPayload)

TypeInv == TypeOK /\ D2mWireOK

\* What each component's part of the type invariant speaks about.
LEMMA UnchangedTypes ==
  ASSUME TypeInv
  PROVE  /\ UNCHANGED channels => WiringTypeOK'
         /\ UNCHANGED <<csp, chatServer>> => CspTypeOK'
         /\ UNCHANGED <<d2m, mediator>> => (D2mTypeOK /\ D2mWireOK)'
         /\ UNCHANGED reporting => ReportingTypeOK'
         /\ UNCHANGED driver => DriverTypeOK'
         /\ UNCHANGED run => ClientTypeOK'
<1>1. UNCHANGED channels => WiringTypeOK'
  BY DEF TypeInv, TypeOK, WiringTypeOK, channels
<1>2. UNCHANGED <<csp, chatServer>> => CspTypeOK'
  BY DEF TypeInv, TypeOK, CspTypeOK, csp, chatServer
<1>3. UNCHANGED <<d2m, mediator>> => (D2mTypeOK /\ D2mWireOK)'
  BY DEF TypeInv, TypeOK, D2mTypeOK, D2mWireOK, d2m, mediator
<1>4. UNCHANGED reporting => ReportingTypeOK'
  BY DEF TypeInv, TypeOK, ReportingTypeOK, reporting
<1>5. UNCHANGED driver => DriverTypeOK'
  BY DEF TypeInv, TypeOK, DriverTypeOK, driver
<1>6. UNCHANGED run => ClientTypeOK'
  BY DEF TypeInv, TypeOK, ClientTypeOK, run, Outcome
<1> QED BY <1>1, <1>2, <1>3, <1>4, <1>5, <1>6

LEMMA TypesInit == Init => TypeInv
<1> SUFFICES ASSUME Init PROVE TypeInv
  OBVIOUS
<1> USE DEF Init
<1>1. WiringTypeOK
  <2>1. d2mOpen \in BOOLEAN
    BY Zenon DEF WiringInit
  <2> QED BY <2>1, CapAssumption DEF WiringInit, WiringTypeOK
<1>2. CspTypeOK
  <2>1. unblocked \in BOOLEAN
    BY Zenon DEF ServerInit
  <2> QED BY <2>1, ServerAssumption, MessageAssumption DEF CspInit, ServerInit, CspTypeOK
<1>3. D2mTypeOK /\ D2mWireOK
  <2>1. promoted \in BOOLEAN
    BY Zenon DEF MediatorInit
  <2> QED BY <2>1, MediatorAssumption DEF D2mInit, MediatorInit, D2mTypeOK, D2mWireOK
<1>4. ReportingTypeOK
  BY DEF ReportingInit, ReportingTypeOK
<1>5. DriverTypeOK
  BY MessageAssumption DEF DriverInit, DriverTypeOK, Waits
<1>6. ClientTypeOK
  BY ClientAssumption DEF ClientTypeOK
<1> QED BY <1>1, <1>2, <1>3, <1>4, <1>5, <1>6 DEF TypeInv, TypeOK

LEMMA ServerReplyType == ServerReply \in Seq(Frame)
<1>1. Handshake \in Frame
  BY DEF Handshake, Frame
<1>2. <<Handshake>> \in Seq(Frame) /\ <<>> \in Seq(Frame)
  BY <1>1
<1> QED BY <1>2 DEF ServerReply

\* The steps of the chat connection.
LEMMA CspTypes ==
  ASSUME TypeInv, CspRuns
  PROVE  TypeInv'
<1>1. WiringTypeOK /\ CspTypeOK
  BY DEF TypeInv, TypeOK
<1> SUFFICES WiringTypeOK' /\ CspTypeOK'
  <2>1. (D2mTypeOK /\ D2mWireOK)' /\ ReportingTypeOK' /\ DriverTypeOK' /\ ClientTypeOK'
    BY UnchangedTypes DEF CspRuns
  <2> QED BY <2>1 DEF TypeInv, TypeOK
<1>2. CASE CspStart
  <2>1. WiringTypeOK'
    BY <1>2, UnchangedTypes DEF CspStart
  <2>2. cspWire' \in Seq(Frame)
    BY <1>1, <1>2, ServerReplyType DEF CspStart, CspTypeOK
  <2> QED BY <1>1, <1>2, <2>1, <2>2 DEF CspStart, CspTypeOK
<1>3. CASE CspHandshake
  <2>1. WiringTypeOK'
    BY <1>3, UnchangedTypes DEF CspHandshake
  <2>2. Tail(cspWire) \in Seq(Frame)
    BY <1>1, <1>3, HeadTailProperties DEF CspHandshake, CspTypeOK
  <2>3. Tail(cspWire) \o ServerReply \in Seq(Frame)
    BY <2>2, ServerReplyType, ConcatProperties
  <2>4. cspWire' \in Seq(Frame)
    BY <1>3, <2>2, <2>3 DEF CspHandshake
  <2> QED BY <1>1, <1>3, <2>1, <2>4 DEF CspHandshake, CspTypeOK
<1>4. CASE CspPoll
  <2>1. WiringTypeOK'
    BY <1>4, UnchangedTypes DEF CspPoll
  <2>2. Tail(cspBuf) \in Seq(Frame) /\ Head(cspBuf) \in Frame
    BY <1>1, <1>4, HeadTailProperties DEF CspPoll, CspTypeOK
  <2>3. cspHand' \in Seq(CspInPayload) /\ Len(cspHand') =< 1
    <3>1. CASE Head(cspBuf).type \in {"Message", "MessageAck"}
      <4>1. Head(cspBuf) \in CspInPayload
        BY <2>2, <3>1 DEF Frame, CspInPayload
      <4> QED BY <1>4, <3>1, <4>1 DEF CspPoll
    <3>2. CASE Head(cspBuf).type \notin {"Message", "MessageAck"}
      BY <1>4, <3>2 DEF CspPoll
    <3> QED BY <3>1, <3>2
  <2> QED BY <1>1, <1>4, <2>1, <2>2, <2>3 DEF CspPoll, CspTypeOK, chatServer
<1>5. CASE CspForward
  <2>1. Head(cspHand) \in CspInPayload
    BY <1>1, <1>5, HeadTailProperties DEF CspForward, CspTypeOK
  <2>2. cspIn' \in Seq(CspInPayload) /\ Len(cspIn') =< CspInCap
    BY <1>1, <1>5, <2>1, CapAssumption DEF CspForward, WiringTypeOK
  <2>3. WiringTypeOK'
    BY <1>1, <1>5, <2>2 DEF CspForward, WiringTypeOK
  <2> QED BY <1>1, <1>5, <2>3 DEF CspForward, CspTypeOK, chatServer
<1>6. CASE CspRead
  <2>1. WiringTypeOK'
    BY <1>6, UnchangedTypes DEF CspRead
  <2>2. cspBuf' \in Seq(Frame) /\ cspWire' \in Seq(Frame)
    BY <1>1, <1>6, ReadAssumption DEF CspRead, CspTypeOK
  <2> QED BY <1>1, <1>6, <2>1, <2>2 DEF CspRead, CspTypeOK
<1>7. CASE CspSend
  <2>1. Head(cspOut) \in CspOutPayload /\ Tail(cspOut) \in Seq(CspOutPayload)
        /\ Len(Tail(cspOut)) =< CspOutCap
    BY <1>1, <1>7, HeadTailProperties, CapAssumption DEF CspSend, WiringTypeOK
  <2>2. WiringTypeOK'
    BY <1>1, <1>7, <2>1 DEF CspSend, WiringTypeOK
  <2>3. unblocked' \in BOOLEAN
    BY <1>7, Zenon DEF CspSend, ServerReceives
  <2>4. acks' \in Seq(0..Total)
    <3>1. Append(acks, Head(cspOut).n) \in Seq(0..Total)
      BY <1>1, <2>1, AppendProperties DEF CspTypeOK, CspOutPayload
    <3> QED BY <1>1, <1>7, <3>1 DEF CspSend, ServerReceives, CspTypeOK
  <2> QED BY <1>1, <1>7, <2>2, <2>3, <2>4 DEF CspSend, ServerReceives, CspTypeOK, csp
<1> QED BY <1>2, <1>3, <1>4, <1>5, <1>6, <1>7 DEF CspRuns, CspNext

\* The steps of the chat server.
LEMMA ChatServerTypes ==
  ASSUME TypeInv, ChatServerActs
  PROVE  TypeInv'
<1>1. CspTypeOK
  BY DEF TypeInv, TypeOK
<1> SUFFICES CspTypeOK'
  <2>1. WiringTypeOK' /\ (D2mTypeOK /\ D2mWireOK)' /\ ReportingTypeOK' /\ DriverTypeOK'
        /\ ClientTypeOK'
    BY UnchangedTypes DEF ChatServerActs
  <2> QED BY <2>1 DEF TypeInv, TypeOK
<1>2. CASE ServerSendsMessage
  <2>1. sent' \in 0..Total
    BY <1>1, <1>2, MessageAssumption DEF ServerSendsMessage, CspTypeOK
  <2>2. cspWire' \in Seq(Frame)
    <3>1. [type |-> "Message", n |-> sent + 1] \in Frame
      BY <2>1, <1>2, <1>1 DEF ServerSendsMessage, CspTypeOK, Frame, CspInPayload
    <3> QED BY <1>1, <1>2, <3>1, AppendProperties DEF ServerSendsMessage, CspTypeOK
  <2> QED BY <1>1, <1>2, <2>1, <2>2 DEF ServerSendsMessage, ChatServerActs, CspTypeOK, csp
<1>3. ASSUME NEW type \in ExtraFrames, ServerSendsExtra(type) PROVE CspTypeOK'
  <2>1. extra' \in 0..Extra
    BY <1>1, <1>3, ServerAssumption DEF ServerSendsExtra, CspTypeOK
  <2>2. cspWire' \in Seq(Frame)
    <3>1. [type |-> type, n |-> 0] \in Frame
      BY <1>3, ServerAssumption DEF Frame, CspInPayload
    <3> QED BY <1>1, <1>3, <3>1, AppendProperties DEF ServerSendsExtra, CspTypeOK
  <2> QED BY <1>1, <1>3, <2>1, <2>2 DEF ServerSendsExtra, ChatServerActs, CspTypeOK, csp
<1>4. ASSUME NEW how \in LinkFaults, ServerEnds(how) PROVE CspTypeOK'
  BY <1>1, <1>4, ServerAssumption DEF ServerEnds, ChatServerActs, CspTypeOK, csp
<1> QED BY <1>2, <1>3, <1>4 DEF ChatServerActs

-----------------------------------------------------------------------------
LEMMA AnswersType ==
  ASSUME NEW p \in D2mOutPayload
  PROVE  Answers(p) \in Seq(D2mInPayload)
<1>1. \A type \in {"BeginTransactionAck", "TransactionRejected", "CommitTransactionAck"} :
        <<Plain(type)>> \in Seq(D2mInPayload)
  BY DEF Plain, D2mInPayload
<1>2. <<[type |-> "ReflectAck", id |-> p.id]>> \in Seq(D2mInPayload)
  BY DEF D2mOutPayload, D2mInPayload
<1>3. CASE p.type = "BeginTransaction"
  BY <1>1, <1>3 DEF Answers
<1>4. CASE p.type # "BeginTransaction"
  BY <1>1, <1>2, <1>4 DEF Answers
<1> QED BY <1>3, <1>4

\* The steps of the mediator connection.
LEMMA D2mTypes ==
  ASSUME TypeInv, D2mRuns
  PROVE  TypeInv'
<1>1. WiringTypeOK /\ D2mTypeOK /\ D2mWireOK
  BY DEF TypeInv, TypeOK
<1> SUFFICES WiringTypeOK' /\ (D2mTypeOK /\ D2mWireOK)'
  <2>1. CspTypeOK' /\ ReportingTypeOK' /\ DriverTypeOK' /\ ClientTypeOK'
    BY UnchangedTypes DEF D2mRuns
  <2> QED BY <2>1 DEF TypeInv, TypeOK
<1>2. CASE D2mHandshake
  <2>1. WiringTypeOK'
    BY <1>2, UnchangedTypes DEF D2mHandshake
  <2>2. Plain("Handshake") \in Datagram
    BY DEF Datagram
  <2>3. Tail(d2mWire) \in Seq(Datagram)
    BY <1>1, <1>2, HeadTailProperties DEF D2mHandshake, D2mTypeOK
  <2>4. D2mTypeOK'
    <3>1. Append(Tail(d2mWire), Plain("Handshake")) \in Seq(Datagram)
      BY <2>2, <2>3, AppendProperties
    <3>2. d2mWire' \in Seq(Datagram) /\ d2mLink' \in {"hello", "open", "closed"}
      BY <1>1, <1>2, <2>3, <3>1 DEF D2mHandshake, D2mTypeOK
    <3> QED BY <1>1, <1>2, <3>2 DEF D2mHandshake, D2mTypeOK
  <2>5. D2mWireOK'
    <3>1. CASE d2mPc = "hello"
      <4>1. d2mWire = <<Plain("Handshake")>>
        BY <1>1, <1>2, <3>1 DEF D2mHandshake, D2mWireOK
      <4>2. Tail(d2mWire) = <<>> /\ Append(<<>>, Plain("Handshake")) = <<Plain("Handshake")>>
        BY <4>1
      <4>3. d2mPc' = "info"
        BY <1>2, <3>1 DEF D2mHandshake
      <4>4. CASE d2mLink = "hello"
        <5>1. d2mWire' = <<Plain("Handshake")>>
          BY <1>2, <3>1, <4>2, <4>4 DEF D2mHandshake
        <5>2. d2mWire' # <<>> /\ Tail(d2mWire') \in Seq(D2mInPayload)
          BY <5>1
        <5> QED BY <4>3, <5>2 DEF D2mWireOK
      <4>5. CASE d2mLink = "closed"
        BY <1>2, <3>1, <4>2, <4>3, <4>5 DEF D2mHandshake, D2mWireOK
      <4> QED BY <1>1, <3>1, <4>4, <4>5 DEF D2mWireOK, D2mTypeOK
    <3>2. CASE d2mPc = "info"
      BY <1>1, <1>2, <3>2 DEF D2mHandshake, D2mWireOK
    <3> QED BY <1>2, <3>1, <3>2 DEF D2mHandshake
  <2> QED BY <2>1, <2>4, <2>5
<1>3. CASE D2mReceive
  <2>1. WiringTypeOK'
    BY <1>3, UnchangedTypes DEF D2mReceive
  <2>2. /\ Head(d2mWire) \in D2mInPayload /\ Tail(d2mWire) \in Seq(D2mInPayload)
        /\ Tail(d2mWire) \in Seq(Datagram)
    BY <1>1, <1>3, HeadTailProperties DEF D2mReceive, D2mTurn, D2mWireOK, D2mTypeOK
  <2>3. d2mHand' \in Seq(D2mInPayload) /\ Len(d2mHand') =< 1
    BY <1>3, <2>2 DEF D2mReceive
  <2> QED BY <1>1, <1>3, <2>1, <2>2, <2>3 DEF D2mReceive, D2mTurn, D2mWireOK, D2mTypeOK
<1>4. CASE D2mForward
  <2>1. Head(d2mHand) \in D2mInPayload
    BY <1>1, <1>4, HeadTailProperties DEF D2mForward, D2mTypeOK
  <2>2. d2mIn' \in Seq(D2mInPayload) /\ Len(d2mIn') =< D2mInCap
    BY <1>1, <1>4, <2>1, CapAssumption DEF D2mForward, WiringTypeOK
  <2>3. WiringTypeOK'
    BY <1>1, <1>4, <2>2 DEF D2mForward, WiringTypeOK
  <2> QED BY <1>1, <1>4, <2>3 DEF D2mForward, D2mTypeOK, D2mWireOK, mediator
<1>5. CASE D2mSend
  <2>1. /\ Head(d2mOut) \in D2mOutPayload /\ Tail(d2mOut) \in Seq(D2mOutPayload)
        /\ Len(Tail(d2mOut)) =< D2mOutCap
    BY <1>1, <1>5, HeadTailProperties, CapAssumption DEF D2mSend, WiringTypeOK
  <2>2. WiringTypeOK'
    BY <1>1, <1>5, <2>1 DEF D2mSend, WiringTypeOK
  <2>3. d2mWire \in Seq(D2mInPayload) /\ d2mPc = "flow"
    BY <1>1, <1>5 DEF D2mSend, D2mTurn, D2mWireOK
  <2>4. d2mWire \o Answers(Head(d2mOut)) \in Seq(D2mInPayload)
    BY <2>1, <2>3, AnswersType, ConcatProperties
  <2>5. d2mWire' \in Seq(D2mInPayload)
    BY <1>5, <2>3, <2>4 DEF D2mSend, MediatorReceives
  <2>6. d2mWire' \in Seq(Datagram)
    BY <2>5, SeqMonotonic DEF Datagram
  <2>7. holder' \in {"nobody", "client", "sibling"}
    BY <1>1, <1>5 DEF D2mSend, MediatorReceives, D2mTypeOK
  <2>8. Head(d2mOut).id \in Nat \cup ReflectId
    BY <2>1 DEF D2mOutPayload
  <2>9. reflectedAcks' \in Seq(Nat \cup ReflectId)
    <3>1. Append(reflectedAcks, Head(d2mOut).id) \in Seq(Nat \cup ReflectId)
      BY <1>1, <2>8, AppendProperties DEF D2mTypeOK
    <3> QED BY <1>1, <1>5, <3>1 DEF D2mSend, MediatorReceives, D2mTypeOK
  <2>10. reflectLog' \in Seq([id: Nat \cup ReflectId, holder: {"nobody", "client", "sibling"}])
    <3> DEFINE entry == [id |-> Head(d2mOut).id, holder |-> holder]
    <3>1. entry \in [id: Nat \cup ReflectId, holder: {"nobody", "client", "sibling"}]
      BY <1>1, <2>8 DEF D2mTypeOK
    <3>2. Append(reflectLog, entry)
            \in Seq([id: Nat \cup ReflectId, holder: {"nobody", "client", "sibling"}])
      BY <1>1, <3>1, AppendProperties DEF D2mTypeOK
    <3> QED BY <1>1, <1>5, <3>2 DEF D2mSend, MediatorReceives, D2mTypeOK
  <2> QED
    BY <1>1, <1>5, <2>2, <2>3, <2>5, <2>6, <2>7, <2>9, <2>10
    DEF D2mSend, MediatorReceives, D2mTypeOK, D2mWireOK, d2m
<1>6. CASE D2mFlowEnds
  <2>1. WiringTypeOK'
    <3>1. d2mOpen' \in BOOLEAN
      BY <1>6, Zenon DEF D2mFlowEnds
    <3> QED BY <1>1, <1>6, <3>1, CapAssumption DEF D2mFlowEnds, WiringTypeOK
  <2> QED BY <1>6, <2>1, UnchangedTypes DEF D2mFlowEnds
<1> QED BY <1>2, <1>3, <1>4, <1>5, <1>6 DEF D2mRuns, D2mNext

\* The steps of the mediator and of the sibling devices.
LEMMA MediatorTypes ==
  ASSUME TypeInv, MediatorActs
  PROVE  TypeInv'
<1>1. D2mTypeOK /\ D2mWireOK
  BY DEF TypeInv, TypeOK
<1> SUFFICES (D2mTypeOK /\ D2mWireOK)'
  <2>1. WiringTypeOK' /\ CspTypeOK' /\ ReportingTypeOK' /\ DriverTypeOK' /\ ClientTypeOK'
    BY UnchangedTypes DEF MediatorActs
  <2> QED BY <2>1 DEF TypeInv, TypeOK
<1>2. UNCHANGED d2m
  BY DEF MediatorActs
<1>3. ASSUME NEW p \in D2mInPayload, Sends(p), UNCHANGED d2mLink
      PROVE  d2mWire' \in Seq(Datagram) /\ D2mWireOK'
  <2>1. d2mWire' = Append(d2mWire, p) /\ p \in Datagram /\ d2mPc \in {"info", "flow"}
    BY <1>1, <1>3 DEF Sends, Datagram, D2mTypeOK, D2mWireOK
  <2>2. d2mWire' \in Seq(Datagram) /\ d2mWire' # <<>>
    BY <1>1, <2>1, AppendProperties DEF D2mTypeOK
  <2>3. CASE d2mPc = "flow"
    BY <1>1, <1>2, <2>1, <2>2, <2>3 DEF D2mWireOK, d2m
  <2>4. CASE d2mPc = "info"
    <3>1. d2mWire # <<>> /\ Tail(d2mWire) \in Seq(D2mInPayload)
      BY <1>1, <1>3, <2>4 DEF Sends, D2mWireOK
    <3>2. Tail(d2mWire') = Append(Tail(d2mWire), p)
      BY <1>1, <2>1, <3>1, HeadTailAppend DEF D2mTypeOK
    <3>3. Append(Tail(d2mWire), p) \in Seq(D2mInPayload)
      BY <3>1, <1>3, AppendProperties
    <3>4. Tail(d2mWire') \in Seq(D2mInPayload)
      BY <3>2, <3>3
    <3> QED BY <1>2, <2>2, <2>4, <3>4 DEF D2mWireOK, d2m
  <2> QED BY <2>1, <2>2, <2>3, <2>4
<1>4. CASE MediatorPromotes
  <2>1. Plain("RolePromotedToLeader") \in D2mInPayload
    BY DEF Plain, D2mInPayload
  <2>2. promoted' \in BOOLEAN
    BY <1>4, Zenon DEF MediatorPromotes
  <2> QED BY <1>1, <1>2, <1>3, <1>4, <2>1, <2>2 DEF MediatorPromotes, D2mTypeOK, d2m
<1>5. CASE MediatorReflects
  <2>1. reflected' \in 0..Reflections /\ reflected + 1 \in Nat
    BY <1>1, <1>5, MediatorAssumption DEF MediatorReflects, D2mTypeOK
  <2>2. [type |-> "Reflected", id |-> reflected + 1] \in D2mInPayload
    BY <2>1 DEF D2mInPayload
  <2> QED BY <1>1, <1>2, <1>3, <1>5, <2>1, <2>2 DEF MediatorReflects, D2mTypeOK, d2m
<1>6. CASE SiblingBegins
  BY <1>1, <1>2, <1>6, MediatorAssumption DEF SiblingBegins, D2mTypeOK, D2mWireOK, d2m
<1>7. CASE SiblingEnds
  <2>1. Plain("TransactionEnded") \in D2mInPayload
    BY DEF Plain, D2mInPayload
  <2> QED BY <1>1, <1>2, <1>3, <1>7, <2>1 DEF SiblingEnds, D2mTypeOK, d2m
<1>8. CASE MediatorCloses
  BY <1>1, <1>2, <1>8 DEF MediatorCloses, D2mTypeOK, D2mWireOK, d2m
<1>9. CASE MediatorRunsDry
  <2>1. Plain("ReflectionQueueDry") \in D2mInPayload
    BY DEF Plain, D2mInPayload
  <2>2. dry' \in 0..RunsDry
    BY <1>1, <1>9, MediatorAssumption DEF MediatorRunsDry, D2mTypeOK
  <2> QED BY <1>1, <1>2, <1>3, <1>9, <2>1, <2>2 DEF MediatorRunsDry, D2mTypeOK, d2m
<1> QED BY <1>4, <1>5, <1>6, <1>7, <1>8, <1>9 DEF MediatorActs

\* The steps of the driver: what it sends.
LEMMA DriverSendTypes ==
  ASSUME TypeInv, DriverRuns, SendCsp \/ SendD2m
  PROVE  (WiringTypeOK /\ DriverTypeOK /\ ReportingTypeOK)'
<1>1. WiringTypeOK /\ DriverTypeOK
  BY DEF TypeInv, TypeOK
<1>2. CASE SendCsp
  <2>1. Head(outCsp) \in CspOutPayload /\ Tail(outCsp) \in Seq(CspOutPayload)
        /\ Len(Tail(outCsp)) =< 1
    BY <1>1, <1>2, HeadTailProperties DEF SendCsp, DriverTypeOK
  <2>2. cspOut' \in Seq(CspOutPayload) /\ Len(cspOut') =< CspOutCap
    BY <1>1, <1>2, <2>1, AppendProperties, CapAssumption DEF SendCsp, WiringTypeOK
  <2>3. WiringTypeOK'
    BY <1>1, <1>2, <2>2 DEF SendCsp, WiringTypeOK
  <2>4. DriverTypeOK'
    BY <1>1, <1>2, <2>1 DEF SendCsp, DriverTypeOK
  <2> QED BY <1>2, <2>3, <2>4, UnchangedTypes DEF SendCsp
<1>3. CASE SendD2m
  <2>1. Head(outD2m) \in D2mOutPayload /\ Tail(outD2m) \in Seq(D2mOutPayload)
    BY <1>1, <1>3, HeadTailProperties DEF SendD2m, DriverTypeOK
  <2>2. d2mOut' \in Seq(D2mOutPayload) /\ Len(d2mOut') =< D2mOutCap
    BY <1>1, <1>3, <2>1, AppendProperties, CapAssumption DEF SendD2m, WiringTypeOK
  <2>3. WiringTypeOK'
    BY <1>1, <1>3, <2>2 DEF SendD2m, WiringTypeOK
  <2>4. DriverTypeOK'
    BY <1>1, <1>3, <2>1 DEF SendD2m, DriverTypeOK
  <2> QED BY <1>3, <2>3, <2>4, UnchangedTypes DEF SendD2m
<1> QED BY <1>2, <1>3

\* What a batch of reflect messages adds to the outbox.
LEMMA BatchType ==
  ASSUME NEW s \in 0..4, NEW size \in 0..MaxBatch, NEW ephemerals \in SUBSET (1..size),
         task \in 0..Total
  PROVE  /\ Batch(s, size, ephemerals) \in Seq(D2mOutPayload)
         /\ Acknowledged(s, size, ephemerals) \subseteq ReflectId
         /\ Cardinality((1..size) \ ephemerals) \in Nat
<1>1. size \in Nat /\ task \in Nat /\ s \in Nat
  BY DriverAssumption, MessageAssumption
<1>2. \A i \in 1..size : <<task, s, i>> \in ReflectId
  BY <1>1 DEF ReflectId
<1>3. \A i \in 1..size :
        [type |-> "Reflect", id |-> <<task, s, i>>, ephemeral |-> i \in ephemerals]
          \in D2mOutPayload
  <2> TAKE i \in 1..size
  <2>1. (i \in ephemerals) \in BOOLEAN
    OBVIOUS
  <2> QED BY <1>2, <2>1 DEF D2mOutPayload
<1>4. Batch(s, size, ephemerals) \in Seq(D2mOutPayload)
  BY <1>1, <1>3 DEF Batch
<1>5. Acknowledged(s, size, ephemerals) \subseteq ReflectId
  BY <1>2 DEF Acknowledged
<1>6. Cardinality((1..size) \ ephemerals) \in Nat
  <2>1. IsFiniteSet(1..size)
    BY <1>1, FS_Interval
  <2>2. IsFiniteSet((1..size) \ ephemerals)
    BY <2>1, FS_Difference
  <2> QED BY <2>2, FS_CardinalityType
<1> QED BY <1>4, <1>5, <1>6

\* The steps of the driver: the instructions of the task.
LEMMA DriverPollTypes ==
  ASSUME TypeInv, DriverRuns, Polling \/ SenderFetched \/ ReflectReturns
  PROVE  (WiringTypeOK /\ DriverTypeOK /\ ReportingTypeOK)'
<1>1. DriverTypeOK /\ ReportingTypeOK
  BY DEF TypeInv, TypeOK
<1>2. UNCHANGED channels
  BY DEF Polling, SenderFetched, ReflectReturns, PollFetchSender, PollBeginTransaction,
         PollTransactionRejected, PollAbortTransaction, PollReflectAndCommit,
         PollReflectMessage, PollDone
<1>3. WiringTypeOK'
  BY <1>2, UnchangedTypes
<1>4. CASE PollFetchSender \/ SenderFetched \/ ReflectReturns \/ PollTransactionRejected
  <2>1. DriverTypeOK'
    BY <1>1, <1>4 DEF PollFetchSender, SenderFetched, ReflectReturns, PollTransactionRejected,
                      DriverTypeOK, Polls, Order, Waits
  <2> QED BY <1>3, <1>4, <2>1, UnchangedTypes
      DEF PollFetchSender, SenderFetched, ReflectReturns, PollTransactionRejected
<1>5. CASE PollBeginTransaction \/ PollAbortTransaction
  <2>1. \A type \in {"BeginTransaction", "CommitTransaction"} :
          <<Out(type)>> \in Seq(D2mOutPayload)
    <3>1. FALSE \in BOOLEAN
      BY Zenon
    <3> QED BY <3>1 DEF Out, D2mOutPayload
  <2>2. stage' \in 0..4
    BY <1>1, <1>5 DEF PollBeginTransaction, PollAbortTransaction, DriverTypeOK, Order
  <2>3. DriverTypeOK'
    BY <1>1, <1>5, <2>1, <2>2 DEF PollBeginTransaction, PollAbortTransaction, DriverTypeOK, Waits,
       Polls
  <2> QED BY <1>3, <1>5, <2>3, UnchangedTypes DEF PollBeginTransaction, PollAbortTransaction
<1>6. CASE PollReflectAndCommit
  <2>0. PICK size \in 0..MaxBatch : \E ephemerals \in SUBSET (1..size) :
          /\ outD2m' = Append(Batch(stage, size, ephemerals), Out("CommitTransaction"))
          /\ expected' = Acknowledged(stage, size, ephemerals)
    BY <1>6 DEF PollReflectAndCommit
  <2>1. PICK ephemerals \in SUBSET (1..size) :
          /\ outD2m' = Append(Batch(stage, size, ephemerals), Out("CommitTransaction"))
          /\ expected' = Acknowledged(stage, size, ephemerals)
    BY <2>0
  <2>2. Out("CommitTransaction") \in D2mOutPayload
    <3>1. FALSE \in BOOLEAN
      BY Zenon
    <3> QED BY <3>1 DEF Out, D2mOutPayload
  <2>3. outD2m' \in Seq(D2mOutPayload) /\ expected' \subseteq ReflectId
    BY <1>1, <2>1, <2>2, BatchType, AppendProperties DEF DriverTypeOK
  <2>4. DriverTypeOK'
    BY <1>1, <1>6, <2>3 DEF PollReflectAndCommit, DriverTypeOK, Waits
  <2> QED BY <1>3, <1>6, <2>4, UnchangedTypes DEF PollReflectAndCommit
<1>7. CASE PollReflectMessage
  <2>0. PICK size \in 0..MaxBatch : \E ephemerals \in SUBSET (1..size) :
          /\ outD2m' = Batch(stage', size, ephemerals)
          /\ pending' = Cardinality((1..size) \ ephemerals)
          /\ expected' = Acknowledged(stage', size, ephemerals)
    BY <1>7 DEF PollReflectMessage
  <2>1. PICK ephemerals \in SUBSET (1..size) :
          /\ outD2m' = Batch(stage', size, ephemerals)
          /\ pending' = Cardinality((1..size) \ ephemerals)
          /\ expected' = Acknowledged(stage', size, ephemerals)
    BY <2>0
  <2>2. stage' \in 0..4
    BY <1>7 DEF PollReflectMessage, Order
  <2>3. outD2m' \in Seq(D2mOutPayload) /\ expected' \subseteq ReflectId /\ pending' \in Nat
    BY <1>1, <2>1, <2>2, BatchType DEF DriverTypeOK
  <2>4. DriverTypeOK'
    BY <1>1, <1>7, <2>2, <2>3 DEF PollReflectMessage, DriverTypeOK, Waits, Polls
  <2> QED BY <1>3, <1>7, <2>4, UnchangedTypes DEF PollReflectMessage
<1>8. CASE PollDone
  <2>1. task \in 1..Total
    BY <1>1, <1>8, MessageAssumption DEF PollDone, DriverTypeOK
  <2>2. outCsp' \in Seq(CspOutPayload) /\ Len(outCsp') =< 1
    <3>1. [type |-> "MessageAck", n |-> task] \in CspOutPayload
      BY <2>1, MessageAssumption DEF CspOutPayload
    <3> QED BY <1>8, <3>1 DEF PollDone
  <2>3. DriverTypeOK'
    BY <1>1, <1>8, <2>2, MessageAssumption DEF PollDone, DriverTypeOK
  <2>4. ReportingTypeOK'
    <3>1. CASE UNCHANGED reporting
      BY <3>1, UnchangedTypes
    <3>2. CASE AddOrUpdateIncomingMessage(Content[task])
      <4>1. Content[task] \in Key
        BY <2>1, DriverAssumption
      <4>2. Event("Direct", Content[task])
              \in [kind: {"Connected", "Direct", "Reflected"}, key: Key \cup Nat]
        BY <4>1 DEF Event
      <4>3. Append(events, Event("Direct", Content[task]))
              \in Seq([kind: {"Connected", "Direct", "Reflected"}, key: Key \cup Nat])
        BY <1>1, <4>2, AppendProperties DEF ReportingTypeOK
      <4> QED BY <1>1, <3>2, <4>1, <4>3 DEF AddOrUpdateIncomingMessage, ReportingTypeOK
    <3> QED BY <1>8, <3>1, <3>2 DEF PollDone
  <2> QED BY <1>3, <2>3, <2>4
<1> QED BY <1>4, <1>5, <1>6, <1>7, <1>8 DEF Polling

\* The steps of the driver: the payloads it takes.
LEMMA DriverTakeTypes ==
  ASSUME TypeInv, DriverRuns, TakeCspPayload \/ OnD2m
  PROVE  (WiringTypeOK /\ DriverTypeOK /\ ReportingTypeOK)'
<1>1. WiringTypeOK /\ DriverTypeOK /\ ReportingTypeOK
  BY DEF TypeInv, TypeOK
<1>2. CASE TakeCspPayload
  <2>1. Head(cspIn) \in CspInPayload /\ Tail(cspIn) \in Seq(CspInPayload)
        /\ Len(Tail(cspIn)) =< CspInCap
    BY <1>1, <1>2, HeadTailProperties, CapAssumption DEF TakeCspPayload, WiringTypeOK
  <2>2. WiringTypeOK'
    BY <1>1, <1>2, <2>1 DEF TakeCspPayload, WiringTypeOK
  <2>3. DriverTypeOK'
    <3>1. CASE Head(cspIn).type = "Message"
      <4>1. Head(cspIn).n \in 1..Total
        BY <2>1, <3>1 DEF CspInPayload
      <4> QED BY <1>1, <1>2, <3>1, <4>1, MessageAssumption DEF TakeCspPayload, DriverTypeOK
    <3>2. CASE Head(cspIn).type # "Message"
      BY <1>1, <1>2, <3>2 DEF TakeCspPayload, DriverTypeOK
    <3> QED BY <3>1, <3>2
  <2> QED BY <1>2, <2>2, <2>3, UnchangedTypes DEF TakeCspPayload
<1>3. CASE OnD2m
  <2>1. Listens /\ d2mIn # <<>> /\ d2mIn' = Tail(d2mIn)
    BY <1>3 DEF OnD2m, OnBeginReply, OnTransactionEnded, OnCommitAck, OnReflectAck,
                OnPromotion, OnReflected, DropUnsolicited, Receives
  <2>2. Head(d2mIn) \in D2mInPayload /\ d2mIn' \in Seq(D2mInPayload) /\ Len(d2mIn') =< D2mInCap
    BY <1>1, <2>1, HeadTailProperties, CapAssumption DEF WiringTypeOK
  <2>3. UNCHANGED <<cspIn, cspOut, d2mOut, d2mOpen>>
    BY <1>3 DEF OnD2m, OnBeginReply, OnTransactionEnded, OnCommitAck, OnReflectAck,
                OnPromotion, OnReflected, DropUnsolicited
  <2>4. WiringTypeOK'
    BY <1>1, <2>2, <2>3 DEF WiringTypeOK
  <2>5. Head(d2mIn).id \in Nat \cup ReflectId
    BY <2>2 DEF D2mInPayload
  <2>6. CASE OnTransactionEnded \/ OnCommitAck
             \/ \E type \in {"BeginTransactionAck", "TransactionRejected"} : OnBeginReply(type)
    <3>1. DriverTypeOK'
      BY <1>1, <2>6 DEF OnBeginReply, OnTransactionEnded, OnCommitAck, DriverTypeOK
    <3> QED BY <2>4, <2>6, <3>1, UnchangedTypes DEF OnBeginReply, OnTransactionEnded, OnCommitAck
  <2>7. CASE OnReflectAck
    <3>1. acked' \in Seq(Nat \cup ReflectId)
      BY <1>1, <2>5, <2>7, AppendProperties DEF OnReflectAck, DriverTypeOK
    <3>2. pending' \in Nat
      BY <1>1, <2>1, <2>7 DEF OnReflectAck, Listens, DriverTypeOK
    <3>3. DriverTypeOK'
      BY <1>1, <2>7, <3>1, <3>2 DEF OnReflectAck, DriverTypeOK
    <3> QED BY <2>4, <2>7, <3>3, UnchangedTypes DEF OnReflectAck
  <2>8. CASE OnPromotion
    <3>1. [type |-> "UnblockIncomingMessages", n |-> 0] \in CspOutPayload
      BY MessageAssumption DEF CspOutPayload
    <3>2. outCsp' \in Seq(CspOutPayload) /\ Len(outCsp') =< 1
      BY <2>8, <3>1 DEF OnPromotion
    <3>3. DriverTypeOK'
      BY <1>1, <2>8, <3>2 DEF OnPromotion, DriverTypeOK
    <3> QED BY <2>4, <2>8, <3>3, UnchangedTypes DEF OnPromotion
  <2>9. CASE OnReflected
    <3>1. [Out("ReflectedAck") EXCEPT !.id = Head(d2mIn).id] \in D2mOutPayload
      <4>1. FALSE \in BOOLEAN
        BY Zenon
      <4> QED BY <2>5, <4>1 DEF Out, D2mOutPayload
    <3>2. outD2m' \in Seq(D2mOutPayload)
      BY <2>9, <3>1 DEF OnReflected
    <3>3. DriverTypeOK'
      BY <1>1, <2>9, <3>2 DEF OnReflected, DriverTypeOK
    <3>4. ReportingTypeOK'
      <4>1. CASE Head(d2mIn).id \in TextReflection
        <5>1. Event("Reflected", Head(d2mIn).id)
                \in [kind: {"Connected", "Direct", "Reflected"}, key: Key \cup Nat]
          BY <4>1, ReportingAssumption DEF Event
        <5>2. events' \in Seq([kind: {"Connected", "Direct", "Reflected"}, key: Key \cup Nat])
          BY <1>1, <2>9, <4>1, <5>1, AppendProperties
          DEF OnReflected, HandleReflectedEnvelope, ReportingTypeOK
        <5> QED BY <1>1, <2>9, <5>2 DEF OnReflected, ReportingTypeOK
      <4>2. CASE Head(d2mIn).id \notin TextReflection
        BY <1>1, <2>9, <4>2 DEF OnReflected, HandleReflectedEnvelope, ReportingTypeOK
      <4> QED BY <4>1, <4>2
    <3> QED BY <2>4, <3>3, <3>4
  <2>10. CASE DropUnsolicited
    BY <2>4, <2>10, UnchangedTypes DEF DropUnsolicited
  <2> QED BY <1>3, <2>6, <2>7, <2>8, <2>9, <2>10 DEF OnD2m
<1> QED BY <1>2, <1>3

LEMMA DriverTypes ==
  ASSUME TypeInv, DriverRuns
  PROVE  TypeInv'
<1>1. (WiringTypeOK /\ DriverTypeOK /\ ReportingTypeOK)'
  BY DriverSendTypes, DriverPollTypes, DriverTakeTypes DEF DriverRuns, DriverNext
<1>2. CspTypeOK' /\ (D2mTypeOK /\ D2mWireOK)' /\ ClientTypeOK'
  BY UnchangedTypes DEF DriverRuns
<1> QED BY <1>1, <1>2 DEF TypeInv, TypeOK

\* The steps of `run` itself and of the embedder.
LEMMA RunTypes ==
  ASSUME TypeInv,
         \/ ConnectFails \/ ConnectCsp \/ ConnectD2m \/ TakeSendText \/ RunEnds \/ DropSender
         \/ \E command \in {"SendText", "Shutdown"} : Command(command)
  PROVE  TypeInv'
<1>1. D2mTypeOK /\ D2mWireOK /\ ReportingTypeOK /\ ClientTypeOK
  BY DEF TypeInv, TypeOK
<1>2. WiringTypeOK' /\ CspTypeOK' /\ DriverTypeOK'
  BY UnchangedTypes DEF ConnectFails, ConnectCsp, ConnectD2m, TakeSendText, RunEnds, DropSender,
                        Command
<1>3. ClientTypeOK'
  <2>1. CASE ConnectFails \/ ConnectCsp \/ ConnectD2m \/ RunEnds
    BY <1>1, <2>1 DEF ConnectFails, ConnectCsp, ConnectD2m, RunEnds, ClientTypeOK, Outcome
  <2>2. CASE TakeSendText
    BY <1>1, <2>2, HeadTailProperties DEF TakeSendText, ClientTypeOK
  <2>3. CASE DropSender
    <3>1. FALSE \in BOOLEAN
      BY Zenon
    <3> QED BY <1>1, <2>3, <3>1 DEF DropSender, ClientTypeOK
  <2>4. ASSUME NEW command \in {"SendText", "Shutdown"}, Command(command)
        PROVE  ClientTypeOK'
    <3>1. issued.count + 1 \in 0..MaxCommands
      BY <1>1, <2>4, ClientAssumption DEF Command, ClientTypeOK
    <3>2. commands' \in Seq({"SendText", "Shutdown"})
      BY <1>1, <2>4, AppendProperties DEF Command, ClientTypeOK
    <3> QED BY <1>1, <2>4, <3>1, <3>2 DEF Command, ClientTypeOK
  <2> QED BY <2>1, <2>2, <2>3, <2>4
<1>4. CASE ConnectD2m
  <2>1. Plain("Handshake") \in Datagram
    BY DEF Datagram
  <2>2. d2mWire' \in Seq(Datagram)
    BY <1>1, <1>4, <2>1, AppendProperties DEF ConnectD2m, D2mConnect, D2mTypeOK
  <2>3. D2mTypeOK'
    BY <1>1, <1>4, <2>2 DEF ConnectD2m, D2mConnect, D2mTypeOK
  <2>4. D2mWireOK'
    <3>1. d2mWire = <<>> /\ d2mLink # "open"
      BY <1>1, <1>4 DEF ConnectD2m, D2mConnect, D2mWireOK
    <3>2. Append(<<>>, Plain("Handshake")) = <<Plain("Handshake")>>
      OBVIOUS
    <3> QED BY <1>4, <3>1, <3>2 DEF ConnectD2m, D2mConnect, D2mWireOK
  <2>5. ReportingTypeOK'
    <3>1. Event("Connected", 0)
            \in [kind: {"Connected", "Direct", "Reflected"}, key: Key \cup Nat]
      BY DEF Event
    <3> QED BY <1>1, <1>4, <3>1, AppendProperties DEF ConnectD2m, ReportingTypeOK
  <2> QED BY <1>2, <1>3, <2>3, <2>4, <2>5 DEF TypeInv, TypeOK
<1>5. CASE ~ConnectD2m
  <2>1. (D2mTypeOK /\ D2mWireOK)' /\ ReportingTypeOK'
    BY <1>5, UnchangedTypes DEF ConnectFails, ConnectCsp, TakeSendText, RunEnds, DropSender, Command
  <2> QED BY <1>2, <1>3, <2>1 DEF TypeInv, TypeOK
<1> QED BY <1>4, <1>5

LEMMA TypesStutter ==
  ASSUME TypeInv, UNCHANGED vars
  PROVE  TypeInv'
<1>1. UNCHANGED <<channels, csp, chatServer, d2m, mediator, reporting, driver, run>>
  BY DEF vars
<1> QED BY <1>1, UnchangedTypes DEF TypeInv, TypeOK

LEMMA TypesStep == TypeInv /\ [Next]_vars => TypeInv'
BY CspTypes, ChatServerTypes, D2mTypes, MediatorTypes, DriverTypes, RunTypes, TypesStutter DEF Next

\* Every reachable state is well typed: no channel ever holds more than `run`
\* gave it room for, and no handshake datagram is ever taken for a payload.
THEOREM TypesInvariant == Spec => []TypeInv
BY TypesInit, TypesStep, PTL DEF Spec

\* Every variable of the client keeps its type and every channel its capacity
\* (src/src/lib.rs:117-123).
THEOREM TypeCorrect == Spec => []TypeOK
<1>1. TypeInv => TypeOK
  BY DEF TypeInv
<1> QED BY TypesInvariant, <1>1, PTL

-----------------------------------------------------------------------------
(* Only the leader unblocks the chat server's queue.  The argument follows *)
(* payloads through the places they wait in, so those are joined: a move   *)
(* from one place to the next leaves the join alone.  First, sequences.    *)

LEMMA MoveHead ==
  ASSUME NEW S, NEW s \in Seq(S), NEW t \in Seq(S), t # <<>>
  PROVE  Append(s, Head(t)) \o Tail(t) = s \o t
<1>1. Head(t) \in S /\ Tail(t) \in Seq(S) /\ Len(Tail(t)) = Len(t) - 1
      /\ \A i \in 1..Len(Tail(t)) : Tail(t)[i] = t[i + 1]
  BY HeadTailProperties
<1>2. Append(s, Head(t)) \in Seq(S) /\ Len(Append(s, Head(t))) = Len(s) + 1
  BY <1>1, AppendProperties
<1>3. Len(Append(s, Head(t)) \o Tail(t)) = Len(s \o t)
      /\ Append(s, Head(t)) \o Tail(t) \in Seq(S) /\ s \o t \in Seq(S)
  BY <1>1, <1>2, ConcatProperties, LenProperties
<1>4. ASSUME NEW i \in 1..Len(s \o t)
      PROVE  (Append(s, Head(t)) \o Tail(t))[i] = (s \o t)[i]
  BY <1>1, <1>2
<1> QED BY <1>3, <1>4, SeqEqual

LEMMA ConcatHeadTail ==
  ASSUME NEW S, NEW s \in Seq(S), NEW t \in Seq(S), s # <<>>
  PROVE  Head(s \o t) = Head(s) /\ Tail(s \o t) = Tail(s) \o t /\ s \o t # <<>>
<1>1. s \o t \in Seq(S) /\ Len(s \o t) = Len(s) + Len(t) /\ s \o t # <<>>
  BY ConcatProperties, EmptySeq, LenProperties
<1>2. Tail(s) \in Seq(S) /\ Len(Tail(s)) = Len(s) - 1
      /\ \A i \in 1..Len(Tail(s)) : Tail(s)[i] = s[i + 1]
  BY HeadTailProperties
<1>3. Tail(s \o t) \in Seq(S) /\ Len(Tail(s \o t)) = Len(s) + Len(t) - 1
      /\ \A i \in 1..Len(Tail(s \o t)) : Tail(s \o t)[i] = (s \o t)[i + 1]
  BY <1>1, HeadTailProperties
<1>4. Tail(s) \o t \in Seq(S) /\ Len(Tail(s) \o t) = Len(s) - 1 + Len(t)
  BY <1>2, ConcatProperties, LenProperties
<1>5. ASSUME NEW i \in 1..Len(Tail(s \o t))
      PROVE  Tail(s \o t)[i] = (Tail(s) \o t)[i]
  BY <1>1, <1>2, <1>3, <1>4, LenProperties
<1>6. Head(s \o t) = Head(s)
  BY <1>1
<1> QED BY <1>1, <1>3, <1>4, <1>5, <1>6, SeqEqual, LenProperties

LEMMA ConcatAppend ==
  ASSUME NEW S, NEW s \in Seq(S), NEW t \in Seq(S), NEW e \in S
  PROVE  s \o Append(t, e) = Append(s \o t, e)
<1>1. Append(t, e) = t \o <<e>> /\ Append(s \o t, e) = (s \o t) \o <<e>> /\ <<e>> \in Seq(S)
  BY ConcatProperties, AppendIsConcat
<1> QED BY <1>1, ConcatAssociative

LEMMA OneElement ==
  ASSUME NEW S, NEW s \in Seq(S), s # <<>>, Len(s) =< 1
  PROVE  s = <<Head(s)>> /\ Tail(s) = <<>>
<1>0. Len(s) = 1
  <2>1. Len(s) \in Nat \ {0}
    BY EmptySeq
  <2> QED BY <2>1
<1>1. Head(s) \in S /\ <<Head(s)>> \in Seq(S) /\ Len(<<Head(s)>>) = 1
      /\ Tail(s) \in Seq(S) /\ Len(Tail(s)) = 0
  BY <1>0, HeadTailProperties
<1>2. s[1] = <<Head(s)>>[1]
  OBVIOUS
<1>3. s = <<Head(s)>>
  BY <1>0, <1>1, <1>2, SeqEqual
<1> QED BY <1>1, <1>3, EmptySeq

-----------------------------------------------------------------------------
(* The driver is told of its promotion at most once, and only when the     *)
(* mediator has promoted the device.                                       *)

IsPromotion(s, i) == s[i].type = "RolePromotedToLeader"

PromotionInv ==
  /\ d2mPc # "flow" => d2mIn = <<>> /\ d2mHand = <<>>
  /\ role = "leader" => promoted
  /\ \A i \in 1..Len(Incoming) : IsPromotion(Incoming, i) => promoted /\ role = "none"
  /\ \A i, j \in 1..Len(Incoming) :
       IsPromotion(Incoming, i) /\ IsPromotion(Incoming, j) => i = j

LEMMA DatagramsAssociative ==
  \A s, t, u \in Seq(Datagram) : s \o (t \o u) = (s \o t) \o u
<1> DEFINE S == Datagram
<1>1. \A s, t, u \in Seq(S) : s \o (t \o u) = (s \o t) \o u
  <2> HIDE DEF S
  <2> QED BY ConcatAssociative
<1> QED BY <1>1

LEMMA IncomingType ==
  ASSUME TypeInv
  PROVE  /\ Incoming \in Seq(Datagram) /\ d2mIn \in Seq(Datagram) /\ d2mHand \in Seq(Datagram)
         /\ d2mWire \in Seq(Datagram) /\ Len(Incoming) \in Nat
         /\ d2mHand = <<>> \/ d2mHand = <<Head(d2mHand)>>
<1>1. d2mIn \in Seq(Datagram) /\ d2mHand \in Seq(Datagram) /\ d2mWire \in Seq(Datagram)
  BY SeqMonotonic DEF TypeInv, TypeOK, WiringTypeOK, D2mTypeOK, Datagram
<1>2. Incoming \in Seq(Datagram)
  BY <1>1, ConcatProperties DEF Incoming
<1>3. d2mHand = <<>> \/ d2mHand = <<Head(d2mHand)>>
  BY <1>1, OneElement DEF TypeInv, TypeOK, D2mTypeOK
<1> QED BY <1>1, <1>2, <1>3, LenProperties

LEMMA PromotionInit == Init => PromotionInv
<1> SUFFICES ASSUME Init PROVE PromotionInv
  OBVIOUS
<1>1. d2mIn = <<>> /\ d2mHand = <<>> /\ d2mWire = <<>> /\ role = "none"
  BY DEF Init, WiringInit, D2mInit, MediatorInit, DriverInit
<1>2. Incoming = <<>>
  BY <1>1 DEF Incoming
<1> QED BY <1>1, <1>2 DEF PromotionInv

\* What keeps the invariant: payloads leave at the front, or arrive that are
\* no promotion.
LEMMA PromotionKept ==
  ASSUME TypeInv, PromotionInv, TypeInv',
         role' = role, promoted => promoted',
         d2mPc' # "flow" => d2mIn' = <<>> /\ d2mHand' = <<>>,
         \/ Incoming' = Incoming
         \/ Incoming # <<>> /\ Incoming' = Tail(Incoming)
         \/ \E more \in Seq(Datagram) :
               /\ Incoming' = Incoming \o more
               /\ \A i \in 1..Len(more) : ~IsPromotion(more, i)
  PROVE  PromotionInv'
<1>1. Incoming \in Seq(Datagram) /\ Len(Incoming) \in Nat
  BY IncomingType
<1>2. CASE Incoming' = Incoming
  BY <1>2 DEF PromotionInv, IsPromotion
<1>3. CASE Incoming # <<>> /\ Incoming' = Tail(Incoming)
  <2>1. Len(Incoming') = Len(Incoming) - 1
        /\ \A i \in 1..Len(Incoming') : Incoming'[i] = Incoming[i + 1] /\ i + 1 \in 1..Len(Incoming)
    BY <1>1, <1>3, HeadTailProperties
  <2>2. \A i \in 1..Len(Incoming') : IsPromotion(Incoming, i)' => IsPromotion(Incoming, i + 1)
    BY <2>1 DEF IsPromotion
  <2>3. \A i \in 1..Len(Incoming') : IsPromotion(Incoming, i)' => (promoted /\ role = "none")'
    BY <2>1, <2>2 DEF PromotionInv
  <2>4. \A i, j \in 1..Len(Incoming') :
          IsPromotion(Incoming, i)' /\ IsPromotion(Incoming, j)' => i = j
    <3> TAKE i, j \in 1..Len(Incoming')
    <3> HAVE IsPromotion(Incoming, i)' /\ IsPromotion(Incoming, j)'
    <3>1. i + 1 = j + 1
      BY <2>1, <2>2 DEF PromotionInv
    <3> QED BY <1>1, <2>1, <3>1
  <2> QED BY <2>3, <2>4 DEF PromotionInv
<1>4. ASSUME NEW more \in Seq(Datagram), Incoming' = Incoming \o more,
             \A i \in 1..Len(more) : ~IsPromotion(more, i)
      PROVE  PromotionInv'
  <2>1. Len(more) \in Nat /\ Len(Incoming') = Len(Incoming) + Len(more)
        /\ \A i \in 1..Len(Incoming') :
             Incoming'[i] = IF i =< Len(Incoming) THEN Incoming[i] ELSE more[i - Len(Incoming)]
    BY <1>1, <1>4, ConcatProperties, LenProperties
  <2>2. \A i \in 1..Len(Incoming') : IsPromotion(Incoming, i)' =>
          i \in 1..Len(Incoming) /\ IsPromotion(Incoming, i)
    <3> SUFFICES ASSUME NEW i \in 1..Len(Incoming'), Incoming'[i].type = "RolePromotedToLeader"
                 PROVE  i \in 1..Len(Incoming) /\ Incoming[i].type = "RolePromotedToLeader"
      BY DEF IsPromotion
    <3>1. CASE i =< Len(Incoming)
      BY <1>1, <2>1, <3>1
    <3>2. CASE ~(i =< Len(Incoming))
      <4>1. i - Len(Incoming) \in 1..Len(more) /\ Incoming'[i] = more[i - Len(Incoming)]
        BY <1>1, <2>1, <3>2
      <4> QED BY <1>4, <4>1 DEF IsPromotion
    <3> QED BY <3>1, <3>2
  <2> QED BY <2>2 DEF PromotionInv
<1> QED BY <1>2, <1>3, <1>4

\* What each step of the mediator connection does to the payloads on their way
\* to the driver.
LEMMA D2mMoves ==
  ASSUME TypeInv, PromotionInv
  PROVE  /\ D2mHandshake =>
              \/ Incoming' = Incoming
              \/ Incoming # <<>> /\ Head(Incoming) = Head(d2mWire) /\ Incoming' = Tail(Incoming)
         /\ D2mReceive \/ D2mForward => Incoming' = Incoming
         /\ D2mSend =>
              Incoming' = IF d2mLink = "closed" THEN Incoming ELSE Incoming \o Answers(Head(d2mOut))
         /\ D2mFlowEnds => Incoming' = Incoming
<1> USE IncomingType
<1>1. ASSUME D2mHandshake
      PROVE  \/ Incoming' = Incoming
             \/ Incoming # <<>> /\ Head(Incoming) = Head(d2mWire) /\ Incoming' = Tail(Incoming)
  <2>1. d2mIn = <<>> /\ d2mHand = <<>> /\ d2mIn' = <<>> /\ d2mHand' = <<>>
    BY <1>1 DEF D2mHandshake, PromotionInv, channels
  <2>2. Incoming = d2mWire /\ Incoming' = d2mWire'
    BY <2>1, ConcatEmptySeq DEF Incoming
  <2>3. CASE d2mPc = "hello" /\ d2mLink = "hello"
    <3>1. d2mWire = <<Plain("Handshake")>> /\ d2mWire' = Append(Tail(d2mWire), Plain("Handshake"))
      BY <1>1, <2>3 DEF D2mHandshake, TypeInv, D2mWireOK
    <3>2. Tail(d2mWire) = <<>> /\ Append(<<>>, Plain("Handshake")) = <<Plain("Handshake")>>
      BY <3>1
    <3> QED BY <2>2, <3>1, <3>2
  <2>4. CASE ~(d2mPc = "hello" /\ d2mLink = "hello")
    BY <1>1, <2>2, <2>4 DEF D2mHandshake
  <2> QED BY <2>3, <2>4
<1>2. ASSUME D2mReceive PROVE Incoming' = Incoming
  <2>1. /\ d2mWire # <<>> /\ d2mHand = <<>> /\ d2mHand' = <<Head(d2mWire)>>
        /\ d2mWire' = Tail(d2mWire) /\ d2mIn' = d2mIn
    BY <1>2 DEF D2mReceive, D2mTurn, channels
  <2>2. d2mIn' \o d2mHand' = Append(d2mIn, Head(d2mWire)) /\ d2mIn \o d2mHand = d2mIn
    BY <2>1, HeadTailProperties, AppendIsConcat, ConcatEmptySeq
  <2>3. Append(d2mIn, Head(d2mWire)) \o Tail(d2mWire) = d2mIn \o d2mWire
    BY <2>1, MoveHead
  <2> QED BY <2>1, <2>2, <2>3 DEF Incoming
<1>3. ASSUME D2mForward PROVE Incoming' = Incoming
  <2>1. /\ d2mHand # <<>> /\ d2mHand' = <<>> /\ d2mIn' = Append(d2mIn, Head(d2mHand))
        /\ d2mWire' = d2mWire
    BY <1>3 DEF D2mForward, mediator
  <2>2. d2mHand = <<Head(d2mHand)>> /\ Head(d2mHand) \in Datagram
    BY <2>1, HeadTailProperties
  <2>3. d2mIn \o <<Head(d2mHand)>> = Append(d2mIn, Head(d2mHand))
    BY <2>2, AppendIsConcat
  <2>4. d2mIn' \in Seq(Datagram) /\ d2mIn' \o <<>> = d2mIn'
    BY <2>1, <2>2, AppendProperties, ConcatEmptySeq
  <2> QED BY <2>1, <2>2, <2>3, <2>4 DEF Incoming
<1>4. ASSUME D2mSend
      PROVE  Incoming' = IF d2mLink = "closed" THEN Incoming ELSE Incoming \o Answers(Head(d2mOut))
  <2>1. d2mIn' = d2mIn /\ d2mHand' = d2mHand /\ d2mOut # <<>>
    BY <1>4 DEF D2mSend, d2m
  <2> DEFINE answer == Answers(Head(d2mOut))
  <2>2. answer \in Seq(Datagram)
    <3>1. answer \in Seq(D2mInPayload)
      BY <2>1, HeadTailProperties, AnswersType DEF TypeInv, TypeOK, WiringTypeOK
    <3> QED BY <3>1, SeqMonotonic DEF Datagram
  <2>3. CASE d2mLink = "closed"
    BY <1>4, <2>1, <2>3 DEF D2mSend, MediatorReceives, Incoming
  <2>4. CASE d2mLink # "closed"
    <3>1. d2mWire' = d2mWire \o answer
      BY <1>4, <2>4 DEF D2mSend, MediatorReceives
    <3> DEFINE before == d2mIn \o d2mHand
    <3> HIDE DEF answer
    <3>2. before \in Seq(Datagram)
      BY ConcatProperties
    <3> HIDE DEF before
    <3>3. before \o (d2mWire \o answer) = (before \o d2mWire) \o answer
      <4>1. d2mWire \in Seq(Datagram)
        OBVIOUS
      <4> QED BY <2>2, <3>2, <4>1, DatagramsAssociative, ZenonT(30)
    <3>4. Incoming' = Incoming \o answer
      BY <2>1, <3>1, <3>3 DEF Incoming, before
    <3> QED BY <2>4, <3>4 DEF answer
  <2> QED BY <2>3, <2>4
<1>5. ASSUME D2mFlowEnds PROVE Incoming' = Incoming
  BY <1>5 DEF D2mFlowEnds, d2m, mediator, Incoming
<1> QED BY <1>1, <1>2, <1>3, <1>4, <1>5

LEMMA PromotionD2m ==
  ASSUME TypeInv, TypeInv', PromotionInv, D2mRuns
  PROVE  PromotionInv'
<1>1. role' = role
  BY DEF D2mRuns, driver
<1>2. CASE D2mHandshake
  <2>1. d2mIn' = <<>> /\ d2mHand' = <<>> /\ promoted' = promoted
    BY <1>2 DEF D2mHandshake, PromotionInv, channels
  <2> QED BY <1>1, <1>2, <2>1, D2mMoves, PromotionKept
<1>3. CASE D2mReceive \/ D2mForward
  <2>1. promoted' = promoted /\ d2mPc' = d2mPc /\ d2mPc = "flow"
    BY <1>3 DEF D2mReceive, D2mForward, D2mTurn, mediator, PromotionInv
  <2> QED BY <1>1, <1>3, <2>1, D2mMoves, PromotionKept
<1>4. CASE D2mSend
  <2>1. d2mPc' = d2mPc /\ promoted' = promoted /\ d2mOut # <<>> /\ d2mPc = "flow"
    BY <1>4 DEF D2mSend, MediatorReceives, d2m, D2mTurn
  <2> DEFINE answer == Answers(Head(d2mOut))
  <2>2. answer \in Seq(Datagram)
    <3>1. answer \in Seq(D2mInPayload)
      BY <2>1, HeadTailProperties, AnswersType DEF TypeInv, TypeOK, WiringTypeOK
    <3> QED BY <3>1, SeqMonotonic DEF Datagram
  <2>3. \A i \in 1..Len(answer) : ~IsPromotion(answer, i)
    BY DEF Answers, Plain, IsPromotion
  <2> HIDE DEF answer
  <2>4. Incoming' = Incoming \/ Incoming' = Incoming \o answer
    BY <1>4, D2mMoves DEF answer
  <2> QED BY <1>1, <2>1, <2>2, <2>3, <2>4, PromotionKept
<1>5. CASE D2mFlowEnds
  <2>1. d2mPc = "flow" /\ d2mPc' = d2mPc /\ promoted' = promoted
    BY <1>5 DEF D2mFlowEnds, D2mTurn, d2m, mediator
  <2> QED BY <1>1, <1>5, <2>1, D2mMoves, PromotionKept
<1> QED BY <1>2, <1>3, <1>4, <1>5 DEF D2mRuns, D2mNext

\* The front of what is on its way is what the driver takes.
LEMMA TakenFromIncoming ==
  ASSUME TypeInv, d2mIn # <<>>, d2mIn' = Tail(d2mIn), UNCHANGED <<d2m, mediator>>
  PROVE  Incoming # <<>> /\ Head(Incoming) = Head(d2mIn) /\ Incoming' = Tail(Incoming)
<1>1. /\ d2mIn \in Seq(Datagram) /\ d2mHand \in Seq(Datagram) /\ d2mWire \in Seq(Datagram)
      /\ d2mHand' = d2mHand /\ d2mWire' = d2mWire
  BY IncomingType DEF d2m, mediator
<1> DEFINE before == d2mIn \o d2mHand
<1>2. before \in Seq(Datagram)
  BY <1>1, ConcatProperties
<1>3. before # <<>> /\ Head(before) = Head(d2mIn) /\ Tail(before) = Tail(d2mIn) \o d2mHand
  BY <1>1, ConcatHeadTail
<1>4. before' = Tail(before)
  BY <1>1, <1>3
<1> HIDE DEF before
<1>5. /\ before \o d2mWire # <<>> /\ Head(before \o d2mWire) = Head(before)
      /\ Tail(before \o d2mWire) = Tail(before) \o d2mWire
  BY SMTT(30), <1>1, <1>2, <1>3, ConcatHeadTail
<1> QED BY <1>1, <1>3, <1>4, <1>5 DEF Incoming, before

LEMMA PromotionDriver ==
  ASSUME TypeInv, TypeInv', PromotionInv, DriverRuns
  PROVE  PromotionInv'
<1>1. UNCHANGED <<d2m, mediator>>
  BY DEF DriverRuns
<1>2. promoted' = promoted /\ d2mPc' = d2mPc /\ d2mHand' = d2mHand /\ d2mWire' = d2mWire
  BY <1>1 DEF d2m, mediator
<1>3. CASE d2mIn' = d2mIn /\ role' = role
  <2>1. Incoming' = Incoming
    BY <1>2, <1>3 DEF Incoming
  <2> QED BY <1>2, <1>3, <2>1, PromotionKept DEF PromotionInv
<1>4. CASE OnD2m
  <2>1. Listens /\ d2mIn # <<>> /\ d2mIn' = Tail(d2mIn)
    BY <1>4 DEF OnD2m, OnBeginReply, OnTransactionEnded, OnCommitAck, OnReflectAck,
                OnPromotion, OnReflected, DropUnsolicited, Receives
  <2>2. Incoming # <<>> /\ Head(Incoming) = Head(d2mIn) /\ Incoming' = Tail(Incoming)
    BY <1>1, <2>1, TakenFromIncoming
  <2>3. d2mPc' # "flow" => d2mIn' = <<>> /\ d2mHand' = <<>>
    BY <1>2, <2>1 DEF PromotionInv
  <2>4. CASE OnPromotion
    <3>1. role' = "leader" /\ IsPromotion(Incoming, 1)
      BY <2>2, <2>4 DEF OnPromotion, Receives, IsPromotion
    <3>2. Len(Incoming) \in Nat \ {0} /\ Incoming \in Seq(Datagram)
      BY <2>2, IncomingType, EmptySeq
    <3>3. promoted
      BY <3>1, <3>2 DEF PromotionInv
    <3>4. Len(Incoming') = Len(Incoming) - 1
          /\ \A i \in 1..Len(Incoming') : Incoming'[i] = Incoming[i + 1] /\ i + 1 \in 1..Len(Incoming)
      BY <2>2, <3>2, HeadTailProperties
    <3>5. \A i \in 1..Len(Incoming') : ~IsPromotion(Incoming, i)'
      BY <3>1, <3>2, <3>4 DEF PromotionInv, IsPromotion
    <3> QED BY <1>2, <2>3, <3>1, <3>3, <3>5 DEF PromotionInv
  <2>5. CASE role' = role
    BY <1>2, <2>2, <2>3, <2>5, PromotionKept
  <2> QED BY <1>4, <2>4, <2>5
      DEF OnD2m, OnBeginReply, OnTransactionEnded, OnCommitAck, OnReflectAck,
          OnReflected, DropUnsolicited, driver
<1>5. CASE SendCsp \/ SendD2m \/ TakeCspPayload \/ Polling \/ SenderFetched \/ ReflectReturns
  <2>1. d2mIn' = d2mIn /\ role' = role
    BY <1>5 DEF SendCsp, SendD2m, TakeCspPayload, Polling, SenderFetched, ReflectReturns, channels,
         PollFetchSender, PollBeginTransaction, PollTransactionRejected, PollAbortTransaction,
         PollReflectAndCommit, PollReflectMessage, PollDone
  <2> QED BY <1>3, <2>1
<1> QED BY <1>4, <1>5 DEF DriverRuns, DriverNext

\* What the mediator sends is the last.
LEMMA SentLast ==
  ASSUME TypeInv, NEW p \in Datagram, d2mWire' = Append(d2mWire, p),
         d2mIn' = d2mIn, d2mHand' = d2mHand
  PROVE  Incoming' = Append(Incoming, p)
<1> DEFINE before == d2mIn \o d2mHand
<1>1. before \in Seq(Datagram) /\ d2mWire \in Seq(Datagram) /\ before' = before
  BY IncomingType, ConcatProperties
<1> HIDE DEF before
<1>2. before \o Append(d2mWire, p) = Append(before \o d2mWire, p)
  BY <1>1, ConcatAppend
<1> QED BY <1>1, <1>2 DEF Incoming, before

LEMMA PromotionMediator ==
  ASSUME TypeInv, TypeInv', PromotionInv, MediatorActs
  PROVE  PromotionInv'
<1>1. d2mIn' = d2mIn /\ d2mHand' = d2mHand /\ d2mPc' = d2mPc /\ role' = role
  BY DEF MediatorActs, channels, d2m, driver
<1>2. d2mPc' # "flow" => d2mIn' = <<>> /\ d2mHand' = <<>>
  BY <1>1 DEF PromotionInv
<1>3. ASSUME NEW p \in Datagram, Sends(p)
      PROVE  Incoming' = Append(Incoming, p) /\ Incoming' = Incoming \o <<p>>
  BY <1>1, <1>3, SentLast, IncomingType, AppendIsConcat DEF Sends
<1>4. CASE MediatorPromotes
  <2> DEFINE p == Plain("RolePromotedToLeader")
  <2>1. p \in Datagram /\ ~promoted /\ promoted' /\ Sends(p)
    BY <1>4 DEF MediatorPromotes, Plain, Datagram, D2mInPayload
  <2> HIDE DEF p
  <2>2. Incoming' = Append(Incoming, p) /\ Incoming \in Seq(Datagram) /\ Len(Incoming) \in Nat
    BY <1>3, <2>1, IncomingType
  <2>3. /\ Len(Incoming') = Len(Incoming) + 1
        /\ \A i \in 1..Len(Incoming) : Incoming'[i] = Incoming[i]
    BY <2>1, <2>2, AppendProperties
  <2>4. \A i \in 1..Len(Incoming) : ~IsPromotion(Incoming, i)
    BY <2>1 DEF PromotionInv
  <2>5. \A i \in 1..Len(Incoming') : IsPromotion(Incoming, i)' => i = Len(Incoming')
    BY <2>2, <2>3, <2>4 DEF IsPromotion
  <2>6. role = "none"
    BY <2>1 DEF PromotionInv, TypeInv, TypeOK, DriverTypeOK
  <2> QED BY <1>1, <1>2, <2>1, <2>5, <2>6 DEF PromotionInv
<1>5. CASE MediatorReflects
  <2> DEFINE p == [type |-> "Reflected", id |-> reflected + 1]
  <2>1. p \in Datagram
    BY MediatorAssumption DEF TypeInv, TypeOK, D2mTypeOK, Datagram, D2mInPayload
  <2>2. Sends(p) /\ promoted' = promoted /\ p.type # "RolePromotedToLeader"
    BY <1>5 DEF MediatorReflects
  <2> HIDE DEF p
  <2>3. <<p>> \in Seq(Datagram) /\ \A i \in 1..Len(<<p>>) : ~IsPromotion(<<p>>, i)
    BY <2>1, <2>2 DEF IsPromotion
  <2> QED BY <1>1, <1>2, <1>3, <2>1, <2>2, <2>3, PromotionKept
<1>6. CASE SiblingEnds
  <2> DEFINE p == Plain("TransactionEnded")
  <2>1. p \in Datagram /\ Sends(p) /\ promoted' = promoted /\ p.type # "RolePromotedToLeader"
    BY <1>6 DEF SiblingEnds, Plain, Datagram, D2mInPayload
  <2> HIDE DEF p
  <2>3. <<p>> \in Seq(Datagram) /\ \A i \in 1..Len(<<p>>) : ~IsPromotion(<<p>>, i)
    BY <2>1 DEF IsPromotion
  <2> QED BY <1>1, <1>2, <1>3, <2>1, <2>3, PromotionKept
<1>7. CASE SiblingBegins \/ MediatorCloses
  <2>1. d2mWire' = d2mWire /\ promoted' = promoted
    BY <1>7 DEF SiblingBegins, MediatorCloses
  <2>2. Incoming' = Incoming
    BY <1>1, <2>1 DEF Incoming
  <2> QED BY <1>1, <1>2, <2>1, <2>2, PromotionKept
<1>8. CASE MediatorRunsDry
  <2> DEFINE p == Plain("ReflectionQueueDry")
  <2>1. p \in Datagram /\ Sends(p) /\ promoted' = promoted /\ p.type # "RolePromotedToLeader"
    BY <1>8 DEF MediatorRunsDry, Plain, Datagram, D2mInPayload
  <2> HIDE DEF p
  <2>3. <<p>> \in Seq(Datagram) /\ \A i \in 1..Len(<<p>>) : ~IsPromotion(<<p>>, i)
    BY <2>1 DEF IsPromotion
  <2> QED BY <1>1, <1>2, <1>3, <2>1, <2>3, PromotionKept
<1> QED BY <1>4, <1>5, <1>6, <1>7, <1>8 DEF MediatorActs

LEMMA PromotionElsewhere ==
  ASSUME TypeInv, TypeInv', PromotionInv,
         \/ CspRuns \/ ChatServerActs \/ ConnectFails \/ ConnectCsp \/ ConnectD2m
         \/ TakeSendText \/ RunEnds \/ DropSender \/ UNCHANGED vars
         \/ \E command \in {"SendText", "Shutdown"} : Command(command)
  PROVE  PromotionInv'
<1>1. CASE ConnectD2m
  <2>1. /\ d2mIn' = <<>> /\ d2mHand' = <<>> /\ role' = role /\ promoted' = promoted
        /\ d2mIn = <<>> /\ d2mHand = <<>>
    BY <1>1 DEF ConnectD2m, D2mConnect, channels, driver, PromotionInv
  <2>2. d2mWire = <<>>
    BY <1>1 DEF ConnectD2m, D2mConnect, TypeInv, D2mWireOK
  <2>3. Incoming = <<>> /\ Incoming' = d2mWire'
    BY <2>1, <2>2, IncomingType, ConcatEmptySeq DEF Incoming
  <2>4. d2mWire' \in {<<>>, <<Plain("Handshake")>>}
    BY <1>1 DEF ConnectD2m, D2mConnect, TypeInv, D2mWireOK
  <2>5. \A i \in 1..Len(Incoming') : ~IsPromotion(Incoming, i)'
    BY <2>3, <2>4 DEF IsPromotion, Plain
  <2> QED BY <2>1, <2>5 DEF PromotionInv
<1>2. CASE ~ConnectD2m
  <2>1. UNCHANGED <<d2mIn, d2m, mediator, role>>
    BY <1>2 DEF CspRuns, CspNext, CspStart, CspHandshake, CspPoll, CspForward, CspRead, CspSend,
         ChatServerActs, ConnectFails, ConnectCsp, TakeSendText, RunEnds, DropSender, Command,
         channels, driver, vars
  <2> QED BY <2>1, PromotionKept DEF PromotionInv, Incoming, d2m, mediator
<1> QED BY <1>1, <1>2

LEMMA PromotionStep == TypeInv /\ TypeInv' /\ PromotionInv /\ [Next]_vars => PromotionInv'
BY PromotionD2m, PromotionDriver, PromotionMediator, PromotionElsewhere DEF Next

\* The driver learns of the promotion once, from the mediator
\* (handle_unsolicited_d2m, e2e.rs:185-187).
THEOREM PromotedOnce == Spec => []PromotionInv
BY PromotionInit, TypesInvariant, PromotionStep, PTL DEF Spec

-----------------------------------------------------------------------------
(* What each step does to the payloads between driver and chat server.     *)

LEMMA ChainTypes ==
  ASSUME TypeInv
  PROVE  /\ cspOut \in Seq(CspOutPayload) /\ outCsp \in Seq(CspOutPayload)
         /\ Replies \in Seq(CspOutPayload) /\ Len(Replies) = Len(cspOut) + Len(outCsp)
         /\ cspIn \in Seq(CspInPayload) /\ cspHand \in Seq(CspInPayload)
         /\ Handed \in Seq(CspInPayload) /\ Len(Handed) = Len(cspIn) + Len(cspHand)
         /\ cspBuf \in Seq(Frame) /\ cspWire \in Seq(Frame) /\ Frames \in Seq(Frame)
         /\ Len(Replies) \in Nat /\ Len(Handed) \in Nat /\ Len(Frames) \in Nat
         /\ acks \in Seq(0..Total) /\ Len(acks) \in Nat /\ sent \in Nat /\ task \in Nat
<1>1. /\ cspOut \in Seq(CspOutPayload) /\ outCsp \in Seq(CspOutPayload)
      /\ cspIn \in Seq(CspInPayload) /\ cspHand \in Seq(CspInPayload)
      /\ cspBuf \in Seq(Frame) /\ cspWire \in Seq(Frame)
      /\ acks \in Seq(0..Total) /\ sent \in Nat /\ task \in Nat
  BY MessageAssumption DEF TypeInv, TypeOK, WiringTypeOK, DriverTypeOK, CspTypeOK
<1>2. Replies \in Seq(CspOutPayload) /\ Len(Replies) = Len(cspOut) + Len(outCsp)
  BY <1>1, ConcatProperties DEF Replies
<1>3. Handed \in Seq(CspInPayload) /\ Len(Handed) = Len(cspIn) + Len(cspHand)
  BY <1>1, ConcatProperties DEF Handed
<1>4. Frames \in Seq(Frame)
  BY <1>1, ConcatProperties DEF Frames
<1> QED BY <1>1, <1>2, <1>3, <1>4, LenProperties

\* A payload leaves the driver's outbox for the channel, or the hand for it.
LEMMA SendMoves ==
  ASSUME TypeInv
  PROVE  /\ SendCsp => Replies' = Replies
         /\ CspForward => Handed' = Handed
<1>1. ASSUME SendCsp PROVE Replies' = Replies
  <2>1. outCsp # <<>> /\ cspOut' = Append(cspOut, Head(outCsp)) /\ outCsp' = Tail(outCsp)
    BY <1>1 DEF SendCsp
  <2> QED BY <2>1, ChainTypes, MoveHead DEF Replies
<1>2. ASSUME CspForward PROVE Handed' = Handed
  <2>1. cspHand # <<>> /\ cspIn' = Append(cspIn, Head(cspHand)) /\ cspHand' = <<>>
    BY <1>2 DEF CspForward
  <2>2. Tail(cspHand) = <<>>
    BY SMTT(30), <2>1, OneElement DEF TypeInv, TypeOK, CspTypeOK
  <2> QED BY <2>1, <2>2, ChainTypes, MoveHead DEF Handed
<1> QED BY <1>1, <1>2

LEMMA ReadMoves ==
  ASSUME TypeInv, CspRead
  PROVE  Frames' = Frames
<1>1. PICK k \in 1..ReadMax :
        /\ k =< Len(cspWire)
        /\ cspBuf' = SubSeq(cspWire, 1, k) /\ cspWire' = SubSeq(cspWire, k + 1, Len(cspWire))
  BY DEF CspRead
<1>2. cspBuf = <<>> /\ cspWire \in Seq(Frame) /\ Len(cspWire) \in Nat /\ k \in Nat \ {0}
  BY ChainTypes, ReadAssumption, LenProperties DEF CspRead
<1>3. SubSeq(cspWire, 1, k) \o SubSeq(cspWire, k + 1, Len(cspWire))
        = SubSeq(cspWire, 1, Len(cspWire))
  BY <1>1, <1>2, ConcatAdjacentSubSeq
<1>4. SubSeq(cspWire, 1, Len(cspWire)) = cspWire /\ <<>> \o cspWire = cspWire
  BY <1>2, SubSeqFull, ConcatEmptySeq
<1> QED BY <1>1, <1>2, <1>3, <1>4 DEF Frames

\* The connection takes the next frame, and hands a message or ack on.
LEMMA PollMoves ==
  ASSUME TypeInv, CspPoll
  PROVE  /\ Frames # <<>> /\ Frames' = Tail(Frames) /\ Head(Frames) \in Frame
         /\ \/ /\ Head(Frames) \in CspInPayload /\ Head(Frames).type \in {"Message", "MessageAck"}
               /\ Handed' = Append(Handed, Head(Frames))
            \/ Head(Frames).type \notin {"Message", "MessageAck"} /\ Handed' = Handed
<1>1. /\ cspBuf # <<>> /\ cspHand = <<>> /\ cspBuf' = Tail(cspBuf) /\ cspWire' = cspWire
      /\ cspIn' = cspIn
      /\ cspHand' = IF Head(cspBuf).type \in {"Message", "MessageAck"}
                    THEN <<Head(cspBuf)>> ELSE <<>>
  BY DEF CspPoll, CspTurn, chatServer, channels
<1>2. Frames # <<>> /\ Head(Frames) = Head(cspBuf) /\ Frames' = Tail(Frames)
  BY <1>1, ChainTypes, ConcatHeadTail DEF Frames
<1>3. Head(Frames) \in Frame
  BY <1>2, ChainTypes, HeadTailProperties
<1>4. CASE Head(cspBuf).type \in {"Message", "MessageAck"}
  <2>1. Head(cspBuf) \in CspInPayload
    BY <1>2, <1>3, <1>4 DEF Frame, CspInPayload
  <2>2. Handed = cspIn /\ Handed' = cspIn \o <<Head(cspBuf)>>
    BY <1>1, <1>4, ChainTypes, ConcatEmptySeq DEF Handed
  <2>3. cspIn \o <<Head(cspBuf)>> = Append(cspIn, Head(cspBuf))
    BY <2>1, ChainTypes, AppendIsConcat
  <2> QED BY <1>2, <1>3, <1>4, <2>1, <2>2, <2>3
<1>5. CASE Head(cspBuf).type \notin {"Message", "MessageAck"}
  BY <1>1, <1>2, <1>3, <1>5 DEF Handed
<1> QED BY <1>4, <1>5

\* The ends of the chains: the socket on one side, the driver on the other.
LEMMA EndMoves ==
  ASSUME TypeInv
  PROVE  /\ CspSend /\ outCsp' = outCsp =>
              Replies # <<>> /\ Head(Replies) = Head(cspOut) /\ Replies' = Tail(Replies)
         /\ TakeCspPayload /\ cspHand' = cspHand =>
              Handed # <<>> /\ Head(Handed) = Head(cspIn) /\ Handed' = Tail(Handed)
<1>1. ASSUME CspSend, outCsp' = outCsp
      PROVE  Replies # <<>> /\ Head(Replies) = Head(cspOut) /\ Replies' = Tail(Replies)
  <2>1. cspOut # <<>> /\ cspOut' = Tail(cspOut)
    BY <1>1 DEF CspSend
  <2> QED BY <1>1, <2>1, ChainTypes, ConcatHeadTail DEF Replies
<1>2. ASSUME TakeCspPayload, cspHand' = cspHand
      PROVE  Handed # <<>> /\ Head(Handed) = Head(cspIn) /\ Handed' = Tail(Handed)
  <2>1. cspIn # <<>> /\ cspIn' = Tail(cspIn)
    BY <1>2 DEF TakeCspPayload
  <2> QED BY <1>2, <2>1, ChainTypes, ConcatHeadTail DEF Handed
<1> QED BY <1>1, <1>2

\* The driver puts one payload into its empty outbox.
LEMMA ReplyMoves ==
  ASSUME TypeInv, outCsp = <<>>, cspOut' = cspOut,
         NEW p \in CspOutPayload, outCsp' = <<p>>
  PROVE  Replies' = Append(Replies, p)
<1>1. Replies = cspOut /\ Replies' = cspOut \o <<p>>
  BY ChainTypes, ConcatEmptySeq DEF Replies
<1> QED BY <1>1, ChainTypes, AppendIsConcat

\* A frame the server sends is the last.
LEMMA FrameMoves ==
  ASSUME TypeInv, cspBuf' = cspBuf, NEW f \in Frame, cspWire' = Append(cspWire, f)
  PROVE  Frames' = Append(Frames, f)
<1>1. cspBuf \in Seq(Frame) /\ cspWire \in Seq(Frame)
  BY ChainTypes
<1>2. cspBuf \o Append(cspWire, f) = Append(cspBuf \o cspWire, f)
  BY <1>1, ConcatAppend
<1> QED BY <1>2 DEF Frames

-----------------------------------------------------------------------------
(* Before the client has unblocked the queue nothing flows: the handshake  *)
(* on the wire, one unblock-incoming-messages at most on its way back.     *)

QueueInv ==
  /\ cspPc # "flow" => cspBuf = <<>> /\ ~unblocked
  /\ role = "none" => ~unblocked /\ Replies = <<>>
  /\ ~unblocked =>
       /\ task = 0 /\ Handed = <<>> /\ Len(Replies) =< 1
       /\ \A i \in 1..Len(Replies) : Replies[i].type = "UnblockIncomingMessages"
       /\ \A i \in 1..Len(Frames) : Frames[i].type = "Handshake"
  /\ unblocked => \A i \in 1..Len(Replies) : Replies[i].type = "MessageAck"

\* And the server has sent and been sent nothing.
UnblockInv == QueueInv /\ (~unblocked => sent = 0 /\ acks = <<>>)

LEMMA QueueInit == Init => QueueInv
<1> SUFFICES ASSUME Init PROVE QueueInv
  OBVIOUS
<1>1. /\ cspBuf = <<>> /\ cspWire = <<>> /\ cspHand = <<>> /\ cspIn = <<>> /\ cspOut = <<>>
      /\ outCsp = <<>> /\ ~unblocked /\ sent = 0 /\ acks = <<>> /\ task = 0
  BY DEF Init, WiringInit, CspInit, ServerInit, DriverInit
<1>2. Replies = <<>> /\ Handed = <<>> /\ Frames = <<>>
  BY <1>1 DEF Replies, Handed, Frames
<1> QED BY <1>1, <1>2 DEF QueueInv

\* The chat connection's handshake.
LEMMA QueueHandshake ==
  ASSUME TypeInv, QueueInv, CspRuns, CspStart \/ CspHandshake
  PROVE  QueueInv'
<1>1. /\ cspPc # "flow" /\ cspBuf = <<>> /\ ~unblocked
      /\ UNCHANGED <<cspBuf, cspHand, unblocked, sent, acks, cspIn, cspOut, outCsp, task, role>>
  BY DEF CspStart, CspHandshake, CspRuns, QueueInv, channels, driver
<1>2. Replies' = Replies /\ Handed' = Handed /\ Frames = cspWire /\ Frames' = cspWire'
  BY <1>1, ChainTypes, ConcatEmptySeq DEF Replies, Handed, Frames, CspStart, CspHandshake
<1>3. \A i \in 1..Len(cspWire) : cspWire[i].type = "Handshake"
  BY <1>1, <1>2 DEF QueueInv
<1>4. \A i \in 1..Len(cspWire') : cspWire'[i].type = "Handshake"
  <2>1. ASSUME NEW w \in Seq(Frame), \A i \in 1..Len(w) : w[i].type = "Handshake"
        PROVE  \A i \in 1..Len(w \o ServerReply) : (w \o ServerReply)[i].type = "Handshake"
    <3>1. CASE ServerReply = <<>>
      BY <2>1, <3>1, ConcatEmptySeq
    <3>2. CASE ServerReply = <<Handshake>>
      <4>1. w \o <<Handshake>> = Append(w, Handshake) /\ Handshake \in Frame
        BY <2>1, AppendIsConcat DEF Handshake, Frame
      <4>2. \A i \in 1..Len(Append(w, Handshake)) : Append(w, Handshake)[i].type = "Handshake"
        BY <2>1, <4>1, AppendProperties, LenProperties DEF Handshake
      <4> QED BY <3>2, <4>1, <4>2
    <3> QED BY <3>1, <3>2 DEF ServerReply
  <2>2. CASE CspStart
    BY <1>3, <2>1, <2>2, ChainTypes DEF CspStart
  <2>3. CASE CspHandshake
    <3>1. /\ Tail(cspWire) \in Seq(Frame)
          /\ \A i \in 1..Len(Tail(cspWire)) : Tail(cspWire)[i].type = "Handshake"
      BY <1>3, <2>3, ChainTypes, HeadTailProperties, LenProperties DEF CspHandshake
    <3>2. /\ \A i \in 1..Len(Tail(cspWire) \o ServerReply) :
                 (Tail(cspWire) \o ServerReply)[i].type = "Handshake"
      BY <2>1, <3>1
    <3>3. cspWire' = Tail(cspWire) \/ cspWire' = Tail(cspWire) \o ServerReply
      BY <2>3 DEF CspHandshake
    <3> QED BY <3>1, <3>2, <3>3
  <2> QED BY <2>2, <2>3
<1> QED BY <1>1, <1>2, <1>4 DEF QueueInv

\* Payloads that leave at the front.
LEMMA TailKeeps ==
  ASSUME NEW S, NEW s \in Seq(S), s # <<>>, NEW type,
         \A i \in 1..Len(s) : s[i].type = type
  PROVE  \A i \in 1..Len(Tail(s)) : Tail(s)[i].type = type
BY HeadTailProperties, LenProperties

\* A payload that joins at the end.
LEMMA AppendKeeps ==
  ASSUME NEW S, NEW s \in Seq(S), NEW e \in S, NEW type, e.type = type,
         \A i \in 1..Len(s) : s[i].type = type
  PROVE  \A i \in 1..Len(Append(s, e)) : Append(s, e)[i].type = type
BY AppendProperties, LenProperties

LEMMA QueueCsp ==
  ASSUME TypeInv, QueueInv, CspRuns, CspPoll \/ CspForward \/ CspRead
  PROVE  QueueInv'
<1>1. /\ UNCHANGED <<cspPc, unblocked, sent, acks, cspOut, outCsp, task, role>>
      /\ cspPc' # "flow" => cspBuf' = cspBuf
  BY DEF CspPoll, CspForward, CspRead, CspTurn, CspRuns, channels, driver, chatServer
<1>2. Replies' = Replies
  BY <1>1 DEF Replies
<1>3. ~unblocked => Handed' = Handed
  <2> SUFFICES ASSUME ~unblocked PROVE Handed' = Handed
    OBVIOUS
  <2>1. CASE CspPoll
    <3>1. Frames # <<>> /\ Head(Frames).type = "Handshake"
      <4>1. Frames # <<>> /\ 1 \in 1..Len(Frames)
        BY <2>1, PollMoves, ChainTypes, EmptySeq
      <4> QED BY <4>1 DEF QueueInv
    <3> QED BY <2>1, <3>1, PollMoves
  <2>2. CASE CspForward
    BY <2>2, SendMoves
  <2>3. CASE CspRead
    BY <2>3 DEF CspRead, Handed, channels
  <2> QED BY <2>1, <2>2, <2>3
<1>4. ~unblocked => \A i \in 1..Len(Frames') : Frames'[i].type = "Handshake"
  <2>1. CASE CspPoll
    <3> SUFFICES ASSUME ~unblocked
                 PROVE  \A i \in 1..Len(Frames') : Frames'[i].type = "Handshake"
      OBVIOUS
    <3>1. Frames \in Seq(Frame) /\ Frames # <<>> /\ Frames' = Tail(Frames)
      BY <2>1, PollMoves, ChainTypes
    <3>2. \A i \in 1..Len(Frames) : Frames[i].type = "Handshake"
      BY DEF QueueInv
    <3> QED BY <3>1, <3>2, TailKeeps
  <2>2. CASE CspForward
    BY <2>2 DEF CspForward, chatServer, Frames, QueueInv
  <2>3. CASE CspRead
    BY <2>3, ReadMoves DEF QueueInv
  <2> QED BY <2>1, <2>2, <2>3
<1> QED BY <1>1, <1>2, <1>3, <1>4 DEF QueueInv

\* The socket takes the unblock, or an ack, off the driver's channel.
LEMMA QueueSend ==
  ASSUME TypeInv, QueueInv, CspRuns, CspSend
  PROVE  QueueInv'
<1>1. /\ UNCHANGED <<cspPc, cspBuf, cspHand, cspIn, outCsp, task, role, sent, cspWire>>
      /\ cspPc = "flow"
  BY DEF CspSend, CspTurn, CspRuns, ServerReceives, csp, driver
<1>2. Replies # <<>> /\ Head(Replies) = Head(cspOut) /\ Replies' = Tail(Replies)
  BY <1>1, EndMoves
<1>3. /\ Replies \in Seq(CspOutPayload) /\ Len(Replies) \in Nat \ {0} /\ Head(Replies) = Replies[1]
      /\ Len(Replies') = Len(Replies) - 1 /\ 1 \in 1..Len(Replies)
  BY <1>2, ChainTypes, EmptySeq, HeadTailProperties
<1>4. Handed' = Handed /\ Frames' = Frames
  BY <1>1 DEF Handed, Frames
<1>5. role # "none"
  BY <1>2 DEF QueueInv
<1>6. CASE unblocked
  <2>1. unblocked'
    BY <1>6 DEF CspSend, ServerReceives
  <2>2. \A i \in 1..Len(Replies') : Replies'[i].type = "MessageAck"
    BY <1>2, <1>3, <1>6, TailKeeps DEF QueueInv
  <2> QED BY <1>1, <1>5, <2>1, <2>2 DEF QueueInv
<1>7. CASE ~unblocked
  <2>1. Head(cspOut).type = "UnblockIncomingMessages" /\ Len(Replies') = 0
    BY <1>2, <1>3, <1>7 DEF QueueInv
  <2>2. acks' = acks
    BY <2>1 DEF CspSend, ServerReceives
  <2> QED BY <1>1, <1>4, <1>5, <1>7, <2>1, <2>2 DEF QueueInv
<1> QED BY <1>6, <1>7

LEMMA QueueServer ==
  ASSUME TypeInv, QueueInv, ChatServerActs
  PROVE  QueueInv'
<1>1. UNCHANGED <<csp, cspIn, cspOut, outCsp, task, role, unblocked, acks>>
  BY DEF ChatServerActs, channels, driver, ServerSendsMessage, ServerSendsExtra, ServerEnds
<1>2. Replies' = Replies /\ Handed' = Handed
  BY <1>1 DEF Replies, Handed, csp
<1>3. CASE unblocked
  BY <1>1, <1>2, <1>3 DEF QueueInv, csp
<1>4. CASE ~unblocked
  <2>1. sent' = sent /\ cspWire' = cspWire
    BY <1>4 DEF ChatServerActs, ServerSendsMessage, ServerSendsExtra, ServerEnds
  <2>2. Frames' = Frames
    BY <1>1, <2>1 DEF Frames, csp
  <2> QED BY <1>1, <1>2, <1>4, <2>1, <2>2 DEF QueueInv, csp
<1> QED BY <1>3, <1>4

LEMMA QueueDriver ==
  ASSUME TypeInv, PromotionInv, QueueInv, DriverRuns
  PROVE  QueueInv'
<1>1. UNCHANGED <<cspPc, cspBuf, cspHand, cspWire, unblocked, sent, acks>>
  BY DEF DriverRuns, csp, chatServer
<1>2. Frames' = Frames
  BY <1>1 DEF Frames
<1>3. CASE SendCsp
  <2>1. Replies' = Replies /\ UNCHANGED <<cspIn, task, role>>
    BY <1>3, SendMoves DEF SendCsp
  <2> QED BY <1>1, <1>2, <2>1 DEF QueueInv, Handed
<1>4. CASE TakeCspPayload
  <2>1. Handed # <<>> /\ UNCHANGED <<cspOut, outCsp, role>>
    BY <1>1, <1>4, EndMoves DEF TakeCspPayload
  <2>2. unblocked
    BY <2>1 DEF QueueInv
  <2> QED BY <1>1, <2>1, <2>2 DEF QueueInv, Replies
<1>5. CASE PollDone
  <2>1. unblocked
    <3>1. e2ePc # "idle"
      BY <1>5 DEF PollDone
    <3> QED BY <3>1 DEF QueueInv, TypeInv, TypeOK, DriverTypeOK
  <2>2. outCsp = <<>> /\ UNCHANGED <<cspIn, cspOut, role>>
    BY <1>5 DEF PollDone, Quiet, channels
  <2>3. CASE task \in NoAck
    <3>1. Replies' = Replies
      BY <1>5, <2>2, <2>3 DEF PollDone, Replies
    <3> QED BY <1>1, <2>1, <2>2, <3>1 DEF QueueInv
  <2>4. CASE task \notin NoAck
    <3> DEFINE p == [type |-> "MessageAck", n |-> task]
    <3>1. p \in CspOutPayload /\ outCsp' = <<p>>
      BY <1>5, <2>4 DEF PollDone, CspOutPayload, TypeInv, TypeOK, DriverTypeOK
    <3>2. Replies' = Append(Replies, p)
      BY <2>2, <3>1, ReplyMoves
    <3>3. p.type = "MessageAck"
      OBVIOUS
    <3>4. \A i \in 1..Len(Replies) : Replies[i].type = "MessageAck"
      BY <2>1 DEF QueueInv
    <3> HIDE DEF p
    <3>5. \A i \in 1..Len(Replies') : Replies'[i].type = "MessageAck"
      BY SMTT(30), <3>1, <3>2, <3>3, <3>4, ChainTypes, AppendKeeps
    <3> QED BY <1>1, <2>1, <2>2, <3>5 DEF QueueInv
  <2> QED BY <2>3, <2>4
<1>6. CASE OnPromotion
  <2>1. /\ outCsp = <<>> /\ UNCHANGED <<cspIn, cspOut, task>> /\ role' = "leader"
        /\ outCsp' = <<[type |-> "UnblockIncomingMessages", n |-> 0]>>
        /\ d2mIn # <<>> /\ d2mIn' = Tail(d2mIn) /\ Head(d2mIn).type = "RolePromotedToLeader"
    BY <1>6 DEF OnPromotion, Receives, Listens, Quiet
  <2>2. role = "none"
    <3>1. Incoming # <<>> /\ IsPromotion(Incoming, 1)
      BY <2>1, TakenFromIncoming DEF DriverRuns, IsPromotion
    <3>2. 1 \in 1..Len(Incoming)
      BY <3>1, IncomingType, EmptySeq
    <3> QED BY <3>1, <3>2 DEF PromotionInv
  <2>3. ~unblocked /\ Replies = <<>>
    BY <2>2 DEF QueueInv
  <2> DEFINE p == [type |-> "UnblockIncomingMessages", n |-> 0]
  <2>4. p \in CspOutPayload
    BY MessageAssumption DEF CspOutPayload
  <2>5. Replies' = <<p>>
    BY <2>1, <2>3, <2>4, ReplyMoves
  <2> QED BY <1>1, <1>2, <2>1, <2>3, <2>5 DEF QueueInv, Handed
<1>7. CASE ~(SendCsp \/ TakeCspPayload \/ PollDone \/ OnPromotion)
  <2>1. UNCHANGED <<cspIn, cspOut, outCsp, task, role>>
    BY <1>7 DEF DriverRuns, DriverNext, SendD2m, Polling, SenderFetched, ReflectReturns, OnD2m,
         OnBeginReply, OnTransactionEnded, OnCommitAck, OnReflectAck, OnReflected, DropUnsolicited,
         PollFetchSender, PollBeginTransaction, PollTransactionRejected, PollAbortTransaction,
         PollReflectAndCommit, PollReflectMessage, channels, driver
  <2> QED BY <1>1, <1>2, <2>1 DEF QueueInv, Replies, Handed
<1> QED BY <1>3, <1>4, <1>5, <1>6, <1>7

LEMMA QueueElsewhere ==
  ASSUME TypeInv, QueueInv,
         \/ D2mRuns \/ MediatorActs \/ ConnectFails \/ ConnectCsp \/ ConnectD2m
         \/ TakeSendText \/ RunEnds \/ DropSender \/ UNCHANGED vars
         \/ \E command \in {"SendText", "Shutdown"} : Command(command)
  PROVE  QueueInv'
<1>1. UNCHANGED <<cspIn, cspOut, csp, chatServer, outCsp, task, role>>
  BY DEF D2mRuns, D2mNext, D2mHandshake, D2mReceive, D2mForward, D2mSend, D2mFlowEnds,
         MediatorActs, ConnectFails, ConnectCsp, ConnectD2m, TakeSendText, RunEnds, DropSender,
         Command, channels, driver, vars
<1> QED BY <1>1 DEF QueueInv, Replies, Handed, Frames, csp, chatServer

LEMMA QueueStep == TypeInv /\ PromotionInv /\ QueueInv /\ [Next]_vars => QueueInv'
<1>1. ASSUME TypeInv, QueueInv, CspRuns PROVE QueueInv'
  BY <1>1, QueueHandshake, QueueCsp, QueueSend DEF CspRuns, CspNext
<1> QED BY <1>1, QueueServer, QueueDriver, QueueElsewhere DEF Next

\* A step after which the queue is not unblocked neither sends nor acknowledges.
LEMMA NothingSent ==
  ASSUME TypeInv, QueueInv, [Next]_vars, ~unblocked'
  PROVE  ~unblocked /\ sent' = sent /\ acks' = acks
<1>1. CASE CspRuns /\ CspSend
  <2>1. /\ unblocked' = (unblocked \/ (cspLink = "open" /\ Head(cspOut).type = "UnblockIncomingMessages"))
        /\ sent' = sent /\ outCsp' = outCsp
        /\ acks' = IF cspLink = "open" /\ Head(cspOut).type = "MessageAck"
                   THEN Append(acks, Head(cspOut).n) ELSE acks
    BY <1>1 DEF CspSend, CspRuns, driver, ServerReceives
  <2>2. ~unblocked
    BY <2>1
  <2>3. Replies # <<>> /\ Head(Replies) = Head(cspOut)
    BY <1>1, <2>1, EndMoves
  <2>4. Head(cspOut).type = "UnblockIncomingMessages"
    BY <2>2, <2>3, ChainTypes, EmptySeq DEF QueueInv
  <2> QED BY <2>1, <2>2, <2>4
<1>2. CASE CspRuns /\ ~CspSend
  BY <1>2 DEF CspRuns, CspNext, CspStart, CspHandshake, CspPoll, CspForward, CspRead, chatServer
<1>3. CASE ChatServerActs
  <2>1. unblocked' = unblocked /\ acks' = acks
    BY <1>3 DEF ChatServerActs, ServerSendsMessage, ServerSendsExtra, ServerEnds
  <2>2. ~unblocked
    BY <2>1
  <2>3. sent' = sent
    BY <1>3, <2>2 DEF ChatServerActs, ServerSendsMessage, ServerSendsExtra, ServerEnds
  <2> QED BY <2>1, <2>2, <2>3
<1>4. CASE ~(CspRuns \/ ChatServerActs)
  <2>1. UNCHANGED chatServer
    BY <1>4 DEF Next, D2mRuns, DriverRuns, MediatorActs, ConnectFails, ConnectCsp, ConnectD2m,
                TakeSendText, RunEnds, DropSender, Command, vars
  <2> QED BY <2>1 DEF chatServer
<1> QED BY <1>1, <1>2, <1>3, <1>4

THEOREM UnblockInvariant == Spec => []UnblockInv
<1>1. Init => UnblockInv
  BY QueueInit DEF Init, ServerInit, UnblockInv
<1>2. TypeInv /\ PromotionInv /\ UnblockInv /\ [Next]_vars => UnblockInv'
  <2> SUFFICES ASSUME TypeInv, PromotionInv, UnblockInv, [Next]_vars PROVE UnblockInv'
    OBVIOUS
  <2>1. QueueInv'
    BY QueueStep DEF UnblockInv
  <2>2. ~unblocked' => sent' = 0 /\ acks' = <<>>
    BY NothingSent DEF UnblockInv
  <2> QED BY <2>1, <2>2 DEF UnblockInv
<1> QED BY TypesInvariant, PromotedOnce, <1>1, <1>2, PTL DEF Spec

\* Only the leader unblocks the identity's incoming queue (e2e.rs:188-194).
THEOREM OnlyLeaderUnblocks == Spec => []UnblockOnlyAsLeader
<1>1. TypeInv /\ PromotionInv /\ UnblockInv => UnblockOnlyAsLeader
  <2> SUFFICES ASSUME TypeInv, PromotionInv, UnblockInv, role = "none"
               PROVE  /\ ~unblocked /\ ~(sent > 0)
                      /\ \A i \in 1..Len(cspOut) : FALSE
                      /\ \A i \in 1..Len(outCsp) : FALSE
    BY DEF UnblockOnlyAsLeader, PromotionInv, TypeInv, TypeOK, DriverTypeOK
  <2>1. ~unblocked /\ Replies = <<>> /\ sent = 0
    BY DEF UnblockInv, QueueInv
  <2>2. cspOut = <<>> /\ outCsp = <<>>
    BY <2>1, ChainTypes, ConcatEqualIffEmpty DEF Replies
  <2> QED BY <2>1, <2>2
<1> QED BY TypesInvariant, PromotedOnce, UnblockInvariant, <1>1, PTL
=============================================================================
