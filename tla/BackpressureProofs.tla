------------------------- MODULE BackpressureProofs -------------------------
(***************************************************************************)
(* For every value of the constants: a chat server that keeps its window   *)
(* cannot bring the chat connection and the driver to wait for each other. *)
(* Messages are numbered in the order they are sent, so how many of them   *)
(* are on their way is bounded by the number of the last.                  *)
(* Neither can a mediator that says no more unasked than there is room     *)
(* for, next to what one instruction of a task asks it: every payload on   *)
(* its way is counted with the ones or with the other.                     *)
(***************************************************************************)
EXTENDS TransactionProofs

\* Messages that have left the chain: acknowledged, with their acks on the way
\* or with the driver.
Passed == Len(acks) + Len(Replies) + (IF task = 0 THEN 0 ELSE 1)

IsMessage(f) == f.type = "Message"

\* k messages passed, h handed over by the connection and f in frames, of s.
Ordered(k, h, f, s) ==
  /\ k + Len(h) =< s
  /\ \A i \in 1..Len(h) : k + i =< h[i].n
  /\ \A i \in 1..Len(f) : f[i].type # "MessageAck"
  /\ \A i \in 1..Len(f) : IsMessage(f[i]) => k + Len(h) < f[i].n /\ f[i].n =< s
  /\ \A i, j \in 1..Len(f) : i < j /\ IsMessage(f[i]) /\ IsMessage(f[j]) => f[i].n < f[j].n

WindowInv ==
  unblocked => sent =< Len(acks) + Window /\ Ordered(Passed, Handed, Frames, sent)

-----------------------------------------------------------------------------
(* How messages move along the order.                                      *)

LEMMA FrameNumbers ==
  /\ \A p \in CspInPayload : p.n \in Nat
  /\ \A p \in Frame : p.n \in Nat
BY MessageAssumption DEF CspInPayload, Frame

LEMMA OrderedTake ==
  ASSUME NEW k \in Nat, NEW h \in Seq(CspInPayload), NEW f \in Seq(Frame), NEW s \in Nat,
         h # <<>>, Ordered(k, h, f, s), NEW d \in 0..1
  PROVE  Ordered(k + d, Tail(h), f, s)
<1>1. /\ Len(h) \in Nat \ {0} /\ Len(Tail(h)) = Len(h) - 1
      /\ \A i \in 1..Len(Tail(h)) : Tail(h)[i] = h[i + 1] /\ i + 1 \in 1..Len(h)
  BY EmptySeq, HeadTailProperties
<1>2. ASSUME NEW i \in 1..Len(Tail(h)) PROVE k + d + i =< Tail(h)[i].n
  <2>1. Tail(h)[i] = h[i + 1] /\ i + 1 \in 1..Len(h) /\ h[i + 1] \in CspInPayload
    BY <1>1, ElementOfSeq
  <2>2. k + (i + 1) =< h[i + 1].n /\ h[i + 1].n \in Nat
    BY <2>1, FrameNumbers DEF Ordered
  <2> QED BY <2>1, <2>2
<1>3. ASSUME NEW i \in 1..Len(f), IsMessage(f[i])
      PROVE  k + d + Len(Tail(h)) < f[i].n /\ f[i].n =< s
  <2>1. k + Len(h) < f[i].n /\ f[i].n =< s /\ f[i].n \in Nat
    BY <1>3, ElementOfSeq, FrameNumbers DEF Ordered
  <2> QED BY <1>1, <2>1
<1>4. k + d + Len(Tail(h)) =< s
  BY <1>1 DEF Ordered
<1> QED BY <1>2, <1>3, <1>4 DEF Ordered

LEMMA OrderedLess ==
  ASSUME NEW k \in Nat, NEW h \in Seq(CspInPayload), NEW f \in Seq(Frame), NEW s \in Nat,
         Ordered(k, h, f, s), NEW l \in Nat, l =< k
  PROVE  Ordered(l, h, f, s)
<1>1. Len(h) \in Nat
  BY LenProperties
<1>2. ASSUME NEW i \in 1..Len(h) PROVE l + i =< h[i].n
  <2>1. k + i =< h[i].n /\ h[i].n \in Nat
    BY ElementOfSeq, FrameNumbers DEF Ordered
  <2> QED BY <2>1
<1>3. ASSUME NEW i \in 1..Len(f), IsMessage(f[i])
      PROVE  l + Len(h) < f[i].n /\ f[i].n =< s
  <2>1. k + Len(h) < f[i].n /\ f[i].n =< s /\ f[i].n \in Nat
    BY <1>3, ElementOfSeq, FrameNumbers DEF Ordered
  <2> QED BY <1>1, <2>1
<1>4. l + Len(h) =< s
  BY <1>1 DEF Ordered
<1> QED BY <1>2, <1>3, <1>4 DEF Ordered

\* The front of the frames goes: its tail stays in order, behind it if it was a
\* message.
LEMMA OrderedPoll ==
  ASSUME NEW k \in Nat, NEW h \in Seq(CspInPayload), NEW f \in Seq(Frame), NEW s \in Nat,
         f # <<>>, Ordered(k, h, f, s)
  PROVE  /\ Ordered(k, h, Tail(f), s)
         /\ IsMessage(Head(f)) /\ Head(f) \in CspInPayload =>
               Ordered(k, Append(h, Head(f)), Tail(f), s)
<1>1. /\ Len(f) \in Nat \ {0} /\ Len(Tail(f)) = Len(f) - 1 /\ Head(f) = f[1] /\ 1 \in 1..Len(f)
      /\ \A i \in 1..Len(Tail(f)) : Tail(f)[i] = f[i + 1] /\ i + 1 \in 1..Len(f) /\ i + 1 > 1
  BY EmptySeq, HeadTailProperties
<1>2. Len(h) \in Nat
  BY LenProperties
<1>3. /\ \A i \in 1..Len(Tail(f)) : Tail(f)[i].type # "MessageAck"
      /\ \A i, j \in 1..Len(Tail(f)) : i < j /\ IsMessage(Tail(f)[i]) /\ IsMessage(Tail(f)[j])
           => Tail(f)[i].n < Tail(f)[j].n
  <2>1. \A i, j \in 1..Len(Tail(f)) : i < j => i + 1 < j + 1
    BY <1>1
  <2> QED BY <1>1, <2>1 DEF Ordered
<1>4. Ordered(k, h, Tail(f), s)
  BY <1>1, <1>3 DEF Ordered
<1>5. ASSUME IsMessage(Head(f)), Head(f) \in CspInPayload
      PROVE  Ordered(k, Append(h, Head(f)), Tail(f), s)
  <2> DEFINE p == Head(f)
             g == Append(h, p)
  <2>1. p.n \in Nat /\ k + Len(h) < p.n /\ p.n =< s
    BY <1>1, <1>5, FrameNumbers DEF Ordered
  <2>2. ASSUME NEW i \in 1..Len(Tail(f)), IsMessage(Tail(f)[i])
        PROVE  p.n < Tail(f)[i].n /\ Tail(f)[i].n =< s
    BY <1>1, <1>5, <2>2 DEF Ordered
  <2>3. \A i \in 1..Len(Tail(f)) : Tail(f)[i].n \in Nat
    BY <1>1, ElementOfSeq, FrameNumbers
  <2> HIDE DEF p
  <2>4. /\ Len(g) = Len(h) + 1
        /\ \A i \in 1..Len(h) : g[i] = h[i]
        /\ g[Len(h) + 1] = p
    BY <1>5, AppendProperties DEF p
  <2> HIDE DEF g
  <2>5. ASSUME NEW i \in 1..Len(g) PROVE k + i =< g[i].n
    <3>1. CASE i \in 1..Len(h)
      BY <2>4, <3>1 DEF Ordered
    <3>2. CASE i = Len(h) + 1
      BY <1>2, <2>1, <2>4, <3>2
    <3> QED BY <1>2, <2>4, <3>1, <3>2
  <2>6. ASSUME NEW i \in 1..Len(Tail(f)), IsMessage(Tail(f)[i])
        PROVE  k + Len(g) < Tail(f)[i].n /\ Tail(f)[i].n =< s
    BY <1>2, <2>1, <2>2, <2>3, <2>4, <2>6
  <2>7. k + Len(g) =< s
    BY <1>2, <2>1, <2>4
  <2> QED BY <1>3, <2>5, <2>6, <2>7 DEF Ordered, g, p
<1> QED BY <1>4, <1>5

\* A frame joins at the end: the next message, or one that is neither.
LEMMA OrderedAppend ==
  ASSUME NEW k \in Nat, NEW h \in Seq(CspInPayload), NEW f \in Seq(Frame), NEW s \in Nat,
         NEW t \in Nat, NEW e \in Frame, Ordered(k, h, f, s),
         \/ t = s /\ e.type \notin {"Message", "MessageAck"}
         \/ t = s + 1 /\ e.type = "Message" /\ e.n = t
  PROVE  Ordered(k, h, Append(f, e), t)
<1> DEFINE g == Append(f, e)
<1>1. /\ Len(h) \in Nat /\ Len(f) \in Nat /\ Len(g) = Len(f) + 1 /\ g[Len(f) + 1] = e
      /\ \A i \in 1..Len(f) : g[i] = f[i] /\ f[i].n \in Nat
  BY LenProperties, AppendProperties, ElementOfSeq, FrameNumbers
<1> HIDE DEF g
<1>2. k + Len(h) =< s /\ s =< t
  BY DEF Ordered
<1>3. ASSUME NEW i \in 1..Len(g)
      PROVE  /\ g[i].type # "MessageAck"
             /\ IsMessage(g[i]) => k + Len(h) < g[i].n /\ g[i].n =< t
  <2>1. CASE i \in 1..Len(f)
    BY <1>1, <1>2, <2>1 DEF Ordered
  <2>2. CASE i = Len(f) + 1
    BY <1>1, <1>2, <2>2 DEF IsMessage
  <2> QED BY <1>1, <2>1, <2>2
<1>4. ASSUME NEW i \in 1..Len(g), NEW j \in 1..Len(g), i < j, IsMessage(g[i]), IsMessage(g[j])
      PROVE  g[i].n < g[j].n
  <2>1. i \in 1..Len(f)
    BY <1>1, <1>4
  <2>2. CASE j \in 1..Len(f)
    BY <1>1, <1>4, <2>1, <2>2 DEF Ordered
  <2>3. CASE j = Len(f) + 1
    <3>1. g[i].n =< s /\ g[j] = e /\ g[i].n \in Nat
      BY <1>1, <1>4, <2>1, <2>3 DEF Ordered
    <3> QED BY <1>4, <3>1 DEF IsMessage
  <2> QED BY <1>1, <2>2, <2>3
<1>5. Ordered(k, h, g, t)
  BY <1>1, <1>2, <1>3, <1>4 DEF Ordered
<1> QED BY <1>5 DEF g

-----------------------------------------------------------------------------
(* Every step keeps the order, under the conditions of CspWindow.          *)

LEMMA WindowTypes ==
  ASSUME TypeInv
  PROVE  /\ Passed \in Nat /\ Len(acks) \in Nat /\ Len(Replies) \in Nat /\ sent \in Nat
         /\ Handed \in Seq(CspInPayload) /\ Frames \in Seq(Frame)
BY ChainTypes, LenProperties DEF Passed

\* The chat connection's own steps, but for what it writes.
LEMMA WindowCsp ==
  ASSUME TypeInv, UnblockInv, WindowInv, CspRuns, CspStart \/ CspHandshake \/ CspPoll
                                                    \/ CspForward \/ CspRead
  PROVE  WindowInv'
<1>1. UNCHANGED <<unblocked, sent, acks, task, cspOut, outCsp>>
  BY DEF CspStart, CspHandshake, CspPoll, CspForward, CspRead, CspRuns, channels, driver, chatServer
<1>2. Passed' = Passed
  BY <1>1 DEF Passed, Replies
<1>3. CASE ~unblocked
  BY <1>1, <1>3 DEF WindowInv
<1>4. CASE unblocked
  <2>1. CASE CspStart \/ CspHandshake
    BY <1>4, <2>1 DEF CspStart, CspHandshake, UnblockInv, QueueInv
  <2>2. CASE CspPoll
    <3>1. Ordered(Passed, Handed, Frames, sent)
      BY <1>4 DEF WindowInv
    <3>2. Frames # <<>> /\ Frames' = Tail(Frames)
      BY <2>2, PollMoves
    <3>3. Head(Frames).type # "MessageAck"
      BY <3>1, <3>2, WindowTypes, EmptySeq DEF Ordered
    <3>4. \/ Handed' = Handed
          \/ IsMessage(Head(Frames)) /\ Head(Frames) \in CspInPayload
             /\ Handed' = Append(Handed, Head(Frames))
      BY <2>2, <3>3, PollMoves DEF IsMessage
    <3>5. Ordered(Passed, Handed', Frames', sent)
      BY <3>1, <3>2, <3>4, WindowTypes, OrderedPoll
    <3> QED BY <1>1, <1>2, <1>4, <3>5 DEF WindowInv
  <2>3. CASE CspForward
    <3>1. Handed' = Handed /\ Frames' = Frames
      BY <2>3, SendMoves DEF CspForward, Frames, chatServer
    <3> QED BY <1>1, <1>2, <3>1 DEF WindowInv
  <2>4. CASE CspRead
    <3>1. Handed' = Handed /\ Frames' = Frames
      BY <2>4, ReadMoves DEF CspRead, Handed, channels
    <3> QED BY <1>1, <1>2, <3>1 DEF WindowInv
  <2> QED BY <2>1, <2>2, <2>3, <2>4
<1> QED BY <1>3, <1>4

\* What the connection writes is acknowledged to a server that still listens.
LEMMA WindowSend ==
  ASSUME TypeInv, UnblockInv, WindowInv, CspRuns, CspSend
  PROVE  WindowInv'
<1>1. /\ UNCHANGED <<cspBuf, cspHand, cspIn, cspWire, outCsp, task, sent>>
      /\ Handed' = Handed /\ Frames' = Frames
  BY DEF CspSend, ServerReceives, CspRuns, csp, driver, Handed, Frames
<1>2. /\ Replies # <<>> /\ Head(Replies) = Head(cspOut) /\ Replies' = Tail(Replies)
      /\ Len(Replies') = Len(Replies) - 1 /\ Len(Replies) \in Nat \ {0} /\ Head(Replies) = Replies[1]
  BY SMTT(30), <1>1, EndMoves, ChainTypes, EmptySeq, HeadTailProperties
<1>3. CASE unblocked
  <2>1. acks' = acks \/ acks' = Append(acks, Head(cspOut).n)
    BY DEF CspSend, ServerReceives
  <2>2. Len(acks') \in {Len(acks), Len(acks) + 1}
    BY <2>1
  <2>3. Passed' \in Nat /\ Passed' =< Passed
    BY <1>1, <1>2, <2>2, WindowTypes DEF Passed
  <2>4. sent =< Len(acks) + Window /\ Ordered(Passed, Handed, Frames, sent)
    BY <1>3 DEF WindowInv
  <2>5. Ordered(Passed', Handed, Frames, sent)
    BY <2>3, <2>4, WindowTypes, OrderedLess
  <2>6. sent =< Len(acks') + Window
    BY <2>2, <2>4, WindowTypes, ServerAssumption
  <2> QED BY <1>1, <2>5, <2>6 DEF WindowInv
<1>4. CASE ~unblocked
  <2>1. /\ sent = 0 /\ acks = <<>> /\ task = 0 /\ Handed = <<>> /\ Len(Replies) = 1
        /\ Head(cspOut).type = "UnblockIncomingMessages"
        /\ \A i \in 1..Len(Frames) : Frames[i].type = "Handshake"
    BY <1>2, <1>4 DEF UnblockInv, QueueInv
  <2>2. acks' = <<>> /\ Len(Replies') = 0
    BY <1>2, <2>1 DEF CspSend, ServerReceives
  <2>3. Passed' = 0
    BY <1>1, <2>1, <2>2 DEF Passed
  <2>4. Ordered(0, <<>>, Frames, 0)
    BY <2>1 DEF Ordered, IsMessage
  <2> QED BY <1>1, <2>1, <2>2, <2>3, <2>4, ServerAssumption DEF WindowInv
<1> QED BY <1>3, <1>4

LEMMA WindowServer ==
  ASSUME TypeInv, UnblockInv, WindowInv, ChatServerActs, NoAck = {}, "MessageAck" \notin ExtraFrames
  PROVE  WindowInv'
<1>1. UNCHANGED <<unblocked, cspBuf, cspHand, cspIn, cspOut, outCsp, task, acks>>
  BY DEF ChatServerActs, channels, driver, csp, ServerSendsMessage, ServerSendsExtra, ServerEnds
<1>2. Passed' = Passed /\ Handed' = Handed
  BY <1>1 DEF Passed, Replies, Handed
<1>3. CASE ServerSendsMessage
  <2> DEFINE f == [type |-> "Message", n |-> sent + 1]
  <2>1. /\ f \in Frame /\ f.type = "Message" /\ f.n = sent + 1
    BY <1>3, MessageAssumption, WindowTypes DEF ServerSendsMessage, Frame, CspInPayload
  <2>2. Frames' = Append(Frames, f)
    BY <1>1, <1>3, <2>1, FrameMoves DEF ServerSendsMessage
  <2> HIDE DEF f
  <2>3. unblocked /\ sent' = sent + 1
    BY <1>3 DEF ServerSendsMessage
  <2>4. Ordered(Passed, Handed, Frames', sent + 1)
    BY <2>1, <2>2, <2>3, WindowTypes, OrderedAppend DEF WindowInv
  <2>5. Unacknowledged = sent - Len(acks)
    <3>1. (1..sent) \ NoAck = 1..sent /\ Cardinality(1..sent) = sent
      BY WindowTypes, FS_Interval
    <3> QED BY <3>1 DEF Unacknowledged
  <2>6. sent' =< Len(acks') + Window
    BY <1>1, <1>3, <2>3, <2>5, WindowTypes, ServerAssumption DEF ServerSendsMessage
  <2> QED BY <1>2, <2>3, <2>4, <2>6 DEF WindowInv
<1>4. CASE \E type \in ExtraFrames : ServerSendsExtra(type)
  <2>1. PICK type \in ExtraFrames : ServerSendsExtra(type)
    BY <1>4
  <2> DEFINE f == [type |-> type, n |-> 0]
  <2>2. f \in Frame /\ f.type \notin {"Message", "MessageAck"}
    BY ServerAssumption DEF Frame
  <2>3. Frames' = Append(Frames, f)
    BY <1>1, <2>1, <2>2, FrameMoves DEF ServerSendsExtra
  <2> HIDE DEF f
  <2>4. unblocked /\ sent' = sent
    BY <2>1 DEF ServerSendsExtra
  <2>5. Ordered(Passed, Handed, Frames', sent)
    BY <2>2, <2>3, <2>4, WindowTypes, OrderedAppend DEF WindowInv
  <2> QED BY <1>1, <1>2, <2>4, <2>5 DEF WindowInv
<1>5. CASE \E how \in LinkFaults : ServerEnds(how)
  <2>1. sent' = sent /\ Frames' = Frames
    BY <1>1, <1>5 DEF ServerEnds, Frames
  <2> QED BY <1>1, <1>2, <2>1 DEF WindowInv
<1> QED BY <1>3, <1>4, <1>5 DEF ChatServerActs

\* The driver takes messages and acknowledges them.
LEMMA WindowDriver ==
  ASSUME TypeInv, PromotionInv, UnblockInv, WindowInv, DriverRuns, NoAck = {}
  PROVE  WindowInv'
<1>1. /\ UNCHANGED <<cspBuf, cspHand, cspWire, unblocked, sent, acks>>
      /\ Frames' = Frames
  BY DEF DriverRuns, csp, chatServer, Frames
<1>2. CASE ~unblocked
  BY <1>1, <1>2 DEF WindowInv
<1>3. CASE unblocked
  <2>1. sent =< Len(acks) + Window /\ Ordered(Passed, Handed, Frames, sent)
    BY <1>3 DEF WindowInv
  <2>2. ASSUME Passed' = Passed, Handed' = Handed
        PROVE  WindowInv'
    BY <1>1, <2>1, <2>2 DEF WindowInv
  <2>3. CASE SendCsp
    <3>1. Replies' = Replies /\ UNCHANGED <<cspIn, task>>
      BY <2>3, SendMoves DEF SendCsp
    <3> QED BY <1>1, <2>2, <3>1 DEF Passed, Handed
  <2>4. CASE TakeCspPayload
    <3>1. Handed # <<>> /\ Handed' = Tail(Handed) /\ Replies' = Replies /\ task = 0
      BY <1>1, <2>4, EndMoves DEF TakeCspPayload, Replies, TypeInv, TypeOK, DriverTypeOK
    <3>2. PICK d \in 0..1 : Passed' = Passed + d
      <4>1. Passed = Len(acks) + Len(Replies)
        BY <3>1, WindowTypes DEF Passed
      <4>2. CASE task' = 0
        BY <1>1, <3>1, <4>1, <4>2, WindowTypes DEF Passed
      <4>3. CASE task' # 0
        <5>1. Passed' = Passed + 1
          BY <1>1, <3>1, <4>1, <4>3, WindowTypes DEF Passed
        <5> QED BY <5>1
      <4> QED BY <4>2, <4>3
    <3>3. Ordered(Passed + d, Tail(Handed), Frames, sent)
      BY <2>1, <3>1, WindowTypes, OrderedTake
    <3> QED BY <1>1, <2>1, <3>1, <3>2, <3>3 DEF WindowInv
  <2>5. CASE PollDone
    <3> DEFINE p == [type |-> "MessageAck", n |-> task]
    <3>1. p \in CspOutPayload
      BY DEF CspOutPayload, TypeInv, TypeOK, DriverTypeOK
    <3>2. outCsp = <<>> /\ outCsp' = <<p>> /\ UNCHANGED <<cspIn, cspOut>> /\ task' = 0 /\ task # 0
      BY <2>5 DEF PollDone, Quiet, channels, TypeInv, TypeOK, DriverTypeOK
    <3>3. Replies' = Append(Replies, p)
      BY <3>1, <3>2, ReplyMoves
    <3> HIDE DEF p
    <3>4. Len(Replies') = Len(Replies) + 1
      BY <3>1, <3>3, ChainTypes, AppendProperties
    <3>5. Passed' = Passed
      BY <1>1, <3>2, <3>4, WindowTypes DEF Passed
    <3> QED BY <1>1, <2>2, <3>2, <3>5 DEF Handed
  <2>6. CASE OnPromotion
    <3>1. /\ d2mIn # <<>> /\ d2mIn' = Tail(d2mIn) /\ Head(d2mIn).type = "RolePromotedToLeader"
      BY <2>6 DEF OnPromotion, Receives
    <3>2. Incoming # <<>> /\ IsPromotion(Incoming, 1)
      BY <3>1, TakenFromIncoming DEF DriverRuns, IsPromotion
    <3>3. 1 \in 1..Len(Incoming)
      BY <3>2, IncomingType, EmptySeq
    <3>4. role = "none"
      BY <3>2, <3>3 DEF PromotionInv
    <3> QED BY <1>3, <3>4 DEF UnblockInv, QueueInv
  <2>7. CASE ~(SendCsp \/ TakeCspPayload \/ PollDone \/ OnPromotion)
    <3>1. UNCHANGED <<cspIn, cspOut, outCsp, task>>
      BY <2>7 DEF DriverRuns, DriverNext, SendD2m, Polling, SenderFetched, ReflectReturns, OnD2m,
           OnBeginReply, OnTransactionEnded, OnCommitAck, OnReflectAck, OnReflected, DropUnsolicited,
           PollFetchSender, PollBeginTransaction, PollTransactionRejected, PollAbortTransaction,
           PollReflectAndCommit, PollReflectMessage, channels, driver
    <3> QED BY <1>1, <2>2, <3>1 DEF Passed, Replies, Handed
  <2> QED BY <2>3, <2>4, <2>5, <2>6, <2>7
<1> QED BY <1>2, <1>3

LEMMA WindowElsewhere ==
  ASSUME TypeInv, WindowInv,
         \/ D2mRuns \/ MediatorActs \/ ConnectFails \/ ConnectCsp \/ ConnectD2m
         \/ TakeSendText \/ RunEnds \/ DropSender \/ UNCHANGED vars
         \/ \E command \in {"SendText", "Shutdown"} : Command(command)
  PROVE  WindowInv'
<1>1. UNCHANGED <<cspIn, cspOut, csp, chatServer, outCsp, task>>
  BY DEF D2mRuns, D2mNext, D2mHandshake, D2mReceive, D2mForward, D2mSend, D2mFlowEnds,
         MediatorActs, ConnectFails, ConnectCsp, ConnectD2m, TakeSendText, RunEnds, DropSender,
         Command, channels, driver, vars
<1> QED BY <1>1 DEF WindowInv, Passed, Replies, Handed, Frames, csp, chatServer

\* Messages stay in the order they were sent, the window counts those that have
\* not been acknowledged, whatever the capacities of the channels.
THEOREM WindowInvariant ==
  ASSUME NoAck = {}, "MessageAck" \notin ExtraFrames
  PROVE  Spec => []WindowInv
<1>1. Init => WindowInv
  BY DEF Init, ServerInit, WindowInv
<1>2. TypeInv /\ PromotionInv /\ UnblockInv /\ WindowInv /\ [Next]_vars => WindowInv'
  <2>1. ASSUME TypeInv, UnblockInv, WindowInv, CspRuns PROVE WindowInv'
    BY <2>1, WindowCsp, WindowSend DEF CspRuns, CspNext
  <2> QED BY <2>1, WindowServer, WindowDriver, WindowElsewhere DEF Next
<1> QED BY TypesInvariant, PromotedOnce, UnblockInvariant, <1>1, <1>2, PTL DEF Spec

\* Within the window the chat connection and the driver never wait for each
\* other (csp.rs:154-159 and e2e.rs:170-175): if they did, the channel's payloads
\* and the one each holds would be more messages than the server may have sent.
THEOREM NoMutualWait == Spec => []NoCspDeadlock
<1>1. CASE ~CspWindow
  BY <1>1, PTL DEF NoCspDeadlock
<1>2. CASE CspWindow
  <2>1. Spec => []WindowInv
    BY <1>2, WindowInvariant DEF CspWindow
  <2>2. TypeInv /\ UnblockInv /\ WindowInv => ~CspDeadlock
    <3> SUFFICES ASSUME TypeInv, UnblockInv, WindowInv, CspDeadlock PROVE FALSE
      OBVIOUS
    <3>1. /\ Len(cspIn) = CspInCap /\ Len(cspOut) = CspOutCap
          /\ Len(cspHand) \in Nat \ {0} /\ Len(outCsp) \in Nat \ {0}
      BY ChainTypes, EmptySeq DEF CspDeadlock
    <3>2. Len(Handed) >= CspInCap + 1 /\ Len(Replies) >= CspOutCap + 1
      BY <3>1, ChainTypes, CapAssumption
    <3>3. unblocked
      BY <3>2, CapAssumption DEF UnblockInv, QueueInv
    <3>4. sent =< Len(acks) + Window /\ Passed + Len(Handed) =< sent
      BY <3>3 DEF WindowInv, Ordered
    <3>5. Passed >= Len(acks) + Len(Replies)
      BY WindowTypes DEF Passed
    <3>6. Len(Handed) \in Nat
      BY WindowTypes, LenProperties
    <3> QED BY <1>2, <3>2, <3>4, <3>5, <3>6, WindowTypes, CapAssumption, ServerAssumption
            DEF CspWindow
  <2>3. ~CspDeadlock => NoCspDeadlock
    BY DEF NoCspDeadlock
  <2> QED BY <2>1, <2>2, <2>3, TypesInvariant, UnblockInvariant, PTL
<1> QED BY <1>1, <1>2

-----------------------------------------------------------------------------
(* The mediator's side: payloads are counted by type wherever they wait.   *)

Places(s, types) == {i \in 1..Len(s) : s[i].type \in types}

Count(s, types) == Cardinality(Places(s, types))

LEMMA PlacesFinite ==
  ASSUME NEW S, NEW s \in Seq(S), NEW types
  PROVE  IsFiniteSet(Places(s, types)) /\ Count(s, types) \in Nat /\ Count(s, types) =< Len(s)
<1>1. Len(s) \in Nat
  BY LenProperties
<1>2. IsFiniteSet(1..Len(s)) /\ Cardinality(1..Len(s)) = Len(s)
  BY <1>1, FS_Interval
<1>3. Places(s, types) \in SUBSET (1..Len(s))
  BY DEF Places
<1> QED BY <1>2, <1>3, FS_Subset, FS_CardinalityType DEF Count

LEMMA CountConcat ==
  ASSUME NEW S, NEW s \in Seq(S), NEW t \in Seq(S), NEW types
  PROVE  Count(s \o t, types) = Count(s, types) + Count(t, types)
<1> DEFINE u == s \o t
           n == Len(s)
           front == Places(s, types)
           back == Places(t, types)
           moved == {n + i : i \in back}
           f == [i \in back |-> n + i]
<1>1. /\ u \in Seq(S) /\ n \in Nat /\ Len(t) \in Nat /\ Len(u) = n + Len(t)
      /\ \A i \in 1..n + Len(t) : u[i] = IF i =< n THEN s[i] ELSE t[i - n]
  BY ConcatProperties, LenProperties
<1>2. /\ IsFiniteSet(front) /\ IsFiniteSet(back)
      /\ Cardinality(front) \in Nat /\ Cardinality(back) \in Nat
  BY PlacesFinite DEF Count
<1>3. /\ \A i \in front : i \in 1..n /\ s[i].type \in types
      /\ \A i \in 1..n : s[i].type \in types => i \in front
      /\ \A i \in back : i \in 1..Len(t) /\ t[i].type \in types
      /\ \A i \in 1..Len(t) : t[i].type \in types => i \in back
  BY DEF Places
<1> HIDE DEF u, n, front, back
<1>4. /\ \A i \in moved : i - n \in back /\ i > n
      /\ \A i \in back : n + i \in moved
  BY <1>1, <1>3
<1>5. ExistsBijection(back, moved)
  <2>1. f \in [back -> moved] /\ DOMAIN f = back /\ \A i \in back : f[i] = n + i
    BY <1>4
  <2>2. \A i, j \in back : f[i] = f[j] => i = j
    BY <1>1, <1>3, <2>1
  <2>3. \A j \in moved : \E i \in back : f[i] = j
    BY <2>1
  <2> HIDE DEF f
  <2>4. f \in Bijection(back, moved)
    BY <2>1, <2>2, <2>3 DEF Bijection, Injection, Surjection, IsInjective
  <2> QED BY <2>4 DEF ExistsBijection
<1>6. IsFiniteSet(moved) /\ Cardinality(moved) = Cardinality(back)
  BY <1>2, <1>5, FS_Bijection
<1>7. Places(u, types) = front \cup moved
  <2>1. ASSUME NEW i \in Places(u, types) PROVE i \in front \/ i \in moved
    <3>1. i \in 1..n + Len(t) /\ u[i].type \in types
      BY <1>1, <2>1 DEF Places
    <3>2. CASE i =< n
      BY <1>1, <1>3, <3>1, <3>2
    <3>3. CASE ~(i =< n)
      <4>1. i - n \in 1..Len(t) /\ t[i - n].type \in types /\ n + (i - n) = i
        BY <1>1, <3>1, <3>3
      <4>2. i - n \in back
        BY <1>3, <4>1
      <4>3. n + (i - n) \in moved
        BY <1>4, <4>2
      <4> QED BY <4>1, <4>3
    <3> QED BY <3>2, <3>3
  <2>2. ASSUME NEW i \in front PROVE i \in Places(u, types)
    BY <1>1, <1>3, <2>2 DEF Places
  <2>3. ASSUME NEW i \in moved PROVE i \in Places(u, types)
    <3>1. i - n \in 1..Len(t) /\ t[i - n].type \in types /\ i > n /\ i \in Int
      BY <1>1, <1>3, <1>4, <2>3
    <3>2. i \in 1..n + Len(t) /\ ~(i =< n)
      BY <1>1, <3>1
    <3> QED BY <1>1, <3>1, <3>2 DEF Places
  <2> QED BY <2>1, <2>2, <2>3
<1>8. front \cap moved = {}
  BY <1>1, <1>3, <1>4
<1> HIDE DEF moved
<1>9. Cardinality(front \cup moved) = Cardinality(front) + Cardinality(moved) - Cardinality(front \cap moved)
  BY <1>2, <1>6, FS_Union
<1>10. Cardinality(front \cap moved) = 0
  BY <1>8, FS_EmptySet
<1> QED BY <1>2, <1>6, <1>7, <1>9, <1>10 DEF Count, u, front, back

LEMMA CountOne ==
  ASSUME NEW e, NEW types
  PROVE  /\ Count(<<e>>, types) = IF e.type \in types THEN 1 ELSE 0
         /\ Count(<<>>, types) = 0
<1> DEFINE s == <<e>>
<1>1. Len(s) = 1 /\ s[1] = e
  OBVIOUS
<1> HIDE DEF s
<1>2. Places(s, types) = IF e.type \in types THEN {1} ELSE {}
  BY <1>1 DEF Places
<1>3. Places(<<>>, types) = {}
  BY DEF Places
<1> QED BY <1>2, <1>3, FS_Singleton, FS_EmptySet DEF Count, s

LEMMA CountAppend ==
  ASSUME NEW S, NEW s \in Seq(S), NEW e \in S, NEW types
  PROVE  Count(Append(s, e), types) = Count(s, types) + (IF e.type \in types THEN 1 ELSE 0)
<1> DEFINE one == <<e>>
<1>1. one \in Seq(S) /\ Append(s, e) = s \o one
  BY AppendIsConcat
<1>2. Count(one, types) = IF e.type \in types THEN 1 ELSE 0
  BY CountOne
<1> HIDE DEF one
<1> QED BY <1>1, <1>2, CountConcat

LEMMA CountTail ==
  ASSUME NEW S, NEW s \in Seq(S), s # <<>>, NEW types
  PROVE  Count(s, types) = (IF Head(s).type \in types THEN 1 ELSE 0) + Count(Tail(s), types)
<1> DEFINE e == Head(s)
           t == Tail(s)
           one == <<e>>
<1>1. e \in S /\ t \in Seq(S)
  BY HeadTailProperties
<1>2. one \in Seq(S) /\ Append(<<>>, e) = one
  BY <1>1
<1>3. one \o t = s
  <2> DEFINE none == <<>>
  <2>1. none \in Seq(S)
    OBVIOUS
  <2>2. none \o s = s
    BY ConcatEmptySeq
  <2> HIDE DEF none
  <2>3. Append(none, Head(s)) \o Tail(s) = none \o s
    BY <2>1, MoveHead
  <2> QED BY <1>2, <2>2, <2>3 DEF none
<1>4. Count(one, types) = IF e.type \in types THEN 1 ELSE 0
  BY CountOne
<1> HIDE DEF one, e, t
<1>5. Count(one \o t, types) = Count(one, types) + Count(t, types)
  BY <1>1, <1>2, CountConcat
<1> QED BY <1>3, <1>4, <1>5 DEF e, t

LEMMA CountNone ==
  ASSUME NEW S, NEW s \in Seq(S), NEW types, \A e \in Range(s) : e.type \notin types
  PROVE  Count(s, types) = 0
<1>1. DOMAIN s = 1..Len(s)
  BY LenProperties
<1>2. Places(s, types) = {}
  BY <1>1 DEF Places, Range
<1> QED BY <1>2, FS_EmptySet DEF Count

LEMMA CountAll ==
  ASSUME NEW S, NEW s \in Seq(S), NEW these, NEW those,
         \A e \in Range(s) : e.type \in these \cup those
  PROVE  Len(s) =< Count(s, these) + Count(s, those)
<1>1. Len(s) \in Nat /\ DOMAIN s = 1..Len(s)
  BY LenProperties
<1>2. 1..Len(s) = Places(s, these) \cup Places(s, those)
  BY <1>1 DEF Places, Range
<1>3. /\ IsFiniteSet(Places(s, these)) /\ IsFiniteSet(Places(s, those))
      /\ Cardinality(Places(s, these)) \in Nat /\ Cardinality(Places(s, those)) \in Nat
  BY PlacesFinite DEF Count
<1> DEFINE common == Places(s, these) \cap Places(s, those)
<1>4. Cardinality(common) \in Nat
  <2>1. common \in SUBSET Places(s, these)
    OBVIOUS
  <2> QED BY <1>3, <2>1, FS_Subset, FS_CardinalityType
<1>5. Cardinality(1..Len(s)) = Cardinality(Places(s, these)) + Cardinality(Places(s, those)) - Cardinality(common)
  BY <1>2, <1>3, FS_Union
<1>6. Cardinality(1..Len(s)) = Len(s)
  BY <1>1, FS_Interval
<1> HIDE DEF common
<1> QED BY <1>1, <1>3, <1>4, <1>5, <1>6 DEF Count

-----------------------------------------------------------------------------
(* Everything on its way is there because the mediator sent it unasked, or *)
(* because of the one instruction the driver is waiting on.                *)

\* What the mediator sends of its own, with the acks of what it relays.
Unasked == {"RolePromotedToLeader", "ReflectionQueueDry", "Reflected", "TransactionEnded", "ReflectedAck"}

\* An instruction's requests and their answers.
Asked ==
  {"BeginTransaction", "BeginTransactionAck", "TransactionRejected",
   "CommitTransaction", "CommitTransactionAck", "Reflect", "ReflectAck"}

Held(types) == Count(Incoming, types) + Count(Outgoing, types)

\* The promotion the driver has not been told of.
Promotion == IF promoted /\ role = "none" THEN 1 ELSE 0

\* A sibling's transaction that has not ended stands for the end to be announced.
UnaskedInv ==
  Held(Unasked) + (IF holder = "sibling" THEN 1 ELSE 0)
    =< Promotion + dry + reflected + siblingTxns

\* What the wait at pc may have asked for.
Room(pc) ==
  IF pc \in {"begin", "abort"} THEN 1 ELSE IF pc = "commit" THEN MaxBatch + 1 ELSE 0

SmallReflects == "message" \in TaskSteps => MaxBatch = 0

AskedInv == Held(Asked) =< Room(e2ePc)

NoTransactions == TaskSteps \cap {"create", "update"} = {}

NoTransactionInv ==
  NoTransactions => txn = "none" /\ e2ePc \notin {"begin", "rejected", "abort", "commit"}

LEMMA HeldTypes ==
  ASSUME TypeInv, NEW types
  PROVE  /\ Held(types) \in Nat /\ Count(Incoming, types) \in Nat /\ Count(Outgoing, types) \in Nat
         /\ MaxBatch \in Nat /\ \A pc : Room(pc) \in Nat
<1>1. Incoming \in Seq(Payload) /\ Outgoing \in Seq(Payload)
  BY PipeTypes
<1>2. Count(Incoming, types) \in Nat /\ Count(Outgoing, types) \in Nat
  BY <1>1, PlacesFinite
<1> QED BY <1>2, DriverAssumption DEF Held, Room

LEMMA HeldNext == TypeInv' => (Held(Unasked) \in Nat /\ Held(Asked) \in Nat)'
<1>1. TypeInv => Held(Unasked) \in Nat /\ Held(Asked) \in Nat
  BY HeldTypes
<1> QED BY <1>1, PTL

\* A payload arrives behind all that is on its way.
LEMMA HeldAppend ==
  ASSUME TypeInv, NEW p \in Datagram, Incoming' = Append(Incoming, p), Outgoing' = Outgoing,
         NEW types
  PROVE  Held(types)' = Held(types) + (IF p.type \in types THEN 1 ELSE 0)
<1>1. Incoming \in Seq(Datagram)
  BY IncomingType
<1>2. Count(Incoming', types) = Count(Incoming, types) + (IF p.type \in types THEN 1 ELSE 0)
  BY <1>1, CountAppend
<1>3. Count(Incoming, types) \in Nat /\ Count(Outgoing, types) \in Nat
  BY HeldTypes
<1> QED BY <1>2, <1>3 DEF Held

\* The mediator connection and the mediator's answers add to neither.
LEMMA HeldD2m ==
  ASSUME TypeInv, PromotionInv, D2mRuns, NEW types \in {Unasked, Asked}
  PROVE  Held(types)' =< Held(types)
<1> USE PipeTypes, HeldTypes
<1>1. outD2m' = outD2m
  BY DEF D2mRuns, driver
<1>2. ASSUME Incoming' = Incoming, Outgoing' = Outgoing PROVE Held(types)' =< Held(types)
  BY <1>2 DEF Held
<1>3. CASE D2mHandshake
  <2>1. Outgoing' = Outgoing
    BY <1>1, <1>3 DEF D2mHandshake, channels, Outgoing
  <2>2. CASE Incoming # <<>> /\ Incoming' = Tail(Incoming)
    <3>1. Count(Incoming, types) = (IF Head(Incoming).type \in types THEN 1 ELSE 0) + Count(Incoming', types)
      BY <2>2, CountTail
    <3>2. Tail(Incoming) \in Seq(Payload)
      BY <2>2, HeadTailProperties
    <3>3. Count(Incoming', types) \in Nat
      BY <2>2, <3>2, PlacesFinite
    <3> QED BY <2>1, <3>1, <3>3 DEF Held
  <2> QED BY <1>2, <1>3, <2>1, <2>2, D2mMoves
<1>4. CASE D2mReceive \/ D2mForward
  <2>1. Outgoing' = Outgoing
    BY <1>1, <1>4 DEF D2mReceive, D2mForward, channels, Outgoing
  <2> QED BY <1>2, <1>4, <2>1, D2mMoves
<1>5. CASE D2mFlowEnds
  <2>1. Outgoing' = outD2m /\ Incoming' = Incoming
    BY <1>1, <1>5, OutgoingMoves, D2mMoves
  <2>2. /\ Count(Outgoing, types) = Count(d2mOut, types) + Count(outD2m, types)
        /\ Count(d2mOut, types) \in Nat /\ Count(outD2m, types) \in Nat
    BY CountConcat, PlacesFinite DEF Outgoing
  <2> QED BY <2>1, <2>2 DEF Held
<1>6. CASE D2mSend
  <2> DEFINE p == Head(Outgoing)
             asks == IF p.type \in types THEN 1 ELSE 0
  <2>1. Outgoing # <<>> /\ Outgoing' = Tail(Outgoing)
    BY <1>1, <1>6, OutgoingMoves
  <2>2. Count(Outgoing, types) = asks + Count(Outgoing', types) /\ Count(Outgoing', types) \in Nat
    <3>1. Tail(Outgoing) \in Seq(Payload)
      BY <2>1, HeadTailProperties
    <3>2. Count(Outgoing', types) \in Nat
      BY <2>1, <3>1, PlacesFinite
    <3> QED BY <2>1, <3>2, CountTail
  <2>3. CASE Incoming' = Incoming
    BY <2>2, <2>3 DEF Held
  <2>4. ASSUME NEW q \in Datagram, Incoming' = Append(Incoming, q), q.type \in types => p.type \in types
        PROVE  Held(types)' =< Held(types)
    <3> DEFINE answer == IF q.type \in types THEN 1 ELSE 0
               held == Count(Incoming, types)
               asked == Count(Outgoing', types)
    <3>1. Count(Incoming', types) = held + answer
      BY <2>4, IncomingType, CountAppend
    <3>2. held \in Nat /\ asked \in Nat
      BY <2>2, HeldTypes
    <3>3. asks \in {0, 1} /\ answer \in {0, 1} /\ answer =< asks
      BY <2>4
    <3>4. Held(types) = held + (asks + asked) /\ Held(types)' = (held + answer) + asked
      BY <2>2, <3>1 DEF Held
    <3> HIDE DEF answer, held, asked, asks
    <3> QED BY <3>2, <3>3, <3>4
  <2>5. CASE d2mLink = "closed"
    BY <1>6, <2>3, <2>5, D2mMoves
  <2>6. CASE d2mLink # "closed"
    <3>1. /\ p \in D2mOutPayload
          /\ \/ /\ p.type = "BeginTransaction"
                /\ Incoming' = Append(Incoming, Plain(IF holder = "nobody" THEN "BeginTransactionAck"
                                                      ELSE "TransactionRejected"))
             \/ /\ p.type = "CommitTransaction"
                /\ Incoming' = Append(Incoming, Plain("CommitTransactionAck"))
             \/ /\ p.type = "Reflect"
                /\ Incoming' = IF p.ephemeral THEN Incoming
                               ELSE Append(Incoming, [type |-> "ReflectAck", id |-> p.id])
             \/ Incoming' = Incoming
      BY <1>6, <2>6, Written
    <3>2. p.id \in Nat \cup ReflectId
      BY <3>1 DEF D2mOutPayload
    <3> HIDE DEF p
    <3>3. ASSUME NEW q \in Datagram, Incoming' = Append(Incoming, q),
                 q.type \in Asked, p.type \in Asked
          PROVE  Held(types)' =< Held(types)
      BY <2>4, <3>3 DEF Asked, Unasked
    <3>4. ASSUME NEW type \in {"BeginTransactionAck", "TransactionRejected", "CommitTransactionAck"},
                 Incoming' = Append(Incoming, Plain(type)),
                 p.type \in {"BeginTransaction", "CommitTransaction"}
          PROVE  Held(types)' =< Held(types)
      <4> DEFINE q == Plain(type)
      <4>1. q \in Datagram /\ q.type \in Asked
        BY DEF Plain, Datagram, D2mInPayload, Asked
      <4>2. Incoming' = Append(Incoming, q) /\ p.type \in Asked
        BY <3>4 DEF Asked
      <4> HIDE DEF q
      <4> QED BY <3>3, <4>1, <4>2
    <3>5. ASSUME p.type = "Reflect", Incoming' = Append(Incoming, [type |-> "ReflectAck", id |-> p.id])
          PROVE  Held(types)' =< Held(types)
      <4> DEFINE q == [type |-> "ReflectAck", id |-> p.id]
      <4>1. q \in Datagram /\ q.type \in Asked
        BY <3>2 DEF Datagram, D2mInPayload, Asked
      <4>2. Incoming' = Append(Incoming, q) /\ p.type \in Asked
        BY <3>5 DEF Asked
      <4> HIDE DEF q
      <4> QED BY <3>3, <4>1, <4>2
    <3> QED BY <2>3, <3>1, <3>4, <3>5
  <2> QED BY <2>5, <2>6
<1> QED BY <1>3, <1>4, <1>5, <1>6 DEF D2mRuns, D2mNext

\* The driver takes the front; an ack of an envelope takes the envelope's place.
LEMMA HeldTakes ==
  ASSUME TypeInv, DriverRuns, OnD2m
  PROVE  /\ Held(Unasked)' =< Held(Unasked)
         /\ OnReflected \/ Held(Unasked)' = Held(Unasked) - (IF Head(d2mIn).type \in Unasked THEN 1 ELSE 0)
         /\ Held(Asked)' = Held(Asked) - (IF Head(d2mIn).type \in Asked THEN 1 ELSE 0)
<1> USE PipeTypes, HeldTypes
<1> DEFINE p == Head(d2mIn)
<1>1. /\ Incoming # <<>> /\ Head(Incoming) = p /\ Incoming' = Tail(Incoming)
      /\ \/ Outgoing' = Outgoing
         \/ OnReflected /\ \E ack \in D2mOutPayload :
              ack.type = "ReflectedAck" /\ Outgoing' = Append(Outgoing, ack)
  BY PipeTake
<1>2. Tail(Incoming) \in Seq(Payload)
  BY <1>1, HeadTailProperties
<1> HIDE DEF p
<1>3. ASSUME NEW types
      PROVE  /\ Count(Incoming', types) \in Nat
             /\ Count(Incoming, types) = (IF p.type \in types THEN 1 ELSE 0) + Count(Incoming', types)
  <2>1. Incoming \in Seq(Payload) /\ Incoming # <<>> /\ Head(Incoming) = p /\ Incoming' = Tail(Incoming)
    BY <1>1
  <2> QED BY <1>2, <2>1, CountTail, PlacesFinite
<1>4. ASSUME NEW types, Count(Outgoing', types) = Count(Outgoing, types)
      PROVE  /\ Held(types)' = Held(types) - (IF p.type \in types THEN 1 ELSE 0)
             /\ Held(types) \in Nat /\ Held(types)' =< Held(types)
  <2>1. Count(Outgoing, types) \in Nat
    OBVIOUS
  <2>2. Held(types)' = Count(Incoming', types) + Count(Outgoing', types)
    BY DEF Held
  <2>3. Held(types) = Count(Incoming, types) + Count(Outgoing, types)
    BY DEF Held
  <2> DEFINE took   == IF p.type \in types THEN 1 ELSE 0
             before == Count(Incoming, types)
             after  == Count(Incoming', types)
             out    == Count(Outgoing, types)
  <2>4. before = took + after /\ after \in Nat /\ took \in Nat /\ out \in Nat
    BY <1>3, <2>1
  <2>5. Held(types)' = after + out /\ Held(types) = before + out
    BY <1>4, <2>2, <2>3
  <2>6. SUFFICES Held(types)' = Held(types) - took /\ Held(types) \in Nat /\ Held(types)' =< Held(types)
    OBVIOUS
  <2> HIDE DEF took, before, after, out
  <2> QED BY <2>4, <2>5
<1>5. CASE Outgoing' = Outgoing
  BY <1>4, <1>5 DEF p
<1>6. ASSUME NEW ack \in D2mOutPayload, ack.type = "ReflectedAck", Outgoing' = Append(Outgoing, ack),
             OnReflected
      PROVE  /\ Held(Unasked)' =< Held(Unasked)
             /\ Held(Asked)' = Held(Asked) - (IF p.type \in Asked THEN 1 ELSE 0)
  <2>1. p.type \in Unasked
    BY <1>6 DEF OnReflected, Receives, Unasked, p
  <2>2. /\ ack.type \in Unasked /\ ack.type \notin Asked /\ ack \in Payload
        /\ Outgoing \in Seq(Payload)
    BY <1>6 DEF Unasked, Asked, Payload
  <2>3. /\ Count(Outgoing', Unasked) = Count(Outgoing, Unasked) + 1
        /\ Count(Outgoing, Unasked) \in Nat
    BY <1>6, <2>2, CountAppend
  <2>4. Count(Outgoing', Asked) = Count(Outgoing, Asked) + 0
        /\ Count(Outgoing, Asked) \in Nat
    BY <1>6, <2>2, CountAppend
  <2>5. Held(Asked)' = Held(Asked) - (IF p.type \in Asked THEN 1 ELSE 0)
    BY <1>4, <2>4
  <2>6. Count(Incoming, Unasked) = 1 + Count(Incoming', Unasked) /\ Count(Incoming', Unasked) \in Nat
    BY <1>3, <2>1
  <2>7. Held(Unasked)' = Count(Incoming', Unasked) + Count(Outgoing', Unasked)
        /\ Held(Unasked) = Count(Incoming, Unasked) + Count(Outgoing, Unasked)
    BY DEF Held
  <2>8. Held(Unasked)' =< Held(Unasked)
    BY <2>3, <2>6, <2>7
  <2> QED BY <2>5, <2>8
<1> QED BY <1>1, <1>5, <1>6 DEF p

\* What an instruction sends is counted with what it asks for.
LEMMA HeldPolls ==
  ASSUME TypeInv, DriverRuns,
         PollBeginTransaction \/ PollAbortTransaction \/ PollReflectAndCommit \/ PollReflectMessage
  PROVE  /\ Held(Unasked)' = Held(Unasked)
         /\ Held(Asked)' =< Held(Asked) + (IF PollReflectMessage THEN MaxBatch ELSE Room(e2ePc'))
<1> USE HeldTypes
<1>1. outD2m = <<>> /\ UNCHANGED <<d2mIn, d2mOut>>
  BY DEF PollBeginTransaction, PollAbortTransaction, PollReflectAndCommit, PollReflectMessage, Polls,
         Quiet, channels
<1>2. ASSUME outD2m' \in Seq(D2mOutPayload), \A p \in Range(outD2m') : p.type \notin Unasked
      PROVE  /\ Held(Unasked)' = Held(Unasked)
             /\ Held(Asked)' =< Held(Asked) + Len(outD2m') /\ Held(Asked)' \in Nat
  <2>1. /\ outD2m' \in Seq(Payload) /\ Outgoing \in Seq(Payload)
        /\ Incoming' = Incoming /\ Outgoing' = Outgoing \o outD2m'
    BY <1>1, <1>2, PipeGrows, PipeTypes
  <2>2. \A types : Count(Outgoing', types) = Count(Outgoing, types) + Count(outD2m', types)
    BY <2>1, CountConcat
  <2>3. Count(outD2m', Unasked) = 0
    BY <1>2, <2>1, CountNone
  <2>4. Count(outD2m', Asked) \in Nat /\ Count(outD2m', Asked) =< Len(outD2m') /\ Len(outD2m') \in Nat
    BY <2>1, PlacesFinite, LenProperties
  <2>5. \A types : Held(types)' = Held(types) + Count(outD2m', types)
    <3> TAKE types
    <3>1. /\ Held(types)' = Count(Incoming', types) + Count(Outgoing', types)
          /\ Held(types) = Count(Incoming, types) + Count(Outgoing, types)
      BY DEF Held
    <3>2. Count(Incoming, types) \in Nat /\ Count(Outgoing, types) \in Nat
          /\ Count(outD2m', types) \in Nat
      BY <2>1, PlacesFinite
    <3> QED BY <2>1, <2>2, <3>1, <3>2
  <2>6. Held(Unasked) \in Nat /\ Held(Asked) \in Nat
    OBVIOUS
  <2> QED BY <2>3, <2>4, <2>5, <2>6
<1>3. ASSUME NEW type \in {"BeginTransaction", "CommitTransaction"}, outD2m' = <<Out(type)>>
      PROVE  /\ outD2m' \in Seq(D2mOutPayload) /\ Len(outD2m') = 1
             /\ \A p \in Range(outD2m') : p.type \notin Unasked
  <2> DEFINE p == Out(type)
             one == <<p>>
  <2>1. p \in D2mOutPayload /\ p.type = type
    <3>1. FALSE \in BOOLEAN
      BY Zenon
    <3> QED BY <3>1 DEF Out, D2mOutPayload
  <2> HIDE DEF p
  <2>2. one \in Seq(D2mOutPayload) /\ DOMAIN one = {1} /\ one[1] = p /\ Len(one) = 1
    BY <2>1
  <2>3. outD2m' = one
    BY <1>3 DEF p
  <2> HIDE DEF one
  <2> QED BY <2>1, <2>2, <2>3 DEF Range, Unasked
<1> DEFINE held  == Held(Asked)
           now   == Held(Asked)'
           sent1 == outD2m'
<1>4. ASSUME outD2m' \in Seq(D2mOutPayload), \A p \in Range(outD2m') : p.type \notin Unasked
      PROVE  Held(Unasked)' = Held(Unasked) /\ now =< held + Len(sent1) /\ now \in Nat
  BY <1>2, <1>4
<1>5. held \in Nat /\ MaxBatch \in Nat
  OBVIOUS
<1>6. SUFFICES Held(Unasked)' = Held(Unasked)
               /\ now =< held + (IF PollReflectMessage THEN MaxBatch ELSE Room(e2ePc'))
  OBVIOUS
<1>7. CASE PollBeginTransaction \/ PollAbortTransaction
  <2>1. e2ePc' \in {"begin", "abort"} /\ ~PollReflectMessage
    BY <1>7 DEF PollBeginTransaction, PollAbortTransaction, PollReflectMessage
  <2>2. Room(e2ePc') = 1
    BY <2>1 DEF Room
  <2>3. Held(Unasked)' = Held(Unasked) /\ now =< held + Len(sent1) /\ Len(sent1) = 1
    BY <1>3, <1>4, <1>7 DEF PollBeginTransaction, PollAbortTransaction
  <2> HIDE DEF held, now, sent1
  <2> QED BY <2>1, <2>2, <2>3
<1>8. CASE PollReflectAndCommit
  <2>1. e2ePc' = "commit" /\ ~PollReflectMessage
    BY <1>8 DEF PollReflectAndCommit, PollReflectMessage
  <2>2. Room(e2ePc') = MaxBatch + 1
    BY <2>1 DEF Room
  <2>3. PICK batch \in Seq(D2mOutPayload), commit \in D2mOutPayload :
           /\ outD2m' = Append(batch, commit) /\ commit.type = "CommitTransaction"
           /\ Len(batch) =< MaxBatch /\ \A p \in Range(batch) : IsReflect(p)
    BY <1>8, ReflectAndCommitSends
  <2>4. /\ Range(outD2m') = Range(batch) \cup {commit} /\ outD2m' \in Seq(D2mOutPayload)
        /\ Len(sent1) = Len(batch) + 1 /\ Len(batch) \in Nat
    BY <2>3, RangeAppend, AppendProperties, LenProperties
  <2>5. \A p \in Range(outD2m') : p.type \notin Unasked
    BY <2>3, <2>4 DEF IsReflect, Unasked
  <2>6. Held(Unasked)' = Held(Unasked) /\ now =< held + Len(sent1) /\ now \in Nat
    BY <1>4, <2>4, <2>5
  <2> HIDE DEF held, now, sent1
  <2>7. now =< held + (MaxBatch + 1)
    BY <1>5, <2>3, <2>4, <2>6
  <2> QED BY <2>1, <2>2, <2>6, <2>7
<1>9. CASE PollReflectMessage
  <2>1. /\ outD2m' \in Seq(D2mOutPayload) /\ Len(sent1) =< MaxBatch
        /\ \A p \in Range(outD2m') : p.type = "Reflect"
    BY <1>9, ReflectSends
  <2>2. (\A p \in Range(outD2m') : p.type \notin Unasked) /\ Len(sent1) \in Nat
    BY <2>1, LenProperties DEF Unasked
  <2>3. Held(Unasked)' = Held(Unasked) /\ now =< held + Len(sent1) /\ now \in Nat
    BY <1>4, <2>1, <2>2
  <2> HIDE DEF held, now, sent1
  <2>4. now =< held + MaxBatch
    BY <1>5, <2>1, <2>2, <2>3
  <2> QED BY <1>9, <2>3, <2>4
<1> QED BY <1>7, <1>8, <1>9

LEMMA UnaskedStep ==
  ASSUME TypeInv, TypeInv', PromotionInv, PipeInv, CompleteInv, UnaskedInv, [Next]_vars
  PROVE  UnaskedInv'
<1> USE HeldTypes
<1>0. dry \in Nat /\ reflected \in Nat /\ siblingTxns \in Nat /\ promoted \in BOOLEAN
  BY MediatorAssumption DEF TypeInv, TypeOK, D2mTypeOK
<1>1. ASSUME Held(Unasked)' =< Held(Unasked), Held(Unasked)' \in Int,
             holder' = "sibling" => holder = "sibling",
             UNCHANGED <<promoted, role, dry, reflected, siblingTxns>>
      PROVE  UnaskedInv'
  BY <1>0, <1>1 DEF UnaskedInv, Promotion
<1>2. Held(Unasked)' \in Nat
  BY HeldNext
<1>3. CASE D2mRuns
  <2>1. UNCHANGED <<promoted, role, dry, reflected, siblingTxns>>
    BY <1>3 DEF D2mRuns, D2mNext, D2mHandshake, D2mReceive, D2mForward, D2mSend, D2mFlowEnds,
                MediatorReceives, mediator, driver
  <2>2. holder' = "sibling" => holder = "sibling"
    <3>1. D2mSend => holder' = holder \/ holder' \in {"client", "nobody"}
      BY DEF D2mSend, MediatorReceives
    <3> QED BY <1>3, <3>1 DEF D2mRuns, D2mNext, D2mHandshake, D2mReceive, D2mForward, D2mFlowEnds,
                              mediator
  <2> QED BY <1>1, <1>2, <1>3, <2>1, <2>2, HeldD2m
<1>4. CASE MediatorActs
  <2>1. d2mIn' = d2mIn /\ d2mHand' = d2mHand /\ Outgoing' = Outgoing /\ role' = role
    BY <1>4 DEF MediatorActs, channels, d2m, driver, Outgoing
  <2>2. ASSUME NEW p \in Datagram, Sends(p), p.type \in Unasked
        PROVE  Held(Unasked)' = Held(Unasked) + 1
    <3>1. Incoming' = Append(Incoming, p)
      BY <2>1, <2>2, SentLast DEF Sends
    <3> QED BY <2>1, <2>2, <3>1, HeldAppend
  <2>3. \A type \in {"RolePromotedToLeader", "ReflectionQueueDry", "TransactionEnded"} :
          Plain(type) \in Datagram /\ Plain(type).type \in Unasked
    BY DEF Plain, Datagram, D2mInPayload, Unasked
  <2>4. [type |-> "Reflected", id |-> reflected + 1] \in Datagram
        /\ [type |-> "Reflected", id |-> reflected + 1].type \in Unasked
    BY <1>0 DEF Datagram, D2mInPayload, Unasked
  <2>5. CASE MediatorPromotes
    <3>1. Held(Unasked)' = Held(Unasked) + 1
      BY <2>2, <2>3, <2>5 DEF MediatorPromotes
    <3>2. role \in {"none", "leader"}
      BY DEF TypeInv, TypeOK, DriverTypeOK
    <3>3. promoted' /\ ~promoted /\ role = "none" /\ UNCHANGED <<role, dry, holder, reflected, siblingTxns>>
      BY <1>0, <2>1, <2>5, <3>2 DEF MediatorPromotes, PromotionInv
    <3> QED BY <1>0, <3>1, <3>3 DEF UnaskedInv, Promotion
  <2>6. CASE MediatorRunsDry
    <3>1. Held(Unasked)' = Held(Unasked) + 1
      BY <2>2, <2>3, <2>6 DEF MediatorRunsDry
    <3> QED BY <1>0, <2>1, <2>6, <3>1 DEF MediatorRunsDry, UnaskedInv, Promotion
  <2>7. CASE MediatorReflects
    <3>1. Held(Unasked)' = Held(Unasked) + 1
      BY <2>2, <2>4, <2>7 DEF MediatorReflects
    <3> QED BY <1>0, <2>1, <2>7, <3>1 DEF MediatorReflects, UnaskedInv, Promotion
  <2>8. CASE SiblingEnds
    <3>1. Held(Unasked)' = Held(Unasked) + 1
      BY <2>2, <2>3, <2>8 DEF SiblingEnds
    <3> QED BY <1>0, <2>1, <2>8, <3>1 DEF SiblingEnds, UnaskedInv, Promotion
  <2>9. CASE SiblingBegins \/ MediatorCloses
    <3>1. Held(Unasked)' = Held(Unasked)
      BY <2>1, <2>9 DEF SiblingBegins, MediatorCloses, Held, Incoming
    <3> QED BY <1>0, <2>1, <2>9, <3>1 DEF SiblingBegins, MediatorCloses, UnaskedInv, Promotion
  <2> QED BY <1>4, <2>5, <2>6, <2>7, <2>8, <2>9 DEF MediatorActs
<1>5. CASE ConnectD2m
  <2>1. UNCHANGED <<holder, promoted, role, dry, reflected, siblingTxns>>
    BY <1>5 DEF ConnectD2m, D2mConnect, driver
  <2>2. Held(Unasked)' = Held(Unasked)
    <3>1. Plain("Handshake") \in Datagram /\ Plain("Handshake").type \notin Unasked
      BY DEF Plain, Datagram, Unasked
    <3>2. Outgoing' = Outgoing
          /\ (Incoming' = Incoming \/ Incoming' = Append(Incoming, Plain("Handshake")))
      BY <1>5, PipeInvConnect
    <3>3. CASE Incoming' = Incoming
      BY <3>2, <3>3 DEF Held
    <3>4. CASE Incoming' = Append(Incoming, Plain("Handshake"))
      BY <3>1, <3>2, <3>4, HeldAppend
    <3> QED BY <3>2, <3>3, <3>4
  <2> QED BY <1>1, <1>2, <2>1, <2>2
<1>6. CASE DriverRuns
  <2>1. UNCHANGED <<holder, promoted, dry, reflected, siblingTxns>>
    BY <1>6 DEF DriverRuns, mediator
  <2>2. Held(Unasked)' =< Held(Unasked)
    <3>1. CASE \/ SendCsp \/ SendD2m \/ TakeCspPayload \/ PollFetchSender \/ PollTransactionRejected
               \/ PollDone \/ SenderFetched \/ ReflectReturns
      <4>1. Incoming' = Incoming /\ Outgoing' = Outgoing
        BY <1>6, <3>1, PipeInvOthers
      <4> QED BY <4>1 DEF Held
    <3> QED BY <1>6, <3>1, HeldTakes, HeldPolls DEF DriverRuns, DriverNext, Polling
  <2>3. CASE OnPromotion
    <3>1. Held(Unasked)' = Held(Unasked) - 1
      <4>1. OnD2m /\ ~OnReflected /\ Head(d2mIn).type \in Unasked
        BY <2>3 DEF OnD2m, OnPromotion, OnReflected, Receives, Unasked
      <4> QED BY <1>6, <4>1, HeldTakes
    <3>2. promoted /\ role = "none" /\ role' = "leader"
      <4>1. Head(d2mIn).type = "RolePromotedToLeader" /\ role' = "leader" /\ OnD2m
        BY <2>3 DEF OnPromotion, Receives, OnD2m
      <4>2. Incoming # <<>> /\ Head(Incoming) = Head(d2mIn)
        BY <1>6, <4>1, PipeTake
      <4>3. 1 \in 1..Len(Incoming) /\ Incoming[1] = Head(Incoming)
        BY <4>2, PipeTypes, EmptySeq, HeadTailProperties
      <4>4. IsPromotion(Incoming, 1)
        BY <4>1, <4>2, <4>3 DEF IsPromotion
      <4> QED BY <4>1, <4>3, <4>4 DEF PromotionInv
    <3> QED BY <1>0, <2>1, <3>1, <3>2 DEF UnaskedInv, Promotion
  <2>4. CASE ~OnPromotion
    <3>1. role' = role
      BY <1>6, <2>4 DEF DriverRuns, DriverNext, SendCsp, SendD2m, TakeCspPayload, SenderFetched,
           ReflectReturns, Polling, PollFetchSender, PollBeginTransaction, PollTransactionRejected,
           PollAbortTransaction, PollReflectAndCommit, PollReflectMessage, PollDone, OnD2m,
           OnBeginReply, OnTransactionEnded, OnCommitAck, OnReflectAck, OnReflected, DropUnsolicited,
           driver
    <3> QED BY <1>1, <1>2, <2>1, <2>2, <3>1
  <2> QED BY <2>3, <2>4
<1>7. CASE \/ CspRuns \/ ChatServerActs \/ ConnectFails \/ ConnectCsp
           \/ TakeSendText \/ RunEnds \/ DropSender \/ UNCHANGED vars
           \/ \E command \in {"SendText", "Shutdown"} : Command(command)
  <2>1. UNCHANGED <<d2mIn, d2mOut, d2m, mediator, driver>>
    BY <1>7 DEF CspRuns, CspNext, CspStart, CspHandshake, CspPoll, CspForward, CspRead, CspSend,
         ChatServerActs, ConnectFails, ConnectCsp, TakeSendText, RunEnds, DropSender, Command,
         channels, vars
  <2>2. UNCHANGED <<Incoming, Outgoing, holder, promoted, role, dry, reflected, siblingTxns>>
    BY <2>1 DEF d2m, mediator, driver, Incoming, Outgoing
  <2> QED BY <2>2 DEF UnaskedInv, Promotion, Held
<1> QED BY <1>3, <1>4, <1>5, <1>6, <1>7 DEF Next

\* The driver is told what an instruction has asked for while it waits for it.
LEMMA AskedTakes ==
  ASSUME TypeInv, TypeInv', PipeInv, AskedInv, DriverRuns, OnD2m
  PROVE  AskedInv'
<1> DEFINE held == Held(Asked)
           now  == Held(Asked)'
           kind == Head(d2mIn).type
<1>1. held \in Nat /\ now \in Nat /\ \A pc : Room(pc) \in Nat
  BY HeldTypes, HeldNext
<1>2. now = held - (IF kind \in Asked THEN 1 ELSE 0)
  BY HeldTakes
<1>3. SUFFICES now =< Room(e2ePc')
  BY DEF AskedInv
<1>4. held =< Room(e2ePc)
  BY DEF AskedInv
<1>5. ASSUME NEW type \in {"BeginTransactionAck", "TransactionRejected"}, OnBeginReply(type)
      PROVE  now =< Room(e2ePc')
  <2>1. e2ePc = "begin" /\ e2ePc' = "poll" /\ kind \in Asked
    BY <1>5 DEF OnBeginReply, Receives, Asked
  <2>2. Room(e2ePc) = 1 /\ Room(e2ePc') = 0
    BY <2>1 DEF Room
  <2> HIDE DEF held, now, kind
  <2> QED BY <1>1, <1>2, <1>4, <2>1, <2>2
<1>6. CASE OnTransactionEnded
  <2>1. e2ePc = "rejected" /\ e2ePc' = "poll" /\ kind \notin Asked
    BY <1>6 DEF OnTransactionEnded, Receives, Asked
  <2>2. Room(e2ePc) = 0 /\ Room(e2ePc') = 0
    BY <2>1 DEF Room
  <2> HIDE DEF held, now, kind
  <2> QED BY <1>1, <1>2, <1>4, <2>1, <2>2
<1>7. CASE OnCommitAck
  <2>1. kind = "CommitTransactionAck" /\ e2ePc \in {"abort", "commit"}
    BY <1>7 DEF OnCommitAck, Receives
  <2>2. /\ Incoming # <<>> /\ Head(Incoming) = Head(d2mIn) /\ Incoming' = Tail(Incoming)
        /\ Outgoing' = Outgoing
    <3>1. ~OnReflected
      BY <2>1 DEF OnReflected, Receives
    <3> QED BY <3>1, PipeTake
  <2>3. Incoming \in Seq(Payload) /\ Tail(Incoming) \in Seq(Payload) /\ Outgoing \in Seq(Payload)
    BY <2>2, PipeTypes, HeadTailProperties
  <2>4. Range(Incoming) = {Head(Incoming)} \cup Range(Tail(Incoming))
    BY <2>2, <2>3, RangeTail
  <2>5. \A q \in Range(Tail(Incoming)) \cup Range(Outgoing) : ~IsBegin(q) /\ ~IsCommit(q) /\ ~IsReflect(q)
    <3>1. IsCommit(Head(Incoming))
      BY <2>1, <2>2 DEF IsCommit
    <3>2. \A q \in Range(Tail(Incoming)) \cup Range(Outgoing) : ~IsCommit(q) /\ ~IsReflect(q)
      BY <2>2, <3>1, FrontFacts
    <3>3. \A q \in Range(Incoming) \cup Range(Outgoing) : ~IsBegin(q)
      BY <2>1, PipeFacts
    <3> QED BY <2>4, <3>2, <3>3
  <2>6. /\ \A q \in Range(Incoming') : q.type \notin Asked
        /\ \A q \in Range(Outgoing') : q.type \notin Asked
    BY <2>2, <2>5 DEF IsBegin, IsCommit, IsReflect, Asked
  <2>7. Count(Incoming', Asked) = 0
    BY <2>2, <2>3, <2>6, CountNone
  <2>8. Count(Outgoing', Asked) = 0
    BY <2>2, <2>3, <2>6, CountNone
  <2>9. now = 0
    BY <2>7, <2>8 DEF Held
  <2> HIDE DEF now
  <2> QED BY <1>1, <2>9
<1>8. CASE OnReflectAck \/ OnPromotion \/ OnReflected \/ DropUnsolicited
  <2>1. e2ePc' = e2ePc
    BY <1>8 DEF OnReflectAck, OnPromotion, OnReflected, DropUnsolicited, driver
  <2>2. Room(e2ePc') = Room(e2ePc)
    BY <2>1
  <2> HIDE DEF held, now, kind
  <2> QED BY <1>1, <1>2, <1>4, <2>2
<1> QED BY <1>5, <1>6, <1>7, <1>8 DEF OnD2m

LEMMA AskedDriver ==
  ASSUME TypeInv, TypeInv', PipeInv, CompleteInv, SmallReflects, AskedInv, DriverRuns
  PROVE  AskedInv'
<1> DEFINE held == Held(Asked)
           now  == Held(Asked)'
<1>1. held \in Nat /\ now \in Nat /\ MaxBatch \in Nat /\ \A pc : Room(pc) \in Nat
  BY HeldTypes, HeldNext
<1>2. SUFFICES now =< Room(e2ePc')
  BY DEF AskedInv
<1>3. held =< Room(e2ePc)
  BY DEF AskedInv
<1>4. CASE PollBeginTransaction \/ PollAbortTransaction \/ PollReflectAndCommit \/ PollReflectMessage
  <2>1. e2ePc = "poll"
    BY <1>4 DEF PollBeginTransaction, PollAbortTransaction, PollReflectAndCommit, PollReflectMessage,
                Polls
  <2>2. held = 0
    <3>1. Room(e2ePc) = 0
      BY <2>1 DEF Room
    <3> HIDE DEF held
    <3> QED BY <1>1, <1>3, <3>1
  <2>3. now =< held + (IF PollReflectMessage THEN MaxBatch ELSE Room(e2ePc'))
    BY <1>4, HeldPolls
  <2>4. CASE PollReflectMessage
    <3>1. MaxBatch = 0
      BY <2>4 DEF PollReflectMessage, Polls, SmallReflects
    <3> HIDE DEF held, now
    <3>2. now = 0
      BY <1>1, <2>2, <2>3, <2>4, <3>1
    <3> QED BY <1>1, <3>2
  <2>5. CASE ~PollReflectMessage
    <3> HIDE DEF held, now
    <3> QED BY <1>1, <2>2, <2>3, <2>5
  <2> QED BY <2>4, <2>5
<1>5. CASE \/ SendCsp \/ SendD2m \/ TakeCspPayload \/ PollFetchSender \/ PollTransactionRejected
           \/ PollDone \/ SenderFetched \/ ReflectReturns
  <2>1. now = held
    <3>1. Incoming' = Incoming /\ Outgoing' = Outgoing
      BY <1>5, PipeInvOthers
    <3> QED BY <3>1 DEF Held
  <2>2. e2ePc' = e2ePc \/ e2ePc \in {"idle", "poll", "fetch", "reflect"}
    BY <1>5 DEF SendCsp, SendD2m, TakeCspPayload, PollFetchSender, PollTransactionRejected,
                PollDone, SenderFetched, ReflectReturns, Polls
  <2>3. e2ePc \in {"idle", "poll", "fetch", "reflect"} => Room(e2ePc) = 0
    BY DEF Room
  <2> HIDE DEF held, now
  <2> QED BY <1>1, <1>3, <2>1, <2>2, <2>3
<1>6. CASE OnD2m
  BY <1>6, AskedTakes DEF AskedInv
<1> HIDE DEF now
<1> QED BY <1>4, <1>5, <1>6 DEF DriverRuns, DriverNext, Polling

LEMMA AskedStep ==
  ASSUME TypeInv, TypeInv', PromotionInv, PipeInv, CompleteInv, SmallReflects, AskedInv, [Next]_vars
  PROVE  AskedInv'
<1>1. Held(Asked) \in Nat /\ Held(Asked)' \in Nat /\ \A pc : Room(pc) \in Nat
  BY HeldTypes, HeldNext
<1>2. ASSUME Held(Asked)' =< Held(Asked), e2ePc' = e2ePc PROVE AskedInv'
  BY <1>1, <1>2 DEF AskedInv
<1>3. CASE D2mRuns
  BY <1>2, <1>3, HeldD2m DEF D2mRuns, driver
<1>4. ASSUME NEW p \in Datagram, Incoming' = Append(Incoming, p), p.type \notin Asked,
             Outgoing' = Outgoing
      PROVE  Held(Asked)' =< Held(Asked)
  BY <1>1, <1>4, HeldAppend
<1>5. ASSUME Incoming' = Incoming, Outgoing' = Outgoing PROVE Held(Asked)' =< Held(Asked)
  BY <1>1, <1>5 DEF Held
<1>6. CASE MediatorActs
  <2>1. /\ e2ePc' = e2ePc /\ Outgoing' = Outgoing
        /\ \/ Incoming' = Incoming
           \/ \E p \in Datagram : Incoming' = Append(Incoming, p) /\ ~Asks(p)
    BY <1>6, MediatorSays DEF driver
  <2>2. \A p \in Datagram : ~Asks(p) => p.type \notin Asked
    BY DEF Asks, IsBegin, IsCommit, IsReflect, Asked
  <2> QED BY <1>2, <1>4, <1>5, <2>1, <2>2
<1>7. CASE ConnectD2m
  <2>1. Plain("Handshake") \in Datagram /\ Plain("Handshake").type \notin Asked
    BY DEF Plain, Datagram, Asked
  <2>2. e2ePc' = e2ePc
    BY <1>7 DEF ConnectD2m, driver
  <2> QED BY <1>2, <1>4, <1>5, <1>7, <2>1, <2>2, PipeInvConnect
<1>8. CASE \/ CspRuns \/ ChatServerActs \/ ConnectFails \/ ConnectCsp
           \/ TakeSendText \/ RunEnds \/ DropSender \/ UNCHANGED vars
           \/ \E command \in {"SendText", "Shutdown"} : Command(command)
  <2>1. UNCHANGED <<d2mIn, d2mOut, d2m, mediator, driver>>
    BY <1>8 DEF CspRuns, CspNext, CspStart, CspHandshake, CspPoll, CspForward, CspRead, CspSend,
         ChatServerActs, ConnectFails, ConnectCsp, TakeSendText, RunEnds, DropSender, Command,
         channels, vars
  <2>2. UNCHANGED <<Incoming, Outgoing, e2ePc>>
    BY <2>1 DEF d2m, mediator, driver, Incoming, Outgoing
  <2> QED BY <1>2, <1>5, <2>2
<1> QED BY <1>3, <1>6, <1>7, <1>8, AskedDriver DEF Next

\* A task that neither creates nor updates a contact begins no transaction.
LEMMA NoTransactionStep ==
  ASSUME NoTransactionInv, [Next]_vars
  PROVE  NoTransactionInv'
<1>1. CASE DriverRuns
  <2>1. ASSUME NoTransactions PROVE ~PollBeginTransaction
    BY <2>1 DEF PollBeginTransaction, Polls, NoTransactions, NoTransactionInv
  <2> QED BY <1>1, <2>1
       DEF NoTransactionInv, DriverRuns, DriverNext, SendCsp, SendD2m, TakeCspPayload, SenderFetched,
           ReflectReturns, Polling, PollFetchSender, PollTransactionRejected, PollAbortTransaction,
           PollReflectAndCommit, PollReflectMessage, PollDone, Polls, OnD2m, OnBeginReply,
           OnTransactionEnded, OnCommitAck, OnReflectAck, OnPromotion, OnReflected, DropUnsolicited,
           driver
<1>2. CASE ~DriverRuns
  <2>1. UNCHANGED driver
    BY <1>2 DEF Next, CspRuns, D2mRuns, ChatServerActs, MediatorActs, ConnectFails, ConnectCsp,
         ConnectD2m, TakeSendText, RunEnds, DropSender, Command, vars
  <2> QED BY <2>1 DEF driver, NoTransactionInv
<1> QED BY <1>1, <1>2

LEMMA BurstInit == Init => UnaskedInv /\ AskedInv /\ NoTransactionInv
<1> SUFFICES ASSUME Init PROVE UnaskedInv /\ AskedInv /\ NoTransactionInv
  OBVIOUS
<1> USE DEF Init, WiringInit, MediatorInit, D2mInit, DriverInit
<1>1. Incoming = <<>> /\ Outgoing = <<>>
  BY DEF Incoming, Outgoing
<1>2. Held(Unasked) = 0 /\ Held(Asked) = 0
  <2>1. \A types : Count(Incoming, types) = 0 /\ Count(Outgoing, types) = 0
    BY <1>1, CountOne
  <2> QED BY <2>1 DEF Held
<1>3. Room("idle") = 0
  BY DEF Room
<1> QED BY <1>2, <1>3 DEF UnaskedInv, Promotion, AskedInv, NoTransactionInv

\* All that is on its way is counted.
LEMMA AllHeld ==
  ASSUME TypeInv, d2mPc = "flow"
  PROVE  Len(Incoming) + Len(Outgoing) =< Held(Unasked) + Held(Asked)
<1>1. d2mIn \in Seq(D2mInPayload) /\ d2mHand \in Seq(D2mInPayload) /\ d2mWire \in Seq(D2mInPayload)
  BY DEF TypeInv, TypeOK, WiringTypeOK, D2mTypeOK, D2mWireOK
<1>2. Incoming \in Seq(D2mInPayload)
  <2> DEFINE S == D2mInPayload
  <2> HIDE DEF S
  <2>1. \A s, t, u \in Seq(S) : (s \o t) \o u \in Seq(S)
    BY ConcatProperties
  <2> QED BY <1>1, <2>1 DEF S, Incoming
<1>3. Outgoing \in Seq(D2mOutPayload)
  BY PipeTypes
<1>4. /\ \A p \in D2mInPayload : p.type \in Unasked \cup Asked
      /\ \A p \in D2mOutPayload : p.type \in Unasked \cup Asked
  BY DEF D2mInPayload, D2mOutPayload, Unasked, Asked
<1>5. Len(Incoming) =< Count(Incoming, Unasked) + Count(Incoming, Asked)
  <2>1. \A p \in Range(Incoming) : p \in D2mInPayload
    BY <1>2, LenProperties DEF Range
  <2> QED BY <1>2, <1>4, <2>1, CountAll
<1>6. Len(Outgoing) =< Count(Outgoing, Unasked) + Count(Outgoing, Asked)
  <2>1. \A p \in Range(Outgoing) : p \in D2mOutPayload
    BY <1>3, LenProperties DEF Range
  <2> QED BY <1>3, <1>4, <2>1, CountAll
<1>7. /\ Count(Incoming, Unasked) \in Nat /\ Count(Incoming, Asked) \in Nat
      /\ Count(Outgoing, Unasked) \in Nat /\ Count(Outgoing, Asked) \in Nat
      /\ Len(Incoming) \in Nat /\ Len(Outgoing) \in Nat
  BY HeldTypes, PipeTypes
<1> QED BY <1>5, <1>6, <1>7 DEF Held

\* A mediator that says no more unasked than the two channels have room for, on
\* top of what one instruction asks it, never brings its connection and the
\* driver to wait for each other (d2m.rs:102-105 and e2e.rs:210-234).
THEOREM NoMediatorMutualWait == Spec => []NoD2mDeadlock
<1>1. CASE ~D2mBurst
  BY <1>1, PTL DEF NoD2mDeadlock
<1>2. CASE D2mBurst
  <2>1. SmallReflects
    BY <1>2 DEF D2mBurst, SmallReflects
  <2> DEFINE Inv == UnaskedInv /\ AskedInv /\ NoTransactionInv
  <2>2. TransactionInv /\ TransactionInv' /\ Inv /\ [Next]_vars => Inv'
    BY <2>1, UnaskedStep, AskedStep, NoTransactionStep DEF TransactionInv
  <2>3. Init => Inv
    BY BurstInit
  <2>4. TransactionInv /\ UnblockInv /\ Inv => ~D2mDeadlock
    <3> SUFFICES ASSUME TypeInv, PromotionInv, UnblockInv, UnaskedInv, AskedInv, NoTransactionInv,
                        D2mDeadlock
                 PROVE  FALSE
      BY DEF TransactionInv
    <3> DEFINE unasked == Held(Unasked)
               asked   == Held(Asked)
               ins     == Len(Incoming)
               outs    == Len(Outgoing)
    <3>1. d2mPc = "flow"
      BY DEF D2mDeadlock, PromotionInv
    <3>2. ins + outs =< unasked + asked
      BY <3>1, AllHeld
    <3>3. ins \in Nat /\ outs \in Nat /\ ins >= D2mInCap + 1 /\ outs >= D2mOutCap + 1
      <4>1. /\ d2mIn \in Seq(Datagram) /\ d2mHand \in Seq(Datagram) /\ d2mWire \in Seq(Datagram)
            /\ d2mOut \in Seq(Payload) /\ outD2m \in Seq(Payload)
        BY IncomingType, PipeTypes
      <4>2. /\ Len(d2mIn) = D2mInCap /\ Len(d2mHand) \in Nat \ {0} /\ Len(d2mWire) \in Nat
            /\ Len(d2mOut) = D2mOutCap /\ Len(outD2m) \in Nat \ {0}
        BY <4>1, EmptySeq, LenProperties DEF D2mDeadlock
      <4>3. ins = (Len(d2mIn) + Len(d2mHand)) + Len(d2mWire)
        BY <4>1, ConcatProperties DEF Incoming
      <4>4. outs = Len(d2mOut) + Len(outD2m)
        BY <4>1, ConcatProperties DEF Outgoing
      <4> QED BY <4>2, <4>3, <4>4, CapAssumption
    <3>4. unasked \in Nat
          /\ unasked =< (IF role = "none" THEN 1 ELSE 0) + RunsDry + Reflections + SiblingTxns
      <4>1. /\ promoted \in BOOLEAN /\ dry \in 0..RunsDry /\ reflected \in 0..Reflections
            /\ siblingTxns \in 0..SiblingTxns
        BY DEF TypeInv, TypeOK, D2mTypeOK
      <4>2. unasked \in Nat
        BY HeldTypes
      <4>3. unasked + (IF holder = "sibling" THEN 1 ELSE 0)
              =< (IF promoted /\ role = "none" THEN 1 ELSE 0) + dry + reflected + siblingTxns
        BY DEF UnaskedInv, Promotion
      <4> HIDE DEF unasked
      <4> QED BY <4>1, <4>2, <4>3, MediatorAssumption
    <3>5. asked \in Nat /\ MaxBatch \in Nat
          /\ asked =< (IF NoTransactions \/ role = "none" THEN 0 ELSE MaxBatch + 1)
      <4>1. asked \in Nat /\ MaxBatch \in Nat /\ asked =< Room(e2ePc)
        BY HeldTypes DEF AskedInv
      <4>2. Room(e2ePc) \in {0, 1, MaxBatch + 1}
        BY DEF Room
      <4>3. NoTransactions => Room(e2ePc) = 0
        BY DEF NoTransactionInv, Room
      <4>4. role = "none" => Room(e2ePc) = 0
        \* a task is of a message the server released, to a leader
        BY DEF UnblockInv, QueueInv, TypeInv, TypeOK, DriverTypeOK, Room
      <4> HIDE DEF asked
      <4> QED BY <4>1, <4>2, <4>3, <4>4
    <3>6. RunsDry + Reflections + SiblingTxns + (IF NoTransactions THEN 1 ELSE MaxBatch + 1)
            =< D2mInCap + D2mOutCap + 1
      BY <1>2 DEF D2mBurst, NoTransactions
    <3> HIDE DEF unasked, asked, ins, outs
    <3> QED BY <3>2, <3>3, <3>4, <3>5, <3>6, MediatorAssumption, CapAssumption
  <2>5. ~D2mDeadlock => NoD2mDeadlock
    BY DEF NoD2mDeadlock
  <2> HIDE DEF Inv
  <2> QED BY TransactionInvariant, UnblockInvariant, <2>2, <2>3, <2>4, <2>5, PTL DEF Spec
<1> QED BY <1>1, <1>2
=============================================================================
