----------------------------- MODULE DeviceProofs -----------------------------
(***************************************************************************)
(* For every value of the constants, over all runs of the program and      *)
(* wherever each of them ends: a message whose ack is under way, or was    *)
(* given, has its nonce in the file that the next run loads; and a text is *)
(* reported before it is acknowledged and never after, as Inbox says.      *)
(***************************************************************************)
EXTENDS Device, ReflectionProofs

NP == INSTANCE NonceStoreProofs WITH Nonce <- 1..Total, CrashKinds <- {"process"}

-----------------------------------------------------------------------------
(* What is known of a single run holds again in every run: the servers     *)
(* start with the first message and envelope not acknowledged.             *)

ClientInv ==
  /\ TransactionInv /\ QueueInv /\ OrderInv
  /\ \E handled \in 0..reflected : ReflectedAt(handled)

-----------------------------------------------------------------------------
(* A run begins.                                                           *)

\* What the servers keep of the acknowledgements.
AckedSoFar ==
  /\ acks \in Seq(0..Total) /\ sent \in 0..Total
  /\ Rising(acks) /\ Range(acks) = 1..sent
  /\ reflectedAcks \in Seq(Nat \cup ReflectId) /\ reflected \in 0..Reflections
  /\ Rising(reflectedAcks) /\ Range(reflectedAcks) = 1..reflected

ServersKeep ==
  /\ extra \in 0..Extra /\ siblingTxns \in 0..SiblingTxns
  /\ reflectLog \in Seq([id: Nat \cup ReflectId, holder: {"nobody", "client", "sibling"}])
  /\ \A entry \in Range(reflectLog) : entry.id[2] \in ContactStages => entry.holder = "client"

RunBegins ==
  /\ WiringInit /\ CspInit /\ D2mInit /\ ReportingInit /\ DriverInit
  /\ runPc = "connectCsp" /\ commands = <<>> /\ issued = [count |-> 0, open |-> TRUE]
  /\ cspWire = <<>> /\ cspLink = "open" /\ unblocked = FALSE
  /\ d2mWire = <<>> /\ d2mLink = "hello" /\ promoted = FALSE /\ dry = 0
  /\ holder \in {"nobody", "sibling"}

LEMMA BeginTypes == AckedSoFar /\ ServersKeep /\ RunBegins => TypeInv
<1> SUFFICES ASSUME AckedSoFar, ServersKeep, RunBegins PROVE TypeInv
  OBVIOUS
<1> USE DEF RunBegins
<1>1. WiringTypeOK
  <2>1. d2mOpen \in BOOLEAN
    BY Zenon DEF WiringInit
  <2> QED BY <2>1, CapAssumption DEF WiringInit, WiringTypeOK
<1>2. CspTypeOK
  <2>1. unblocked \in BOOLEAN
    BY Zenon
  <2> QED BY <2>1 DEF AckedSoFar, ServersKeep, CspInit, CspTypeOK
<1>3. D2mTypeOK /\ D2mWireOK
  <2>1. promoted \in BOOLEAN
    BY Zenon
  <2> QED BY <2>1, MediatorAssumption DEF AckedSoFar, ServersKeep, D2mInit, D2mTypeOK, D2mWireOK
<1>4. ReportingTypeOK
  BY DEF ReportingInit, ReportingTypeOK
<1>5. DriverTypeOK
  BY MessageAssumption DEF DriverInit, DriverTypeOK, Waits
<1>6. ClientTypeOK
  BY ClientAssumption DEF ClientTypeOK
<1> QED BY <1>1, <1>2, <1>3, <1>4, <1>5, <1>6 DEF TypeInv, TypeOK

LEMMA Begin == AckedSoFar /\ ServersKeep /\ RunBegins => ClientInv
<1> SUFFICES ASSUME AckedSoFar, ServersKeep, RunBegins PROVE ClientInv
  OBVIOUS
<1>1. /\ d2mIn = <<>> /\ d2mHand = <<>> /\ d2mWire = <<>> /\ d2mOut = <<>> /\ outD2m = <<>>
      /\ cspIn = <<>> /\ cspHand = <<>> /\ cspBuf = <<>> /\ cspWire = <<>> /\ cspOut = <<>>
      /\ outCsp = <<>> /\ task = 0 /\ role = "none" /\ cspPc = "start" /\ ~unblocked
      /\ d2mPc = "connect" /\ e2ePc = "idle" /\ txn = "none" /\ expected = {}
  BY DEF RunBegins, WiringInit, CspInit, D2mInit, DriverInit
<1>2. /\ Incoming = <<>> /\ Outgoing = <<>> /\ Pipe = <<>>
      /\ Handed = <<>> /\ Frames = <<>> /\ Replies = <<>>
  BY <1>1 DEF Incoming, Outgoing, Pipe, Handed, Frames, Replies
<1>3. Range(Incoming) = {} /\ Range(Outgoing) = {} /\ Len(Incoming) = 0 /\ Len(Pipe) = 0
  BY <1>2, RangeOfNothing
<1>4. PromotionInv
  BY <1>1, <1>2 DEF PromotionInv
<1>5. PipeInv
  BY <1>1, <1>3 DEF PipeInv, HandshakeInv, Tidy, Fits
<1>6. HolderInv
  BY <1>1, <1>3 DEF RunBegins, ServersKeep, HolderInv, Granted, HasType
<1>7. EndedInv
  BY <1>1, <1>3 DEF EndedInv, EndFollows
<1>8. CompleteInv
  BY <1>1, FS_EmptySet DEF CompleteInv
<1>9. QueueInv
  BY <1>1, <1>2 DEF QueueInv
<1>10. OrderInv
  <2>1. (1..sent) \ NoAck = 1..sent
    BY DeviceAssumption
  <2>2. OrderFresh
    BY <1>1, <1>2, <2>1 DEF OrderFresh, AckedSoFar
  <2> QED BY <2>2, OrderInit
<1>11. reflected \in 0..reflected /\ ReflectedAt(reflected)
  BY <1>2, ReflectedInit DEF ReflectedFresh, AckedSoFar
<1> QED BY <1>4, <1>5, <1>6, <1>7, <1>8, <1>9, <1>10, <1>11, BeginTypes
        DEF ClientInv, TransactionInv

\* What a rising sequence holds of 1..n, if that is the least of it, is 1..Len.
LEMMA BeginsCounts ==
  ASSUME NEW n \in Nat, NEW S, NEW first \in Seq(S), Begins(first, 1..n)
  PROVE  Len(first) \in 0..n /\ Range(first) = 1..Len(first)
<1> DEFINE R == Range(first)
           k == Cardinality(R)
<1>1. Len(first) \in Nat /\ DOMAIN first = 1..Len(first)
  BY LenProperties
<1>2. R \subseteq 1..n /\ \A a \in R, m \in (1..n) \ R : a < m
  BY DEF Begins
<1>3. \A i, j \in 1..Len(first) : first[i] = first[j] => i = j
  <2>1. ASSUME NEW i \in 1..Len(first), NEW j \in 1..Len(first), i < j PROVE first[i] # first[j]
    <3>1. first[i] < first[j]
      BY <1>1, <2>1 DEF Begins, Rising
    <3>2. first[i] \in R /\ first[j] \in R
      BY <1>1 DEF Range
    <3>3. first[i] \in Int /\ first[j] \in Int
      BY <1>2, <3>2
    <3> QED BY <3>1, <3>3
  <2>2. TAKE i, j \in 1..Len(first)
  <2>3. i < j \/ j < i \/ i = j
    OBVIOUS
  <2> QED BY <2>1, <2>3
<1>4. IsFiniteSet(R) /\ k = Len(first)
  BY <1>3, AckedCount
<1> HIDE DEF R
<1>5. ASSUME NEW x \in R PROVE x \in 1..k
  <2>1. x \in 1..n
    BY <1>2
  <2>2. 1..x \subseteq R
    <3>1. ASSUME NEW m \in 1..x, m \notin R PROVE FALSE
      <4>1. m \in (1..n) \ R
        BY <2>1, <3>1
      <4>2. x < m
        BY <1>2, <4>1
      <4> QED BY <2>1, <3>1, <4>2
    <3> QED BY <3>1
  <2>3. Cardinality(1..x) = x
    BY <2>1, FS_Interval
  <2>4. Cardinality(1..x) =< k
    BY <1>4, <2>2, FS_Subset
  <2> QED BY <1>1, <1>4, <2>1, <2>3, <2>4
<1>6. R = 1..k
  <2>1. k \in Nat
    BY <1>1, <1>4
  <2>2. R \subseteq 1..k
    BY <1>5
  <2>3. ASSUME NEW j \in Nat PROVE IsFiniteSet(1..j) /\ Cardinality(1..j) = j
    BY FS_Interval
  <2>4. IsFiniteSet(1..k) /\ Cardinality(1..k) = Cardinality(R)
    BY <2>1, <2>3
  <2> QED BY <2>2, <2>4, FS_Subset
<1>7. k =< n
  <2>1. IsFiniteSet(1..n) /\ Cardinality(1..n) = n
    BY FS_Interval
  <2> QED BY <1>2, <2>1, FS_Subset
<1> HIDE DEF k
<1> QED BY <1>1, <1>4, <1>6, <1>7 DEF R

LEMMA ClientInit == Init => ClientInv
<1> SUFFICES ASSUME Init PROVE ClientInv
  OBVIOUS
<1>1. /\ acks = <<>> /\ sent = 0 /\ reflectedAcks = <<>> /\ reflected = 0 /\ reflectLog = <<>>
      /\ Range(<<>>) = {} /\ 1..0 = {} /\ Rising(<<>>)
  <2>1. Range(<<>>) = {}
    BY RangeOfNothing
  <2>2. Rising(<<>>)
    BY DEF Rising
  <2> QED BY <2>1, <2>2 DEF Init, ServerInit, MediatorInit
<1>2. AckedSoFar
  BY <1>1, MessageAssumption, MediatorAssumption DEF AckedSoFar
<1>3. ServersKeep
  BY <1>1, ServerAssumption, MediatorAssumption DEF ServersKeep, Init, ServerInit, MediatorInit
<1>4. RunBegins
  BY DEF RunBegins, Init, ServerInit, MediatorInit
<1> QED BY <1>2, <1>3, <1>4, Begin

LEMMA ClientStep == ClientInv /\ [Next]_vars => ClientInv'
<1> SUFFICES ASSUME ClientInv, [Next]_vars PROVE ClientInv'
  OBVIOUS
<1>1. /\ TransactionInv /\ QueueInv /\ OrderInv
      /\ TypeInv /\ PromotionInv /\ PipeInv /\ HolderInv /\ EndedInv /\ CompleteInv
  BY DEF ClientInv, TransactionInv
<1>2. TypeInv'
  BY <1>1, TypesStep
<1>3. PromotionInv' /\ QueueInv'
  BY <1>1, <1>2, PromotionStep, QueueStep
<1>4. PipeInv' /\ HolderInv' /\ EndedInv' /\ CompleteInv'
  BY <1>1, <1>2, TransactionStep
<1>5. TransactionInv'
  BY <1>2, <1>3, <1>4 DEF TransactionInv
<1>6. OrderInv'
  <2>1. PICK taken \in 0..sent : OrderAt(taken)
    BY <1>1 DEF OrderInv
  <2>2. OrderFrom(taken)
    BY <1>1, <1>2, <1>3, <2>1, OrderStep
  <2> QED BY <2>2 DEF OrderFrom, OrderInv
<1>7. PICK handled \in 0..reflected : ReflectedAt(handled)
  BY DEF ClientInv
<1>8. ReflectedFrom(handled)
  BY <1>1, <1>5, <1>7, ReflectedStep
<1> QED BY <1>3, <1>5, <1>6, <1>8 DEF ClientInv, ReflectedFrom

\* Where payloads are does not depend on what was reported, nor on where `run` is.
LEMMA PlacesKept ==
  ASSUME UNCHANGED <<channels, chatServer, csp, mediator, d2m, driver>>
  PROVE  /\ UNCHANGED <<cspIn, cspOut, d2mIn, d2mOut, d2mOpen, cspWire, cspLink, unblocked, sent,
                        acks, cspPc, cspBuf, cspHand, d2mWire, d2mLink, promoted, holder,
                        reflected, reflectedAcks, reflectLog, d2mPc, d2mHand, e2ePc, task, txn,
                        outCsp, outD2m, pending, acked, expected, role>>
         /\ UNCHANGED <<Incoming, Outgoing, Pipe, Handed, Frames, Replies, Reads, Granted>>
         /\ \A taken : OrderAt(taken) => OrderAt(taken)'
         /\ \A handled : ReflectedAt(handled) => ReflectedAt(handled)'
<1>1. UNCHANGED <<cspIn, cspOut, d2mIn, d2mOut, d2mOpen, cspWire, cspLink, unblocked, sent, acks,
                  cspPc, cspBuf, cspHand, d2mWire, d2mLink, promoted, holder, reflected,
                  reflectedAcks, reflectLog, d2mPc, d2mHand, e2ePc, task, txn, outCsp, outD2m,
                  pending, acked, expected, role>>
  BY DEF channels, chatServer, csp, mediator, d2m, driver
<1>2. UNCHANGED <<Incoming, Outgoing, Pipe, Handed, Frames, Replies, Reads, Granted>>
  <2>1. UNCHANGED <<Incoming, Outgoing, Pipe, Handed, Frames, Replies>>
    BY <1>1 DEF Incoming, Outgoing, Pipe, Handed, Frames, Replies
  <2>2. Reads' = Reads /\ Granted' = Granted
    BY <1>1, <2>1, Zenon DEF Reads, Granted, HasType
  <2> QED BY <2>1, <2>2
<1>3. ASSUME NEW taken, OrderAt(taken) PROVE OrderAt(taken)'
  BY <1>1, <1>2, <1>3 DEF OrderAt, Delivering, Acknowledging, Done
<1>4. ASSUME NEW handled, ReflectedAt(handled) PROVE ReflectedAt(handled)'
  BY <1>1, <1>2, <1>4 DEF ReflectedAt, Coming, Acking
<1> QED BY <1>1, <1>2, <1>3, <1>4

LEMMA ClientKept ==
  ASSUME ClientInv, UNCHANGED <<channels, chatServer, csp, mediator, d2m, driver>>,
         ReportingTypeOK', ClientTypeOK'
  PROVE  ClientInv'
<1>1. TypeInv' /\ TypeInv
  <2>1. TypeInv
    BY DEF ClientInv, TransactionInv
  <2> QED BY <2>1, UnchangedTypes DEF TypeInv, TypeOK
<1>2. PromotionInv' /\ PipeInv' /\ HolderInv' /\ EndedInv' /\ CompleteInv'
  BY PlacesKept DEF ClientInv, TransactionInv, PromotionInv, PipeInv, HandshakeInv, HolderInv,
                    EndedInv, CompleteInv
<1>3. QueueInv'
  BY PlacesKept DEF ClientInv, QueueInv
<1>4. OrderInv' /\ \E handled \in 0..reflected' : ReflectedAt(handled)'
  BY PlacesKept DEF ClientInv, OrderInv
<1> QED BY <1>1, <1>2, <1>3, <1>4 DEF ClientInv, TransactionInv

\* Whatever a run did, the servers have the beginning of what they are to have.
LEMMA ServersHaveBeginnings ==
  ASSUME ClientInv
  PROVE  /\ Len(acks) \in 0..Total /\ Rising(acks) /\ Range(acks) = 1..Len(acks)
         /\ Len(reflectedAcks) \in 0..Reflections
         /\ Rising(reflectedAcks) /\ Range(reflectedAcks) = 1..Len(reflectedAcks)
<1>1. /\ acks \in Seq(0..Total) /\ sent \in 0..Total
      /\ reflectedAcks \in Seq(Nat \cup ReflectId) /\ reflected \in 0..Reflections
  BY DEF ClientInv, TransactionInv, TypeInv, TypeOK, CspTypeOK, D2mTypeOK
<1>2. Len(acks) \in 0..Total /\ Rising(acks) /\ Range(acks) = 1..Len(acks)
  <2>1. PICK taken \in 0..sent : OrderAt(taken)
    BY DEF ClientInv, OrderInv
  <2>2. Begins(acks, Done(taken))
    BY <2>1, ListBegins DEF OrderAt, Acknowledging
  <2>3. PICK done \in 0..Total : Done(taken) = 1..done
    <3>1. CASE task = 0
      <4>1. Done(taken) = 1..taken
        BY <3>1, DeviceAssumption DEF Done
      <4>2. taken \in 0..Total
        BY <1>1, MessageAssumption
      <4> QED BY <4>1, <4>2
    <3>2. CASE task # 0
      <4>1. task = taken /\ taken - 1 \in 0..Total
        BY <1>1, <2>1, <3>2, MessageAssumption DEF OrderAt
      <4>2. Done(taken) = 1..(taken - 1)
        BY <1>1, <4>1, DeviceAssumption DEF Done
      <4> QED BY <4>1, <4>2
    <3> QED BY <3>1, <3>2
  <2>4. Len(acks) \in 0..done /\ Range(acks) = 1..Len(acks)
    BY <1>1, <2>2, <2>3, BeginsCounts
  <2>5. Rising(acks)
    BY <2>2 DEF Begins
  <2> QED BY <2>3, <2>4, <2>5, MessageAssumption
<1>3. /\ Len(reflectedAcks) \in 0..Reflections
      /\ Rising(reflectedAcks) /\ Range(reflectedAcks) = 1..Len(reflectedAcks)
  <2>1. PICK handled \in 0..reflected : ReflectedAt(handled)
    BY DEF ClientInv
  <2>2. Begins(reflectedAcks, 1..handled)
    BY <2>1, ListBegins DEF ReflectedAt, Acking
  <2>3. Len(reflectedAcks) \in 0..handled /\ Range(reflectedAcks) = 1..Len(reflectedAcks)
    BY <1>1, <2>2, BeginsCounts
  <2>4. Rising(reflectedAcks)
    BY <2>2 DEF Begins
  <2> QED BY <1>1, <2>1, <2>3, <2>4, MediatorAssumption
<1> QED BY <1>2, <1>3

LEMMA ClientBoots == ClientInv /\ Boots => ClientInv'
<1> SUFFICES ASSUME ClientInv, Boots PROVE ClientInv'
  OBVIOUS
<1>1. CspTypeOK /\ D2mTypeOK /\ HolderInv
  BY DEF ClientInv, TransactionInv, TypeInv, TypeOK
<1>2. AckedSoFar'
  <2>1. /\ acks' = acks /\ sent' = Len(acks)
        /\ reflectedAcks' = reflectedAcks /\ reflected' = Len(reflectedAcks)
    BY DEF Boots
  <2> QED BY <1>1, <2>1, ServersHaveBeginnings DEF AckedSoFar, CspTypeOK, D2mTypeOK
<1>3. ServersKeep'
  BY <1>1 DEF Boots, ServersKeep, CspTypeOK, D2mTypeOK, HolderInv
<1>4. RunBegins'
  <2>1. holder' \in {"nobody", "sibling"}
    BY <1>1 DEF Boots, D2mTypeOK
  <2> QED BY <2>1 DEF Boots, RunBegins, WiringInit, CspInit, D2mInit, ReportingInit, DriverInit
<1>5. AckedSoFar' /\ ServersKeep' /\ RunBegins' => ClientInv'
  BY Begin, PTL
<1> QED BY <1>2, <1>3, <1>4, <1>5

\* A step of the command-line program is one of the client's, but for the Ctrl-C.
LEMMA ClientWorks == ClientInv /\ CliNext => ClientInv'
<1> SUFFICES ASSUME ClientInv, CliNext PROVE ClientInv'
  OBVIOUS
<1>1. CASE CtrlC
  <2>1. TypeInv
    BY DEF ClientInv, TransactionInv
  <2>2. ReportingTypeOK'
    BY <1>1, <2>1, UnchangedTypes DEF CtrlC
  <2>3. ClientTypeOK'
    <3>1. commands \in Seq({"SendText", "Shutdown"}) /\ issued \in [count: 0..MaxCommands, open: BOOLEAN]
      BY <2>1 DEF TypeInv, TypeOK, ClientTypeOK
    <3>2. commands' \in Seq({"SendText", "Shutdown"})
      BY <1>1, <3>1, AppendProperties DEF CtrlC
    <3>3. FALSE \in BOOLEAN
      BY Zenon
    <3> QED BY <1>1, <2>1, <3>1, <3>2, <3>3 DEF CtrlC, TypeInv, TypeOK, ClientTypeOK
  <2> QED BY <1>1, <2>2, <2>3, ClientKept DEF CtrlC
<1>2. CASE ~CtrlC
  <2>1. [Next]_vars
    BY <1>2 DEF CliNext, PrintEvent, Next
  <2> QED BY <2>1, ClientStep
<1> QED BY <1>1, <1>2

LEMMA ClientHandsOver == ClientInv /\ HandsOver => ClientInv'
<1> SUFFICES ASSUME ClientInv, HandsOver PROVE ClientInv'
  OBVIOUS
<1>1. TypeInv
  BY DEF ClientInv, TransactionInv
<1>2. task \in 1..Total
  BY <1>1 DEF HandsOver, Finishing, TypeInv, TypeOK, DriverTypeOK
<1>3. Content[task] \in Key
  BY <1>2, DriverAssumption
<1>4. ReportingTypeOK'
  <2> DEFINE Report == [kind: {"Connected", "Direct", "Reflected"}, key: Key \cup Nat]
  <2>1. seen \subseteq Key /\ events \in Seq(Report)
    BY <1>1 DEF TypeInv, TypeOK, ReportingTypeOK
  <2>2. Event("Direct", Content[task]) \in Report
    BY <1>3 DEF Event
  <2>3. /\ seen' = seen \cup {Content[task]}
        /\ events' = events \/ events' = Append(events, Event("Direct", Content[task]))
    BY DEF HandsOver, AddOrUpdateIncomingMessage
  <2> HIDE DEF Report
  <2>4. events' \in Seq(Report) /\ seen' \subseteq Key
    BY <1>3, <2>1, <2>2, <2>3, AppendProperties
  <2> QED BY <2>4 DEF ReportingTypeOK, Report
<1>5. ClientTypeOK'
  BY <1>1, UnchangedTypes DEF HandsOver
<1> QED BY <1>4, <1>5, ClientKept DEF HandsOver

LEMMA DeviceClient == ClientInv /\ [DeviceNext]_deviceVars => ClientInv'
<1> SUFFICES ASSUME ClientInv, [DeviceNext]_deviceVars PROVE ClientInv'
  OBVIOUS
<1>1. CASE SavesNonce \/ SaveSteps \/ NonceSaved \/ Exits \/ UNCHANGED deviceVars
  <2>1. UNCHANGED vars
    BY <1>1 DEF SavesNonce, SaveSteps, NonceSaved, Exits, deviceVars, cliVars
  <2> QED BY <2>1, ClientStep
<1>2. CASE SaveFailed
  <2>1. TypeInv
    BY DEF ClientInv, TransactionInv
  <2>2. ReportingTypeOK'
    BY <1>2, <2>1, UnchangedTypes DEF SaveFailed
  <2>3. ClientTypeOK'
    BY <1>2, <2>1 DEF SaveFailed, TypeInv, TypeOK, ClientTypeOK, Outcome
  <2> QED BY <1>2, <2>2, <2>3, ClientKept DEF SaveFailed
<1> QED BY <1>1, <1>2, ClientWorks, ClientHandsOver, ClientBoots DEF DeviceNext, Works

\* Over all runs, the client and its servers agree as they do in a single one.
THEOREM EveryRun == DeviceSpec => []ClientInv
<1>1. DeviceInit => ClientInv
  BY ClientInit DEF DeviceInit, CliInit
<1> QED BY <1>1, DeviceClient, PTL DEF DeviceSpec

-----------------------------------------------------------------------------
(* The messages acknowledged, or whose ack is on its way.                  *)

Answered == {n \in 1..Total : n \in Range(acks) \/ \E p \in Range(Replies) : p.n = n}

LEMMA AnsweredGrows ==
  ASSUME TypeInv, CliNext, Replies' \in Seq(CspOutPayload), acks' \in Seq(0..Total)
  PROVE  Answered' \subseteq Answered \cup (IF TaskEnds THEN {task} ELSE {})
<1>1. Replies \in Seq(CspOutPayload) /\ acks \in Seq(0..Total)
  BY ChainTypes
<1>2. CASE acks' = acks /\ Replies' = Replies
  BY <1>2 DEF Answered
<1>3. CASE CspRuns /\ CspSend
  <2>1. Replies # <<>> /\ Replies' = Tail(Replies) /\ Head(Replies) = Head(cspOut)
    BY <1>3, EndMoves DEF CspRuns, driver
  <2>2. acks' = acks \/ acks' = Append(acks, Head(Replies).n)
    BY <1>3, <2>1 DEF CspSend, ServerReceives
  <2>3. Range(Replies) = {Head(Replies)} \cup Range(Replies')
    BY <1>1, <2>1, RangeTail
  <2>4. Head(Replies) \in CspOutPayload
    BY <1>1, <2>1, HeadTailProperties
  <2> DEFINE n == Head(Replies).n
  <2>5. n \in 0..Total
    BY <2>4 DEF CspOutPayload
  <2>6. acks' = acks \/ acks' = Append(acks, n)
    BY <2>2
  <2> HIDE DEF n
  <2>7. Range(acks') \subseteq Range(acks) \cup {n}
    <3> DEFINE S == 0..Total
    <3>1. acks \in Seq(S) /\ n \in S
      BY <1>1, <2>5
    <3> HIDE DEF S
    <3>2. Range(Append(acks, n)) = Range(acks) \cup {n}
      BY <3>1, RangeAppend
    <3> QED BY <2>6, <3>2
  <2> QED BY <2>3, <2>7 DEF Answered, n
<1>4. CASE DriverRuns /\ (PollDone \/ OnPromotion)
  <2>1. acks' = acks /\ outCsp = <<>> /\ cspOut' = cspOut
    BY <1>4 DEF DriverRuns, chatServer, PollDone, OnPromotion, Receives, Listens, Quiet, channels
  <2>2. CASE outCsp' = <<>>
    BY <1>2, <2>1, <2>2 DEF Replies
  <2>3. ASSUME NEW p \in CspOutPayload, outCsp' = <<p>>, p.n = 0 \/ (TaskEnds /\ p.n = task)
        PROVE  Answered' \subseteq Answered \cup (IF TaskEnds THEN {task} ELSE {})
    <3>1. Replies' = Append(Replies, p)
      BY <2>1, <2>3, ReplyMoves
    <3>2. Range(Replies') = Range(Replies) \cup {p}
      BY <1>1, <3>1, RangeAppend
    <3> QED BY <2>1, <2>3, <3>2 DEF Answered
  <2>4. CASE OnPromotion
    <3>1. [type |-> "UnblockIncomingMessages", n |-> 0] \in CspOutPayload
      BY MessageAssumption DEF CspOutPayload
    <3> QED BY <2>3, <2>4, <3>1 DEF OnPromotion
  <2>5. CASE PollDone /\ task \notin NoAck
    <3>1. [type |-> "MessageAck", n |-> task] \in CspOutPayload
      BY DEF CspOutPayload, TypeInv, TypeOK, DriverTypeOK
    <3>2. TaskEnds
      BY <2>5 DEF PollDone, TaskEnds, TypeInv, TypeOK, DriverTypeOK
    <3> QED BY <2>3, <2>5, <3>1, <3>2 DEF PollDone
  <2> QED BY <1>4, <2>2, <2>4, <2>5 DEF PollDone
<1>5. CASE DriverRuns /\ SendCsp
  <2>1. Replies' = Replies /\ acks' = acks
    BY <1>5, SendMoves DEF DriverRuns, chatServer
  <2> QED BY <1>2, <2>1
<1>6. CASE ~((CspRuns /\ CspSend) \/ (DriverRuns /\ (PollDone \/ OnPromotion \/ SendCsp)))
  <2>1. CASE CspRuns
    <3>1. UNCHANGED <<cspOut, outCsp, acks>>
      BY <1>6, <2>1 DEF CspRuns, CspNext, CspStart, CspHandshake, CspPoll, CspForward, CspRead,
                        driver, channels, chatServer
    <3> QED BY <1>2, <3>1 DEF Replies
  <2>2. CASE DriverRuns
    <3>1. acks' = acks
      BY <2>2 DEF DriverRuns, chatServer
    <3>2. UNCHANGED <<cspOut, outCsp>>
      BY <1>6, <2>2 DEF DriverRuns, DriverNext, SendD2m, TakeCspPayload, Polling, SenderFetched,
         ReflectReturns, OnD2m, OnBeginReply, OnTransactionEnded, OnCommitAck, OnReflectAck,
         OnReflected, DropUnsolicited, PollFetchSender, PollBeginTransaction,
         PollTransactionRejected, PollAbortTransaction, PollReflectAndCommit, PollReflectMessage,
         channels, driver
    <3> QED BY <1>2, <3>1, <3>2 DEF Replies
  <2>3. CASE ~(CspRuns \/ DriverRuns)
    <3>1. UNCHANGED <<cspOut, outCsp, acks>>
      BY <2>3 DEF CliNext, PrintEvent, CtrlC, D2mRuns, D2mNext, D2mHandshake, D2mReceive,
         D2mForward, D2mSend, D2mFlowEnds, ChatServerActs, ServerSendsMessage, ServerSendsExtra,
         ServerEnds, MediatorActs, ConnectFails, ConnectCsp, ConnectD2m, RunEnds, DropSender,
         channels, driver, chatServer, vars
    <3> QED BY <1>2, <3>1 DEF Replies
  <2> QED BY <2>1, <2>2, <2>3
<1> QED BY <1>3, <1>4, <1>5, <1>6

-----------------------------------------------------------------------------
(* The nonce file over the runs.                                           *)

SavedNonces == path.value["csp_e2e"]

NonceStep ==
  \/ SavesNonce \/ SaveSteps \/ NonceSaved \/ SaveFailed \/ Exits \/ Boots \/ UNCHANGED nonceFile

\* What the device does to the file is what any program may do to it.
LEMMA NoncesKept ==
  ASSUME NP!NonceInv, TypeInv, NonceStep
  PROVE  NP!NonceInv'
<1>1. CASE SavesNonce
  <2>1. task \in 1..Total
    BY <1>1 DEF SavesNonce, Finishing, TypeInv, TypeOK, DriverTypeOK
  <2>2. {task} \in SUBSET (1..Total) /\ "csp_e2e" \in NP!Scope
    BY <2>1 DEF NP!Scope
  <2>3. NP!AddMany("csp_e2e", {task})
    BY <1>1 DEF SavesNonce, Nonces!AddMany, NP!AddMany, Nonces!Mutate, NP!Mutate
  <2> QED BY <2>2, <2>3, NP!InvAdd
<1>2. CASE NonceSaved
  <2>1. NP!Saved
    BY <1>2 DEF NonceSaved, Nonces!Saved, NP!Saved, Nonces!RenameTmp, NP!RenameTmp, Nonces!Absent,
                NP!Absent, Nonces!Torn, NP!Torn, Nonces!NoNonces, NP!NoNonces, Nonces!Scope, NP!Scope
  <2> QED BY <2>1, NP!InvSaved
<1>3. CASE SaveSteps
  <2>1. NP!CreateTmp \/ NP!WriteTmp \/ NP!SyncTmp \/ NP!IoFails
    BY <1>3 DEF SaveSteps, Nonces!CreateTmp, NP!CreateTmp, Nonces!WriteTmp, NP!WriteTmp,
                Nonces!SyncTmp, NP!SyncTmp, Nonces!IoFails, NP!IoFails, Nonces!Torn, NP!Torn,
                Nonces!NoNonces, NP!NoNonces, Nonces!Scope, NP!Scope, Nonces!Whole, NP!Whole
  <2> QED BY <1>3, <2>1, NP!InvFile DEF SaveSteps, NP!FileNext
<1>4. CASE SaveFailed \/ Exits \/ Boots
  <2>1. NP!RunFails \/ NP!Dies \/ NP!Load
    BY <1>4 DEF SaveFailed, Exits, Boots, Nonces!RunFails, NP!RunFails, Nonces!Dies, NP!Dies,
                Nonces!Load, NP!Load, Nonces!NoNonces, NP!NoNonces, Nonces!Scope, NP!Scope
  <2> QED BY <1>4, <2>1, NP!InvFile DEF SaveFailed, Exits, Boots, NP!FileNext
<1>5. CASE UNCHANGED nonceFile
  BY <1>5 DEF nonceFile, NP!NonceInv, NP!NonceTypeOK, NP!FileTypeOK, NP!SaveInv, NP!NextRunLoads,
              NP!MemoryIsSaved, NP!AcceptedNoncesStay
<1> QED BY <1>1, <1>2, <1>3, <1>4, <1>5 DEF NonceStep

\* Nonces are only ever added to the file, by a save that returns.
LEMMA SavedGrows ==
  ASSUME NP!NonceInv, NonceStep
  PROVE  /\ SavedNonces \subseteq SavedNonces'
         /\ NonceSaved => SavedNonces' = memory["csp_e2e"]
         /\ NonceSaved /\ adding = [scope |-> "csp_e2e", nonces |-> {task}] =>
              task \in SavedNonces'
         /\ ~NonceSaved => SavedNonces' = SavedNonces
<1>1. CASE NonceSaved
  <2>1. step = "rename" /\ path' = tmp
    BY <1>1 DEF NonceSaved, Nonces!Saved, Nonces!RenameTmp
  <2>2. /\ tmp = NP!Whole(memory) /\ adding.nonces \subseteq memory[adding.scope]
        /\ \A scope \in NP!Scope : path.value[scope] \subseteq memory[scope]
    BY <2>1 DEF NP!NonceInv, NP!SaveInv, NP!Saving
  <2>3. path'.value = memory
    BY <2>1, <2>2 DEF NP!Whole
  <2>4. "csp_e2e" \in NP!Scope
    BY DEF NP!Scope
  <2> QED BY <1>1, <2>2, <2>3, <2>4 DEF SavedNonces
<1>2. CASE ~NonceSaved
  <2>1. path' = path
    BY <1>2 DEF NonceStep, SavesNonce, SaveSteps, SaveFailed, Exits, Boots, nonceFile,
       Nonces!AddMany, Nonces!Mutate, Nonces!CreateTmp, Nonces!WriteTmp, Nonces!SyncTmp,
       Nonces!IoFails, Nonces!RunFails, Nonces!Dies, Nonces!Load
  <2> QED BY <1>2, <2>1 DEF SavedNonces
<1> QED BY <1>1, <1>2

\* A nonce is in the file from the moment its save returned, and the task only
\* ends then or where it found the nonce there.
SavedInv ==
  /\ NP!NonceInv
  /\ Answered \subseteq SavedNonces
  /\ effects \subseteq {"handed", "saved"}
  /\ step = "down" => effects = {}
  /\ "saved" \in effects => task \in SavedNonces
  /\ step \in NP!Saving =>
       adding = [scope |-> "csp_e2e", nonces |-> {task}] /\ task \in 1..Total

LEMMA SavedInit == DeviceInit => SavedInv
<1> SUFFICES ASSUME DeviceInit PROVE SavedInv
  OBVIOUS
<1>1. NP!Init
  BY DEF DeviceInit, Nonces!Init, NP!Init, Nonces!FileInit, NP!FileInit, Nonces!NoNonces,
         NP!NoNonces, Nonces!Scope, NP!Scope, Nonces!Absent, NP!Absent
<1>2. Answered = {}
  <2>1. acks = <<>> /\ cspOut = <<>> /\ outCsp = <<>>
    BY DEF DeviceInit, CliInit, Init, ServerInit, WiringInit, DriverInit
  <2>2. Replies = <<>>
    BY <2>1 DEF Replies
  <2> QED BY <2>1, <2>2, RangeOfNothing DEF Answered
<1>3. effects = {} /\ step = "down"
  BY DEF DeviceInit, Nonces!Init, Nonces!FileInit
<1> QED BY <1>1, <1>2, <1>3, NP!InvInit DEF SavedInv, NP!Saving

LEMMA SavedStep ==
  ASSUME ClientInv, ClientInv', SavedInv, [DeviceNext]_deviceVars
  PROVE  SavedInv'
<1>1. /\ TypeInv /\ NP!NonceInv
      /\ Replies' \in Seq(CspOutPayload) /\ acks' \in Seq(0..Total)
  <2>1. TypeInv' => (Replies \in Seq(CspOutPayload) /\ acks \in Seq(0..Total))'
    BY ChainTypes, PTL
  <2> QED BY <2>1 DEF ClientInv, TransactionInv, SavedInv
<1>2. NonceStep
  BY DEF DeviceNext, NonceStep, HandsOver, Works, deviceVars
<1>3. NP!NonceInv' /\ SavedNonces \subseteq SavedNonces'
  BY <1>1, <1>2, NoncesKept, SavedGrows
<1>4. CASE Works
  <2>1. /\ CliNext /\ step = "idle" /\ step' = "idle" /\ effects' = {}
        /\ TaskEnds => TaskDone
    BY <1>4 DEF Works, Up, nonceFile
  <2>2. ASSUME TaskEnds PROVE task \in SavedNonces
    <3>1. memory = path.value
      BY <2>1 DEF SavedInv, NP!NonceInv, NP!SaveInv, NP!MemoryIsSaved
    <3> QED BY <2>1, <2>2, <3>1 DEF TaskDone, Has, SavedInv, SavedNonces
  <2>3. Answered' \subseteq SavedNonces'
    BY <1>1, <1>3, <2>1, <2>2, AnsweredGrows DEF SavedInv
  <2> QED BY <1>3, <2>1, <2>3 DEF SavedInv, NP!Saving
<1>5. CASE Boots
  <2>1. /\ acks' = acks /\ cspOut' = <<>> /\ outCsp' = <<>> /\ step' = "idle"
        /\ effects' = {}
    BY <1>5 DEF Boots, Nonces!Load, SavedInv
  <2>2. Range(Replies') = {}
    BY <2>1, RangeOfNothing DEF Replies
  <2>3. Answered' \subseteq Answered
    BY <2>1, <2>2 DEF Answered
  <2> QED BY <1>3, <2>1, <2>3 DEF SavedInv, NP!Saving
<1>6. CASE ~(Works \/ Boots)
  <2>1. UNCHANGED <<acks, cspOut, outCsp, task>>
    BY <1>6 DEF DeviceNext, HandsOver, SavesNonce, SaveSteps, NonceSaved, SaveFailed, Exits,
                deviceVars, cliVars, vars, channels, chatServer, driver
  <2>2. Answered' = Answered
    BY <2>1 DEF Answered, Replies
  <2>3. CASE SavesNonce
    <3>1. /\ effects' = effects /\ step' = "create" /\ step = "idle"
          /\ adding' = [scope |-> "csp_e2e", nonces |-> {task}]
      BY <2>3 DEF SavesNonce, Nonces!AddMany, Nonces!Mutate
    <3>2. task \in 1..Total
      BY <1>1, <2>3 DEF SavesNonce, Finishing, TypeInv, TypeOK, DriverTypeOK
    <3> QED BY <1>3, <2>1, <2>2, <3>1, <3>2 DEF SavedInv
  <2>4. CASE NonceSaved
    <3>1. /\ effects' = effects \cup {"saved"} /\ step' = "idle" /\ step = "rename"
      BY <2>4 DEF NonceSaved, Nonces!Saved, Nonces!RenameTmp
    <3>2. task \in SavedNonces'
      BY <1>1, <1>2, <2>4, <3>1, SavedGrows DEF SavedInv, NP!Saving
    <3> QED BY <1>3, <2>1, <2>2, <3>1, <3>2 DEF SavedInv, NP!Saving
  <2>5. CASE SaveSteps
    <3>1. /\ effects' = effects /\ adding' = adding /\ step' # "down"
          /\ step' \in NP!Saving => step \in NP!Saving
      BY <2>5 DEF SaveSteps, Nonces!CreateTmp, Nonces!WriteTmp, Nonces!SyncTmp, Nonces!IoFails,
                  NP!Saving
    <3> QED BY <1>3, <2>1, <2>2, <3>1 DEF SavedInv
  <2>6. CASE SaveFailed \/ Exits
    <3>1. effects' = {} /\ step' = "down"
      BY <2>6 DEF SaveFailed, Exits, Nonces!RunFails, Nonces!Dies
    <3> QED BY <1>3, <2>1, <2>2, <3>1 DEF SavedInv, NP!Saving
  <2>7. CASE HandsOver
    <3>1. effects' = effects \cup {"handed"} /\ step' = step /\ step = "idle"
      BY <2>7 DEF HandsOver, Finishing, Up, nonceFile
    <3> QED BY <1>3, <2>1, <2>2, <3>1 DEF SavedInv, NP!Saving
  <2>8. CASE UNCHANGED deviceVars
    BY <1>3, <2>1, <2>2, <2>8 DEF deviceVars, nonceFile, SavedInv
  <2> QED BY <1>6, <2>3, <2>4, <2>5, <2>6, <2>7, <2>8 DEF DeviceNext
<1> QED BY <1>4, <1>5, <1>6

THEOREM SavedInvariant == DeviceSpec => []SavedInv
BY EveryRun, SavedInit, SavedStep, PTL DEF DeviceSpec

\* A message whose ack is on its way, or was given, is never processed again,
\* whichever of the two effects of its task comes first, however often a save
\* fails and wherever a run ends: the next run finds its nonce in the file
\* (store.rs:103-122, e2e.rs:163-180).
THEOREM AckedStaysSaved == DeviceSpec => []AckedIsSaved
<1>1. ClientInv /\ SavedInv => AckedIsSaved
  <2> SUFFICES ASSUME ClientInv, SavedInv PROVE AckedIsSaved
    OBVIOUS
  <2>1. acks \in Seq(0..Total) /\ Replies \in Seq(CspOutPayload)
    BY ChainTypes DEF ClientInv, TransactionInv
  <2>2. DOMAIN acks = 1..Len(acks) /\ DOMAIN Replies = 1..Len(Replies)
    BY <2>1, LenProperties
  <2>3. Range(acks) \subseteq 1..Total
    <3>1. Range(acks) = 1..Len(acks) /\ Len(acks) \in 0..Total
      BY ServersHaveBeginnings
    <3> QED BY <3>1, MessageAssumption
  <2>4. ASSUME NEW i \in 1..Len(acks) PROVE acks[i] \in SavedNonces
    <3>1. acks[i] \in Range(acks)
      BY <2>2 DEF Range
    <3> QED BY <2>3, <3>1 DEF SavedInv, Answered
  <2>5. ASSUME NEW i \in 1..Len(Replies), Replies[i].n # 0 PROVE Replies[i].n \in SavedNonces
    <3>1. Replies[i] \in Range(Replies) /\ Replies[i] \in CspOutPayload
      BY <2>1, <2>2 DEF Range
    <3>2. Replies[i].n \in 1..Total
      BY <2>5, <3>1 DEF CspOutPayload
    <3> QED BY <3>1, <3>2 DEF SavedInv, Answered
  <2> QED BY <2>4, <2>5 DEF AckedIsSaved, Acked, SavedNonces, Replies
<1> QED BY EveryRun, SavedInvariant, <1>1, PTL

-----------------------------------------------------------------------------
(* What was reported of what is acknowledged.                              *)

\* The messages that are handed over before their nonce is saved, and whose
\* report nothing can forestall.
HandFirst ==
  {n \in (1..Total) \ SaveFirst :
     Content[n] \in TextKey /\ \A k \in 1..n - 1 : Content[k] # Content[n]}

\* A key was seen with a message this run has taken, and handed over.
SeenAt(taken) ==
  step # "down" =>
    \A key \in seen : \E k \in 1..taken : Content[k] = key /\ (k = task => effects # {})

ToldAt(handled) == \A i \in (1..handled) \cap TextReflection : reports[Envelope(i)] > 0

OrderSeen == \E taken \in 0..sent : OrderAt(taken) /\ SeenAt(taken)
EnvelopesTold == \E handled \in 0..reflected : ReflectedAt(handled) /\ ToldAt(handled)

\* The save of a message's nonce stands on one side of its report.
MessagesTold ==
  /\ \A n \in SaveFirst :
       n \notin SavedNonces \/ (n = task /\ (effects = {"saved"} \/ step \in NP!Saving)) =>
         reports[Message(n)] = 0
  /\ \A n \in HandFirst :
       n \in SavedNonces \/ (n = task /\ (effects # {} \/ step \in NP!Saving)) =>
         reports[Message(n)] > 0
  /\ step \in NP!Saving => memory["csp_e2e"] \subseteq SavedNonces \cup {task}

ReportsInv ==
  reports \in [Item -> Nat] /\ OrderSeen /\ EnvelopesTold /\ MessagesTold

LEMMA ItemsDiffer ==
  /\ \A n, m : Message(n) = Message(m) => n = m
  /\ \A i, j : Envelope(i) = Envelope(j) => i = j
  /\ \A n, i : Message(n) # Envelope(i)
BY DEF Message, Envelope

\* The client's own steps report envelopes; the end of a task has reported its message.
LEMMA WorksReports ==
  ASSUME TypeInv, Works, reports \in [Item -> Nat]
  PROVE  /\ seen' = seen
         /\ IF DriverRuns /\ OnReflected /\ Head(d2mIn).id \in TextReflection
            THEN reports' = [reports EXCEPT ![Envelope(Head(d2mIn).id)] = @ + 1]
            ELSE reports' = reports
<1> DEFINE id == Head(d2mIn).id
           S == [kind: {"Connected", "Direct", "Reflected"}, key: Key \cup Nat]
<1>1. /\ CliNext /\ (TaskEnds => UNCHANGED reporting)
      /\ reports' = [item \in Item |->
           IF events' # events /\ item = Envelope(events'[Len(events')].key)
                               /\ events'[Len(events')].kind = "Reflected"
           THEN reports[item] + 1 ELSE reports[item]]
  BY DEF Works
<1>2. ASSUME NEW kind \in {"Connected", "Reflected"}, NEW key \in Key \cup Nat,
             events' = Append(events, Event(kind, key))
      PROVE  /\ kind = "Connected" => reports' = reports
             /\ kind = "Reflected" => reports' = [reports EXCEPT ![Envelope(key)] = @ + 1]
  <2> DEFINE e == Event(kind, key)
  <2>1. events \in Seq(S) /\ e \in S /\ e.kind = kind /\ e.key = key
    BY DEF TypeInv, TypeOK, ReportingTypeOK, Event
  <2>2. events' = Append(events, e)
    BY <1>2
  <2> HIDE DEF e, S
  <2>3. Len(events) \in Nat /\ Len(events') = Len(events) + 1 /\ events'[Len(events')] = e
    BY <2>1, <2>2, AppendProperties, LenProperties
  <2>4. events' # events
    <3>1. Len(events') # Len(events)
      BY <2>3
    <3> QED BY <3>1
  <2>5. reports' = [item \in Item |->
          IF item = Envelope(key) /\ kind = "Reflected" THEN reports[item] + 1 ELSE reports[item]]
    BY <1>1, <2>1, <2>3, <2>4
  <2> QED BY <2>5
<1>3. ASSUME events' = events
      PROVE  reports' = reports /\ ~(DriverRuns /\ OnReflected /\ id \in TextReflection)
  <2>1. reports' = reports
    BY <1>1, <1>3
  <2>2. ~(DriverRuns /\ OnReflected /\ id \in TextReflection)
    <3> SUFFICES ASSUME DriverRuns, OnReflected, id \in TextReflection PROVE FALSE
      OBVIOUS
    <3>1. events' = Append(events, Event("Reflected", id)) /\ events \in Seq(S)
      BY DEF OnReflected, HandleReflectedEnvelope, TypeInv, TypeOK, ReportingTypeOK
    <3>2. Event("Reflected", id) \in S
      BY ReportingAssumption DEF Event
    <3> HIDE DEF S
    <3>3. Len(events') = Len(events) + 1 /\ Len(events) \in Nat
      BY <3>1, <3>2, AppendProperties, LenProperties
    <3> QED BY <1>3, <3>3
  <2> QED BY <2>1, <2>2
<1>4. CASE DriverRuns /\ OnReflected
  <2>1. seen' = seen
        /\ events' = IF id \in TextReflection THEN Append(events, Event("Reflected", id)) ELSE events
    BY <1>4 DEF OnReflected, HandleReflectedEnvelope
  <2>2. id \in TextReflection => id \in Key \cup Nat
    BY ReportingAssumption
  <2>3. id \in TextReflection => reports' = [reports EXCEPT ![Envelope(id)] = @ + 1]
    BY <1>2, <2>1, <2>2
  <2>4. id \notin TextReflection => reports' = reports
    BY <1>3, <2>1
  <2> HIDE DEF id
  <2> QED BY <1>4, <2>1, <2>3, <2>4 DEF id
<1>5. CASE ConnectD2m
  <2>1. seen' = seen /\ events' = Append(events, Event("Connected", 0)) /\ ~DriverRuns
    BY <1>5 DEF ConnectD2m, DriverRuns, Running
  <2> QED BY <1>2, <2>1
<1>6. CASE ~(ConnectD2m \/ (DriverRuns /\ OnReflected))
  <2>1. UNCHANGED reporting
    <3>1. CASE DriverRuns
      <4>1. PollDone => TaskEnds
        BY DEF PollDone, TaskEnds, TypeInv, TypeOK, DriverTypeOK
      <4> QED BY <1>1, <1>6, <3>1, <4>1
          DEF DriverRuns, DriverNext, SendCsp, SendD2m, TakeCspPayload, Polling, SenderFetched,
         ReflectReturns, OnD2m, OnBeginReply, OnTransactionEnded, OnCommitAck, OnReflectAck,
         OnPromotion, DropUnsolicited, PollFetchSender, PollBeginTransaction,
         PollTransactionRejected, PollAbortTransaction, PollReflectAndCommit, PollReflectMessage
    <3>2. CASE ~DriverRuns
      BY <1>1, <1>6, <3>2 DEF CliNext, PrintEvent, CtrlC, DropSender, ConnectFails, ConnectCsp,
         CspRuns, D2mRuns, RunEnds, ChatServerActs, MediatorActs, vars
    <3> QED BY <3>1, <3>2
  <2> QED BY <1>3, <2>1 DEF reporting
<1> QED BY <1>4, <1>5, <1>6

\* A message that is handed over is reported, unless its key was seen before.
LEMMA HandsOverReports ==
  ASSUME ClientInv, HandsOver, reports \in [Item -> Nat]
  PROVE  /\ task \in 1..Total /\ seen' = seen \cup {Content[task]}
         /\ IF Content[task] \in TextKey \ seen
            THEN reports' = [reports EXCEPT ![Message(task)] = @ + 1]
            ELSE reports' = reports
<1> DEFINE S == [kind: {"Connected", "Direct", "Reflected"}, key: Key \cup Nat]
           key == Content[task]
<1>1. TypeInv
  BY DEF ClientInv, TransactionInv
<1>2. task \in 1..Total
  BY <1>1 DEF HandsOver, Finishing, TypeInv, TypeOK, DriverTypeOK
<1>3. key \in Key
  BY <1>2, DriverAssumption
<1>4. /\ seen' = seen \cup {key}
      /\ events' = IF key \in TextKey \ seen THEN Append(events, Event("Direct", key)) ELSE events
  BY DEF HandsOver, AddOrUpdateIncomingMessage
<1>5. reports' = IF events' # events THEN [reports EXCEPT ![Message(task)] = @ + 1] ELSE reports
  BY DEF HandsOver
<1>6. Len(Append(events, Event("Direct", key))) # Len(events)
  <2>1. events \in Seq(S)
    BY <1>1 DEF TypeInv, TypeOK, ReportingTypeOK
  <2>2. Event("Direct", key) \in S
    BY <1>3 DEF Event
  <2> HIDE DEF S, key
  <2> QED BY <2>1, <2>2, AppendProperties, LenProperties
<1> QED BY <1>2, <1>4, <1>5, <1>6

\* Nothing this run has seen before forestalls the report of a message handed over first.
LEMMA Forestalled ==
  ASSUME ReportsInv, HandsOver, task \in HandFirst
  PROVE  Content[task] \in TextKey \ seen
<1>1. effects = {} /\ step = "idle" /\ task # 0
  <2>1. task \in 1..Total /\ task \notin SaveFirst
    BY DEF HandFirst
  <2> QED BY <2>1 DEF HandsOver, Finishing, Up
<1>2. PICK taken \in 0..sent : OrderAt(taken) /\ SeenAt(taken)
  BY DEF ReportsInv, OrderSeen
<1>3. taken = task
  BY <1>1, <1>2 DEF OrderAt
<1>4. ASSUME Content[task] \in seen PROVE FALSE
  <2>1. PICK k \in 1..taken : Content[k] = Content[task] /\ (k = task => effects # {})
    BY <1>1, <1>2, <1>4 DEF SeenAt
  <2>2. k # task
    BY <1>1, <2>1
  <2>3. task \in 1..Total
    BY DEF HandFirst
  <2>4. k \in 1..task - 1
    BY <1>3, <2>1, <2>2, <2>3
  <2> QED BY <2>1, <2>4 DEF HandFirst
<1> QED BY <1>4 DEF HandFirst

LEMMA ReportsGrow ==
  ASSUME ClientInv, reports \in [Item -> Nat], [DeviceNext]_deviceVars
  PROVE  /\ reports' \in [Item -> Nat]
         /\ \A item \in Item : reports[item] =< reports'[item]
         /\ \A n \in 1..Total :
              (HandsOver /\ n = task) \/ reports'[Message(n)] = reports[Message(n)]
<1>1. ASSUME NEW x, reports' = [reports EXCEPT ![x] = @ + 1]
      PROVE  /\ reports' \in [Item -> Nat]
             /\ \A item \in Item : reports[item] =< reports'[item]
             /\ \A item \in Item : item # x => reports'[item] = reports[item]
  <2>1. /\ reports' = [item \in Item |-> IF item = x THEN reports[item] + 1 ELSE reports[item]]
        /\ \A item \in Item : reports[item] \in Nat
    BY <1>1
  <2>2. \A item \in Item : reports'[item] = IF item = x THEN reports[item] + 1 ELSE reports[item]
    BY <2>1
  <2>3. \A item \in Item : reports'[item] \in Nat
    BY <2>1, <2>2
  <2> QED BY <2>1, <2>2, <2>3
<1>2. \A n \in 1..Total : Message(n) \in Item
  BY DEF Item
<1>3. CASE Works
  <2>1. TypeInv
    BY DEF ClientInv, TransactionInv
  <2>2. reports' = reports \/ \E i : reports' = [reports EXCEPT ![Envelope(i)] = @ + 1]
    BY <1>3, <2>1, WorksReports
  <2>3. ASSUME NEW i, reports' = [reports EXCEPT ![Envelope(i)] = @ + 1]
        PROVE  \A n \in 1..Total : reports'[Message(n)] = reports[Message(n)]
    BY <1>1, <1>2, <2>3, ItemsDiffer
  <2> QED BY <1>1, <2>2, <2>3
<1>4. CASE HandsOver
  <2>1. reports' = reports \/ reports' = [reports EXCEPT ![Message(task)] = @ + 1]
    BY <1>4, HandsOverReports
  <2>2. ASSUME reports' = [reports EXCEPT ![Message(task)] = @ + 1]
        PROVE  \A n \in 1..Total : n = task \/ reports'[Message(n)] = reports[Message(n)]
    BY <1>1, <1>2, <2>2, ItemsDiffer
  <2> QED BY <1>1, <1>4, <2>1, <2>2
<1>5. CASE ~(Works \/ HandsOver)
  <2>1. reports' = reports
    BY <1>5 DEF DeviceNext, SavesNonce, SaveSteps, NonceSaved, SaveFailed, Exits, Boots, deviceVars
  <2> QED BY <2>1
<1> QED BY <1>3, <1>4, <1>5

LEMMA MessagesToldStep ==
  ASSUME ClientInv, SavedInv, ReportsInv, [DeviceNext]_deviceVars
  PROVE  MessagesTold'
<1>1. /\ reports \in [Item -> Nat] /\ MessagesTold /\ NP!NonceInv /\ TypeInv
      /\ SaveFirst \subseteq 1..Total /\ HandFirst \subseteq 1..Total
      /\ \A n \in 1..Total : Message(n) \in Item
      /\ "saved" \in effects => task \in SavedNonces
  BY DeviceAssumption DEF ReportsInv, SavedInv, HandFirst, Item, ClientInv, TransactionInv
<1>2. /\ reports' \in [Item -> Nat]
      /\ \A item \in Item : reports[item] =< reports'[item]
      /\ \A n \in 1..Total : (HandsOver /\ n = task) \/ reports'[Message(n)] = reports[Message(n)]
  BY <1>1, ReportsGrow
<1>3. \A n \in HandFirst : reports[Message(n)] > 0 => reports'[Message(n)] > 0
  BY <1>1, <1>2
<1>4. ~HandsOver => \A n \in SaveFirst : reports'[Message(n)] = reports[Message(n)]
  BY <1>1, <1>2
<1>5. CASE HandsOver
  <2>1. /\ effects' = effects \cup {"handed"} /\ step' = "idle" /\ task' = task
        /\ SavedNonces' = SavedNonces
    BY <1>5 DEF HandsOver, Finishing, Up, driver, nonceFile, SavedNonces
  <2>2. ASSUME NEW n \in SaveFirst, n \notin SavedNonces PROVE reports'[Message(n)] = 0
    <3>1. n # task
      BY <1>1, <1>5, <2>2 DEF HandsOver
    <3> QED BY <1>1, <1>2, <2>2, <3>1 DEF MessagesTold
  <2>3. ASSUME task \in HandFirst PROVE reports'[Message(task)] > 0
    <3>1. reports' = [reports EXCEPT ![Message(task)] = @ + 1]
      BY <1>1, <1>5, <2>3, Forestalled, HandsOverReports
    <3> QED BY <1>1, <2>3, <3>1
  <2>4. "handed" \in effects' /\ effects' # {"saved"} /\ step' \notin NP!Saving
    BY <2>1 DEF NP!Saving
  <2>5. \A n \in HandFirst : n \in SavedNonces => reports'[Message(n)] > 0
    BY <1>1, <1>3 DEF MessagesTold
  <2> QED BY <2>1, <2>2, <2>3, <2>4, <2>5 DEF MessagesTold, HandFirst
<1>6. CASE SavesNonce
  <2>1. /\ effects' = effects /\ step = "idle" /\ task' = task /\ path' = path
        /\ memory' = [memory EXCEPT !["csp_e2e"] = @ \cup {task}]
        /\ IF task \in SaveFirst THEN effects = {} /\ ~Has(task) ELSE effects = {"handed"}
    BY <1>6 DEF SavesNonce, Nonces!AddMany, Nonces!Mutate, cliVars, vars, driver
  <2>2. memory = path.value
    BY <1>1, <2>1 DEF NP!NonceInv, NP!SaveInv, NP!MemoryIsSaved
  <2>3. SavedNonces' = SavedNonces
    BY <2>1 DEF SavedNonces
  <2>4. memory'["csp_e2e"] \subseteq SavedNonces \cup {task}
    <3>1. "csp_e2e" \in DOMAIN memory
      BY <1>1 DEF NP!NonceInv, NP!NonceTypeOK, NP!FileTypeOK, NP!NonceFile, NP!Scope
    <3> QED BY <2>1, <2>2, <3>1 DEF SavedNonces
  <2>5. task \in SaveFirst => reports[Message(task)] = 0
    BY <1>1, <2>1, <2>2 DEF MessagesTold, Has, SavedNonces
  <2>6. task \in HandFirst => reports[Message(task)] > 0
    BY <1>1, <2>1 DEF MessagesTold, HandFirst
  <2>7. \A n \in SaveFirst : n \notin SavedNonces => reports[Message(n)] = 0
    BY <1>1 DEF MessagesTold
  <2>8. \A n \in HandFirst : n \in SavedNonces => reports[Message(n)] > 0
    BY <1>1 DEF MessagesTold
  <2>9. ~HandsOver /\ reports' = reports
    BY <1>6, <2>1 DEF HandsOver, SavesNonce, nonceFile, Nonces!AddMany, Nonces!Mutate
  <2> QED BY <2>1, <2>3, <2>4, <2>5, <2>6, <2>7, <2>8, <2>9 DEF MessagesTold, HandFirst
<1>7. CASE NonceSaved
  <2>1. /\ step \in NP!Saving /\ step' \notin NP!Saving /\ task' = task /\ reports' = reports
    BY <1>7 DEF NonceSaved, Nonces!Saved, Nonces!RenameTmp, NP!Saving, cliVars, vars, driver
  <2>2. NonceStep
    BY <1>7 DEF NonceStep
  <2>3. SavedNonces' = memory["csp_e2e"] /\ SavedNonces \subseteq SavedNonces'
    BY <1>1, <1>7, <2>2, SavedGrows
  <2>4. SavedNonces' \subseteq SavedNonces \cup {task}
    BY <1>1, <2>1, <2>3 DEF MessagesTold
  <2>5. /\ task \in SaveFirst => reports[Message(task)] = 0
        /\ task \in HandFirst => reports[Message(task)] > 0
    BY <1>1, <2>1 DEF MessagesTold
  <2>6. /\ \A n \in SaveFirst : n \notin SavedNonces => reports[Message(n)] = 0
        /\ \A n \in HandFirst : n \in SavedNonces => reports[Message(n)] > 0
    BY <1>1 DEF MessagesTold
  <2> QED BY <2>1, <2>3, <2>4, <2>5, <2>6 DEF MessagesTold, HandFirst
<1>8. CASE SaveSteps
  <2>1. /\ UNCHANGED <<effects, task, path, memory, reports>>
        /\ step' \in NP!Saving => step \in NP!Saving
    BY <1>8 DEF SaveSteps, Nonces!CreateTmp, Nonces!WriteTmp, Nonces!SyncTmp, Nonces!IoFails,
                NP!Saving, cliVars, vars, driver
  <2> QED BY <1>1, <2>1 DEF MessagesTold, SavedNonces
<1>9. CASE Works \/ SaveFailed \/ Exits \/ Boots
  <2>1. effects' = {} /\ path' = path /\ step' \in {"idle", "down"} /\ ~HandsOver
    <3>1. CASE Works
      BY <3>1 DEF Works, Up, nonceFile, HandsOver
    <3>2. CASE SaveFailed \/ Exits
      BY <3>2 DEF SaveFailed, Exits, Nonces!RunFails, Nonces!Dies, HandsOver, Finishing, Up, nonceFile
    <3>3. CASE Boots
      BY <3>3 DEF Boots, Nonces!Load, HandsOver, Finishing, Up, SavedInv
    <3> QED BY <1>9, <3>1, <3>2, <3>3
  <2>2. SavedNonces' = SavedNonces /\ step' \notin NP!Saving
    BY <2>1 DEF SavedNonces, NP!Saving
  <2>3. \A n \in SaveFirst : n \notin SavedNonces => reports'[Message(n)] = 0
    BY <1>1, <1>4, <2>1 DEF MessagesTold
  <2>4. \A n \in HandFirst : n \in SavedNonces => reports'[Message(n)] > 0
    BY <1>1, <1>3 DEF MessagesTold
  <2> QED BY <2>1, <2>2, <2>3, <2>4 DEF MessagesTold, HandFirst
<1>10. CASE UNCHANGED deviceVars
  BY <1>1, <1>10 DEF deviceVars, nonceFile, cliVars, vars, driver, MessagesTold, SavedNonces
<1> QED BY <1>5, <1>6, <1>7, <1>8, <1>9, <1>10 DEF DeviceNext

LEMMA WorksFrom ==
  ASSUME ClientInv, ClientInv', CliNext
  PROVE  /\ \A taken \in 0..sent : OrderAt(taken) => OrderFrom(taken)
         /\ \A handled \in 0..reflected : ReflectedAt(handled) => ReflectedFrom(handled)
<1>1. /\ TransactionInv /\ TransactionInv' /\ TypeInv /\ TypeInv' /\ QueueInv /\ QueueInv'
  BY DEF ClientInv, TransactionInv
<1>2. CASE CtrlC
  <2>1. /\ UNCHANGED <<sent, task, reflected>>
        /\ \A taken : OrderAt(taken) => OrderAt(taken)'
        /\ \A handled : ReflectedAt(handled) => ReflectedAt(handled)'
    BY <1>2, PlacesKept DEF CtrlC
  <2>2. \A handled : Told(handled) => Told(handled)'
    BY <1>2 DEF CtrlC, reporting, Told, ReportedEnvelopes
  <2> QED BY <2>1, <2>2 DEF OrderFrom, ReflectedFrom
<1>3. CASE ~CtrlC
  <2>1. [Next]_vars
    BY <1>3 DEF CliNext, PrintEvent, Next
  <2> QED BY <1>1, <2>1, OrderStep, ReflectedStep
<1> QED BY <1>2, <1>3

LEMMA OrderSeenStep ==
  ASSUME ClientInv, ClientInv', ReportsInv, SavedInv, [DeviceNext]_deviceVars
  PROVE  OrderSeen'
<1>1. PICK taken \in 0..sent : OrderAt(taken) /\ SeenAt(taken)
  BY DEF ReportsInv, OrderSeen
<1>2. taken \in Nat /\ task \in {0, taken} /\ TypeInv /\ reports \in [Item -> Nat]
  <2>1. sent \in 0..Total /\ TypeInv
    BY DEF ClientInv, TransactionInv, TypeInv, TypeOK, CspTypeOK
  <2> QED BY <1>1, <2>1 DEF OrderAt, ReportsInv
<1>3. CASE Works
  <2>1. PICK next \in 0..sent' :
          /\ OrderAt(next)'
          /\ (next = taken /\ task' \in {0, task}) \/ next = taken + 1
    BY <1>1, <1>3, WorksFrom DEF Works, OrderFrom
  <2>2. /\ seen' = seen /\ step = "idle" /\ effects' = {}
        /\ IF TaskEnds THEN TRUE ELSE effects = {}
    BY <1>2, <1>3, WorksReports DEF Works, Up
  <2>3. task' \in {0, next}
    BY <2>1 DEF OrderAt
  <2>4. ASSUME NEW key \in seen
        PROVE  \E k \in 1..next : Content[k] = key /\ k # task'
    <3>1. PICK k \in 1..taken : Content[k] = key /\ (k = task => effects # {})
      BY <1>1, <2>2, <2>4 DEF SeenAt
    <3>2. k \in 1..next
      BY <1>2, <2>1, <3>1
    <3>3. k # task'
      <4>1. CASE next = taken /\ task' \in {0, task}
        BY <1>2, <2>2, <3>1, <4>1 DEF TaskEnds
      <4>2. CASE next = taken + 1
        BY <1>2, <2>3, <3>1, <4>2
      <4> QED BY <2>1, <4>1, <4>2
    <3> QED BY <3>1, <3>2, <3>3
  <2>5. SeenAt(next)'
    BY <2>2, <2>4 DEF SeenAt
  <2> QED BY <2>1, <2>5 DEF OrderSeen
<1>4. CASE HandsOver
  <2>1. /\ OrderAt(taken)' /\ sent' = sent /\ task' = task
    BY <1>1, <1>4, PlacesKept DEF HandsOver
  <2>2. /\ seen' = seen \cup {Content[task]} /\ effects' # {} /\ step = "idle" /\ task \in 1..Total
    BY <1>2, <1>4, HandsOverReports DEF HandsOver, Finishing, Up
  <2>3. task \in 1..taken
    BY <1>2, <2>2
  <2>4. SeenAt(taken)'
    BY <1>1, <2>1, <2>2, <2>3 DEF SeenAt
  <2> QED BY <2>1, <2>4 DEF OrderSeen
<1>5. CASE Boots
  <2>1. seen' = {} /\ OrderInv'
    BY <1>5 DEF Boots, ClientInv
  <2> QED BY <2>1 DEF OrderInv, OrderSeen, SeenAt
<1>6. CASE SavesNonce \/ SaveSteps \/ NonceSaved \/ SaveFailed \/ Exits \/ UNCHANGED deviceVars
  <2>1. UNCHANGED <<channels, chatServer, csp, mediator, d2m, driver>> /\ seen' = seen
    BY <1>6 DEF SavesNonce, SaveSteps, NonceSaved, SaveFailed, Exits, reporting, deviceVars,
                cliVars, vars
  <2>2. OrderAt(taken)' /\ sent' = sent /\ task' = task
    BY <1>1, <2>1, PlacesKept
  <2>3. step' = "down" \/ (step # "down" /\ effects \subseteq effects')
    <3>1. CASE SaveFailed \/ Exits
      BY <3>1 DEF SaveFailed, Exits, Nonces!RunFails, Nonces!Dies
    <3>2. CASE SavesNonce
      BY <3>2 DEF SavesNonce, Finishing, Up
    <3>3. CASE SaveSteps
      <4>1. step # "down"
        BY <3>3, DeviceAssumption
        DEF SaveSteps, Nonces!CreateTmp, Nonces!WriteTmp, Nonces!SyncTmp, Nonces!IoFails
      <4> QED BY <3>3, <4>1 DEF SaveSteps
    <3>4. CASE NonceSaved
      BY <3>4 DEF NonceSaved, Nonces!Saved, Nonces!RenameTmp
    <3>5. CASE UNCHANGED deviceVars
      BY <3>5 DEF deviceVars, nonceFile
    <3> QED BY <1>6, <3>1, <3>2, <3>3, <3>4, <3>5
  <2>4. SeenAt(taken)'
    BY <1>1, <2>1, <2>2, <2>3 DEF SeenAt
  <2> QED BY <2>2, <2>4 DEF OrderSeen
<1> QED BY <1>3, <1>4, <1>5, <1>6 DEF DeviceNext

LEMMA EnvelopesToldStep ==
  ASSUME ClientInv, ClientInv', ReportsInv, [DeviceNext]_deviceVars
  PROVE  EnvelopesTold'
<1>1. PICK handled \in 0..reflected : ReflectedAt(handled) /\ ToldAt(handled)
  BY DEF ReportsInv, EnvelopesTold
<1>2. /\ reflected \in 0..Reflections /\ TypeInv /\ reports \in [Item -> Nat]
      /\ \A i \in 1..Reflections : Envelope(i) \in Item
      /\ handled \in 0..Reflections
  <2>1. reflected \in 0..Reflections /\ TypeInv
    BY DEF ClientInv, TransactionInv, TypeInv, TypeOK, D2mTypeOK
  <2> QED BY <1>1, <2>1, MediatorAssumption DEF ReportsInv, Item
<1>3. /\ reports' \in [Item -> Nat]
      /\ \A item \in Item : reports[item] =< reports'[item]
  BY <1>2, ReportsGrow
<1>4. ToldAt(handled)'
  <2>1. ASSUME NEW i \in (1..handled) \cap TextReflection PROVE reports'[Envelope(i)] > 0
    <3>1. i \in 1..Reflections
      BY <1>2, <2>1, MediatorAssumption
    <3>2. Envelope(i) \in Item /\ reports[Envelope(i)] > 0
      BY <1>1, <1>2, <2>1, <3>1 DEF ToldAt
    <3> QED BY <1>2, <1>3, <3>2
  <2> QED BY <2>1 DEF ToldAt
<1>5. CASE Works
  <2>1. PICK next \in 0..reflected' :
          /\ ReflectedAt(next)'
          /\ next = handled \/ (next = handled + 1 /\ DriverRuns /\ OnReflected)
    BY <1>1, <1>5, WorksFrom DEF Works, ReflectedFrom
  <2>2. CASE next = handled
    BY <1>4, <2>1, <2>2 DEF EnvelopesTold
  <2>3. CASE next = handled + 1 /\ DriverRuns /\ OnReflected
    <3>1. Head(d2mIn).id = next /\ next \in 1..Reflections
      <4>1. Head(d2mIn).id = handled + 1 /\ handled + 1 \in 0..reflected
        BY <1>1, <1>2, <2>3, ReflectedNext DEF ReflectedAt
      <4> QED BY <1>2, <2>3, <4>1, MediatorAssumption
    <3>2. next \in TextReflection => reports'[Envelope(next)] > 0
      <4> HAVE next \in TextReflection
      <4>1. reports' = [reports EXCEPT ![Envelope(next)] = @ + 1]
        BY <1>2, <1>5, <2>3, <3>1, WorksReports
      <4> QED BY <1>2, <3>1, <4>1
    <3>3. \A i \in 1..next : i \in 1..handled \/ i = next
      BY <1>2, <2>3
    <3>4. ToldAt(next)'
      BY <1>4, <3>2, <3>3 DEF ToldAt
    <3> QED BY <2>1, <3>4 DEF EnvelopesTold
  <2> QED BY <2>1, <2>2, <2>3
<1>6. CASE Boots
  <2>1. reports' = reports /\ reflected' = Len(reflectedAcks)
    BY <1>6 DEF Boots
  <2>2. PICK again \in 0..reflected' : ReflectedAt(again)'
    BY DEF ClientInv
  <2>3. 1..Len(reflectedAcks) \subseteq 1..handled /\ Len(reflectedAcks) \in Nat
    <3>1. Begins(reflectedAcks, 1..handled)
      BY <1>1, ListBegins DEF ReflectedAt, Acking
    <3> QED BY <3>1, ServersHaveBeginnings, MediatorAssumption DEF Begins
  <2>4. 1..again \subseteq 1..handled
    BY <2>1, <2>2, <2>3
  <2>5. ToldAt(again)'
    BY <1>4, <2>4 DEF ToldAt
  <2> QED BY <2>2, <2>5 DEF EnvelopesTold
<1>7. CASE ~(Works \/ Boots)
  <2>1. UNCHANGED <<channels, chatServer, csp, mediator, d2m, driver>>
    BY <1>7 DEF DeviceNext, HandsOver, SavesNonce, SaveSteps, NonceSaved, SaveFailed, Exits,
                deviceVars, cliVars, vars
  <2>2. ReflectedAt(handled)' /\ reflected' = reflected
    BY <1>1, <2>1, PlacesKept
  <2> QED BY <1>4, <2>2 DEF EnvelopesTold
<1> QED BY <1>5, <1>6, <1>7

LEMMA ReportsInit == DeviceInit => ReportsInv
<1> SUFFICES ASSUME DeviceInit PROVE ReportsInv
  OBVIOUS
<1>1. /\ ClientInv /\ sent = 0 /\ reflected = 0 /\ step = "down" /\ effects = {}
      /\ reports = [item \in Item |-> 0] /\ path = Nonces!Absent
  BY ClientInit DEF DeviceInit, CliInit, Init, ServerInit, MediatorInit, Nonces!Init,
                    Nonces!FileInit
<1>2. OrderSeen
  BY <1>1 DEF ClientInv, OrderInv, OrderSeen, SeenAt
<1>3. EnvelopesTold
  <2>1. PICK handled \in 0..reflected : ReflectedAt(handled)
    BY <1>1 DEF ClientInv
  <2>2. 1..handled = {}
    BY <1>1, <2>1
  <2> QED BY <2>1, <2>2 DEF EnvelopesTold, ToldAt
<1>4. MessagesTold
  <2>1. SavedNonces = {}
    BY <1>1 DEF SavedNonces, Nonces!Absent, Nonces!NoNonces, Nonces!Scope
  <2>2. \A n \in SaveFirst : Message(n) \in Item
    BY DeviceAssumption DEF Item
  <2> QED BY <1>1, <2>1, <2>2 DEF MessagesTold, NP!Saving
<1> QED BY <1>1, <1>2, <1>3, <1>4 DEF ReportsInv

LEMMA ReportsStep ==
  ASSUME ClientInv, ClientInv', SavedInv, ReportsInv, [DeviceNext]_deviceVars
  PROVE  ReportsInv'
<1>1. reports' \in [Item -> Nat]
  BY ReportsGrow DEF ReportsInv
<1> QED BY <1>1, OrderSeenStep, EnvelopesToldStep, MessagesToldStep DEF ReportsInv

THEOREM ReportsInvariant == DeviceSpec => []ReportsInv
BY EveryRun, SavedInvariant, ReportsInit, ReportsStep, PTL DEF DeviceSpec

-----------------------------------------------------------------------------
(* The device implements Inbox.                                            *)

AckedItems ==
  {Message(n) : n \in Acked} \cup {Envelope(reflectedAcks[i]) : i \in 1..Len(reflectedAcks)}

LEMMA AckedItemsRange ==
  ASSUME TypeInv
  PROVE  AckedItems
           = {Message(n) : n \in Range(acks)} \cup {Envelope(i) : i \in Range(reflectedAcks)}
<1>1. DOMAIN acks = 1..Len(acks) /\ DOMAIN reflectedAcks = 1..Len(reflectedAcks)
  <2>1. acks \in Seq(0..Total) /\ reflectedAcks \in Seq(Nat \cup ReflectId)
    BY DEF TypeInv, TypeOK, CspTypeOK, D2mTypeOK
  <2> QED BY <2>1, LenProperties
<1>2. Acked = Range(acks)
  BY <1>1 DEF Acked, Range
<1>3. {Envelope(reflectedAcks[i]) : i \in 1..Len(reflectedAcks)}
        = {Envelope(i) : i \in Range(reflectedAcks)}
  BY <1>1 DEF Range
<1> QED BY <1>2, <1>3 DEF AckedItems

\* What is acknowledged has been reported, if it must be.
LEMMA AckedIsTold ==
  ASSUME ClientInv, SavedInv, ReportsInv
  PROVE  \A item \in AckedItems :
           /\ item \in Item
           /\ item \in {Message(n) : n \in HandFirst} \cup {Envelope(i) : i \in TextReflection} =>
                reports[item] > 0
<1>1. AckedItems = {Message(n) : n \in Range(acks)} \cup {Envelope(i) : i \in Range(reflectedAcks)}
  BY AckedItemsRange DEF ClientInv, TransactionInv
<1>2. Range(acks) \subseteq 1..Total /\ Range(reflectedAcks) \subseteq 1..Reflections
  <2>1. /\ Range(acks) = 1..Len(acks) /\ Len(acks) \in 0..Total
        /\ Range(reflectedAcks) = 1..Len(reflectedAcks) /\ Len(reflectedAcks) \in 0..Reflections
    BY ServersHaveBeginnings
  <2> QED BY <2>1, MessageAssumption, MediatorAssumption
<1>3. ASSUME NEW n \in Range(acks) \cap HandFirst PROVE reports[Message(n)] > 0
  BY <1>2, <1>3 DEF SavedInv, Answered, ReportsInv, MessagesTold
<1>4. ASSUME NEW i \in Range(reflectedAcks) \cap TextReflection PROVE reports[Envelope(i)] > 0
  <2>1. PICK handled \in 0..reflected : ReflectedAt(handled) /\ ToldAt(handled)
    BY DEF ReportsInv, EnvelopesTold
  <2>2. Begins(reflectedAcks, 1..handled)
    BY <2>1, ListBegins DEF ReflectedAt, Acking
  <2> QED BY <1>4, <2>1, <2>2 DEF Begins, ToldAt
<1> QED BY <1>1, <1>2, <1>3, <1>4, ItemsDiffer DEF Item

\* A step gives at most one server one ack, and reports nothing meanwhile.
LEMMA WorksAcks ==
  ASSUME TypeInv, CliNext
  PROVE  \/ acks' = acks /\ reflectedAcks' = reflectedAcks
         \/ /\ events' = events /\ reflectedAcks' = reflectedAcks
            /\ \E n \in 0..Total : acks' = Append(acks, n)
         \/ /\ events' = events /\ acks' = acks
            /\ \E i \in Nat \cup ReflectId : reflectedAcks' = Append(reflectedAcks, i)
<1>1. CASE CspRuns /\ CspSend
  <2>1. /\ events' = events /\ reflectedAcks' = reflectedAcks
        /\ acks' = acks \/ acks' = Append(acks, Head(cspOut).n)
    BY <1>1 DEF CspRuns, CspSend, ServerReceives, mediator, reporting
  <2>2. Head(cspOut) \in CspOutPayload
    <3>1. cspOut \in Seq(CspOutPayload) /\ cspOut # <<>>
      BY <1>1 DEF CspSend, TypeInv, TypeOK, WiringTypeOK
    <3> QED BY <3>1, HeadTailProperties
  <2>3. Head(cspOut).n \in 0..Total
    BY <2>2 DEF CspOutPayload
  <2> QED BY <2>1, <2>3
<1>2. CASE D2mRuns /\ D2mSend
  <2>1. /\ events' = events /\ acks' = acks
        /\ reflectedAcks' = reflectedAcks \/ reflectedAcks' = Append(reflectedAcks, Head(d2mOut).id)
    BY <1>2 DEF D2mRuns, D2mSend, MediatorReceives, chatServer, reporting
  <2>2. Head(d2mOut) \in D2mOutPayload
    <3>1. d2mOut \in Seq(D2mOutPayload) /\ d2mOut # <<>>
      BY <1>2 DEF D2mSend, TypeInv, TypeOK, WiringTypeOK
    <3> QED BY <3>1, HeadTailProperties
  <2>3. Head(d2mOut).id \in Nat \cup ReflectId
    BY <2>2 DEF D2mOutPayload
  <2> QED BY <2>1, <2>3
<1>3. CASE ~((CspRuns /\ CspSend) \/ (D2mRuns /\ D2mSend))
  <2>1. CASE CspRuns \/ ChatServerActs
    BY <1>3, <2>1 DEF CspRuns, CspNext, CspStart, CspHandshake, CspPoll, CspForward, CspRead,
       ChatServerActs, ServerSendsMessage, ServerSendsExtra, ServerEnds, chatServer, mediator
  <2>2. CASE D2mRuns \/ MediatorActs \/ ConnectD2m
    BY <1>3, <2>2 DEF D2mRuns, D2mNext, D2mHandshake, D2mReceive, D2mForward, D2mFlowEnds,
       MediatorActs, MediatorPromotes, MediatorRunsDry, MediatorReflects, SiblingBegins,
       SiblingEnds, MediatorCloses, ConnectD2m, D2mConnect, chatServer, mediator
  <2>3. CASE ~(CspRuns \/ ChatServerActs \/ D2mRuns \/ MediatorActs \/ ConnectD2m)
    BY <2>3 DEF CliNext, PrintEvent, CtrlC, DropSender, ConnectFails, ConnectCsp, DriverRuns,
       RunEnds, vars, chatServer, mediator
  <2> QED BY <2>1, <2>2, <2>3
<1> QED BY <1>1, <1>2, <1>3

\* A message in hand is not acknowledged; nor is the envelope about to be handled.
LEMMA InHandUnacked ==
  ASSUME ClientInv
  PROVE  /\ task # 0 => Message(task) \notin AckedItems
         /\ DriverRuns /\ OnReflected =>
              /\ Head(d2mIn).id \in 1..Reflections
              /\ Envelope(Head(d2mIn).id) \notin AckedItems
<1>1. /\ TypeInv
      /\ AckedItems
           = {Message(n) : n \in Range(acks)} \cup {Envelope(i) : i \in Range(reflectedAcks)}
  BY AckedItemsRange DEF ClientInv, TransactionInv
<1>2. ASSUME task # 0 PROVE Message(task) \notin AckedItems
  <2>1. PICK taken \in 0..sent : OrderAt(taken)
    BY DEF ClientInv, OrderInv
  <2>2. Begins(acks, Done(taken))
    BY <2>1, ListBegins DEF OrderAt, Acknowledging
  <2>3. task \notin Range(acks)
    BY <2>2 DEF Begins, Done
  <2> QED BY <1>1, <2>3, ItemsDiffer
<1>3. ASSUME DriverRuns, OnReflected
      PROVE  /\ Head(d2mIn).id \in 1..Reflections
             /\ Envelope(Head(d2mIn).id) \notin AckedItems
  <2>1. PICK handled \in 0..reflected : ReflectedAt(handled)
    BY DEF ClientInv
  <2>2. reflected \in 0..Reflections
    BY <1>1 DEF TypeInv, TypeOK, D2mTypeOK
  <2>3. Head(d2mIn).id = handled + 1 /\ handled + 1 \in 0..reflected
    BY <1>1, <1>3, <2>1, ReflectedNext DEF ReflectedAt
  <2>4. Begins(reflectedAcks, 1..handled)
    BY <2>1, ListBegins DEF ReflectedAt, Acking
  <2>5. Head(d2mIn).id \notin Range(reflectedAcks)
    BY <2>2, <2>3, <2>4, MediatorAssumption DEF Begins
  <2>6. Head(d2mIn).id \in 1..Reflections
    BY <2>2, <2>3, MediatorAssumption
  <2> QED BY <1>1, <2>5, <2>6, ItemsDiffer
<1> QED BY <1>2, <1>3

\* One more ack at a server acknowledges one more item.
LEMMA AckedItemsGrow ==
  ASSUME TypeInv, TypeInv'
  PROVE  /\ UNCHANGED <<acks, reflectedAcks>> => AckedItems' = AckedItems
         /\ \A n \in 0..Total : acks' = Append(acks, n) /\ reflectedAcks' = reflectedAcks =>
              AckedItems' = AckedItems \cup {Message(n)}
         /\ \A i \in Nat \cup ReflectId : reflectedAcks' = Append(reflectedAcks, i) /\ acks' = acks =>
              AckedItems' = AckedItems \cup {Envelope(i)}
<1> DEFINE Items(A, R) == {Message(n) : n \in A} \cup {Envelope(i) : i \in R}
<1>1. AckedItems = Items(Range(acks), Range(reflectedAcks))
  BY AckedItemsRange
<1>2. AckedItems' = Items(Range(acks'), Range(reflectedAcks'))
  <2>1. TypeInv' => (AckedItems
           = {Message(n) : n \in Range(acks)} \cup {Envelope(i) : i \in Range(reflectedAcks)})'
    BY AckedItemsRange, PTL
  <2> QED BY <2>1 DEF Range, Message, Envelope
<1>3. acks \in Seq(0..Total) /\ reflectedAcks \in Seq(Nat \cup ReflectId)
  BY DEF TypeInv, TypeOK, CspTypeOK, D2mTypeOK
<1>4. ASSUME NEW n \in 0..Total, acks' = Append(acks, n) PROVE Range(acks') = Range(acks) \cup {n}
  <2> DEFINE S == 0..Total
  <2>1. acks \in Seq(S) /\ n \in S
    BY <1>3
  <2> HIDE DEF S
  <2> QED BY <1>4, <2>1, RangeAppend
<1>5. ASSUME NEW i \in Nat \cup ReflectId, reflectedAcks' = Append(reflectedAcks, i)
      PROVE  Range(reflectedAcks') = Range(reflectedAcks) \cup {i}
  BY <1>3, <1>5, RangeAppend
<1>6. /\ \A A, R, x : Items(A \cup {x}, R) = Items(A, R) \cup {Message(x)}
      /\ \A A, R, x : Items(A, R \cup {x}) = Items(A, R) \cup {Envelope(x)}
  OBVIOUS
<1> HIDE DEF Items
<1>7. UNCHANGED <<acks, reflectedAcks>> => AckedItems' = AckedItems
  BY <1>1, <1>2
<1>8. ASSUME NEW n \in 0..Total, acks' = Append(acks, n), reflectedAcks' = reflectedAcks
      PROVE  AckedItems' = AckedItems \cup {Message(n)}
  <2>1. AckedItems' = Items(Range(acks) \cup {n}, Range(reflectedAcks))
    BY <1>2, <1>4, <1>8
  <2> QED BY <1>1, <1>6, <2>1
<1>9. ASSUME NEW i \in Nat \cup ReflectId, reflectedAcks' = Append(reflectedAcks, i), acks' = acks
      PROVE  AckedItems' = AckedItems \cup {Envelope(i)}
  <2>1. AckedItems' = Items(Range(acks), Range(reflectedAcks) \cup {i})
    BY <1>2, <1>5, <1>9
  <2> QED BY <1>1, <1>6, <2>1
<1> QED BY <1>7, <1>8, <1>9

LEMMA DeliverStep ==
  ASSUME ClientInv, SavedInv, ReportsInv, ClientInv', SavedInv', ReportsInv', [DeviceNext]_deviceVars
  PROVE  [\E item \in Item : Box!Report(item) \/ Box!Acknowledge(item)]_<<reports, AckedItems>>
<1>1. /\ TypeInv /\ TypeInv' /\ reports \in [Item -> Nat] /\ MessagesTold
      /\ SaveFirst \subseteq 1..Total
      /\ \A n \in 1..Total : Message(n) \in Item
      /\ \A i \in 1..Reflections : Envelope(i) \in Item
  BY DeviceAssumption DEF ClientInv, TransactionInv, ReportsInv, Item
<1>2. UNCHANGED <<acks, reflectedAcks>> => AckedItems' = AckedItems
  BY <1>1, AckedItemsGrow
<1>3. CASE HandsOver
  <2>1. AckedItems' = AckedItems
    BY <1>2, <1>3 DEF HandsOver, chatServer, mediator
  <2>2. CASE Content[task] \in TextKey \ seen
    <3>1. task \in 1..Total /\ reports' = [reports EXCEPT ![Message(task)] = @ + 1]
      BY <1>1, <1>3, <2>2, HandsOverReports
    <3>2. Message(task) \notin AckedItems
      BY <3>1, InHandUnacked
    <3>3. task \in SaveFirst => reports[Message(task)] = 0
      BY <1>1, <1>3 DEF HandsOver, MessagesTold
    <3>4. \A n \in SaveFirst : Message(n) = Message(task) => n = task
      BY ItemsDiffer
    <3>5. Box!Report(Message(task))
      BY <2>1, <2>2, <3>1, <3>2, <3>3, <3>4 DEF Box!Report, AckedItems
    <3> QED BY <1>1, <3>1, <3>5
  <2>3. CASE Content[task] \notin TextKey \ seen
    BY <1>1, <1>3, <2>1, <2>3, HandsOverReports
  <2> QED BY <2>2, <2>3
<1>4. CASE Works
  <2> DEFINE id == Head(d2mIn).id
  <2>1. CASE DriverRuns /\ OnReflected /\ id \in TextReflection
    <3>1. reports' = [reports EXCEPT ![Envelope(id)] = @ + 1]
      BY <1>1, <1>4, <2>1, WorksReports
    <3>2. AckedItems' = AckedItems
      BY <1>2, <2>1 DEF DriverRuns, chatServer, mediator
    <3>3. id \in 1..Reflections /\ Envelope(id) \notin AckedItems
      BY <2>1, InHandUnacked
    <3>4. \A n : Envelope(id) # Message(n)
      BY ItemsDiffer
    <3> HIDE DEF id
    <3>5. Box!Report(Envelope(id))
      BY <2>1, <3>1, <3>2, <3>3, <3>4 DEF Box!Report, AckedItems
    <3> QED BY <1>1, <3>3, <3>5
  <2>2. CASE ~(DriverRuns /\ OnReflected /\ id \in TextReflection)
    <3>1. reports' = reports
      BY <1>1, <1>4, <2>2, WorksReports
    <3>2. \A item \in AckedItems' :
            /\ item \in Item
            /\ item \in {Message(n) : n \in HandFirst} \cup {Envelope(i) : i \in TextReflection} =>
                 reports'[item] > 0
      <4>1. (ClientInv /\ SavedInv /\ ReportsInv)' =>
              (\A item \in AckedItems :
                 /\ item \in Item
                 /\ item \in {Message(n) : n \in HandFirst} \cup {Envelope(i) : i \in TextReflection} =>
                      reports[item] > 0)'
        BY AckedIsTold, PTL
      <4> QED BY <4>1 DEF Item, HandFirst
    <3>3. ASSUME NEW item, AckedItems' = AckedItems \cup {item}
          PROVE  item \in Item /\ Box!Acknowledge(item)
      <4>1. item \in Item /\ (item \in {Message(n) : n \in HandFirst} \cup {Envelope(i) : i \in TextReflection}
                                 => reports[item] > 0)
        BY <3>1, <3>2, <3>3
      <4> QED BY <3>1, <3>3, <4>1 DEF Box!Acknowledge, AckedItems, HandFirst
    <3>4. AckedItems' = AckedItems \/ \E item : AckedItems' = AckedItems \cup {item}
      BY <1>1, <1>2, <1>4, WorksAcks, AckedItemsGrow DEF Works
    <3> QED BY <3>1, <3>3, <3>4
  <2> QED BY <2>1, <2>2
<1>5. CASE ~(HandsOver \/ Works)
  <2>1. UNCHANGED <<acks, reflectedAcks, reports>>
    BY <1>5 DEF DeviceNext, SavesNonce, SaveSteps, NonceSaved, SaveFailed, Exits, Boots, deviceVars,
       cliVars, vars, chatServer, mediator
  <2> QED BY <1>2, <2>1
<1> QED BY <1>3, <1>4, <1>5

LEMMA DeliverInit == DeviceInit => reports = [item \in Item |-> 0] /\ AckedItems = {}
<1> SUFFICES ASSUME DeviceInit PROVE reports = [item \in Item |-> 0] /\ AckedItems = {}
  OBVIOUS
<1>1. reports = [item \in Item |-> 0] /\ acks = <<>> /\ reflectedAcks = <<>>
  BY DEF DeviceInit, CliInit, Init, ServerInit, MediatorInit
<1>2. Acked = {} /\ 1..Len(reflectedAcks) = {}
  BY <1>1 DEF Acked
<1> QED BY <1>1, <1>2 DEF AckedItems

\* Over all runs, wherever each one dies and whatever saves fail: nothing that
\* its server saw acknowledged is reported again, a message whose nonce is saved
\* first is never reported twice, and one that is handed over first, like an
\* envelope, is not acknowledged unreported
\* (conversation.rs:96-104, store.rs:103-122, e2e.rs:169-215).
THEOREM DeviceDelivers == DeviceSpec => Delivers
BY EveryRun, SavedInvariant, ReportsInvariant, DeliverInit, DeliverStep, PTL
DEF DeviceSpec, Delivers, Box!Spec, AckedItems
=============================================================================
