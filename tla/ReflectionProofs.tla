--------------------------- MODULE ReflectionProofs ---------------------------
(***************************************************************************)
(* For every value of the constants: what siblings reflect is reported and *)
(* acknowledged once each and in order, whatever the driver waits for when *)
(* it arrives.                                                             *)
(***************************************************************************)
EXTENDS TransactionProofs

-----------------------------------------------------------------------------
(* Envelopes 1..handled have reached the driver; the others are on their   *)
(* way to it, in order.                                                    *)

Coming(handled) == List(<<>>, Marks(Incoming, "Reflected", "id"), handled + 1 .. reflected)
Told(handled) == List(<<>>, ReportedEnvelopes, (1..handled) \cap TextReflection)
Acking(handled) ==
  IF Reads THEN List(reflectedAcks, Marks(Outgoing, "ReflectedAck", "id"), 1..handled)
           ELSE Begins(reflectedAcks, 1..handled)

ReflectedAt(handled) == Coming(handled) /\ Acking(handled)
ReflectedInv == \E handled \in 0..reflected : ReflectedAt(handled) /\ Told(handled)

LEMMA ListAlone ==
  ASSUME NEW second, NEW set
  PROVE  List(<<>>, second, set) <=> Rising(second) /\ Range(second) = set
<1>1. Range(<<>>) = {} /\ Rising(<<>>)
  <2>1. DOMAIN <<>> = {}
    OBVIOUS
  <2> QED BY <2>1 DEF Range, Rising
<1> QED BY <1>1 DEF List

LEMMA ComingKept ==
  ASSUME TypeInv, NEW handled, Coming(handled), reflected' = reflected,
         \/ Incoming' = Incoming
         \/ Incoming # <<>> /\ Head(Incoming).type # "Reflected" /\ Incoming' = Tail(Incoming)
         \/ \E p \in Datagram : p.type # "Reflected" /\ Incoming' = Append(Incoming, p)
  PROVE  Coming(handled)'
<1> DEFINE set == handled + 1 .. reflected
<1>1. Incoming \in Seq(Datagram) /\ List(<<>>, Marks(Incoming, "Reflected", "id"), set)
  BY IncomingType DEF Coming
<1> HIDE DEF set
<1>2. List(<<>>, Marks(Incoming', "Reflected", "id"), set)
  <2>1. CASE Incoming # <<>> /\ Head(Incoming).type # "Reflected" /\ Incoming' = Tail(Incoming)
    BY <1>1, <2>1, ListSkip
  <2>2. ASSUME NEW p \in Datagram, p.type # "Reflected", Incoming' = Append(Incoming, p)
        PROVE  List(<<>>, Marks(Incoming', "Reflected", "id"), set)
    <3>1. List(<<>>, Marks(Append(Incoming, p), "Reflected", "id"),
               set \cup (IF p.type = "Reflected" THEN {p["id"]} ELSE {}))
      BY <1>1, <2>2, ListAdd
    <3>2. set \cup (IF p.type = "Reflected" THEN {p["id"]} ELSE {}) = set
      BY <2>2
    <3> QED BY <2>2, <3>1, <3>2
  <2> QED BY <1>1, <2>1, <2>2
<1> QED BY <1>2 DEF Coming, set

LEMMA AckingKept ==
  ASSUME TypeInv, NEW handled, Acking(handled), reflectedAcks' = reflectedAcks, Reads' => Reads,
         \/ Outgoing' = Outgoing
         \/ Outgoing # <<>> /\ Head(Outgoing).type # "ReflectedAck" /\ Outgoing' = Tail(Outgoing)
         \/ \E more \in Seq(D2mOutPayload) :
              Outgoing' = Outgoing \o more /\ \A p \in Range(more) : p.type # "ReflectedAck"
         \/ ~Reads'
  PROVE  Acking(handled)'
<1>0. Begins(reflectedAcks, 1..handled)
  BY ListBegins DEF Acking
<1> SUFFICES ASSUME Reads'
             PROVE  List(reflectedAcks, Marks(Outgoing', "ReflectedAck", "id"), 1..handled)
  BY <1>0 DEF Acking
<1>1. Outgoing \in Seq(D2mOutPayload)
  BY PipeTypes
<1> DEFINE set == 1..handled
<1>2. List(reflectedAcks, Marks(Outgoing, "ReflectedAck", "id"), set)
  BY DEF Acking
<1> HIDE DEF set
<1>3. CASE Outgoing # <<>> /\ Head(Outgoing).type # "ReflectedAck" /\ Outgoing' = Tail(Outgoing)
  BY <1>1, <1>2, <1>3, ListSkip DEF set
<1>4. ASSUME NEW more \in Seq(D2mOutPayload), Outgoing' = Outgoing \o more,
             \A p \in Range(more) : p.type # "ReflectedAck"
      PROVE  List(reflectedAcks, Marks(Outgoing', "ReflectedAck", "id"), set)
  <2>1. \A i \in 1..Len(more) : more[i].type # "ReflectedAck"
    <3>1. DOMAIN more = 1..Len(more)
      BY LenProperties
    <3> QED BY <1>4, <3>1 DEF Range
  <2>2. Rising(Marks(more, "ReflectedAck", "id")) /\ Range(Marks(more, "ReflectedAck", "id")) = {}
    <3>1. \A x : x \notin Range(Marks(more, "ReflectedAck", "id"))
      BY <2>1, MarksRange
    <3>2. Rising(Marks(more, "ReflectedAck", "id"))
      BY <2>1, MarksRising
    <3> QED BY <3>1, <3>2
  <2>3. Rising(Marks(Outgoing, "ReflectedAck", "id"))
    BY <1>2 DEF List
  <2>4. \A m \in Range(Marks(Outgoing, "ReflectedAck", "id")),
           n \in Range(Marks(more, "ReflectedAck", "id")) : m < n
    BY <2>2
  <2>5. more \in Seq(D2mOutPayload)
    BY <1>4
  <2>6. /\ Rising(Marks(Outgoing \o more, "ReflectedAck", "id"))
        /\ Range(Marks(Outgoing \o more, "ReflectedAck", "id"))
             = Range(Marks(Outgoing, "ReflectedAck", "id")) \cup Range(Marks(more, "ReflectedAck", "id"))
    BY <1>1, <2>2, <2>3, <2>4, <2>5, MarksConcat
  <2>7. Range(Marks(Outgoing \o more, "ReflectedAck", "id")) = Range(Marks(Outgoing, "ReflectedAck", "id"))
    BY <2>2, <2>6
  <2> QED BY <1>2, <1>4, <2>6, <2>7 DEF List
<1> QED BY <1>2, <1>3, <1>4 DEF set

-----------------------------------------------------------------------------
(* What has been reported of them.                                         *)

LEMMA ReportedAppend ==
  ASSUME TypeInv, NEW kind \in {"Connected", "Direct", "Reflected"}, NEW key \in Key \cup Nat,
         events' = Append(events, Event(kind, key)), Rising(ReportedEnvelopes),
         kind = "Reflected" => \A m \in Range(ReportedEnvelopes) : m < key
  PROVE  /\ Rising(ReportedEnvelopes')
         /\ Range(ReportedEnvelopes')
              = Range(ReportedEnvelopes) \cup (IF kind = "Reflected" THEN {key} ELSE {})
<1> DEFINE S == [kind: {"Connected", "Direct", "Reflected"}, key: Key \cup Nat]
           e == Event(kind, key)
           n == Len(events)
<1>1. events \in Seq(S) /\ e \in S /\ e.kind = kind /\ e.key = key
  BY DEF TypeInv, TypeOK, ReportingTypeOK, Event
<1>2. events' = Append(events, e)
  OBVIOUS
<1> HIDE DEF e, S
<1>3. /\ n \in Nat /\ Len(events') = n + 1 /\ events'[n + 1] = e
      /\ \A i \in 1..n : events'[i] = events[i]
  BY <1>1, <1>2, AppendProperties, LenProperties
<1> HIDE DEF n
<1>4. \A i \in 1..n + 1 : (i \in 1..n /\ i < n + 1) \/ i = n + 1
  BY <1>3
<1>5. /\ \A x : x \in Range(ReportedEnvelopes) <=>
                  \E i \in 1..n : events[i].kind = "Reflected" /\ events[i].key = x
      /\ \A i, j \in 1..n : i < j /\ events[i].kind = "Reflected" /\ events[j].kind = "Reflected" =>
                              events[i].key < events[j].key
  BY DEF ReportedEnvelopes, Range, Rising, n
<1>6. /\ \A x : x \in Range(ReportedEnvelopes') <=>
                  \E i \in 1..n + 1 : events'[i].kind = "Reflected" /\ events'[i].key = x
      /\ Rising(ReportedEnvelopes') <=>
           \A i, j \in 1..n + 1 :
             i < j /\ events'[i].kind = "Reflected" /\ events'[j].kind = "Reflected" =>
               events'[i].key < events'[j].key
  BY <1>3 DEF ReportedEnvelopes, Range, Rising
<1>7. ASSUME NEW i \in 1..n + 1, NEW j \in 1..n + 1, i < j,
             events'[i].kind = "Reflected", events'[j].kind = "Reflected"
      PROVE  events'[i].key < events'[j].key
  <2>1. i \in 1..n
    BY <1>3, <1>7
  <2>2. events[i].key \in Range(ReportedEnvelopes)
    BY <1>3, <1>5, <1>7, <2>1
  <2>3. CASE j = n + 1
    BY <1>1, <1>3, <1>7, <2>1, <2>2, <2>3
  <2>4. CASE j \in 1..n
    BY <1>3, <1>5, <1>7, <2>1, <2>4
  <2> QED BY <1>4, <2>3, <2>4
<1>8. \A x : x \in Range(ReportedEnvelopes') <=>
               x \in Range(ReportedEnvelopes) \/ (kind = "Reflected" /\ x = key)
  <2>1. n + 1 \in 1..n + 1 /\ \A i \in 1..n : i \in 1..n + 1
    BY <1>3
  <2> QED BY <1>1, <1>3, <1>4, <1>5, <1>6, <2>1
<1>9. Range(ReportedEnvelopes')
        = Range(ReportedEnvelopes) \cup (IF kind = "Reflected" THEN {key} ELSE {})
  BY <1>8
<1> QED BY <1>6, <1>7, <1>9

LEMMA ToldKept ==
  ASSUME TypeInv, NEW handled, Told(handled),
         \/ events' = events
         \/ \E kind \in {"Connected", "Direct"}, key \in Key \cup Nat :
              events' = Append(events, Event(kind, key))
  PROVE  Told(handled)'
<1> DEFINE set == (1..handled) \cap TextReflection
<1>1. Rising(ReportedEnvelopes) /\ Range(ReportedEnvelopes) = set
  BY ListAlone DEF Told
<1>2. Rising(ReportedEnvelopes') /\ Range(ReportedEnvelopes') = set
  <2>1. CASE events' = events
    <3>1. ReportedEnvelopes' = ReportedEnvelopes
      BY <2>1 DEF ReportedEnvelopes
    <3> QED BY <1>1, <3>1
  <2>2. ASSUME NEW kind \in {"Connected", "Direct"}, NEW key \in Key \cup Nat,
               events' = Append(events, Event(kind, key))
        PROVE  Rising(ReportedEnvelopes') /\ Range(ReportedEnvelopes') = set
    BY <1>1, <2>2, ReportedAppend
  <2> QED BY <2>1, <2>2
<1>3. List(<<>>, ReportedEnvelopes', set)
  BY <1>2, ListAlone
<1> QED BY <1>3 DEF Told

-----------------------------------------------------------------------------
(* The steps.                                                              *)

\* What a step makes of them, whether or not earlier runs have had reports of theirs.
ReflectedFrom(handled) ==
  \E next \in 0..reflected' :
    /\ ReflectedAt(next)' /\ (Told(handled) => Told(next)')
    /\ next = handled \/ (next = handled + 1 /\ DriverRuns /\ OnReflected)

LEMMA ReflectedStays ==
  ASSUME NEW handled \in 0..reflected', Coming(handled)', Told(handled) => Told(handled)',
         Acking(handled)'
  PROVE  ReflectedFrom(handled)
BY DEF ReflectedAt, ReflectedFrom

LEMMA ReflectedD2m ==
  ASSUME TypeInv, PromotionInv, PipeInv, NEW handled \in 0..reflected, ReflectedAt(handled), D2mRuns
  PROVE  ReflectedFrom(handled)
<1>1. Coming(handled) /\ Acking(handled)
  BY DEF ReflectedAt
<1>2. events' = events /\ reflected' = reflected /\ outD2m' = outD2m
  BY DEF D2mRuns, reporting, driver, D2mNext, D2mHandshake, D2mReceive, D2mForward, D2mSend,
         D2mFlowEnds, MediatorReceives, mediator
<1>3. Told(handled) => Told(handled)'
  BY <1>1, <1>2, ToldKept
<1>4. CASE D2mHandshake
  <2>1. Outgoing' = Outgoing /\ reflectedAcks' = reflectedAcks /\ (Reads' => Reads)
    BY <1>2, <1>4 DEF D2mHandshake, channels, Outgoing, Reads
  <2>2. Coming(handled)'
    BY <1>1, <1>2, <1>4, D2mMoves, HandshakeFront, ComingKept DEF PipeInv
  <2>3. Acking(handled)'
    BY <1>1, <2>1, AckingKept
  <2> QED BY <1>2, <1>3, <2>2, <2>3, ReflectedStays
<1>5. CASE D2mReceive \/ D2mForward \/ D2mFlowEnds
  <2>1. Incoming' = Incoming /\ reflectedAcks' = reflectedAcks
    BY <1>5, D2mMoves DEF D2mReceive, D2mForward, D2mFlowEnds, mediator
  <2>2. (Reads' => Reads) /\ (Outgoing' = Outgoing \/ ~Reads')
    BY <1>2, <1>5 DEF D2mReceive, D2mForward, D2mFlowEnds, channels, mediator, Outgoing, Reads
  <2>3. Coming(handled)' /\ Acking(handled)'
    BY <1>1, <1>2, <2>1, <2>2, ComingKept, AckingKept
  <2> QED BY <1>2, <1>3, <2>3, ReflectedStays
<1>6. CASE D2mSend /\ d2mLink = "closed"
  <2>1. Incoming' = Incoming /\ ~Reads' /\ reflectedAcks' = reflectedAcks
    BY <1>6, D2mMoves DEF D2mSend, MediatorReceives, Reads
  <2>2. Coming(handled)' /\ Acking(handled)'
    BY <1>1, <1>2, <2>1, ComingKept, AckingKept
  <2> QED BY <1>2, <1>3, <2>2, ReflectedStays
<1>7. CASE D2mSend /\ d2mLink # "closed"
  <2> DEFINE p == Head(Outgoing)
  <2>1. /\ Outgoing # <<>> /\ Outgoing' = Tail(Outgoing) /\ p = Head(d2mOut) /\ p \in D2mOutPayload
        /\ Outgoing \in Seq(D2mOutPayload) /\ p.id \in Nat \cup ReflectId
    <3>1. Outgoing \in Seq(D2mOutPayload)
      BY PipeTypes
    <3>2. Outgoing # <<>> /\ Outgoing' = Tail(Outgoing) /\ p = Head(d2mOut)
      BY <1>2, <1>7, OutgoingMoves
    <3>3. p \in D2mOutPayload
      BY <3>1, <3>2, HeadTailProperties
    <3>4. p.id \in Nat \cup ReflectId
      BY <3>3 DEF D2mOutPayload
    <3> QED BY <3>1, <3>2, <3>3, <3>4
  <2>2. /\ Reads /\ reflectedAcks \in Seq(Nat \cup ReflectId)
        /\ reflectedAcks' = IF p.type = "ReflectedAck" THEN Append(reflectedAcks, p.id)
                                                       ELSE reflectedAcks
    BY <1>7, <2>1 DEF D2mSend, D2mTurn, MediatorReceives, Reads, TypeInv, TypeOK, D2mTypeOK
  <2>3. Coming(handled)'
    <3>1. ASSUME NEW type \in {"BeginTransactionAck", "TransactionRejected", "CommitTransactionAck"},
                 Incoming' = Append(Incoming, Plain(type))
          PROVE  Coming(handled)'
      <4> DEFINE q == Plain(type)
      <4>1. q \in Datagram /\ q.type # "Reflected"
        BY DEF Plain, Datagram, D2mInPayload
      <4>2. Incoming' = Append(Incoming, q)
        BY <3>1
      <4> HIDE DEF q
      <4> QED BY <1>1, <1>2, <4>1, <4>2, ComingKept
    <3>2. ASSUME Incoming' = Append(Incoming, [type |-> "ReflectAck", id |-> p.id])
          PROVE  Coming(handled)'
      <4> DEFINE q == [type |-> "ReflectAck", id |-> p.id]
      <4>1. q \in Datagram /\ q.type # "Reflected"
        BY <2>1 DEF Datagram, D2mInPayload
      <4>2. Incoming' = Append(Incoming, q)
        BY <3>2
      <4> HIDE DEF q
      <4> QED BY <1>1, <1>2, <4>1, <4>2, ComingKept
    <3>3. CASE Incoming' = Incoming
      BY <1>1, <1>2, <3>3, ComingKept
    <3> QED BY <1>7, <3>1, <3>2, <3>3, Written
  <2>4. Acking(handled)'
    <3>1. List(reflectedAcks, Marks(Outgoing, "ReflectedAck", "id"), 1..handled)
      BY <1>1, <2>2 DEF Acking
    <3>2. List(reflectedAcks', Marks(Outgoing', "ReflectedAck", "id"), 1..handled)
      <4> DEFINE set == 1..handled
                 T == Nat \cup ReflectId
      <4>1. List(reflectedAcks, Marks(Outgoing, "ReflectedAck", "id"), set)
        BY <3>1
      <4>2. reflectedAcks \in Seq(T) /\ p.id \in T
        BY <2>1, <2>2
      <4> HIDE DEF set, T
      <4>3. CASE p.type = "ReflectedAck"
        BY <2>1, <2>2, <4>1, <4>2, <4>3, ListTake DEF set
      <4>4. CASE p.type # "ReflectedAck"
        BY <2>1, <2>2, <4>1, <4>4, ListSkip DEF set
      <4> QED BY <4>3, <4>4
    <3> QED BY <3>2, ListBegins DEF Acking
  <2> QED BY <1>2, <1>3, <2>3, <2>4, ReflectedStays
<1> QED BY <1>4, <1>5, <1>6, <1>7 DEF D2mRuns, D2mNext

LEMMA ReflectedMediator ==
  ASSUME TypeInv, NEW handled \in 0..reflected, ReflectedAt(handled), MediatorActs
  PROVE  ReflectedFrom(handled)
<1>1. Coming(handled) /\ Acking(handled)
  BY DEF ReflectedAt
<1>2. /\ UNCHANGED <<events, reflectedAcks, d2mIn, d2mHand>> /\ Outgoing' = Outgoing
      /\ (Reads' => Reads)
  BY MediatorSays DEF MediatorActs, reporting, d2m, channels, MediatorPromotes, MediatorRunsDry,
                      MediatorReflects, SiblingBegins, SiblingEnds, MediatorCloses
<1>3. (Told(handled) => Told(handled)') /\ Acking(handled)'
  BY <1>1, <1>2, ToldKept, AckingKept
<1>4. CASE SiblingBegins \/ MediatorCloses
  <2>1. Incoming' = Incoming /\ reflected' = reflected
    BY <1>2, <1>4 DEF SiblingBegins, MediatorCloses, Incoming
  <2>2. Coming(handled)'
    BY <1>1, <2>1, ComingKept
  <2> QED BY <1>3, <2>1, <2>2, ReflectedStays
<1>5. ASSUME NEW type \in {"RolePromotedToLeader", "ReflectionQueueDry", "TransactionEnded"},
             Sends(Plain(type)), reflected' = reflected
      PROVE  ReflectedFrom(handled)
  <2> DEFINE p == Plain(type)
  <2>1. p \in Datagram /\ p.type # "Reflected"
    BY DEF Plain, Datagram, D2mInPayload
  <2>2. Sends(p)
    BY <1>5
  <2> HIDE DEF p
  <2>3. Incoming' = Append(Incoming, p)
    BY <1>2, <2>1, <2>2, SentLast DEF Sends
  <2>4. Coming(handled)'
    BY <1>1, <1>5, <2>1, <2>3, ComingKept
  <2> QED BY <1>3, <1>5, <2>4, ReflectedStays
<1>6. CASE MediatorReflects
  <2> DEFINE p == [type |-> "Reflected", id |-> reflected + 1]
             set == handled + 1 .. reflected
  <2>1. /\ reflected' = reflected + 1 /\ Sends(p) /\ p \in Datagram
        /\ p.type = "Reflected" /\ p.id = reflected + 1 /\ reflected \in Nat /\ handled \in Nat
    BY <1>6, MediatorAssumption
    DEF MediatorReflects, TypeInv, TypeOK, D2mTypeOK, Datagram, D2mInPayload
  <2> HIDE DEF p
  <2>2. Incoming' = Append(Incoming, p) /\ Incoming \in Seq(Datagram)
    BY <1>2, <2>1, SentLast, IncomingType DEF Sends
  <2>3. List(<<>>, Marks(Incoming, "Reflected", "id"), set)
    BY <1>1 DEF Coming
  <2>4. \A m \in set : m < p.id
    BY <2>1
  <2>5. set \cup {p.id} = handled + 1 .. reflected'
    BY <2>1
  <2> HIDE DEF set
  <2>6. List(<<>>, Marks(Append(Incoming, p), "Reflected", "id"),
             set \cup (IF p.type = "Reflected" THEN {p["id"]} ELSE {}))
    BY <2>1, <2>2, <2>3, <2>4, ListAdd
  <2>7. Coming(handled)'
    BY <2>1, <2>2, <2>5, <2>6 DEF Coming
  <2>8. handled \in 0..reflected'
    BY <2>1
  <2> QED BY <1>3, <2>7, <2>8, ReflectedStays
<1> QED BY <1>4, <1>5, <1>6
    DEF MediatorActs, MediatorPromotes, MediatorRunsDry, SiblingEnds

LEMMA ReflectedConnect ==
  ASSUME TypeInv, TypeInv', PipeInv, NEW handled \in 0..reflected, ReflectedAt(handled),
         ConnectD2m
  PROVE  ReflectedFrom(handled)
<1>1. Coming(handled) /\ Acking(handled)
  BY DEF ReflectedAt
<1>2. /\ reflected' = reflected /\ reflectedAcks' = reflectedAcks /\ Reads' = Reads
      /\ events' = Append(events, Event("Connected", 0))
  BY DEF ConnectD2m, D2mConnect, channels, Reads
<1>3. Told(handled) => Told(handled)'
  BY <1>1, <1>2, ToldKept
<1>4. Acking(handled)'
  BY <1>1, <1>2, PipeInvConnect, AckingKept
<1>5. Plain("Handshake") \in Datagram /\ Plain("Handshake").type # "Reflected"
  BY DEF Plain, Datagram
<1>6. Coming(handled)'
  BY <1>1, <1>2, <1>5, PipeInvConnect, ComingKept
<1> QED BY <1>2, <1>3, <1>4, <1>6, ReflectedStays

\* The driver takes an envelope: it is the next one.
LEMMA ReflectedNext ==
  ASSUME TypeInv, NEW handled \in 0..reflected, Coming(handled), DriverRuns, OnReflected
  PROVE  /\ Head(d2mIn).id = handled + 1 /\ handled + 1 \in 0..reflected
         /\ Coming(handled + 1)'
<1> DEFINE id == Head(d2mIn).id
           next == handled + 1
           rest == Range(Marks(Tail(Incoming), "Reflected", "id"))
<1>1. reflected' = reflected /\ Head(d2mIn).type = "Reflected"
  BY DEF DriverRuns, mediator, OnReflected, Receives
<1>2. /\ Incoming # <<>> /\ Head(Incoming) = Head(d2mIn) /\ Incoming' = Tail(Incoming)
      /\ Incoming \in Seq(Datagram)
  BY PipeTake, IncomingType DEF OnD2m
<1>3. reflected \in Nat /\ handled \in Nat /\ next \in 1..reflected + 1 /\ next > handled
  BY MediatorAssumption DEF TypeInv, TypeOK, D2mTypeOK
<1>4. /\ Rising(Marks(Incoming, "Reflected", "id"))
      /\ Range(Marks(Incoming, "Reflected", "id")) = next..reflected
  BY ListAlone DEF Coming
<1>5. /\ Rising(Marks(Tail(Incoming), "Reflected", "id"))
      /\ next..reflected = {id} \cup rest
      /\ \A m \in rest : id < m
  <2>1. /\ Rising(Marks(Tail(Incoming), "Reflected", "id"))
        /\ Range(Marks(Incoming, "Reflected", "id")) = {Head(Incoming)["id"]} \cup rest
        /\ \A m \in rest : Head(Incoming)["id"] < m
    <3>1. Head(Incoming).type = "Reflected"
      BY <1>1, <1>2
    <3> QED BY <1>2, <1>4, <3>1, MarksTail
  <2> QED BY <1>2, <1>4, <2>1
<1>6. id = next /\ next \in 0..reflected /\ rest = next + 1 .. reflected
  <2> HIDE DEF id, rest
  <2>1. id \in next..reflected
    BY <1>5
  <2>2. next \in next..reflected
    BY <1>3, <2>1
  <2>3. id = next
    BY <1>3, <1>5, <2>1, <2>2
  <2>4. \A m \in rest : m \in next..reflected /\ next < m
    BY <1>5, <2>3
  <2>5. \A m \in next + 1 .. reflected : m \in next..reflected /\ m # next
    BY <1>3
  <2>6. \A m \in next + 1 .. reflected : m \in rest
    BY <1>5, <2>3, <2>5
  <2>7. \A m \in rest : m \in next + 1 .. reflected
    BY <1>3, <2>4
  <2>8. rest = next + 1 .. reflected
    BY <2>6, <2>7
  <2>9. next \in 0..reflected
    BY <1>3, <2>2
  <2> QED BY <2>3, <2>8, <2>9
<1>7. Coming(next)'
  BY <1>1, <1>2, <1>5, <1>6, ListAlone DEF Coming
<1> QED BY <1>6, <1>7

LEMMA ReflectedTaken ==
  ASSUME TypeInv, NEW handled \in 0..reflected, ReflectedAt(handled), DriverRuns, OnReflected
  PROVE  ReflectedFrom(handled)
<1>1. Coming(handled) /\ Acking(handled)
  BY DEF ReflectedAt
<1> DEFINE id == Head(d2mIn).id
           next == handled + 1
           told == (1..handled) \cap TextReflection
<1>2. /\ reflected' = reflected /\ reflectedAcks' = reflectedAcks /\ Reads' = Reads
      /\ events' = IF id \in TextReflection THEN Append(events, Event("Reflected", id)) ELSE events
  BY DEF DriverRuns, mediator, OnReflected, Receives, HandleReflectedEnvelope, Reads
<1>3. Outgoing \in Seq(D2mOutPayload) /\ handled \in Nat
  BY PipeTypes
<1>4. PICK ack \in D2mOutPayload :
        ack.type = "ReflectedAck" /\ ack.id = id /\ Outgoing' = Append(Outgoing, ack)
  BY PipeTake DEF OnD2m
<1>5. id = next /\ next \in 0..reflected /\ Coming(next)' /\ next \in Nat /\ next > handled
  BY <1>1, <1>3, ReflectedNext
<1>6. Told(handled) => Told(next)'
  <2> SUFFICES ASSUME Told(handled) PROVE Told(next)'
    OBVIOUS
  <2>1. Rising(ReportedEnvelopes) /\ Range(ReportedEnvelopes) = told
    BY ListAlone DEF Told
  <2>2. (1..next) \cap TextReflection = told \cup (IF next \in TextReflection THEN {next} ELSE {})
    BY <1>3
  <2>3. \A m \in told : m < next
    BY <1>3
  <2> HIDE DEF told
  <2>4. CASE next \in TextReflection
    <3>1. events' = Append(events, Event("Reflected", next)) /\ next \in Key \cup Nat
      BY <1>2, <1>5, <2>4
    <3> HIDE DEF next
    <3>2. Rising(ReportedEnvelopes') /\ Range(ReportedEnvelopes') = told \cup {next}
      BY <2>1, <2>3, <3>1, ReportedAppend
    <3> QED BY <2>2, <2>4, <3>2, ListAlone DEF Told
  <2>5. CASE next \notin TextReflection
    <3>1. events' = events
      BY <1>2, <1>5, <2>5
    <3>2. ReportedEnvelopes' = ReportedEnvelopes
      BY <3>1 DEF ReportedEnvelopes
    <3> QED BY <2>1, <2>2, <2>5, <3>2, ListAlone DEF Told
  <2> QED BY <2>4, <2>5
<1>7. Acking(next)'
  <2> DEFINE set == 1..handled
  <2>1. \A m \in set : m < ack.id
    BY <1>3, <1>4, <1>5
  <2>2. set \cup {ack.id} = 1..next
    BY <1>3, <1>4, <1>5
  <2>3. Reads => List(reflectedAcks, Marks(Outgoing', "ReflectedAck", "id"), 1..next)
    <3> SUFFICES ASSUME Reads
                 PROVE  List(reflectedAcks, Marks(Outgoing', "ReflectedAck", "id"), 1..next)
      OBVIOUS
    <3>1. List(reflectedAcks, Marks(Outgoing, "ReflectedAck", "id"), set)
      BY <1>1 DEF Acking
    <3> HIDE DEF set
    <3>2. List(reflectedAcks, Marks(Append(Outgoing, ack), "ReflectedAck", "id"),
               set \cup (IF ack.type = "ReflectedAck" THEN {ack["id"]} ELSE {}))
      BY <1>3, <2>1, <3>1, ListAdd
    <3> QED BY <1>4, <2>2, <3>2
  <2>4. ~Reads => Begins(reflectedAcks, 1..next)
    <3>1. ~Reads => Begins(reflectedAcks, set)
      BY <1>1 DEF Acking
    <3> HIDE DEF set
    <3>2. 1..next = set \cup {next} /\ \A m \in set : m < next
      BY <1>4, <1>5, <2>1, <2>2
    <3> QED BY <3>1, <3>2 DEF Begins
  <2> QED BY <1>2, <2>3, <2>4 DEF Acking
<1>8. ReflectedAt(next)' /\ next = handled + 1 /\ next \in 0..reflected'
  BY <1>2, <1>5, <1>7 DEF ReflectedAt
<1> HIDE DEF next
<1> QED BY <1>6, <1>8 DEF ReflectedFrom

LEMMA ReflectedDriver ==
  ASSUME TypeInv, PipeInv, CompleteInv, NEW handled \in 0..reflected, ReflectedAt(handled), DriverRuns
  PROVE  ReflectedFrom(handled)
<1>1. Coming(handled) /\ Acking(handled)
  BY DEF ReflectedAt
<1>2. UNCHANGED <<reflected, reflectedAcks, d2mLink>>
  BY DEF DriverRuns, mediator
<1>3. CASE OnD2m /\ ~OnReflected
  <2>1. /\ events' = events /\ Reads' = Reads /\ Head(d2mIn).type # "Reflected"
    BY <1>2, <1>3 DEF OnD2m, OnBeginReply, OnTransactionEnded, OnCommitAck, OnReflectAck,
                      OnPromotion, DropUnsolicited, Receives, Awaited, reporting, Reads
  <2>2. Incoming # <<>> /\ Head(Incoming) = Head(d2mIn) /\ Incoming' = Tail(Incoming)
        /\ Outgoing' = Outgoing
    BY <1>3, PipeTake
  <2>3. Coming(handled)' /\ (Told(handled) => Told(handled)') /\ Acking(handled)'
    BY <1>1, <1>2, <2>1, <2>2, ComingKept, ToldKept, AckingKept
  <2> QED BY <1>2, <2>3, ReflectedStays
<1>4. CASE PollBeginTransaction \/ PollAbortTransaction \/ PollReflectAndCommit \/ PollReflectMessage
  <2>1. outD2m = <<>> /\ UNCHANGED <<d2mIn, d2mOut>> /\ events' = events /\ Reads' = Reads
    BY <1>2, <1>4 DEF PollBeginTransaction, PollAbortTransaction, PollReflectAndCommit,
                      PollReflectMessage, Polls, Quiet, channels, reporting, Reads
  <2>2. outD2m' \in Seq(D2mOutPayload) /\ \A p \in Range(outD2m') : p.type # "ReflectedAck"
    <3>1. ASSUME NEW type \in {"BeginTransaction", "CommitTransaction"}, outD2m' = <<Out(type)>>
          PROVE  outD2m' \in Seq(D2mOutPayload) /\ \A p \in Range(outD2m') : p.type # "ReflectedAck"
      <4> DEFINE p == Out(type)
                 one == <<p>>
      <4>1. p \in D2mOutPayload /\ p.type = type
        <5>1. FALSE \in BOOLEAN
          BY Zenon
        <5> QED BY <5>1 DEF Out, D2mOutPayload
      <4> HIDE DEF p
      <4>2. one \in Seq(D2mOutPayload) /\ DOMAIN one = {1} /\ one[1] = p
        BY <4>1
      <4>3. outD2m' = one
        BY <3>1 DEF p
      <4> HIDE DEF one
      <4> QED BY <4>1, <4>2, <4>3 DEF Range
    <3>2. CASE PollReflectAndCommit
      <4>1. PICK batch \in Seq(D2mOutPayload), commit \in D2mOutPayload :
               /\ outD2m' = Append(batch, commit) /\ commit.type = "CommitTransaction"
               /\ \A p \in Range(batch) : IsReflect(p)
        BY <3>2, ReflectAndCommitSends
      <4>2. Range(outD2m') = Range(batch) \cup {commit} /\ outD2m' \in Seq(D2mOutPayload)
        BY <4>1, RangeAppend, AppendProperties
      <4> QED BY <4>1, <4>2 DEF IsReflect
    <3>3. CASE PollReflectMessage
      BY <3>3, ReflectSends
    <3> QED BY <1>4, <3>1, <3>2, <3>3 DEF PollBeginTransaction, PollAbortTransaction
  <2>3. Incoming' = Incoming /\ Outgoing' = Outgoing \o outD2m'
    BY <2>1, <2>2, PipeGrows
  <2>4. Coming(handled)' /\ (Told(handled) => Told(handled)')
    BY <1>1, <1>2, <2>1, <2>3, ComingKept, ToldKept
  <2>5. Acking(handled)'
    BY <1>1, <1>2, <2>1, <2>2, <2>3, AckingKept
  <2> QED BY <1>2, <2>4, <2>5, ReflectedStays
<1>5. CASE \/ SendCsp \/ SendD2m \/ TakeCspPayload \/ PollFetchSender \/ PollTransactionRejected
           \/ PollDone \/ SenderFetched \/ ReflectReturns
  <2>1. Incoming' = Incoming /\ Outgoing' = Outgoing
    BY <1>5, PipeInvOthers
  <2>2. Reads' = Reads
    <3>1. d2mOpen' = d2mOpen
      BY <1>5 DEF SendCsp, SendD2m, TakeCspPayload, PollFetchSender, PollTransactionRejected,
                  PollDone, SenderFetched, ReflectReturns, channels
    <3> QED BY <1>2, <3>1 DEF Reads
  <2>3. \/ events' = events
        \/ \E key \in Key : events' = Append(events, Event("Direct", key))
    <3>1. CASE PollDone
      <4>1. task \in 1..Total
        BY <3>1 DEF PollDone, TypeInv, TypeOK, DriverTypeOK
      <4>2. Content[task] \in Key
        BY <4>1, DriverAssumption
      <4> QED BY <3>1, <4>2 DEF PollDone, AddOrUpdateIncomingMessage, reporting
    <3>2. CASE ~PollDone
      BY <1>5, <3>2 DEF SendCsp, SendD2m, TakeCspPayload, PollFetchSender, PollTransactionRejected,
                        SenderFetched, ReflectReturns, reporting
    <3> QED BY <3>1, <3>2
  <2>4. Told(handled) => Told(handled)'
    BY <1>1, <2>3, ToldKept
  <2>5. Coming(handled)' /\ Acking(handled)'
    BY <1>1, <1>2, <2>1, <2>2, ComingKept, AckingKept
  <2> QED BY <1>2, <2>4, <2>5, ReflectedStays
<1> QED BY <1>3, <1>4, <1>5, ReflectedTaken DEF DriverRuns, DriverNext, Polling

LEMMA ReflectedElsewhere ==
  ASSUME NEW handled \in 0..reflected, ReflectedAt(handled),
         \/ CspRuns \/ ChatServerActs \/ ConnectFails \/ ConnectCsp
         \/ TakeSendText \/ RunEnds \/ DropSender \/ UNCHANGED vars
         \/ \E command \in {"SendText", "Shutdown"} : Command(command)
  PROVE  ReflectedFrom(handled)
<1>1. UNCHANGED <<d2mIn, d2mOut, d2mOpen, d2m, mediator, driver, reporting>>
  BY DEF CspRuns, CspNext, CspStart, CspHandshake, CspPoll, CspForward, CspRead, CspSend,
         ChatServerActs, ConnectFails, ConnectCsp, TakeSendText, RunEnds, DropSender, Command,
         channels, vars
<1>2. UNCHANGED <<Incoming, Outgoing, ReportedEnvelopes, reflected, reflectedAcks, Reads>>
  BY <1>1 DEF d2m, mediator, driver, reporting, Incoming, Outgoing, ReportedEnvelopes, Reads
<1> QED BY <1>2 DEF ReflectedFrom, ReflectedAt, Coming, Acking, Told

LEMMA ReflectedStep ==
  ASSUME TransactionInv, TransactionInv', NEW handled \in 0..reflected, ReflectedAt(handled),
         [Next]_vars
  PROVE  ReflectedFrom(handled)
<1>1. TypeInv /\ TypeInv' /\ PromotionInv /\ PipeInv /\ CompleteInv
  BY DEF TransactionInv
<1>2. CASE D2mRuns
  BY <1>1, <1>2, ReflectedD2m
<1>3. CASE MediatorActs
  BY <1>1, <1>3, ReflectedMediator
<1>4. CASE ConnectD2m
  BY <1>1, <1>4, ReflectedConnect
<1>5. CASE DriverRuns
  BY <1>1, <1>5, ReflectedDriver
<1> QED BY <1>2, <1>3, <1>4, <1>5, ReflectedElsewhere DEF Next

\* Nothing is on its way, and the mediator has its acks: a run begins.
ReflectedFresh ==
  /\ Incoming = <<>> /\ Outgoing = <<>>
  /\ reflected \in Nat /\ Rising(reflectedAcks) /\ Range(reflectedAcks) = 1..reflected

LEMMA ReflectedInit == ReflectedFresh => reflected \in 0..reflected /\ ReflectedAt(reflected)
<1> SUFFICES ASSUME ReflectedFresh PROVE reflected \in 0..reflected /\ ReflectedAt(reflected)
  OBVIOUS
<1>1. reflected + 1 .. reflected = {} /\ reflected \in 0..reflected
  BY DEF ReflectedFresh
<1>2. Coming(reflected)
  BY <1>1, MarksOfNothing, ListAlone DEF ReflectedFresh, Coming
<1>3. List(reflectedAcks, Marks(Outgoing, "ReflectedAck", "id"), 1..reflected)
  BY MarksOfNothing DEF ReflectedFresh, List
<1> QED BY <1>1, <1>2, <1>3, ListBegins DEF ReflectedAt, Acking

\* Whatever the driver is waiting for, every envelope a sibling reflects is
\* reported if it is a text, then acknowledged, once and in the mediator's
\* order (handle_unsolicited_d2m, e2e.rs:199-215).
THEOREM ReflectedInOrder == Spec => []ReflectedOnceInOrder
<1>1. Init => ReflectedInv
  <2> SUFFICES ASSUME Init PROVE ReflectedInv
    OBVIOUS
  <2>1. /\ Incoming = <<>> /\ Outgoing = <<>> /\ events = <<>> /\ reflected = 0 /\ reflectedAcks = <<>>
    BY DEF Init, WiringInit, D2mInit, MediatorInit, DriverInit, ReportingInit, Incoming, Outgoing
  <2>2. Rising(<<>>) /\ Range(<<>>) = {} /\ 1..0 = {}
    BY DEF Rising, Range
  <2>3. ReflectedAt(0) /\ 0 \in 0..reflected
    BY <2>1, <2>2, ReflectedInit DEF ReflectedFresh
  <2>4. Rising(ReportedEnvelopes) /\ Range(ReportedEnvelopes) = (1..0) \cap TextReflection
    <3>1. DOMAIN ReportedEnvelopes = {}
      BY <2>1 DEF ReportedEnvelopes
    <3> QED BY <2>2, <3>1 DEF Rising, Range
  <2> QED BY <2>3, <2>4, ListAlone DEF ReflectedInv, Told
<1>2. TransactionInv /\ TransactionInv' /\ ReflectedInv /\ [Next]_vars => ReflectedInv'
  BY ReflectedStep DEF ReflectedInv, ReflectedFrom
<1>3. ReflectedInv => ReflectedOnceInOrder
  BY DEF ReflectedInv, ReflectedAt, ReflectedOnceInOrder, Coming, Told, Acking, Reads
<1> QED BY TransactionInvariant, <1>1, <1>2, <1>3, PTL DEF Spec
=============================================================================
