-------------------------- MODULE TransactionProofs ---------------------------
(***************************************************************************)
(* For every value of the constants: what is reflected about a contact     *)
(* reaches the mediator within the transaction, a response to a task lists *)
(* exactly the reflects to be acknowledged, and the end of another         *)
(* device's transaction is not lost while the driver waits for it.         *)
(* A request and its answer take one place in a pipe, from what the        *)
(* mediator has sent to what the driver has still to send: the mediator    *)
(* takes the next request behind all its answers and puts the answer there.*)
(***************************************************************************)
EXTENDS OrderProofs

Pipe == Incoming \o Outgoing

IsBegin(p) == p.type \in {"BeginTransaction", "BeginTransactionAck", "TransactionRejected"}
IsCommit(p) == p.type \in {"CommitTransaction", "CommitTransactionAck"}
IsReflect(p) == p.type \in {"Reflect", "ReflectAck"}
Asks(p) == IsBegin(p) \/ IsCommit(p) \/ IsReflect(p)

\* A reflect that is to be acknowledged, or its ack.
IsLive(p) == p.type = "ReflectAck" \/ (p.type = "Reflect" /\ ~p.ephemeral)

\* A reflect about a contact.
IsContact(p) == p.type = "Reflect" /\ p.id[2] \in ContactStages

\* No request is in the pipe twice, and a commit is behind every reflect.
Tidy(pipe) ==
  /\ \A i, j \in 1..Len(pipe) : IsBegin(pipe[i]) /\ IsBegin(pipe[j]) => i = j
  /\ \A i, j \in 1..Len(pipe) : IsCommit(pipe[i]) /\ IsCommit(pipe[j]) => i = j
  /\ \A i, j \in 1..Len(pipe) : IsReflect(pipe[i]) /\ IsCommit(pipe[j]) => i < j
  /\ \A i, j \in 1..Len(pipe) :
       IsLive(pipe[i]) /\ IsLive(pipe[j]) /\ pipe[i].id = pipe[j].id => i = j

\* What is in the pipe is what the driver waits for.
Fits(pipe, pc, ids) ==
  \A i \in 1..Len(pipe) :
    /\ IsBegin(pipe[i]) => pc = "begin"
    /\ IsCommit(pipe[i]) => pc \in {"abort", "commit"}
    /\ IsLive(pipe[i]) => pc \in {"commit", "reflect"} /\ pipe[i].id \in ids

-----------------------------------------------------------------------------
(* Steps that ask for nothing new: up to place k the requests stay where   *)
(* they are, behind it they were d places further back.                    *)

Kin(p, q) ==
  /\ IsBegin(p) => IsBegin(q)
  /\ IsCommit(p) => IsCommit(q)
  /\ IsReflect(p) => IsReflect(q)
  /\ IsLive(p) => IsLive(q) /\ p.id = q.id

Follows(t, s, k, d) ==
  \A i \in 1..Len(t) : Asks(t[i]) =>
    \/ i =< k /\ i \in 1..Len(s) /\ Kin(t[i], s[i])
    \/ i > k /\ i + d > k /\ i + d \in 1..Len(s) /\ Kin(t[i], s[i + d])

AsksNothingNew(t, s) == \E k \in Nat, d \in Int : Follows(t, s, k, d)

LEMMA Kinds ==
  ASSUME NEW p
  PROVE  IsLive(p) => IsReflect(p)
BY DEF IsLive, IsReflect

LEMMA KinSelf == ASSUME NEW p PROVE Kin(p, p)
BY DEF Kin

LEMMA FollowsKeeps ==
  ASSUME NEW S, NEW s \in Seq(S), NEW t \in Seq(S), AsksNothingNew(t, s)
  PROVE  /\ Tidy(s) => Tidy(t)
         /\ \A pc, ids : Fits(s, pc, ids) => Fits(t, pc, ids)
<1>0. PICK k \in Nat, d \in Int : Follows(t, s, k, d)
  BY DEF AsksNothingNew
<1>1. Len(s) \in Nat /\ Len(t) \in Nat
  BY LenProperties
<1> DEFINE at(i) == IF i =< k THEN i ELSE i + d
<1>2. ASSUME NEW i \in 1..Len(t), Asks(t[i])
      PROVE  at(i) \in 1..Len(s) /\ Kin(t[i], s[at(i)]) /\ (i > k => at(i) > k)
  BY <1>0, <1>1, <1>2 DEF Follows
<1>3. ASSUME NEW i \in 1..Len(t), NEW j \in 1..Len(t), Asks(t[i]), Asks(t[j])
      PROVE  (at(i) = at(j) => i = j) /\ (at(i) < at(j) => i < j)
  <2>1. (i > k => at(i) > k) /\ (j > k => at(j) > k)
    BY <1>2, <1>3
  <2> QED BY <1>1, <2>1
<1> HIDE DEF at
<1>4. ASSUME Tidy(s) PROVE Tidy(t)
  <2>1. ASSUME NEW i \in 1..Len(t), NEW j \in 1..Len(t), IsBegin(t[i]), IsBegin(t[j])
        PROVE  i = j
    BY <1>2, <1>3, <1>4, <2>1 DEF Tidy, Asks, Kin
  <2>2. ASSUME NEW i \in 1..Len(t), NEW j \in 1..Len(t), IsCommit(t[i]), IsCommit(t[j])
        PROVE  i = j
    BY <1>2, <1>3, <1>4, <2>2 DEF Tidy, Asks, Kin
  <2>3. ASSUME NEW i \in 1..Len(t), NEW j \in 1..Len(t), IsReflect(t[i]), IsCommit(t[j])
        PROVE  i < j
    BY <1>2, <1>3, <1>4, <2>3 DEF Tidy, Asks, Kin
  <2>4. ASSUME NEW i \in 1..Len(t), NEW j \in 1..Len(t), IsLive(t[i]), IsLive(t[j]),
               t[i].id = t[j].id
        PROVE  i = j
    <3>1. Asks(t[i]) /\ Asks(t[j])
      BY <2>4, Kinds DEF Asks
    <3> QED BY <1>2, <1>3, <1>4, <2>4, <3>1 DEF Tidy, Kin
  <2> QED BY <2>1, <2>2, <2>3, <2>4 DEF Tidy
<1>5. ASSUME NEW pc, NEW ids, Fits(s, pc, ids) PROVE Fits(t, pc, ids)
  <2> SUFFICES ASSUME NEW i \in 1..Len(t)
               PROVE  /\ IsBegin(t[i]) => pc = "begin"
                      /\ IsCommit(t[i]) => pc \in {"abort", "commit"}
                      /\ IsLive(t[i]) => pc \in {"commit", "reflect"} /\ t[i].id \in ids
    BY DEF Fits
  <2>1. CASE Asks(t[i])
    <3>1. at(i) \in 1..Len(s) /\ Kin(t[i], s[at(i)])
      BY <1>2, <2>1
    <3> QED BY <1>5, <3>1 DEF Fits, Kin
  <2>2. CASE ~Asks(t[i])
    BY <2>2, Kinds DEF Asks
  <2> QED BY <2>1, <2>2
<1> QED BY <1>4, <1>5

\* The front leaves; something that asks for nothing joins at the end.
LEMMA FollowsEnds ==
  ASSUME NEW S, NEW s \in Seq(S)
  PROVE  /\ AsksNothingNew(s, s)
         /\ s # <<>> => AsksNothingNew(Tail(s), s)
         /\ \A e \in S : ~Asks(e) => AsksNothingNew(Append(s, e), s)
<1>1. Follows(s, s, 0, 0)
  BY LenProperties, KinSelf DEF Follows
<1>2. ASSUME s # <<>> PROVE Follows(Tail(s), s, 0, 1)
  <2>1. /\ Len(s) \in Nat \ {0} /\ Len(Tail(s)) = Len(s) - 1
        /\ \A i \in 1..Len(Tail(s)) : Tail(s)[i] = s[i + 1]
    BY <1>2, EmptySeq, HeadTailProperties
  <2>2. \A i \in 1..Len(Tail(s)) : i > 0 /\ i + 1 > 0 /\ i + 1 \in 1..Len(s)
    BY <2>1
  <2> QED BY <2>1, <2>2, KinSelf DEF Follows
<1>3. ASSUME NEW e \in S, ~Asks(e) PROVE Follows(Append(s, e), s, Len(s), 0)
  <2> DEFINE t == Append(s, e)
  <2>1. /\ Len(s) \in Nat /\ Len(t) = Len(s) + 1 /\ t[Len(s) + 1] = e
        /\ \A i \in 1..Len(s) : t[i] = s[i]
    BY AppendProperties, LenProperties
  <2> HIDE DEF t
  <2>2. \A i \in 1..Len(t) : i = Len(s) + 1 \/ (i =< Len(s) /\ i \in 1..Len(s))
    BY <2>1
  <2>3. Follows(t, s, Len(s), 0)
    BY <1>3, <2>1, <2>2, KinSelf DEF Follows
  <2> QED BY <2>3 DEF t
<1>4. 0 \in Nat /\ 0 \in Int /\ 1 \in Int /\ Len(s) \in Nat
  BY LenProperties
<1> QED BY <1>1, <1>2, <1>3, <1>4 DEF AsksNothingNew

\* The middle of the pipe: m becomes n.
LEMMA FollowsMiddle ==
  ASSUME NEW S, NEW a \in Seq(S), NEW m \in Seq(S), NEW n \in Seq(S), NEW b \in Seq(S),
         \/ n = <<>>
         \/ m = <<>> /\ Len(n) = 1 /\ ~Asks(n[1])
         \/ Len(m) = 1 /\ Len(n) = 1 /\ Kin(n[1], m[1])
  PROVE  AsksNothingNew((a \o n) \o b, a \o (m \o b))
<1> DEFINE s == a \o (m \o b)
           t == (a \o n) \o b
           mb == m \o b
           an == a \o n
<1>1. Len(a) \in Nat /\ Len(m) \in Nat /\ Len(n) \in Nat /\ Len(b) \in Nat
  BY LenProperties
<1>2. /\ mb \in Seq(S) /\ Len(mb) = Len(m) + Len(b)
      /\ \A i \in 1..Len(m) + Len(b) : mb[i] = IF i =< Len(m) THEN m[i] ELSE b[i - Len(m)]
  BY ConcatProperties
<1>3. /\ an \in Seq(S) /\ Len(an) = Len(a) + Len(n)
      /\ \A i \in 1..Len(a) + Len(n) : an[i] = IF i =< Len(a) THEN a[i] ELSE n[i - Len(a)]
  BY ConcatProperties
<1>0. mb \in Seq(S) /\ an \in Seq(S)
  BY <1>2, <1>3
<1> HIDE DEF mb, an
<1>4. /\ Len(a \o mb) = Len(a) + Len(mb)
      /\ \A i \in 1..Len(a) + Len(mb) : (a \o mb)[i] = IF i =< Len(a) THEN a[i] ELSE mb[i - Len(a)]
  BY <1>0, ConcatProperties
<1>5. /\ Len(an \o b) = Len(an) + Len(b)
      /\ \A i \in 1..Len(an) + Len(b) : (an \o b)[i] = IF i =< Len(an) THEN an[i] ELSE b[i - Len(an)]
  BY <1>0, ConcatProperties
<1>6. s = a \o mb /\ t = an \o b
  BY DEF mb, an
<1> HIDE DEF s, t
<1>7. /\ Len(s) = Len(a) + Len(m) + Len(b) /\ Len(t) = Len(a) + Len(n) + Len(b)
      /\ \A i \in 1..Len(a) : s[i] = a[i] /\ t[i] = a[i]
      /\ \A i \in 1..Len(m) : s[Len(a) + i] = m[i]
      /\ \A i \in 1..Len(n) : t[Len(a) + i] = n[i]
      /\ \A i \in 1..Len(b) : s[Len(a) + Len(m) + i] = b[i] /\ t[Len(a) + Len(n) + i] = b[i]
  <2>1. Len(s) = Len(a) + Len(m) + Len(b) /\ Len(t) = Len(a) + Len(n) + Len(b)
    BY <1>1, <1>2, <1>3, <1>4, <1>5, <1>6
  <2>2. \A i \in 1..Len(a) : s[i] = a[i] /\ t[i] = a[i]
    BY <1>1, <1>2, <1>3, <1>4, <1>5, <1>6
  <2>3. ASSUME NEW i \in 1..Len(m) PROVE s[Len(a) + i] = m[i]
    BY <1>1, <1>2, <1>4, <1>6
  <2>4. ASSUME NEW i \in 1..Len(n) PROVE t[Len(a) + i] = n[i]
    BY <1>1, <1>3, <1>5, <1>6
  <2>5. ASSUME NEW i \in 1..Len(b)
        PROVE  s[Len(a) + Len(m) + i] = b[i] /\ t[Len(a) + Len(n) + i] = b[i]
    <3>1. s[Len(a) + Len(m) + i] = b[i]
      <4>1. s[Len(a) + Len(m) + i] = mb[Len(m) + i]
        BY <1>1, <1>2, <1>4, <1>6
      <4>2. Len(m) + i \in 1..Len(m) + Len(b) /\ ~(Len(m) + i =< Len(m))
            /\ (Len(m) + i) - Len(m) = i
        BY <1>1
      <4> QED BY <1>2, <4>1, <4>2
    <3>2. t[Len(a) + Len(n) + i] = b[i]
      BY <1>1, <1>3, <1>5, <1>6
    <3> QED BY <3>1, <3>2
  <2> QED BY <2>1, <2>2, <2>3, <2>4, <2>5
<1> DEFINE k == Len(a)
           d == Len(m) - Len(n)
<1>8. ASSUME NEW i \in 1..Len(t), Asks(t[i])
      PROVE  \/ i =< k /\ i \in 1..Len(s) /\ Kin(t[i], s[i])
             \/ i > k /\ i + d > k /\ i + d \in 1..Len(s) /\ Kin(t[i], s[i + d])
  <2>1. CASE i =< Len(a)
    <3>1. i \in 1..Len(a) /\ i \in 1..Len(s)
      BY <1>1, <1>7, <2>1
    <3> QED BY <1>7, <2>1, <3>1, KinSelf
  <2>2. CASE i > Len(a) /\ i =< Len(a) + Len(n)
    <3>1. i - Len(a) \in 1..Len(n) /\ i = Len(a) + (i - Len(a)) /\ Len(n) # 0
      BY <1>1, <2>2
    <3>2. t[i] = n[i - Len(a)]
      BY <1>7, <3>1
    <3>3. Len(m) = 1 /\ Len(n) = 1 /\ Kin(n[1], m[1]) /\ i = Len(a) + 1
      <4>1. n # <<>>
        BY <3>1
      <4>2. Len(n) = 1
        BY <4>1
      <4>3. i = Len(a) + 1 /\ i - Len(a) = 1
        BY <1>1, <2>2, <4>2
      <4> QED BY <1>8, <3>2, <4>1, <4>3
    <3>4. s[i] = m[1] /\ i + d = i /\ i \in 1..Len(s)
      BY <1>1, <1>7, <3>3
    <3> QED BY <1>1, <2>2, <3>2, <3>3, <3>4
  <2>3. CASE i > Len(a) + Len(n)
    <3> DEFINE x == i - Len(a) - Len(n)
    <3>1. x \in 1..Len(b) /\ i = Len(a) + Len(n) + x /\ i + d = Len(a) + Len(m) + x
          /\ i > k /\ i + d > k /\ i + d \in 1..Len(s)
      BY <1>1, <1>7, <2>3
    <3> HIDE DEF x
    <3>2. t[i] = b[x] /\ s[i + d] = b[x]
      BY <1>7, <3>1
    <3> QED BY <3>1, <3>2, KinSelf
  <2> QED BY <1>1, <2>1, <2>2, <2>3
<1>9. Follows(t, s, k, d)
  BY <1>8 DEF Follows
<1> QED BY <1>1, <1>9 DEF s, t, AsksNothingNew

-----------------------------------------------------------------------------
(* What each step does to the pipe.                                        *)

Payload == Datagram \cup D2mOutPayload

LEMMA PipeTypes ==
  ASSUME TypeInv
  PROVE  /\ Incoming \in Seq(Payload) /\ Outgoing \in Seq(Payload) /\ Pipe \in Seq(Payload)
         /\ d2mOut \in Seq(Payload) /\ outD2m \in Seq(Payload) /\ d2mIn \in Seq(Payload)
         /\ Outgoing \in Seq(D2mOutPayload)
         /\ d2mOut \in Seq(D2mOutPayload) /\ outD2m \in Seq(D2mOutPayload)
         /\ Len(Incoming) \in Nat /\ Len(Outgoing) \in Nat
         /\ Len(Pipe) = Len(Incoming) + Len(Outgoing)
<1>1. d2mOut \in Seq(D2mOutPayload) /\ outD2m \in Seq(D2mOutPayload)
  BY DEF TypeInv, TypeOK, WiringTypeOK, DriverTypeOK
<1>2. Outgoing \in Seq(D2mOutPayload)
  BY <1>1, ConcatProperties DEF Outgoing
<1>3. Incoming \in Seq(Datagram) /\ d2mIn \in Seq(Datagram)
  BY IncomingType
<1>4. /\ Incoming \in Seq(Payload) /\ Outgoing \in Seq(Payload) /\ d2mIn \in Seq(Payload)
      /\ d2mOut \in Seq(Payload) /\ outD2m \in Seq(Payload)
  BY <1>1, <1>2, <1>3, SeqMonotonic DEF Payload
<1>5. Pipe \in Seq(Payload) /\ Len(Pipe) = Len(Incoming) + Len(Outgoing)
  BY <1>4, ConcatProperties DEF Pipe
<1> QED BY <1>1, <1>2, <1>4, <1>5, LenProperties

LEMMA PipeNext == TypeInv' => (Incoming \in Seq(Payload) /\ Outgoing \in Seq(Payload) /\ Pipe \in Seq(Payload))'
<1>1. TypeInv => Incoming \in Seq(Payload) /\ Outgoing \in Seq(Payload) /\ Pipe \in Seq(Payload)
  BY PipeTypes
<1> QED BY <1>1, PTL

\* Where the payloads stand in the pipe.
LEMMA PipePlaces ==
  ASSUME TypeInv
  PROVE  /\ \A i \in 1..Len(Incoming) : i \in 1..Len(Pipe) /\ Pipe[i] = Incoming[i]
         /\ \A i \in 1..Len(Outgoing) :
              Len(Incoming) + i \in 1..Len(Pipe) /\ Pipe[Len(Incoming) + i] = Outgoing[i]
         /\ \A i \in 1..Len(Pipe) :
              \/ i \in 1..Len(Incoming)
              \/ i - Len(Incoming) \in 1..Len(Outgoing) /\ i = Len(Incoming) + (i - Len(Incoming))
<1>1. /\ Len(Incoming) \in Nat /\ Len(Outgoing) \in Nat
      /\ Len(Pipe) = Len(Incoming) + Len(Outgoing)
      /\ \A i \in 1..Len(Incoming) + Len(Outgoing) :
           Pipe[i] = IF i =< Len(Incoming) THEN Incoming[i] ELSE Outgoing[i - Len(Incoming)]
  BY PipeTypes, ConcatProperties DEF Pipe
<1> QED BY <1>1

LEMMA FrontPlace ==
  ASSUME NEW S, NEW s \in Seq(S), s # <<>>
  PROVE  s[1] = Head(s) /\ 1 \in 1..Len(s)
BY EmptySeq, HeadTailProperties

\* The driver's end and the connection's.
LEMMA OutgoingMoves ==
  ASSUME TypeInv
  PROVE  /\ SendD2m => Outgoing' = Outgoing
         /\ D2mSend /\ outD2m' = outD2m =>
              Outgoing # <<>> /\ Head(Outgoing) = Head(d2mOut) /\ Outgoing' = Tail(Outgoing)
         /\ D2mFlowEnds /\ outD2m' = outD2m => Outgoing' = outD2m
         /\ \A more \in Seq(D2mOutPayload) :
              outD2m = <<>> /\ d2mOut' = d2mOut /\ outD2m' = more => Outgoing' = Outgoing \o more
<1> USE PipeTypes
<1>1. ASSUME SendD2m PROVE Outgoing' = Outgoing
  <2>1. outD2m # <<>> /\ d2mOut' = Append(d2mOut, Head(outD2m)) /\ outD2m' = Tail(outD2m)
    BY <1>1 DEF SendD2m
  <2> QED BY <2>1, MoveHead DEF Outgoing
<1>2. ASSUME D2mSend, outD2m' = outD2m
      PROVE  Outgoing # <<>> /\ Head(Outgoing) = Head(d2mOut) /\ Outgoing' = Tail(Outgoing)
  <2>1. d2mOut # <<>> /\ d2mOut' = Tail(d2mOut)
    BY <1>2 DEF D2mSend
  <2> QED BY <1>2, <2>1, ConcatHeadTail DEF Outgoing
<1>3. ASSUME D2mFlowEnds, outD2m' = outD2m PROVE Outgoing' = outD2m
  <2>1. Outgoing' = <<>> \o outD2m
    BY <1>3 DEF D2mFlowEnds, Outgoing
  <2> QED BY <2>1, ConcatEmptySeq
<1>4. ASSUME NEW more \in Seq(D2mOutPayload), outD2m = <<>>, d2mOut' = d2mOut, outD2m' = more
      PROVE  Outgoing' = Outgoing \o more
  <2>1. Outgoing = d2mOut
    BY <1>4, ConcatEmptySeq DEF Outgoing
  <2> QED BY <1>4, <2>1 DEF Outgoing
<1> QED BY <1>1, <1>2, <1>3, <1>4

\* Until the handshake is over its datagram is at the front.
HandshakeInv == d2mPc = "info" /\ d2mWire # <<>> => Head(d2mWire).type = "Handshake"

LEMMA HandshakeFront ==
  ASSUME TypeInv, HandshakeInv, D2mHandshake
  PROVE  Head(d2mWire).type = "Handshake"
<1>1. CASE d2mPc = "hello"
  <2>1. d2mWire = <<Plain("Handshake")>>
    BY <1>1 DEF D2mHandshake, TypeInv, D2mWireOK
  <2> QED BY <2>1 DEF Plain
<1> QED BY <1>1 DEF D2mHandshake, HandshakeInv

\* The answer stands where the request stood.
LEMMA AnswersKin ==
  ASSUME NEW p \in D2mOutPayload
  PROVE  /\ Answers(p) \in Seq(Datagram)
         /\ \/ Answers(p) = <<>>
            \/ Len(Answers(p)) = 1 /\ Kin(Answers(p)[1], p)
<1>1. Answers(p) \in Seq(Datagram)
  <2>1. Answers(p) \in Seq(D2mInPayload)
    BY AnswersType
  <2> QED BY <2>1, SeqMonotonic DEF Datagram
<1>2. \/ Answers(p) = <<>>
      \/ Len(Answers(p)) = 1 /\ Kin(Answers(p)[1], p)
  <2>1. CASE p.type = "BeginTransaction"
    <3> DEFINE q == Plain(IF holder = "nobody" THEN "BeginTransactionAck" ELSE "TransactionRejected")
    <3>1. Answers(p) = <<q>>
      BY <2>1 DEF Answers
    <3>2. q.type \in {"BeginTransactionAck", "TransactionRejected"}
      BY DEF Plain
    <3>3. Kin(q, p)
      BY <2>1, <3>2 DEF Kin, IsBegin, IsCommit, IsReflect, IsLive
    <3> HIDE DEF q
    <3> QED BY <3>1, <3>3
  <2>2. CASE p.type = "CommitTransaction"
    <3> DEFINE q == Plain("CommitTransactionAck")
    <3>1. Answers(p) = <<q>>
      BY <2>2 DEF Answers
    <3>2. q.type = "CommitTransactionAck"
      BY DEF Plain
    <3>3. Kin(q, p)
      BY <2>2, <3>2 DEF Kin, IsBegin, IsCommit, IsReflect, IsLive
    <3> HIDE DEF q
    <3> QED BY <3>1, <3>3
  <2>3. CASE p.type = "Reflect" /\ ~p.ephemeral
    <3> DEFINE q == [type |-> "ReflectAck", id |-> p.id]
    <3>1. Answers(p) = <<q>>
      BY <2>3 DEF Answers
    <3>2. Kin(q, p)
      BY <2>3 DEF Kin, IsBegin, IsCommit, IsReflect, IsLive
    <3> HIDE DEF q
    <3> QED BY <3>1, <3>2
  <2>4. CASE p.type \notin {"BeginTransaction", "CommitTransaction"} /\ ~(p.type = "Reflect" /\ ~p.ephemeral)
    BY <2>4 DEF Answers
  <2> QED BY <2>1, <2>2, <2>3, <2>4
<1> QED BY <1>1, <1>2

\* The mediator connection asks for nothing of its own.
LEMMA PipeD2m ==
  ASSUME TypeInv, PromotionInv, HandshakeInv, D2mRuns
  PROVE  AsksNothingNew(Pipe', Pipe)
<1> USE PipeTypes
<1>1. outD2m' = outD2m
  BY DEF D2mRuns, driver
<1>2. CASE Incoming' = Incoming /\ Outgoing' = Outgoing
  BY <1>2, FollowsEnds DEF Pipe
<1>3. CASE D2mHandshake
  <2>1. Outgoing' = Outgoing
    BY <1>1, <1>3 DEF D2mHandshake, channels, Outgoing
  <2>2. CASE Incoming # <<>> /\ Head(Incoming) = Head(d2mWire) /\ Incoming' = Tail(Incoming)
    <3>1. Pipe # <<>> /\ Pipe' = Tail(Pipe)
      BY <2>1, <2>2, ConcatHeadTail DEF Pipe
    <3> QED BY <3>1, FollowsEnds
  <2> QED BY <1>2, <1>3, <2>1, <2>2, D2mMoves
<1>4. CASE D2mReceive \/ D2mForward
  <2>1. Outgoing' = Outgoing
    BY <1>1, <1>4 DEF D2mReceive, D2mForward, channels, Outgoing
  <2> QED BY <1>2, <1>4, <2>1, D2mMoves
<1>5. CASE D2mSend
  <2> DEFINE p == Head(d2mOut)
             m == <<p>>
             b == Tail(Outgoing)
             n == IF d2mLink = "closed" THEN <<>> ELSE Answers(p)
  <2>1. /\ Outgoing # <<>> /\ Head(Outgoing) = p /\ Outgoing' = b /\ p \in D2mOutPayload
        /\ b \in Seq(Payload)
    BY <1>1, <1>5, OutgoingMoves, HeadTailProperties
  <2>2. m \in Seq(Payload) /\ Len(m) = 1 /\ m[1] = p
    BY <2>1 DEF Payload
  <2>3. n \in Seq(Payload) /\ (n = <<>> \/ (Len(n) = 1 /\ Kin(n[1], p)))
    <3>1. Answers(p) \in Seq(Payload)
      BY <2>1, AnswersKin, SeqMonotonic DEF Payload
    <3> QED BY <2>1, <3>1, AnswersKin
  <2>4. Outgoing = m \o b
    <3>1. Append(<<>>, p) \o b = <<>> \o Outgoing
      BY <2>1, MoveHead
    <3> QED BY <3>1, ConcatEmptySeq
  <2>5. Incoming' = Incoming \o n
    BY <1>5, D2mMoves, ConcatEmptySeq
  <2> HIDE DEF m, n, b
  <2>6. AsksNothingNew((Incoming \o n) \o b, Incoming \o (m \o b))
    BY <2>1, <2>2, <2>3, FollowsMiddle
  <2> QED BY <2>1, <2>4, <2>5, <2>6 DEF Pipe
<1>6. CASE D2mFlowEnds
  <2>1. Outgoing' = outD2m /\ Incoming' = Incoming
    BY <1>1, <1>6, OutgoingMoves, D2mMoves
  <2> DEFINE n == <<>>
  <2>0. n \in Seq(Payload) /\ n = <<>>
    OBVIOUS
  <2>3. Incoming \o n = Incoming
    BY ConcatEmptySeq
  <2> HIDE DEF n
  <2>2. AsksNothingNew((Incoming \o n) \o outD2m, Incoming \o (d2mOut \o outD2m))
    BY <2>0, FollowsMiddle
  <2> QED BY <2>1, <2>2, <2>3 DEF Pipe, Outgoing
<1> QED BY <1>3, <1>4, <1>5, <1>6 DEF D2mRuns, D2mNext

LEMMA PipeMediator ==
  ASSUME TypeInv, MediatorActs
  PROVE  AsksNothingNew(Pipe', Pipe)
<1> USE PipeTypes
<1>1. d2mIn' = d2mIn /\ d2mHand' = d2mHand /\ Outgoing' = Outgoing
  BY DEF MediatorActs, channels, d2m, driver, Outgoing
<1>2. ASSUME NEW p \in Datagram, Sends(p), ~Asks(p)
      PROVE  AsksNothingNew(Pipe', Pipe)
  <2> DEFINE n == <<p>>
  <2>1. n \in Seq(Payload) /\ Len(n) = 1 /\ n[1] = p
    BY DEF Payload
  <2>2. Incoming' = Incoming \o n
    BY <1>1, <1>2, SentLast, AppendIsConcat, IncomingType DEF Sends
  <2> DEFINE m == <<>>
  <2>0. m \in Seq(Payload) /\ m = <<>>
    OBVIOUS
  <2>4. m \o Outgoing = Outgoing
    BY ConcatEmptySeq
  <2> HIDE DEF m, n
  <2>3. AsksNothingNew((Incoming \o n) \o Outgoing, Incoming \o (m \o Outgoing))
    BY <1>2, <2>0, <2>1, FollowsMiddle
  <2> QED BY <1>1, <2>2, <2>3, <2>4 DEF Pipe
<1>3. CASE SiblingBegins \/ MediatorCloses
  <2>1. Incoming' = Incoming
    BY <1>1, <1>3 DEF SiblingBegins, MediatorCloses, Incoming
  <2> QED BY <1>1, <2>1, FollowsEnds DEF Pipe
<1>4. ASSUME NEW type \in {"RolePromotedToLeader", "ReflectionQueueDry", "TransactionEnded"},
             Sends(Plain(type))
      PROVE  AsksNothingNew(Pipe', Pipe)
  <2>1. Plain(type) \in Datagram /\ Plain(type).type = type
    BY DEF Plain, Datagram, D2mInPayload
  <2>2. ~Asks(Plain(type))
    BY <2>1 DEF Asks, IsBegin, IsCommit, IsReflect
  <2> QED BY <1>2, <1>4, <2>1, <2>2
<1>5. CASE MediatorReflects
  <2> DEFINE p == [type |-> "Reflected", id |-> reflected + 1]
  <2>1. p \in Datagram
    BY MediatorAssumption DEF TypeInv, TypeOK, D2mTypeOK, Datagram, D2mInPayload
  <2>2. ~Asks(p)
    BY DEF Asks, IsBegin, IsCommit, IsReflect
  <2> QED BY <1>2, <1>5, <2>1, <2>2 DEF MediatorReflects
<1> QED BY <1>3, <1>4, <1>5 DEF MediatorActs, MediatorPromotes, MediatorRunsDry, SiblingEnds

LEMMA PayloadAppend ==
  \A s, t \in Seq(Payload), e \in Payload : s \o Append(t, e) = Append(s \o t, e)
<1> DEFINE S == Payload
<1>1. \A s, t \in Seq(S), e \in S : s \o Append(t, e) = Append(s \o t, e)
  <2> HIDE DEF S
  <2> QED BY ConcatAppend
<1> QED BY <1>1

\* The driver takes the front; a reflected-ack is all it may add.
LEMMA PipeTake ==
  ASSUME TypeInv, DriverRuns, OnD2m
  PROVE  /\ Incoming # <<>> /\ Head(Incoming) = Head(d2mIn) /\ Incoming' = Tail(Incoming)
         /\ Pipe # <<>> /\ Head(Pipe) = Head(d2mIn) /\ Pipe[1] = Head(d2mIn) /\ 1 \in 1..Len(Pipe)
         /\ \/ ~OnReflected /\ Outgoing' = Outgoing /\ Pipe' = Tail(Pipe)
            \/ OnReflected /\ \E ack \in D2mOutPayload :
                 /\ ack.type = "ReflectedAck" /\ ack.id = Head(d2mIn).id
                 /\ Outgoing' = Append(Outgoing, ack) /\ Pipe' = Append(Tail(Pipe), ack)
<1> USE PipeTypes
<1>1. d2mIn # <<>> /\ d2mIn' = Tail(d2mIn) /\ outD2m = <<>> /\ d2mOut' = d2mOut
  BY DEF OnD2m, OnBeginReply, OnTransactionEnded, OnCommitAck, OnReflectAck, OnPromotion,
         OnReflected, DropUnsolicited, Receives, Listens, Quiet
<1>2. Incoming # <<>> /\ Head(Incoming) = Head(d2mIn) /\ Incoming' = Tail(Incoming)
  BY <1>1, TakenFromIncoming DEF DriverRuns
<1>3. /\ Pipe # <<>> /\ Head(Pipe) = Head(d2mIn) /\ Tail(Pipe) = Incoming' \o Outgoing
      /\ Pipe[1] = Head(d2mIn) /\ 1 \in 1..Len(Pipe)
  <2>1. Pipe # <<>> /\ Head(Pipe) = Head(d2mIn) /\ Tail(Pipe) = Incoming' \o Outgoing
    BY <1>2, ConcatHeadTail DEF Pipe
  <2>2. Pipe \in Seq(Payload)
    BY PipeTypes
  <2> QED BY <2>1, <2>2, FrontPlace
<1>4. CASE OnReflected
  <2> DEFINE ack == [Out("ReflectedAck") EXCEPT !.id = Head(d2mIn).id]
  <2>1. /\ ack \in D2mOutPayload /\ ack.type = "ReflectedAck" /\ ack.id = Head(d2mIn).id
        /\ outD2m' = <<ack>>
    <3>1. Head(d2mIn) \in D2mInPayload
      BY <1>1, HeadTailProperties DEF TypeInv, TypeOK, WiringTypeOK
    <3>2. Head(d2mIn).id \in Nat \cup ReflectId
      BY <3>1 DEF D2mInPayload
    <3>3. FALSE \in BOOLEAN
      BY Zenon
    <3>4. ack \in D2mOutPayload
      BY <3>2, <3>3 DEF Out, D2mOutPayload
    <3>5. ack.type = "ReflectedAck" /\ ack.id = Head(d2mIn).id
      BY DEF Out
    <3> QED BY <1>4, <3>4, <3>5 DEF OnReflected
  <2> HIDE DEF ack
  <2>2. <<ack>> \in Seq(D2mOutPayload)
    BY <2>1
  <2>3. Outgoing' = Outgoing \o <<ack>> /\ Outgoing \o <<ack>> = Append(Outgoing, ack)
    BY <1>1, <2>1, <2>2, OutgoingMoves, AppendIsConcat
  <2>4. ack \in Payload /\ Incoming' \in Seq(Payload)
    BY <1>2, <2>1, HeadTailProperties DEF Payload
  <2>5. Pipe' = Append(Incoming' \o Outgoing, ack)
    <3>1. Pipe' = Incoming' \o Append(Outgoing, ack)
      BY <2>3 DEF Pipe
    <3>2. Outgoing \in Seq(Payload)
      BY PipeTypes
    <3> QED BY <2>4, <3>1, <3>2, PayloadAppend
  <2> QED BY <1>2, <1>3, <1>4, <2>1, <2>3, <2>5
<1>5. CASE ~OnReflected
  <2>1. outD2m' = outD2m
    BY <1>5 DEF OnD2m, OnBeginReply, OnTransactionEnded, OnCommitAck, OnReflectAck, OnPromotion,
         DropUnsolicited, driver
  <2>2. Outgoing' = Outgoing
    BY <1>1, <2>1 DEF Outgoing
  <2> QED BY <1>2, <1>3, <1>5, <2>2 DEF Pipe
<1> QED BY <1>4, <1>5

-----------------------------------------------------------------------------
(* What is somewhere in a sequence.                                        *)

LEMMA RangeTail ==
  ASSUME NEW S, NEW s \in Seq(S), s # <<>>
  PROVE  Range(s) = {Head(s)} \cup Range(Tail(s))
<1> DEFINE t == Tail(s)
<1>1. /\ Len(s) \in Nat \ {0} /\ t \in Seq(S) /\ Len(t) = Len(s) - 1
      /\ \A i \in 1..Len(t) : t[i] = s[i + 1]
      /\ s[1] = Head(s)
  BY EmptySeq, HeadTailProperties
<1>2. DOMAIN s = 1..Len(s) /\ DOMAIN t = 1..Len(t)
  BY <1>1, LenProperties
<1> HIDE DEF t
<1>3. ASSUME NEW i \in 1..Len(s) PROVE s[i] = Head(s) \/ s[i] \in Range(t)
  <2>1. CASE i # 1
    <3>1. i - 1 \in 1..Len(t) /\ (i - 1) + 1 = i
      BY <1>1, <2>1
    <3>2. t[i - 1] = s[i]
      BY <1>1, <3>1
    <3> QED BY <1>2, <3>1, <3>2 DEF Range
  <2> QED BY <1>1, <2>1
<1>4. ASSUME NEW i \in 1..Len(t) PROVE t[i] \in Range(s)
  <2>1. i + 1 \in 1..Len(s) /\ t[i] = s[i + 1]
    BY <1>1
  <2> QED BY <1>2, <2>1 DEF Range
<1>5. Head(s) \in Range(s)
  BY <1>1, <1>2 DEF Range
<1>6. Range(s) \subseteq {Head(s)} \cup Range(t)
  BY <1>2, <1>3 DEF Range
<1>7. Range(t) \subseteq Range(s)
  BY <1>2, <1>4 DEF Range
<1> QED BY <1>5, <1>6, <1>7 DEF t

LEMMA RangeConcat ==
  ASSUME NEW S, NEW s \in Seq(S), NEW t \in Seq(S)
  PROVE  Range(s \o t) = Range(s) \cup Range(t)
<1> DEFINE u == s \o t
<1>1. /\ u \in Seq(S) /\ Len(s) \in Nat /\ Len(t) \in Nat /\ Len(u) = Len(s) + Len(t)
      /\ \A i \in 1..Len(s) : i \in 1..Len(u) /\ u[i] = s[i]
      /\ \A i \in 1..Len(t) : Len(s) + i \in 1..Len(u) /\ u[Len(s) + i] = t[i]
  BY ConcatProperties, LenProperties
<1>2. DOMAIN s = 1..Len(s) /\ DOMAIN t = 1..Len(t) /\ DOMAIN u = 1..Len(u)
  BY <1>1, LenProperties
<1> HIDE DEF u
<1>3. ASSUME NEW i \in 1..Len(u) PROVE u[i] \in Range(s) \cup Range(t)
  <2>1. CASE i =< Len(s)
    <3>1. i \in 1..Len(s) /\ u[i] = s[i]
      BY <1>1, <2>1
    <3> QED BY <1>2, <3>1 DEF Range
  <2>2. CASE ~(i =< Len(s))
    <3>1. i - Len(s) \in 1..Len(t) /\ Len(s) + (i - Len(s)) = i
      BY <1>1, <2>2
    <3>2. u[i] = t[i - Len(s)]
      BY <1>1, <3>1
    <3> QED BY <1>2, <3>1, <3>2 DEF Range
  <2> QED BY <2>1, <2>2
<1>4. Range(u) \subseteq Range(s) \cup Range(t)
  BY <1>2, <1>3 DEF Range
<1>5. Range(s) \subseteq Range(u) /\ Range(t) \subseteq Range(u)
  BY <1>1, <1>2 DEF Range
<1> QED BY <1>4, <1>5 DEF u

LEMMA RangeAppend ==
  ASSUME NEW S, NEW s \in Seq(S), NEW e \in S
  PROVE  Range(Append(s, e)) = Range(s) \cup {e}
<1> DEFINE one == <<e>>
<1>1. one \in Seq(S) /\ Append(s, e) = s \o one
  BY AppendIsConcat
<1>2. DOMAIN one = {1} /\ one[1] = e
  OBVIOUS
<1> HIDE DEF one
<1>3. Range(one) = {e}
  BY <1>2 DEF Range
<1> QED BY <1>1, <1>3, RangeConcat

LEMMA RangeOfNothing == Range(<<>>) = {}
<1>1. DOMAIN <<>> = {}
  OBVIOUS
<1> QED BY <1>1 DEF Range

-----------------------------------------------------------------------------
(* The invariant.                                                          *)

HasType(s, type) == \E p \in Range(s) : p.type = type

Awaits(s, id) == \E p \in Range(s) : IsLive(p) /\ p.id = id

\* The mediator still reads what the connection writes.
Reads == d2mOpen /\ d2mLink # "closed"

\* Behind every rejection comes the end of the transaction that was in the way.
EndFollows(s) ==
  \A i \in 1..Len(s) : s[i].type = "TransactionRejected" =>
    \E j \in 1..Len(s) : i < j /\ s[j].type = "TransactionEnded"

PipeInv ==
  /\ HandshakeInv
  /\ Tidy(Pipe)
  /\ Fits(Pipe, e2ePc, expected \ Range(acked))

\* What shows that this device has been granted the transaction.
Granted ==
  \/ txn = "granted"
  \/ HasType(Incoming, "BeginTransactionAck")
  \/ HasType(Outgoing, "CommitTransaction")

HolderInv ==
  /\ txn # "none" => e2ePc \in {"poll", "rejected"}
  /\ e2ePc = "rejected" => txn = "rejected"
  /\ Granted => holder = "client"
  /\ holder = "client" /\ Reads => Granted
  /\ \A p \in Range(Outgoing) : IsContact(p) => holder = "client"
  /\ \A entry \in Range(reflectLog) : entry.id[2] \in ContactStages => entry.holder = "client"

EndedInv ==
  /\ holder = "sibling" \/ EndFollows(Incoming)
  /\ txn = "rejected" => holder = "sibling" \/ HasType(Incoming, "TransactionEnded")

\* Whoever is still to acknowledge a reflect does so before the commit's ack.
CompleteInv ==
  /\ IsFiniteSet(expected)
  /\ e2ePc \in {"commit", "reflect"} =>
       /\ \A i, j \in 1..Len(acked) : acked[i] = acked[j] => i = j
       /\ Range(acked) \subseteq expected
  /\ e2ePc = "reflect" => pending + Len(acked) = Cardinality(expected)
  /\ e2ePc = "commit" =>
       \A id \in expected \ Range(acked) :
         /\ HasType(Incoming, "CommitTransactionAck") => Awaits(Incoming, id)
         /\ HasType(Outgoing, "CommitTransaction") /\ Reads =>
              Awaits(Incoming, id) \/ Awaits(Outgoing, id)

TransactionInv == TypeInv /\ PromotionInv /\ PipeInv /\ HolderInv /\ EndedInv /\ CompleteInv

-----------------------------------------------------------------------------
(* The pipe keeps its order.                                               *)

\* What the order says of what is on either side, wherever it stands.
LEMMA PipeFacts ==
  ASSUME TypeInv, PipeInv
  PROVE  /\ \A p \in Range(Incoming) \cup Range(Outgoing) :
              /\ IsBegin(p) => e2ePc = "begin"
              /\ IsCommit(p) => e2ePc \in {"abort", "commit"}
              /\ IsLive(p) => e2ePc \in {"commit", "reflect"} /\ p.id \in expected \ Range(acked)
         /\ \A p \in Range(Incoming), q \in Range(Outgoing) :
              /\ ~(IsBegin(p) /\ IsBegin(q))
              /\ ~(IsCommit(p) /\ (IsCommit(q) \/ IsReflect(q)))
<1> DEFINE s == Incoming
           t == Outgoing
<1>1. s \in Seq(Payload) /\ t \in Seq(Payload) /\ Len(s) \in Nat
  BY PipeTypes
<1>2. DOMAIN s = 1..Len(s) /\ DOMAIN t = 1..Len(t)
  BY <1>1, LenProperties
<1>3. /\ \A i \in 1..Len(s) : i \in 1..Len(Pipe) /\ Pipe[i] = s[i]
      /\ \A i \in 1..Len(t) : Len(s) + i \in 1..Len(Pipe) /\ Pipe[Len(s) + i] = t[i]
  BY PipePlaces
<1>4. Tidy(Pipe) /\ Fits(Pipe, e2ePc, expected \ Range(acked))
  BY DEF PipeInv
<1> HIDE DEF s, t
<1>5. ASSUME NEW i \in 1..Len(Pipe)
      PROVE  /\ IsBegin(Pipe[i]) => e2ePc = "begin"
             /\ IsCommit(Pipe[i]) => e2ePc \in {"abort", "commit"}
             /\ IsLive(Pipe[i]) =>
                  e2ePc \in {"commit", "reflect"} /\ Pipe[i].id \in expected \ Range(acked)
  BY <1>4 DEF Fits
<1>6. ASSUME NEW p \in Range(s) \cup Range(t)
      PROVE  /\ IsBegin(p) => e2ePc = "begin"
             /\ IsCommit(p) => e2ePc \in {"abort", "commit"}
             /\ IsLive(p) => e2ePc \in {"commit", "reflect"} /\ p.id \in expected \ Range(acked)
  <2>1. \E i \in 1..Len(Pipe) : Pipe[i] = p
    BY <1>2, <1>3 DEF Range
  <2> QED BY <1>5, <2>1
<1>7. ASSUME NEW i \in 1..Len(s), NEW j \in 1..Len(t)
      PROVE  /\ ~(IsBegin(s[i]) /\ IsBegin(t[j]))
             /\ ~(IsCommit(s[i]) /\ (IsCommit(t[j]) \/ IsReflect(t[j])))
  <2>1. /\ i \in 1..Len(Pipe) /\ Len(s) + j \in 1..Len(Pipe)
        /\ Pipe[i] = s[i] /\ Pipe[Len(s) + j] = t[j] /\ i # Len(s) + j /\ ~(Len(s) + j < i)
    BY <1>1, <1>3
  <2> QED BY <1>4, <2>1 DEF Tidy
<1>8. ASSUME NEW p \in Range(s), NEW q \in Range(t)
      PROVE  ~(IsBegin(p) /\ IsBegin(q)) /\ ~(IsCommit(p) /\ (IsCommit(q) \/ IsReflect(q)))
  BY <1>2, <1>7 DEF Range
<1> QED BY <1>6, <1>8 DEF s, t

\* What it says of what the driver takes, and of what the connection writes.
LEMMA FrontFacts ==
  ASSUME TypeInv, PipeInv
  PROVE  /\ Incoming # <<>> => \A q \in Range(Tail(Incoming)) \cup Range(Outgoing) :
              /\ ~(IsBegin(Head(Incoming)) /\ IsBegin(q))
              /\ ~(IsCommit(Head(Incoming)) /\ (IsCommit(q) \/ IsReflect(q)))
              /\ ~(IsLive(Head(Incoming)) /\ IsLive(q) /\ Head(Incoming).id = q.id)
         /\ Outgoing # <<>> => \A q \in Range(Tail(Outgoing)) :
              /\ ~(IsBegin(Head(Outgoing)) /\ IsBegin(q))
              /\ ~(IsCommit(Head(Outgoing)) /\ (IsCommit(q) \/ IsReflect(q)))
<1>1. Incoming \in Seq(Payload) /\ Outgoing \in Seq(Payload) /\ Pipe \in Seq(Payload)
  BY PipeTypes
<1>2. Tidy(Pipe)
  BY DEF PipeInv
<1>3. ASSUME Incoming # <<>>, NEW q \in Range(Tail(Incoming)) \cup Range(Outgoing)
      PROVE  /\ ~(IsBegin(Head(Incoming)) /\ IsBegin(q))
             /\ ~(IsCommit(Head(Incoming)) /\ (IsCommit(q) \/ IsReflect(q)))
             /\ ~(IsLive(Head(Incoming)) /\ IsLive(q) /\ Head(Incoming).id = q.id)
  <2>1. /\ Pipe # <<>> /\ Head(Pipe) = Head(Incoming)
        /\ Tail(Pipe) = Tail(Incoming) \o Outgoing
    BY <1>1, <1>3, ConcatHeadTail DEF Pipe
  <2>2. q \in Range(Tail(Pipe))
    <3> DEFINE rest == Tail(Incoming)
    <3>1. rest \in Seq(Payload)
      BY <1>1, <1>3, HeadTailProperties
    <3> HIDE DEF rest
    <3>2. Range(rest \o Outgoing) = Range(rest) \cup Range(Outgoing)
      BY <1>1, <3>1, RangeConcat
    <3> QED BY <1>3, <2>1, <3>2 DEF rest
  <2>3. /\ Tail(Pipe) \in Seq(Payload) /\ Len(Pipe) \in Nat
        /\ Len(Tail(Pipe)) = Len(Pipe) - 1
        /\ \A i \in 1..Len(Tail(Pipe)) : Tail(Pipe)[i] = Pipe[i + 1]
    BY <1>1, <2>1, HeadTailProperties, LenProperties
  <2>4. DOMAIN Tail(Pipe) = 1..Len(Tail(Pipe))
    BY <2>3, LenProperties
  <2>5. PICK i \in 1..Len(Tail(Pipe)) : Tail(Pipe)[i] = q
    BY <2>2, <2>4 DEF Range
  <2>6. i + 1 \in 1..Len(Pipe) /\ Pipe[i + 1] = q /\ 1 # i + 1 /\ ~(i + 1 < 1)
    BY <2>3, <2>5
  <2>7. 1 \in 1..Len(Pipe) /\ Pipe[1] = Head(Incoming)
    BY <1>1, <2>1, FrontPlace
  <2> QED BY <1>2, <2>6, <2>7 DEF Tidy
<1>4. ASSUME Outgoing # <<>>, NEW q \in Range(Tail(Outgoing))
      PROVE  /\ ~(IsBegin(Head(Outgoing)) /\ IsBegin(q))
             /\ ~(IsCommit(Head(Outgoing)) /\ (IsCommit(q) \/ IsReflect(q)))
  <2> DEFINE n == Len(Incoming)
             t == Tail(Outgoing)
  <2>1. /\ t \in Seq(Payload) /\ n \in Nat /\ Len(t) = Len(Outgoing) - 1
        /\ \A i \in 1..Len(t) : t[i] = Outgoing[i + 1] /\ i + 1 \in 1..Len(Outgoing)
    BY <1>1, <1>4, HeadTailProperties, LenProperties
  <2>2. 1 \in 1..Len(Outgoing) /\ Outgoing[1] = Head(Outgoing)
    BY <1>1, <1>4, FrontPlace
  <2>3. DOMAIN t = 1..Len(t)
    BY <2>1, LenProperties
  <2> HIDE DEF t
  <2>4. PICK i \in 1..Len(t) : t[i] = q
    BY <1>4, <2>3 DEF Range, t
  <2>5. \A j \in 1..Len(Outgoing) : n + j \in 1..Len(Pipe) /\ Pipe[n + j] = Outgoing[j]
    BY PipePlaces
  <2>6. /\ n + 1 \in 1..Len(Pipe) /\ Pipe[n + 1] = Head(Outgoing)
        /\ n + (i + 1) \in 1..Len(Pipe) /\ Pipe[n + (i + 1)] = q
    BY <2>1, <2>2, <2>4, <2>5
  <2> HIDE DEF n
  <2>7. n + 1 # n + (i + 1) /\ ~(n + (i + 1) < n + 1)
    BY <2>1, <2>4
  <2> QED BY <1>2, <2>6, <2>7 DEF Tidy
<1> QED BY <1>3, <1>4

\* The pipe's part of the invariant as it is kept by what asks for nothing new.
LEMMA PipeKept ==
  ASSUME TypeInv, TypeInv', PipeInv, HandshakeInv', AsksNothingNew(Pipe', Pipe),
         UNCHANGED <<e2ePc, expected, acked>>
  PROVE  PipeInv'
<1>1. Pipe \in Seq(Payload) /\ Pipe' \in Seq(Payload)
  BY PipeTypes, PipeNext
<1>2. Tidy(Pipe') /\ Fits(Pipe', e2ePc, expected \ Range(acked))
  BY <1>1, FollowsKeeps DEF PipeInv
<1> QED BY <1>2 DEF PipeInv

LEMMA PipeInvD2m ==
  ASSUME TypeInv, TypeInv', PromotionInv, PipeInv, D2mRuns
  PROVE  PipeInv'
<1>1. HandshakeInv'
  <2>1. CASE D2mHandshake
    <3>1. CASE d2mPc = "hello"
      <4>1. d2mWire = <<Plain("Handshake")>>
        BY <2>1, <3>1 DEF D2mHandshake, TypeInv, D2mWireOK
      <4>2. Tail(d2mWire) = <<>>
        BY <4>1
      <4>3. d2mWire' = <<Plain("Handshake")>> \/ d2mWire' = <<>>
        <5>1. Append(<<>>, Plain("Handshake")) = <<Plain("Handshake")>>
          OBVIOUS
        <5> QED BY <2>1, <4>2, <5>1 DEF D2mHandshake
      <4> QED BY <4>3 DEF HandshakeInv, Plain
    <3>2. CASE d2mPc = "info"
      BY <2>1, <3>2 DEF D2mHandshake, HandshakeInv
    <3> QED BY <2>1, <3>1, <3>2 DEF D2mHandshake
  <2>2. CASE ~D2mHandshake
    <3>1. d2mPc = "flow" /\ d2mPc' = d2mPc
      BY <2>2 DEF D2mRuns, D2mNext, D2mReceive, D2mForward, D2mSend, D2mFlowEnds, D2mTurn, d2m,
                  PromotionInv
    <3> QED BY <3>1 DEF HandshakeInv
  <2> QED BY <2>1, <2>2
<1>2. UNCHANGED <<e2ePc, expected, acked>>
  BY DEF D2mRuns, driver
<1> QED BY <1>1, <1>2, PipeD2m, PipeKept DEF PipeInv

LEMMA PipeInvMediator ==
  ASSUME TypeInv, TypeInv', PipeInv, MediatorActs
  PROVE  PipeInv'
<1>1. HandshakeInv'
  <2>1. d2mPc' = d2mPc
    BY DEF MediatorActs, d2m
  <2>2. ASSUME NEW p \in Datagram, Sends(p) PROVE HandshakeInv'
    <3>1. d2mWire \in Seq(Datagram) /\ d2mWire' = Append(d2mWire, p)
      BY <2>2, IncomingType DEF Sends
    <3>2. d2mPc = "info" => d2mWire # <<>>
      BY <2>2 DEF Sends, TypeInv, D2mWireOK
    <3>3. d2mWire # <<>> => Head(d2mWire') = Head(d2mWire)
      BY <3>1, HeadTailAppend
    <3> QED BY <2>1, <3>2, <3>3 DEF HandshakeInv, PipeInv
  <2>3. \A type \in {"RolePromotedToLeader", "ReflectionQueueDry", "TransactionEnded"} :
          Plain(type) \in Datagram
    BY DEF Plain, Datagram, D2mInPayload
  <2>4. [type |-> "Reflected", id |-> reflected + 1] \in Datagram
    BY MediatorAssumption DEF TypeInv, TypeOK, D2mTypeOK, Datagram, D2mInPayload
  <2>5. CASE SiblingBegins \/ MediatorCloses
    BY <2>1, <2>5 DEF SiblingBegins, MediatorCloses, HandshakeInv, PipeInv
  <2> QED BY <2>2, <2>3, <2>4, <2>5
      DEF MediatorActs, MediatorPromotes, MediatorRunsDry, MediatorReflects, SiblingEnds
<1>2. UNCHANGED <<e2ePc, expected, acked>>
  BY DEF MediatorActs, driver
<1> QED BY <1>1, <1>2, PipeMediator, PipeKept

\* The mediator's hello arrives as the first of all.
LEMMA PipeInvConnect ==
  ASSUME TypeInv, TypeInv', PipeInv, ConnectD2m
  PROVE  /\ PipeInv'
         /\ Outgoing' = Outgoing
         /\ Incoming' = Incoming \/ Incoming' = Append(Incoming, Plain("Handshake"))
<1> USE PipeTypes
<1> DEFINE p == Plain("Handshake")
<1>1. /\ d2mIn' = d2mIn /\ d2mHand' = d2mHand /\ Outgoing' = Outgoing
      /\ d2mWire' = d2mWire \/ d2mWire' = Append(d2mWire, p)
      /\ UNCHANGED <<e2ePc, expected, acked>>
  BY DEF ConnectD2m, D2mConnect, channels, driver, Outgoing
<1>2. p \in Datagram /\ ~Asks(p)
  BY DEF Datagram, Plain, Asks, IsBegin, IsCommit, IsReflect
<1>3. HandshakeInv'
  BY DEF ConnectD2m, D2mConnect, HandshakeInv
<1> HIDE DEF p
<1>4. Incoming' = Incoming \/ Incoming' = Append(Incoming, p)
  BY <1>1, <1>2, SentLast DEF Incoming
<1>5. AsksNothingNew(Pipe', Pipe)
  <2>1. CASE Incoming' = Incoming
    BY <1>1, <2>1, FollowsEnds DEF Pipe
  <2>2. CASE Incoming' = Append(Incoming, p)
    <3> DEFINE n == <<p>>
    <3>1. n \in Seq(Payload) /\ Len(n) = 1 /\ n[1] = p
      BY <1>2 DEF Payload
    <3>2. Incoming' = Incoming \o n
      BY <1>2, <2>2, AppendIsConcat, IncomingType
    <3> DEFINE m == <<>>
    <3>3. m \in Seq(Payload) /\ m = <<>>
      OBVIOUS
    <3>4. m \o Outgoing = Outgoing
      BY ConcatEmptySeq
    <3> HIDE DEF m, n
    <3>5. AsksNothingNew((Incoming \o n) \o Outgoing, Incoming \o (m \o Outgoing))
      BY <1>2, <3>1, <3>3, FollowsMiddle
    <3> QED BY <1>1, <3>2, <3>4, <3>5 DEF Pipe
  <2> QED BY <1>4, <2>1, <2>2
<1>6. PipeInv'
  BY <1>1, <1>3, <1>5, PipeKept
<1> QED BY <1>1, <1>4, <1>6 DEF p

\* While the driver polls its task nothing it asked for is in the pipe.
LEMMA PipeAdds ==
  ASSUME NEW S, NEW s \in Seq(S), NEW t \in Seq(S), NEW old, NEW pc, NEW ids,
         Tidy(s), Fits(s, "poll", old), Tidy(t), Fits(t, pc, ids)
  PROVE  Tidy(s \o t) /\ Fits(s \o t, pc, ids)
<1> DEFINE u == s \o t
<1>1. /\ Len(s) \in Nat /\ Len(t) \in Nat /\ Len(u) = Len(s) + Len(t)
      /\ \A i \in 1..Len(s) + Len(t) : u[i] = IF i =< Len(s) THEN s[i] ELSE t[i - Len(s)]
  BY ConcatProperties, LenProperties
<1> HIDE DEF u
<1>2. \A i \in 1..Len(s) : ~IsBegin(s[i]) /\ ~IsCommit(s[i]) /\ ~IsLive(s[i])
  BY DEF Fits
<1> DEFINE at(i) == i - Len(s)
<1>3. ASSUME NEW i \in 1..Len(u)
      PROVE  \/ i =< Len(s) /\ ~IsBegin(u[i]) /\ ~IsCommit(u[i]) /\ ~IsLive(u[i])
             \/ i > Len(s) /\ at(i) \in 1..Len(t) /\ u[i] = t[at(i)]
  <2>1. CASE i =< Len(s)
    <3>1. i \in 1..Len(s) /\ u[i] = s[i]
      BY <1>1, <2>1
    <3> QED BY <1>2, <2>1, <3>1
  <2>2. CASE ~(i =< Len(s))
    <3>1. i > Len(s) /\ at(i) \in 1..Len(t) /\ u[i] = t[at(i)]
      BY <1>1, <2>2
    <3> QED BY <3>1
  <2> QED BY <2>1, <2>2
<1>4. \A i, j \in 1..Len(u) : (at(i) = at(j) => i = j) /\ (at(i) < at(j) => i < j)
  BY <1>1
<1>5. \A i, j \in 1..Len(u) : i =< Len(s) /\ j > Len(s) => i < j
  BY <1>1
<1> HIDE DEF at
<1>6. ASSUME NEW i \in 1..Len(u), NEW j \in 1..Len(u)
      PROVE  /\ IsBegin(u[i]) /\ IsBegin(u[j]) => i = j
             /\ IsCommit(u[i]) /\ IsCommit(u[j]) => i = j
             /\ IsReflect(u[i]) /\ IsCommit(u[j]) => i < j
             /\ IsLive(u[i]) /\ IsLive(u[j]) /\ u[i].id = u[j].id => i = j
  <2>1. CASE i > Len(s) /\ j > Len(s)
    <3>1. /\ at(i) \in 1..Len(t) /\ u[i] = t[at(i)]
          /\ at(j) \in 1..Len(t) /\ u[j] = t[at(j)]
      BY <1>1, <1>3, <2>1
    <3> QED BY <1>4, <3>1 DEF Tidy
  <2>2. CASE ~(i > Len(s)) \/ ~(j > Len(s))
    BY <1>1, <1>3, <1>5, <2>2
  <2> QED BY <2>1, <2>2
<1>7. ASSUME NEW i \in 1..Len(u)
      PROVE  /\ IsBegin(u[i]) => pc = "begin"
             /\ IsCommit(u[i]) => pc \in {"abort", "commit"}
             /\ IsLive(u[i]) => pc \in {"commit", "reflect"} /\ u[i].id \in ids
  BY <1>3 DEF Fits
<1>8. Tidy(u) /\ Fits(u, pc, ids)
  BY <1>6, <1>7 DEF Tidy, Fits
<1> QED BY <1>8 DEF u

\* A single request.
LEMMA OneTidy ==
  ASSUME NEW p, NEW pc, NEW ids, ~IsReflect(p),
         IsBegin(p) => pc = "begin", IsCommit(p) => pc \in {"abort", "commit"}
  PROVE  Tidy(<<p>>) /\ Fits(<<p>>, pc, ids)
<1> DEFINE s == <<p>>
<1>1. Len(s) = 1 /\ s[1] = p
  OBVIOUS
<1>2. ~IsLive(p)
  BY Kinds
<1> HIDE DEF s
<1>3. \A i \in 1..Len(s) : i = 1
  BY <1>1
<1>4. Tidy(s)
  BY <1>1, <1>2, <1>3 DEF Tidy
<1>5. Fits(s, pc, ids)
  BY <1>1, <1>2, <1>3 DEF Fits
<1> QED BY <1>4, <1>5 DEF s

\* The reflects of one instruction.
LEMMA BatchTidy ==
  ASSUME TypeInv, NEW s \in 0..4, NEW size \in 0..MaxBatch, NEW ephemerals \in SUBSET (1..size),
         NEW pc \in {"commit", "reflect"}
  PROVE  LET batch == Batch(s, size, ephemerals)
             ids == Acknowledged(s, size, ephemerals)
         IN /\ batch \in Seq(D2mOutPayload) /\ Len(batch) = size /\ size \in Nat
            /\ \A p \in Range(batch) : IsReflect(p) /\ p.type = "Reflect" /\ p.id[2] = s
            /\ \A id \in ids : Awaits(batch, id)
            /\ Tidy(batch) /\ Fits(batch, pc, ids)
<1> DEFINE batch == Batch(s, size, ephemerals)
           ids == Acknowledged(s, size, ephemerals)
<1>1. size \in Nat /\ task \in 0..Total
  BY DriverAssumption DEF TypeInv, TypeOK, DriverTypeOK
<1>2. batch \in Seq(D2mOutPayload)
  BY <1>1, BatchType
<1>3. Len(batch) = size /\ DOMAIN batch = 1..size
  BY <1>1 DEF Batch
<1>4. \A i \in 1..size :
        /\ batch[i].type = "Reflect" /\ batch[i].id = <<task, s, i>>
        /\ batch[i].ephemeral = (i \in ephemerals)
  BY DEF Batch
<1>5. \A i \in 1..size : i \notin ephemerals => <<task, s, i>> \in ids
  BY DEF Acknowledged
<1>6. \A id \in ids : \E i \in 1..size : i \notin ephemerals /\ id = <<task, s, i>>
  BY DEF Acknowledged
<1> HIDE DEF batch, ids
<1>7. \A i \in 1..size : IsReflect(batch[i]) /\ ~IsBegin(batch[i]) /\ ~IsCommit(batch[i])
  BY <1>4 DEF IsReflect, IsBegin, IsCommit
<1>8. \A i \in 1..size : IsLive(batch[i]) <=> i \notin ephemerals
  BY <1>4 DEF IsLive
<1>9. \A i, j \in 1..size : batch[i].id = batch[j].id => i = j
  BY <1>4
<1>10. Tidy(batch)
  BY <1>3, <1>7, <1>9 DEF Tidy
<1>11. Fits(batch, pc, ids)
  BY <1>3, <1>4, <1>5, <1>7, <1>8 DEF Fits
<1>12. \A p \in Range(batch) : IsReflect(p) /\ p.type = "Reflect" /\ p.id[2] = s
  <2>1. \A i \in 1..size : batch[i].id[2] = s
    BY <1>4
  <2> QED BY <1>3, <1>4, <1>7, <2>1 DEF Range
<1>13. \A id \in ids : Awaits(batch, id)
  BY <1>3, <1>4, <1>6, <1>8 DEF Awaits, Range
<1> QED BY <1>1, <1>2, <1>3, <1>10, <1>11, <1>12, <1>13 DEF batch, ids

\* With the commit behind them.
LEMMA CommitTidy ==
  ASSUME NEW S, NEW s \in Seq(S), NEW e \in S, NEW ids, e.type = "CommitTransaction",
         \A p \in Range(s) : IsReflect(p), Tidy(s), Fits(s, "commit", ids)
  PROVE  Tidy(Append(s, e)) /\ Fits(Append(s, e), "commit", ids)
<1> DEFINE t == Append(s, e)
<1>1. /\ Len(s) \in Nat /\ Len(t) = Len(s) + 1 /\ t[Len(s) + 1] = e
      /\ \A i \in 1..Len(s) : t[i] = s[i]
      /\ DOMAIN s = 1..Len(s)
  BY AppendProperties, LenProperties
<1> HIDE DEF t
<1>2. IsCommit(e) /\ ~IsBegin(e) /\ ~IsReflect(e) /\ ~IsLive(e)
  BY DEF IsCommit, IsBegin, IsReflect, IsLive
<1>3. \A i \in 1..Len(s) : ~IsBegin(s[i]) /\ ~IsCommit(s[i])
  BY <1>1 DEF Range, IsReflect, IsBegin, IsCommit
<1>4. \A i \in 1..Len(t) : (i \in 1..Len(s) /\ i < Len(s) + 1) \/ i = Len(s) + 1
  BY <1>1
<1>5. ASSUME NEW i \in 1..Len(t), NEW j \in 1..Len(t)
      PROVE  /\ IsBegin(t[i]) /\ IsBegin(t[j]) => i = j
             /\ IsCommit(t[i]) /\ IsCommit(t[j]) => i = j
             /\ IsReflect(t[i]) /\ IsCommit(t[j]) => i < j
             /\ IsLive(t[i]) /\ IsLive(t[j]) /\ t[i].id = t[j].id => i = j
  BY <1>1, <1>2, <1>3, <1>4 DEF Tidy
<1>6. Tidy(t)
  BY <1>5 DEF Tidy
<1>7. Fits(t, "commit", ids)
  BY <1>1, <1>2, <1>3, <1>4 DEF Fits
<1> QED BY <1>6, <1>7 DEF t

\* What an instruction is to have acknowledged is counted by its places.
LEMMA AcknowledgedCount ==
  ASSUME NEW s, NEW size \in Nat, NEW ephemerals \in SUBSET (1..size)
  PROVE  /\ IsFiniteSet(Acknowledged(s, size, ephemerals))
         /\ Cardinality(Acknowledged(s, size, ephemerals)) = Cardinality((1..size) \ ephemerals)
<1> DEFINE places == (1..size) \ ephemerals
           ids == Acknowledged(s, size, ephemerals)
           f == [i \in places |-> <<task, s, i>>]
<1>1. IsFiniteSet(places)
  <2>1. IsFiniteSet(1..size)
    BY FS_Interval
  <2> QED BY <2>1, FS_Difference
<1>2. ids = {<<task, s, i>> : i \in places}
  BY DEF Acknowledged
<1> HIDE DEF places, ids
<1>3. f \in [places -> ids] /\ DOMAIN f = places /\ \A i \in places : f[i] = <<task, s, i>>
  BY <1>2
<1>4. \A i, j \in places : f[i] = f[j] => i = j
  BY <1>3
<1>5. \A id \in ids : \E i \in places : f[i] = id
  BY <1>2, <1>3
<1> HIDE DEF f
<1>6. f \in Bijection(places, ids)
  BY <1>3, <1>4, <1>5 DEF Bijection, Injection, Surjection, IsInjective
<1>7. ExistsBijection(places, ids)
  BY <1>6 DEF ExistsBijection
<1> QED BY <1>1, <1>7, FS_Bijection DEF places, ids

\* What the two instructions that reflect put into the outbox.
LEMMA ReflectAndCommitSends ==
  ASSUME TypeInv, PollReflectAndCommit
  PROVE  \E batch \in Seq(D2mOutPayload), commit \in D2mOutPayload :
           /\ outD2m' = Append(batch, commit) /\ commit.type = "CommitTransaction"
           /\ Len(batch) =< MaxBatch /\ \A p \in Range(batch) : IsReflect(p)
           /\ \A id \in expected' : Awaits(batch, id)
           /\ Tidy(batch) /\ Fits(batch, "commit", expected')
           /\ IsFiniteSet(expected')
<1>0. PICK size \in 0..MaxBatch : \E ephemerals \in SUBSET (1..size) :
        /\ outD2m' = Append(Batch(stage, size, ephemerals), Out("CommitTransaction"))
        /\ expected' = Acknowledged(stage, size, ephemerals)
  BY DEF PollReflectAndCommit
<1>1. PICK ephemerals \in SUBSET (1..size) :
        /\ outD2m' = Append(Batch(stage, size, ephemerals), Out("CommitTransaction"))
        /\ expected' = Acknowledged(stage, size, ephemerals)
  BY <1>0
<1> DEFINE batch == Batch(stage, size, ephemerals)
           commit == Out("CommitTransaction")
<1>2. stage \in 0..4
  BY DEF TypeInv, TypeOK, DriverTypeOK
<1>3. /\ batch \in Seq(D2mOutPayload) /\ size \in Nat /\ Len(batch) =< MaxBatch
      /\ \A p \in Range(batch) : IsReflect(p)
      /\ \A id \in expected' : Awaits(batch, id)
      /\ Tidy(batch) /\ Fits(batch, "commit", expected')
  BY <1>1, <1>2, BatchTidy, DriverAssumption
<1>4. commit \in D2mOutPayload /\ commit.type = "CommitTransaction"
  <2>1. FALSE \in BOOLEAN
    BY Zenon
  <2> QED BY <2>1 DEF Out, D2mOutPayload
<1>5. IsFiniteSet(expected')
  BY <1>1, <1>3, AcknowledgedCount
<1>6. outD2m' = Append(batch, commit)
  BY <1>1
<1> HIDE DEF batch, commit
<1> QED BY <1>3, <1>4, <1>5, <1>6

LEMMA ReflectSends ==
  ASSUME TypeInv, PollReflectMessage
  PROVE  /\ outD2m' \in Seq(D2mOutPayload) /\ Len(outD2m') =< MaxBatch
         /\ \A p \in Range(outD2m') : p.type = "Reflect" /\ p.id[2] = Order["message"]
         /\ Tidy(outD2m') /\ Fits(outD2m', "reflect", expected')
         /\ IsFiniteSet(expected') /\ pending' = Cardinality(expected')
<1>0. PICK size \in 0..MaxBatch : \E ephemerals \in SUBSET (1..size) :
        /\ outD2m' = Batch(stage', size, ephemerals)
        /\ pending' = Cardinality((1..size) \ ephemerals)
        /\ expected' = Acknowledged(stage', size, ephemerals)
  BY DEF PollReflectMessage
<1>1. PICK ephemerals \in SUBSET (1..size) :
        /\ outD2m' = Batch(stage', size, ephemerals)
        /\ pending' = Cardinality((1..size) \ ephemerals)
        /\ expected' = Acknowledged(stage', size, ephemerals)
  BY <1>0
<1>2. stage' = Order["message"] /\ stage' \in 0..4
  BY DEF PollReflectMessage, Order
<1>3. /\ outD2m' \in Seq(D2mOutPayload) /\ size \in Nat /\ Len(outD2m') =< MaxBatch
      /\ \A p \in Range(outD2m') : p.type = "Reflect" /\ p.id[2] = stage'
      /\ Tidy(outD2m') /\ Fits(outD2m', "reflect", expected')
  BY <1>1, <1>2, BatchTidy, DriverAssumption
<1>4. IsFiniteSet(expected') /\ pending' = Cardinality(expected')
  BY <1>1, <1>3, AcknowledgedCount
<1> QED BY <1>2, <1>3, <1>4

LEMMA PipeGrows ==
  ASSUME TypeInv, DriverRuns, outD2m = <<>>, UNCHANGED <<d2mIn, d2mOut>>,
         outD2m' \in Seq(D2mOutPayload)
  PROVE  /\ outD2m' \in Seq(Payload) /\ Incoming' = Incoming
         /\ Outgoing' = Outgoing \o outD2m' /\ Pipe' = Pipe \o outD2m'
<1>1. outD2m' \in Seq(Payload)
  BY SeqMonotonic DEF Payload
<1>2. Incoming' = Incoming
  BY DEF DriverRuns, d2m, mediator, Incoming
<1>3. Outgoing' = Outgoing \o outD2m'
  BY OutgoingMoves
<1>4. (Incoming \o Outgoing) \o outD2m' = Incoming \o (Outgoing \o outD2m')
  <2>1. Incoming \in Seq(Payload) /\ Outgoing \in Seq(Payload)
    BY PipeTypes
  <2> QED BY <1>1, <2>1, ConcatAssociative
<1> QED BY <1>1, <1>2, <1>3, <1>4 DEF Pipe

LEMMA PipeInvPolls ==
  ASSUME TypeInv, PipeInv, DriverRuns,
         PollBeginTransaction \/ PollAbortTransaction \/ PollReflectAndCommit \/ PollReflectMessage
  PROVE  PipeInv'
<1>1. /\ e2ePc = "poll" /\ outD2m = <<>> /\ UNCHANGED <<d2mIn, d2mOut>>
      /\ HandshakeInv'
  <2>1. e2ePc = "poll" /\ Quiet /\ UNCHANGED channels
    BY DEF PollBeginTransaction, PollAbortTransaction, PollReflectAndCommit, PollReflectMessage, Polls
  <2> QED BY <2>1 DEF DriverRuns, d2m, mediator, HandshakeInv, PipeInv, Quiet, channels
<1>2. Tidy(Pipe) /\ Fits(Pipe, "poll", expected \ Range(acked)) /\ Pipe \in Seq(Payload)
  BY <1>1, PipeTypes DEF PipeInv
<1>3. ASSUME NEW pc, NEW ids, outD2m' \in Seq(D2mOutPayload), Tidy(outD2m'), Fits(outD2m', pc, ids),
             e2ePc' = pc, expected' \ Range(acked') = ids
      PROVE  PipeInv'
  <2>1. outD2m' \in Seq(Payload) /\ Pipe' = Pipe \o outD2m'
    BY <1>1, <1>3, PipeGrows
  <2>2. Tidy(Pipe \o outD2m') /\ Fits(Pipe \o outD2m', pc, ids)
    BY <1>2, <1>3, <2>1, PipeAdds
  <2> QED BY <1>1, <1>3, <2>1, <2>2 DEF PipeInv
<1>4. ASSUME NEW type \in {"BeginTransaction", "CommitTransaction"}, outD2m' = <<Out(type)>>,
             IF type = "BeginTransaction" THEN e2ePc' = "begin" ELSE e2ePc' = "abort"
      PROVE  PipeInv'
  <2> DEFINE p == Out(type)
  <2>1. p \in D2mOutPayload /\ p.type = type
    <3>1. FALSE \in BOOLEAN
      BY Zenon
    <3> QED BY <3>1 DEF Out, D2mOutPayload
  <2> HIDE DEF p
  <2>2. /\ ~IsReflect(p) /\ (IsBegin(p) => e2ePc' = "begin")
        /\ (IsCommit(p) => e2ePc' \in {"abort", "commit"})
    BY <1>4, <2>1 DEF IsReflect, IsBegin, IsCommit
  <2>3. Tidy(<<p>>) /\ Fits(<<p>>, e2ePc', expected' \ Range(acked'))
    BY <2>2, OneTidy
  <2>4. <<p>> \in Seq(D2mOutPayload) /\ outD2m' = <<p>>
    BY <1>4, <2>1 DEF p
  <2> QED BY <1>3, <2>3, <2>4
<1>5. CASE PollBeginTransaction \/ PollAbortTransaction
  BY <1>4, <1>5 DEF PollBeginTransaction, PollAbortTransaction
<1>6. CASE PollReflectAndCommit
  <2>1. PICK batch \in Seq(D2mOutPayload), commit \in D2mOutPayload :
           /\ outD2m' = Append(batch, commit) /\ commit.type = "CommitTransaction"
           /\ \A p \in Range(batch) : IsReflect(p)
           /\ Tidy(batch) /\ Fits(batch, "commit", expected')
    BY <1>6, ReflectAndCommitSends
  <2>2. outD2m' \in Seq(D2mOutPayload) /\ Tidy(outD2m') /\ Fits(outD2m', "commit", expected')
    BY <2>1, CommitTidy, AppendProperties
  <2>3. e2ePc' = "commit" /\ expected' \ Range(acked') = expected'
    BY <1>6, RangeOfNothing DEF PollReflectAndCommit
  <2> QED BY <1>3, <2>2, <2>3
<1>7. CASE PollReflectMessage
  <2>1. e2ePc' = "reflect" /\ expected' \ Range(acked') = expected'
    BY <1>7, RangeOfNothing DEF PollReflectMessage
  <2> QED BY <1>3, <1>7, <2>1, ReflectSends
<1> QED BY <1>5, <1>6, <1>7

\* Taking a payload: what is left is what the driver then waits for.
LEMMA PipeInvTakes ==
  ASSUME TypeInv, TypeInv', PipeInv, DriverRuns, OnD2m
  PROVE  PipeInv'
<1> DEFINE p == Head(d2mIn)
           rest == Tail(Pipe)
<1>1. /\ Pipe # <<>> /\ Pipe[1] = p /\ 1 \in 1..Len(Pipe)
      /\ \/ Pipe' = rest
         \/ OnReflected /\ \E ack \in D2mOutPayload :
              ack.type = "ReflectedAck" /\ Pipe' = Append(rest, ack)
  BY PipeTake
<1>2. Tidy(Pipe) /\ Fits(Pipe, e2ePc, expected \ Range(acked)) /\ Pipe \in Seq(Payload)
  BY PipeTypes DEF PipeInv
<1>3. HandshakeInv'
  BY DEF DriverRuns, d2m, mediator, HandshakeInv, PipeInv
<1>4. /\ rest \in Seq(Payload) /\ Len(Pipe) \in Nat /\ Len(rest) = Len(Pipe) - 1
      /\ \A i \in 1..Len(rest) : rest[i] = Pipe[i + 1]
  BY <1>1, <1>2, HeadTailProperties, LenProperties
<1>5. AsksNothingNew(rest, Pipe)
  BY <1>1, <1>2, FollowsEnds
<1> HIDE DEF rest
<1>6. Tidy(rest) /\ Fits(rest, e2ePc, expected \ Range(acked))
  BY <1>2, <1>4, <1>5, FollowsKeeps
<1>7. ASSUME NEW i \in 1..Len(rest)
      PROVE  /\ IsBegin(rest[i]) => e2ePc = "begin" /\ ~IsBegin(p)
             /\ IsCommit(rest[i]) => e2ePc \in {"abort", "commit"} /\ ~IsCommit(p)
             /\ IsReflect(rest[i]) => ~IsCommit(p)
             /\ IsLive(rest[i]) =>
                  /\ e2ePc \in {"commit", "reflect"} /\ ~IsCommit(p)
                  /\ rest[i].id \in expected \ Range(acked)
                  /\ IsLive(p) => rest[i].id # p.id
  <2>1. i + 1 \in 1..Len(Pipe) /\ rest[i] = Pipe[i + 1] /\ i + 1 # 1 /\ ~(i + 1 < 1)
    BY <1>4
  <2>2. /\ IsBegin(rest[i]) => e2ePc = "begin"
        /\ IsCommit(rest[i]) => e2ePc \in {"abort", "commit"}
        /\ IsLive(rest[i]) => e2ePc \in {"commit", "reflect"} /\ rest[i].id \in expected \ Range(acked)
    BY <1>6 DEF Fits
  <2>3. /\ ~(IsBegin(rest[i]) /\ IsBegin(p)) /\ ~(IsCommit(rest[i]) /\ IsCommit(p))
        /\ ~(IsReflect(rest[i]) /\ IsCommit(p))
        /\ ~(IsLive(rest[i]) /\ IsLive(p) /\ rest[i].id = p.id)
    BY <1>1, <1>2, <2>1 DEF Tidy
  <2> QED BY <2>2, <2>3, Kinds
<1> HIDE DEF p
<1>8. CASE \/ OnTransactionEnded \/ OnCommitAck \/ OnReflectAck
           \/ \E type \in {"BeginTransactionAck", "TransactionRejected"} : OnBeginReply(type)
  <2>1. Pipe' = rest
    <3>1. ~OnReflected
      BY <1>8 DEF OnTransactionEnded, OnCommitAck, OnReflectAck, OnBeginReply, OnReflected, Receives
    <3> QED BY <1>1, <3>1
  <2>2. CASE \E type \in {"BeginTransactionAck", "TransactionRejected"} : OnBeginReply(type)
    <3>1. IsBegin(p) /\ e2ePc = "begin"
      BY <2>2 DEF OnBeginReply, Receives, IsBegin, p
    <3>2. Fits(rest, e2ePc', expected' \ Range(acked'))
      BY <1>7, <3>1 DEF Fits
    <3> QED BY <1>3, <1>6, <2>1, <3>2 DEF PipeInv
  <2>3. CASE OnTransactionEnded
    <3>1. e2ePc = "rejected"
      BY <2>3 DEF OnTransactionEnded
    <3>2. Fits(rest, e2ePc', expected' \ Range(acked'))
      BY <1>7, <3>1 DEF Fits
    <3> QED BY <1>3, <1>6, <2>1, <3>2 DEF PipeInv
  <2>4. CASE OnCommitAck
    <3>1. IsCommit(p) /\ e2ePc \in {"abort", "commit"}
      BY <2>4 DEF OnCommitAck, Receives, IsCommit, p
    <3>2. Fits(rest, e2ePc', expected' \ Range(acked'))
      BY <1>7, <3>1 DEF Fits
    <3> QED BY <1>3, <1>6, <2>1, <3>2 DEF PipeInv
  <2>5. CASE OnReflectAck
    <3>1. /\ IsLive(p) /\ e2ePc' = e2ePc /\ expected' = expected
          /\ acked' = Append(acked, p.id)
      BY <2>5 DEF OnReflectAck, Receives, IsLive, p
    <3>2. acked \in Seq(Nat \cup ReflectId) /\ p.id \in Nat \cup ReflectId
      <4>1. p \in D2mInPayload
        BY <2>5, HeadTailProperties DEF OnReflectAck, Receives, TypeInv, TypeOK, WiringTypeOK, p
      <4> QED BY <4>1 DEF TypeInv, TypeOK, DriverTypeOK, D2mInPayload
    <3>3. Range(acked') = Range(acked) \cup {p.id}
      BY <3>1, <3>2, RangeAppend
    <3>4. Fits(rest, e2ePc', expected' \ Range(acked'))
      BY <1>7, <3>1, <3>3 DEF Fits
    <3> QED BY <1>3, <1>6, <2>1, <3>4 DEF PipeInv
  <2> QED BY <1>8, <2>2, <2>3, <2>4, <2>5
<1>9. CASE OnPromotion \/ OnReflected \/ DropUnsolicited
  <2>1. UNCHANGED <<e2ePc, expected, acked>>
    BY <1>9 DEF OnPromotion, OnReflected, DropUnsolicited, driver
  <2>2. CASE Pipe' = rest
    BY <1>3, <1>6, <2>1, <2>2 DEF PipeInv
  <2>3. ASSUME NEW ack \in D2mOutPayload, ack.type = "ReflectedAck", Pipe' = Append(rest, ack)
        PROVE  PipeInv'
    <3>1. ack \in Payload /\ ~Asks(ack)
      BY <2>3 DEF Payload, Asks, IsBegin, IsCommit, IsReflect
    <3>2. AsksNothingNew(Append(rest, ack), rest) /\ Append(rest, ack) \in Seq(Payload)
      BY <1>4, <3>1, FollowsEnds, AppendProperties
    <3>3. Tidy(Append(rest, ack)) /\ Fits(Append(rest, ack), e2ePc, expected \ Range(acked))
      BY <1>4, <1>6, <3>2, FollowsKeeps
    <3> QED BY <1>3, <2>1, <2>3, <3>3 DEF PipeInv
  <2> QED BY <1>1, <2>2, <2>3
<1> QED BY <1>8, <1>9 DEF OnD2m

-----------------------------------------------------------------------------
(* What has been acknowledged, and what is still to be.                    *)

LEMMA AckedCount ==
  ASSUME NEW S, NEW s \in Seq(S), \A i, j \in 1..Len(s) : s[i] = s[j] => i = j
  PROVE  IsFiniteSet(Range(s)) /\ Cardinality(Range(s)) = Len(s)
<1>1. Len(s) \in Nat /\ DOMAIN s = 1..Len(s)
  BY LenProperties
<1>2. s \in Bijection(1..Len(s), Range(s))
  <2>1. s \in [1..Len(s) -> Range(s)]
    <3>1. \A i \in 1..Len(s) : s[i] \in Range(s)
      BY <1>1 DEF Range
    <3>2. s \in [1..Len(s) -> S]
      BY LenProperties
    <3> QED BY <1>1, <3>1, <3>2
  <2>2. \A x \in Range(s) : \E i \in 1..Len(s) : s[i] = x
    BY <1>1 DEF Range
  <2> QED BY <1>1, <2>1, <2>2 DEF Bijection, Injection, Surjection, IsInjective
<1>3. ExistsBijection(1..Len(s), Range(s))
  BY <1>2 DEF ExistsBijection
<1>4. IsFiniteSet(Range(s))
  BY <1>1, <1>3, FS_NatBijection
<1> QED BY <1>1, <1>3, <1>4, FS_CountingElements

LEMMA AckedTypes ==
  ASSUME TypeInv
  PROVE  acked \in Seq(Nat \cup ReflectId) /\ Len(acked) \in Nat /\ pending \in Nat
<1>1. acked \in Seq(Nat \cup ReflectId) /\ pending \in Nat
  BY DEF TypeInv, TypeOK, DriverTypeOK
<1> QED BY <1>1, LenProperties

\* Where `reflect` returns nothing is left to be acknowledged.
LEMMA ReflectComplete ==
  ASSUME TypeInv, CompleteInv, ReflectReturns
  PROVE  Range(acked) = expected /\ Len(acked) = Cardinality(expected)
<1>1. e2ePc = "reflect" /\ pending = 0
  BY DEF ReflectReturns
<1>2. /\ IsFiniteSet(expected) /\ Range(acked) \subseteq expected
      /\ \A i, j \in 1..Len(acked) : acked[i] = acked[j] => i = j
      /\ pending + Len(acked) = Cardinality(expected)
  BY <1>1 DEF CompleteInv
<1>3. Cardinality(Range(acked)) = Len(acked)
  BY <1>2, AckedTypes, AckedCount
<1>4. Len(acked) = Cardinality(expected)
  BY <1>1, <1>2, AckedTypes
<1> QED BY <1>2, <1>3, <1>4, FS_Subset

\* Where the commit is acknowledged nothing is left either: the acks of its
\* reflects came before.
LEMMA CommitComplete ==
  ASSUME TypeInv, PipeInv, CompleteInv, DriverRuns, OnCommitAck, e2ePc = "commit"
  PROVE  Range(acked) = expected /\ Len(acked) = Cardinality(expected)
<1>1. /\ Incoming # <<>> /\ Head(Incoming) = Head(d2mIn)
      /\ Head(Incoming).type = "CommitTransactionAck"
  BY PipeTake DEF OnD2m, OnCommitAck, Receives
<1>2. Range(Incoming) = {Head(Incoming)} \cup Range(Tail(Incoming))
  BY <1>1, PipeTypes, RangeTail
<1>3. IsCommit(Head(Incoming)) /\ ~IsLive(Head(Incoming))
  BY <1>1 DEF IsCommit, IsLive
<1>4. \A id : ~Awaits(Incoming, id)
  BY <1>1, <1>2, <1>3, FrontFacts, Kinds DEF Awaits
<1>5. HasType(Incoming, "CommitTransactionAck")
  BY <1>1, <1>2 DEF HasType
<1>6. expected \subseteq Range(acked)
  BY <1>4, <1>5 DEF CompleteInv
<1>7. /\ Range(acked) \subseteq expected
      /\ \A i, j \in 1..Len(acked) : acked[i] = acked[j] => i = j
  BY DEF CompleteInv
<1>8. Range(acked) = expected
  BY <1>6, <1>7
<1>9. Cardinality(Range(acked)) = Len(acked)
  BY <1>7, AckedTypes, AckedCount
<1> QED BY <1>8, <1>9

LEMMA PipeInvOthers ==
  ASSUME TypeInv, PipeInv, CompleteInv, DriverRuns,
         \/ SendCsp \/ SendD2m \/ TakeCspPayload \/ PollFetchSender \/ PollTransactionRejected
         \/ PollDone \/ SenderFetched \/ ReflectReturns
  PROVE  PipeInv' /\ Incoming' = Incoming /\ Outgoing' = Outgoing
<1>1. HandshakeInv' /\ Incoming' = Incoming /\ expected' = expected /\ acked' = acked
  <2>1. UNCHANGED <<d2m, mediator, d2mIn, expected, acked>>
    BY DEF DriverRuns, SendCsp, SendD2m, TakeCspPayload, PollFetchSender,
           PollTransactionRejected, PollDone, SenderFetched, ReflectReturns, channels
  <2> QED BY <2>1 DEF d2m, mediator, HandshakeInv, PipeInv, Incoming
<1>2. Outgoing' = Outgoing
  <2>1. CASE SendD2m
    BY <2>1, OutgoingMoves
  <2>2. CASE ~SendD2m
    BY <2>2 DEF SendCsp, TakeCspPayload, PollFetchSender,
           PollTransactionRejected, PollDone, SenderFetched, ReflectReturns, channels, Outgoing
  <2> QED BY <2>1, <2>2
<1>3. Pipe' = Pipe
  BY <1>1, <1>2 DEF Pipe
<1>4. Tidy(Pipe) /\ Fits(Pipe, e2ePc, expected \ Range(acked))
  BY DEF PipeInv
<1>5. Fits(Pipe, e2ePc', expected \ Range(acked))
  <2>1. CASE e2ePc' = e2ePc
    BY <1>4, <2>1
  <2>2. CASE e2ePc \in {"idle", "poll", "fetch"}
    BY <1>4, <2>2 DEF Fits
  <2>3. CASE ReflectReturns
    BY <1>4, <2>3, ReflectComplete DEF Fits, ReflectReturns
  <2> QED BY <2>1, <2>2, <2>3 DEF SendCsp, SendD2m, TakeCspPayload, PollFetchSender, Polls,
           PollTransactionRejected, PollDone, SenderFetched
<1> QED BY <1>1, <1>2, <1>3, <1>4, <1>5 DEF PipeInv

\* What the mediator does with what the connection writes, as the pipe sees it.
LEMMA Written ==
  ASSUME TypeInv, PromotionInv, D2mRuns, D2mSend, d2mLink # "closed"
  PROVE  LET p == Head(Outgoing)
         IN /\ Outgoing # <<>> /\ Outgoing' = Tail(Outgoing) /\ p \in D2mOutPayload
            /\ d2mLink' = d2mLink /\ d2mOpen' = d2mOpen
            /\ \/ /\ p.type = "BeginTransaction" /\ reflectLog' = reflectLog
                  /\ holder' = IF holder = "nobody" THEN "client" ELSE holder
                  /\ Incoming' = Append(Incoming, Plain(IF holder = "nobody" THEN "BeginTransactionAck"
                                                        ELSE "TransactionRejected"))
               \/ /\ p.type = "CommitTransaction" /\ reflectLog' = reflectLog
                  /\ holder' = "nobody"
                  /\ Incoming' = Append(Incoming, Plain("CommitTransactionAck"))
               \/ /\ p.type = "Reflect" /\ holder' = holder
                  /\ reflectLog' = Append(reflectLog, [id |-> p.id, holder |-> holder])
                  /\ Incoming' = IF p.ephemeral THEN Incoming
                                 ELSE Append(Incoming, [type |-> "ReflectAck", id |-> p.id])
               \/ /\ p.type = "ReflectedAck" /\ holder' = holder /\ reflectLog' = reflectLog
                  /\ Incoming' = Incoming
<1> DEFINE p == Head(Outgoing)
<1>1. /\ Outgoing # <<>> /\ Outgoing' = Tail(Outgoing) /\ p \in D2mOutPayload
      /\ p = Head(d2mOut)
  <2>1. outD2m' = outD2m
    BY DEF D2mRuns, driver
  <2>2. Outgoing \in Seq(D2mOutPayload)
    BY PipeTypes
  <2> QED BY <2>1, <2>2, OutgoingMoves, HeadTailProperties
<1>2. Incoming' = Incoming \o Answers(p) /\ MediatorReceives(p) /\ d2mOpen' = d2mOpen
  BY <1>1, D2mMoves DEF D2mSend
<1>3. p.type \in {"Reflect", "ReflectedAck", "BeginTransaction", "CommitTransaction"}
      /\ p.ephemeral \in BOOLEAN /\ p.id \in Nat \cup ReflectId
  BY <1>1 DEF D2mOutPayload
<1> HIDE DEF p
<1>4. d2mLink' = d2mLink
  BY <1>2 DEF MediatorReceives
<1>5. /\ holder' = CASE p.type = "BeginTransaction" /\ holder = "nobody" -> "client"
                     [] p.type = "CommitTransaction" -> "nobody"
                     [] OTHER -> holder
      /\ reflectLog' = IF p.type = "Reflect" THEN Append(reflectLog, [id |-> p.id, holder |-> holder])
                                             ELSE reflectLog
  BY <1>2 DEF MediatorReceives
<1>6. /\ Incoming \in Seq(Datagram)
      /\ \A type \in {"BeginTransactionAck", "TransactionRejected", "CommitTransactionAck"} :
           Plain(type) \in Datagram
      /\ [type |-> "ReflectAck", id |-> p.id] \in Datagram
  BY <1>3, IncomingType DEF Plain, Datagram, D2mInPayload
<1>7. CASE p.type = "BeginTransaction"
  <2> DEFINE type == IF holder = "nobody" THEN "BeginTransactionAck" ELSE "TransactionRejected"
  <2>1. Answers(p) = <<Plain(type)>>
    BY <1>7 DEF Answers
  <2>2. Plain(type) \in Datagram
    BY <1>6
  <2>3. Incoming' = Append(Incoming, Plain(type))
    BY <1>2, <1>6, <2>1, <2>2, AppendIsConcat
  <2> QED BY <1>1, <1>2, <1>4, <1>5, <1>7, <2>3 DEF p
<1>8. CASE p.type = "CommitTransaction"
  <2>1. Answers(p) = <<Plain("CommitTransactionAck")>>
    BY <1>8 DEF Answers
  <2>2. Incoming' = Append(Incoming, Plain("CommitTransactionAck"))
    BY <1>2, <1>6, <2>1, AppendIsConcat
  <2> QED BY <1>1, <1>2, <1>4, <1>5, <1>8, <2>2 DEF p
<1>9. CASE p.type = "Reflect" /\ ~p.ephemeral
  <2> DEFINE ack == [type |-> "ReflectAck", id |-> p.id]
  <2>1. Answers(p) = <<ack>> /\ ack \in Datagram
    BY <1>6, <1>9 DEF Answers
  <2> HIDE DEF ack
  <2>2. Incoming' = Append(Incoming, ack)
    BY <1>2, <1>6, <2>1, AppendIsConcat
  <2> QED BY <1>1, <1>2, <1>4, <1>5, <1>9, <2>2 DEF p, ack
<1>10. CASE p.type = "ReflectedAck" \/ (p.type = "Reflect" /\ p.ephemeral)
  <2>1. Answers(p) = <<>>
    BY <1>10 DEF Answers
  <2>2. Incoming' = Incoming
    BY <1>2, <1>6, <2>1, ConcatEmptySeq
  <2> QED BY <1>1, <1>2, <1>4, <1>5, <1>10, <2>2 DEF p
<1> QED BY <1>3, <1>7, <1>8, <1>9, <1>10

LEMMA CompleteD2m ==
  ASSUME TypeInv, PromotionInv, PipeInv, CompleteInv, D2mRuns
  PROVE  CompleteInv'
<1> USE PipeTypes
<1>1. UNCHANGED <<e2ePc, expected, acked, pending, outD2m>>
  BY DEF D2mRuns, driver
<1> SUFFICES ASSUME e2ePc = "commit", NEW id \in expected \ Range(acked)
             PROVE  /\ HasType(Incoming', "CommitTransactionAck") => Awaits(Incoming', id)
                    /\ HasType(Outgoing', "CommitTransaction") /\ Reads' =>
                         Awaits(Incoming', id) \/ Awaits(Outgoing', id)
  BY <1>1 DEF CompleteInv
<1>2. /\ HasType(Incoming, "CommitTransactionAck") => Awaits(Incoming, id)
      /\ HasType(Outgoing, "CommitTransaction") /\ Reads =>
           Awaits(Incoming, id) \/ Awaits(Outgoing, id)
  BY DEF CompleteInv
<1>3. CASE D2mHandshake
  <2>1. Outgoing' = Outgoing /\ (Reads' => Reads)
    BY <1>1, <1>3 DEF D2mHandshake, channels, Outgoing, Reads, TypeInv, TypeOK, D2mTypeOK
  <2>2. CASE Incoming' = Incoming
    BY <1>2, <2>1, <2>2
  <2>3. CASE Incoming # <<>> /\ Head(Incoming) = Head(d2mWire) /\ Incoming' = Tail(Incoming)
    <3>1. Head(d2mWire).type = "Handshake"
      BY <1>3, HandshakeFront DEF PipeInv
    <3>2. Range(Incoming) = {Head(d2mWire)} \cup Range(Incoming')
      BY <2>3, RangeTail
    <3>3. /\ HasType(Incoming', "CommitTransactionAck") => HasType(Incoming, "CommitTransactionAck")
          /\ Awaits(Incoming, id) => Awaits(Incoming', id)
      BY <3>1, <3>2 DEF HasType, Awaits, IsLive
    <3> QED BY <1>2, <2>1, <3>3
  <2> QED BY <1>3, <2>2, <2>3, D2mMoves
<1>4. CASE D2mReceive \/ D2mForward
  <2>1. UNCHANGED <<d2mLink, d2mOpen, d2mOut>>
    BY <1>4 DEF D2mReceive, D2mForward, mediator, channels
  <2>2. Outgoing' = Outgoing /\ Reads' = Reads
    BY <1>1, <2>1 DEF Outgoing, Reads
  <2>3. Incoming' = Incoming
    BY <1>4, D2mMoves
  <2> QED BY <1>2, <2>2, <2>3
<1>5. CASE D2mFlowEnds
  <2>1. ~Reads' /\ Incoming' = Incoming
    BY <1>5, D2mMoves DEF D2mFlowEnds, Reads
  <2> QED BY <1>2, <2>1
<1>6. CASE D2mSend /\ d2mLink = "closed"
  <2>1. ~Reads' /\ Incoming' = Incoming
    BY <1>6, D2mMoves DEF D2mSend, MediatorReceives, Reads
  <2> QED BY <1>2, <2>1
<1>7. CASE D2mSend /\ d2mLink # "closed"
  <2> DEFINE p == Head(Outgoing)
  <2>1. /\ Outgoing # <<>> /\ Outgoing' = Tail(Outgoing) /\ Reads /\ p \in D2mOutPayload
        /\ Incoming \in Seq(Datagram)
    BY <1>7, Written, IncomingType DEF D2mSend, D2mTurn, Reads
  <2>2. Range(Outgoing) = {p} \cup Range(Outgoing')
    BY <2>1, RangeTail
  <2>3. CASE p.type = "CommitTransaction"
    <3> DEFINE ack == Plain("CommitTransactionAck")
    <3>1. Incoming' = Append(Incoming, ack) /\ ack \in Datagram
      BY <1>7, <2>3, Written DEF Plain, Datagram, D2mInPayload
    <3>2. Range(Incoming') = Range(Incoming) \cup {ack}
      BY <2>1, <3>1, RangeAppend
    <3>3. IsCommit(p) /\ ~IsLive(p) /\ HasType(Outgoing, "CommitTransaction")
      BY <2>2, <2>3 DEF IsCommit, IsLive, HasType
    <3>4. ~Awaits(Outgoing, id)
      BY <2>1, <2>2, <3>3, FrontFacts, Kinds DEF Awaits
    <3>5. Awaits(Incoming, id)
      BY <1>2, <2>1, <3>3, <3>4
    <3> QED BY <3>2, <3>5 DEF Awaits
  <2>4. CASE p.type = "Reflect" /\ ~p.ephemeral
    <3> DEFINE ack == [type |-> "ReflectAck", id |-> p.id]
    <3>1. Incoming' = Append(Incoming, ack) /\ ack \in Datagram /\ ack.type = "ReflectAck"
          /\ ack.id = p.id
      BY <1>7, <2>1, <2>4, Written DEF Datagram, D2mInPayload, D2mOutPayload
    <3> HIDE DEF ack
    <3>2. Range(Incoming') = Range(Incoming) \cup {ack}
      BY <2>1, <3>1, RangeAppend
    <3>3. /\ HasType(Incoming', "CommitTransactionAck") => HasType(Incoming, "CommitTransactionAck")
          /\ HasType(Outgoing', "CommitTransaction") => HasType(Outgoing, "CommitTransaction")
      BY <2>2, <3>1, <3>2 DEF HasType
    <3>4. /\ Awaits(Incoming, id) => Awaits(Incoming', id)
          /\ Awaits(Outgoing, id) => Awaits(Incoming', id) \/ Awaits(Outgoing', id)
      <4>1. IsLive(ack)
        BY <3>1 DEF IsLive
      <4> QED BY <2>2, <3>1, <3>2, <4>1 DEF Awaits
    <3> QED BY <1>2, <2>1, <3>3, <3>4
  <2>5. CASE p.type \in {"BeginTransaction", "ReflectedAck"} \/ (p.type = "Reflect" /\ p.ephemeral)
    <3>1. ~IsLive(p)
      BY <2>5 DEF IsLive
    <3>2. Awaits(Outgoing, id) => Awaits(Outgoing', id)
      BY <2>2, <3>1 DEF Awaits
    <3>3. HasType(Outgoing', "CommitTransaction") => HasType(Outgoing, "CommitTransaction")
      BY <2>2 DEF HasType
    <3>4. CASE Incoming' = Incoming
      BY <1>2, <2>1, <3>2, <3>3, <3>4
    <3>5. CASE p.type = "BeginTransaction"
      BY <2>1, <2>2, <3>5, PipeFacts DEF IsBegin
    <3> QED BY <1>7, <2>5, <3>4, <3>5, Written
  <2> QED BY <2>1, <2>3, <2>4, <2>5 DEF D2mOutPayload
<1> QED BY <1>3, <1>4, <1>5, <1>6, <1>7 DEF D2mRuns, D2mNext

\* What the mediator says of its own accord asks for nothing.
LEMMA MediatorSays ==
  ASSUME TypeInv, MediatorActs
  PROVE  /\ UNCHANGED <<driver, channels, d2m, reflectLog>> /\ Outgoing' = Outgoing
         /\ Reads' => Reads
         /\ \/ Incoming' = Incoming /\ SiblingBegins /\ Reads' = Reads
            \/ Incoming' = Incoming /\ holder' = holder /\ ~Reads'
            \/ /\ Reads' = Reads
               /\ \E p \in Datagram :
                    /\ Incoming' = Append(Incoming, p) /\ ~Asks(p)
                    /\ IF SiblingEnds THEN p.type = "TransactionEnded" ELSE holder' = holder
<1>1. /\ UNCHANGED <<driver, channels, d2m>> /\ d2mIn' = d2mIn /\ d2mHand' = d2mHand
      /\ Outgoing' = Outgoing
  BY DEF MediatorActs, driver, channels, d2m, Outgoing
<1>2. reflectLog' = reflectLog
  BY DEF MediatorActs, MediatorPromotes, MediatorRunsDry, MediatorReflects, SiblingBegins,
         SiblingEnds, MediatorCloses
<1>3. CASE SiblingBegins
  <2>1. d2mWire' = d2mWire /\ d2mLink' = d2mLink
    BY <1>3 DEF SiblingBegins
  <2> QED BY <1>1, <1>2, <1>3, <2>1 DEF Incoming, Reads, channels
<1>4. CASE MediatorCloses
  <2>1. d2mWire' = d2mWire /\ d2mLink' = "closed" /\ holder' = holder
    BY <1>4 DEF MediatorCloses
  <2> QED BY <1>1, <1>2, <2>1 DEF Incoming, Reads
<1>5. ASSUME NEW p \in Datagram, Sends(p), ~Asks(p), d2mLink' = d2mLink,
             IF SiblingEnds THEN p.type = "TransactionEnded" ELSE holder' = holder
      PROVE  /\ Reads' = Reads
             /\ \E q \in Datagram :
                  /\ Incoming' = Append(Incoming, q) /\ ~Asks(q)
                  /\ IF SiblingEnds THEN q.type = "TransactionEnded" ELSE holder' = holder
  <2>1. Incoming' = Append(Incoming, p)
    BY <1>1, <1>5, SentLast DEF Sends
  <2> QED BY <1>1, <1>5, <2>1 DEF Reads, channels
<1>6. ASSUME NEW type \in {"RolePromotedToLeader", "ReflectionQueueDry", "TransactionEnded"}
      PROVE  Plain(type) \in Datagram /\ ~Asks(Plain(type)) /\ Plain(type).type = type
  BY DEF Plain, Datagram, D2mInPayload, Asks, IsBegin, IsCommit, IsReflect
<1>7. CASE MediatorPromotes \/ MediatorRunsDry
  <2>1. SiblingEnds => holder' = "nobody" /\ holder = "sibling"
    BY DEF SiblingEnds
  <2>2. d2mLink' = d2mLink /\ holder' = holder
    BY <1>7 DEF MediatorPromotes, MediatorRunsDry
  <2>3. ~SiblingEnds
    BY <2>1, <2>2
  <2> QED BY <1>1, <1>2, <1>5, <1>6, <1>7, <2>2, <2>3 DEF MediatorPromotes, MediatorRunsDry
<1>8. CASE SiblingEnds
  <2>1. d2mLink' = d2mLink /\ Sends(Plain("TransactionEnded"))
    BY <1>8 DEF SiblingEnds
  <2> QED BY <1>1, <1>2, <1>5, <1>6, <1>8, <2>1
<1>9. CASE MediatorReflects
  <2> DEFINE p == [type |-> "Reflected", id |-> reflected + 1]
  <2>1. p \in Datagram /\ ~Asks(p)
    BY MediatorAssumption DEF TypeInv, TypeOK, D2mTypeOK, Datagram, D2mInPayload, Asks, IsBegin,
                              IsCommit, IsReflect
  <2>2. d2mLink' = d2mLink /\ holder' = holder /\ Sends(p) /\ ~SiblingEnds
    BY <1>9 DEF MediatorReflects, SiblingEnds
  <2> HIDE DEF p
  <2> QED BY <1>1, <1>2, <1>5, <2>1, <2>2
<1> QED BY <1>3, <1>4, <1>7, <1>8, <1>9 DEF MediatorActs

LEMMA CompleteKept ==
  ASSUME CompleteInv, UNCHANGED <<e2ePc, expected, acked, pending>>, Outgoing' = Outgoing,
         Reads' => Reads,
         HasType(Incoming', "CommitTransactionAck") => HasType(Incoming, "CommitTransactionAck"),
         \A id : Awaits(Incoming, id) => Awaits(Incoming', id)
  PROVE  CompleteInv'
BY DEF CompleteInv

LEMMA CompleteMediator ==
  ASSUME TypeInv, CompleteInv, MediatorActs
  PROVE  CompleteInv'
<1>1. UNCHANGED <<e2ePc, expected, acked, pending>> /\ Outgoing' = Outgoing /\ (Reads' => Reads)
  BY MediatorSays DEF driver
<1>2. CASE Incoming' = Incoming
  BY <1>1, <1>2, CompleteKept
<1>3. ASSUME NEW p \in Datagram, Incoming' = Append(Incoming, p), ~Asks(p)
      PROVE  CompleteInv'
  <2>1. Range(Incoming') = Range(Incoming) \cup {p}
    BY <1>3, IncomingType, RangeAppend
  <2>2. /\ HasType(Incoming', "CommitTransactionAck") => HasType(Incoming, "CommitTransactionAck")
        /\ \A id : Awaits(Incoming, id) => Awaits(Incoming', id)
    BY <1>3, <2>1 DEF HasType, Awaits, Asks, IsCommit
  <2> QED BY <1>1, <2>2, CompleteKept
<1> QED BY <1>2, <1>3, MediatorSays

LEMMA CompleteConnect ==
  ASSUME TypeInv, TypeInv', PipeInv, CompleteInv, ConnectD2m
  PROVE  CompleteInv'
<1> DEFINE p == Plain("Handshake")
<1>1. UNCHANGED <<e2ePc, expected, acked, pending>> /\ Outgoing' = Outgoing /\ Reads' = Reads
  BY PipeInvConnect DEF ConnectD2m, D2mConnect, driver, channels, Reads
<1>2. CASE Incoming' = Incoming
  BY <1>1, <1>2, CompleteKept
<1>3. CASE Incoming' = Append(Incoming, p)
  <2>1. p \in Datagram /\ p.type = "Handshake"
    BY DEF Plain, Datagram
  <2> HIDE DEF p
  <2>2. Range(Incoming') = Range(Incoming) \cup {p}
    BY <1>3, <2>1, IncomingType, RangeAppend
  <2>3. /\ HasType(Incoming', "CommitTransactionAck") => HasType(Incoming, "CommitTransactionAck")
        /\ \A id : Awaits(Incoming, id) => Awaits(Incoming', id)
    BY <2>1, <2>2 DEF HasType, Awaits
  <2> QED BY <1>1, <2>3, CompleteKept
<1> QED BY <1>2, <1>3, PipeInvConnect

LEMMA CompleteTakes ==
  ASSUME TypeInv, PipeInv, CompleteInv, DriverRuns, OnD2m
  PROVE  CompleteInv'
<1> DEFINE p == Head(d2mIn)
<1>1. /\ Incoming # <<>> /\ Head(Incoming) = p /\ Incoming' = Tail(Incoming)
      /\ \/ Outgoing' = Outgoing
         \/ \E ack \in D2mOutPayload : ack.type = "ReflectedAck" /\ Outgoing' = Append(Outgoing, ack)
  BY PipeTake
<1>2. Range(Incoming) = {p} \cup Range(Incoming')
  BY <1>1, PipeTypes, RangeTail
<1>3. Reads' = Reads /\ d2mIn # <<>> /\ p \in D2mInPayload
  <2>1. UNCHANGED <<d2mOpen, d2mLink>> /\ d2mIn # <<>>
    BY DEF DriverRuns, mediator, OnD2m, OnBeginReply, OnTransactionEnded, OnCommitAck, OnReflectAck,
           OnPromotion, OnReflected, DropUnsolicited, Receives
  <2>2. p \in D2mInPayload
    BY <2>1, HeadTailProperties DEF TypeInv, TypeOK, WiringTypeOK
  <2> QED BY <2>1, <2>2 DEF Reads
<1> HIDE DEF p
<1>4. CASE \/ OnTransactionEnded \/ OnCommitAck
           \/ \E type \in {"BeginTransactionAck", "TransactionRejected"} : OnBeginReply(type)
  <2>1. e2ePc' = "poll" /\ expected' = expected
    BY <1>4 DEF OnTransactionEnded, OnCommitAck, OnBeginReply
  <2> QED BY <2>1 DEF CompleteInv
<1>5. CASE OnReflectAck
  <2>1. /\ e2ePc \in {"commit", "reflect"} /\ UNCHANGED <<e2ePc, expected>>
        /\ acked' = Append(acked, p.id) /\ p.type = "ReflectAck"
        /\ pending' = IF e2ePc = "reflect" THEN pending - 1 ELSE pending
        /\ Outgoing' = Outgoing
    <3>1. ~OnReflected
      BY <1>5 DEF OnReflectAck, OnReflected, Receives
    <3> QED BY <1>5, <3>1, PipeTake DEF OnReflectAck, Receives, p
  <2>2. IsLive(p) /\ p.id \in expected \ Range(acked)
    BY <1>2, <2>1, PipeFacts DEF IsLive
  <2>3. acked \in Seq(Nat \cup ReflectId) /\ p.id \in Nat \cup ReflectId /\ pending \in Nat
    BY <1>3, AckedTypes DEF D2mInPayload
  <2>4. /\ Range(acked') = Range(acked) \cup {p.id} /\ Len(acked') = Len(acked) + 1
        /\ Len(acked) \in Nat /\ acked'[Len(acked) + 1] = p.id
        /\ \A i \in 1..Len(acked) : acked'[i] = acked[i]
    BY <2>1, <2>3, RangeAppend, AppendProperties, LenProperties
  <2>5. \A i \in 1..Len(acked) : acked[i] # p.id
    <3>1. DOMAIN acked = 1..Len(acked)
      BY <2>3, LenProperties
    <3> QED BY <2>2, <3>1 DEF Range
  <2>6. \A i, j \in 1..Len(acked') : acked'[i] = acked'[j] => i = j
    <3>1. \A i \in 1..Len(acked') : i \in 1..Len(acked) \/ i = Len(acked) + 1
      BY <2>4
    <3>2. \A i, j \in 1..Len(acked) : acked[i] = acked[j] => i = j
      BY <2>1 DEF CompleteInv
    <3> QED BY <2>4, <2>5, <3>1, <3>2
  <2>7. Range(acked') \subseteq expected'
    BY <2>1, <2>2, <2>4 DEF CompleteInv
  <2>8. e2ePc = "reflect" => pending' + Len(acked') = Cardinality(expected')
    BY <2>1, <2>3, <2>4 DEF CompleteInv
  <2>9. ASSUME e2ePc = "commit", NEW id \in expected' \ Range(acked')
        PROVE  /\ HasType(Incoming', "CommitTransactionAck") => Awaits(Incoming', id)
               /\ HasType(Outgoing', "CommitTransaction") /\ Reads' =>
                    Awaits(Incoming', id) \/ Awaits(Outgoing', id)
    <3>1. id \in expected \ Range(acked) /\ id # p.id
      BY <2>1, <2>4, <2>9
    <3>2. /\ HasType(Incoming', "CommitTransactionAck") => HasType(Incoming, "CommitTransactionAck")
          /\ Awaits(Incoming, id) => Awaits(Incoming', id)
      BY <1>2, <3>1 DEF HasType, Awaits
    <3> QED BY <1>3, <2>1, <2>9, <3>1, <3>2 DEF CompleteInv
  <2> QED BY <2>1, <2>6, <2>7, <2>8, <2>9 DEF CompleteInv
<1>6. CASE OnPromotion \/ OnReflected \/ DropUnsolicited
  <2>1. UNCHANGED <<e2ePc, expected, acked, pending>>
    BY <1>6 DEF OnPromotion, OnReflected, DropUnsolicited, driver
  <2> SUFFICES ASSUME e2ePc = "commit", NEW id \in expected \ Range(acked)
               PROVE  /\ HasType(Incoming', "CommitTransactionAck") => Awaits(Incoming', id)
                      /\ HasType(Outgoing', "CommitTransaction") /\ Reads' =>
                           Awaits(Incoming', id) \/ Awaits(Outgoing', id)
    BY <2>1 DEF CompleteInv
  <2>2. p.type # "ReflectAck" /\ p.type # "Reflect"
    BY <1>3, <1>6 DEF OnPromotion, OnReflected, DropUnsolicited, Receives, Awaited, p, D2mInPayload
  <2>3. /\ HasType(Incoming', "CommitTransactionAck") => HasType(Incoming, "CommitTransactionAck")
        /\ Awaits(Incoming, id) => Awaits(Incoming', id)
    BY <1>2, <2>2 DEF HasType, Awaits, IsLive
  <2>4. /\ HasType(Outgoing', "CommitTransaction") => HasType(Outgoing, "CommitTransaction")
        /\ Awaits(Outgoing, id) => Awaits(Outgoing', id)
    <3>1. CASE Outgoing' = Outgoing
      BY <3>1
    <3>2. ASSUME NEW ack \in D2mOutPayload, ack.type = "ReflectedAck", Outgoing' = Append(Outgoing, ack)
          PROVE  /\ HasType(Outgoing', "CommitTransaction") => HasType(Outgoing, "CommitTransaction")
                 /\ Awaits(Outgoing, id) => Awaits(Outgoing', id)
      <4>1. Range(Outgoing') = Range(Outgoing) \cup {ack}
        BY <3>2, PipeTypes, RangeAppend
      <4> QED BY <3>2, <4>1 DEF HasType, Awaits
    <3> QED BY <1>1, <3>1, <3>2
  <2> QED BY <1>3, <2>3, <2>4 DEF CompleteInv
<1> QED BY <1>4, <1>5, <1>6 DEF OnD2m

LEMMA CompletePolls ==
  ASSUME TypeInv, PipeInv, CompleteInv, DriverRuns,
         PollBeginTransaction \/ PollAbortTransaction \/ PollReflectAndCommit \/ PollReflectMessage
  PROVE  CompleteInv'
<1>1. e2ePc = "poll" /\ outD2m = <<>> /\ UNCHANGED <<d2mIn, d2mOut>>
  BY DEF PollBeginTransaction, PollAbortTransaction, PollReflectAndCommit, PollReflectMessage, Polls,
         Quiet, channels
<1>2. CASE PollBeginTransaction \/ PollAbortTransaction
  <2>1. e2ePc' \in {"begin", "abort"} /\ expected' = expected
    BY <1>2 DEF PollBeginTransaction, PollAbortTransaction
  <2> QED BY <2>1 DEF CompleteInv
<1>3. CASE PollReflectAndCommit
  <2>1. PICK batch \in Seq(D2mOutPayload), commit \in D2mOutPayload :
           /\ outD2m' = Append(batch, commit)
           /\ \A id \in expected' : Awaits(batch, id)
           /\ IsFiniteSet(expected')
    BY <1>3, ReflectAndCommitSends
  <2>2. outD2m' \in Seq(D2mOutPayload)
    BY <2>1, AppendProperties
  <2>3. Incoming' = Incoming /\ Outgoing' = Outgoing \o outD2m'
    BY <1>1, <2>2, PipeGrows
  <2>4. Range(outD2m') = Range(batch) \cup {commit}
    BY <2>1, RangeAppend
  <2>5. Range(Outgoing') = Range(Outgoing) \cup Range(outD2m')
    BY <2>2, <2>3, PipeTypes, RangeConcat
  <2>6. ~HasType(Incoming, "CommitTransactionAck")
    BY <1>1, PipeFacts DEF HasType, IsCommit
  <2>7. \A id \in expected' : Awaits(Outgoing', id)
    BY <2>1, <2>4, <2>5 DEF Awaits
  <2>8. e2ePc' = "commit" /\ acked' = <<>> /\ Range(acked') = {} /\ Len(acked') = 0
    BY <1>3, RangeOfNothing DEF PollReflectAndCommit
  <2> QED BY <2>1, <2>3, <2>6, <2>7, <2>8 DEF CompleteInv
<1>4. CASE PollReflectMessage
  <2>1. e2ePc' = "reflect" /\ acked' = <<>> /\ Range(acked') = {} /\ Len(acked') = 0
    BY <1>4, RangeOfNothing DEF PollReflectMessage
  <2>2. IsFiniteSet(expected') /\ pending' = Cardinality(expected')
    BY <1>4, ReflectSends
  <2>3. Cardinality(expected') \in Nat
    BY <2>2, FS_CardinalityType
  <2> QED BY <2>1, <2>2, <2>3 DEF CompleteInv
<1> QED BY <1>2, <1>3, <1>4

LEMMA CompleteOthers ==
  ASSUME TypeInv, PipeInv, CompleteInv, DriverRuns,
         \/ SendCsp \/ SendD2m \/ TakeCspPayload \/ PollFetchSender \/ PollTransactionRejected
         \/ PollDone \/ SenderFetched \/ ReflectReturns
  PROVE  CompleteInv'
<1>1. Incoming' = Incoming /\ Outgoing' = Outgoing
  BY PipeInvOthers
<1>2. UNCHANGED <<expected, acked, pending>> /\ Reads' = Reads
  <2>1. UNCHANGED <<expected, acked, pending, d2mOpen, d2mLink>>
    BY DEF DriverRuns, mediator, SendCsp, SendD2m, TakeCspPayload, PollFetchSender,
           PollTransactionRejected, PollDone, SenderFetched, ReflectReturns, channels
  <2> QED BY <2>1 DEF Reads
<1>3. e2ePc' = e2ePc \/ e2ePc' \in {"idle", "poll", "fetch", "rejected"}
  BY DEF SendCsp, SendD2m, TakeCspPayload, PollFetchSender, PollTransactionRejected, PollDone,
         SenderFetched, ReflectReturns
<1>4. CASE e2ePc' = e2ePc
  BY <1>1, <1>2, <1>4, CompleteKept
<1>5. CASE e2ePc' \in {"idle", "poll", "fetch", "rejected"}
  BY <1>2, <1>5 DEF CompleteInv
<1> QED BY <1>3, <1>4, <1>5

-----------------------------------------------------------------------------
(* Who holds the transaction.                                              *)

\* A step that neither grants nor ends a transaction.
LEMMA HolderKept ==
  ASSUME HolderInv, UNCHANGED <<holder, reflectLog>>, Reads' => Reads,
         txn' # "none" => e2ePc' \in {"poll", "rejected"},
         e2ePc' = "rejected" => txn' = "rejected",
         txn' = "granted" <=> txn = "granted",
         HasType(Incoming', "BeginTransactionAck") <=> HasType(Incoming, "BeginTransactionAck"),
         HasType(Outgoing', "CommitTransaction") => HasType(Outgoing, "CommitTransaction"),
         Reads' /\ HasType(Outgoing, "CommitTransaction") => HasType(Outgoing', "CommitTransaction"),
         \A p \in Range(Outgoing') : p \in Range(Outgoing) \/ ~IsContact(p)
  PROVE  HolderInv'
<1>1. (Granted' => Granted) /\ (Reads' /\ Granted => Granted')
  BY DEF Granted
<1>2. \A entry \in Range(reflectLog') :
        entry.id[2] \in ContactStages => entry.holder = "client"
  BY DEF HolderInv
<1>3. \A p \in Range(Outgoing') : IsContact(p) => holder' = "client"
  BY DEF HolderInv
<1> QED BY <1>1, <1>2, <1>3 DEF HolderInv

\* While the driver waits to begin, or has asked for the commit, nothing else
\* shows a grant.
LEMMA NotGranted ==
  ASSUME TypeInv, PipeInv, HolderInv
  PROVE  /\ e2ePc = "begin" /\ Granted => HasType(Incoming, "BeginTransactionAck")
         /\ HasType(Outgoing, "BeginTransaction") => ~Granted
         /\ HasType(Outgoing, "CommitTransaction") =>
              txn = "none" /\ ~HasType(Incoming, "BeginTransactionAck")
<1>1. /\ HasType(Incoming, "BeginTransactionAck") => e2ePc = "begin"
      /\ HasType(Outgoing, "BeginTransaction") =>
           e2ePc = "begin" /\ ~HasType(Incoming, "BeginTransactionAck")
      /\ HasType(Outgoing, "CommitTransaction") => e2ePc \in {"abort", "commit"}
  BY PipeFacts DEF HasType, IsBegin, IsCommit
<1>2. e2ePc \in {"begin", "abort", "commit"} => txn = "none"
  BY DEF HolderInv
<1> QED BY <1>1, <1>2 DEF Granted

LEMMA HolderD2m ==
  ASSUME TypeInv, PromotionInv, PipeInv, HolderInv, D2mRuns
  PROVE  HolderInv'
<1> USE PipeTypes
<1>1. UNCHANGED <<e2ePc, txn, outD2m>>
  BY DEF D2mRuns, driver
<1>2. ASSUME UNCHANGED <<holder, reflectLog>>, Reads' => Reads,
             HasType(Incoming', "BeginTransactionAck") <=> HasType(Incoming, "BeginTransactionAck"),
             HasType(Outgoing', "CommitTransaction") => HasType(Outgoing, "CommitTransaction"),
             Reads' /\ HasType(Outgoing, "CommitTransaction") => HasType(Outgoing', "CommitTransaction"),
             Range(Outgoing') \subseteq Range(Outgoing)
      PROVE  HolderInv'
  BY <1>1, <1>2, HolderKept DEF HolderInv
<1>3. CASE D2mHandshake
  <2>1. Outgoing' = Outgoing /\ (Reads' => Reads) /\ UNCHANGED <<holder, reflectLog>>
    BY <1>1, <1>3 DEF D2mHandshake, channels, Outgoing, Reads, TypeInv, TypeOK, D2mTypeOK
  <2>2. CASE Incoming' = Incoming
    BY <1>2, <2>1, <2>2
  <2>3. CASE Incoming # <<>> /\ Head(Incoming) = Head(d2mWire) /\ Incoming' = Tail(Incoming)
    <3>1. Head(d2mWire).type = "Handshake"
      BY <1>3, HandshakeFront DEF PipeInv
    <3>2. Range(Incoming) = {Head(d2mWire)} \cup Range(Incoming')
      BY <2>3, RangeTail
    <3>3. HasType(Incoming', "BeginTransactionAck") <=> HasType(Incoming, "BeginTransactionAck")
      BY <3>1, <3>2 DEF HasType
    <3> QED BY <1>2, <2>1, <3>3
  <2> QED BY <1>3, <2>2, <2>3, D2mMoves
<1>4. CASE D2mReceive \/ D2mForward
  <2>1. UNCHANGED <<d2mLink, d2mOpen, d2mOut, holder, reflectLog>>
    BY <1>4 DEF D2mReceive, D2mForward, mediator, channels
  <2>2. Outgoing' = Outgoing /\ Reads' = Reads
    BY <1>1, <2>1 DEF Outgoing, Reads
  <2>3. Incoming' = Incoming
    BY <1>4, D2mMoves
  <2> QED BY <1>2, <2>1, <2>2, <2>3
<1>5. CASE D2mFlowEnds
  <2>1. ~Reads' /\ Incoming' = Incoming /\ UNCHANGED <<holder, reflectLog>>
    BY <1>5, D2mMoves DEF D2mFlowEnds, Reads, mediator
  <2>2. Outgoing' = outD2m
    BY <1>1, <1>5, OutgoingMoves
  <2>3. Range(Outgoing) = Range(d2mOut) \cup Range(outD2m)
    BY RangeConcat DEF Outgoing
  <2>4. HasType(Outgoing', "CommitTransaction") => HasType(Outgoing, "CommitTransaction")
    BY <2>2, <2>3 DEF HasType
  <2> QED BY <1>2, <2>1, <2>2, <2>3, <2>4
<1>6. CASE D2mSend /\ d2mLink = "closed"
  <2>1. ~Reads' /\ Incoming' = Incoming /\ UNCHANGED <<holder, reflectLog>>
    BY <1>6, D2mMoves DEF D2mSend, MediatorReceives, Reads
  <2>2. Outgoing # <<>> /\ Outgoing' = Tail(Outgoing)
    BY <1>1, <1>6, OutgoingMoves
  <2>3. Range(Outgoing) = {Head(Outgoing)} \cup Range(Outgoing')
    BY <2>2, RangeTail
  <2>4. HasType(Outgoing', "CommitTransaction") => HasType(Outgoing, "CommitTransaction")
    BY <2>3 DEF HasType
  <2> QED BY <1>2, <2>1, <2>3, <2>4
<1>7. CASE D2mSend /\ d2mLink # "closed"
  <2> DEFINE p == Head(Outgoing)
  <2>1. /\ Outgoing # <<>> /\ Outgoing' = Tail(Outgoing) /\ p \in D2mOutPayload
        /\ Reads /\ Reads' = Reads
    BY <1>7, Written DEF D2mSend, D2mTurn, Reads
  <2>2. Range(Outgoing) = {p} \cup Range(Outgoing')
    BY <2>1, RangeTail
  <2>3. ASSUME NEW q \in Datagram, Incoming' = Append(Incoming, q)
        PROVE  Range(Incoming') = Range(Incoming) \cup {q}
    BY <2>3, IncomingType, RangeAppend
  <2>4. \A type \in {"BeginTransactionAck", "TransactionRejected", "CommitTransactionAck"} :
          Plain(type) \in Datagram /\ Plain(type).type = type
    BY DEF Plain, Datagram, D2mInPayload
  <2>5. CASE p.type = "BeginTransaction" /\ holder = "nobody"
    <3>1. /\ holder' = "client" /\ reflectLog' = reflectLog
          /\ Incoming' = Append(Incoming, Plain("BeginTransactionAck"))
      BY <1>7, <2>5, Written
    <3>2. Range(Incoming') = Range(Incoming) \cup {Plain("BeginTransactionAck")}
      BY <2>3, <2>4, <3>1
    <3>3. HasType(Incoming', "BeginTransactionAck")
      BY <2>4, <3>2 DEF HasType
    <3> QED BY <1>1, <3>1, <3>3 DEF HolderInv, Granted
  <2>6. CASE p.type = "BeginTransaction" /\ holder # "nobody"
    <3>1. /\ UNCHANGED <<holder, reflectLog>>
          /\ Incoming' = Append(Incoming, Plain("TransactionRejected"))
      BY <1>7, <2>6, Written
    <3>2. Range(Incoming') = Range(Incoming) \cup {Plain("TransactionRejected")}
      BY <2>3, <2>4, <3>1
    <3>3. /\ HasType(Incoming', "BeginTransactionAck") <=> HasType(Incoming, "BeginTransactionAck")
          /\ HasType(Outgoing', "CommitTransaction") <=> HasType(Outgoing, "CommitTransaction")
      BY <2>2, <2>4, <2>6, <3>2 DEF HasType
    <3> QED BY <1>2, <2>1, <2>2, <3>1, <3>3
  <2>7. CASE p.type = "CommitTransaction"
    <3>1. /\ holder' = "nobody" /\ reflectLog' = reflectLog
          /\ Incoming' = Append(Incoming, Plain("CommitTransactionAck"))
      BY <1>7, <2>7, Written
    <3>2. Range(Incoming') = Range(Incoming) \cup {Plain("CommitTransactionAck")}
      BY <2>3, <2>4, <3>1
    <3>3. HasType(Outgoing, "CommitTransaction")
      BY <2>2, <2>7 DEF HasType
    <3>4. txn = "none" /\ ~HasType(Incoming', "BeginTransactionAck")
      BY <2>4, <3>2, <3>3, NotGranted DEF HasType
    <3>5. \A q \in Range(Outgoing') : ~IsCommit(q) /\ ~IsReflect(q)
      <4>1. IsCommit(p)
        BY <2>7 DEF IsCommit
      <4> QED BY <2>1, <4>1, FrontFacts
    <3>6. ~Granted' /\ \A q \in Range(Outgoing') : ~IsContact(q)
      BY <1>1, <3>4, <3>5 DEF Granted, HasType, IsContact, IsCommit, IsReflect
    <3> QED BY <1>1, <3>1, <3>6 DEF HolderInv
  <2>8. CASE p.type = "Reflect"
    <3> DEFINE entry == [id |-> p.id, holder |-> holder]
               ack == [type |-> "ReflectAck", id |-> p.id]
    <3>1. /\ holder' = holder /\ reflectLog' = Append(reflectLog, entry)
          /\ Incoming' = Incoming \/ Incoming' = Append(Incoming, ack)
      BY <1>7, <2>8, Written
    <3>2. ack \in Datagram /\ ack.type = "ReflectAck"
      BY <2>1 DEF Datagram, D2mInPayload, D2mOutPayload
    <3> DEFINE Entry == [id: Nat \cup ReflectId, holder: {"nobody", "client", "sibling"}]
    <3>3. /\ entry \in Entry /\ reflectLog \in Seq(Entry)
          /\ entry.id = p.id /\ entry.holder = holder
      BY <2>1 DEF TypeInv, TypeOK, D2mTypeOK, D2mOutPayload
    <3> HIDE DEF ack, entry, Entry
    <3>4. Range(reflectLog') = Range(reflectLog) \cup {entry}
      BY <3>1, <3>3, RangeAppend
    <3>5. HasType(Incoming', "BeginTransactionAck") <=> HasType(Incoming, "BeginTransactionAck")
      <4>1. CASE Incoming' = Append(Incoming, ack)
        <5>1. Range(Incoming') = Range(Incoming) \cup {ack}
          BY <2>3, <3>2, <4>1
        <5> QED BY <3>2, <5>1 DEF HasType
      <4> QED BY <3>1, <4>1
    <3>6. HasType(Outgoing', "CommitTransaction") <=> HasType(Outgoing, "CommitTransaction")
      BY <2>2, <2>8 DEF HasType
    <3>7. Granted' <=> Granted
      BY <1>1, <3>5, <3>6 DEF Granted
    <3>8. IsContact(p) => holder = "client"
      BY <2>2 DEF HolderInv
    <3>9. \A e \in Range(reflectLog') : e.id[2] \in ContactStages => e.holder = "client"
      BY <2>8, <3>3, <3>4, <3>8 DEF HolderInv, IsContact
    <3>10. \A q \in Range(Outgoing') : IsContact(q) => holder' = "client"
      BY <2>2, <3>1 DEF HolderInv
    <3> QED BY <1>1, <2>1, <3>1, <3>7, <3>9, <3>10 DEF HolderInv
  <2>9. CASE p.type = "ReflectedAck"
    <3>1. UNCHANGED <<holder, reflectLog>> /\ Incoming' = Incoming
      BY <1>7, <2>9, Written
    <3>2. HasType(Outgoing', "CommitTransaction") <=> HasType(Outgoing, "CommitTransaction")
      BY <2>2, <2>9 DEF HasType
    <3> QED BY <1>2, <2>1, <2>2, <3>1, <3>2
  <2> QED BY <2>1, <2>5, <2>6, <2>7, <2>8, <2>9 DEF D2mOutPayload
<1> QED BY <1>3, <1>4, <1>5, <1>6, <1>7 DEF D2mRuns, D2mNext

LEMMA HolderMediator ==
  ASSUME TypeInv, HolderInv, MediatorActs
  PROVE  HolderInv'
<1>1. UNCHANGED <<e2ePc, txn, reflectLog>> /\ Outgoing' = Outgoing /\ (Reads' => Reads)
  BY MediatorSays DEF driver
<1>2. CASE Incoming' = Incoming /\ SiblingBegins
  <2>1. holder = "nobody" /\ holder' = "sibling"
    BY <1>2 DEF SiblingBegins
  <2>2. Granted' <=> Granted
    BY <1>1, <1>2 DEF Granted
  <2> QED BY <1>1, <2>1, <2>2 DEF HolderInv
<1>3. CASE Incoming' = Incoming /\ holder' = holder
  BY <1>1, <1>3, HolderKept DEF HolderInv
<1>4. ASSUME NEW p \in Datagram, Incoming' = Append(Incoming, p), ~Asks(p),
             IF SiblingEnds THEN p.type = "TransactionEnded" ELSE holder' = holder
      PROVE  HolderInv'
  <2>1. Range(Incoming') = Range(Incoming) \cup {p}
    BY <1>4, IncomingType, RangeAppend
  <2>2. HasType(Incoming', "BeginTransactionAck") <=> HasType(Incoming, "BeginTransactionAck")
    BY <1>4, <2>1 DEF HasType, Asks, IsBegin
  <2>3. CASE SiblingEnds
    <3>1. holder = "sibling" /\ holder' = "nobody"
      BY <2>3 DEF SiblingEnds
    <3>2. Granted' <=> Granted
      BY <1>1, <2>2 DEF Granted
    <3> QED BY <1>1, <3>1, <3>2 DEF HolderInv
  <2>4. CASE ~SiblingEnds
    BY <1>1, <1>4, <2>2, <2>4, HolderKept DEF HolderInv
  <2> QED BY <2>3, <2>4
<1> QED BY <1>2, <1>3, <1>4, MediatorSays

LEMMA HolderConnect ==
  ASSUME TypeInv, TypeInv', PipeInv, HolderInv, ConnectD2m
  PROVE  HolderInv'
<1> DEFINE p == Plain("Handshake")
<1>1. /\ UNCHANGED <<e2ePc, txn, holder, reflectLog>> /\ Outgoing' = Outgoing /\ Reads' = Reads
  BY PipeInvConnect DEF ConnectD2m, D2mConnect, driver, channels, Reads
<1>2. HasType(Incoming', "BeginTransactionAck") <=> HasType(Incoming, "BeginTransactionAck")
  <2>1. CASE Incoming' = Append(Incoming, p)
    <3>1. p \in Datagram /\ p.type = "Handshake"
      BY DEF Plain, Datagram
    <3> HIDE DEF p
    <3>2. Range(Incoming') = Range(Incoming) \cup {p}
      BY <2>1, <3>1, IncomingType, RangeAppend
    <3> QED BY <3>1, <3>2 DEF HasType
  <2> QED BY <2>1, PipeInvConnect
<1> QED BY <1>1, <1>2, HolderKept DEF HolderInv

\* Each answer to a begin grants or refuses, whatever else is on its way.
LEMMA HolderTakes ==
  ASSUME TypeInv, PipeInv, HolderInv, DriverRuns, OnD2m
  PROVE  HolderInv'
<1> DEFINE p == Head(d2mIn)
<1>1. /\ Incoming # <<>> /\ Head(Incoming) = p /\ Incoming' = Tail(Incoming)
      /\ \/ Outgoing' = Outgoing
         \/ \E ack \in D2mOutPayload : ack.type = "ReflectedAck" /\ Outgoing' = Append(Outgoing, ack)
  BY PipeTake
<1>2. Range(Incoming) = {p} \cup Range(Incoming')
  BY <1>1, PipeTypes, RangeTail
<1>3. Reads' = Reads /\ UNCHANGED <<holder, reflectLog>>
  <2>1. UNCHANGED <<d2mOpen, d2mLink, holder, reflectLog>>
    BY DEF DriverRuns, mediator, OnD2m, OnBeginReply, OnTransactionEnded, OnCommitAck, OnReflectAck,
           OnPromotion, OnReflected, DropUnsolicited
  <2> QED BY <2>1 DEF Reads
<1>4. /\ HasType(Outgoing', "CommitTransaction") <=> HasType(Outgoing, "CommitTransaction")
      /\ \A q \in Range(Outgoing') : q \in Range(Outgoing) \/ ~IsContact(q)
  <2>1. CASE Outgoing' = Outgoing
    BY <2>1
  <2>2. ASSUME NEW ack \in D2mOutPayload, ack.type = "ReflectedAck", Outgoing' = Append(Outgoing, ack)
        PROVE  /\ HasType(Outgoing', "CommitTransaction") <=> HasType(Outgoing, "CommitTransaction")
               /\ \A q \in Range(Outgoing') : q \in Range(Outgoing) \/ ~IsContact(q)
    <3>1. Range(Outgoing') = Range(Outgoing) \cup {ack}
      BY <2>2, PipeTypes, RangeAppend
    <3> QED BY <2>2, <3>1 DEF HasType, IsContact
  <2> QED BY <1>1, <2>1, <2>2
<1> HIDE DEF p
<1>5. CASE OnBeginReply("BeginTransactionAck")
  <2>1. p.type = "BeginTransactionAck" /\ e2ePc' = "poll" /\ txn' = "granted"
    BY <1>5 DEF OnBeginReply, Receives, p
  <2>2. HasType(Incoming, "BeginTransactionAck")
    BY <1>2, <2>1 DEF HasType
  <2>3. holder = "client" /\ Granted'
    BY <2>1, <2>2 DEF HolderInv, Granted
  <2> QED BY <1>3, <2>1, <2>3 DEF HolderInv
<1>6. CASE OnBeginReply("TransactionRejected")
  <2>1. p.type = "TransactionRejected" /\ e2ePc = "begin" /\ e2ePc' = "poll" /\ txn' = "rejected"
    BY <1>6 DEF OnBeginReply, Receives, p
  <2>2. ~HasType(Incoming, "BeginTransactionAck")
    <3>1. IsBegin(p)
      BY <2>1 DEF IsBegin
    <3> QED BY <1>1, <1>2, <2>1, <3>1, FrontFacts DEF HasType, IsBegin
  <2>3. ~Granted
    BY <2>1, <2>2, NotGranted
  <2>4. ~Granted'
    BY <1>2, <1>4, <2>1, <2>3 DEF Granted, HasType
  <2> QED BY <1>3, <1>4, <2>1, <2>3, <2>4 DEF HolderInv
<1>7. ASSUME p.type # "BeginTransactionAck",
             txn' # "none" => e2ePc' \in {"poll", "rejected"},
             e2ePc' = "rejected" => txn' = "rejected",
             txn' = "granted" <=> txn = "granted"
      PROVE  HolderInv'
  <2>1. HasType(Incoming', "BeginTransactionAck") <=> HasType(Incoming, "BeginTransactionAck")
    BY <1>2, <1>7 DEF HasType
  <2> QED BY <1>3, <1>4, <1>7, <2>1, HolderKept
<1>8. CASE OnTransactionEnded
  BY <1>7, <1>8 DEF OnTransactionEnded, Receives, HolderInv, p
<1>9. CASE OnCommitAck \/ OnReflectAck
  BY <1>7, <1>9 DEF OnCommitAck, OnReflectAck, Receives, HolderInv, p
<1>10. CASE OnPromotion \/ OnReflected \/ DropUnsolicited
  <2>1. UNCHANGED <<e2ePc, txn>>
    BY <1>10 DEF OnPromotion, OnReflected, DropUnsolicited, driver
  <2>2. p.type # "BeginTransactionAck"
    <3>1. p.type = "BeginTransactionAck" => e2ePc # "begin"
      BY <1>10 DEF OnPromotion, OnReflected, DropUnsolicited, Receives, Awaited, p
    <3> QED BY <1>2, <3>1, PipeFacts DEF IsBegin
  <2> QED BY <1>7, <2>1, <2>2 DEF HolderInv
<1> QED BY <1>5, <1>6, <1>8, <1>9, <1>10 DEF OnD2m

LEMMA HolderPolls ==
  ASSUME TypeInv, PipeInv, HolderInv, DriverRuns,
         PollBeginTransaction \/ PollAbortTransaction \/ PollReflectAndCommit \/ PollReflectMessage
  PROVE  HolderInv'
<1>1. /\ e2ePc = "poll" /\ outD2m = <<>> /\ UNCHANGED <<d2mIn, d2mOut, holder, reflectLog>>
      /\ Reads' = Reads
  <2>1. e2ePc = "poll" /\ outD2m = <<>> /\ UNCHANGED <<channels, holder, reflectLog, d2mLink>>
    BY DEF PollBeginTransaction, PollAbortTransaction, PollReflectAndCommit, PollReflectMessage, Polls,
         Quiet, DriverRuns, mediator
  <2> QED BY <2>1 DEF channels, Reads
<1>2. ASSUME outD2m' \in Seq(D2mOutPayload)
      PROVE  Incoming' = Incoming /\ Range(Outgoing') = Range(Outgoing) \cup Range(outD2m')
  <2>1. Incoming' = Incoming /\ Outgoing' = Outgoing \o outD2m'
    BY <1>1, <1>2, PipeGrows
  <2> QED BY <1>2, <2>1, PipeTypes, RangeConcat
<1>3. \A type \in {"BeginTransaction", "CommitTransaction"} :
        /\ <<Out(type)>> \in Seq(D2mOutPayload) /\ Range(<<Out(type)>>) = {Out(type)}
        /\ Out(type).type = type
  <2>1. FALSE \in BOOLEAN
    BY Zenon
  <2>2. \A type \in {"BeginTransaction", "CommitTransaction"} :
          Out(type) \in D2mOutPayload /\ Out(type).type = type
    BY <2>1 DEF Out, D2mOutPayload
  <2>3. \A p \in D2mOutPayload : <<p>> \in Seq(D2mOutPayload) /\ Range(<<p>>) = {p}
    <3> TAKE p \in D2mOutPayload
    <3> DEFINE one == <<p>>
    <3>1. DOMAIN one = {1} /\ one[1] = p /\ one \in Seq(D2mOutPayload)
      OBVIOUS
    <3> HIDE DEF one
    <3>2. Range(one) = {p}
      BY <3>1 DEF Range
    <3> QED BY <3>1, <3>2 DEF one
  <2> QED BY <2>2, <2>3
<1>4. CASE PollBeginTransaction
  <2>1. /\ e2ePc' = "begin" /\ txn' = "none" /\ txn # "granted"
        /\ outD2m' = <<Out("BeginTransaction")>>
    BY <1>4 DEF PollBeginTransaction, Polls
  <2>2. Incoming' = Incoming /\ Range(Outgoing') = Range(Outgoing) \cup {Out("BeginTransaction")}
    BY <1>2, <1>3, <2>1
  <2>3. /\ HasType(Outgoing', "CommitTransaction") <=> HasType(Outgoing, "CommitTransaction")
        /\ \A p \in Range(Outgoing') : p \in Range(Outgoing) \/ ~IsContact(p)
    BY <1>3, <2>2 DEF HasType, IsContact
  <2> QED BY <1>1, <2>1, <2>2, <2>3, HolderKept
<1>5. ASSUME txn = "granted", txn' = "none", e2ePc' # "rejected", HasType(outD2m', "CommitTransaction"),
             outD2m' \in Seq(D2mOutPayload)
      PROVE  HolderInv'
  <2>1. holder = "client"
    BY <1>5 DEF HolderInv, Granted
  <2>2. Granted'
    BY <1>2, <1>5 DEF Granted, HasType
  <2> QED BY <1>1, <1>5, <2>1, <2>2 DEF HolderInv
<1>6. CASE PollAbortTransaction
  <2>1. /\ e2ePc' = "abort" /\ txn = "granted" /\ txn' = "none"
        /\ outD2m' = <<Out("CommitTransaction")>>
    BY <1>6 DEF PollAbortTransaction
  <2>2. HasType(outD2m', "CommitTransaction") /\ outD2m' \in Seq(D2mOutPayload)
    BY <1>3, <2>1 DEF HasType
  <2> QED BY <1>5, <2>1, <2>2
<1>7. CASE PollReflectAndCommit
  <2>1. PICK batch \in Seq(D2mOutPayload), commit \in D2mOutPayload :
          outD2m' = Append(batch, commit) /\ commit.type = "CommitTransaction"
    BY <1>7, ReflectAndCommitSends
  <2>2. outD2m' \in Seq(D2mOutPayload) /\ Range(outD2m') = Range(batch) \cup {commit}
    BY <2>1, RangeAppend, AppendProperties
  <2>3. HasType(outD2m', "CommitTransaction")
    BY <2>1, <2>2 DEF HasType
  <2>4. e2ePc' = "commit" /\ txn = "granted" /\ txn' = "none"
    BY <1>7 DEF PollReflectAndCommit
  <2> QED BY <1>5, <2>2, <2>3, <2>4
<1>8. CASE PollReflectMessage
  <2>1. e2ePc' = "reflect" /\ txn = "none" /\ txn' = "none"
    BY <1>8 DEF PollReflectMessage, Polls
  <2>2. /\ outD2m' \in Seq(D2mOutPayload)
        /\ \A p \in Range(outD2m') : p.type = "Reflect" /\ p.id[2] = Order["message"]
    BY <1>8, ReflectSends
  <2>3. Order["message"] \notin ContactStages
    BY DEF ContactStages, Order
  <2>4. Incoming' = Incoming /\ Range(Outgoing') = Range(Outgoing) \cup Range(outD2m')
    BY <1>2, <2>2
  <2>5. /\ HasType(Outgoing', "CommitTransaction") <=> HasType(Outgoing, "CommitTransaction")
        /\ \A p \in Range(Outgoing') : p \in Range(Outgoing) \/ ~IsContact(p)
    BY <2>2, <2>3, <2>4 DEF HasType, IsContact
  <2> QED BY <1>1, <2>1, <2>4, <2>5, HolderKept
<1> QED BY <1>4, <1>6, <1>7, <1>8

LEMMA HolderOthers ==
  ASSUME TypeInv, PipeInv, CompleteInv, HolderInv, DriverRuns,
         \/ SendCsp \/ SendD2m \/ TakeCspPayload \/ PollFetchSender \/ PollTransactionRejected
         \/ PollDone \/ SenderFetched \/ ReflectReturns
  PROVE  HolderInv'
<1>1. Incoming' = Incoming /\ Outgoing' = Outgoing
  BY PipeInvOthers
<1>2. UNCHANGED <<holder, reflectLog>> /\ Reads' = Reads /\ txn' = txn
  <2>1. UNCHANGED <<holder, reflectLog, d2mOpen, d2mLink, txn>>
    BY DEF DriverRuns, mediator, SendCsp, SendD2m, TakeCspPayload, PollFetchSender,
           PollTransactionRejected, PollDone, SenderFetched, ReflectReturns, channels
  <2> QED BY <2>1 DEF Reads
<1>3. /\ txn' # "none" => e2ePc' \in {"poll", "rejected"}
      /\ e2ePc' = "rejected" => txn' = "rejected"
  <2>1. CASE e2ePc' = e2ePc
    BY <1>2, <2>1 DEF HolderInv
  <2>2. CASE TakeCspPayload \/ SenderFetched \/ ReflectReturns
    BY <1>2, <2>2 DEF TakeCspPayload, SenderFetched, ReflectReturns, HolderInv
  <2>3. CASE PollFetchSender \/ PollTransactionRejected \/ PollDone
    BY <1>2, <2>3 DEF PollFetchSender, Polls, PollTransactionRejected, PollDone
  <2> QED BY <2>1, <2>2, <2>3 DEF SendCsp, SendD2m
<1> QED BY <1>1, <1>2, <1>3, HolderKept DEF HolderInv

-----------------------------------------------------------------------------
(* The end of a transaction that was in the way.                           *)

LEMMA EndFollowsTail ==
  ASSUME NEW S, NEW s \in Seq(S), s # <<>>, EndFollows(s)
  PROVE  /\ EndFollows(Tail(s))
         /\ Head(s).type = "TransactionRejected" => HasType(Tail(s), "TransactionEnded")
<1> DEFINE t == Tail(s)
<1>1. /\ Len(s) \in Nat \ {0} /\ t \in Seq(S) /\ Len(t) = Len(s) - 1
      /\ \A i \in 1..Len(t) : t[i] = s[i + 1]
      /\ s[1] = Head(s)
  BY EmptySeq, HeadTailProperties
<1>2. DOMAIN t = 1..Len(t)
  BY <1>1, LenProperties
<1> HIDE DEF t
<1>3. ASSUME NEW i \in 1..Len(t), t[i].type = "TransactionRejected"
      PROVE  \E j \in 1..Len(t) : i < j /\ t[j].type = "TransactionEnded"
  <2>1. i + 1 \in 1..Len(s) /\ s[i + 1].type = "TransactionRejected"
    BY <1>1, <1>3
  <2>2. PICK j \in 1..Len(s) : i + 1 < j /\ s[j].type = "TransactionEnded"
    BY <2>1 DEF EndFollows
  <2>3. j - 1 \in 1..Len(t) /\ i < j - 1 /\ (j - 1) + 1 = j
    BY <1>1, <2>2
  <2>4. t[j - 1].type = "TransactionEnded"
    BY <1>1, <2>2, <2>3
  <2> QED BY <2>3, <2>4
<1>4. ASSUME s[1].type = "TransactionRejected" PROVE HasType(t, "TransactionEnded")
  <2>1. PICK j \in 1..Len(s) : 1 < j /\ s[j].type = "TransactionEnded"
    BY <1>1, <1>4 DEF EndFollows
  <2>2. j - 1 \in 1..Len(t) /\ (j - 1) + 1 = j
    BY <1>1, <2>1
  <2>3. t[j - 1].type = "TransactionEnded"
    BY <1>1, <2>1, <2>2
  <2> QED BY <1>2, <2>2, <2>3 DEF HasType, Range
<1> QED BY <1>1, <1>3, <1>4 DEF EndFollows, t

LEMMA EndFollowsAppend ==
  ASSUME NEW S, NEW s \in Seq(S), NEW e \in S,
         e.type = "TransactionEnded" \/ (EndFollows(s) /\ e.type # "TransactionRejected")
  PROVE  EndFollows(Append(s, e))
<1> DEFINE t == Append(s, e)
<1>1. /\ Len(s) \in Nat /\ Len(t) = Len(s) + 1 /\ t[Len(s) + 1] = e
      /\ \A i \in 1..Len(s) : t[i] = s[i]
  BY AppendProperties, LenProperties
<1> HIDE DEF t
<1>2. ASSUME NEW i \in 1..Len(t), t[i].type = "TransactionRejected"
      PROVE  \E j \in 1..Len(t) : i < j /\ t[j].type = "TransactionEnded"
  <2>1. i \in 1..Len(s) /\ i < Len(s) + 1 /\ s[i].type = "TransactionRejected"
    <3>1. i # Len(s) + 1
      BY <1>1, <1>2
    <3>2. i \in 1..Len(s) /\ i < Len(s) + 1
      BY <1>1, <3>1
    <3> QED BY <1>1, <1>2, <3>2
  <2>2. Len(s) + 1 \in 1..Len(t)
    BY <1>1
  <2>3. CASE e.type = "TransactionEnded"
    BY <1>1, <2>1, <2>2, <2>3
  <2>4. CASE EndFollows(s)
    <3>1. PICK j \in 1..Len(s) : i < j /\ s[j].type = "TransactionEnded"
      BY <2>1, <2>4 DEF EndFollows
    <3>2. j \in 1..Len(t) /\ t[j] = s[j]
      BY <1>1
    <3> QED BY <3>1, <3>2
  <2> QED BY <2>3, <2>4
<1>3. EndFollows(t)
  BY <1>2 DEF EndFollows
<1> QED BY <1>3 DEF t

LEMMA EndedStays ==
  ASSUME EndedInv, Incoming' = Incoming, holder' = holder, txn' = "rejected" => txn = "rejected"
  PROVE  EndedInv'
BY DEF EndedInv

LEMMA EndedGrows ==
  ASSUME TypeInv, EndedInv, NEW p \in Datagram, Incoming' = Append(Incoming, p), txn' = txn,
         \/ p.type = "TransactionEnded"
         \/ p.type # "TransactionRejected" /\ (holder' = "sibling" <=> holder = "sibling")
         \/ holder = "sibling" /\ holder' = "sibling"
  PROVE  EndedInv'
<1>1. Incoming \in Seq(Datagram)
  BY IncomingType
<1>2. Range(Incoming') = Range(Incoming) \cup {p}
  BY <1>1, RangeAppend
<1>3. CASE p.type = "TransactionEnded"
  <2>1. EndFollows(Incoming') /\ HasType(Incoming', "TransactionEnded")
    BY <1>1, <1>2, <1>3, EndFollowsAppend DEF HasType
  <2> QED BY <2>1 DEF EndedInv
<1>4. CASE p.type # "TransactionRejected" /\ (holder' = "sibling" <=> holder = "sibling")
  <2>1. EndFollows(Incoming) => EndFollows(Incoming')
    BY <1>1, <1>4, EndFollowsAppend
  <2>2. HasType(Incoming, "TransactionEnded") => HasType(Incoming', "TransactionEnded")
    BY <1>2 DEF HasType
  <2> QED BY <1>4, <2>1, <2>2 DEF EndedInv
<1>5. CASE holder = "sibling" /\ holder' = "sibling"
  BY <1>5 DEF EndedInv
<1> QED BY <1>3, <1>4, <1>5

LEMMA EndedD2m ==
  ASSUME TypeInv, PromotionInv, PipeInv, HolderInv, EndedInv, D2mRuns
  PROVE  EndedInv'
<1> USE PipeTypes
<1>1. txn' = txn
  BY DEF D2mRuns, driver
<1>2. CASE Incoming' = Incoming /\ holder' = holder
  BY <1>1, <1>2, EndedStays
<1>3. CASE D2mHandshake
  <2>1. holder' = holder
    BY <1>3 DEF D2mHandshake
  <2>2. CASE Incoming # <<>> /\ Head(Incoming) = Head(d2mWire) /\ Incoming' = Tail(Incoming)
    <3>1. Head(d2mWire).type = "Handshake"
      BY <1>3, HandshakeFront DEF PipeInv
    <3>2. Range(Incoming) = {Head(d2mWire)} \cup Range(Incoming')
      BY <2>2, RangeTail
    <3>3. HasType(Incoming, "TransactionEnded") => HasType(Incoming', "TransactionEnded")
      BY <3>1, <3>2 DEF HasType
    <3>4. EndFollows(Incoming) => EndFollows(Incoming')
      BY <2>2, EndFollowsTail
    <3> QED BY <1>1, <2>1, <3>3, <3>4 DEF EndedInv
  <2> QED BY <1>2, <1>3, <2>1, <2>2, D2mMoves
<1>4. CASE \/ D2mReceive \/ D2mForward \/ D2mFlowEnds
           \/ D2mSend /\ d2mLink = "closed"
  <2>1. holder' = holder
    BY <1>4 DEF D2mReceive, D2mForward, D2mFlowEnds, D2mSend, MediatorReceives, mediator
  <2> QED BY <1>2, <1>4, <2>1, D2mMoves
<1>5. CASE D2mSend /\ d2mLink # "closed"
  <2> DEFINE p == Head(Outgoing)
  <2>1. /\ Outgoing # <<>> /\ Outgoing' = Tail(Outgoing) /\ p \in D2mOutPayload /\ Reads
    BY <1>5, Written DEF D2mSend, D2mTurn, Reads
  <2>2. Range(Outgoing) = {p} \cup Range(Outgoing')
    BY <2>1, RangeTail
  <2>3. \A type \in {"BeginTransactionAck", "TransactionRejected", "CommitTransactionAck"} :
          Plain(type) \in Datagram /\ Plain(type).type = type
    BY DEF Plain, Datagram, D2mInPayload
  <2>4. CASE p.type = "BeginTransaction"
    <3>1. holder # "client"
      <4>1. HasType(Outgoing, "BeginTransaction")
        BY <2>2, <2>4 DEF HasType
      <4> QED BY <2>1, <4>1, NotGranted DEF HolderInv
    <3>2. holder \in {"nobody", "sibling"}
      BY <3>1 DEF TypeInv, TypeOK, D2mTypeOK
    <3>3. CASE holder = "nobody"
      <4>1. holder' = "client" /\ Incoming' = Append(Incoming, Plain("BeginTransactionAck"))
        BY <1>5, <2>4, <3>3, Written
      <4> QED BY <1>1, <2>3, <3>3, <4>1, EndedGrows
    <3>4. CASE holder = "sibling"
      <4>1. holder' = "sibling"
        BY <1>5, <2>4, <3>4, Written
      <4> QED BY <4>1 DEF EndedInv
    <3> QED BY <3>2, <3>3, <3>4
  <2>5. CASE p.type = "CommitTransaction"
    <3>1. holder = "client"
      BY <2>2, <2>5 DEF HasType, Granted, HolderInv
    <3>2. holder' = "nobody" /\ Incoming' = Append(Incoming, Plain("CommitTransactionAck"))
      BY <1>5, <2>5, Written
    <3> QED BY <1>1, <2>3, <3>1, <3>2, EndedGrows
  <2>6. CASE p.type \in {"Reflect", "ReflectedAck"}
    <3> DEFINE ack == [type |-> "ReflectAck", id |-> p.id]
    <3>1. holder' = holder /\ (Incoming' = Incoming \/ Incoming' = Append(Incoming, ack))
      BY <1>5, <2>6, Written
    <3>2. ack \in Datagram /\ ack.type = "ReflectAck"
      BY <2>1 DEF Datagram, D2mInPayload, D2mOutPayload
    <3> HIDE DEF ack
    <3> QED BY <1>1, <1>2, <3>1, <3>2, EndedGrows
  <2> QED BY <2>1, <2>4, <2>5, <2>6 DEF D2mOutPayload
<1> QED BY <1>3, <1>4, <1>5 DEF D2mRuns, D2mNext

LEMMA EndedMediator ==
  ASSUME TypeInv, EndedInv, MediatorActs
  PROVE  EndedInv'
<1>1. txn' = txn
  BY MediatorSays DEF driver
<1>2. CASE SiblingBegins
  BY <1>2 DEF SiblingBegins, EndedInv
<1>3. CASE Incoming' = Incoming /\ holder' = holder
  BY <1>1, <1>3, EndedStays
<1>4. ASSUME NEW p \in Datagram, Incoming' = Append(Incoming, p), ~Asks(p),
             IF SiblingEnds THEN p.type = "TransactionEnded" ELSE holder' = holder
      PROVE  EndedInv'
  <2>1. p.type # "TransactionRejected"
    BY <1>4 DEF Asks, IsBegin
  <2> QED BY <1>1, <1>4, <2>1, EndedGrows
<1> QED BY <1>2, <1>3, <1>4, MediatorSays

LEMMA EndedConnect ==
  ASSUME TypeInv, TypeInv', PipeInv, EndedInv, ConnectD2m
  PROVE  EndedInv'
<1>1. txn' = txn /\ holder' = holder
  BY DEF ConnectD2m, D2mConnect, driver
<1>2. Plain("Handshake") \in Datagram /\ Plain("Handshake").type = "Handshake"
  BY DEF Plain, Datagram
<1> QED BY <1>1, <1>2, PipeInvConnect, EndedStays, EndedGrows

LEMMA EndedTakes ==
  ASSUME TypeInv, PipeInv, HolderInv, EndedInv, DriverRuns, OnD2m
  PROVE  EndedInv'
<1> DEFINE p == Head(d2mIn)
<1>1. Incoming # <<>> /\ Head(Incoming) = p /\ Incoming' = Tail(Incoming)
  BY PipeTake
<1>2. Range(Incoming) = {p} \cup Range(Incoming')
  BY <1>1, PipeTypes, RangeTail
<1>3. holder' = holder
  BY DEF DriverRuns, mediator
<1>4. EndFollows(Incoming) =>
        /\ EndFollows(Incoming')
        /\ p.type = "TransactionRejected" => HasType(Incoming', "TransactionEnded")
  BY <1>1, PipeTypes, EndFollowsTail
<1> HIDE DEF p
<1>5. ASSUME txn' = "rejected", holder # "sibling" PROVE HasType(Incoming', "TransactionEnded")
  <2>1. CASE \E type \in {"BeginTransactionAck", "TransactionRejected"} : OnBeginReply(type)
    <3>1. p.type = "TransactionRejected"
      BY <1>5, <2>1 DEF OnBeginReply, Receives, p
    <3> QED BY <1>4, <1>5, <3>1 DEF EndedInv
  <2>2. CASE OnTransactionEnded
    BY <1>5, <2>2 DEF OnTransactionEnded
  <2>3. CASE OnCommitAck \/ OnReflectAck
    <3>1. e2ePc \in {"abort", "commit", "reflect"} /\ txn' = txn
      BY <2>3 DEF OnCommitAck, OnReflectAck
    <3> QED BY <1>5, <3>1 DEF HolderInv
  <2>4. CASE OnPromotion \/ OnReflected \/ DropUnsolicited
    <3>1. txn = "rejected" /\ Listens
      BY <1>5, <2>4 DEF OnPromotion, OnReflected, DropUnsolicited, driver, Receives
    <3>2. e2ePc = "rejected"
      BY <3>1 DEF HolderInv, Listens, Waits
    <3>3. p.type # "TransactionEnded"
      BY <2>4, <3>2 DEF OnPromotion, OnReflected, DropUnsolicited, Receives, Awaited, p
    <3> QED BY <1>2, <1>5, <3>1, <3>3 DEF EndedInv, HasType
  <2> QED BY <2>1, <2>2, <2>3, <2>4 DEF OnD2m
<1> QED BY <1>3, <1>4, <1>5 DEF EndedInv

LEMMA EndedDriver ==
  ASSUME TypeInv, PipeInv, CompleteInv, HolderInv, EndedInv, DriverRuns, ~OnD2m
  PROVE  EndedInv'
<1>1. d2mIn' = d2mIn /\ (txn' = txn \/ txn' = "none")
  BY DEF DriverRuns, DriverNext, SendCsp, SendD2m, TakeCspPayload, Polling, PollFetchSender,
         PollBeginTransaction, PollTransactionRejected, PollAbortTransaction, PollReflectAndCommit,
         PollReflectMessage, PollDone, SenderFetched, ReflectReturns, channels
<1>2. Incoming' = Incoming /\ holder' = holder
  BY <1>1 DEF DriverRuns, d2m, mediator, Incoming
<1> QED BY <1>1, <1>2, EndedStays

-----------------------------------------------------------------------------
(* The theorems.                                                           *)

LEMMA TransactionInit == Init => PipeInv /\ HolderInv /\ EndedInv /\ CompleteInv
<1> SUFFICES ASSUME Init PROVE PipeInv /\ HolderInv /\ EndedInv /\ CompleteInv
  OBVIOUS
<1>1. /\ d2mIn = <<>> /\ d2mHand = <<>> /\ d2mWire = <<>> /\ d2mOut = <<>> /\ outD2m = <<>>
      /\ d2mPc = "connect" /\ e2ePc = "idle" /\ txn = "none" /\ expected = {}
      /\ holder = "nobody" /\ reflectLog = <<>>
  BY DEF Init, WiringInit, D2mInit, MediatorInit, DriverInit
<1>2. Incoming = <<>> /\ Outgoing = <<>> /\ Pipe = <<>>
  BY <1>1 DEF Incoming, Outgoing, Pipe
<1>3. Range(Incoming) = {} /\ Range(Outgoing) = {} /\ Range(reflectLog) = {} /\ Len(Incoming) = 0
  BY <1>1, <1>2, RangeOfNothing
<1>4. Len(Pipe) = 0
  BY <1>2
<1>5. PipeInv
  BY <1>1, <1>4 DEF PipeInv, HandshakeInv, Tidy, Fits
<1>6. HolderInv
  BY <1>1, <1>3 DEF HolderInv, Granted, HasType
<1>7. EndedInv
  BY <1>1, <1>3 DEF EndedInv, EndFollows
<1>8. CompleteInv
  BY <1>1, FS_EmptySet DEF CompleteInv
<1> QED BY <1>5, <1>6, <1>7, <1>8

\* The chat connection, the chat server and `run` touch none of it.
LEMMA TransactionElsewhere ==
  ASSUME PipeInv, HolderInv, EndedInv, CompleteInv,
         \/ CspRuns \/ ChatServerActs \/ ConnectFails \/ ConnectCsp
         \/ TakeSendText \/ RunEnds \/ DropSender \/ UNCHANGED vars
         \/ \E command \in {"SendText", "Shutdown"} : Command(command)
  PROVE  PipeInv' /\ HolderInv' /\ EndedInv' /\ CompleteInv'
<1>1. UNCHANGED <<d2mIn, d2mOut, d2mOpen, d2m, mediator, driver>>
  BY DEF CspRuns, CspNext, CspStart, CspHandshake, CspPoll, CspForward, CspRead, CspSend,
         ChatServerActs, ConnectFails, ConnectCsp, TakeSendText, RunEnds, DropSender, Command,
         channels, vars
<1>2. /\ UNCHANGED <<Incoming, Outgoing, Pipe, Reads>>
      /\ UNCHANGED <<e2ePc, txn, pending, acked, expected, holder, reflectLog, d2mPc, d2mWire>>
  BY <1>1 DEF d2m, mediator, driver, Incoming, Outgoing, Pipe, Reads
<1>3. Granted' <=> Granted
  BY <1>2 DEF Granted
<1> QED BY <1>2, <1>3 DEF PipeInv, HandshakeInv, HolderInv, EndedInv, CompleteInv

LEMMA TransactionDriver ==
  ASSUME TypeInv, TypeInv', PipeInv, HolderInv, EndedInv, CompleteInv, DriverRuns
  PROVE  PipeInv' /\ HolderInv' /\ EndedInv' /\ CompleteInv'
<1>1. CASE OnD2m
  BY <1>1, PipeInvTakes, HolderTakes, EndedTakes, CompleteTakes
<1>2. CASE /\ ~OnD2m
           /\ \/ PollBeginTransaction \/ PollAbortTransaction \/ PollReflectAndCommit
              \/ PollReflectMessage
  BY <1>2, PipeInvPolls, HolderPolls, EndedDriver, CompletePolls
<1>3. CASE /\ ~OnD2m
           /\ \/ SendCsp \/ SendD2m \/ TakeCspPayload \/ PollFetchSender \/ PollTransactionRejected
              \/ PollDone \/ SenderFetched \/ ReflectReturns
  BY <1>3, PipeInvOthers, HolderOthers, EndedDriver, CompleteOthers
<1> QED BY <1>1, <1>2, <1>3 DEF DriverRuns, DriverNext, Polling

LEMMA TransactionStep ==
  ASSUME TypeInv, TypeInv', PromotionInv, PipeInv, HolderInv, EndedInv, CompleteInv, [Next]_vars
  PROVE  PipeInv' /\ HolderInv' /\ EndedInv' /\ CompleteInv'
<1>1. CASE D2mRuns
  BY <1>1, PipeInvD2m, HolderD2m, EndedD2m, CompleteD2m
<1>2. CASE MediatorActs
  BY <1>2, PipeInvMediator, HolderMediator, EndedMediator, CompleteMediator
<1>3. CASE ConnectD2m
  BY <1>3, PipeInvConnect, HolderConnect, EndedConnect, CompleteConnect
<1>4. CASE DriverRuns
  BY <1>4, TransactionDriver
<1> QED BY <1>1, <1>2, <1>3, <1>4, TransactionElsewhere DEF Next

THEOREM TransactionInvariant == Spec => []TransactionInv
<1>1. TypeInv /\ TypeInv' /\ TransactionInv /\ [Next]_vars => TransactionInv'
  BY TransactionStep, PromotionStep DEF TransactionInv
<1>2. Init => TransactionInv
  BY TypesInit, PromotionInit, TransactionInit DEF TransactionInv
<1> QED BY TypesInvariant, <1>1, <1>2, PTL DEF Spec

\* Whatever the sizes and the other devices do: a reflect about a contact
\* reaches the mediator only while this device holds the transaction, and so
\* does the commit that ends it (e2e.rs:252-330).
THEOREM ContactsInTransaction == Spec => []ContactsReflectedInTransaction
<1>1. TransactionInv => ContactsReflectedInTransaction
  <2> SUFFICES ASSUME TransactionInv PROVE ContactsReflectedInTransaction
    OBVIOUS
  <2>0. TypeInv /\ HolderInv
    BY DEF TransactionInv
  <2> DEFINE Entry == [id: Nat \cup ReflectId, holder: {"nobody", "client", "sibling"}]
  <2>1. reflectLog \in Seq(Entry)
    BY <2>0 DEF TypeInv, TypeOK, D2mTypeOK
  <2> HIDE DEF Entry
  <2>2. DOMAIN reflectLog = 1..Len(reflectLog) /\ DOMAIN Outgoing = 1..Len(Outgoing)
    BY <2>0, <2>1, PipeTypes, LenProperties
  <2>3. ASSUME NEW i \in 1..Len(reflectLog), reflectLog[i].id[2] \in ContactStages
        PROVE  reflectLog[i].holder = "client"
    BY <2>0, <2>2, <2>3 DEF HolderInv, Range
  <2>4. ASSUME NEW i \in 1..Len(Outgoing), Outgoing[i].type = "CommitTransaction"
        PROVE  holder = "client"
    <3>1. HasType(Outgoing, "CommitTransaction")
      BY <2>2, <2>4 DEF HasType, Range
    <3> QED BY <2>0, <3>1 DEF HolderInv, Granted
  <2> QED BY <2>3, <2>4 DEF ContactsReflectedInTransaction
<1> QED BY <1>1, TransactionInvariant, PTL

\* A driver that waits for another device's transaction to end waits for
\* something still to come: no handler dropped it (e2e.rs:257-263).
THEOREM EndStillToCome == Spec => []TransactionEndStillToCome
<1>1. TransactionInv => TransactionEndStillToCome
  <2> SUFFICES ASSUME TransactionInv, e2ePc = "rejected" \/ txn = "rejected", holder # "sibling"
               PROVE  \E i \in 1..Len(Incoming) : Incoming[i].type = "TransactionEnded"
    BY DEF TransactionEndStillToCome
  <2>0. TypeInv /\ HolderInv /\ EndedInv
    BY DEF TransactionInv
  <2>1. txn = "rejected"
    BY <2>0 DEF HolderInv
  <2>2. HasType(Incoming, "TransactionEnded")
    BY <2>0, <2>1 DEF EndedInv
  <2>3. DOMAIN Incoming = 1..Len(Incoming)
    BY <2>0, PipeTypes, LenProperties
  <2> QED BY <2>2, <2>3 DEF HasType, Range
<1> QED BY <1>1, TransactionInvariant, PTL

\* The task is given exactly the ids it asked to have acknowledged, each once,
\* although the code only counts acks and takes the commit's for the last of
\* them (e2e.rs:315-353).
THEOREM ResponseComplete == Spec => ReflectResponseComplete
<1>1. TransactionInv /\ [Next]_vars =>
        [(e2ePc \in {"commit", "reflect"} /\ e2ePc' = "poll")
           => ToSet(acked) = expected /\ Len(acked) = Cardinality(expected)]_vars
  <2> SUFFICES ASSUME TransactionInv, Next, e2ePc \in {"commit", "reflect"}, e2ePc' = "poll"
               PROVE  ToSet(acked) = expected /\ Len(acked) = Cardinality(expected)
    OBVIOUS
  <2>0. TypeInv /\ PipeInv /\ CompleteInv
    BY DEF TransactionInv
  <2>1. DriverRuns
    BY DEF Next, CspRuns, D2mRuns, ChatServerActs, MediatorActs, ConnectFails, ConnectCsp, ConnectD2m,
           TakeSendText, RunEnds, DropSender, Command, driver
  <2>2. ReflectReturns \/ (OnCommitAck /\ e2ePc = "commit")
    <3>1. ~Polling
      BY DEF Polling, PollFetchSender, PollBeginTransaction, PollTransactionRejected,
             PollAbortTransaction, PollReflectAndCommit, PollReflectMessage, PollDone, Polls
    <3>2. ~(SendCsp \/ SendD2m \/ TakeCspPayload \/ SenderFetched)
      BY DEF SendCsp, SendD2m, TakeCspPayload, SenderFetched
    <3>3. OnD2m => OnCommitAck /\ e2ePc = "commit"
      BY DEF OnD2m, OnBeginReply, OnTransactionEnded, OnCommitAck, OnReflectAck, OnPromotion,
             OnReflected, DropUnsolicited, driver
    <3> QED BY <2>1, <3>1, <3>2, <3>3 DEF DriverRuns, DriverNext
  <2>3. Range(acked) = expected /\ Len(acked) = Cardinality(expected)
    BY <2>0, <2>1, <2>2, ReflectComplete, CommitComplete
  <2> QED BY <2>3 DEF Range, ToSet
<1> QED BY <1>1, TransactionInvariant, PTL DEF Spec, ReflectResponseComplete
=============================================================================
