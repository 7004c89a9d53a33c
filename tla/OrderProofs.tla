----------------------------- MODULE OrderProofs ------------------------------
(***************************************************************************)
(* For every value of the constants: messages reach the driver, and acks   *)
(* the chat server, each once and in order, and no message is reported     *)
(* twice.  A payload moves from one place to the next, so the argument is  *)
(* about what the front and the end of a List may do.                      *)
(***************************************************************************)
EXTENDS ClientProofs

-----------------------------------------------------------------------------
(* The marks of the payloads of a type.                                    *)

LEMMA MarksRange ==
  ASSUME NEW s, NEW type, NEW mark, NEW x
  PROVE  x \in Range(Marks(s, type, mark)) <=>
           \E i \in 1..Len(s) : s[i].type = type /\ s[i][mark] = x
BY DEF Marks, Range

LEMMA MarksRising ==
  ASSUME NEW s, NEW type, NEW mark
  PROVE  Rising(Marks(s, type, mark)) <=>
           \A i, j \in 1..Len(s) :
             i < j /\ s[i].type = type /\ s[j].type = type => s[i][mark] < s[j][mark]
BY DEF Marks, Rising

\* The front leaves.
LEMMA MarksTail ==
  ASSUME NEW S, NEW s \in Seq(S), s # <<>>, NEW type, NEW mark, Rising(Marks(s, type, mark))
  PROVE  /\ Rising(Marks(Tail(s), type, mark))
         /\ Head(s).type = type =>
              /\ Range(Marks(s, type, mark)) = {Head(s)[mark]} \cup Range(Marks(Tail(s), type, mark))
              /\ \A m \in Range(Marks(Tail(s), type, mark)) : Head(s)[mark] < m
         /\ Head(s).type # type =>
              Range(Marks(Tail(s), type, mark)) = Range(Marks(s, type, mark))
<1> DEFINE t == Tail(s)
<1>1. /\ Len(s) \in Nat \ {0} /\ t \in Seq(S) /\ Len(t) = Len(s) - 1 /\ Head(s) = s[1]
      /\ 1 \in 1..Len(s)
      /\ \A i \in 1..Len(t) : t[i] = s[i + 1] /\ i + 1 \in 1..Len(s) /\ 1 < i + 1
  BY EmptySeq, HeadTailProperties
<1>2. \A j \in 1..Len(s) : j = 1 \/ (j - 1 \in 1..Len(t) /\ t[j - 1] = s[j])
  <2> TAKE j \in 1..Len(s)
  <2>1. CASE j # 1
    <3>1. j - 1 \in 1..Len(t) /\ (j - 1) + 1 = j
      BY <1>1, <2>1
    <3> QED BY <1>1, <3>1
  <2> QED BY <2>1
<1> HIDE DEF t
<1>3. \A i, j \in 1..Len(s) :
        i < j /\ s[i].type = type /\ s[j].type = type => s[i][mark] < s[j][mark]
  BY MarksRising
<1>4. Rising(Marks(t, type, mark))
  <2>1. ASSUME NEW i \in 1..Len(t), NEW j \in 1..Len(t), i < j, t[i].type = type, t[j].type = type
        PROVE  t[i][mark] < t[j][mark]
    <3>1. i + 1 < j + 1
      BY <2>1
    <3> QED BY <1>1, <1>3, <2>1, <3>1
  <2> QED BY <1>1, <2>1, MarksRising
<1>5. \A m : m \in Range(Marks(t, type, mark)) <=>
               \E i \in 1..Len(s) : i # 1 /\ s[i].type = type /\ s[i][mark] = m
  <2> TAKE m
  <2>1. m \in Range(Marks(t, type, mark)) <=>
          \E i \in 1..Len(t) : t[i].type = type /\ t[i][mark] = m
    BY <1>1, MarksRange
  <2>2. ASSUME NEW i \in 1..Len(t), t[i].type = type, t[i][mark] = m
        PROVE  \E k \in 1..Len(s) : k # 1 /\ s[k].type = type /\ s[k][mark] = m
    BY <1>1, <2>2
  <2>3. ASSUME NEW k \in 1..Len(s), k # 1, s[k].type = type, s[k][mark] = m
        PROVE  \E i \in 1..Len(t) : t[i].type = type /\ t[i][mark] = m
    BY <1>2, <2>3
  <2> QED BY <2>1, <2>2, <2>3
<1>6. \A m : m \in Range(Marks(s, type, mark)) <=>
               \E i \in 1..Len(s) : s[i].type = type /\ s[i][mark] = m
  BY MarksRange
<1>7. CASE Head(s).type = type
  <2>1. ASSUME NEW m \in Range(Marks(t, type, mark)) PROVE Head(s)[mark] < m
    <3>1. PICK i \in 1..Len(s) : i # 1 /\ s[i].type = type /\ s[i][mark] = m
      BY <1>5
    <3>2. 1 < i
      BY <3>1
    <3> QED BY <1>1, <1>3, <1>7, <3>1, <3>2
  <2>2. \A m : m \in Range(Marks(s, type, mark)) <=>
                 m = Head(s)[mark] \/ m \in Range(Marks(t, type, mark))
    BY <1>1, <1>5, <1>6, <1>7
  <2>3. Range(Marks(s, type, mark)) = {Head(s)[mark]} \cup Range(Marks(t, type, mark))
    BY <2>2
  <2> QED BY <1>4, <1>7, <2>1, <2>3 DEF t
<1>8. CASE Head(s).type # type
  <2>1. \A m : m \in Range(Marks(s, type, mark)) <=> m \in Range(Marks(t, type, mark))
    BY <1>1, <1>5, <1>6, <1>8
  <2>2. Range(Marks(t, type, mark)) = Range(Marks(s, type, mark))
    BY <2>1
  <2> QED BY <1>4, <1>8, <2>2 DEF t
<1> QED BY <1>7, <1>8

\* Payloads join at the end.
LEMMA MarksConcat ==
  ASSUME NEW S, NEW s \in Seq(S), NEW t \in Seq(S), NEW type, NEW mark,
         Rising(Marks(s, type, mark)), Rising(Marks(t, type, mark)),
         \A m \in Range(Marks(s, type, mark)), n \in Range(Marks(t, type, mark)) : m < n
  PROVE  /\ Rising(Marks(s \o t, type, mark))
         /\ Range(Marks(s \o t, type, mark))
              = Range(Marks(s, type, mark)) \cup Range(Marks(t, type, mark))
<1> DEFINE u == s \o t
<1>1. /\ u \in Seq(S) /\ Len(s) \in Nat /\ Len(t) \in Nat /\ Len(u) = Len(s) + Len(t)
      /\ \A i \in 1..Len(s) : u[i] = s[i] /\ i \in 1..Len(u)
      /\ \A i \in 1..Len(t) : u[Len(s) + i] = t[i] /\ Len(s) + i \in 1..Len(u)
  BY ConcatProperties, LenProperties
<1> HIDE DEF u
<1>2. \A j \in 1..Len(u) :
        \/ j \in 1..Len(s) /\ u[j] = s[j]
        \/ j - Len(s) \in 1..Len(t) /\ u[j] = t[j - Len(s)]
  <2> TAKE j \in 1..Len(u)
  <2>1. CASE j =< Len(s)
    BY <1>1, <2>1
  <2>2. CASE ~(j =< Len(s))
    <3>1. j - Len(s) \in 1..Len(t) /\ Len(s) + (j - Len(s)) = j
      BY <1>1, <2>2
    <3> QED BY <1>1, <3>1
  <2> QED BY <2>1, <2>2
<1>3. /\ \A i, j \in 1..Len(s) :
           i < j /\ s[i].type = type /\ s[j].type = type => s[i][mark] < s[j][mark]
      /\ \A i, j \in 1..Len(t) :
           i < j /\ t[i].type = type /\ t[j].type = type => t[i][mark] < t[j][mark]
  BY MarksRising
<1>4. \A i \in 1..Len(s), j \in 1..Len(t) :
        s[i].type = type /\ t[j].type = type => s[i][mark] < t[j][mark]
  <2> TAKE i \in 1..Len(s), j \in 1..Len(t)
  <2> HAVE s[i].type = type /\ t[j].type = type
  <2>1. s[i][mark] \in Range(Marks(s, type, mark))
    BY MarksRange
  <2>2. t[j][mark] \in Range(Marks(t, type, mark))
    BY MarksRange
  <2> QED BY <2>1, <2>2
<1>5. ASSUME NEW i \in 1..Len(u), NEW j \in 1..Len(u), i < j, u[i].type = type, u[j].type = type
      PROVE  u[i][mark] < u[j][mark]
  <2>1. CASE j \in 1..Len(s)
    <3>1. i \in 1..Len(s)
      BY <1>1, <1>5, <2>1
    <3> QED BY <1>1, <1>3, <1>5, <2>1, <3>1
  <2>2. CASE i \in 1..Len(s) /\ j \notin 1..Len(s)
    <3>1. /\ u[i] = s[i]
          /\ j - Len(s) \in 1..Len(t) /\ u[j] = t[j - Len(s)]
      BY <1>1, <1>2, <2>2
    <3> QED BY <1>4, <1>5, <2>2, <3>1
  <2>3. CASE i \notin 1..Len(s)
    <3>1. /\ i - Len(s) \in 1..Len(t) /\ u[i] = t[i - Len(s)]
          /\ j - Len(s) \in 1..Len(t) /\ u[j] = t[j - Len(s)]
          /\ i - Len(s) < j - Len(s)
      BY <1>1, <1>2, <1>5, <2>3
    <3> QED BY <1>3, <1>5, <3>1
  <2> QED BY <2>1, <2>2, <2>3
<1>6. Rising(Marks(u, type, mark))
  BY <1>1, <1>5, MarksRising
<1>7. \A m : m \in Range(Marks(u, type, mark)) <=>
               m \in Range(Marks(s, type, mark)) \/ m \in Range(Marks(t, type, mark))
  <2> TAKE m
  <2>1. /\ m \in Range(Marks(u, type, mark)) <=>
             \E i \in 1..Len(u) : u[i].type = type /\ u[i][mark] = m
        /\ m \in Range(Marks(s, type, mark)) <=>
             \E i \in 1..Len(s) : s[i].type = type /\ s[i][mark] = m
        /\ m \in Range(Marks(t, type, mark)) <=>
             \E i \in 1..Len(t) : t[i].type = type /\ t[i][mark] = m
    BY MarksRange
  <2> QED BY <1>1, <1>2, <2>1
<1>8. Range(Marks(u, type, mark)) = Range(Marks(s, type, mark)) \cup Range(Marks(t, type, mark))
  BY <1>7
<1> QED BY <1>6, <1>8 DEF u

LEMMA MarksAppend ==
  ASSUME NEW S, NEW s \in Seq(S), NEW e \in S, NEW type, NEW mark, Rising(Marks(s, type, mark)),
         e.type = type => \A m \in Range(Marks(s, type, mark)) : m < e[mark]
  PROVE  /\ Rising(Marks(Append(s, e), type, mark))
         /\ Range(Marks(Append(s, e), type, mark))
              = Range(Marks(s, type, mark)) \cup (IF e.type = type THEN {e[mark]} ELSE {})
<1> DEFINE one == <<e>>
<1>1. one \in Seq(S) /\ Len(one) = 1 /\ one[1] = e /\ Append(s, e) = s \o one
  BY AppendIsConcat
<1> HIDE DEF one
<1>2. Rising(Marks(one, type, mark))
  BY <1>1, MarksRising
<1>3. \A m : m \in Range(Marks(one, type, mark)) <=> e.type = type /\ m = e[mark]
  <2> TAKE m
  <2>1. m \in Range(Marks(one, type, mark)) <=>
          \E i \in 1..Len(one) : one[i].type = type /\ one[i][mark] = m
    BY MarksRange
  <2> QED BY <1>1, <2>1
<1>4. Range(Marks(one, type, mark)) = IF e.type = type THEN {e[mark]} ELSE {}
  BY <1>3
<1>5. \A m \in Range(Marks(s, type, mark)), n \in Range(Marks(one, type, mark)) : m < n
  BY <1>3
<1> QED BY <1>1, <1>2, <1>4, <1>5, MarksConcat

LEMMA MarksOfNothing ==
  ASSUME NEW type, NEW mark
  PROVE  Rising(Marks(<<>>, type, mark)) /\ Range(Marks(<<>>, type, mark)) = {}
<1>1. 1..Len(<<>>) = {}
  OBVIOUS
<1>2. \A x : x \notin Range(Marks(<<>>, type, mark))
  BY <1>1, MarksRange
<1> QED BY <1>1, <1>2, MarksRising

-----------------------------------------------------------------------------
(* What may happen to a List.                                              *)

\* A number joins a sequence of numbers.
LEMMA RisingAppend ==
  ASSUME NEW S, NEW s \in Seq(S), NEW e \in S, Rising(s), \A m \in Range(s) : m < e
  PROVE  Rising(Append(s, e)) /\ Range(Append(s, e)) = Range(s) \cup {e}
<1> DEFINE t == Append(s, e)
<1>1. /\ DOMAIN s = 1..Len(s) /\ DOMAIN t = 1..(Len(s) + 1) /\ Len(s) \in Nat
      /\ \A i \in 1..Len(s) : t[i] = s[i]
      /\ t[Len(s) + 1] = e
  BY LenProperties, AppendProperties
<1> HIDE DEF t
<1>2. \A i \in 1..Len(s) : s[i] < e
  BY <1>1 DEF Range
<1>3. ASSUME NEW i \in 1..(Len(s) + 1), NEW j \in 1..(Len(s) + 1), i < j
      PROVE  t[i] < t[j]
  <2>1. i \in 1..Len(s)
    BY <1>1, <1>3
  <2>2. CASE j = Len(s) + 1
    BY <1>1, <1>2, <2>1, <2>2
  <2>3. CASE j \in 1..Len(s)
    BY <1>1, <1>3, <2>1, <2>3 DEF Rising
  <2> QED BY <1>1, <2>2, <2>3
<1>4. Rising(t)
  BY <1>1, <1>3 DEF Rising
<1>5. \A x : x \in Range(t) <=> x \in Range(s) \/ x = e
  <2> TAKE x
  <2>1. x \in Range(t) <=> \E i \in 1..(Len(s) + 1) : t[i] = x
    BY <1>1 DEF Range
  <2>2. x \in Range(s) <=> \E i \in 1..Len(s) : s[i] = x
    BY <1>1 DEF Range
  <2>3. \A i \in 1..(Len(s) + 1) : i \in 1..Len(s) \/ i = Len(s) + 1
    BY <1>1
  <2>4. Len(s) + 1 \in 1..(Len(s) + 1) /\ \A i \in 1..Len(s) : i \in 1..(Len(s) + 1)
    BY <1>1
  <2> QED BY <1>1, <2>1, <2>2, <2>3, <2>4
<1>6. Range(t) = Range(s) \cup {e}
  BY <1>5
<1> QED BY <1>4, <1>6 DEF t

\* The front of the second part goes to the end of the first.
LEMMA ListTake ==
  ASSUME NEW S, NEW s \in Seq(S), s # <<>>, NEW type, NEW mark, Head(s).type = type,
         NEW T, NEW first \in Seq(T), Head(s)[mark] \in T, NEW set,
         List(first, Marks(s, type, mark), set)
  PROVE  List(Append(first, Head(s)[mark]), Marks(Tail(s), type, mark), set)
<1> DEFINE x == Head(s)[mark]
           rest == Marks(Tail(s), type, mark)
<1>1. /\ Rising(rest) /\ Range(Marks(s, type, mark)) = {x} \cup Range(rest)
      /\ \A m \in Range(rest) : x < m
  BY MarksTail DEF List
<1>2. /\ Rising(first) /\ \A m \in Range(first) : m < x
      /\ \A m \in Range(first), n \in Range(rest) : m < n
      /\ Range(first) \cup ({x} \cup Range(rest)) = set
  BY <1>1 DEF List
<1> HIDE DEF x, rest
<1>3. Rising(Append(first, x)) /\ Range(Append(first, x)) = Range(first) \cup {x}
  BY <1>2, RisingAppend DEF x
<1>4. List(Append(first, x), rest, set)
  BY <1>1, <1>2, <1>3 DEF List
<1> QED BY <1>4 DEF x, rest

\* The same between two places of payloads.
LEMMA ListMove ==
  ASSUME NEW S, NEW s \in Seq(S), s # <<>>, NEW type, NEW mark,
         NEW T, NEW first \in Seq(T), Head(s) \in T, NEW set,
         List(Marks(first, type, mark), Marks(s, type, mark), set)
  PROVE  List(Marks(Append(first, Head(s)), type, mark), Marks(Tail(s), type, mark), set)
<1> DEFINE e == Head(s)
           before == Range(Marks(first, type, mark))
           rest == Range(Marks(Tail(s), type, mark))
           moved == IF e.type = type THEN {e[mark]} ELSE {}
<1>1. /\ Rising(Marks(Tail(s), type, mark))
      /\ Range(Marks(s, type, mark)) = moved \cup rest
      /\ e.type = type => \A m \in rest : e[mark] < m
  BY MarksTail DEF List
<1>2. /\ Rising(Marks(first, type, mark))
      /\ \A m \in before, n \in moved \cup rest : m < n
      /\ before \cup (moved \cup rest) = set
  BY <1>1 DEF List
<1>3. e.type = type => \A m \in before : m < e[mark]
  BY <1>2
<1>4. /\ Rising(Marks(Append(first, e), type, mark))
      /\ Range(Marks(Append(first, e), type, mark)) = before \cup moved
  BY <1>2, <1>3, MarksAppend
<1>5. \A m \in before \cup moved, n \in rest : m < n
  BY <1>1, <1>2
<1>6. (before \cup moved) \cup rest = set
  BY <1>2
<1> QED BY <1>1, <1>4, <1>5, <1>6 DEF List

\* The front of the second part goes, and was of another type.
LEMMA ListSkip ==
  ASSUME NEW S, NEW s \in Seq(S), s # <<>>, NEW type, NEW mark, Head(s).type # type,
         NEW first, NEW set, List(first, Marks(s, type, mark), set)
  PROVE  List(first, Marks(Tail(s), type, mark), set)
BY MarksTail DEF List

\* The front of the first part goes.
LEMMA ListDrop ==
  ASSUME NEW S, NEW s \in Seq(S), s # <<>>, NEW type, NEW mark, NEW second, NEW set,
         List(Marks(s, type, mark), second, set)
  PROVE  /\ Head(s).type # type => List(Marks(Tail(s), type, mark), second, set)
         /\ Head(s).type = type =>
              \E rest : /\ List(Marks(Tail(s), type, mark), second, rest)
                        /\ set = {Head(s)[mark]} \cup rest
                        /\ \A m \in rest : Head(s)[mark] < m
<1>1. CASE Head(s).type # type
  BY <1>1, MarksTail DEF List
<1>2. CASE Head(s).type = type
  <2> DEFINE rest == Range(Marks(Tail(s), type, mark)) \cup Range(second)
  <2>1. /\ Rising(Marks(Tail(s), type, mark))
        /\ Range(Marks(s, type, mark)) = {Head(s)[mark]} \cup Range(Marks(Tail(s), type, mark))
        /\ \A m \in Range(Marks(Tail(s), type, mark)) : Head(s)[mark] < m
    BY <1>2, MarksTail DEF List
  <2>2. List(Marks(Tail(s), type, mark), second, rest)
    BY <2>1 DEF List
  <2>3. set = {Head(s)[mark]} \cup rest /\ \A m \in rest : Head(s)[mark] < m
    BY <2>1 DEF List
  <2> QED BY <1>2, <2>2, <2>3
<1> QED BY <1>1, <1>2

\* A payload joins at the end.
LEMMA ListAdd ==
  ASSUME NEW S, NEW s \in Seq(S), NEW e \in S, NEW type, NEW mark, NEW first, NEW set,
         List(first, Marks(s, type, mark), set), e.type = type => \A m \in set : m < e[mark]
  PROVE  List(first, Marks(Append(s, e), type, mark),
              set \cup (IF e.type = type THEN {e[mark]} ELSE {}))
<1> DEFINE added == IF e.type = type THEN {e[mark]} ELSE {}
<1>1. /\ Rising(Marks(Append(s, e), type, mark))
      /\ Range(Marks(Append(s, e), type, mark)) = Range(Marks(s, type, mark)) \cup added
  BY MarksAppend DEF List
<1>2. \A m \in Range(first), n \in Range(Marks(s, type, mark)) \cup added : m < n
  BY DEF List
<1> QED BY <1>1, <1>2 DEF List
\* A sequence holds the least of a set's numbers, each once and in order.
Begins(first, set) ==
  /\ Rising(first) /\ Range(first) \subseteq set
  /\ \A a \in Range(first), m \in set \ Range(first) : a < m

-----------------------------------------------------------------------------
(* Messages 1..taken have reached the driver, which may still have the last *)
(* of them in hand; the others are on their way to it, in order.           *)

Delivering(taken) ==
  List(Marks(Handed, "Message", "n"), Marks(Frames, "Message", "n"), taken + 1 .. sent)

\* What the server has of the acks is the beginning of what it is to have; as
\* long as it listens, the rest is on its way.
Done(taken) == (1..taken) \ (NoAck \cup {task})
Acknowledging(taken) ==
  IF cspLink = "open" THEN List(acks, Marks(Replies, "MessageAck", "n"), Done(taken))
                      ELSE Begins(acks, Done(taken))

OrderAt(taken) == task \in {0, taken} /\ Delivering(taken) /\ Acknowledging(taken)
OrderInv == \E taken \in 0..sent : OrderAt(taken)

\* Before the queue is unblocked no message and no ack is on its way.
LEMMA OrderBefore ==
  ASSUME TypeInv, QueueInv, ~unblocked
  PROVE  /\ task = 0 /\ Handed = <<>>
         /\ \A first, set : List(first, Marks(Frames, "Message", "n"), set) <=> List(first, <<>>, set)
         /\ \A first, set : List(first, Marks(Replies, "MessageAck", "n"), set) <=> List(first, <<>>, set)
<1>1. /\ task = 0 /\ Handed = <<>>
      /\ \A i \in 1..Len(Replies) : Replies[i].type = "UnblockIncomingMessages"
      /\ \A i \in 1..Len(Frames) : Frames[i].type = "Handshake"
  BY DEF QueueInv
<1>3. Rising(Marks(Frames, "Message", "n")) /\ Range(Marks(Frames, "Message", "n")) = {}
  <2>1. \A x : x \notin Range(Marks(Frames, "Message", "n"))
    BY <1>1, MarksRange
  <2>2. Rising(Marks(Frames, "Message", "n"))
    BY <1>1, MarksRising
  <2> QED BY <2>1, <2>2
<1>4. Rising(Marks(Replies, "MessageAck", "n")) /\ Range(Marks(Replies, "MessageAck", "n")) = {}
  <2>1. \A x : x \notin Range(Marks(Replies, "MessageAck", "n"))
    BY <1>1, MarksRange
  <2>2. Rising(Marks(Replies, "MessageAck", "n"))
    BY <1>1, MarksRising
  <2> QED BY <2>1, <2>2
<1>5. Rising(<<>>) /\ Range(<<>>) = {}
  BY DEF Rising, Range
<1> QED BY <1>1, <1>3, <1>4, <1>5 DEF List

LEMMA ListBegins ==
  ASSUME NEW first, NEW second, NEW set, List(first, second, set)
  PROVE  Begins(first, set)
BY DEF List, Begins

\* No payload is on its way, and the server has its acks: a run begins.
OrderFresh ==
  /\ Handed = <<>> /\ Frames = <<>> /\ Replies = <<>> /\ task = 0
  /\ sent \in Nat /\ Rising(acks) /\ Range(acks) = (1..sent) \ NoAck

LEMMA OrderInit == OrderFresh => OrderInv
<1> SUFFICES ASSUME OrderFresh PROVE OrderInv
  OBVIOUS
<1>1. sent + 1 .. sent = {} /\ sent \in 0..sent
  BY DEF OrderFresh
<1>2. Done(sent) = (1..sent) \ NoAck
  BY DEF OrderFresh, Done
<1>3. Delivering(sent)
  BY <1>1, MarksOfNothing DEF OrderFresh, Delivering, List
<1>4. List(acks, Marks(Replies, "MessageAck", "n"), Done(sent))
  BY <1>2, MarksOfNothing DEF OrderFresh, List
<1>5. Acknowledging(sent)
  BY <1>4, ListBegins DEF Acknowledging
<1>6. task \in {0, sent}
  BY DEF OrderFresh
<1> QED BY <1>1, <1>3, <1>5, <1>6 DEF OrderInv, OrderAt

\* The ack of the task joins the ones before.
LEMMA DoneGrows ==
  ASSUME NEW taken \in Nat, NEW n, n \in {0, taken},
         NEW first, Begins(first, (1..taken) \ (NoAck \cup {n}))
  PROVE  Begins(first, (1..taken) \ (NoAck \cup {0}))
<1> DEFINE before == (1..taken) \ (NoAck \cup {n})
           after == (1..taken) \ (NoAck \cup {0})
<1>1. before \subseteq after /\ before \subseteq Nat /\ after \subseteq 1..taken
  OBVIOUS
<1>2. \A m \in after \ before : m = taken /\ \A a \in before : a < m
  OBVIOUS
<1> HIDE DEF before, after
<1>3. Begins(first, before)
  BY DEF before
<1>4. Begins(first, after)
  BY <1>1, <1>2, <1>3 DEF Begins
<1> QED BY <1>4 DEF after

\* What a step makes of them: only the next message may come to be in hand.
OrderFrom(taken) ==
  \E next \in 0..sent' :
    /\ OrderAt(next)'
    /\ (next = taken /\ task' \in {0, task}) \/ next = taken + 1

LEMMA OrderStays ==
  ASSUME NEW taken \in 0..sent', task \in {0, taken}, task' \in {0, task},
         Delivering(taken)', Acknowledging(taken)'
  PROVE  OrderFrom(taken)
BY DEF OrderAt, OrderFrom

\* Nothing of it changes, but for the frames' places.
LEMMA OrderKept ==
  ASSUME NEW taken \in 0..sent, OrderAt(taken), Delivering(taken)', UNCHANGED <<sent, acks, cspLink, task>>,
         Replies' = Replies
  PROVE  OrderFrom(taken)
<1>1. Acknowledging(taken)'
  BY DEF OrderAt, Acknowledging, Done
<1> QED BY <1>1, OrderStays DEF OrderAt

\* The chat connection's handshake.
LEMMA OrderHandshake ==
  ASSUME TypeInv, QueueInv, QueueInv', TypeInv', NEW taken \in 0..sent, OrderAt(taken), CspRuns, CspStart \/ CspHandshake
  PROVE  OrderFrom(taken)
<1>1. /\ UNCHANGED <<sent, acks, cspLink, task, unblocked>> /\ Replies' = Replies /\ Handed' = Handed
      /\ ~unblocked
  BY DEF CspStart, CspHandshake, CspRuns, QueueInv, channels, driver, Replies, Handed
<1>2. /\ \A first, set : List(first, Marks(Frames, "Message", "n"), set) <=> List(first, <<>>, set)
      /\ \A first, set : List(first, Marks(Frames', "Message", "n"), set) <=> List(first, <<>>, set)
  <2>1. TypeInv' /\ QueueInv' /\ ~unblocked' =>
          (\A first, set : List(first, Marks(Frames, "Message", "n"), set) <=> List(first, <<>>, set))'
    BY OrderBefore, PTL
  <2> QED BY <1>1, <2>1, OrderBefore
<1>3. Delivering(taken)'
  BY <1>1, <1>2 DEF OrderAt, Delivering
<1> QED BY <1>1, <1>3, OrderKept

\* The connection passes frames on.
LEMMA OrderCsp ==
  ASSUME TypeInv, NEW taken \in 0..sent, OrderAt(taken), CspRuns, CspPoll \/ CspForward \/ CspRead
  PROVE  OrderFrom(taken)
<1>1. /\ UNCHANGED <<sent, acks, cspLink, task>> /\ Replies' = Replies
  BY DEF CspPoll, CspForward, CspRead, CspRuns, channels, driver, chatServer, Replies
<1>2. List(Marks(Handed, "Message", "n"), Marks(Frames, "Message", "n"), taken + 1 .. sent)
  BY DEF OrderAt, Delivering
<1>3. List(Marks(Handed', "Message", "n"), Marks(Frames', "Message", "n"), taken + 1 .. sent)
  <2>1. CASE CspPoll
    <3>1. Frames # <<>> /\ Frames' = Tail(Frames) /\ Head(Frames) \in Frame
      BY <2>1, PollMoves
    <3>2. CASE Head(Frames) \in CspInPayload /\ Handed' = Append(Handed, Head(Frames))
      BY <1>2, <3>1, <3>2, ChainTypes, ListMove
    <3>3. CASE Head(Frames).type \notin {"Message", "MessageAck"} /\ Handed' = Handed
      BY <1>2, <3>1, <3>3, ChainTypes, ListSkip
    <3> QED BY <2>1, <3>2, <3>3, PollMoves
  <2>2. CASE CspForward
    <3>1. Frames' = Frames
      BY <2>2 DEF CspForward, chatServer, Frames
    <3> QED BY <1>2, <2>2, <3>1, SendMoves
  <2>3. CASE CspRead
    <3>1. Handed' = Handed
      BY <2>3 DEF CspRead, Handed, channels
    <3> QED BY <1>2, <2>3, <3>1, ReadMoves
  <2> QED BY <2>1, <2>2, <2>3
<1>4. Delivering(taken)'
  BY <1>1, <1>3 DEF Delivering
<1> QED BY <1>1, <1>4, OrderKept

\* The socket takes the unblock, or an ack, off the driver's channel.
LEMMA OrderSend ==
  ASSUME TypeInv, NEW taken \in 0..sent, OrderAt(taken), CspRuns, CspSend
  PROVE  OrderFrom(taken)
<1>1. /\ UNCHANGED <<sent, cspLink, task, outCsp>> /\ Handed' = Handed /\ Frames' = Frames
      /\ acks' = IF cspLink = "open" /\ Head(cspOut).type = "MessageAck"
                 THEN Append(acks, Head(cspOut).n) ELSE acks
  BY DEF CspSend, CspRuns, csp, driver, ServerReceives, Handed, Frames
<1>2. Replies # <<>> /\ Head(Replies) = Head(cspOut) /\ Replies' = Tail(Replies)
  BY <1>1, EndMoves
<1>3. ASSUME cspLink = "open"
      PROVE  List(acks', Marks(Replies', "MessageAck", "n"), Done(taken))
  <2>0. List(acks, Marks(Replies, "MessageAck", "n"), Done(taken))
    BY <1>3 DEF OrderAt, Acknowledging
  <2>1. CASE Head(Replies).type = "MessageAck"
    <3>1. Head(Replies)["n"] = Head(Replies).n /\ Head(Replies).n \in 0..Total
      <4>1. Head(Replies) \in CspOutPayload
        BY <1>2, ChainTypes, HeadTailProperties
      <4> QED BY <4>1 DEF CspOutPayload
    <3>2. acks' = Append(acks, Head(Replies)["n"])
      BY <1>1, <1>2, <1>3, <2>1, <3>1
    <3> QED BY <1>2, <1>3, <2>0, <2>1, <3>1, <3>2, ChainTypes, ListTake
  <2>2. CASE Head(Replies).type # "MessageAck"
    BY <1>1, <1>2, <1>3, <2>0, <2>2, ChainTypes, ListSkip
  <2> QED BY <2>1, <2>2
<1>4. Acknowledging(taken)'
  BY <1>1, <1>3 DEF OrderAt, Acknowledging, Done
<1>5. Delivering(taken)'
  BY <1>1 DEF OrderAt, Delivering
<1> QED BY <1>1, <1>4, <1>5, OrderStays DEF OrderAt

LEMMA OrderServer ==
  ASSUME TypeInv, NEW taken \in 0..sent, OrderAt(taken), ChatServerActs
  PROVE  OrderFrom(taken)
<1>1. UNCHANGED <<csp, acks, task>> /\ Replies' = Replies /\ Handed' = Handed
  BY DEF ChatServerActs, channels, csp, driver, ServerSendsMessage, ServerSendsExtra, ServerEnds,
         Replies, Handed
<1>2. sent \in Nat /\ sent \in 0..Total
  BY ChainTypes DEF TypeInv, TypeOK, CspTypeOK
<1>3. List(Marks(Handed, "Message", "n"), Marks(Frames, "Message", "n"), taken + 1 .. sent)
  BY DEF OrderAt, Delivering
<1>4. CASE ServerSendsMessage
  <2> DEFINE f == [type |-> "Message", n |-> sent + 1]
  <2>1. f \in Frame
    BY <1>2, <1>4, MessageAssumption DEF ServerSendsMessage, Frame, CspInPayload
  <2>2. /\ f.type = "Message" /\ f["n"] = sent + 1 /\ sent' = sent + 1 /\ cspLink' = cspLink
        /\ cspWire' = Append(cspWire, f)
    BY <1>4 DEF ServerSendsMessage
  <2> HIDE DEF f
  <2>3. Frames' = Append(Frames, f)
    BY <1>1, <2>1, <2>2, FrameMoves DEF csp
  <2>4. \A m \in taken + 1 .. sent : m < f["n"]
    BY <1>2, <2>2
  <2>5. (taken + 1 .. sent) \cup (IF f.type = "Message" THEN {f["n"]} ELSE {}) = taken + 1 .. sent'
    BY <1>2, <2>2
  <2>6. List(Marks(Handed, "Message", "n"), Marks(Append(Frames, f), "Message", "n"),
             (taken + 1 .. sent) \cup (IF f.type = "Message" THEN {f["n"]} ELSE {}))
    BY <1>3, <2>1, <2>4, ChainTypes, ListAdd
  <2>7. Delivering(taken)'
    BY <1>1, <2>3, <2>5, <2>6 DEF Delivering
  <2>8. taken \in 0..sent'
    BY <1>2, <2>2
  <2>9. Acknowledging(taken)'
    BY <1>1, <2>2 DEF OrderAt, Acknowledging, Done
  <2> QED BY <1>1, <2>7, <2>8, <2>9, OrderStays DEF OrderAt
<1>5. ASSUME NEW type \in ExtraFrames, ServerSendsExtra(type) PROVE OrderFrom(taken)
  <2> DEFINE f == [type |-> type, n |-> 0]
  <2>1. f \in Frame /\ f.type # "Message"
    BY ServerAssumption DEF Frame, CspInPayload
  <2>2. sent' = sent /\ cspLink' = cspLink /\ cspWire' = Append(cspWire, f)
    BY <1>5 DEF ServerSendsExtra
  <2> HIDE DEF f
  <2>3. Frames' = Append(Frames, f)
    BY <1>1, <2>1, <2>2, FrameMoves DEF csp
  <2>4. (taken + 1 .. sent) \cup (IF f.type = "Message" THEN {f["n"]} ELSE {}) = taken + 1 .. sent
    BY <2>1
  <2>5. List(Marks(Handed, "Message", "n"), Marks(Append(Frames, f), "Message", "n"),
             (taken + 1 .. sent) \cup (IF f.type = "Message" THEN {f["n"]} ELSE {}))
    BY <1>3, <2>1, ChainTypes, ListAdd
  <2>6. Delivering(taken)'
    BY <1>1, <2>2, <2>3, <2>4, <2>5 DEF Delivering
  <2> QED BY <1>1, <2>2, <2>6, OrderKept
<1>6. ASSUME NEW how \in LinkFaults, ServerEnds(how) PROVE OrderFrom(taken)
  <2>1. sent' = sent /\ cspLink = "open" /\ cspLink' # "open" /\ cspWire' = cspWire
    BY <1>6, ServerAssumption DEF ServerEnds
  <2>2. Delivering(taken)'
    BY <1>1, <1>3, <2>1 DEF Delivering, Frames, csp
  <2>3. Begins(acks, Done(taken))
    BY <2>1, ListBegins DEF OrderAt, Acknowledging
  <2>4. Acknowledging(taken)'
    BY <1>1, <2>1, <2>3 DEF Acknowledging, Done
  <2> QED BY <1>1, <2>1, <2>2, <2>4, OrderStays DEF OrderAt
<1> QED BY <1>4, <1>5, <1>6 DEF ChatServerActs

LEMMA OrderDriver ==
  ASSUME TypeInv, NEW taken \in 0..sent, OrderAt(taken), DriverRuns
  PROVE  OrderFrom(taken)
<1>1. UNCHANGED <<cspHand, sent, acks, cspLink>> /\ Frames' = Frames
  BY DEF DriverRuns, csp, chatServer, Frames
<1>2. sent \in Nat /\ taken \in Nat /\ task \in {0, taken}
  BY ChainTypes DEF OrderAt
<1>3. List(Marks(Handed, "Message", "n"), Marks(Frames, "Message", "n"), taken + 1 .. sent)
  BY DEF OrderAt, Delivering
<1>4. Acknowledging(taken)
  BY DEF OrderAt
<1>5. CASE TakeCspPayload
  <2>1. Handed # <<>> /\ Head(Handed) = Head(cspIn) /\ Handed' = Tail(Handed)
    BY <1>1, <1>5, EndMoves
  <2>2. Replies' = Replies /\ task = 0
    BY <1>5 DEF TakeCspPayload, Replies, TypeInv, TypeOK, DriverTypeOK
  <2>3. CASE Head(Handed).type # "Message"
    <3>1. task' = task
      BY <1>5, <2>1, <2>3 DEF TakeCspPayload
    <3>2. List(Marks(Handed', "Message", "n"), Marks(Frames, "Message", "n"), taken + 1 .. sent)
      BY <1>3, <2>1, <2>3, ChainTypes, ListDrop
    <3>3. Delivering(taken)'
      BY <1>1, <3>2 DEF Delivering
    <3> QED BY <1>1, <2>2, <3>1, <3>3, OrderKept
  <2>4. CASE Head(Handed).type = "Message"
    <3> DEFINE x == Head(Handed)["n"]
    <3>1. task' = x
      BY <1>5, <2>1, <2>4 DEF TakeCspPayload
    <3>2. PICK rest : /\ List(Marks(Handed', "Message", "n"), Marks(Frames, "Message", "n"), rest)
                      /\ taken + 1 .. sent = {x} \cup rest
                      /\ \A m \in rest : x < m
      BY <1>3, <2>1, <2>4, ChainTypes, ListDrop
    <3> HIDE DEF x
    <3>3. x = taken + 1 /\ x \in 0..sent
      <4>1. x \in taken + 1 .. sent
        BY <3>2
      <4>2. taken + 1 \in {x} \cup rest
        BY <1>2, <3>2, <4>1
      <4> QED BY <1>2, <3>2, <4>1, <4>2
    <3>4. rest = x + 1 .. sent
      <4>1. \A m : m \in rest => m \in x + 1 .. sent
        BY <1>2, <3>2, <3>3
      <4>2. \A m : m \in x + 1 .. sent => m \in rest
        BY <1>2, <3>2, <3>3
      <4> QED BY <4>1, <4>2
    <3>5. (1..x) \ (NoAck \cup {x}) = (1..taken) \ (NoAck \cup {task})
      BY <1>2, <2>2, <3>3
    <3>6. Delivering(taken + 1)'
      BY <1>1, <3>2, <3>3, <3>4 DEF Delivering
    <3>7. Acknowledging(taken + 1)'
      BY <1>1, <1>4, <2>2, <3>1, <3>3, <3>5 DEF Acknowledging, Done
    <3> QED BY <1>1, <3>1, <3>3, <3>6, <3>7 DEF OrderFrom, OrderAt
  <2> QED BY <2>3, <2>4
<1>6. CASE PollDone
  <2>1. /\ outCsp = <<>> /\ Handed' = Handed /\ cspOut' = cspOut /\ task' = 0
        /\ outCsp' = IF task \in NoAck THEN <<>> ELSE <<[type |-> "MessageAck", n |-> task]>>
    BY <1>1, <1>6 DEF PollDone, Quiet, channels, Handed
  <2>2. task = taken /\ task \in 1..Total /\ task # 0
    BY <1>2, <1>6 DEF PollDone, TypeInv, TypeOK, DriverTypeOK
  <2>3. Delivering(taken)'
    BY <1>1, <1>3, <2>1 DEF Delivering
  <2>4. cspLink # "open" => Begins(acks, (1..taken) \ (NoAck \cup {0}))
    BY <1>2, <1>4, DoneGrows DEF Acknowledging, Done
  <2>5. cspLink = "open" =>
          List(acks, Marks(Replies', "MessageAck", "n"), (1..taken) \ (NoAck \cup {0}))
    <3> SUFFICES ASSUME cspLink = "open"
                 PROVE  List(acks, Marks(Replies', "MessageAck", "n"), (1..taken) \ (NoAck \cup {0}))
      OBVIOUS
    <3> DEFINE done == (1..taken) \ (NoAck \cup {task})
    <3>1. List(acks, Marks(Replies, "MessageAck", "n"), done)
      BY <1>4 DEF Acknowledging, Done
    <3>2. CASE task \in NoAck
      <4>1. Replies' = Replies
        BY <2>1, <3>2 DEF Replies
      <4>2. (1..taken) \ (NoAck \cup {0}) = done
        BY <1>2, <2>2, <3>2
      <4> QED BY <3>1, <4>1, <4>2
    <3>3. CASE task \notin NoAck
      <4> DEFINE p == [type |-> "MessageAck", n |-> task]
      <4>1. p \in CspOutPayload /\ outCsp' = <<p>> /\ p.type = "MessageAck" /\ p["n"] = task
        BY <2>1, <2>2, <3>3 DEF CspOutPayload
      <4> HIDE DEF p
      <4>2. Replies' = Append(Replies, p)
        BY <2>1, <4>1, ReplyMoves
      <4>3. \A m \in done : m < p["n"]
        BY <1>2, <2>2, <4>1
      <4>4. done \cup (IF p.type = "MessageAck" THEN {p["n"]} ELSE {})
              = (1..taken) \ (NoAck \cup {0})
        BY <1>2, <2>2, <3>3, <4>1
      <4> HIDE DEF done
      <4>5. List(acks, Marks(Append(Replies, p), "MessageAck", "n"),
                 done \cup (IF p.type = "MessageAck" THEN {p["n"]} ELSE {}))
        BY <3>1, <4>1, <4>3, ChainTypes, ListAdd
      <4> QED BY <4>2, <4>4, <4>5
    <3> QED BY <3>2, <3>3
  <2>6. Acknowledging(taken)'
    BY <1>1, <2>1, <2>4, <2>5 DEF Acknowledging, Done
  <2> QED BY <1>1, <2>1, <2>3, <2>6, OrderStays DEF OrderAt
<1>7. CASE OnPromotion
  <2> DEFINE p == [type |-> "UnblockIncomingMessages", n |-> 0]
  <2>1. /\ outCsp = <<>> /\ Handed' = Handed /\ cspOut' = cspOut /\ task' = task /\ outCsp' = <<p>>
    BY <1>1, <1>7 DEF OnPromotion, Receives, Listens, Quiet, Handed
  <2>2. p \in CspOutPayload /\ p.type # "MessageAck"
    BY MessageAssumption DEF CspOutPayload
  <2> HIDE DEF p
  <2>3. Replies' = Append(Replies, p)
    BY <2>1, <2>2, ReplyMoves
  <2>4. Done(taken)' = Done(taken)
    BY <2>1 DEF Done
  <2>5. Done(taken) \cup (IF p.type = "MessageAck" THEN {p["n"]} ELSE {}) = Done(taken)
    BY <2>2
  <2>6. cspLink = "open" => List(acks, Marks(Replies', "MessageAck", "n"), Done(taken))
    <3>1. cspLink = "open" =>
            List(acks, Marks(Append(Replies, p), "MessageAck", "n"),
                 Done(taken) \cup (IF p.type = "MessageAck" THEN {p["n"]} ELSE {}))
      BY <1>4, <2>2, ChainTypes, ListAdd DEF Acknowledging
    <3> QED BY <2>3, <2>5, <3>1
  <2>7. Acknowledging(taken)'
    BY <1>1, <1>4, <2>4, <2>6 DEF Acknowledging
  <2>8. Delivering(taken)'
    BY <1>1, <1>3, <2>1 DEF Delivering
  <2> QED BY <1>1, <1>2, <2>1, <2>7, <2>8, OrderStays DEF OrderAt
<1>8. CASE ~(TakeCspPayload \/ PollDone \/ OnPromotion)
  <2>1. task' = task /\ Handed' = Handed
    BY <1>1, <1>8 DEF DriverRuns, DriverNext, SendCsp, SendD2m, Polling, SenderFetched,
         ReflectReturns, OnD2m, OnBeginReply, OnTransactionEnded, OnCommitAck, OnReflectAck,
         OnReflected, DropUnsolicited, PollFetchSender, PollBeginTransaction,
         PollTransactionRejected, PollAbortTransaction, PollReflectAndCommit, PollReflectMessage,
         channels, driver, Handed
  <2>2. Replies' = Replies
    <3>1. CASE SendCsp
      BY <3>1, SendMoves
    <3>2. CASE ~SendCsp
      BY <1>8, <3>2 DEF DriverRuns, DriverNext, SendD2m, Polling, SenderFetched,
         ReflectReturns, OnD2m, OnBeginReply, OnTransactionEnded, OnCommitAck, OnReflectAck,
         OnReflected, DropUnsolicited, PollFetchSender, PollBeginTransaction,
         PollTransactionRejected, PollAbortTransaction, PollReflectAndCommit, PollReflectMessage,
         channels, driver, Replies
    <3> QED BY <3>1, <3>2
  <2>3. Delivering(taken)'
    BY <1>1, <1>3, <2>1 DEF Delivering
  <2> QED BY <1>1, <2>1, <2>2, <2>3, OrderKept
<1> QED BY <1>5, <1>6, <1>7, <1>8

LEMMA OrderElsewhere ==
  ASSUME TypeInv, NEW taken \in 0..sent, OrderAt(taken),
         \/ D2mRuns \/ MediatorActs \/ ConnectFails \/ ConnectCsp \/ ConnectD2m
         \/ TakeSendText \/ RunEnds \/ DropSender \/ UNCHANGED vars
         \/ \E command \in {"SendText", "Shutdown"} : Command(command)
  PROVE  OrderFrom(taken)
<1>1. UNCHANGED <<cspIn, cspOut, csp, chatServer, outCsp, task>>
  BY DEF D2mRuns, D2mNext, D2mHandshake, D2mReceive, D2mForward, D2mSend, D2mFlowEnds,
         MediatorActs, ConnectFails, ConnectCsp, ConnectD2m, TakeSendText, RunEnds, DropSender,
         Command, channels, driver, vars
<1>2. Replies' = Replies /\ Handed' = Handed /\ Frames' = Frames
  BY <1>1 DEF Replies, Handed, Frames, csp, chatServer
<1>3. Delivering(taken)'
  BY <1>1, <1>2 DEF OrderAt, Delivering, chatServer
<1> QED BY <1>1, <1>2, <1>3, OrderKept DEF chatServer

LEMMA OrderStep ==
  ASSUME TypeInv, TypeInv', QueueInv, QueueInv', NEW taken \in 0..sent, OrderAt(taken),
         [Next]_vars
  PROVE  OrderFrom(taken)
<1>1. CASE CspRuns
  BY <1>1, OrderHandshake, OrderCsp, OrderSend DEF CspRuns, CspNext
<1>2. CASE ~CspRuns
  BY <1>2, OrderServer, OrderDriver, OrderElsewhere DEF Next
<1> QED BY <1>1, <1>2

THEOREM OrderInvariant == Spec => []OrderInv
<1>1. Init => OrderFresh
  <2> SUFFICES ASSUME Init PROVE OrderFresh
    OBVIOUS
  <2>1. /\ cspBuf = <<>> /\ cspWire = <<>> /\ cspHand = <<>> /\ cspIn = <<>> /\ cspOut = <<>>
        /\ outCsp = <<>> /\ sent = 0 /\ acks = <<>> /\ task = 0
    BY DEF Init, WiringInit, CspInit, ServerInit, DriverInit
  <2>2. Replies = <<>> /\ Handed = <<>> /\ Frames = <<>>
    BY <2>1 DEF Replies, Handed, Frames
  <2>3. Rising(<<>>) /\ Range(<<>>) = {} /\ 1..0 = {}
    BY DEF Rising, Range
  <2> QED BY <2>1, <2>2, <2>3 DEF OrderFresh
<1>2. UnblockInv => QueueInv
  BY DEF UnblockInv
<1>3. TypeInv /\ TypeInv' /\ QueueInv /\ QueueInv' /\ OrderInv /\ [Next]_vars => OrderInv'
  BY OrderStep DEF OrderInv, OrderFrom
<1> QED BY UnblockInvariant, TypesInvariant, OrderInit, <1>1, <1>2, <1>3, PTL DEF Spec

\* No message is lost, duplicated or overtaken on its way to the driver, and the
\* acks on their way and at the server are those of the messages the driver is
\* done with (csp.rs:105-180 and e2e.rs:83-180).
THEOREM MessagesInOrder == Spec => []EachMessageOnceInOrder
<1>1. TypeInv /\ OrderInv => EachMessageOnceInOrder
  <2> SUFFICES ASSUME TypeInv, OrderInv PROVE EachMessageOnceInOrder
    OBVIOUS
  <2>0. PICK taken \in 0..sent : OrderAt(taken)
    BY DEF OrderInv
  <2>1. /\ task \in {0, taken}
        /\ List(Marks(Handed, "Message", "n"), Marks(Frames, "Message", "n"), taken + 1 .. sent)
        /\ cspLink = "open" =>
             List(acks, Marks(Replies, "MessageAck", "n"), (1..taken) \ (NoAck \cup {task}))
    BY <2>0 DEF OrderAt, Delivering, Acknowledging, Done
  <2> DEFINE coming == Marks(Handed \o Frames, "Message", "n")
             hand == IF task = 0 THEN <<>> ELSE <<task>>
             done == IF task = 0 THEN taken ELSE taken - 1
  <2>2. Handed \in Seq(Frame) /\ Frames \in Seq(Frame)
    BY ChainTypes, SeqMonotonic DEF Frame
  <2>3. Rising(coming) /\ Range(coming) = taken + 1 .. sent
    <3> DEFINE first == Marks(Handed, "Message", "n")
               second == Marks(Frames, "Message", "n")
    <3>1. /\ Rising(first) /\ Rising(second) /\ Range(first) \cup Range(second) = taken + 1 .. sent
          /\ \A m \in Range(first), n \in Range(second) : m < n
      BY <2>1 DEF List
    <3>2. Rising(coming) /\ Range(coming) = Range(first) \cup Range(second)
      BY <2>2, <3>1, MarksConcat
    <3> QED BY <3>1, <3>2
  <2>4. Rising(hand) /\ Range(hand) = IF task = 0 THEN {} ELSE {task}
    <3>1. CASE task = 0
      <4>1. hand = <<>> /\ DOMAIN hand = {}
        BY <3>1
      <4> HIDE DEF hand
      <4> QED BY <3>1, <4>1 DEF Rising, Range
    <3>2. CASE task # 0
      <4>1. DOMAIN hand = {1} /\ hand[1] = task
        BY <3>2
      <4> HIDE DEF hand
      <4> QED BY <3>2, <4>1 DEF Rising, Range
    <3> QED BY <3>1, <3>2
  <2>5. taken \in Nat /\ sent \in Nat /\ done \in 0..sent
    BY <2>1, ChainTypes
  <2>6. (IF task = 0 THEN {} ELSE {task}) \cup (taken + 1 .. sent) = done + 1 .. sent
    BY <2>1, <2>5
  <2>7. (1..taken) \ (NoAck \cup {task}) = (1..done) \ NoAck
    BY <2>1, <2>5
  <2>8. \A m \in (IF task = 0 THEN {} ELSE {task}), n \in taken + 1 .. sent : m < n
    BY <2>1, <2>5
  <2> HIDE DEF coming, hand, done
  <2>9. List(hand, coming, done + 1 .. sent)
    BY <2>3, <2>4, <2>6, <2>8 DEF List
  <2> QED BY <2>1, <2>5, <2>7, <2>9 DEF EachMessageOnceInOrder, coming, hand
<1> QED BY TypesInvariant, OrderInvariant, <1>1, PTL

-----------------------------------------------------------------------------
(* What has been reported has been seen.                                   *)

SeenInv ==
  /\ \A i \in 1..Len(events) : events[i].kind = "Direct" => events[i].key \in seen
  /\ NoDuplicateReport

\* An event that is no message's, or that of one not seen before.
LEMMA SeenAppend ==
  ASSUME TypeInv, SeenInv, NEW kind \in {"Connected", "Direct", "Reflected"}, NEW key \in Key \cup Nat,
         events' = Append(events, Event(kind, key)), seen \subseteq seen',
         kind = "Direct" => key \in seen' \ seen
  PROVE  SeenInv'
<1> DEFINE S == [kind: {"Connected", "Direct", "Reflected"}, key: Key \cup Nat]
           e == Event(kind, key)
<1>1. events \in Seq(S) /\ e \in S /\ e.kind = kind /\ e.key = key
  BY DEF TypeInv, TypeOK, ReportingTypeOK, Event
<1> HIDE DEF e, S
<1>2. /\ Len(events) \in Nat /\ Len(events') = Len(events) + 1 /\ events'[Len(events) + 1] = e
      /\ \A i \in 1..Len(events) : events'[i] = events[i]
  <2>1. events' = Append(events, e)
    BY DEF e
  <2> QED BY <1>1, <2>1, AppendProperties, LenProperties
<1>3. \A i \in 1..Len(events') : i \in 1..Len(events) \/ i = Len(events) + 1
  BY <1>2
<1>4. \A i \in 1..Len(events') : events'[i].kind = "Direct" => events'[i].key \in seen'
  BY <1>1, <1>2, <1>3 DEF SeenInv
<1>5. \A i, j \in 1..Len(events') :
        events'[i].kind = "Direct" /\ events'[j].kind = "Direct" /\ events'[i].key = events'[j].key
          => i = j
  <2> TAKE i, j \in 1..Len(events')
  <2> HAVE events'[i].kind = "Direct" /\ events'[j].kind = "Direct" /\ events'[i].key = events'[j].key
  <2>1. \A k \in 1..Len(events) : events[k].kind = "Direct" /\ kind = "Direct" => events[k].key # key
    BY DEF SeenInv
  <2>2. CASE i \in 1..Len(events) /\ j \in 1..Len(events)
    BY <1>2, <2>2 DEF SeenInv, NoDuplicateReport
  <2>3. CASE i \in 1..Len(events) /\ j = Len(events) + 1
    BY <1>1, <1>2, <2>1, <2>3
  <2>4. CASE j \in 1..Len(events) /\ i = Len(events) + 1
    BY <1>1, <1>2, <2>1, <2>4
  <2> QED BY <1>3, <2>2, <2>3, <2>4
<1> QED BY <1>4, <1>5 DEF SeenInv, NoDuplicateReport

LEMMA SeenDriver ==
  ASSUME TypeInv, SeenInv, DriverRuns
  PROVE  SeenInv'
<1>1. CASE PollDone
  <2>1. task \in 1..Total
    BY <1>1 DEF PollDone, TypeInv, TypeOK, DriverTypeOK
  <2> DEFINE key == Content[task]
  <2>2. key \in Key
    BY <2>1, DriverAssumption
  <2>3. CASE UNCHANGED reporting
    BY <2>3 DEF reporting, SeenInv, NoDuplicateReport
  <2>4. CASE AddOrUpdateIncomingMessage(key)
    <3>1. seen' = seen \cup {key}
          /\ events' = IF key \in TextKey \ seen THEN Append(events, Event("Direct", key)) ELSE events
      BY <2>4 DEF AddOrUpdateIncomingMessage
    <3> HIDE DEF key
    <3>2. CASE key \in TextKey \ seen
      BY <2>2, <3>1, <3>2, SeenAppend
    <3>3. CASE key \notin TextKey \ seen
      BY <3>1, <3>3 DEF SeenInv, NoDuplicateReport
    <3> QED BY <3>2, <3>3
  <2> QED BY <1>1, <2>3, <2>4 DEF PollDone
<1>2. CASE OnReflected
  <2> DEFINE id == Head(d2mIn).id
  <2>1. seen' = seen
        /\ events' = IF id \in TextReflection THEN Append(events, Event("Reflected", id)) ELSE events
    BY <1>2 DEF OnReflected, HandleReflectedEnvelope
  <2> HIDE DEF id
  <2>2. CASE id \in TextReflection
    <3>1. id \in Key \cup Nat
      BY <2>2, ReportingAssumption
    <3> QED BY <2>1, <2>2, <3>1, SeenAppend
  <2>3. CASE id \notin TextReflection
    BY <2>1, <2>3 DEF SeenInv, NoDuplicateReport
  <2> QED BY <2>2, <2>3
<1>3. CASE ~(PollDone \/ OnReflected)
  <2>1. UNCHANGED reporting
    BY <1>3 DEF DriverRuns, DriverNext, SendCsp, SendD2m, TakeCspPayload, Polling, SenderFetched,
         ReflectReturns, OnD2m, OnBeginReply, OnTransactionEnded, OnCommitAck, OnReflectAck,
         OnPromotion, DropUnsolicited, PollFetchSender, PollBeginTransaction,
         PollTransactionRejected, PollAbortTransaction, PollReflectAndCommit, PollReflectMessage
  <2> QED BY <2>1 DEF reporting, SeenInv, NoDuplicateReport
<1> QED BY <1>1, <1>2, <1>3

LEMMA SeenElsewhere ==
  ASSUME TypeInv, SeenInv, [Next]_vars, ~DriverRuns
  PROVE  SeenInv'
<1>1. CASE ConnectD2m
  <2>1. seen' = seen /\ events' = Append(events, Event("Connected", 0))
    BY <1>1 DEF ConnectD2m
  <2> QED BY <2>1, SeenAppend
<1>2. CASE ~ConnectD2m
  <2>1. UNCHANGED reporting
    BY <1>2 DEF Next, vars, CspRuns, D2mRuns, ConnectFails, ConnectCsp, TakeSendText, RunEnds,
         DropSender, Command, ChatServerActs, MediatorActs
  <2> QED BY <2>1 DEF reporting, SeenInv, NoDuplicateReport
<1> QED BY <1>1, <1>2

\* A message that arrives again is not reported again, wherever in its
\* processing the driver is and whatever was reported since: `seen` in
\* conversation.rs:97-104.
THEOREM ReportedOnce == Spec => []NoDuplicateReport
<1>1. Init => SeenInv
  BY DEF Init, ReportingInit, SeenInv, NoDuplicateReport
<1>2. TypeInv /\ SeenInv /\ [Next]_vars => SeenInv'
  BY SeenDriver, SeenElsewhere
<1> QED BY TypesInvariant, <1>1, <1>2, PTL DEF Spec, SeenInv
=============================================================================
