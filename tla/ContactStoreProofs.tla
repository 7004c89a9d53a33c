------------------------- MODULE ContactStoreProofs -------------------------
(***************************************************************************)
(* For every value of the constants: the contact store applies batches     *)
(* whole or not at all, as ContactBook says, and prints of a text what the *)
(* saved contacts say.                                                     *)
(***************************************************************************)
EXTENDS ContactStore, TLAPS, SequenceTheorems, FiniteSetTheorems, WellFoundedInduction

-----------------------------------------------------------------------------
(* Induction over the elements of a batch.                                 *)

LEMMA Least ==
  ASSUME NEW T, T \subseteq Nat, T # {}
  PROVE  \E x \in T : \A y \in T : x =< y
<1> DEFINE U == {1..n : n \in T}
<1>1. U \subseteq FiniteSubsetsOf(Nat) /\ U # {}
  <2>1. ASSUME NEW n \in T PROVE 1..n \in FiniteSubsetsOf(Nat)
    <3>1. IsFiniteSet(1..n) /\ 1..n \subseteq Nat
      BY FS_Interval
    <3> QED BY <3>1 DEF FiniteSubsetsOf
  <2> QED BY <2>1
<1>2. PICK u \in U : \A v \in U : ~ (<<v, u>> \in StrictSubsetOrdering(Nat))
  BY <1>1, FS_StrictSubsetOrderingWellFounded, WFMin
<1>3. PICK x \in T : u = 1..x
  OBVIOUS
<1>4. ASSUME NEW y \in T, y < x PROVE FALSE
  <2>1. 1..y \in U /\ 1..y \subseteq 1..x /\ x \in 1..x /\ x \notin 1..y
    BY <1>4
  <2>2. <<1..y, u>> \in StrictSubsetOrdering(Nat)
    BY <1>3, <2>1 DEF StrictSubsetOrdering
  <2> QED BY <1>2, <2>1, <2>2
<1> QED BY <1>4

LEMMA Induction ==
  ASSUME NEW T, 0 \in T, \A n \in Nat : n \in T => n + 1 \in T
  PROVE  Nat \subseteq T
<1> DEFINE R == Nat \ T
<1> SUFFICES ASSUME R # {} PROVE FALSE
  OBVIOUS
<1>1. PICK x \in R : \A y \in R : x =< y
  BY Least
<1>2. x # 0 /\ x - 1 \in Nat /\ x - 1 \notin R
  BY <1>1
<1> QED BY <1>2

LEMMA Greatest ==
  ASSUME NEW s, NEW m \in s, \A x \in s : m >= x, s \subseteq Nat
  PROVE  Max(s) = m /\ Book!Max(s) = m
<1> DEFINE P(x) == x \in s /\ \A y \in s : x >= y
<1>1. P(m)
  OBVIOUS
<1>2. P(CHOOSE x : P(x))
  <2> HIDE DEF P
  <2> QED BY <1>1
<1>3. \A x : P(x) => x = m
  OBVIOUS
<1>4. Max(s) = (CHOOSE x : P(x)) /\ Book!Max(s) = (CHOOSE x : P(x))
  BY DEF Max, Book!Max
<1> HIDE DEF P
<1> QED BY <1>2, <1>3, <1>4

LEMMA LastPlace ==
  ASSUME NEW n \in Nat, NEW s, s \subseteq 1..n, s # {}
  PROVE  \E m \in s : \A x \in s : m >= x
<1> DEFINE T == {n - x : x \in s}
<1>1. T \subseteq Nat /\ T # {}
  <2>1. \A x \in s : n - x \in Nat
    OBVIOUS
  <2> QED BY <2>1
<1>2. PICK t \in T : \A y \in T : t =< y
  BY <1>1, Least
<1>3. PICK m \in s : t = n - m
  BY <1>2
<1>4. ASSUME NEW x \in s PROVE m >= x
  <2>1. n - x \in T
    OBVIOUS
  <2> QED BY <1>2, <1>3, <2>1
<1> QED BY <1>4

-----------------------------------------------------------------------------
(* What a batch makes of the contacts.                                     *)

\* The element of a call that adds, or of one that updates.
Edit(op, contacts, element) ==
  IF op = "add" THEN Insert(contacts, element) ELSE Apply(contacts, element)

IsFold(g, op, contacts, batch, n) ==
  g = [s \in SUBSET (1..n) |->
         IF s = {} THEN contacts ELSE Edit(op, g[s \ {Max(s)}], batch[Max(s)])]

LEMMA FoldExists ==
  ASSUME NEW op, NEW contacts, NEW batch
  PROVE  \A n \in Nat : \E g : IsFold(g, op, contacts, batch, n)
<1> DEFINE T == {n \in Nat : \E g : IsFold(g, op, contacts, batch, n)}
<1>1. 0 \in T
  <2> DEFINE g == [s \in SUBSET (1..0) |-> contacts]
  <2>1. \A s \in SUBSET (1..0) : s = {}
    OBVIOUS
  <2>2. IsFold(g, op, contacts, batch, 0)
    BY <2>1 DEF IsFold
  <2> QED BY <2>2
<1>2. ASSUME NEW n \in Nat, n \in T PROVE n + 1 \in T
  <2>1. PICK g : IsFold(g, op, contacts, batch, n)
    BY <1>2
  <2> DEFINE h == [s \in SUBSET (1..n + 1) |->
                     IF n + 1 \in s THEN Edit(op, g[s \ {n + 1}], batch[n + 1]) ELSE g[s]]
  <2>2. ASSUME NEW s \in SUBSET (1..n + 1)
        PROVE  h[s] = IF s = {} THEN contacts ELSE Edit(op, h[s \ {Max(s)}], batch[Max(s)])
    <3>1. CASE n + 1 \in s
      <4>1. Max(s) = n + 1
        <5>1. n + 1 \in s /\ s \subseteq Nat /\ \A x \in s : n + 1 >= x
          BY <3>1
        <5> QED BY <5>1, Greatest
      <4>2. s \ {n + 1} \in SUBSET (1..n + 1) /\ n + 1 \notin s \ {n + 1}
        OBVIOUS
      <4>3. h[s \ {n + 1}] = g[s \ {n + 1}]
        BY <4>2
      <4> QED BY <3>1, <4>1, <4>3
    <3>2. CASE n + 1 \notin s
      <4>1. s \in SUBSET (1..n)
        BY <3>2
      <4>2. h[s] = g[s]
        BY <3>2
      <4>3. g[s] = IF s = {} THEN contacts ELSE Edit(op, g[s \ {Max(s)}], batch[Max(s)])
        BY <2>1, <4>1 DEF IsFold
      <4>4. s \ {Max(s)} \in SUBSET (1..n + 1) /\ n + 1 \notin s \ {Max(s)}
        BY <3>2
      <4>5. h[s \ {Max(s)}] = g[s \ {Max(s)}]
        BY <4>4
      <4> QED BY <4>2, <4>3, <4>5
    <3> QED BY <3>1, <3>2
  <2>3. IsFold(h, op, contacts, batch, n + 1)
    <3>1. h = [s \in SUBSET (1..n + 1) |-> h[s]]
      OBVIOUS
    <3> HIDE DEF h
    <3> QED BY <2>2, <3>1 DEF IsFold
  <2> HIDE DEF h
  <2> QED BY <2>3
<1>3. Nat \subseteq T
  <2> HIDE DEF T
  <2> QED BY <1>1, <1>2, Induction
<1> QED BY <1>3

LEMMA FoldSteps ==
  ASSUME NEW op, NEW contacts, NEW batch, NEW n \in Nat, NEW g, IsFold(g, op, contacts, batch, n)
  PROVE  /\ g[1..0] = contacts
         /\ \A k \in 0..n - 1 : g[1..k + 1] = Edit(op, g[1..k], batch[k + 1])
<1>1. g[{}] = contacts /\ 1..0 = {}
  BY DEF IsFold
<1>2. ASSUME NEW k \in 0..n - 1 PROVE g[1..k + 1] = Edit(op, g[1..k], batch[k + 1])
  <2>1. 1..k + 1 \in SUBSET (1..n) /\ k + 1 \in 1..k + 1
    OBVIOUS
  <2>2. Max(1..k + 1) = k + 1
    <3>1. 1..k + 1 \subseteq Nat /\ \A x \in 1..k + 1 : k + 1 >= x
      OBVIOUS
    <3> QED BY <2>1, <3>1, Greatest
  <2>3. (1..k + 1) \ {k + 1} = 1..k
    OBVIOUS
  <2> QED BY <2>1, <2>2, <2>3 DEF IsFold
<1> QED BY <1>1, <1>2

LEMMA InsertFold ==
  ASSUME NEW contacts, NEW batch, NEW n \in Nat, DOMAIN batch = 1..n
  PROVE  \E g : IsFold(g, "add", contacts, batch, n) /\ FoldLeft(Insert, contacts, batch) = g[1..n]
<1> DEFINE P(g) == g = [s \in SUBSET DOMAIN batch |->
                          IF s = {} THEN contacts ELSE Insert(g[s \ {Max(s)}], batch[Max(s)])]
           g0 == CHOOSE g : P(g)
<1>1. FoldLeft(Insert, contacts, batch) = g0[DOMAIN batch]
  BY DEF FoldLeft, MapThenFoldSet
<1>2. \A g : P(g) <=> IsFold(g, "add", contacts, batch, n)
  BY DEF IsFold, Edit
<1>3. \E g : IsFold(g, "add", contacts, batch, n)
  BY FoldExists
<1>4. \E g : P(g)
  BY <1>2, <1>3
<1>5. P(g0)
  <2> HIDE DEF P
  <2> QED BY <1>4
<1> HIDE DEF P, g0
<1> QED BY <1>1, <1>2, <1>5

LEMMA ApplyFold ==
  ASSUME NEW contacts, NEW batch, NEW n \in Nat, DOMAIN batch = 1..n
  PROVE  \E g : IsFold(g, "update", contacts, batch, n) /\ FoldLeft(Apply, contacts, batch) = g[1..n]
<1> DEFINE P(g) == g = [s \in SUBSET DOMAIN batch |->
                          IF s = {} THEN contacts ELSE Apply(g[s \ {Max(s)}], batch[Max(s)])]
           g0 == CHOOSE g : P(g)
<1>1. FoldLeft(Apply, contacts, batch) = g0[DOMAIN batch]
  BY DEF FoldLeft, MapThenFoldSet
<1>2. \A g : P(g) <=> IsFold(g, "update", contacts, batch, n)
  BY DEF IsFold, Edit
<1>3. \E g : IsFold(g, "update", contacts, batch, n)
  BY FoldExists
<1>4. \E g : P(g)
  BY <1>2, <1>3
<1>5. P(g0)
  <2> HIDE DEF P
  <2> QED BY <1>4
<1> HIDE DEF P, g0
<1> QED BY <1>1, <1>2, <1>5

\* The last contact with an identity is the one that is kept.
Inserted(contacts, batch, n) ==
  LET new == {batch[i].identity : i \in 1..n}
  IN [identity \in DOMAIN contacts \cup new |->
        IF identity \in new
        THEN batch[Max({i \in 1..n : batch[i].identity = identity})].contact
        ELSE contacts[identity]]

LEMMA InsertedStep ==
  ASSUME NEW contacts, NEW batch, NEW k \in Nat
  PROVE  Insert(Inserted(contacts, batch, k), batch[k + 1]) = Inserted(contacts, batch, k + 1)
<1> DEFINE new == {batch[i].identity : i \in 1..k}
           next == {batch[i].identity : i \in 1..k + 1}
           id == batch[k + 1].identity
           Places(n, x) == {i \in 1..n : batch[i].identity = x}
           f == Inserted(contacts, batch, k)
           h == Inserted(contacts, batch, k + 1)
<1>1. next = new \cup {id}
  <2>1. 1..k + 1 = (1..k) \cup {k + 1}
    OBVIOUS
  <2> QED BY <2>1
<1>2. Insert(f, batch[k + 1]) = [x \in DOMAIN f \cup {id} |-> IF x = id THEN batch[k + 1].contact ELSE f[x]]
  BY DEF Insert
<1>3. /\ DOMAIN f = DOMAIN contacts \cup new
      /\ \A x \in DOMAIN f : f[x] = IF x \in new THEN batch[Max(Places(k, x))].contact ELSE contacts[x]
  BY DEF Inserted
<1>4. h = [x \in DOMAIN contacts \cup next |->
             IF x \in next THEN batch[Max(Places(k + 1, x))].contact ELSE contacts[x]]
  BY DEF Inserted
<1>5. Max(Places(k + 1, id)) = k + 1
  <2>1. k + 1 \in Places(k + 1, id) /\ Places(k + 1, id) \subseteq Nat
        /\ \A i \in Places(k + 1, id) : k + 1 >= i
    OBVIOUS
  <2> QED BY <2>1, Greatest
<1>6. ASSUME NEW x, x # id PROVE Places(k + 1, x) = Places(k, x)
  BY <1>6
<1> HIDE DEF f, h, new, next, id, Places
<1>7. \A x \in DOMAIN contacts \cup next :
        (IF x = id THEN batch[k + 1].contact ELSE f[x])
          = IF x \in next THEN batch[Max(Places(k + 1, x))].contact ELSE contacts[x]
  BY <1>1, <1>3, <1>5, <1>6
<1>8. DOMAIN f \cup {id} = DOMAIN contacts \cup next
  BY <1>1, <1>3
<1>9. Insert(f, batch[k + 1]) = h
  BY <1>2, <1>4, <1>7, <1>8
<1> QED BY <1>9 DEF f, h

LEMMA FoldInserts ==
  ASSUME NEW contacts \in Contacts, NEW batch, NEW n \in Nat, DOMAIN batch = 1..n
  PROVE  FoldLeft(Insert, contacts, batch) = Inserted(contacts, batch, n)
<1>1. PICK g : IsFold(g, "add", contacts, batch, n) /\ FoldLeft(Insert, contacts, batch) = g[1..n]
  BY InsertFold
<1> DEFINE T == {k \in Nat : k =< n => g[1..k] = Inserted(contacts, batch, k)}
<1>2. g[1..0] = contacts /\ \A k \in 0..n - 1 : g[1..k + 1] = Insert(g[1..k], batch[k + 1])
  BY <1>1, FoldSteps DEF Edit
<1>3. 0 \in T
  <2>1. contacts = [identity \in DOMAIN contacts |-> contacts[identity]]
    BY DEF Contacts
  <2>2. Inserted(contacts, batch, 0) = [identity \in DOMAIN contacts |-> contacts[identity]]
    <3>1. {batch[i].identity : i \in 1..0} = {}
      OBVIOUS
    <3> QED BY <3>1 DEF Inserted
  <2> QED BY <1>2, <2>1, <2>2
<1>4. ASSUME NEW k \in Nat, k \in T PROVE k + 1 \in T
  <2> SUFFICES ASSUME k + 1 =< n PROVE g[1..k + 1] = Inserted(contacts, batch, k + 1)
    OBVIOUS
  <2>1. g[1..k] = Inserted(contacts, batch, k)
    BY <1>4
  <2>2. g[1..k + 1] = Insert(g[1..k], batch[k + 1])
    BY <1>2
  <2> QED BY <2>1, <2>2, InsertedStep
<1>5. Nat \subseteq T
  <2> HIDE DEF T
  <2> QED BY <1>3, <1>4, Induction
<1> QED BY <1>1, <1>5

\* The last delta that changes a field decides.
Decided(contacts, batch, n, identity, field) ==
  LET changes == {i \in 1..n : batch[i].identity = identity /\ batch[i].delta[field] # "unchanged"}
  IN IF changes = {} THEN contacts[identity][field]
     ELSE ApplyDelta(contacts[identity][field], batch[Max(changes)].delta[field])

Applied(contacts, batch, n) ==
  [identity \in DOMAIN contacts |->
     [field \in DOMAIN contacts[identity] |-> Decided(contacts, batch, n, identity, field)]]

LEMMA AppliedStep ==
  ASSUME NEW contacts, NEW batch, NEW k \in Nat, batch[k + 1].identity \in DOMAIN contacts
  PROVE  Apply(Applied(contacts, batch, k), batch[k + 1]) = Applied(contacts, batch, k + 1)
<1> DEFINE id == batch[k + 1].identity
           delta == batch[k + 1].delta
           Places(n, x, field) == {i \in 1..n : batch[i].identity = x /\ batch[i].delta[field] # "unchanged"}
           f == Applied(contacts, batch, k)
           h == Applied(contacts, batch, k + 1)
           Value(n, x, field) == Decided(contacts, batch, n, x, field)
<1>1. /\ f = [x \in DOMAIN contacts |-> [field \in DOMAIN contacts[x] |-> Value(k, x, field)]]
      /\ h = [x \in DOMAIN contacts |-> [field \in DOMAIN contacts[x] |-> Value(k + 1, x, field)]]
  BY DEF Applied
<1>2. Apply(f, batch[k + 1])
        = [x \in DOMAIN f |-> IF x = id THEN [field \in DOMAIN f[id] |-> ApplyDelta(f[id][field], delta[field])]
                                        ELSE f[x]]
  <2> HIDE DEF f
  <2> QED BY DEF Apply
<1>3. ASSUME NEW x, NEW field, x # id \/ delta[field] = "unchanged"
      PROVE  Value(k + 1, x, field) = Value(k, x, field)
  <2>1. Places(k + 1, x, field) = Places(k, x, field)
    BY <1>3
  <2> QED BY <2>1 DEF Decided
<1>4. ASSUME NEW field, delta[field] # "unchanged"
      PROVE  Value(k + 1, id, field) = ApplyDelta(contacts[id][field], delta[field])
  <2> DEFINE places == Places(k + 1, id, field)
  <2>1. k + 1 \in places /\ places \subseteq Nat /\ \A i \in places : k + 1 >= i
    BY <1>4
  <2>2. Max(places) = k + 1
    BY <2>1, Greatest
  <2> QED BY <2>1, <2>2 DEF Decided
<1>5. ASSUME NEW field PROVE Value(k + 1, id, field) = ApplyDelta(Value(k, id, field), delta[field])
  <2>1. CASE delta[field] = "unchanged"
    BY <1>3, <2>1 DEF ApplyDelta
  <2>2. CASE delta[field] # "unchanged"
    BY <1>4, <2>2 DEF ApplyDelta
  <2> QED BY <2>1, <2>2
<1> HIDE DEF f, h, id, delta, Value, Places
<1>6. \A x \in DOMAIN contacts :
        (IF x = id THEN [field \in DOMAIN f[id] |-> ApplyDelta(f[id][field], delta[field])] ELSE f[x]) = h[x]
  <2> TAKE x \in DOMAIN contacts
  <2>1. CASE x = id
    <3>1. f[id] = [field \in DOMAIN contacts[id] |-> Value(k, id, field)]
          /\ h[id] = [field \in DOMAIN contacts[id] |-> Value(k + 1, id, field)]
      BY <1>1, <2>1
    <3>2. [field \in DOMAIN f[id] |-> ApplyDelta(f[id][field], delta[field])] = h[id]
      BY <1>5, <3>1
    <3> QED BY <2>1, <3>2
  <2>2. CASE x # id
    BY <1>1, <1>3, <2>2
  <2> QED BY <2>1, <2>2
<1>7. Apply(f, batch[k + 1]) = h
  BY <1>1, <1>2, <1>6
<1> QED BY <1>7 DEF f, h

LEMMA FoldApplies ==
  ASSUME NEW contacts \in Contacts, NEW batch, NEW n \in Nat, DOMAIN batch = 1..n,
         \A i \in 1..n : batch[i].identity \in DOMAIN contacts
  PROVE  FoldLeft(Apply, contacts, batch) = Applied(contacts, batch, n)
<1>1. PICK g : IsFold(g, "update", contacts, batch, n) /\ FoldLeft(Apply, contacts, batch) = g[1..n]
  BY ApplyFold
<1> DEFINE T == {k \in Nat : k =< n => g[1..k] = Applied(contacts, batch, k)}
<1>2. g[1..0] = contacts /\ \A k \in 0..n - 1 : g[1..k + 1] = Apply(g[1..k], batch[k + 1])
  <2>1. \A c, e : Edit("update", c, e) = Apply(c, e)
    BY DEF Edit
  <2>2. /\ g[1..0] = contacts
        /\ \A k \in 0..n - 1 : g[1..k + 1] = Edit("update", g[1..k], batch[k + 1])
    BY <1>1, FoldSteps
  <2> QED BY <2>1, <2>2
<1>3. 0 \in T
  <2>1. contacts = [identity \in DOMAIN contacts |->
                      [field \in DOMAIN contacts[identity] |-> contacts[identity][field]]]
    BY DEF Contacts, Contact
  <2>2. \A identity, field : Decided(contacts, batch, 0, identity, field) = contacts[identity][field]
    BY DEF Decided
  <2> QED BY <1>2, <2>1, <2>2 DEF Applied
<1>4. ASSUME NEW k \in Nat, k \in T PROVE k + 1 \in T
  BY <1>2, <1>4, AppliedStep
<1>5. Nat \subseteq T
  <2> HIDE DEF T
  <2> QED BY <1>3, <1>4, Induction
<1> QED BY <1>1, <1>5

-----------------------------------------------------------------------------
(* Contacts stay contacts.                                                 *)

LEMMA BatchIsSequence ==
  ASSUME NEW S, NEW batch \in Batches(S)
  PROVE  /\ batch \in Seq(S) /\ Len(batch) \in Nat /\ DOMAIN batch = 1..Len(batch)
         /\ \A i \in 1..Len(batch) : batch[i] \in S
<1>1. PICK size \in 0..MaxBatch : batch \in [1..size -> S]
  BY DEF Batches
<1>2. size \in Nat
  <2>1. MaxBatch \in Nat
    BY ContactAssumption, Zenon
  <2> QED BY <2>1
<1>3. batch \in Seq(S)
  BY <1>1, <1>2, IsASeq
<1> QED BY <1>1, <1>3, LenProperties

LEMMA ContactsForm ==
  \A c : c \in Contacts <=>
    /\ c = [identity \in DOMAIN c |-> c[identity]]
    /\ DOMAIN c \subseteq Identity /\ \A identity \in DOMAIN c : c[identity] \in Contact
BY DEF Contacts

LEMMA InsertedContacts ==
  ASSUME NEW contacts \in Contacts, NEW batch \in Batches(Additions)
  PROVE  Inserted(contacts, batch, Len(batch)) \in Contacts
<1> DEFINE n == Len(batch)
           new == {batch[i].identity : i \in 1..n}
           Places(x) == {i \in 1..n : batch[i].identity = x}
           f == Inserted(contacts, batch, n)
<1>1. /\ n \in Nat
      /\ \A i \in 1..n : batch[i].identity \in Identity /\ batch[i].contact \in Contact
  <2>1. Additions \subseteq [identity: Identity, contact: Contact]
    BY ContactAssumption, Zenon
  <2>2. n \in Nat /\ \A i \in 1..n : batch[i] \in Additions
    BY BatchIsSequence
  <2> QED BY <2>1, <2>2
<1>2. f = [x \in DOMAIN contacts \cup new |->
             IF x \in new THEN batch[Max(Places(x))].contact ELSE contacts[x]]
  BY DEF Inserted
<1>3. ASSUME NEW x \in new PROVE Max(Places(x)) \in 1..n
  <2>1. PICK m \in Places(x) : \A y \in Places(x) : m >= y
    BY <1>1, <1>3, LastPlace
  <2>2. Max(Places(x)) = m
    <3>1. Places(x) \subseteq Nat
      BY <1>1
    <3> HIDE DEF Places
    <3> QED BY <2>1, <3>1, Greatest
  <2> QED BY <2>1, <2>2
<1>4. new \subseteq Identity
  BY <1>1
<1> HIDE DEF f, new, Places, n
<1>5. ASSUME NEW x \in DOMAIN contacts \cup new PROVE f[x] \in Contact
  BY <1>1, <1>2, <1>3, ContactsForm
<1>6. f \in Contacts
  BY <1>2, <1>4, <1>5, ContactsForm
<1> QED BY <1>6 DEF f, n

LEMMA AppliedContacts ==
  ASSUME NEW contacts \in Contacts, NEW batch \in Batches(Changes)
  PROVE  Applied(contacts, batch, Len(batch)) \in Contacts
<1> DEFINE n == Len(batch)
           f == Applied(contacts, batch, n)
           Fields == {"first", "last", "nick"}
           Places(x, field) == {i \in 1..n : batch[i].identity = x /\ batch[i].delta[field] # "unchanged"}
<1>1. n \in Nat /\ \A i \in 1..n : batch[i].delta \in Delta
  <2>1. Changes \subseteq [identity: Identity, delta: Delta]
    BY ContactAssumption, Zenon
  <2>2. n \in Nat /\ \A i \in 1..n : batch[i] \in Changes
    BY BatchIsSequence
  <2> QED BY <2>1, <2>2
<1>2. ASSUME NEW x \in DOMAIN contacts, NEW field \in Fields
      PROVE  Decided(contacts, batch, n, x, field) \in Name \cup {"none"}
  <2>1. contacts[x][field] \in Name \cup {"none"}
    BY ContactsForm DEF Contact
  <2>2. ASSUME Places(x, field) # {}
        PROVE  batch[Max(Places(x, field))].delta[field] \in Name \cup {"unchanged", "remove"}
    <3>1. PICK m \in Places(x, field) : \A y \in Places(x, field) : m >= y
      BY <1>1, <2>2, LastPlace
    <3>2. Max(Places(x, field)) = m /\ m \in 1..n
      <4>1. Places(x, field) \subseteq 1..n /\ Places(x, field) \subseteq Nat
        BY <1>1
      <4> HIDE DEF Places
      <4> QED BY <3>1, <4>1, Greatest
    <3> QED BY <1>1, <3>2 DEF Delta
  <2> QED BY <2>1, <2>2 DEF Decided, ApplyDelta
<1>3. \A x \in DOMAIN contacts : DOMAIN contacts[x] = Fields
  BY ContactsForm DEF Contact
<1> HIDE DEF n
<1>4. f = [x \in DOMAIN contacts |-> [field \in Fields |-> Decided(contacts, batch, n, x, field)]]
  BY <1>3 DEF Applied
<1>5. \A x \in DOMAIN contacts : f[x] \in Contact
  BY <1>2, <1>4 DEF Contact
<1>6. f \in Contacts
  <2> HIDE DEF f, Fields
  <2> QED BY <1>4, <1>5, ContactsForm
<1> QED BY <1>6 DEF n

-----------------------------------------------------------------------------
(* What a call saves is what ContactBook makes of the book.                *)

Saving == {"create", "write", "sync", "rename"}

\* The call under way may return, and memory is what the book will be then.
Becomes ==
  \/ /\ call.op = "add" /\ User \notin Book!Identities
     /\ Book!Identities \cap DOMAIN path.value = {}
     /\ memory = [identity \in DOMAIN path.value \cup Book!Identities |->
                    IF identity \in Book!Identities THEN Book!Added[identity]
                                                    ELSE path.value[identity]]
  \/ /\ call.op = "update" /\ Book!Identities \subseteq DOMAIN path.value \ {User}
     /\ memory = [identity \in DOMAIN path.value |->
                    [field \in DOMAIN path.value[identity] |-> Book!Changed(identity, field)]]

\* Only a run that saves, or fails, has in memory what the file has not.
BookInv ==
  /\ path.value \in Contacts /\ \A content \in durable : content.value \in Contacts
  /\ step \in {"idle", "down"} => call = NoCall
  /\ step = "idle" => memory = path.value
  /\ step \in Saving => memory \in Contacts /\ Becomes
  /\ step \in {"sync", "rename"} => tmp = Whole(memory)

LEMMA BookInit == Init => BookInv
<1>1. NoContacts \in Contacts
  BY ContactsForm DEF NoContacts
<1> QED BY <1>1 DEF Init, FileInit, BookInv, Absent, Saving

LEMMA BookAdd ==
  ASSUME BookInv, NEW batch \in Batches(Additions), AddCalled(batch)
  PROVE  BookInv'
<1> DEFINE n == Len(batch)
           new == {batch[i].identity : i \in 1..n}
<1>1. /\ step = "idle" /\ call' = [op |-> "add", batch |-> batch]
      /\ UNCHANGED <<path, tmp, synced, durable, powerLost>>
      /\ path.value \in Contacts /\ memory = path.value
  BY DEF AddCalled, Add, Mutate, BookInv
<1>2. CASE step' = "failed"
  BY <1>1, <1>2 DEF BookInv, Saving
<1>3. CASE step' # "failed"
  <2>1. /\ step' = "create" /\ memory' = FoldLeft(Insert, memory, batch)
        /\ \A i \in 1..n : batch[i].identity \notin DOMAIN memory \cup {User}
    BY <1>3 DEF AddCalled, Add, Mutate
  <2>2. memory' = Inserted(memory, batch, n) /\ memory' \in Contacts
    BY <1>1, <2>1, FoldInserts, BatchIsSequence, InsertedContacts
  <2>3. Book!Identities' = new
    BY <1>1 DEF Book!Identities
  <2>4. Book!Added' = [x \in new |-> batch[Max({i \in 1..n : batch[i].identity = x})].contact]
    BY <1>1, <2>3 DEF Book!Added, Book!Max, Max
  <2>5. memory' = [x \in DOMAIN path'.value \cup Book!Identities' |->
                     IF x \in Book!Identities' THEN Book!Added'[x] ELSE path'.value[x]]
    BY <1>1, <2>2, <2>3, <2>4 DEF Inserted
  <2>6. Becomes'
    BY <1>1, <2>1, <2>3, <2>5 DEF Becomes
  <2> QED BY <1>1, <2>1, <2>2, <2>6 DEF BookInv
<1> QED BY <1>2, <1>3

LEMMA BookUpdate ==
  ASSUME BookInv, NEW batch \in Batches(Changes), UpdateCalled(batch)
  PROVE  BookInv'
<1> DEFINE n == Len(batch)
<1>1. /\ step = "idle" /\ call' = [op |-> "update", batch |-> batch]
      /\ UNCHANGED <<path, tmp, synced, durable, powerLost>>
      /\ path.value \in Contacts /\ memory = path.value
  BY DEF UpdateCalled, Update, Mutate, BookInv
<1>2. CASE step' = "failed"
  BY <1>1, <1>2 DEF BookInv, Saving
<1>3. CASE step' # "failed"
  <2>1. /\ step' = "create" /\ Failing(batch) = {}
        /\ memory' = FoldLeft(Apply, memory, SubSeq(batch, 1, n))
    BY <1>3 DEF UpdateCalled, Update, Mutate, AppliedCount
  <2>2. SubSeq(batch, 1, n) = batch
    BY BatchIsSequence, SubSeqFull
  <2>3. \A i \in 1..n : batch[i].identity \in DOMAIN memory \ {User}
    BY <2>1 DEF Failing, Known
  <2>4. memory' = Applied(memory, batch, n) /\ memory' \in Contacts
    <3>1. n \in Nat /\ DOMAIN batch = 1..n /\ \A i \in 1..n : batch[i].identity \in DOMAIN memory
      BY <2>3, BatchIsSequence
    <3>2. memory \in Contacts
      BY <1>1
    <3>3. Applied(memory, batch, n) \in Contacts
      BY <3>2, AppliedContacts
    <3> HIDE DEF n
    <3>4. FoldLeft(Apply, memory, batch) = Applied(memory, batch, n)
      BY <3>1, <3>2, FoldApplies
    <3> QED BY <2>1, <2>2, <3>3, <3>4
  <2>5. Book!Identities' \subseteq DOMAIN path'.value \ {User}
    BY <1>1, <2>3 DEF Book!Identities
  <2>6. ASSUME NEW x, NEW field
        PROVE  Book!Changed(x, field)' = Decided(memory, batch, n, x, field)
    <3> DEFINE places == {i \in 1..n : batch[i].identity = x /\ batch[i].delta[field] # "unchanged"}
               delta == batch[Max(places)].delta[field]
    <3>1. call'.batch = batch /\ path'.value = memory
      BY <1>1
    <3>2. Book!Changed(x, field)' = CASE places = {} -> memory[x][field]
                                      [] places # {} /\ delta = "remove" -> "none"
                                      [] OTHER -> delta
      BY <3>1 DEF Book!Changed, Book!Max, Max
    <3>3. places # {} => delta # "unchanged"
      <4> SUFFICES ASSUME places # {} PROVE delta # "unchanged"
        OBVIOUS
      <4>1. n \in Nat
        BY BatchIsSequence
      <4>2. places \subseteq 1..n /\ places \subseteq Nat
        BY <4>1
      <4>3. PICK m \in places : \A y \in places : m >= y
        <5> HIDE DEF places, n
        <5> QED BY <4>1, <4>2, LastPlace
      <4>4. Max(places) = m
        <5> HIDE DEF places, n
        <5> QED BY <4>2, <4>3, Greatest
      <4> QED BY <4>3, <4>4
    <3>4. Decided(memory, batch, n, x, field)
            = IF places = {} THEN memory[x][field] ELSE ApplyDelta(memory[x][field], delta)
      BY DEF Decided
    <3> HIDE DEF places, delta
    <3> QED BY <3>2, <3>3, <3>4 DEF ApplyDelta
  <2>7. memory' = [x \in DOMAIN path'.value |->
                     [field \in DOMAIN path'.value[x] |-> Book!Changed(x, field)']]
    BY <1>1, <2>4, <2>6 DEF Applied
  <2>8. Becomes'
    BY <1>1, <2>5, <2>7 DEF Becomes
  <2> QED BY <1>1, <2>1, <2>4, <2>8 DEF BookInv
<1> QED BY <1>2, <1>3

LEMMA BookReport ==
  ASSUME BookInv, NEW text, ReportDirect(text) \/ ReportReflected(text)
  PROVE  BookInv'
<1>1. CASE UNCHANGED store
  BY <1>1 DEF ReportDirect, ReportReflected, store, BookInv, Saving
<1>2. CASE ~UNCHANGED store
  <2>1. step' = "failed" /\ UNCHANGED <<path, durable>>
    BY <1>2 DEF ReportDirect, ReportReflected, Mutate
  <2> QED BY <2>1 DEF BookInv, Saving
<1> QED BY <1>1, <1>2

LEMMA BookSaved ==
  ASSUME BookInv, Saved
  PROVE  BookInv'
<1>1. /\ step = "rename" /\ step' = "idle" /\ path' = tmp /\ call' = NoCall /\ memory' = memory
      /\ durable' = durable \cup {IF synced THEN tmp ELSE Torn : kind \in CrashKinds \cap {"power"}}
  BY DEF Saved, RenameTmp
<1>2. tmp = Whole(memory) /\ memory \in Contacts
  BY <1>1 DEF BookInv, Saving
<1>3. path'.value = memory
  BY <1>1, <1>2 DEF Whole
<1>4. NoContacts \in Contacts
  BY ContactsForm DEF NoContacts
<1>5. \A content \in durable' : content.value \in Contacts
  BY <1>1, <1>2, <1>4 DEF BookInv, Whole, Torn
<1> QED BY <1>1, <1>2, <1>3, <1>5 DEF BookInv, Saving

LEMMA BookOther ==
  ASSUME BookInv, OtherStep
  PROVE  BookInv'
<1>1. CASE LosesPower
  <2>1. path' \in durable /\ durable' = {path'} /\ step' = "down" /\ call' = NoCall
    BY <1>1 DEF OtherStep, LosesPower
  <2> QED BY <2>1 DEF BookInv, Saving
<1>2. CASE Load
  BY <1>2 DEF OtherStep, Load, BookInv, Saving
<1>3. CASE CreateTmp \/ WriteTmp \/ SyncTmp
  <2>1. /\ step \in Saving /\ UNCHANGED <<memory, path, durable, call>>
        /\ step' \in {"sync", "rename"} => tmp' = Whole(memory)
        /\ step' \in Saving
    BY <1>3 DEF OtherStep, CreateTmp, WriteTmp, SyncTmp, Saving, BookInv
  <2>2. Becomes <=> Becomes'
    BY <2>1 DEF Becomes, Book!Identities, Book!Added, Book!Changed
  <2> QED BY <2>1, <2>2 DEF BookInv, Saving
<1>4. CASE IoFails \/ RunFails \/ Dies
  <2>1. /\ UNCHANGED <<path, durable>> /\ step' \in {"failed", "down"}
        /\ step' = "down" => call' = NoCall
    BY <1>4 DEF OtherStep, IoFails, RunFails, Dies
  <2> QED BY <2>1 DEF BookInv, Saving
<1> QED BY <1>1, <1>2, <1>3, <1>4 DEF OtherStep, FileNext

LEMMA BookStep == BookInv /\ [Next]_vars => BookInv'
<1> SUFFICES ASSUME BookInv, [Next]_vars PROVE BookInv'
  OBVIOUS
<1>1. CASE UNCHANGED vars
  <2>1. UNCHANGED <<memory, path, tmp, durable, step, call>>
    BY <1>1 DEF vars, store
  <2>2. Becomes <=> Becomes'
    BY <2>1 DEF Becomes, Book!Identities, Book!Added, Book!Changed
  <2> QED BY <2>1, <2>2 DEF BookInv
<1> QED BY <1>1, BookAdd, BookUpdate, BookReport, BookSaved, BookOther DEF Next

THEOREM BookInvariant == Spec => []BookInv
BY BookInit, BookStep, PTL DEF Spec

-----------------------------------------------------------------------------
(* ContactStore implements ContactBook.                                    *)

BookNext == Book!Calls \/ Book!AddReturns \/ Book!UpdateReturns \/ Book!Fails

LEMMA StepMaps ==
  ASSUME "power" \notin CrashKinds, BookInv, [Next]_vars
  PROVE  [BookNext]_<<path.value, call>>
<1>1. CASE \E batch \in Batches(Additions) : AddCalled(batch)
  <2>1. PICK batch \in Batches(Additions) : AddCalled(batch)
    BY <1>1
  <2>2. call = NoCall /\ path' = path /\ call' = [op |-> "add", batch |-> batch]
    BY <2>1 DEF AddCalled, Add, Mutate, BookInv
  <2>3. Book!Calls
    BY <2>2 DEF Book!Calls, Book!NoCall, NoCall, Book!BatchesOf, Batches
  <2> QED BY <2>3 DEF BookNext
<1>2. CASE \E batch \in Batches(Changes) : UpdateCalled(batch)
  <2>1. PICK batch \in Batches(Changes) : UpdateCalled(batch)
    BY <1>2
  <2>2. call = NoCall /\ path' = path /\ call' = [op |-> "update", batch |-> batch]
    BY <2>1 DEF UpdateCalled, Update, Mutate, BookInv
  <2>3. Book!Calls
    BY <2>2 DEF Book!Calls, Book!NoCall, NoCall, Book!BatchesOf, Batches
  <2> QED BY <2>3 DEF BookNext
<1>3. CASE \E text \in Texts : ReportDirect(text) \/ ReportReflected(text)
  <2>1. path' = path /\ call' = call
    BY <1>3 DEF ReportDirect, ReportReflected, Mutate, store
  <2> QED BY <2>1
<1>4. CASE Saved
  <2>1. step = "rename" /\ path' = tmp /\ call' = NoCall
    BY <1>4 DEF Saved, RenameTmp
  <2>2. path'.value = memory /\ Becomes
    BY <2>1 DEF BookInv, Saving, Whole
  <2>3. Book!AddReturns \/ Book!UpdateReturns
    BY <2>1, <2>2 DEF Becomes, Book!AddReturns, Book!UpdateReturns, Book!NoCall, NoCall
  <2> QED BY <2>3 DEF BookNext
<1>5. CASE OtherStep
  <2>1. path' = path /\ call' \in {call, NoCall}
    BY <1>5 DEF OtherStep, FileNext, Load, CreateTmp, WriteTmp, SyncTmp, IoFails, RunFails, Dies,
                LosesPower
  <2>2. call' = NoCall => Book!Fails
    BY <2>1 DEF Book!Fails, Book!NoCall, NoCall
  <2> QED BY <2>1, <2>2 DEF BookNext
<1>6. CASE UNCHANGED vars
  BY <1>6 DEF vars, store
<1> QED BY <1>1, <1>2, <1>3, <1>4, <1>5, <1>6 DEF Next

\* For batches of every size: a call applies its whole batch and returns Ok, or
\* the file keeps nothing of it, wherever a batch or a save fails and wherever
\* the process dies (store.rs:287-348).  A power loss may undo calls that
\* returned, so none is considered.
THEOREM BatchesWhole ==
  ASSUME "power" \notin CrashKinds
  PROVE  Spec => WholeBatches
<1>1. Init => path.value = Book!NoContacts /\ call = Book!NoCall
  BY DEF Init, FileInit, Absent, Book!NoContacts, Book!NoCall, NoContacts, NoCall
<1>2. BookInv /\ [Next]_vars => [BookNext]_<<path.value, call>>
  BY StepMaps
<1> QED BY <1>1, <1>2, BookInvariant, PTL DEF Spec, WholeBatches, Book!Spec, BookNext

-----------------------------------------------------------------------------
(* What is printed of a text.                                              *)

LEMMA NamesAgree ==
  ASSUME NEW identity
  PROVE  ContactName(path.value, identity) = Book!NameOf(identity)
<1> DEFINE contact == path.value[identity]
           Given(part) == IF part = "none" THEN <<>> ELSE <<part>>
           full == Given(contact.first) \o Given(contact.last)
           words == {field \in {"first", "last"} : contact[field] # "none"}
<1>1. CASE ~Known(path.value, identity)
  BY <1>1 DEF ContactName, Known, Book!NameOf
<1>2. CASE Known(path.value, identity) /\ contact.nick \notin {"none", ""}
  <2>1. ContactName(path.value, identity) = <<contact.nick>>
    BY <1>2 DEF ContactName
  <2>2. Book!NameOf(identity) = <<contact["nick"]>>
    BY <1>2 DEF Known, Book!NameOf
  <2> QED BY <2>1, <2>2
<1>3. CASE Known(path.value, identity) /\ contact.nick \in {"none", ""}
  <2>1. ContactName(path.value, identity) = IF full = <<"">> THEN <<>> ELSE full
    BY <1>3 DEF ContactName
  <2>2. Book!NameOf(identity)
          = CASE words = {"first", "last"} -> <<contact["first"], contact["last"]>>
              [] \E field \in words : words = {field} /\ contact[field] # "" ->
                   <<contact[CHOOSE field \in words : TRUE]>>
              [] OTHER -> <<>>
    BY <1>3 DEF Known, Book!NameOf
  <2> HIDE DEF contact
  <2>3. CASE contact.first # "none" /\ contact.last # "none"
    <3>1. words = {"first", "last"}
      BY <2>3
    <3>2. full = <<contact.first>> \o <<contact.last>>
      BY <2>3
    <3>3. \A a, b : <<a>> \o <<b>> = <<a, b>>
      <4> TAKE a, b
      <4> DEFINE S == {a, b}
      <4>1. <<a>> \in Seq(S) /\ <<b>> \in Seq(S) /\ <<a, b>> \in Seq(S)
        OBVIOUS
      <4>2. Len(<<a>>) = 1 /\ Len(<<b>>) = 1 /\ Len(<<a, b>>) = 2
        OBVIOUS
      <4>3. /\ <<a>> \o <<b>> \in Seq(S) /\ Len(<<a>> \o <<b>>) = 2
            /\ (<<a>> \o <<b>>)[1] = a /\ (<<a>> \o <<b>>)[2] = b
        <5> HIDE DEF S
        <5> QED BY <4>1, <4>2, ConcatProperties
      <4>4. \A i \in 1..Len(<<a, b>>) : <<a, b>>[i] = (<<a>> \o <<b>>)[i]
        BY <4>2, <4>3
      <4> HIDE DEF S
      <4> QED BY <4>1, <4>2, <4>3, <4>4, SeqEqual
    <3>4. \A a, b : <<a, b>> # <<"">>
      <4> TAKE a, b
      <4>1. Len(<<a, b>>) = 2 /\ Len(<<"">>) = 1
        OBVIOUS
      <4> QED BY <4>1
    <3>5. full = <<contact.first, contact.last>> /\ full # <<"">>
      <4> HIDE DEF full
      <4> QED BY <3>2, <3>3, <3>4
    <3>6. Book!NameOf(identity) = <<contact["first"], contact["last"]>>
      <4>1. \A field : words # {field}
        BY <3>1
      <4> HIDE DEF words
      <4> QED BY <2>2, <3>1, <4>1
    <3>7. ContactName(path.value, identity) = full
      <4> HIDE DEF full
      <4> QED BY <2>1, <3>5
    <3> HIDE DEF words, full
    <3> QED BY <3>5, <3>6, <3>7
  <2>4. ASSUME NEW field \in {"first", "last"}, words = {field}, full = <<contact[field]>>
        PROVE  ContactName(path.value, identity) = Book!NameOf(identity)
    <3>1. (CHOOSE x \in words : TRUE) = field /\ words # {"first", "last"}
      BY <2>4
    <3> HIDE DEF words, full
    <3> QED BY <2>1, <2>2, <2>4, <3>1
  <2>5. CASE contact.first # "none" /\ contact.last = "none"
    <3>1. words = {"first"} /\ full = <<contact["first"]>>
      BY <2>5
    <3> QED BY <2>4, <3>1
  <2>6. CASE contact.first = "none" /\ contact.last # "none"
    <3>1. words = {"last"} /\ full = <<contact["last"]>>
      BY <2>6
    <3> QED BY <2>4, <3>1
  <2>7. CASE contact.first = "none" /\ contact.last = "none"
    <3>1. words = {} /\ full = <<>>
      BY <2>7
    <3> QED BY <2>1, <2>2, <3>1
  <2> QED BY <2>3, <2>5, <2>6, <2>7
<1> QED BY <1>1, <1>2, <1>3

LEMMA TextTypes ==
  \A text \in Texts :
    text.outgoing \in BOOLEAN
    /\ text.kind \in {"contact", "group", "malformed group", "list", "none"}
<1>1. Texts \subseteq [outgoing: BOOLEAN, peer: Identity \cup {"none"},
                       kind: {"contact", "group", "malformed group", "list", "none"}]
  BY ContactAssumption, Zenon
<1> QED BY <1>1

LEMMA LinesAgree ==
  ASSUME memory = path.value, NEW text \in Texts
  PROVE  /\ ~text.outgoing /\ text.kind \in {"contact", "group"} =>
              Line(DirectEvent(memory, text)) = Book!Shown(text, "direct")
         /\ Line(ReflectedEvent(memory, text)) = Book!Shown(text, "reflected")
<1>1. \A identity : ContactName(memory, identity) = Book!NameOf(identity)
  BY NamesAgree
<1>2. text.outgoing \in BOOLEAN
      /\ text.kind \in {"contact", "group", "malformed group", "list", "none"}
  BY TextTypes
<1>3. ASSUME ~text.outgoing, text.kind \in {"contact", "group"}
      PROVE  Line(DirectEvent(memory, text)) = Book!Shown(text, "direct")
  BY <1>1, <1>3 DEF Line, DirectEvent, ContactConversation, Conversation, Book!Shown
<1>4. Line(ReflectedEvent(memory, text)) = Book!Shown(text, "reflected")
  <2>1. CASE text.outgoing
    BY <1>1, <1>2, <2>1
    DEF Line, ReflectedEvent, SentTo, ContactConversation, Conversation, Book!Shown
  <2>2. CASE ~text.outgoing
    BY <1>1, <1>2, <2>2 DEF Line, ReflectedEvent, ContactConversation, Conversation, Book!Shown
  <2> QED BY <2>1, <2>2
<1> QED BY <1>3, <1>4

\* Whatever fails and however the process dies: what is printed of a text is what
\* the saved contacts say, and the same whichever way the text came, but for the
\* group of a reflected incoming one (conversation.rs:77-131, d2d.rs:31-115,
\* main.rs:27-65).
THEOREM LinesFromBook == Spec => PrintedFromBook
<1>1. BookInv /\ [Next]_vars =>
        [line' # NoLine => line'[3] = Book!Shown(line'[1], line'[2])]_vars
  <2> SUFFICES ASSUME BookInv, Next, line' # NoLine
               PROVE  line'[3] = Book!Shown(line'[1], line'[2])
    OBVIOUS
  <2>1. PICK text \in Texts : ReportDirect(text) \/ ReportReflected(text)
    BY DEF Next, AddCalled, UpdateCalled, Saved, OtherStep
  <2>2. memory = path.value
    BY <2>1 DEF ReportDirect, ReportReflected, BookInv
  <2>3. CASE ReportDirect(text)
    <3>1. /\ line' = <<text, "direct", Line(DirectEvent(memory, text))>>
          /\ ~text.outgoing /\ text.kind \in {"contact", "group"}
      BY <2>3 DEF ReportDirect, Reported
    <3> QED BY <2>2, <3>1, LinesAgree
  <2>4. CASE ReportReflected(text)
    <3>1. line' = <<text, "reflected", Line(ReflectedEvent(memory, text))>>
      BY <2>4 DEF ReportReflected, Reported
    <3> QED BY <2>2, <3>1, LinesAgree
  <2> QED BY <2>1, <2>3, <2>4
<1> QED BY <1>1, BookInvariant, PTL DEF Spec, PrintedFromBook
=============================================================================
