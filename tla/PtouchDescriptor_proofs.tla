------------------------ MODULE PtouchDescriptor_proofs ------------------------
(***************************************************************************)
(* The one pass over the descriptors decides what ptouch_usb_descriptor.h   *)
(* says of the whole list.  WalkInv relates what the pass remembers to what *)
(* it has read; the lemmas say how one more descriptor changes the          *)
(* interfaces, their endpoints and the offers of the pair.                  *)
(***************************************************************************)
EXTENDS PtouchDescriptor, FiniteSetTheorems, TLAPS

USE ItemsAssumption

-----------------------------------------------------------------------------
(* Counting.                                                               *)

\* At most one element: any two are the same.
LEMMA AtMostOne ==
  ASSUME NEW S, IsFiniteSet(S)
  PROVE  Cardinality(S) <= 1 <=> \A x, y \in S : x = y
<1>1. Cardinality(S) \in Nat BY FS_CardinalityType
<1>2. Cardinality(S) <= 1 <=> Cardinality(S) = 0 \/ Cardinality(S) = 1 BY <1>1
<1>3. Cardinality(S) = 0 <=> S = {} BY FS_EmptySet
<1>4. Cardinality(S) = 1 <=> \E x : S = {x} BY FS_Singleton
<1>5. (\A x, y \in S : x = y) <=> S = {} \/ \E x : S = {x}
  <2>1. ASSUME \A x, y \in S : x = y, S # {} PROVE \E x : S = {x}
    <3>1. PICK x \in S : TRUE BY <2>1
    <3>2. S = {x} BY <2>1, <3>1
    <3>3. QED BY <3>2
  <2>2. QED BY <2>1
<1>6. QED BY <1>2, <1>3, <1>4, <1>5

\* What is counted is finite.
LEMMA PositionsFinite ==
  ASSUME items \in Seq(Items)
  PROVE  /\ IsFiniteSet(Offers)
         /\ \A k \in InterfacePositions : \A a : IsFiniteSet(At(k, a))
<1>1. IsFiniteSet(1..Len(items)) BY FS_Interval
<1>2. Offers \in SUBSET (1..Len(items)) BY DEF Offers, InterfacePositions
<1>3. ASSUME NEW k \in InterfacePositions, NEW a PROVE At(k, a) \in SUBSET (1..Len(items))
  <2>1. k \in 1..Len(items) BY DEF InterfacePositions
  <2>2. (k + 1)..Len(items) \subseteq 1..Len(items) BY <2>1
  <2>3. QED BY <2>2 DEF At, EndpointsOf
<1>4. QED BY <1>1, <1>2, <1>3, FS_Subset

\* A well-formed list has no address twice in an interface.
LEMMA WellFormedMeans ==
  ASSUME items \in Seq(Items)
  PROVE  WellFormed <=>
           /\ config
           /\ \A j \in 1..Len(items) :
                /\ items[j].type # "malformed"
                /\ items[j].type = "endpoint" =>
                     /\ items[j].transfer # "bulkNoSize"
                     /\ \E k \in InterfacePositions : k < j
           /\ \A k \in InterfacePositions : \A a \in {"OUT", "IN"} :
                \A x, y \in At(k, a) : x = y
<1>1. \A k \in InterfacePositions : \A a \in {"OUT", "IN"} :
        Cardinality(At(k, a)) <= 1 <=> \A x, y \in At(k, a) : x = y
  BY PositionsFinite, AtMostOne
<1>2. QED BY <1>1 DEF WellFormed

-----------------------------------------------------------------------------
(* One more descriptor.                                                    *)

Bulk(i) == i.type = "endpoint" /\ i.transfer = "bulk"

\* The new descriptor is the last one; an interface is a new position.
LEMMA Reading ==
  ASSUME items \in Seq(Items), NEW i \in Items, items' = Append(items, i)
  PROVE  /\ items' \in Seq(Items) /\ Len(items') = Len(items) + 1 /\ Len(items) \in Nat
         /\ items'[Len(items) + 1] = i
         /\ \A j \in 1..Len(items) : items'[j] = items[j]
         /\ InterfacePositions \subseteq 1..Len(items)
         /\ i.type = "interface" =>
              InterfacePositions' = InterfacePositions \cup {Len(items) + 1}
         /\ i.type # "interface" => InterfacePositions' = InterfacePositions
<1>1. /\ items' \in Seq(Items) /\ Len(items') = Len(items) + 1 /\ Len(items) \in Nat
      /\ items'[Len(items) + 1] = i
      /\ \A j \in 1..Len(items) : items'[j] = items[j]
  OBVIOUS
<1>2. \A j : j \in 1..Len(items') <=> j \in 1..Len(items) \/ j = Len(items) + 1
  BY <1>1
<1>3. \A j : j \in InterfacePositions' <=>
        j \in InterfacePositions \/ (j = Len(items) + 1 /\ i.type = "interface")
  BY <1>1, <1>2 DEF InterfacePositions
<1>4. QED BY <1>1, <1>3 DEF InterfacePositions

\* It is an endpoint of the last interface, if it is a bulk endpoint, and of no other.
LEMMA EndpointsAfter ==
  ASSUME items \in Seq(Items), NEW i \in Items, items' = Append(items, i),
         NEW k \in InterfacePositions
  PROVE  \A j : j \in EndpointsOf(k)' <=>
           \/ j \in EndpointsOf(k)
           \/ j = Len(items) + 1 /\ Bulk(i) /\ \A m \in InterfacePositions : m <= k
<1> DEFINE n == Len(items) + 1
<1>1. /\ Len(items') = n /\ Len(items) \in Nat /\ items'[n] = i
      /\ \A j \in 1..Len(items) : items'[j] = items[j]
      /\ k \in 1..Len(items)
  BY Reading
<1>2. ASSUME NEW j \in (k + 1)..Len(items)
      PROVE  j \in EndpointsOf(k)' <=> j \in EndpointsOf(k)
  <2>1. j \in 1..Len(items) /\ j \in (k + 1)..Len(items') BY <1>1
  <2>2. \A m \in (k + 1)..j : m \in 1..Len(items) BY <1>1, <2>1
  <2>3. \A m \in (k + 1)..j : items'[m] = items[m] BY <1>1, <2>2
  <2>4. items'[j] = items[j] BY <1>1, <2>1
  <2>5. QED BY <2>1, <2>3, <2>4, ZenonT(40) DEF EndpointsOf
<1>3. n \in EndpointsOf(k)' <=> Bulk(i) /\ \A m \in InterfacePositions : m <= k
  <2>1. n \in (k + 1)..Len(items') BY <1>1
  <2>2. ASSUME Bulk(i)
        PROVE  (\A m \in (k + 1)..n : items'[m].type # "interface")
                 <=> \A m \in InterfacePositions : m <= k
    <3>1. \A m \in (k + 1)..n : m = n \/ m \in (k + 1)..Len(items) BY <1>1
    <3>2. \A m \in (k + 1)..Len(items) : m \in 1..Len(items) /\ m \in (k + 1)..n BY <1>1
    <3>3. (\A m \in (k + 1)..n : items'[m].type # "interface")
            <=> \A m \in (k + 1)..Len(items) : items[m].type # "interface"
      BY <1>1, <2>2, <3>1, <3>2 DEF Bulk
    <3>4. \A m \in 1..Len(items) : m \in (k + 1)..Len(items) <=> ~(m <= k) BY <1>1
    <3>5. QED BY <3>2, <3>3, <3>4 DEF InterfacePositions
  <2>3. QED BY <1>1, <2>1, <2>2 DEF EndpointsOf, Bulk
<1>4. \A j : j \in EndpointsOf(k)' => j \in (k + 1)..Len(items) \/ j = n
  BY <1>1 DEF EndpointsOf
<1>5. \A j \in EndpointsOf(k) : j \in (k + 1)..Len(items) BY DEF EndpointsOf
<1>6. n \notin EndpointsOf(k) BY <1>1, <1>5
<1>7. QED BY <1>2, <1>3, <1>4, <1>5, <1>6

\* An interface just entered has no endpoints yet.
LEMMA NewInterfaceIsEmpty ==
  ASSUME items \in Seq(Items), NEW i \in Items, items' = Append(items, i), NEW a,
         NEW k, k = Len(items) + 1
  PROVE  At(k, a)' = {}
<1>1. Len(items') = k /\ k \in Nat BY Reading
<1>2. (k + 1)..Len(items') = {} BY <1>1
<1>3. QED BY <1>2 DEF At, EndpointsOf

\* By address, an endpoint that is there or that joins.
LEMMA AddressesAfter ==
  ASSUME items \in Seq(Items), NEW i \in Items, items' = Append(items, i),
         NEW k \in InterfacePositions, NEW a
  PROVE  /\ Len(items) + 1 \notin At(k, a)
         /\ \A j : j \in At(k, a)' <=>
              \/ j \in At(k, a)
              \/ /\ j = Len(items) + 1 /\ Bulk(i) /\ i.address = a
                 /\ \A m \in InterfacePositions : m <= k
<1>1. /\ Len(items) \in Nat /\ items'[Len(items) + 1] = i /\ k \in 1..Len(items)
      /\ \A j \in 1..Len(items) : items'[j] = items[j]
  BY Reading
<1>2. \A j \in EndpointsOf(k) : j \in 1..Len(items) /\ j # Len(items) + 1
  BY <1>1 DEF EndpointsOf
<1>3. QED BY <1>1, <1>2, EndpointsAfter DEF At

\* A descriptor that is no bulk endpoint of the last interface adds no endpoint, and
\* no offer.
LEMMA NothingOffered ==
  ASSUME items \in Seq(Items), NEW i \in Items, items' = Append(items, i), ~Bulk(i)
  PROVE  /\ \A k \in InterfacePositions : \A a : At(k, a)' = At(k, a)
         /\ Offers' = Offers
<1>1. ASSUME NEW k \in InterfacePositions, NEW a PROVE At(k, a)' = At(k, a)
  <2>1. \A j : j \in At(k, a)' <=> j \in At(k, a) BY AddressesAfter
  <2>2. QED BY <2>1 DEF At
<1>2. ASSUME NEW k \in InterfacePositions PROVE k \in Offers' <=> k \in Offers
  BY <1>1, Reading DEF Offers
<1>3. ASSUME NEW k \in InterfacePositions', k \notin InterfacePositions
      PROVE  k \notin Offers'
  <2>1. k = Len(items) + 1 BY <1>3, Reading
  <2>2. At(k, "OUT")' = {} BY <2>1, NewInterfaceIsEmpty
  <2>3. QED BY <2>2 DEF Offers
<1>4. Offers' \subseteq InterfacePositions' /\ Offers \subseteq InterfacePositions
  BY DEF Offers
<1>5. InterfacePositions \subseteq InterfacePositions' BY Reading
<1>6. QED BY <1>1, <1>2, <1>3, <1>4, <1>5

\* A bulk endpoint of the last interface, at k, joins that interface only.
LEMMA OfferedByLast ==
  ASSUME items \in Seq(Items), NEW i \in Items, items' = Append(items, i), Bulk(i),
         NEW k \in InterfacePositions, \A m \in InterfacePositions : m <= k
  PROVE  /\ InterfacePositions' = InterfacePositions /\ items'[k] = items[k]
         /\ \A a : At(k, a)' = At(k, a) \cup (IF i.address = a THEN {Len(items) + 1} ELSE {})
         /\ \A m \in InterfacePositions : m # k => \A a : At(m, a)' = At(m, a)
         /\ Offers' = Offers \cup (IF k \in Offers' THEN {k} ELSE {})
         /\ k \in Offers' <=> /\ items[k].alt = 0
                              /\ i.address = "OUT" \/ At(k, "OUT") # {}
                              /\ i.address = "IN" \/ At(k, "IN") # {}
<1>1. InterfacePositions' = InterfacePositions /\ InterfacePositions \subseteq 1..Len(items)
      /\ (\A j \in 1..Len(items) : items'[j] = items[j]) /\ Len(items) \in Nat
  BY Reading DEF Bulk
<1>2. \A a : At(k, a)' = At(k, a) \cup (IF i.address = a THEN {Len(items) + 1} ELSE {})
  <2>1. TAKE a
  <2>2. \A j : j \in At(k, a)' <=>
          j \in At(k, a) \cup (IF i.address = a THEN {Len(items) + 1} ELSE {})
    BY AddressesAfter
  <2>3. QED BY <2>2 DEF At
<1>3. ASSUME NEW m \in InterfacePositions, m # k, NEW a PROVE At(m, a)' = At(m, a)
  <2>1. ~(k <= m) BY <1>1, <1>3
  <2>2. \A j : j \in At(m, a)' <=> j \in At(m, a) BY <2>1, AddressesAfter
  <2>3. QED BY <2>2 DEF At
<1>4. \A m \in InterfacePositions : m # k => (m \in Offers' <=> m \in Offers)
  BY <1>1, <1>3 DEF Offers
<1>5. k \in Offers' <=> /\ items[k].alt = 0
                        /\ i.address = "OUT" \/ At(k, "OUT") # {}
                        /\ i.address = "IN" \/ At(k, "IN") # {}
  BY <1>1, <1>2 DEF Offers
<1>6. k \in Offers => k \in Offers' BY <1>5 DEF Offers
<1>7. Offers' = Offers \cup (IF k \in Offers' THEN {k} ELSE {})
  <2>1. Offers \subseteq InterfacePositions /\ Offers' \subseteq InterfacePositions
    BY <1>1 DEF Offers
  <2>2. QED BY <1>4, <1>6, <2>1
<1>8. items'[k] = items[k] BY <1>1
<1>9. \A m \in InterfacePositions : m # k => \A a : At(m, a)' = At(m, a) BY <1>3
<1>10. QED BY <1>1, <1>2, <1>5, <1>7, <1>8, <1>9

-----------------------------------------------------------------------------
(* The steps of the pass.                                                  *)

\* What the pass passes over leaves a well-formed list well formed, unless it
\* repeats an address.
LEMMA StaysWellFormed ==
  ASSUME items \in Seq(Items), NEW i \in Items, items' = Append(items, i), config' = config,
         WellFormed, i.type # "malformed",
         i.type = "endpoint" => i.transfer # "bulkNoSize" /\ InterfacePositions # {},
         \A k \in InterfacePositions' : \A a \in {"OUT", "IN"} :
           \A x, y \in At(k, a)' : x = y
  PROVE  WellFormed'
<1>1. /\ items' \in Seq(Items) /\ Len(items') = Len(items) + 1 /\ Len(items) \in Nat
      /\ items'[Len(items) + 1] = i
      /\ \A j \in 1..Len(items) : items'[j] = items[j]
      /\ InterfacePositions \subseteq 1..Len(items)
      /\ InterfacePositions \subseteq InterfacePositions'
  BY Reading
<1>2. ASSUME NEW j \in 1..Len(items')
      PROVE  /\ items'[j].type # "malformed"
             /\ items'[j].type = "endpoint" =>
                  /\ items'[j].transfer # "bulkNoSize"
                  /\ \E k \in InterfacePositions' : k < j
  <2>1. CASE j \in 1..Len(items) BY <1>1, <2>1, WellFormedMeans
  <2>2. CASE j = Len(items) + 1
    <3>1. \A k \in InterfacePositions : k < j BY <1>1, <2>2
    <3>2. QED BY <1>1, <2>2, <3>1
  <2>3. QED BY <1>1, <2>1, <2>2
<1>3. config BY DEF WellFormed
<1>4. ASSUME NEW k \in InterfacePositions', NEW a \in {"OUT", "IN"}
      PROVE  Cardinality(At(k, a)') <= 1
  <2>1. At(k, a)' \in SUBSET (1..Len(items'))
    <3>1. k \in 1..Len(items') BY DEF InterfacePositions
    <3>2. (k + 1)..Len(items') \subseteq 1..Len(items') BY <1>1, <3>1
    <3>3. QED BY <3>2 DEF At, EndpointsOf
  <2>2. IsFiniteSet(1..Len(items')) BY <1>1, FS_Interval
  <2>3. IsFiniteSet(At(k, a)') BY <2>1, <2>2, FS_Subset
  <2>4. QED BY <1>4, <2>3, AtMostOne
<1>5. QED BY <1>2, <1>3, <1>4 DEF WellFormed

\* What the pass remembers, without the quantifiers: the last interface at k.
LEMMA RecallInterface ==
  ASSUME Remembered, current.have
  PROVE  \E k \in InterfacePositions :
           /\ \A m \in InterfacePositions : m <= k
           /\ current.number = items[k].number /\ current.alt = items[k].alt
           /\ current.out <=> At(k, "OUT") # {}
           /\ current.in <=> At(k, "IN") # {}
           /\ current.recorded <=> k \in Offers
BY DEF Remembered, CurrentIs

\* It rejects only what is not well formed or offers the pair twice.
LEMMA RejectItemKeeps ==
  ASSUME WalkInv, NEW i \in Items, RejectItem(i)
  PROVE  WalkInv'
<1> DEFINE n == Len(items) + 1
<1>1. /\ items \in Seq(Items) /\ items' = Append(items, i) /\ config' = config /\ config
      /\ verdict' = "reject" /\ found' = found /\ Remembered /\ WellFormed /\ found \in BOOLEAN
  BY DEF RejectItem, Reads, WalkInv
<1>2. /\ items' \in Seq(Items) /\ Len(items') = n /\ n \in Nat /\ items'[n] = i
      /\ InterfacePositions \subseteq 1..Len(items)
      /\ i.type # "interface" => InterfacePositions' = InterfacePositions
      /\ n \in 1..Len(items')
  BY <1>1, Reading
<1>3. CASE i.type = "malformed" \/ (i.type = "endpoint" /\ i.transfer = "bulkNoSize")
  <2>1. ~WellFormed' BY <1>2, <1>3 DEF WellFormed
  <2>2. QED BY <1>1, <1>2, <2>1 DEF WalkInv, SelectsTheOnlyPair
<1>4. CASE i.type = "endpoint" /\ ~current.have
  <2>1. InterfacePositions' = {} BY <1>1, <1>2, <1>4 DEF Remembered
  <2>2. ~WellFormed' BY <1>2, <1>4, <2>1 DEF WellFormed
  <2>3. QED BY <1>1, <1>2, <2>2 DEF WalkInv, SelectsTheOnlyPair
<1>5. CASE /\ current.have /\ Bulk(i)
           /\ \/ i.address = "OUT" /\ current.out
              \/ i.address = "IN" /\ current.in
  <2>1. PICK k \in InterfacePositions :
          /\ \A m \in InterfacePositions : m <= k
          /\ current.out <=> At(k, "OUT") # {}
          /\ current.in <=> At(k, "IN") # {}
    BY <1>1, <1>5, RecallInterface
  <2>2. PICK a \in {"OUT", "IN"} : i.address = a /\ At(k, a) # {} BY <1>5, <2>1
  <2>3. PICK j : j \in At(k, a) BY <2>2
  <2>4. j # n /\ j \in At(k, a)' /\ n \in At(k, a)'
    BY <1>1, <1>5, <2>1, <2>2, <2>3, AddressesAfter
  <2>5. k \in InterfacePositions' BY <1>2, <1>5 DEF Bulk
  <2>6. ~WellFormed'
    <3>1. IsFiniteSet(1..Len(items')) BY <1>2, FS_Interval
    <3>2. At(k, a)' \in SUBSET (1..Len(items'))
      <4>1. k \in 1..Len(items') BY <2>5 DEF InterfacePositions
      <4>2. (k + 1)..Len(items') \subseteq 1..Len(items') BY <1>2, <4>1
      <4>3. QED BY <4>2 DEF At, EndpointsOf
    <3>3. IsFiniteSet(At(k, a)') BY <3>1, <3>2, FS_Subset
    <3>4. ~(Cardinality(At(k, a)') <= 1) BY <2>4, <3>3, AtMostOne
    <3>5. QED BY <2>5, <3>4 DEF WellFormed
  <2>7. QED BY <1>1, <1>2, <2>6 DEF WalkInv, SelectsTheOnlyPair
<1>6. CASE current.have /\ Bulk(i) /\ Completes(i) /\ found
  <2>1. PICK k \in InterfacePositions :
          /\ \A m \in InterfacePositions : m <= k
          /\ current.alt = items[k].alt
          /\ current.out <=> At(k, "OUT") # {}
          /\ current.in <=> At(k, "IN") # {}
          /\ current.recorded <=> k \in Offers
    BY <1>1, <1>6, RecallInterface
  <2>2. /\ ~current.recorded /\ current.alt = 0
        /\ current.out \/ i.address = "OUT"
        /\ current.in \/ i.address = "IN"
    BY <1>1, <1>6 DEF Completes, WithEndpoint, Remembered
  <2>3. k \in Offers' /\ Offers \subseteq Offers'
    BY <1>1, <1>6, <2>1, <2>2, OfferedByLast
  <2>4. PICK p \in Offers : TRUE BY <1>1, <1>6 DEF Remembered
  <2>5. p # k /\ p \in Offers' BY <2>1, <2>2, <2>3, <2>4
  <2>6. Cardinality(Offers') # 1
    <3>1. IsFiniteSet(1..Len(items')) BY <1>2, FS_Interval
    <3>2. Offers' \in SUBSET (1..Len(items')) BY DEF Offers, InterfacePositions
    <3>3. IsFiniteSet(Offers') BY <3>1, <3>2, FS_Subset
    <3>4. ~(Cardinality(Offers') <= 1) BY <2>3, <2>5, <3>3, AtMostOne
    <3>5. QED BY <3>4
  <2>7. QED BY <1>1, <1>2, <2>6 DEF WalkInv, SelectsTheOnlyPair
<1>7. QED BY <1>3, <1>4, <1>5, <1>6 DEF RejectItem, Rejects, Bulk

\* An interface starts empty, and is the last one.
LEMMA EnterInterfaceKeeps ==
  ASSUME WalkInv, NEW i \in Interfaces, EnterInterface(i)
  PROVE  WalkInv'
<1> DEFINE n == Len(items) + 1
<1>0. i \in Items /\ i.type = "interface" /\ i.number \in Numbers /\ i.alt \in Alternates
  BY DEF Items, Interfaces
<1>1. /\ items \in Seq(Items) /\ items' = Append(items, i) /\ config' = config /\ config
      /\ verdict' = verdict /\ verdict = "walking" /\ found' = found /\ candidate' = candidate
      /\ current' = Entered(i) /\ Remembered /\ WellFormed /\ found \in BOOLEAN
  BY DEF EnterInterface, Reads, WalkInv
<1>2. /\ items' \in Seq(Items) /\ n \in Nat /\ items'[n] = i /\ Len(items) \in Nat
      /\ \A j \in 1..Len(items) : items'[j] = items[j]
      /\ InterfacePositions \subseteq 1..Len(items)
      /\ InterfacePositions' = InterfacePositions \cup {n}
  BY <1>0, <1>1, Reading
<1>3. /\ \A k \in InterfacePositions : \A a : At(k, a)' = At(k, a)
      /\ Offers' = Offers
  BY <1>0, <1>1, NothingOffered DEF Bulk
<1>4. /\ current' = [have |-> TRUE, recorded |-> FALSE, number |-> i.number, alt |-> i.alt,
                     out |-> FALSE, in |-> FALSE]
  BY <1>1 DEF Entered, NoInterface
<1>5. \A k : k = n => \A a : At(k, a)' = {} BY <1>0, <1>1, NewInterfaceIsEmpty
<1>6. \E k \in InterfacePositions' : CurrentIs(k)'
  <2>1. PICK k : k = n OBVIOUS
  <2>2. k \in InterfacePositions' /\ \A j \in InterfacePositions' : j <= k BY <1>2, <2>1
  <2>3. At(k, "OUT")' = {} /\ At(k, "IN")' = {} BY <1>5, <2>1
  <2>4. k \notin Offers' BY <2>3 DEF Offers
  <2>5. items'[k] = i BY <1>2, <2>1
  <2>6. QED BY <1>4, <2>2, <2>3, <2>4, <2>5 DEF CurrentIs
<1>7. found' => \E k \in Offers' : Offers' = {k} /\ candidate' = items'[k].number
  <2>1. Offers \subseteq 1..Len(items) BY <1>2 DEF Offers
  <2>2. QED BY <1>1, <1>2, <1>3, <2>1 DEF Remembered
<1>8. ~found' => Offers' = {} BY <1>1, <1>3 DEF Remembered
<1>9. Remembered' BY <1>0, <1>4, <1>6, <1>7, <1>8 DEF Remembered
<1>10. WellFormed'
  <2>1. ASSUME NEW k \in InterfacePositions', NEW a \in {"OUT", "IN"}
        PROVE  \A x, y \in At(k, a)' : x = y
    <3>1. CASE k \in InterfacePositions
      BY <1>1, <1>3, <3>1, WellFormedMeans
    <3>2. CASE k = n BY <1>5, <3>2
    <3>3. QED BY <1>2, <3>1, <3>2
  <2>2. QED BY <1>0, <1>1, <2>1, StaysWellFormed
<1>11. QED BY <1>1, <1>2, <1>9, <1>10 DEF WalkInv, SelectsTheOnlyPair

\* A bulk endpoint is added to the last interface, which may complete its pair.
LEMMA ReadEndpointKeeps ==
  ASSUME WalkInv, NEW e \in Endpoints, ReadEndpoint(e)
  PROVE  WalkInv'
<1>0. e \in Items /\ Bulk(e) /\ e.type = "endpoint"
  BY DEF Items, Endpoints, ReadEndpoint, Bulk
<1>1. /\ items \in Seq(Items) /\ items' = Append(items, e) /\ config' = config /\ config
      /\ verdict' = verdict /\ verdict = "walking" /\ Remembered /\ WellFormed
      /\ found \in BOOLEAN /\ ~Rejects(e)
      /\ found' = (found \/ Completes(e))
      /\ candidate' = IF Completes(e) THEN current.number ELSE candidate
      /\ current' = [WithEndpoint(e) EXCEPT !.recorded = @ \/ Completes(e)]
  BY DEF ReadEndpoint, Reads, WalkInv
<1>2. /\ current.have /\ ~(Completes(e) /\ found)
      /\ ~(e.address = "OUT" /\ current.out) /\ ~(e.address = "IN" /\ current.in)
  BY <1>0, <1>1 DEF Rejects, Bulk
<1>3. current \in [have : BOOLEAN, recorded : BOOLEAN, number : Numbers \cup {0},
                   alt : Alternates, out : BOOLEAN, in : BOOLEAN]
  BY <1>1 DEF Remembered
<1>4. current' = [have |-> TRUE, recorded |-> current.recorded \/ Completes(e),
                  number |-> current.number, alt |-> current.alt,
                  out |-> current.out \/ e.address = "OUT",
                  in |-> current.in \/ e.address = "IN"]
  BY <1>1, <1>2, <1>3 DEF WithEndpoint
<1>5. Completes(e) <=> /\ ~current.recorded /\ current.alt = 0
                       /\ current.out \/ e.address = "OUT"
                       /\ current.in \/ e.address = "IN"
  <2>1. /\ WithEndpoint(e).recorded = current.recorded /\ WithEndpoint(e).alt = current.alt
        /\ WithEndpoint(e).out = (current.out \/ e.address = "OUT")
        /\ WithEndpoint(e).in = (current.in \/ e.address = "IN")
    BY <1>3 DEF WithEndpoint
  <2>2. QED BY <2>1 DEF Completes
<1>6. PICK k \in InterfacePositions :
        /\ \A m \in InterfacePositions : m <= k
        /\ current.number = items[k].number /\ current.alt = items[k].alt
        /\ current.out <=> At(k, "OUT") # {}
        /\ current.in <=> At(k, "IN") # {}
        /\ current.recorded <=> k \in Offers
  BY <1>1, <1>2, RecallInterface
<1>7. /\ InterfacePositions' = InterfacePositions /\ items'[k] = items[k]
      /\ \A a : At(k, a)' = At(k, a) \cup (IF e.address = a THEN {Len(items) + 1} ELSE {})
      /\ \A m \in InterfacePositions : m # k => \A a : At(m, a)' = At(m, a)
      /\ Offers' = Offers \cup (IF k \in Offers' THEN {k} ELSE {})
      /\ k \in Offers' <=> /\ items[k].alt = 0
                           /\ e.address = "OUT" \/ At(k, "OUT") # {}
                           /\ e.address = "IN" \/ At(k, "IN") # {}
  BY <1>0, <1>1, <1>6, OfferedByLast
<1>8. k \in Offers' <=> current.recorded \/ Completes(e)
  BY <1>5, <1>6, <1>7 DEF Offers
<1>9. CurrentIs(k)' BY <1>4, <1>6, <1>7, <1>8 DEF CurrentIs
<1>10. ~found' => Offers' = {}
  BY <1>1, <1>6, <1>7, <1>8 DEF Remembered
<1>11. found' => \E p \in Offers' : Offers' = {p} /\ candidate' = items'[p].number
  <2>1. CASE Completes(e)
    <3>1. Offers = {} BY <1>1, <1>2, <2>1 DEF Remembered
    <3>2. Offers' = {k} BY <1>7, <1>8, <2>1, <3>1
    <3>3. QED BY <1>1, <1>6, <1>7, <2>1, <3>2
  <2>2. CASE ~Completes(e)
    <3>1. Offers' = Offers BY <1>6, <1>7, <1>8, <2>2
    <3>2. Offers \subseteq 1..Len(items) /\ \A j \in 1..Len(items) : items'[j] = items[j]
      BY <1>0, <1>1, Reading DEF Offers
    <3>3. QED BY <1>1, <2>2, <3>1, <3>2 DEF Remembered
  <2>3. QED BY <2>1, <2>2
<1>12. Remembered' BY <1>3, <1>4, <1>7, <1>9, <1>10, <1>11 DEF Remembered
<1>13. WellFormed'
  <2>1. ASSUME NEW m \in InterfacePositions', NEW a \in {"OUT", "IN"}
        PROVE  \A x, y \in At(m, a)' : x = y
    <3>1. \A x, y \in At(m, a) : x = y BY <1>1, <1>7, WellFormedMeans
    <3>2. CASE m # k \/ e.address # a BY <1>7, <3>1, <3>2
    <3>3. CASE m = k /\ e.address = a
      <4>1. At(k, a) = {} BY <1>2, <1>6, <3>3
      <4>2. At(k, a)' = {Len(items) + 1} BY <1>7, <3>3, <4>1
      <4>3. QED BY <3>3, <4>2
    <3>4. QED BY <3>2, <3>3
  <2>2. e.transfer # "bulkNoSize" /\ InterfacePositions # {} BY <1>0, <1>6 DEF Bulk
  <2>3. QED BY <1>0, <1>1, <2>1, <2>2, StaysWellFormed
<1>14. items' \in Seq(Items) BY <1>0, <1>1
<1>15. found' \in BOOLEAN BY <1>1, <1>5
<1>16. QED BY <1>1, <1>12, <1>13, <1>14, <1>15 DEF WalkInv, SelectsTheOnlyPair

\* Other descriptors change nothing.
LEMMA SkipKeeps ==
  ASSUME WalkInv, NEW i \in Items, Skip(i)
  PROVE  WalkInv'
<1>1. /\ items \in Seq(Items) /\ items' = Append(items, i) /\ config' = config /\ config
      /\ verdict' = verdict /\ verdict = "walking" /\ found' = found /\ candidate' = candidate
      /\ current' = current /\ Remembered /\ WellFormed /\ found \in BOOLEAN /\ ~Rejects(i)
      /\ i.type = "other" \/ (i.type = "endpoint" /\ i.transfer = "other")
  BY DEF Skip, Reads, WalkInv
<1>2. /\ items' \in Seq(Items) /\ InterfacePositions' = InterfacePositions
      /\ InterfacePositions \subseteq 1..Len(items)
      /\ \A j \in 1..Len(items) : items'[j] = items[j]
  BY <1>1, Reading
<1>3. /\ \A k \in InterfacePositions : \A a : At(k, a)' = At(k, a)
      /\ Offers' = Offers
  BY <1>1, NothingOffered DEF Bulk
<1>4. \A k \in InterfacePositions : CurrentIs(k) => CurrentIs(k)'
  BY <1>1, <1>2, <1>3 DEF CurrentIs
<1>5. Offers \subseteq 1..Len(items) BY <1>2 DEF Offers
<1>6. Remembered' BY <1>1, <1>2, <1>3, <1>4, <1>5 DEF Remembered
<1>7. WellFormed'
  <2>1. \A k \in InterfacePositions' : \A a \in {"OUT", "IN"} :
          \A x, y \in At(k, a)' : x = y
    BY <1>1, <1>2, <1>3, WellFormedMeans
  <2>2. i.type = "endpoint" => InterfacePositions # {}
    BY <1>1 DEF Rejects, Remembered
  <2>3. QED BY <1>1, <2>1, <2>2, StaysWellFormed
<1>8. QED BY <1>1, <1>2, <1>6, <1>7 DEF WalkInv, SelectsTheOnlyPair

\* The end of the list: found says which of the two it is.
LEMMA FinishKeeps == ASSUME WalkInv, Finish PROVE WalkInv'
<1>1. /\ items \in Seq(Items) /\ items' = items /\ config' = config /\ config
      /\ candidate' = candidate /\ found' = found /\ found \in BOOLEAN
      /\ verdict' = IF found THEN "pair" ELSE "reject"
      /\ Remembered /\ WellFormed
  BY DEF Finish, WalkInv
<1>2. WellFormed' = WellFormed /\ Offers' = Offers
  BY <1>1 DEF WellFormed, Offers, InterfacePositions, At, EndpointsOf
<1>3. CASE found
  <2>1. PICK k \in Offers : Offers = {k} /\ candidate = items[k].number
    BY <1>1, <1>3 DEF Remembered
  <2>2. Cardinality(Offers) = 1 BY <2>1, FS_Singleton
  <2>3. QED BY <1>1, <1>2, <1>3, <2>1, <2>2 DEF WalkInv, SelectsTheOnlyPair
<1>4. CASE ~found
  <2>1. Cardinality(Offers) = 0 BY <1>1, <1>4, FS_EmptySet DEF Remembered
  <2>2. QED BY <1>1, <1>2, <1>4, <2>1 DEF WalkInv, SelectsTheOnlyPair
<1>5. QED BY <1>1, <1>3, <1>4

\* The start, and the rejection of a configuration that is not all there.
LEMMA WalkInit == Init => WalkInv
<1> SUFFICES ASSUME Init PROVE WalkInv OBVIOUS
<1>1. items = <<>> /\ Len(items) = 0 /\ items \in Seq(Items) BY DEF Init
<1>2. InterfacePositions = {} /\ Offers = {} BY <1>1 DEF InterfacePositions, Offers
<1>3. config => WellFormed BY <1>1, <1>2 DEF WellFormed
<1>4. Remembered
  BY <1>2, AlternatesAssumption DEF Init, Remembered, NoInterface
<1>5. QED BY <1>1, <1>3, <1>4 DEF Init, WalkInv, SelectsTheOnlyPair

\* Nothing of a configuration that is not all there is read.
LEMMA RejectConfigurationKeeps == ASSUME WalkInv, RejectConfiguration PROVE WalkInv'
BY DEF WalkInv, RejectConfiguration, SelectsTheOnlyPair, WellFormed

\* A step that changes nothing changes nothing of what is said of the list.
LEMMA WalkStutters == ASSUME WalkInv, UNCHANGED vars PROVE WalkInv'
<1>1. UNCHANGED <<config, items, current, candidate, found, verdict>> BY DEF vars
<1>2. InterfacePositions' = InterfacePositions BY <1>1 DEF InterfacePositions
<1>3. \A k, a : At(k, a)' = At(k, a) BY <1>1 DEF At, EndpointsOf
<1>4. Offers' = Offers BY <1>1, <1>2, <1>3 DEF Offers
<1>5. WellFormed' = WellFormed BY <1>1, <1>2, <1>3 DEF WellFormed
<1>6. \A k : CurrentIs(k)' = CurrentIs(k) BY <1>1, <1>2, <1>3, <1>4 DEF CurrentIs
<1>7. Remembered' = Remembered BY <1>1, <1>2, <1>4, <1>6 DEF Remembered
<1>8. QED BY <1>1, <1>4, <1>5, <1>7 DEF WalkInv, SelectsTheOnlyPair

\* Every step of the pass preserves the invariant.
LEMMA NextWalks == ASSUME WalkInv, [Next]_vars PROVE WalkInv'
BY RejectItemKeeps, EnterInterfaceKeeps, ReadEndpointKeeps, SkipKeeps, FinishKeeps,
   RejectConfigurationKeeps, WalkStutters DEF Next

\* Whatever a device sends as its configuration descriptor, the pass selects an
\* interface if and only if the descriptor is well formed and exactly one interface
\* offers the pair, and then it selects that one (ptouch_usb_descriptor.h:26).
THEOREM PairIsTheOnlyOne == Spec => []SelectsTheOnlyPair
<1>1. Init => WalkInv BY WalkInit
<1>2. WalkInv /\ [Next]_vars => WalkInv' BY NextWalks
<1>3. WalkInv => SelectsTheOnlyPair BY DEF WalkInv
<1>4. QED BY <1>1, <1>2, <1>3, PTL DEF Spec
=============================================================================
