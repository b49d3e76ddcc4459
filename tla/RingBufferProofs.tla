--------------------------- MODULE RingBufferProofs ---------------------------
(***************************************************************************)
(* Theorems about RingBuffer, for every capacity and every set of          *)
(* timestamps.                                                             *)
(***************************************************************************)
EXTENDS RingBuffer, SequenceTheorems, WellFoundedInduction, TLAPS

\* Stepping the head by the remainder is stepping it and wrapping at the end.
LEMMA NextHeadWraps ==
    ASSUME NEW h \in Slots
    PROVE  NextHead(h) = IF h + 1 = Capacity THEN 0 ELSE h + 1
BY RingAssumption DEF Slots, NextHead

\* The inductive invariant: the types, and how the three fields agree.
IInv == TypeOK /\ Shape

LEMMA EmptyIInv ==
    ASSUME data = [s \in Slots |-> Zero], head = 0, size = 0, full = FALSE
    PROVE  IInv
<1>1. 0 \in Slots /\ 0 \in 0..Capacity /\ 0 # Capacity
  BY RingAssumption DEF Slots
<1>2. data \in [Slots -> Times \union {Zero}]
  OBVIOUS
<1>3. TypeOK
  BY <1>1, <1>2 DEF TypeOK
<1>4. Shape
  BY <1>1 DEF Shape
<1> QED
  BY <1>3, <1>4 DEF IInv

LEMMA AddIInv ==
    ASSUME IInv, NEW x \in Times, Add(x)
    PROVE  IInv'
<1>1. head' = IF head + 1 = Capacity THEN 0 ELSE head + 1
  BY NextHeadWraps DEF Add, IInv, TypeOK
<1>2. head' \in Slots
  BY <1>1, RingAssumption DEF IInv, TypeOK, Slots
<1>3. data' \in [Slots -> Times \union {Zero}]
  BY DEF Add, IInv, TypeOK
<1>4. CASE full
  <2>1. size' = size /\ full' = full
    BY <1>4 DEF Add
  <2> QED
    BY <1>2, <1>3, <1>4, <2>1 DEF IInv, TypeOK, Shape
<1>5. CASE ~full
  <2>1. size' = size + 1 /\ full' = (size' = Capacity)
    BY <1>5 DEF Add
  <2>2. head = size /\ size # Capacity /\ size \in 0..Capacity
    BY <1>5 DEF IInv, TypeOK, Shape
  <2>3. size' \in 0..Capacity
    BY <2>1, <2>2, RingAssumption
  <2>4. ~full' => head' = size'
    BY <1>1, <2>1, <2>2, RingAssumption
  <2>5. full' \in BOOLEAN /\ (full' <=> size' = Capacity)
    BY <2>1
  <2> QED
    BY <1>2, <1>3, <2>3, <2>4, <2>5 DEF IInv, TypeOK, Shape
<1> QED
  BY <1>4, <1>5

LEMMA InitIInv == Init => IInv
BY EmptyIInv DEF Init

LEMMA NextIInv == IInv /\ [Next]_vars => IInv'
<1> SUFFICES ASSUME IInv, [Next]_vars PROVE IInv'
  OBVIOUS
<1>1. ASSUME NEW x \in Times, Add(x) PROVE IInv'
  BY <1>1, AddIInv
<1>2. CASE Clear
  <2>1. (data = [s \in Slots |-> Zero] /\ head = 0 /\ size = 0 /\ full = FALSE)'
    BY <1>2 DEF Clear, Slots
  <2> QED
    BY <2>1, EmptyIInv, PTL
<1>3. CASE UNCHANGED vars
  BY <1>3 DEF vars, IInv, TypeOK, Shape
<1> QED
  BY <1>1, <1>2, <1>3 DEF Next

\* The buffer is well formed for ever: the head is a slot, size counts up to
\* the capacity (Add and Clear in ring.go).
THEOREM Typed == Spec => []TypeOK
<1>1. IInv => TypeOK
  BY DEF IInv
<1> QED
  BY <1>1, InitIInv, NextIInv, PTL DEF Spec

\* full, size and head never disagree about where the items are.
THEOREM Shaped == Spec => []Shape
<1>1. IInv => Shape
  BY DEF IInv
<1> QED
  BY <1>1, InitIInv, NextIInv, PTL DEF Spec

-------------------------------------------------------------------------------
(* The buffer implements the log of the last Capacity items. *)

Item == Times \union {Zero}

\* Item i of the buffer, oldest first.
Nth(i) ==
    IF full
    THEN IF head + i - 1 < Capacity THEN data[head + i - 1]
                                    ELSE data[head + i - 1 - Capacity]
    ELSE data[i - 1]

\* All is a sequence of size items.
LEMMA AllIsSequence ==
    ASSUME IInv
    PROVE  /\ All \in Seq(Item)
           /\ Len(All) = size
           /\ \A i \in 1..size : All[i] = Nth(i)
<1>1. size \in Nat /\ size <= Capacity /\ Capacity \in Nat
  BY RingAssumption DEF IInv, TypeOK
<1>2. All = [i \in 1..size |-> Nth(i)]
  <2>1. CASE full
    BY <2>1 DEF All, Nth
  <2>2. CASE ~full
    BY <2>2 DEF All, Nth
  <2> QED
    BY <2>1, <2>2
<1>3. ASSUME NEW i \in 1..size PROVE Nth(i) \in Item
  <2>1. CASE full
    <3>1. head \in 0..Capacity - 1 /\ size = Capacity
      BY <2>1 DEF IInv, TypeOK, Shape, Slots
    <3>2. CASE head + i - 1 < Capacity
      <4>1. head + i - 1 \in Slots
        BY <3>1, <3>2, <1>1 DEF Slots
      <4> QED
        BY <4>1, <2>1, <3>2 DEF IInv, TypeOK, Nth, Item
    <3>3. CASE ~(head + i - 1 < Capacity)
      <4>1. head + i - 1 - Capacity \in Slots
        BY <3>1, <3>3, <1>1 DEF Slots
      <4> QED
        BY <4>1, <2>1, <3>3 DEF IInv, TypeOK, Nth, Item
    <3> QED
      BY <3>2, <3>3
  <2>2. CASE ~full
    <3>1. i - 1 \in Slots
      BY <1>1 DEF Slots
    <3> QED
      BY <3>1, <2>2 DEF IInv, TypeOK, Nth, Item
  <2> QED
    BY <2>1, <2>2
<1> QED
  BY <1>1, <1>2, <1>3

LEMMA AllIsSequenceNext ==
    ASSUME IInv'
    PROVE  /\ All' \in Seq(Item)
           /\ Len(All') = size'
           /\ \A i \in 1..size' : All'[i] = Nth(i)'
<1>1. (/\ All \in Seq(Item)
       /\ Len(All) = size
       /\ \A i \in 1..size : All[i] = Nth(i))'
  BY AllIsSequence, PTL
<1> QED
  BY <1>1

\* An item added to a buffer with room becomes its last item.
LEMMA AddToRoom ==
    ASSUME IInv, NEW x \in Times, Add(x), ~full
    PROVE  All' = Append(All, x)
<1>1. /\ size \in Nat /\ size < Capacity /\ Capacity \in Nat
      /\ head = size /\ size' = size + 1 /\ full' = (size' = Capacity)
  BY RingAssumption DEF IInv, TypeOK, Shape, Add
<1>2. /\ All \in Seq(Item) /\ Len(All) = size
      /\ \A i \in 1..size : All[i] = Nth(i)
  BY AllIsSequence
<1>3. /\ All' \in Seq(Item) /\ Len(All') = size'
      /\ \A i \in 1..size' : All'[i] = Nth(i)'
  BY AddIInv, AllIsSequenceNext
<1>4. ASSUME NEW i \in 1..size' PROVE Nth(i)' = data'[i - 1]
  <2>1. CASE ~full'
    BY <2>1 DEF Nth
  <2>2. CASE full'
    <3>0. size' = Capacity
      BY <2>2, <1>1, Zenon
    <3>1. head + 1 = Capacity /\ head \in Slots
      BY <3>0, <1>1 DEF Slots
    <3>2. head' = 0
      BY <3>1, NextHeadWraps DEF Add
    <3>3. head' + i - 1 = i - 1 /\ head' + i - 1 < Capacity
      BY <3>2, <1>1
    <3> QED
      BY <2>2, <3>3 DEF Nth
  <2> QED
    BY <2>1, <2>2
<1>5. ASSUME NEW i \in 1..size' PROVE All'[i] = Append(All, x)[i]
  <2>1. i - 1 \in Slots /\ data \in [Slots -> Item]
    BY <1>1 DEF Slots, IInv, TypeOK, Item
  <2>2. data' = [data EXCEPT ![size] = x]
    BY <1>1 DEF Add
  <2>3. CASE i = size + 1
    BY <1>1, <1>2, <1>3, <1>4, <2>1, <2>2, <2>3
  <2>4. CASE i \in 1..size
    <3>1. All[i] = data[i - 1]
      BY <1>2, <2>4 DEF Nth
    <3>2. data'[i - 1] = data[i - 1]
      BY <2>1, <2>2, <2>4, <1>1
    <3>3. Append(All, x)[i] = All[i]
      BY <1>2, <2>4
    <3> QED
      BY <3>1, <3>2, <3>3, <1>3, <1>4
  <2>5. i = size + 1 \/ i \in 1..size
    <3>1. size' = size + 1 /\ size \in Nat
      BY <1>1
    <3> QED
      BY <3>1
  <2> QED
    BY <2>3, <2>4, <2>5
<1>6. Append(All, x) \in Seq(Item) /\ Len(Append(All, x)) = size'
  BY <1>1, <1>2 DEF Item
<1> QED
  BY <1>3, <1>5, <1>6, SeqEqual

\* An item added to a full buffer pushes the oldest one out.
LEMMA AddToFull ==
    ASSUME IInv, NEW x \in Times, Add(x), full
    PROVE  All' = Append(Tail(All), x)
<1>1. /\ size = Capacity /\ size' = Capacity /\ full' = full
      /\ Capacity \in Nat \ {0} /\ head \in 0..Capacity - 1 /\ head \in Slots
      /\ data \in [Slots -> Item] /\ data' = [data EXCEPT ![head] = x]
  BY RingAssumption DEF IInv, TypeOK, Shape, Add, Slots, Item
<1>2. /\ All \in Seq(Item) /\ Len(All) = Capacity
      /\ \A i \in 1..Capacity : All[i] = Nth(i)
  BY <1>1, AllIsSequence
<1>3. /\ All' \in Seq(Item) /\ Len(All') = Capacity
      /\ \A i \in 1..Capacity : All'[i] = Nth(i)'
  BY <1>1, AddIInv, AllIsSequenceNext
<1>4. head' = IF head + 1 = Capacity THEN 0 ELSE head + 1
  BY <1>1, NextHeadWraps DEF Add
<1>5. /\ Tail(All) \in Seq(Item) /\ Len(Tail(All)) = Capacity - 1
      /\ \A i \in 1..Capacity - 1 : Tail(All)[i] = All[i + 1]
  BY <1>1, <1>2
<1>6. ASSUME NEW i \in 1..Capacity PROVE All'[i] = Append(Tail(All), x)[i]
  <2> DEFINE slot == IF head + i < Capacity THEN head + i ELSE head + i - Capacity
  <2>1. Nth(i)' = data'[slot]
    <3>1. Nth(i)' = IF head' + i - 1 < Capacity THEN data'[head' + i - 1]
                                                ELSE data'[head' + i - 1 - Capacity]
      BY <1>1 DEF Nth
    <3>2. CASE head + 1 = Capacity
      <4>1. head' = 0 /\ slot = i - 1 /\ head' + i - 1 = i - 1 /\ i - 1 < Capacity
        BY <1>1, <1>4, <3>2
      <4> QED
        BY <3>1, <4>1
    <3>3. CASE head + 1 # Capacity
      <4>1. /\ head' = head + 1
            /\ head' + i - 1 = head + i /\ head' + i - 1 - Capacity = head + i - Capacity
        BY <1>1, <1>4, <3>3
      <4> QED
        BY <3>1, <4>1
    <3> QED
      BY <3>2, <3>3
  <2>2. CASE i = Capacity
    <3>1. slot = head
      BY <1>1, <2>2
    <3>2. data'[slot] = x
      BY <1>1, <3>1
    <3>3. Append(Tail(All), x)[i] = x
      BY <1>1, <1>5, <2>2
    <3> QED
      BY <1>3, <2>1, <3>2, <3>3
  <2>3. CASE i # Capacity
    <3>1. slot # head /\ slot \in Slots
      BY <1>1, <2>3 DEF Slots
    <3>2. data'[slot] = data[slot]
      BY <1>1, <3>1
    <3>3. i \in 1..Capacity - 1 /\ i + 1 \in 1..Capacity
      BY <1>1, <2>3
    <3>4. All[i + 1] = data[slot]
      <4>1. All[i + 1] = Nth(i + 1)
        BY <1>2, <3>3
      <4>2. head + (i + 1) - 1 = head + i
            /\ head + (i + 1) - 1 - Capacity = head + i - Capacity
        BY <1>1
      <4> QED
        BY <4>1, <4>2 DEF Nth
    <3>5. Append(Tail(All), x)[i] = All[i + 1]
      BY <1>5, <3>3
    <3> QED
      BY <1>3, <2>1, <3>2, <3>4, <3>5
  <2> QED
    BY <2>2, <2>3
<1>7. Append(Tail(All), x) \in Seq(Item) /\ Len(Append(Tail(All), x)) = Capacity
  BY <1>1, <1>5 DEF Item
<1> QED
  BY <1>3, <1>6, <1>7, SeqEqual

\* An empty buffer is an empty log.
LEMMA NoItems ==
    ASSUME IInv, size = 0
    PROVE  All = << >>
BY AllIsSequence, EmptySeq

\* Every buffer, of whatever capacity, behaves as the log of the last Capacity
\* items: Add and Clear of ring.go do to All what BoundedLog's do to the log.
THEOREM Implements == Spec => ImplementsBoundedLog
<1>1. Init => LastItems!Init
  <2> SUFFICES ASSUME Init PROVE LastItems!Init
    OBVIOUS
  <2>1. IInv /\ size = 0
    BY InitIInv DEF Init
  <2> QED
    BY <2>1, NoItems DEF LastItems!Init
<1>2. IInv /\ [Next]_vars => [LastItems!Next]_All
  <2> SUFFICES ASSUME IInv, [Next]_vars PROVE [LastItems!Next]_All
    OBVIOUS
  <2>1. ASSUME NEW x \in Times, Add(x) PROVE LastItems!Add(x)
    <3>1. CASE full
      <4>1. ~(Len(All) < Capacity)
        BY <3>1, AllIsSequence, RingAssumption DEF IInv, Shape
      <4> QED
        BY <2>1, <3>1, <4>1, AddToFull DEF LastItems!Add, LastItems!Pushed
    <3>2. CASE ~full
      <4>1. Len(All) < Capacity
        BY <3>2, AllIsSequence, RingAssumption DEF IInv, TypeOK, Shape
      <4> QED
        BY <2>1, <3>2, <4>1, AddToRoom DEF LastItems!Add, LastItems!Pushed
    <3> QED
      BY <3>1, <3>2
  <2>2. CASE Clear
    <3>1. (size = 0)' /\ IInv'
      BY <2>2, NextIInv DEF Clear
    <3>2. (All = << >>)'
      BY <3>1, NoItems, PTL
    <3> QED
      BY <3>2 DEF LastItems!Next, LastItems!Clear
  <2>3. CASE UNCHANGED vars
    BY <2>3 DEF vars, All
  <2> QED
    BY <2>1, <2>2, <2>3 DEF Next, LastItems!Next
<1> QED
  BY <1>1, <1>2, InitIInv, NextIInv, PTL DEF Spec, ImplementsBoundedLog, LastItems!Spec

-------------------------------------------------------------------------------
(* The readers *)

\* What lies in the slots between the oldest item and the head was added.
Filled == \A s \in Slots : s < size => data[s] \in Times

LEMMA InitFilled == Init => Filled
BY DEF Init, Filled, Slots

LEMMA NextFilled == IInv /\ Filled /\ [Next]_vars => Filled'
<1> SUFFICES ASSUME IInv, Filled, [Next]_vars PROVE Filled'
  OBVIOUS
<1>1. ASSUME NEW x \in Times, Add(x) PROVE Filled'
  <2> SUFFICES ASSUME NEW s \in Slots, s < size' PROVE data'[s] \in Times
    BY DEF Filled
  <2>1. data' = [data EXCEPT ![head] = x] /\ data \in [Slots -> Times \union {Zero}]
    BY <1>1 DEF Add, IInv, TypeOK
  <2>2. s = head \/ s < size
    BY <1>1, RingAssumption DEF Add, IInv, TypeOK, Shape, Slots
  <2> QED
    BY <2>1, <2>2 DEF Filled
<1>2. CASE Clear
  BY <1>2 DEF Clear, Filled, Slots
<1>3. CASE UNCHANGED vars
  BY <1>3 DEF vars, Filled
<1> QED
  BY <1>1, <1>2, <1>3 DEF Next

LEMMA ItemsWereAdded ==
    ASSUME IInv, Filled, NEW i \in 1..size
    PROVE  All[i] \in Times
<1>1. All[i] = Nth(i)
  BY AllIsSequence
<1>2. size \in Nat /\ size <= Capacity /\ Capacity \in Nat
  BY RingAssumption DEF IInv, TypeOK
<1>3. CASE full
  <2>1. head \in 0..Capacity - 1 /\ size = Capacity
    BY <1>3 DEF IInv, TypeOK, Shape, Slots
  <2>2. CASE head + i - 1 < Capacity
    <3>1. head + i - 1 \in Slots /\ head + i - 1 < size
      BY <1>2, <2>1, <2>2 DEF Slots
    <3> QED
      BY <1>1, <1>3, <2>2, <3>1 DEF Nth, Filled
  <2>3. CASE ~(head + i - 1 < Capacity)
    <3>1. head + i - 1 - Capacity \in Slots /\ head + i - 1 - Capacity < size
      BY <1>2, <2>1, <2>3 DEF Slots
    <3> QED
      BY <1>1, <1>3, <2>3, <3>1 DEF Nth, Filled
  <2> QED
    BY <2>2, <2>3
<1>4. CASE ~full
  <2>1. i - 1 \in Slots /\ i - 1 < size
    BY <1>2 DEF Slots
  <2> QED
    BY <1>1, <1>4, <2>1 DEF Nth, Filled
<1> QED
  BY <1>3, <1>4

LEMMA AllFacts ==
    ASSUME IInv, Filled
    PROVE  /\ Len(All) \in Nat /\ DOMAIN All = 1..Len(All)
           /\ \A i \in 1..Len(All) : All[i] \in Int
<1>1. All \in Seq(Item) /\ Len(All) = size
  BY AllIsSequence
<1>2. Len(All) \in Nat /\ DOMAIN All = 1..Len(All)
  BY <1>1
<1>3. \A i \in 1..size : All[i] \in Int
  BY ItemsWereAdded, RingAssumption
<1> QED
  BY <1>1, <1>2, <1>3

\* The slots that Walk and Latest compute by remainder are the ones All takes by
\* comparing.
LEMMA WrapOnce ==
    ASSUME NEW a \in 0..2 * Capacity - 1
    PROVE  a % Capacity = IF a < Capacity THEN a ELSE a - Capacity
BY RingAssumption

LEMMA WalkSeesAll ==
    ASSUME IInv
    PROVE  \A i \in 1..size : Walk(i - 1) = All[i]
<1> SUFFICES ASSUME NEW i \in 1..size PROVE Walk(i - 1) = Nth(i)
  BY AllIsSequence
<1>1. size \in Nat /\ size <= Capacity /\ Capacity \in Nat \ {0}
  BY RingAssumption DEF IInv, TypeOK
<1>2. CASE full
  <2>1. head \in 0..Capacity - 1
    BY DEF IInv, TypeOK, Slots
  <2>2. PICK k \in 0..2 * Capacity - 1 : k = head + (i - 1) /\ k = head + i - 1
    BY <1>1, <2>1
  <2>3. k % Capacity = IF k < Capacity THEN k ELSE k - Capacity
    BY WrapOnce
  <2>4. Walk(i - 1) = data[k % Capacity]
    BY <1>2, <2>2 DEF Walk
  <2>5. Nth(i) = IF k < Capacity THEN data[k] ELSE data[k - Capacity]
    <3>1. Nth(i) = IF head + i - 1 < Capacity THEN data[head + i - 1]
                                              ELSE data[head + i - 1 - Capacity]
      BY <1>2 DEF Nth
    <3>2. head + i - 1 = k /\ head + i - 1 - Capacity = k - Capacity
      BY <1>1, <2>1, <2>2
    <3> QED
      BY <3>1, <3>2, Zenon
  <2> QED
    BY <2>3, <2>4, <2>5
<1>3. CASE ~full
  BY <1>3 DEF Walk, Nth
<1> QED
  BY <1>2, <1>3

LEMMA LatestIsLast ==
    ASSUME IInv, size > 0
    PROVE  Latest = All[size]
<1>1. /\ size \in 1..Capacity /\ Capacity \in Nat \ {0} /\ head \in 0..Capacity - 1
  BY RingAssumption DEF IInv, TypeOK, Slots
<1>2. All[size] = Nth(size)
  BY <1>1, AllIsSequence
<1>3. head - 1 + Capacity \in 0..2 * Capacity - 1
  BY <1>1
<1>4. (head - 1 + Capacity) % Capacity = IF head = 0 THEN Capacity - 1 ELSE head - 1
  BY <1>1, <1>3, WrapOnce
<1>5. CASE full
  <2>1. size = Capacity
    BY <1>5 DEF IInv, Shape
  <2>2. Nth(size) = IF head + Capacity - 1 < Capacity THEN data[head + Capacity - 1]
                                                      ELSE data[head + Capacity - 1 - Capacity]
    BY <1>5, <2>1 DEF Nth
  <2>3. CASE head = 0
    <3>1. head + Capacity - 1 = Capacity - 1 /\ Capacity - 1 < Capacity
      BY <1>1, <2>3
    <3> QED
      BY <1>2, <1>4, <2>2, <2>3, <3>1 DEF Latest
  <2>4. CASE head # 0
    <3>1. ~(head + Capacity - 1 < Capacity) /\ head + Capacity - 1 - Capacity = head - 1
      BY <1>1, <2>4
    <3> QED
      BY <1>2, <1>4, <2>2, <2>4, <3>1 DEF Latest
  <2> QED
    BY <2>3, <2>4
<1>6. CASE ~full
  <2>1. head = size /\ head # 0
    BY <1>1, <1>6 DEF IInv, Shape
  <2> QED
    BY <1>2, <1>4, <1>6, <2>1 DEF Latest, Nth
<1> QED
  BY <1>5, <1>6

LEMMA LeastNat ==
    ASSUME NEW T \in SUBSET Nat, T # {}
    PROVE  \E x \in T : \A y \in T : x <= y
<1>1. PICK x \in T : \A y \in T : ~ (<<y, x>> \in OpToRel(<, Nat))
  BY NatLessThanWellFounded, WFMin
<1>2. \A y \in T : ~(y < x)
  BY <1>1 DEF OpToRel
<1> QED
  BY <1>2

\* Query returns a tail of the buffer that begins at the first item reached.
LEMMA QueryIsTail ==
    ASSUME IInv, Filled, NEW since \in Times
    PROVE  \E from \in 0..Len(All) :
             /\ Query(since) = SubSeq(All, from + 1, Len(All))
             /\ Len(Query(since)) = Len(All) - from
             /\ \A i \in 1..from : All[i] < since
             /\ from < Len(All) => All[from + 1] >= since
<1> DEFINE hits == {i \in DOMAIN All : Reached(All[i], since)}
           n == Len(All)
<1>1. /\ All \in Seq(Item) /\ n \in Nat /\ DOMAIN All = 1..n
      /\ \A i \in 1..n : All[i] \in Int
  BY AllIsSequence, AllFacts
<1>2. since \in Int
  BY RingAssumption
<1>3. Query(since) = IF hits = {} THEN << >>
                     ELSE LET start == CHOOSE i \in hits : \A j \in hits : i <= j
                          IN  SubSeq(All, start, n)
  BY DEF Query
<1>4. CASE hits = {}
  <2>1. \A i \in 1..n : All[i] < since
    BY <1>1, <1>2, <1>4 DEF Reached
  <2>2. SubSeq(All, n + 1, n) = << >>
    BY <1>1
  <2>3. Query(since) = << >>
    BY <1>3, <1>4
  <2>4. Len(Query(since)) = n - n
    BY <1>1, <2>3
  <2>5. n \in 0..n /\ ~(n < n)
    BY <1>1
  <2> HIDE DEF n
  <2> QED
    BY <2>1, <2>2, <2>3, <2>4, <2>5 DEF n
<1>5. CASE hits # {}
  <2> DEFINE start == CHOOSE i \in hits : \A j \in hits : i <= j
  <2>1. hits \in SUBSET Nat
    BY <1>1
  <2>2. start \in hits /\ \A j \in hits : start <= j
    <3> HIDE DEF hits
    <3>1. \E i \in hits : \A j \in hits : i <= j
      BY <1>5, <2>1, LeastNat
    <3> QED
      BY <3>1
  <2>3. Query(since) = SubSeq(All, start, n)
    BY <1>3, <1>5
  <2>4. start \in 1..n /\ All[start] >= since
    BY <1>1, <2>2 DEF Reached
  <2>5. \A i \in 1..n : i < start => ~Reached(All[i], since)
    <3> SUFFICES ASSUME NEW i \in 1..n, i < start, Reached(All[i], since) PROVE FALSE
      OBVIOUS
    <3>1. i \in hits
      BY <1>1
    <3>2. start <= i
      BY <2>2, <3>1
    <3> QED
      BY <2>4, <3>2
  <2> HIDE DEF start, hits
  <2>6. \A i \in 1..start - 1 : All[i] < since
    BY <1>1, <1>2, <2>4, <2>5 DEF Reached
  <2>7. start - 1 \in 0..n /\ (start - 1) + 1 = start
    BY <1>1, <2>4
  <2>8. Len(SubSeq(All, start, n)) = n - (start - 1)
    BY <1>1, <2>4
  <2> QED
    BY <2>3, <2>4, <2>6, <2>7, <2>8
<1> QED
  BY <1>4, <1>5

LEMMA RingInvariant == Spec => [](IInv /\ Filled)
BY InitIInv, NextIInv, InitFilled, NextFilled, PTL DEF Spec

\* Latest and QueryFunc, which find their slots by remainder, see the items that
\* All copies out, in the same order.
THEOREM ReadersSeeAll == Spec => []ReadersAgree
<1>1. IInv => ReadersAgree
  <2> SUFFICES ASSUME IInv, size > 0, NEW wanted \in SUBSET Times
               PROVE  /\ Latest = All[size]
                      /\ QueryFunc(wanted) = SelectSeq(All, LAMBDA x : x \in wanted)
    BY DEF ReadersAgree
  <2>1. All = [i \in 1..size |-> Walk(i - 1)]
    <3>1. All = [i \in 1..size |-> All[i]]
      BY AllIsSequence
    <3> QED
      BY <3>1, WalkSeesAll
  <2> QED
    BY <2>1, LatestIsLast DEF QueryFunc
<1> QED
  BY <1>1, RingInvariant, PTL

\* Query never omits an item from since on nor returns one that is no longer
\* there, and returns exactly those from since on when the buffer is sorted.
THEOREM QueryIsExact == Spec => []QueryMissesNothing
<1>1. IInv /\ Filled => QueryMissesNothing
  <2> SUFFICES ASSUME IInv, Filled, NEW since \in Times
               PROVE  LET q == Query(since)  from == Len(All) - Len(q) IN
                      /\ q = SubSeq(All, from + 1, Len(All))
                      /\ \A i \in 1..from : All[i] < since
                      /\ Sorted(All) => \A i \in from + 1..Len(All) : All[i] >= since
    BY DEF QueryMissesNothing
  <2>1. PICK f \in 0..Len(All) :
          /\ Query(since) = SubSeq(All, f + 1, Len(All))
          /\ Len(Query(since)) = Len(All) - f
          /\ \A i \in 1..f : All[i] < since
          /\ f < Len(All) => All[f + 1] >= since
    BY QueryIsTail
  <2>2. /\ Len(All) \in Nat /\ DOMAIN All = 1..Len(All)
        /\ \A i \in 1..Len(All) : All[i] \in Int
    BY AllFacts
  <2>3. Len(All) - Len(Query(since)) = f
    <3>1. \A n \in Nat : \A k \in 0..n : n - (n - k) = k
      OBVIOUS
    <3>2. Len(All) - (Len(All) - f) = f
      BY <2>2, <3>1
    <3> QED
      BY <2>1, <3>2
  <2>4. ASSUME Sorted(All), NEW i \in f + 1..Len(All) PROVE All[i] >= since
    <3>a. \A n \in Nat : \A k \in 0..n : \A j \in k + 1..n : k < n /\ k + 1 \in 1..n /\ j \in 1..n
      OBVIOUS
    <3>b. f < Len(All) /\ f + 1 \in 1..Len(All) /\ i \in 1..Len(All)
      BY <2>2, <2>4, <3>a
    <3>1. f + 1 \in 1..Len(All) /\ i \in 1..Len(All) /\ All[f + 1] >= since
      BY <2>1, <3>b
    <3>2. All[f + 1] <= All[i]
      BY <2>2, <2>4, <3>1 DEF Sorted
    <3> QED
      BY <2>2, <3>1, <3>2, RingAssumption
  <2> QED
    BY <2>1, <2>3, <2>4
<1> QED
  BY <1>1, RingInvariant, PTL

\* Round i of the loop of FindNearest, given what it found in the rounds before.
Round(best, i, target) ==
    IF i > 0 /\ ~(Abs(Walk(i) - target) < Abs(best[i - 1] - target))
    THEN best[i - 1]
    ELSE Walk(i)

\* The loop has a result after every number of rounds: the least number for which
\* it had none would be preceded by one for which it has.
LEMMA LoopHasResult ==
    ASSUME NEW target
    PROVE  \A n \in Nat : \E best : best = [i \in 0..n |-> Round(best, i, target)]
<1> DEFINE Runs(n) == \E best : best = [i \in 0..n |-> Round(best, i, target)]
           bad == {n \in Nat : ~Runs(n)}
<1> SUFFICES ASSUME bad # {} PROVE FALSE
  OBVIOUS
<1>1. PICK n \in bad : \A k \in bad : n <= k
  <2> HIDE DEF bad
  <2>1. bad \in SUBSET Nat
    BY DEF bad
  <2> QED
    BY <2>1, LeastNat
<1>2. n \in Nat /\ ~Runs(n)
  OBVIOUS
<1>3. CASE n = 0
  <2> DEFINE best == [i \in 0..0 |-> Walk(0)]
  <2>1. \A i \in 0..0 : i = 0 /\ Round(best, i, target) = Walk(0)
    BY DEF Round
  <2>2. best = [i \in 0..0 |-> Round(best, i, target)]
    BY <2>1
  <2> QED
    BY <1>2, <1>3, <2>2
<1>4. CASE n # 0
  <2>1. n - 1 \in Nat /\ n - 1 \notin bad
    BY <1>1, <1>2, <1>4
  <2>2. PICK f : f = [i \in 0..n - 1 |-> Round(f, i, target)]
    BY <2>1
  <2> DEFINE best == [i \in 0..n |-> IF i = n THEN Round(f, n, target) ELSE f[i]]
  <2>3. \A i \in 0..n : i > 0 => i - 1 \in 0..n - 1 /\ best[i - 1] = f[i - 1]
    BY <1>2
  <2>4. \A i \in 0..n : Round(best, i, target) = Round(f, i, target)
    <3> HIDE DEF best
    <3> QED
      BY <2>3 DEF Round
  <2>5. \A i \in 0..n - 1 : f[i] = Round(f, i, target)
    BY <2>2
  <2>6. \A i \in 0..n : best[i] = Round(best, i, target)
    <3>1. \A i \in 0..n : i = n \/ i \in 0..n - 1
      BY <1>2
    <3>2. \A i \in 0..n : best[i] = Round(f, i, target)
      BY <2>5, <3>1
    <3> QED
      BY <2>4, <3>2
  <2>7. best = [i \in 0..n |-> Round(best, i, target)]
    <3>1. best = [i \in 0..n |-> best[i]]
      OBVIOUS
    <3> HIDE DEF best
    <3> QED
      BY <2>6, <3>1
  <2> QED
    BY <1>2, <2>7
<1> QED
  BY <1>3, <1>4

\* After round m the loop holds the closest of the items it has seen.
LEMMA ClosestSoFar ==
    ASSUME IInv, Filled, size > 0, NEW target \in Times,
           NEW best, best = [i \in 0..size - 1 |-> Round(best, i, target)]
    PROVE  \A m \in 0..size - 1 :
               /\ \E k \in 0..m : best[m] = Walk(k)
               /\ \A k \in 0..m : Abs(best[m] - target) <= Abs(Walk(k) - target)
<1> DEFINE Held(m) == /\ \E k \in 0..m : best[m] = Walk(k)
                      /\ \A k \in 0..m : Abs(best[m] - target) <= Abs(Walk(k) - target)
           bad == {m \in 0..size - 1 : ~Held(m)}
<1>1. size \in Nat /\ size - 1 \in Nat
  BY RingAssumption DEF IInv, TypeOK
<1>2. \A k \in 0..size - 1 : Walk(k) \in Int
  <2> SUFFICES ASSUME NEW k \in 0..size - 1 PROVE Walk(k) \in Int
    OBVIOUS
  <2>1. k + 1 \in 1..size /\ (k + 1) - 1 = k
    BY <1>1
  <2>2. Walk((k + 1) - 1) = All[k + 1]
    BY <2>1, WalkSeesAll
  <2> QED
    BY <2>1, <2>2, ItemsWereAdded, RingAssumption
<1>3. target \in Int
  BY RingAssumption
<1>4. \A m \in 0..size - 1 : best[m] = Round(best, m, target)
  OBVIOUS
<1> SUFFICES ASSUME bad # {} PROVE FALSE
  OBVIOUS
<1>5. PICK m \in bad : \A k \in bad : m <= k
  <2>1. bad \in SUBSET Nat
    BY <1>1
  <2> HIDE DEF bad
  <2> QED
    BY <2>1, LeastNat
<1>6. m \in 0..size - 1 /\ ~Held(m)
  OBVIOUS
<1>7. CASE m = 0
  <2>1. best[0] = Walk(0)
    BY <1>4, <1>6, <1>7 DEF Round
  <2>2. Abs(Walk(0) - target) <= Abs(Walk(0) - target)
    BY <1>2, <1>3, <1>6, <1>7 DEF Abs
  <2> QED
    BY <1>6, <1>7, <2>1, <2>2
<1>8. CASE m # 0
  <2>1. m - 1 \in 0..size - 1 /\ m > 0 /\ m - 1 \notin bad
    BY <1>1, <1>5, <1>6, <1>8
  <2>2. PICK k \in 0..m - 1 : best[m - 1] = Walk(k)
    BY <2>1
  <2>3. \A j \in 0..m - 1 : Abs(best[m - 1] - target) <= Abs(Walk(j) - target)
    BY <2>1
  <2>4. /\ k \in 0..size - 1 /\ k \in 0..m /\ m \in 0..m
        /\ \A j \in 0..m : j \in 0..size - 1 /\ (j = m \/ j \in 0..m - 1)
    BY <1>1, <1>6, <1>8
  <2>5. \A j \in 0..size - 1 : Abs(Walk(j) - target) \in Int
    BY <1>2, <1>3 DEF Abs
  <2>6. best[m] = IF ~(Abs(Walk(m) - target) < Abs(best[m - 1] - target))
                  THEN best[m - 1] ELSE Walk(m)
    BY <1>4, <1>6, <2>1 DEF Round
  <2>7. CASE Abs(Walk(m) - target) < Abs(best[m - 1] - target)
    <3>1. best[m] = Walk(m)
      BY <2>6, <2>7
    <3>2. ASSUME NEW j \in 0..m
          PROVE  Abs(best[m] - target) <= Abs(Walk(j) - target)
      <4>1. /\ Abs(Walk(j) - target) \in Int /\ Abs(Walk(m) - target) \in Int
            /\ Abs(best[m - 1] - target) \in Int
        BY <1>6, <2>2, <2>4, <2>5
      <4>2. CASE j = m
        BY <3>1, <4>1, <4>2
      <4>3. CASE j # m
        <5>1. Abs(best[m - 1] - target) <= Abs(Walk(j) - target)
          BY <2>3, <2>4, <4>3
        <5> QED
          BY <2>7, <3>1, <4>1, <5>1
      <4> QED
        BY <4>2, <4>3
    <3> QED
      BY <1>6, <2>4, <3>1, <3>2
  <2>8. CASE ~(Abs(Walk(m) - target) < Abs(best[m - 1] - target))
    <3>1. best[m] = best[m - 1]
      BY <2>6, <2>8
    <3>2. ASSUME NEW j \in 0..m
          PROVE  Abs(best[m] - target) <= Abs(Walk(j) - target)
      <4>1. CASE j = m
        <5>1. Abs(Walk(m) - target) \in Int /\ Abs(best[m - 1] - target) \in Int
          BY <1>6, <2>2, <2>4, <2>5
        <5> QED
          BY <2>8, <3>1, <4>1, <5>1
      <4>2. CASE j # m
        BY <2>3, <2>4, <3>1, <4>2
      <4> QED
        BY <4>1, <4>2
    <3> QED
      BY <1>6, <2>2, <2>4, <3>1, <3>2
  <2> QED
    BY <2>7, <2>8
<1> QED
  BY <1>7, <1>8

\* FindNearest returns an item of the buffer, and none is closer to the target.
THEOREM NearestIsFound == Spec => []NearestIsNearest
<1>1. IInv /\ Filled => NearestIsNearest
  <2> SUFFICES ASSUME IInv, Filled, size > 0, NEW target \in Times
               PROVE  LET best == FindNearest(target)
                          far(t) == IF t < target THEN target - t ELSE t - target
                      IN  /\ \E i \in DOMAIN All : All[i] = best
                          /\ \A i \in DOMAIN All : far(best) <= far(All[i])
    BY DEF NearestIsNearest
  <2> DEFINE best == CHOOSE f : f = [i \in 0..size - 1 |-> Round(f, i, target)]
             found == FindNearest(target)
  <2>1. /\ size \in Nat /\ size - 1 \in Nat /\ size - 1 \in 0..size - 1
        /\ DOMAIN All = 1..size
        /\ \A i \in 1..size : i - 1 \in 0..size - 1
        /\ \A k \in 0..size - 1 : k + 1 \in 1..size /\ (k + 1) - 1 = k
    BY AllIsSequence, RingAssumption DEF IInv, TypeOK
  <2>2. best = [i \in 0..size - 1 |-> Round(best, i, target)]
    BY <2>1, LoopHasResult
  <2>3. found = best[size - 1]
    BY DEF FindNearest, Round
  <2> HIDE DEF best, found
  <2>4. /\ \E k \in 0..size - 1 : found = Walk(k)
        /\ \A k \in 0..size - 1 : Abs(found - target) <= Abs(Walk(k) - target)
    BY <2>1, <2>2, <2>3, ClosestSoFar
  <2>5. \A i \in 1..size : All[i] = Walk(i - 1) /\ All[i] \in Int
    BY WalkSeesAll, ItemsWereAdded, RingAssumption
  <2>6. PICK i \in 1..size : found = All[i]
    <3>1. PICK k \in 0..size - 1 : found = Walk(k)
      BY <2>4
    <3>2. k + 1 \in 1..size /\ (k + 1) - 1 = k
      BY <2>1
    <3>3. All[k + 1] = Walk((k + 1) - 1)
      BY <2>5, <3>2
    <3> QED
      BY <3>1, <3>2, <3>3
  <2>7. target \in Int /\ found \in Int
    BY <2>5, <2>6, RingAssumption
  <2>8. ASSUME NEW j \in 1..size
        PROVE  (IF found < target THEN target - found ELSE found - target)
                 <= (IF All[j] < target THEN target - All[j] ELSE All[j] - target)
    <3>1. Abs(found - target) <= Abs(All[j] - target) /\ All[j] \in Int
      BY <2>1, <2>4, <2>5
    <3> QED
      BY <2>7, <3>1 DEF Abs
  <2> QED
    BY <2>1, <2>6, <2>8 DEF found
<1> QED
  BY <1>1, RingInvariant, PTL

===============================================================================
