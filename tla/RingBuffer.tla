------------------------------ MODULE RingBuffer ------------------------------
(***************************************************************************)
(* The circular buffer of pkg/blackbox/ring.go, which holds the snapshots  *)
(* of a GPU (Recorder), the Kubernetes events of a node (EventBuffer) and  *)
(* the XID events of a node (xid.Watcher).                                 *)
(*                                                                         *)
(* Every method holds r.mu, so a write is an action and a read is an       *)
(* operator on the state.  An item is abstracted to the timestamp that the *)
(* caller's timeFn extracts from it, an integer.                           *)
(***************************************************************************)
EXTENDS Integers, Sequences

CONSTANTS
    Times,       \* the timestamps items may have
    Capacity,    \* cap(r.data)
    Zero         \* the zero value of an item

ASSUME RingAssumption ==
    /\ Capacity \in Nat \ {0}    \* NewRingBuffer refuses any other capacity
    /\ Times \subseteq Int

VARIABLES
    data,    \* the slots, counted from 0
    head,    \* the next slot to write
    size,    \* how many items there are
    full     \* the buffer has wrapped

vars == <<data, head, size, full>>

Slots == 0..Capacity - 1

TypeOK ==
    /\ data \in [Slots -> Times \union {Zero}]
    /\ head \in Slots
    /\ size \in 0..Capacity
    /\ full \in BOOLEAN

Init ==
    /\ data = [s \in Slots |-> Zero]
    /\ head = 0
    /\ size = 0
    /\ full = FALSE

NextHead(h) == (h + 1) % Capacity

Add(x) ==
    /\ data' = [data EXCEPT ![head] = x]
    /\ head' = NextHead(head)
    /\ IF full
       THEN UNCHANGED <<size, full>>
       ELSE /\ size' = size + 1
            /\ full' = (size' = Capacity)

Clear ==
    /\ data' = [s \in Slots |-> Zero]
    /\ head' = 0
    /\ size' = 0
    /\ full' = FALSE

Next == (\E x \in Times : Add(x)) \/ Clear

Spec == Init /\ [][Next]_vars

-------------------------------------------------------------------------------
(* The reads *)

Latest == data[(head - 1 + Capacity) % Capacity]

AllUnwrapped == [i \in 1..size |-> data[i - 1]]

\* All, and the first half of Query: data[head:] followed by data[:head] when
\* the buffer has wrapped, data[:size] before.
All ==
    IF full
    THEN [i \in 1..size |-> IF head + i - 1 < Capacity
                            THEN data[head + i - 1]
                            ELSE data[head + i - 1 - Capacity]]
    ELSE [i \in 1..size |-> data[i - 1]]

ReachedStrictly(t, since) == t > since

\* !timeFn(item).Before(since)
Reached(t, since) == t >= since

\* The scan stops at the first item that is not before since and returns it
\* with everything behind it, whatever that is.
Query(since) ==
    LET hits == {i \in DOMAIN All : Reached(All[i], since)} IN
    IF hits = {} THEN << >>
    ELSE LET start == CHOOSE i \in hits : \A j \in hits : i <= j
         IN  SubSeq(All, start, Len(All))

WalkUnwrapped(i) == data[i]

\* The item the loops of QueryFunc and FindNearest see in round i, from 0.
Walk(i) == IF full THEN data[(head + i) % Capacity] ELSE data[i]

\* The predicate is given as the set of the items that satisfy it.
QueryFunc(wanted) ==
    SelectSeq([i \in 1..size |-> Walk(i - 1)], LAMBDA x : x \in wanted)

AbsSigned(d) == d

Abs(d) == IF d < 0 THEN -d ELSE d

\* The loop of FindNearest: after round i the closest item so far, the older
\* one of two that are equally close.
FindNearest(target) ==
    LET best[i \in 0..size - 1] ==
            IF i > 0 /\ ~(Abs(Walk(i) - target) < Abs(best[i - 1] - target))
            THEN best[i - 1]
            ELSE Walk(i)
    IN  best[size - 1]

-------------------------------------------------------------------------------
(* Properties *)

\* The three fields that say where the items are agree: size reaches the
\* capacity exactly when the buffer is marked full, and until then the next
\* slot to write is the one behind the items.  Add returns early once full is
\* set, so nothing would repair a disagreement.
Shape ==
    /\ full <=> size = Capacity
    /\ ~full => head = size

\* Seen through All, the buffer is the log of the last Capacity items added:
\* no item is lost early, kept too long or moved, across any number of wraps
\* and clears.
LastItems == INSTANCE BoundedLog WITH Items <- Times, log <- All
ImplementsBoundedLog == LastItems!Spec

\* The readers that compute slots on their own see what All returns: Latest
\* its last item, QueryFunc its items in the same order.
ReadersAgree ==
    size > 0 =>
        /\ Latest = All[size]
        /\ \A wanted \in SUBSET Times :
               QueryFunc(wanted) = SelectSeq(All, LAMBDA x : x \in wanted)

Sorted(s) == \A i, j \in DOMAIN s : i < j => s[i] <= s[j]

\* "Query returns items newer than the given timestamp in chronological order"
\* (ring.go): it returns a tail of the buffer, nothing that was evicted or
\* cleared, and omits no item from since on, whatever the order.  If they were
\* added in the order of their timestamps, as one sampling goroutine adds them,
\* those are exactly what it returns.
QueryMissesNothing ==
    \A since \in Times :
        LET q == Query(since)  from == Len(All) - Len(q) IN
        /\ q = SubSeq(All, from + 1, Len(All))
        /\ \A i \in 1..from : All[i] < since
        /\ Sorted(All) => \A i \in from + 1..Len(All) : All[i] >= since

\* No item of the buffer is closer to the target than the one FindNearest
\* returns.
NearestIsNearest ==
    size > 0 =>
        \A target \in Times :
            LET best == FindNearest(target)
                far(t) == IF t < target THEN target - t ELSE t - target
            IN  /\ \E i \in DOMAIN All : All[i] = best
                /\ \A i \in DOMAIN All : far(best) <= far(All[i])
===============================================================================
