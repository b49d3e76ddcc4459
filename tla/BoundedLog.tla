------------------------------ MODULE BoundedLog ------------------------------
(***************************************************************************)
(* What a RingBuffer (pkg/blackbox/ring.go) promises its users: a log of   *)
(* the last Capacity items that were added, in the order they were added.  *)
(***************************************************************************)
EXTENDS Naturals, Sequences

CONSTANTS Items, Capacity

VARIABLE log

\* "If the buffer is full, the oldest item is evicted."
Pushed(l, x) == IF Len(l) < Capacity THEN Append(l, x) ELSE Append(Tail(l), x)

Init == log = << >>

Add(x) == log' = Pushed(log, x)

Clear == log' = << >>

Next == (\E x \in Items : Add(x)) \/ Clear

Spec == Init /\ [][Next]_log
===============================================================================
