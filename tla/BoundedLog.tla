----------------------------- MODULE BoundedLog -----------------------------
(***************************************************************************)
(* What a store of recent tracking events promises to its readers: the     *)
(* events recorded last, at most Capacity of them, oldest first, each one  *)
(* exactly as it was recorded.  TrackingStore is shown to implement it.    *)
(***************************************************************************)
EXTENDS Integers, Sequences

CONSTANTS Events,    \* the events a caller may record
          Capacity   \* how many of them are kept

VARIABLE log

\* The last Capacity elements of the log extended by one event.
Remember(l, e) ==
  LET drop == IF Len(l) < Capacity THEN 0 ELSE 1
  IN  [i \in 1 .. Len(l) + 1 - drop |-> IF i + drop <= Len(l) THEN l[i + drop] ELSE e]

Init == log = << >>

Add(e) == log' = Remember(log, e)

Next == \E e \in Events : Add(e)

Spec == Init /\ [][Next]_log
=============================================================================
