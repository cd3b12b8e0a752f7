-------------------------------- MODULE Feed --------------------------------
(***************************************************************************)
(* What a streaming subscription promises: rows are appended in order, and *)
(* what a subscriber has got is always everything up to some row, however  *)
(* often it was cut off in between.                                        *)
(***************************************************************************)
EXTENDS Naturals

CONSTANT Row   \* what can be appended, numbered in order

VARIABLES
  rows,   \* the rows appended so far
  got     \* the rows the subscriber has received

Init == rows = {} /\ got = {}

Append(n) ==
  /\ \A r \in rows : r < n
  /\ rows' = rows \cup {n}
  /\ UNCHANGED got

(* Everything up to row n, and nothing that had been received is forgotten.*)
Deliver(n) ==
  /\ got' = {r \in rows : r <= n}
  /\ got \subseteq got'
  /\ UNCHANGED rows

Next == \E n \in Row : Append(n) \/ Deliver(n)

Spec == Init /\ [][Next]_<<rows, got>>

=============================================================================
