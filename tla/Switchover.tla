----------------------------- MODULE Switchover -----------------------------
(***************************************************************************)
(* What a zero-downtime upgrade promises its clients, whatever engines,    *)
(* proxy and databases are behind it: some server always answers, and a    *)
(* server is given requests only while it is fit to answer them.           *)
(***************************************************************************)
CONSTANT Server

VARIABLES
  serving,   \* the servers that answer requests
  fit        \* the servers that are fit to

Init ==
  /\ serving \in SUBSET Server /\ serving # {}
  /\ fit     \in SUBSET Server
  /\ serving \subseteq fit

(* A fit server starts to answer.                                          *)
Enable(s) ==
  /\ s \in fit
  /\ serving' = serving \cup {s}
  /\ UNCHANGED fit

(* A server stops answering, and is not the last.                          *)
Retire(s) ==
  /\ serving' = serving \ {s}
  /\ serving' # {}
  /\ UNCHANGED fit

(* A server that does not answer is replaced, proved or discarded.         *)
Refit(s) ==
  /\ s \notin serving
  /\ fit' \in {fit \cup {s}, fit \ {s}}
  /\ UNCHANGED serving

Next == \E s \in Server : Enable(s) \/ Retire(s) \/ Refit(s)

Spec == Init /\ [][Next]_<<serving, fit>>

=============================================================================
