------------------------------ MODULE MCRunner ------------------------------
(* Small instances of RunnerProperties.                                    *)
EXTENDS RunnerProperties

MCProbes == {1, 2}
MCAction == {"upgrade", "rollback"}
MCKinds  == {"ok", "unavailable", "wrong-result"}

(* A run in which nothing else goes wrong, and one for each gate that may  *)
(* go wrong besides, with and without a limit.                             *)
Clean ==
  [lostEvents |-> 0, retriesLost |-> 0, missedRows |-> 0, drops |-> 0, reconnectMs |-> 0,
   cronObserved |-> 1, cronExpected |-> 1]

MCMeasured ==
  {Clean,
   [Clean EXCEPT !.lostEvents = 1],
   [Clean EXCEPT !.lostEvents = 1, !.retriesLost = 1],
   [Clean EXCEPT !.missedRows = 1],
   [Clean EXCEPT !.drops = 1, !.reconnectMs = 30000],
   [Clean EXCEPT !.drops = 1, !.reconnectMs = 30001],
   [Clean EXCEPT !.cronObserved = 0]}

=============================================================================
