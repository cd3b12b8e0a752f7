------------------------ MODULE ActionLogProperties ------------------------
(***************************************************************************)
(* What the copy of the action log is for, and what its error handling is  *)
(* said to do.                                                             *)
(***************************************************************************)
EXTENDS ActionLog

ActionLogTypeOK == TypeOK /\ LogTypeOK

(* copyActionLog writes rows it read some queries ago, while blue writes   *)
(* newer ones: a result that has reached a log is never overwritten with   *)
(* the pending row it replaced (stack/index.ts:183-186).                   *)
ResultsAreNeverUndone ==
  [][\A d \in dbs, a \in Action : log[d][a] = "done" => log'[d][a] = "done"]_allVars

(* "Blue is definitely not writing any more, so this catches anything the  *)
(* sync loop missed" (zeroDowntime.ts:192): when the upgrade ends, if no   *)
(* query failed, every result in blue's log is in green's.                 *)
NoResultLeftBehind ==
  upc = "ended" /\ rpc = "idle" /\ copyFaults = 0 =>
    \A a \in Action : log[source][a] = "done" => log[clone][a] = "done"

(* The engine in service after an upgrade knows of every action blue       *)
(* accepted, finished or not, so a poll is never answered "no such action".*)
NoActionForgotten ==
  upc = "ended" /\ rpc = "idle" /\ copyFaults = 0 =>
    \A a \in Action : log[source][a] # "absent" => log[db[Green]][a] # "absent"

(* A client that polls gets the result blue wrote, wherever the upgrade    *)
(* fails, and after a rollback: from some point on an engine in service    *)
(* has it.  The exceptions are a failed query, and a rollback that restarts*)
(* blue and then fails: what blue writes meanwhile is carried by nobody.   *)
ResultReachesClient ==
  \A a \in Action :
    (log[Original][a] = "done") ~>
      [](copyFaults > 0 \/ rpc = "failed" \/ \E s \in Server : PollAnswered(s, a))

-----------------------------------------------------------------------------
(* zeroDowntime.ts:107 "Recorded rather than swallowed: a silently failing *)
(* sync looks exactly like a working one": an upgrade that ends without a  *)
(* result blue wrote has recorded an error.                                *)
FailuresAreRecorded ==
  upc = "ended" /\ rpc = "idle" =>
    \/ recorded
    \/ \A a \in Action : log[source][a] = "done" => log[clone][a] = "done"

=============================================================================
