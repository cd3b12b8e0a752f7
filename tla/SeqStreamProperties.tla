------------------------ MODULE SeqStreamProperties ------------------------
(***************************************************************************)
(* What the subscriptions measure, and whether they measure it.            *)
(***************************************************************************)
EXTENDS SeqStream

(* "On reconnect the cursor resumes from the highest seq already seen":    *)
(* wherever its socket was cut, and with whatever in flight, the streaming *)
(* subscription has received every row up to its cursor, so what missed()  *)
(* counts is what it has not got to yet (subscriptions.ts:129-136).        *)
NothingSkipped ==
  kind = "streaming" => \A n \in table : n <= maxSeq => n \in received

(* Reconnecting and back-filling, it is a feed without gaps.               *)
F == INSTANCE Feed WITH rows <- table, got <- received
FeedKept == F!Spec

(* A connection that ends while the run goes on, by an error or by a clean *)
(* completion, cannot hide (subscriptions.ts:86): it is counted, and so is *)
(* the time until the next one.                                            *)
NoDropHides ==
  /\ connects <= drops + 1
  /\ connects <= reconnects + 1
  /\ reconnects <= drops

(* Once outages are over, a subscription catches up with every row that    *)
(* was written, during an outage or not.                                   *)
CatchesUp ==
  \A n \in Row :
    (n \in table /\ stage = "run") ~>
      (stage # "run" \/ (maxSeq >= n /\ (kind = "streaming" => n \in received)))

-----------------------------------------------------------------------------
(* subscriptions.ts:31 "Reconnection is handled explicitly below .. so     *)
(* that drop and reconnect timings can be measured": while a subscription  *)
(* is disconnected, the time it has been for does not start again.         *)
LossIsTimedFromItsStart ==
  [][lostFor # NotLost /\ lostFor' # NotLost => lostFor' >= lostFor]_vars

=============================================================================
