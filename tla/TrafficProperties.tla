------------------------- MODULE TrafficProperties -------------------------
(***************************************************************************)
(* What clients see of an upgrade and of the rollback after it.            *)
(***************************************************************************)
EXTENDS Traffic, ZeroDowntimeProperties

(* No request finds the proxy without a server to give it to, and none is *)
(* refused or cut, however the switch and its retries interleave and       *)
(* wherever the upgrade or rollback fails, but by a server whose drain     *)
(* was reported to leave sessions: "a residual connection count is a       *)
(* measurement, not an error, and the caller records it"                   *)
(* (haproxy/client.ts:148).                                                *)
NoRequestIsLost ==
  \A r \in Request : phase[r] \in {"refused", "cut"} => at[r] \in residual

(* "The request provably never reached Hasura and replaying it is safe"    *)
(* (haproxy.cfg:31): retries never carry a mutation out twice, one that is *)
(* answered was carried out, and one that is refused was not.              *)
AppliedAtMostOnce ==
  \A r \in Request :
    /\ applied[r] <= 1
    /\ phase[r] = "answered" => applied[r] = 1
    /\ phase[r] = "refused"  => applied[r] = 0

=============================================================================
