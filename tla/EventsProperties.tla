-------------------------- MODULE EventsProperties --------------------------
(***************************************************************************)
(* Whether the reconciliation of events finds what was lost, and nothing   *)
(* else.                                                                   *)
(***************************************************************************)
EXTENDS Events

reconciled == stage = "reconciled"

(* "Asserting at the instant probes stop would report those as lost"       *)
(* (events.ts:22-31), those that an engine is still about to deliver.  The *)
(* run sleeps a fixed settleMs instead of waiting for them: an event that  *)
(* is reported lost is lost for good, or the intervals after its failed    *)
(* tries and the time its hung ones took fill the whole of settleMs.       *)
LossIsReal ==
  reconciled => \A k \in Lost :
    event[k] \in {"dead", "locked"} \/ SettleTime <= Interval * tries[k] + Timeout * slow[k]

(* The rejection that e_retry_delivery forces, lost answers, hung tries    *)
(* and graceful shutdowns lose no event that has retries left for them, if *)
(* settleMs are longer than those retries take: then only a killed engine  *)
(* or a sidecar that rejects everything does.                              *)
NothingLostWithoutCause ==
  /\ reconciled /\ ~cause /\ faults < MaxRetries
  /\ Interval * (faults + 1) + Timeout * faults < SettleTime
  => Lost = {}

(* A retry probe whose event arrived proves that a retry brought it, never *)
(* "the first attempt having quietly worked" (server.mjs:128-129): the     *)
(* rejection is armed before the mutation and survives a sidecar rejecting *)
(* everything, an engine's death and a lost answer.                        *)
RetriesAreProved == reconciled => (expected \cap Retries) \ Lost \subseteq Retried

(* An engine disturbed n times delivers an event at most n times too       *)
(* often; a forced rejection is no delivery and makes no duplicate.        *)
DuplicatesHaveCause ==
  reconciled => Duplicates <= faults * Cardinality(expected \ Lost)

(* Whatever is lost, killed or rejected, the run comes to its              *)
(* reconciliation, or to the exception that its request for the deliveries *)
(* throws.                                                                 *)
RunReconciles == <>(stage \in {"reconciled", "thrown"})

=============================================================================
