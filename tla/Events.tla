------------------------------- MODULE Events -------------------------------
(***************************************************************************)
(* Event triggers across an upgrade: the event probes and their            *)
(* reconciliation (src/probes/events.ts), the sidecar that receives the    *)
(* webhooks (sidecar/server.mjs), and the engine's event log between them. *)
(*                                                                         *)
(* Every run of a probe uses a fresh key; a key stands for its mutation,   *)
(* its event, its deliveries and what is expected of it.                   *)
(***************************************************************************)
EXTENDS Integers, FiniteSets, FiniteSetsExt

CONSTANTS
  Plain,        \* keys of e_insert_fires_event and e_update_fires_event
  Retries,      \* keys of e_retry_delivery
  MaxRetries,   \* num_retries of the trigger
  Interval,     \* its interval_sec, in ticks
  Timeout,      \* its timeout_sec, in ticks
  SettleTime,   \* settleMs of the profile, in ticks
  MaxFaults     \* bound: requests and answers lost, engines stopped or killed

ASSUME EventsAssumption ==
  /\ MaxRetries \in Nat /\ MaxFaults \in Nat
  /\ Interval \in Nat /\ Timeout \in Nat /\ SettleTime \in Nat
  /\ Plain \cap Retries = {}

Key == Plain \cup Retries

VARIABLES
  probe,       \* where the run of the probe with this key is
  expected,    \* runHarness(): the keys of eventExpectations
  forced,      \* sidecar: forcedFailures
  rejecting,   \* is rejectAllEvents() under way?
  failAll,     \* sidecar: failAllEvents
  accepted,    \* sidecar: deliveries of a key that were not rejected
  rejected,    \* sidecar: deliveries of a key that were rejected
  event,       \* engine: the event of a key in the event log
  tries,       \* engine: its failed deliveries
  wait,        \* engine: ticks to its next try, or to the end of one that hangs
  slow,        \* the tries of a key that hung
  stage,       \* runHarness(): probing, stopping, settling, and how it came out
  clock,       \* ticks of settleMs that have passed
  faults,      \* disturbances so far
  cause        \* was an engine killed amid deliveries, or everything rejected?

probeVars   == <<probe, expected>>
sidecarVars == <<forced, rejecting, failAll, accepted, rejected>>
engineVars  == <<event, tries, wait, slow>>
runVars     == <<stage, clock, faults, cause>>
vars == <<probeVars, sidecarVars, engineVars, runVars>>

Sending == {"sent", "accepted", "refused", "hung"}   \* where a delivery under way is

EventsTypeOK ==
  /\ probe \in [Key -> {"idle", "ready", "sent", "done", "failed"}]
  /\ expected \subseteq Key
  /\ forced \in [Key -> 0..1] /\ rejecting \in BOOLEAN /\ failAll \in BOOLEAN
  /\ accepted \in [Key -> Nat] /\ rejected \in [Key -> 0..1]
  /\ event \in [Key -> {"none", "pending", "delivered", "dead", "locked"} \cup Sending]
  /\ tries \in [Key -> 0..(MaxRetries + 1)]
  /\ wait \in [Key -> Nat] /\ slow \in [Key -> Nat]
  /\ stage \in {"probing", "stopping", "settling", "reconciled", "thrown"}
  /\ clock \in 0..SettleTime
  /\ faults \in 0..MaxFaults /\ cause \in BOOLEAN

Init ==
  /\ probe = [k \in Key |-> "idle"] /\ expected = {}
  /\ forced = [k \in Key |-> 0] /\ rejecting = FALSE /\ failAll = FALSE
  /\ accepted = [k \in Key |-> 0] /\ rejected = [k \in Key |-> 0]
  /\ event = [k \in Key |-> "none"] /\ tries = [k \in Key |-> 0]
  /\ wait = [k \in Key |-> 0] /\ slow = [k \in Key |-> 0]
  /\ stage = "probing" /\ clock = 0 /\ faults = 0 /\ cause = FALSE

Fault == faults < MaxFaults /\ faults' = faults + 1

-----------------------------------------------------------------------------
(* The probes.  A loop starts none once the run is stopping, and the run   *)
(* awaits those that have started.                                         *)

ProbeAt(k, from, to) == probe[k] = from /\ probe' = [probe EXCEPT ![k] = to]

(* e_insert_fires_event, or e_update_fires_event, which inserts the order  *)
(* it will update: the trigger on orders is on updates only.               *)
Begin(k) ==
  /\ k \in Plain /\ stage = "probing"
  /\ ProbeAt(k, "idle", "ready")
  /\ UNCHANGED <<expected, sidecarVars, engineVars, runVars>>

SeedFails(k) ==
  /\ k \in Plain /\ stage = "probing"
  /\ ProbeAt(k, "idle", "failed")
  /\ Fault
  /\ UNCHANGED <<expected, sidecarVars, engineVars, stage, clock, cause>>

Arm_NotAwaitedBug(k) ==
  /\ k \in Retries /\ stage = "probing"
  /\ ProbeAt(k, "idle", "ready")
  /\ \E n \in 0..1 : forced' = [forced EXCEPT ![k] = n]
  /\ UNCHANGED <<expected, rejecting, failAll, accepted, rejected, engineVars, runVars>>

(* e_retry_delivery first has the sidecar fail the delivery to come.       *)
Arm(k) ==
  /\ k \in Retries /\ stage = "probing"
  /\ ProbeAt(k, "idle", "ready")
  /\ forced' = [forced EXCEPT ![k] = 1]
  /\ UNCHANGED <<expected, rejecting, failAll, accepted, rejected, engineVars, runVars>>

ArmFails(k) ==
  /\ k \in Retries /\ stage = "probing"
  /\ ProbeAt(k, "idle", "failed")
  /\ Fault
  /\ \E n \in 0..1 : forced' = [forced EXCEPT ![k] = n]
  /\ UNCHANGED <<expected, rejecting, failAll, accepted, rejected, engineVars, stage, clock, cause>>

(* The mutation commits, and with it the event it fires.                   *)
Mutate(k) ==
  /\ ProbeAt(k, "ready", "sent")
  /\ event' = [event EXCEPT ![k] = "pending"]
  /\ UNCHANGED <<expected, sidecarVars, tries, wait, slow, runVars>>

(* Only now is a delivery expected.                                        *)
Answered(k) ==
  /\ ProbeAt(k, "sent", "done")
  /\ expected' = expected \cup {k}
  /\ UNCHANGED <<sidecarVars, engineVars, runVars>>

(* The mutation fails, or its answer is lost: nothing is expected.         *)
MutationFails(k) ==
  /\ ProbeAt(k, "ready", "failed") \/ ProbeAt(k, "sent", "failed")
  /\ Fault
  /\ UNCHANGED <<expected, sidecarVars, engineVars, stage, clock, cause>>

ProbeStep(k) == Begin(k) \/ Arm(k) \/ Mutate(k) \/ Answered(k)

-----------------------------------------------------------------------------
(* The sidecar.                                                            *)

EventTo(k, to) == event' = [event EXCEPT ![k] = to]

Webhook_NotCountedDownBug(k) ==
  /\ event[k] = "sent"
  /\ IF failAll
     THEN EventTo(k, "refused") /\ UNCHANGED <<forced, accepted, rejected>>
     ELSE IF forced[k] > 0
     THEN /\ rejected' = [rejected EXCEPT ![k] = @ + 1]
          /\ EventTo(k, "refused") /\ UNCHANGED <<forced, accepted>>
     ELSE /\ accepted' = [accepted EXCEPT ![k] = @ + 1]
          /\ EventTo(k, "accepted") /\ UNCHANGED <<forced, rejected>>
  /\ UNCHANGED <<rejecting, failAll, tries, wait, slow, probeVars, runVars>>

Webhook_CountsAllBug(k) ==
  /\ event[k] = "sent"
  /\ IF failAll
     THEN EventTo(k, "refused") /\ UNCHANGED <<forced, accepted, rejected>>
     ELSE IF forced[k] > 0
     THEN /\ forced' = [forced EXCEPT ![k] = @ - 1]
          /\ accepted' = [accepted EXCEPT ![k] = @ + 1]
          /\ EventTo(k, "refused") /\ UNCHANGED rejected
     ELSE /\ accepted' = [accepted EXCEPT ![k] = @ + 1]
          /\ EventTo(k, "accepted") /\ UNCHANGED <<forced, rejected>>
  /\ UNCHANGED <<rejecting, failAll, tries, wait, slow, probeVars, runVars>>

(* POST /webhook/event.  Rejected at large, a delivery is not recorded;    *)
(* rejected by force, it is recorded as such.                              *)
Webhook(k) ==
  /\ event[k] = "sent"
  /\ IF failAll
     THEN EventTo(k, "refused") /\ UNCHANGED <<forced, accepted, rejected>>
     ELSE IF forced[k] > 0
     THEN /\ forced' = [forced EXCEPT ![k] = @ - 1]
          /\ rejected' = [rejected EXCEPT ![k] = @ + 1]
          /\ EventTo(k, "refused") /\ UNCHANGED accepted
     ELSE /\ accepted' = [accepted EXCEPT ![k] = @ + 1]
          /\ EventTo(k, "accepted") /\ UNCHANGED <<forced, rejected>>
  /\ UNCHANGED <<rejecting, failAll, tries, wait, slow, probeVars, runVars>>

(* rejectAllEvents() over POST /_harness/fail-all.  Whether the sidecar     *)
(* heard that it is over is not looked at.                                 *)
RejectAllStarts ==
  /\ stage = "probing" /\ ~rejecting /\ Fault
  /\ rejecting' = TRUE /\ failAll' = TRUE /\ cause' = TRUE
  /\ UNCHANGED <<probeVars, forced, accepted, rejected, engineVars, stage, clock>>

RejectAllEnds_UnlessStoppingBug ==
  /\ rejecting /\ stage = "probing"
  /\ rejecting' = FALSE /\ failAll' = FALSE
  /\ UNCHANGED <<probeVars, forced, accepted, rejected, engineVars, runVars>>

RejectAllEnds ==
  /\ rejecting
  /\ rejecting' = FALSE /\ failAll' = FALSE
  /\ UNCHANGED <<probeVars, forced, accepted, rejected, engineVars, runVars>>

RejectAllEndsUnheard ==
  /\ rejecting /\ Fault
  /\ rejecting' = FALSE
  /\ UNCHANGED <<probeVars, forced, failAll, accepted, rejected, engineVars, stage, clock, cause>>

-----------------------------------------------------------------------------
(* The engines, blue or green: they share the event log.                   *)

(* A failed try is followed by another after interval_sec, by whichever    *)
(* engine runs then, or by none.                                           *)
Deliver(k) ==
  /\ event[k] = "pending" /\ wait[k] = 0
  /\ EventTo(k, "sent")
  /\ UNCHANGED <<tries, wait, slow, probeVars, sidecarVars, runVars>>

Ack(k) ==
  /\ event[k] = "accepted" /\ EventTo(k, "delivered")
  /\ UNCHANGED <<tries, wait, slow, probeVars, sidecarVars, runVars>>

FailedTry(k) ==
  /\ tries' = [tries EXCEPT ![k] = @ + 1]
  /\ wait' = [wait EXCEPT ![k] = Interval]
  /\ EventTo(k, IF tries[k] < MaxRetries THEN "pending" ELSE "dead")
  /\ UNCHANGED slow

Nack(k) ==
  /\ event[k] = "refused" /\ FailedTry(k)
  /\ UNCHANGED <<probeVars, sidecarVars, runVars>>

(* A try that hangs fails when its timeout_sec are over.                   *)
TimesOut(k) ==
  /\ event[k] = "hung" /\ wait[k] = 0 /\ FailedTry(k)
  /\ UNCHANGED <<probeVars, sidecarVars, runVars>>

InFlight == {k \in Key : event[k] \in Sending}
Answering(k) == event[k] \in Sending \ {"hung"}

(* The request, or the sidecar's answer to it, is lost and the engine told *)
(* (a reset connection), or left to wait.                                  *)
AnswerLost(k) ==
  /\ Answering(k) /\ Fault /\ FailedTry(k)
  /\ UNCHANGED <<probeVars, sidecarVars, stage, clock, cause>>

Hangs(k) ==
  /\ Answering(k) /\ Fault /\ EventTo(k, "hung")
  /\ wait' = [wait EXCEPT ![k] = Timeout] /\ slow' = [slow EXCEPT ![k] = @ + 1]
  /\ UNCHANGED <<tries, probeVars, sidecarVars, stage, clock, cause>>

(* Engines are stopped and killed by scheduled actions and faults, which   *)
(* are over when the settling begins.                                      *)
Disturb(to) ==
  /\ stage \in {"probing", "stopping"} /\ InFlight # {} /\ Fault
  /\ event' = [k \in Key |-> IF k \in InFlight THEN to ELSE event[k]]
  /\ wait' = [k \in Key |-> IF k \in InFlight THEN 0 ELSE wait[k]]
  /\ UNCHANGED <<tries, slow, probeVars, sidecarVars, stage, clock>>

(* A graceful shutdown: what is unfinished is pending again.               *)
EngineStops == Disturb("pending") /\ UNCHANGED cause

(* SIGKILL: what is unfinished stays locked, for longer than any run.      *)
EngineKilled == Disturb("locked") /\ cause' = TRUE

DeliveryStep(k) == Deliver(k) \/ Webhook(k) \/ Ack(k) \/ Nack(k) \/ TimesOut(k)

-----------------------------------------------------------------------------
(* The end of the run.                                                     *)

Stop ==
  /\ stage = "probing"
  /\ stage' = "stopping"
  /\ UNCHANGED <<probeVars, sidecarVars, engineVars, clock, faults, cause>>

(* The loops and the faults are awaited, and only then settleMs begin.     *)
Settle ==
  /\ stage = "stopping" /\ ~rejecting
  /\ \A k \in Key : probe[k] \in {"idle", "done", "failed"}
  /\ stage' = "settling"
  /\ UNCHANGED <<probeVars, sidecarVars, engineVars, clock, faults, cause>>

(* Time passes.  Once the run settles an engine is up: what is due is sent *)
(* and answered within the tick, unless it is lost or hangs.               *)
Due(k) == (event[k] \in Sending \cup {"pending"}) /\ wait[k] = 0

Tick ==
  /\ stage = "settling" => clock < SettleTime /\ \A k \in Key : ~Due(k)
  /\ clock' = IF stage = "settling" THEN clock + 1 ELSE clock
  /\ wait' = [k \in Key |-> IF wait[k] > 0 THEN wait[k] - 1 ELSE 0]
  /\ UNCHANGED <<probeVars, sidecarVars, event, tries, slow, stage, faults, cause>>

Reconcile_AtOnceBug ==
  /\ stage = "settling"
  /\ stage' = "reconciled"
  /\ UNCHANGED <<probeVars, sidecarVars, engineVars, clock, faults, cause>>

(* When settleMs are over, what the sidecar has received by then counts,   *)
(* whatever an engine is still about to send.                              *)
Reconcile ==
  /\ stage = "settling" /\ clock = SettleTime
  /\ stage' = "reconciled"
  /\ UNCHANGED <<probeVars, sidecarVars, engineVars, clock, faults, cause>>

(* fetchDeliveries() throws, and runHarness() with it: there is no score.  *)
ReconcileThrows ==
  /\ stage = "settling" /\ clock = SettleTime
  /\ stage' = "thrown" /\ Fault
  /\ UNCHANGED <<probeVars, sidecarVars, engineVars, clock, cause>>

(* reconcileEvents().                                                      *)
Lost        == {k \in expected : accepted[k] = 0}
RetriesLost == Lost \cap Retries
Retried     == {k \in expected : accepted[k] > 0 /\ rejected[k] > 0}
Duplicates  == MapThenSumSet(LAMBDA k : accepted[k] - 1, expected \ Lost)

-----------------------------------------------------------------------------
Running == stage \notin {"reconciled", "thrown"}

Next ==
  \/ Running /\ \E k \in Key :
       \/ ProbeStep(k) \/ SeedFails(k) \/ ArmFails(k) \/ MutationFails(k)
       \/ DeliveryStep(k) \/ AnswerLost(k) \/ Hangs(k)
  \/ EngineStops \/ EngineKilled
  \/ RejectAllStarts \/ RejectAllEnds \/ RejectAllEndsUnheard
  \/ Running /\ Tick
  \/ Stop \/ Settle \/ Reconcile \/ ReconcileThrows

(* Requests are answered, engines deliver what is due, time passes and the *)
(* run goes on to its end.                                                 *)
Fairness ==
  /\ \A k \in Key : WF_vars(Running /\ (ProbeStep(k) \/ DeliveryStep(k)))
  /\ WF_vars(RejectAllEnds)
  /\ WF_vars(Running /\ Tick)
  /\ WF_vars(Stop \/ Settle \/ Reconcile \/ ReconcileThrows)

Spec == Init /\ [][Next]_vars /\ Fairness

=============================================================================
