---------------------------- MODULE EventsProofs ----------------------------
(***************************************************************************)
(* Theorems about the reconciliation of events, for every number of        *)
(* probes, retries and disturbances.                                       *)
(***************************************************************************)
EXTENDS EventsProperties, FiniteSetTheorems, WellFoundedInduction, TLAPS

Under(k) == event[k] # "none"

(* A key from its probe to its last delivery.  A forced rejection is either *)
(* to come or has come, and until it has nothing is accepted.              *)
ArmedInv(k) ==
  /\ probe[k] \in {"idle", "ready"} => event[k] = "none"
  /\ probe[k] = "idle" => forced[k] = 0 /\ rejected[k] = 0
  /\ forced[k] + rejected[k] <= 1
  /\ probe[k] = "ready" /\ k \in Retries => forced[k] = 1
  /\ Under(k) /\ k \in Retries => forced[k] + rejected[k] = 1
  /\ accepted[k] > 0 => Under(k) /\ (k \in Retries => rejected[k] = 1)

(* What an event owes to its deliveries.                                   *)
EventInv(k) ==
  /\ event[k] \in {"accepted", "delivered"} => accepted[k] > 0
  /\ event[k] = "dead" <=> tries[k] > MaxRetries
  /\ event[k] = "none" => tries[k] = 0

(* Failed deliveries have been forced, once, or are disturbances.          *)
CauseInv(k) ==
  ~cause =>
    /\ event[k] # "locked"
    /\ event[k] \in {"refused", "hung"} => tries[k] + 1 <= faults + rejected[k]
    /\ tries[k] <= faults + rejected[k]

KeyInv(k) == ArmedInv(k) /\ EventInv(k) /\ CauseInv(k)

(* How long the tries of an event that failed can have held it up.         *)
Delay(k) == Interval * tries[k] + Timeout * slow[k]

(* The time of an event that is still to be delivered is accounted for:    *)
(* what has passed of the settling, and what it has yet to wait.           *)
DelayInv(k) ==
  /\ event[k] \in ({"none"} \cup Sending) \ {"hung"} => wait[k] = 0
  /\ event[k] \in Sending \cup {"pending"} => clock + wait[k] <= Delay(k)
  /\ slow[k] <= faults

RunInv ==
  /\ failAll => cause
  /\ \A k \in Key : (k \in expected => Under(k)) /\ (probe[k] = "sent" => Under(k))
  /\ stage \notin {"probing", "stopping"} => \A k \in Key : probe[k] \in {"idle", "done", "failed"}
  /\ stage \in {"probing", "stopping"} => clock = 0
  /\ stage = "reconciled" => clock = SettleTime

(* What was accepted once too often was disturbed before it was delivered. *)
CopyInv(k) ==
  /\ accepted[k] <= faults + 1
  /\ event[k] \notin {"accepted", "delivered"} => accepted[k] <= faults

CopiesInv == IsFiniteSet(expected) /\ \A k \in Key : CopyInv(k)

DelaysInv == \A k \in Key : DelayInv(k)

EventsInv == EventsTypeOK /\ RunInv /\ \A k \in Key : KeyInv(k)

-----------------------------------------------------------------------------
LEMMA EventsInit == Init => EventsInv
<1> SUFFICES ASSUME Init PROVE EventsInv
  OBVIOUS
<1>1. EventsTypeOK
  <2>1. 0 \in 0..MaxFaults /\ 0 \in 0..(MaxRetries + 1) /\ 0 \in 0..SettleTime /\ 0 \in Nat
    BY EventsAssumption
  <2>2. /\ (expected \subseteq Key)
        /\ rejecting \in BOOLEAN /\ failAll \in BOOLEAN /\ cause \in BOOLEAN
    BY DEF Init
  <2> QED
    BY <2>1, <2>2 DEF Init, EventsTypeOK
<1>2. RunInv
  BY DEF Init, RunInv
<1>3. \A k \in Key : KeyInv(k)
  BY EventsAssumption DEF Init, KeyInv, ArmedInv, EventInv, CauseInv, Under
<1> QED
  BY <1>1, <1>2, <1>3 DEF EventsInv

LEMMA ProbeSteps ==
  ASSUME EventsInv, Running, NEW k \in Key,
         ProbeStep(k) \/ SeedFails(k) \/ ArmFails(k) \/ MutationFails(k)
  PROVE  EventsInv'
<1> USE EventsAssumption DEF EventsInv, EventsTypeOK, RunInv, KeyInv, ArmedInv, EventInv,
        CauseInv, Under, ProbeAt, EventTo, sidecarVars, engineVars, runVars, Running, Fault
<1>1. CASE Begin(k)
  BY <1>1 DEF Begin
<1>2. CASE Arm(k)
  BY <1>2 DEF Arm
<1>3. CASE Mutate(k)
  BY <1>3 DEF Mutate
<1>4. CASE Answered(k)
  BY <1>4 DEF Answered
<1>5. CASE SeedFails(k)
  BY <1>5 DEF SeedFails
<1>6. CASE ArmFails(k)
  BY <1>6 DEF ArmFails
<1>7. CASE MutationFails(k)
  BY <1>7 DEF MutationFails
<1> QED
  BY <1>1, <1>2, <1>3, <1>4, <1>5, <1>6, <1>7 DEF ProbeStep

(* A failed try, whatever it failed of.                                    *)
LEMMA TryFails ==
  ASSUME EventsInv, Running, NEW k \in Key, event[k] \in Sending, FailedTry(k),
         UNCHANGED <<probeVars, sidecarVars, stage, clock, cause>>,
         \/ Fault
         \/ faults' = faults /\ event[k] \in {"refused", "hung"}
  PROVE  EventsInv'
<1> USE EventsAssumption DEF EventsInv, FailedTry, EventTo, probeVars, sidecarVars, Fault
<1>1. EventsTypeOK'
  <2>1. tries[k] <= MaxRetries
    BY DEF EventsTypeOK, KeyInv, EventInv, Sending
  <2> QED
    BY <2>1 DEF EventsTypeOK
<1>2. RunInv'
  BY DEF RunInv, Under, EventsTypeOK
<1>3. ASSUME NEW i \in Key \ {k} PROVE KeyInv(i)'
  <2>1. /\ event'[i] = event[i] /\ tries'[i] = tries[i] /\ KeyInv(i)
        /\ faults' >= faults /\ faults \in Nat /\ tries[i] \in Nat /\ rejected[i] \in Nat
    BY DEF EventsTypeOK
  <2> QED
    BY <2>1 DEF EventsTypeOK, KeyInv, ArmedInv, EventInv, CauseInv, Under
<1>4. KeyInv(k)'
  <2>1. /\ event'[k] \in {"pending", "dead"} /\ (event'[k] = "dead" <=> tries[k] + 1 > MaxRetries)
        /\ tries'[k] = tries[k] + 1 /\ tries[k] \in Nat /\ faults \in Nat /\ rejected[k] \in Nat
    BY DEF EventsTypeOK
  <2>2. ArmedInv(k)' /\ EventInv(k)'
    BY <2>1 DEF KeyInv, ArmedInv, EventInv, Under, Sending
  <2>3. ~cause => tries[k] + 1 <= faults' + rejected[k]
    BY <2>1 DEF KeyInv, CauseInv
  <2>4. CauseInv(k)'
    BY <2>1, <2>3 DEF CauseInv
  <2> QED
    BY <2>2, <2>4 DEF KeyInv
<1> QED
  BY <1>1, <1>2, <1>3, <1>4

LEMMA DeliverySteps ==
  ASSUME EventsInv, Running, NEW k \in Key, DeliveryStep(k) \/ AnswerLost(k) \/ Hangs(k)
  PROVE  EventsInv'
<1> USE EventsAssumption DEF EventsInv, EventsTypeOK, RunInv, KeyInv, ArmedInv, EventInv,
        CauseInv, Under, EventTo, Sending, Answering, probeVars, sidecarVars, runVars, Running
<1>1. CASE Deliver(k)
  BY <1>1 DEF Deliver
<1>2. CASE Webhook(k)
  <2>1. CASE failAll
    BY <1>2, <2>1 DEF Webhook
  <2>2. CASE ~failAll /\ forced[k] > 0
    <3>1. /\ event[k] = "sent" /\ forced[k] = 1 /\ rejected[k] = 0
          /\ forced' = [forced EXCEPT ![k] = 0] /\ rejected' = [rejected EXCEPT ![k] = 1]
          /\ event' = [event EXCEPT ![k] = "refused"]
          /\ UNCHANGED <<accepted, rejecting, failAll, tries, wait, slow, probeVars, runVars>>
      BY <1>2, <2>2 DEF Webhook
    <3>2. EventsTypeOK'
      BY <3>1
    <3>3. RunInv'
      BY <3>1
    <3>4. \A i \in Key : KeyInv(i)'
      BY <3>1
    <3> QED
      BY <3>2, <3>3, <3>4
  <2>3. CASE ~failAll /\ ~(forced[k] > 0)
    BY <1>2, <2>3 DEF Webhook
  <2> QED
    BY <2>1, <2>2, <2>3
<1>3. CASE Ack(k)
  BY <1>3 DEF Ack
<1>4. CASE Nack(k) \/ TimesOut(k) \/ AnswerLost(k)
  <2> USE DEF Nack, TimesOut, AnswerLost
  <2>1. /\ event[k] \in Sending /\ FailedTry(k)
        /\ UNCHANGED <<probeVars, sidecarVars, stage, clock, cause>>
        /\ Fault \/ (faults' = faults /\ event[k] \in {"refused", "hung"})
    BY <1>4
  <2> QED
    BY <2>1, TryFails
<1>5. CASE Hangs(k)
  <2>1. EventsTypeOK'
    BY <1>5 DEF Hangs, Fault
  <2>2. RunInv' /\ \A i \in Key : KeyInv(i)'
    BY <1>5 DEF Hangs, Fault
  <2> QED
    BY <2>1, <2>2
<1> QED
  BY <1>1, <1>2, <1>3, <1>4, <1>5 DEF DeliveryStep

LEMMA Disturbed ==
  ASSUME EventsInv, NEW to \in {"pending", "locked"}, Disturb(to),
         \/ to = "pending" /\ cause' = cause
         \/ cause' = TRUE
  PROVE  EventsInv'
<1> USE EventsAssumption DEF EventsInv, Disturb, Fault, probeVars, sidecarVars
<1>1. /\ faults \in Nat /\ faults' = faults + 1
      /\ event \in [Key -> {"none", "pending", "delivered", "dead", "locked"} \cup Sending]
      /\ \A k \in Key : /\ tries'[k] = tries[k] /\ tries[k] \in Nat /\ rejected[k] \in Nat
                         /\ event'[k] = IF event[k] \in Sending THEN to ELSE event[k]
  BY DEF EventsTypeOK, InFlight
<1>2. EventsTypeOK'
  <2>1. /\ event' \in [Key -> {"none", "pending", "delivered", "dead", "locked"} \cup Sending]
        /\ wait' \in [Key -> Nat]
    BY DEF EventsTypeOK
  <2>2. cause' \in BOOLEAN
    BY Zenon DEF EventsTypeOK
  <2>3. faults' \in 0..MaxFaults
    BY DEF EventsTypeOK
  <2> QED
    BY <2>1, <2>2, <2>3 DEF EventsTypeOK
<1>3. RunInv'
  BY <1>1 DEF RunInv, Under
<1>4. ASSUME NEW k \in Key PROVE KeyInv(k)'
  <2>1. ArmedInv(k)' /\ EventInv(k)'
    BY <1>1 DEF KeyInv, ArmedInv, EventInv, Under, Sending
  <2>2. CauseInv(k)'
    BY <1>1 DEF KeyInv, CauseInv, Sending
  <2> QED
    BY <2>1, <2>2 DEF KeyInv
<1> QED
  BY <1>2, <1>3, <1>4

LEMMA RunSteps ==
  ASSUME EventsInv,
         \/ EngineStops \/ EngineKilled
         \/ RejectAllStarts \/ RejectAllEnds \/ RejectAllEndsUnheard
         \/ Tick \/ Stop \/ Settle \/ Reconcile \/ ReconcileThrows
         \/ UNCHANGED vars
  PROVE  EventsInv'
<1> USE EventsAssumption DEF EventsInv, EventsTypeOK, RunInv, KeyInv, ArmedInv, EventInv,
        CauseInv, Under, probeVars, sidecarVars, engineVars, runVars, Fault
<1>1. CASE EngineStops \/ EngineKilled
  <2> HIDE DEF EventsInv
  <2> QED
    BY <1>1, Disturbed DEF EngineStops, EngineKilled
<1>2. CASE RejectAllStarts
  BY <1>2 DEF RejectAllStarts
<1>3. CASE RejectAllEnds
  BY <1>3 DEF RejectAllEnds
<1>4. CASE RejectAllEndsUnheard
  <2>1. EventsTypeOK'
    <3> HIDE DEF RunInv, KeyInv, Under
    <3>1. UNCHANGED <<probe, expected, forced, failAll, accepted, rejected>>
      BY <1>4 DEF RejectAllEndsUnheard
    <3>2. UNCHANGED <<event, tries, wait, slow, stage, clock, cause>>
      BY <1>4 DEF RejectAllEndsUnheard
    <3>3. faults' \in 0..MaxFaults
      BY <1>4 DEF RejectAllEndsUnheard
    <3>4. rejecting' \in BOOLEAN
      BY <1>4, Zenon DEF RejectAllEndsUnheard
    <3> QED
      BY <3>1, <3>2, <3>3, <3>4
  <2>2. RunInv' /\ \A k \in Key : KeyInv(k)'
    BY <1>4 DEF RejectAllEndsUnheard
  <2> QED
    BY <2>1, <2>2
<1>5. CASE Tick
  <2>1. clock' \in 0..SettleTime
    BY <1>5 DEF Tick
  <2>2. wait' \in [Key -> Nat]
    BY <1>5 DEF Tick
  <2>3. stage' = stage /\ (stage # "settling" => clock' = clock)
    BY <1>5 DEF Tick
  <2>4. UNCHANGED <<probe, expected, forced, rejecting, failAll, accepted, rejected>>
    BY <1>5 DEF Tick
  <2>5. UNCHANGED <<event, tries, slow, stage, faults, cause>>
    BY <1>5 DEF Tick
  <2> QED
    BY <2>1, <2>2, <2>3, <2>4, <2>5
<1>6. CASE Stop \/ Settle \/ Reconcile \/ UNCHANGED vars
  BY <1>6 DEF Stop, Settle, Reconcile, vars
<1>7. CASE ReconcileThrows
  BY <1>7 DEF ReconcileThrows
<1> QED
  BY <1>1, <1>2, <1>3, <1>4, <1>5, <1>6, <1>7

LEMMA EventsInvariant == Spec => []EventsInv
<1>1. EventsInv /\ [Next]_vars => EventsInv'
  BY ProbeSteps, DeliverySteps, RunSteps DEF Next
<1> QED
  BY <1>1, EventsInit, PTL DEF Spec

LEMMA CopiesStep == EventsInv /\ CopiesInv /\ [Next]_vars => CopiesInv'
<1> SUFFICES ASSUME EventsInv, CopiesInv, [Next]_vars PROVE CopiesInv'
  OBVIOUS
<1>1. /\ faults \in Nat /\ \A k \in Key : CopyInv(k)
      /\ accepted \in [Key -> Nat] /\ event \in [Key -> {"none", "pending", "delivered", "dead", "locked"} \cup Sending]
  BY EventsAssumption DEF EventsInv, EventsTypeOK, CopiesInv
<1>2. IsFiniteSet(expected')
  <2>1. expected' = expected \/ \E k \in Key : expected' = expected \cup {k}
    BY DEF Next, ProbeStep, SeedFails, ArmFails, MutationFails, DeliveryStep, AnswerLost, Hangs,
       Begin, Arm, Mutate, Answered, Deliver, Webhook, Ack, Nack, TimesOut, Disturb, EngineStops,
       EngineKilled, RejectAllStarts, RejectAllEnds, RejectAllEndsUnheard, Tick, Stop, Settle,
       Reconcile, ReconcileThrows, probeVars, vars
  <2>2. IsFiniteSet(expected)
    BY DEF CopiesInv
  <2> QED
    BY <2>1, <2>2, FS_AddElement
<1> DEFINE Copies == \A k \in Key : CopyInv(k)
<1>3. ASSUME UNCHANGED accepted, faults' = faults + 1 PROVE Copies'
  BY <1>1, <1>3 DEF CopyInv
<1>4. ASSUME NEW k \in Key, Webhook(k) PROVE Copies'
  <2>1. event[k] = "sent" /\ accepted[k] <= faults /\ faults' = faults
    BY <1>1, <1>4 DEF Webhook, CopyInv, runVars
  <2>2. \A i \in Key \ {k} : event'[i] = event[i] /\ accepted'[i] = accepted[i]
    BY <1>1, <1>4 DEF Webhook, EventTo
  <2>3. \/ accepted'[k] = accepted[k] /\ event'[k] = "refused"
        \/ accepted'[k] = accepted[k] + 1 /\ event'[k] = "accepted"
    BY <1>1, <1>4 DEF Webhook, EventTo
  <2> QED
    BY <1>1, <2>1, <2>2, <2>3 DEF CopyInv
<1>5. ASSUME NEW k \in Key, ProbeStep(k) \/ Deliver(k) \/ Ack(k) \/ Nack(k) \/ TimesOut(k)
      PROVE  Copies'
  <2>1. UNCHANGED accepted /\ UNCHANGED faults
    BY <1>5 DEF ProbeStep, Begin, Arm, Mutate, Answered, Deliver, Ack, Nack, TimesOut,
       sidecarVars, runVars
  <2>2. \/ Begin(k) \/ Arm(k) \/ Mutate(k) \/ Answered(k)
        \/ Deliver(k) \/ Ack(k) \/ Nack(k) \/ TimesOut(k)
    BY <1>5 DEF ProbeStep
  <2>3. \A i \in Key : event[i] \in {"accepted", "delivered"} => event'[i] \in {"accepted", "delivered"}
    <3>1. CASE Begin(k) \/ Arm(k) \/ Answered(k)
      BY <3>1 DEF Begin, Arm, Answered, engineVars
    <3>2. CASE Mutate(k)
      <4>1. event[k] = "none"
        BY <3>2 DEF Mutate, ProbeAt, EventsInv, KeyInv, ArmedInv
      <4> QED
        BY <1>1, <3>2, <4>1 DEF Mutate
    <3>3. CASE Deliver(k) \/ Ack(k) \/ Nack(k) \/ TimesOut(k)
      BY <1>1, <3>3 DEF Deliver, Ack, Nack, TimesOut, EventTo, FailedTry
    <3> QED
      BY <2>2, <3>1, <3>2, <3>3
  <2> QED
    BY <1>1, <2>1, <2>3 DEF CopyInv
<1>6. ASSUME NEW k \in Key,
             SeedFails(k) \/ ArmFails(k) \/ MutationFails(k) \/ AnswerLost(k) \/ Hangs(k)
      PROVE  Copies'
  BY <1>3, <1>6 DEF SeedFails, ArmFails, MutationFails, AnswerLost, Hangs, Fault, sidecarVars
<1>7. ASSUME \/ EngineStops \/ EngineKilled \/ RejectAllStarts \/ RejectAllEndsUnheard
             \/ ReconcileThrows
      PROVE  Copies'
  BY <1>3, <1>7 DEF EngineStops, EngineKilled, Disturb, RejectAllStarts, RejectAllEndsUnheard,
     ReconcileThrows, Fault, sidecarVars
<1>8. ASSUME RejectAllEnds \/ Tick \/ Stop \/ Settle \/ Reconcile \/ UNCHANGED vars
      PROVE  Copies'
  <2>1. UNCHANGED <<accepted, faults, event>>
    BY <1>8 DEF RejectAllEnds, Tick, Stop, Settle, Reconcile, vars, sidecarVars, engineVars, runVars
  <2> QED
    BY <1>1, <2>1 DEF CopyInv
<1>9. Copies'
  <2> HIDE DEF Copies
  <2> QED
    BY <1>4, <1>5, <1>6, <1>7, <1>8 DEF Next, DeliveryStep
<1> QED
  BY <1>2, <1>9 DEF CopiesInv

LEMMA CopiesInvariant == Spec => []CopiesInv
<1>1. Init => CopiesInv
  BY FS_EmptySet DEF Init, CopiesInv, CopyInv
<1> QED
  BY <1>1, CopiesStep, EventsInvariant, PTL DEF Spec

-----------------------------------------------------------------------------
(* Delays.                                                                 *)

Clocked(k) ==
  /\ tries[k] \in Nat /\ slow[k] \in Nat /\ wait[k] \in Nat
  /\ Delay(k) \in Nat /\ DelayInv(k)

(* One more failed try, or one more that hung, is one more of its delays.  *)
LEMMA DelayGrows ==
  ASSUME NEW t \in Nat, NEW h \in Nat
  PROVE  /\ Interval * t + Timeout * h \in Nat
         /\ Interval * (t + 1) + Timeout * h = Interval * t + Timeout * h + Interval
         /\ Interval * t + Timeout * (h + 1) = Interval * t + Timeout * h + Timeout
  BY EventsAssumption

LEMMA Monotone ==
  ASSUME NEW a \in Nat, NEW x \in Nat, NEW y \in Nat, x <= y
  PROVE  a * x <= a * y
<1>1. PICK d \in Nat : y = x + d
  BY y - x \in Nat
<1>2. a * y = a * x + a * d /\ a * d \in Nat /\ a * x \in Nat
  BY <1>1
<1> QED
  BY <1>2

(* A step of one event.                                                    *)
LEMMA EventDelay ==
  ASSUME EventsInv, DelaysInv, NEW k \in Key, clock' = clock, faults' \in Nat, faults' >= faults,
         \A i \in Key \ {k} : /\ event'[i] = event[i] /\ tries'[i] = tries[i]
                               /\ wait'[i] = wait[i] /\ slow'[i] = slow[i],
         DelayInv(k)'
  PROVE  DelaysInv'
<1>1. faults \in Nat /\ slow \in [Key -> Nat]
  BY EventsAssumption DEF EventsInv, EventsTypeOK
<1>2. ASSUME NEW i \in Key \ {k} PROVE DelayInv(i)'
  BY <1>1 DEF DelaysInv, DelayInv, Delay
<1> QED
  BY <1>2 DEF DelaysInv

LEMMA DelaysStep == EventsInv /\ DelaysInv /\ [Next]_vars => DelaysInv'
<1> SUFFICES ASSUME EventsInv, DelaysInv, [Next]_vars PROVE DelaysInv'
  OBVIOUS
<1> USE EventsAssumption
<1>1. /\ clock \in Nat /\ faults \in Nat
      /\ event \in [Key -> {"none", "pending", "delivered", "dead", "locked"} \cup Sending]
      /\ tries \in [Key -> Nat] /\ wait \in [Key -> Nat] /\ slow \in [Key -> Nat]
  BY DEF EventsInv, EventsTypeOK
<1>2. \A k \in Key : Clocked(k)
  BY <1>1, DelayGrows DEF Clocked, Delay, DelaysInv
<1>3. ASSUME UNCHANGED <<engineVars, clock>>, faults' \in Nat, faults' >= faults PROVE DelaysInv'
  <2> SUFFICES ASSUME NEW k \in Key PROVE DelayInv(k)'
    BY DEF DelaysInv
  <2> QED
    BY <1>1, <1>2, <1>3 DEF Clocked, DelayInv, Delay, engineVars
<1>4. ASSUME NEW k \in Key, Mutate(k) PROVE DelaysInv'
  <2>1. event[k] = "none" /\ clock = 0 /\ clock' = clock /\ faults' = faults
    BY <1>4 DEF Mutate, ProbeAt, EventsInv, RunInv, KeyInv, ArmedInv, runVars
  <2>2. /\ event' = [event EXCEPT ![k] = "pending"]
        /\ tries' = tries /\ wait' = wait /\ slow' = slow
    BY <1>4 DEF Mutate
  <2>3. DelayInv(k)'
    BY <1>1, <1>2, <2>1, <2>2 DEF Clocked, DelayInv, Delay, Sending
  <2> QED
    BY <1>1, <2>1, <2>2, <2>3, EventDelay
<1>5. ASSUME NEW k \in Key, Deliver(k) \/ Webhook(k) \/ Ack(k) PROVE DelaysInv'
  <2>1. /\ \/ event[k] = "pending" /\ wait[k] = 0 /\ event' = [event EXCEPT ![k] = "sent"]
           \/ event[k] = "sent" /\ event' = [event EXCEPT ![k] = "accepted"]
           \/ event[k] = "sent" /\ event' = [event EXCEPT ![k] = "refused"]
           \/ event[k] = "accepted" /\ event' = [event EXCEPT ![k] = "delivered"]
        /\ tries' = tries /\ wait' = wait /\ slow' = slow /\ clock' = clock /\ faults' = faults
    BY <1>5 DEF Deliver, Webhook, Ack, EventTo, runVars
  <2>2. DelayInv(k)'
    BY <1>1, <1>2, <2>1 DEF Clocked, DelayInv, Delay, Sending
  <2> QED
    BY <1>1, <2>1, <2>2, EventDelay
<1>6. ASSUME NEW k \in Key, Nack(k) \/ TimesOut(k) \/ AnswerLost(k) PROVE DelaysInv'
  <2>1. /\ event[k] \in Sending /\ clock' = clock /\ faults' \in {faults, faults + 1}
        /\ \/ event' = [event EXCEPT ![k] = "pending"]
           \/ event' = [event EXCEPT ![k] = "dead"]
        /\ tries' = [tries EXCEPT ![k] = @ + 1]
        /\ wait' = [wait EXCEPT ![k] = Interval] /\ slow' = slow
    BY <1>6 DEF Nack, TimesOut, AnswerLost, Answering, Sending, FailedTry, EventTo, Fault, runVars
  <2>2. tries'[k] = tries[k] + 1 /\ wait'[k] = Interval /\ event'[k] \in {"pending", "dead"}
    BY <1>1, <2>1
  <2>3. Delay(k)' = Delay(k) + Interval
    BY <1>2, <2>1, <2>2, DelayGrows DEF Clocked, Delay
  <2>4. clock <= Delay(k)
    BY <1>1, <1>2, <2>1 DEF Clocked, DelayInv
  <2>5. DelayInv(k)'
    BY <1>1, <1>2, <2>1, <2>2, <2>3, <2>4 DEF Clocked, DelayInv, Sending
  <2> QED
    BY <1>1, <2>1, <2>5, EventDelay
<1>7. ASSUME NEW k \in Key, Hangs(k) PROVE DelaysInv'
  <2>1. /\ event[k] \in Sending /\ clock' = clock /\ faults' = faults + 1
        /\ event' = [event EXCEPT ![k] = "hung"] /\ tries' = tries
        /\ wait' = [wait EXCEPT ![k] = Timeout] /\ slow' = [slow EXCEPT ![k] = @ + 1]
    BY <1>7 DEF Hangs, Answering, EventTo, Fault
  <2>2. slow'[k] = slow[k] + 1 /\ wait'[k] = Timeout /\ event'[k] = "hung"
    BY <1>1, <2>1
  <2>3. Delay(k)' = Delay(k) + Timeout
    BY <1>2, <2>1, <2>2, DelayGrows DEF Clocked, Delay
  <2>4. clock <= Delay(k)
    BY <1>1, <1>2, <2>1 DEF Clocked, DelayInv
  <2>5. DelayInv(k)'
    BY <1>1, <1>2, <2>1, <2>2, <2>3, <2>4 DEF Clocked, DelayInv, Sending
  <2> QED
    BY <1>1, <2>1, <2>5, EventDelay
<1>8. ASSUME NEW to \in {"pending", "locked"}, Disturb(to) PROVE DelaysInv'
  <2> SUFFICES ASSUME NEW k \in Key PROVE DelayInv(k)'
    BY DEF DelaysInv
  <2>1. /\ clock' = clock /\ faults' = faults + 1 /\ tries' = tries /\ slow' = slow
        /\ event'[k] = IF event[k] \in Sending THEN to ELSE event[k]
        /\ wait'[k] = IF event[k] \in Sending THEN 0 ELSE wait[k]
    BY <1>1, <1>8 DEF Disturb, InFlight, Fault
  <2> QED
    BY <1>1, <1>2, <2>1 DEF Clocked, DelayInv, Delay, Sending
<1>9. ASSUME Tick PROVE DelaysInv'
  <2> SUFFICES ASSUME NEW k \in Key PROVE DelayInv(k)'
    BY DEF DelaysInv
  <2>1. /\ UNCHANGED <<event, tries, slow, faults>>
        /\ wait'[k] = IF wait[k] > 0 THEN wait[k] - 1 ELSE 0
        /\ \/ clock' = clock
           \/ clock' = clock + 1 /\ (event[k] \in Sending \cup {"pending"} => wait[k] # 0)
    BY <1>1, <1>9 DEF Tick, Due
  <2> QED
    BY <1>1, <1>2, <2>1 DEF Clocked, DelayInv, Delay
<1>10. ASSUME NEW k \in Key, Begin(k) \/ Arm(k) \/ Answered(k) \/ SeedFails(k) \/ ArmFails(k)
                              \/ MutationFails(k)
       PROVE  DelaysInv'
  BY <1>1, <1>3, <1>10 DEF Begin, Arm, Answered, SeedFails, ArmFails, MutationFails, Fault,
     runVars, engineVars
<1>11. ASSUME \/ RejectAllStarts \/ RejectAllEnds \/ RejectAllEndsUnheard
              \/ Stop \/ Settle \/ Reconcile \/ ReconcileThrows \/ UNCHANGED vars
       PROVE  DelaysInv'
  BY <1>1, <1>3, <1>11 DEF RejectAllStarts, RejectAllEnds, RejectAllEndsUnheard, Stop, Settle,
     Reconcile, ReconcileThrows, Fault, runVars, engineVars, vars
<1> QED
  BY <1>4, <1>5, <1>6, <1>7, <1>8, <1>9, <1>10, <1>11
     DEF Next, ProbeStep, DeliveryStep, EngineStops, EngineKilled

LEMMA DelaysInvariant == Spec => []DelaysInv
<1>1. Init => DelaysInv
  <2> SUFFICES ASSUME Init, NEW k \in Key PROVE DelayInv(k)
    BY DEF DelaysInv
  <2>1. event[k] = "none" /\ wait[k] = 0 /\ slow[k] = 0 /\ faults = 0
    BY DEF Init
  <2> QED
    BY <2>1 DEF DelayInv, Sending
<1> QED
  BY <1>1, DelaysStep, EventsInvariant, PTL DEF Spec

-----------------------------------------------------------------------------
(* Sums over a set.                                                        *)

(* NatInduction of NaturalsInduction, of a set instead of a predicate.     *)
LEMMA SetInduction ==
  ASSUME NEW S, 0 \in S, \A n \in Nat : n \in S => n + 1 \in S
  PROVE  Nat \subseteq S
<1> DEFINE R == {p \in Nat \X Nat : p[1] < p[2]}
           T == Nat \ S
<1>1. IsWellFoundedOn(R, Nat)
  BY NatLessThanWellFounded DEF OpToRel
<1>2. SUFFICES ASSUME T # {} PROVE FALSE
  OBVIOUS
<1>3. PICK x \in T : \A y \in T : <<y, x>> \notin R
  <2>1. T \subseteq Nat
    OBVIOUS
  <2> HIDE DEF R, T
  <2> QED
    BY <1>1, <1>2, <2>1, WFMin
<1>4. x \in Nat /\ x # 0 /\ x - 1 \in Nat /\ <<x - 1, x>> \in R
  OBVIOUS
<1>5. x - 1 \in S /\ (x - 1) + 1 \in S
  BY <1>3, <1>4
<1> QED
  BY <1>4, <1>5

(* What MapThenSumSet() takes from a set, and what it leaves.              *)
Pick(s) == CHOOSE x \in s : TRUE
Rest(s) == s \ {Pick(s)}

LEMMA RestIsSmaller ==
  ASSUME NEW S, IsFiniteSet(S), NEW s \in SUBSET S, s # {}
  PROVE  /\ Pick(s) \in S /\ Rest(s) \in SUBSET S
         /\ Cardinality(s) \in Nat /\ Cardinality(Rest(s)) \in Nat
         /\ Cardinality(Rest(s)) + 1 = Cardinality(s)
<1>1. Pick(s) \in s
  BY DEF Pick
<1>2. IsFiniteSet(s)
  BY FS_Subset
<1>3. IsFiniteSet(Rest(s)) /\ Cardinality(Rest(s)) = Cardinality(s) - 1
  BY <1>1, <1>2, FS_RemoveElement DEF Rest
<1>4. Cardinality(s) \in Nat /\ Cardinality(Rest(s)) \in Nat
  BY <1>2, <1>3, FS_CardinalityType
<1> QED
  BY <1>1, <1>3, <1>4 DEF Rest

Sums(g, S, w) ==
  /\ g \in [SUBSET S -> Int]
  /\ \A s \in SUBSET S : g[s] = IF s = {} THEN 0 ELSE (w[Pick(s)] - 1) + g[Rest(s)]

LEMMA SumsExist ==
  ASSUME NEW S, IsFiniteSet(S), NEW w, \A k \in S : w[k] \in Nat
  PROVE  \E g : Sums(g, S, w)
<1> DEFINE Sum(g, s) == IF s = {} THEN 0 ELSE (w[Pick(s)] - 1) + g[Rest(s)]
           Upto(g, m) == \A s \in SUBSET S : Cardinality(s) <= m => g[s] = Sum(g, s)
           E == {m \in Nat : \E g \in [SUBSET S -> Int] : Upto(g, m)}
<1>1. \A s \in SUBSET S : /\ Cardinality(s) \in Nat
                          /\ s # {} => /\ Pick(s) \in S /\ Rest(s) \in SUBSET S
                                       /\ Cardinality(Rest(s)) \in Nat
                                       /\ Cardinality(Rest(s)) + 1 = Cardinality(s)
  BY RestIsSmaller, FS_Subset, FS_CardinalityType
<1>2. ASSUME NEW g \in [SUBSET S -> Int], NEW s \in SUBSET S PROVE Sum(g, s) \in Int
  <2>1. CASE s = {}
    BY <2>1
  <2>2. CASE s # {}
    <3>1. w[Pick(s)] \in Nat /\ g[Rest(s)] \in Int
      BY <1>1, <2>2
    <3> QED
      BY <2>2, <3>1
  <2> QED
    BY <2>1, <2>2
<1>3. 0 \in E
  <2> DEFINE g == [s \in SUBSET S |-> 0]
  <2>1. \A s \in SUBSET S : Cardinality(s) <= 0 => s = {}
    BY <1>1
  <2>2. g \in [SUBSET S -> Int] /\ Upto(g, 0)
    BY <2>1
  <2> QED
    BY <2>2
<1>4. ASSUME NEW m \in Nat, m \in E PROVE m + 1 \in E
  <2>1. PICK g \in [SUBSET S -> Int] : Upto(g, m)
    BY <1>4
  <2> DEFINE h == [s \in SUBSET S |-> Sum(g, s)]
  <2>2. h \in [SUBSET S -> Int]
    <3> HIDE DEF Sum
    <3> QED
      BY <1>2
  <2>3. ASSUME NEW s \in SUBSET S, Cardinality(s) <= m + 1 PROVE h[s] = Sum(h, s)
    <3>1. CASE s = {}
      BY <3>1
    <3>2. CASE s # {}
      <4>1. Rest(s) \in SUBSET S /\ Cardinality(Rest(s)) <= m
        BY <1>1, <2>3, <3>2
      <4>2. h[Rest(s)] = Sum(g, Rest(s)) /\ g[Rest(s)] = Sum(g, Rest(s))
        <5> HIDE DEF Sum
        <5> QED
          BY <2>1, <4>1
      <4>3. h[s] = (w[Pick(s)] - 1) + g[Rest(s)]
        BY <3>2
      <4> HIDE DEF h
      <4> QED
        BY <3>2, <4>2, <4>3
    <3> QED
      BY <3>1, <3>2
  <2> HIDE DEF h, Sum
  <2> QED
    BY <2>2, <2>3
<1>5. Cardinality(S) \in E
  <2>1. Cardinality(S) \in Nat
    BY FS_CardinalityType
  <2> HIDE DEF E
  <2> QED
    BY <1>3, <1>4, <2>1, SetInduction
<1>6. PICK g \in [SUBSET S -> Int] : Upto(g, Cardinality(S))
  BY <1>5
<1>7. \A s \in SUBSET S : Cardinality(s) <= Cardinality(S)
  BY FS_Subset
<1>8. Sums(g, S, w)
  BY <1>6, <1>7 DEF Sums
<1> QED
  BY <1>8

(* A sum of numbers less one, none of which is more than a bound.          *)
SumOf(w, S) == MapThenSumSet(LAMBDA k : w[k] - 1, S)

LEMMA SumIsBounded ==
  ASSUME NEW S, IsFiniteSet(S), NEW w, NEW b \in Nat,
         \A k \in S : w[k] \in Nat /\ w[k] - 1 <= b
  PROVE  SumOf(w, S) <= b * Cardinality(S)
<1> DEFINE Fold(g) == [s \in SUBSET S |->
                         IF s = {} THEN 0
                         ELSE (w[CHOOSE x \in s : TRUE] - 1) + g[s \ {CHOOSE x \in s : TRUE}]]
           it == CHOOSE h : h = Fold(h)
<1>1. PICK g : Sums(g, S, w)
  BY SumsExist
<1>2. g = Fold(g)
  BY <1>1 DEF Sums, Pick, Rest
<1>3. it = Fold(it)
  <2> HIDE DEF Fold
  <2> QED
    BY <1>2, Zenon
<1>4. SumOf(w, S) = it[S]
  BY Zenon DEF SumOf, MapThenSumSet, MapThenFoldSet
<1>5. \A s \in SUBSET S : it[s] = IF s = {} THEN 0 ELSE (w[Pick(s)] - 1) + it[Rest(s)]
  <2> HIDE DEF it
  <2> QED
    BY <1>3 DEF Pick, Rest
<1> HIDE DEF it
<1> DEFINE Bound(s) == it[s] \in Int /\ it[s] <= b * Cardinality(s)
           E == {m \in Nat : \A s \in SUBSET S : Cardinality(s) = m => Bound(s)}
<1>6. \A s \in SUBSET S : Cardinality(s) = 0 <=> s = {}
  BY FS_Subset, FS_EmptySet
<1>7. 0 \in E
  <2>1. b * 0 = 0
    OBVIOUS
  <2> QED
    BY <1>5, <1>6, <2>1
<1>8. ASSUME NEW m \in Nat, m \in E PROVE m + 1 \in E
  <2> SUFFICES ASSUME NEW s \in SUBSET S, Cardinality(s) = m + 1 PROVE Bound(s)
    OBVIOUS
  <2>1. s # {}
    BY <1>6
  <2>2. Pick(s) \in S /\ Rest(s) \in SUBSET S /\ Cardinality(Rest(s)) = m
    BY <2>1, RestIsSmaller
  <2> DEFINE p == w[Pick(s)]
             q == it[Rest(s)]
  <2>3. p \in Nat /\ p - 1 <= b /\ q \in Int /\ q <= b * m
    BY <1>8, <2>2
  <2>4. it[s] = (p - 1) + q
    BY <1>5, <2>1
  <2> HIDE DEF p, q
  <2>5. b * (m + 1) = b * m + b /\ b * m \in Int
    OBVIOUS
  <2>6. (p - 1) + q \in Int /\ (p - 1) + q <= b * m + b
    BY <2>3, <2>5
  <2> QED
    BY <2>4, <2>5, <2>6
<1>9. Cardinality(S) \in E
  <2>1. Cardinality(S) \in Nat
    BY FS_CardinalityType
  <2> HIDE DEF E
  <2> QED
    BY <1>7, <1>8, <2>1, SetInduction
<1>10. S \in SUBSET S
  OBVIOUS
<1> QED
  BY <1>4, <1>9, <1>10

-----------------------------------------------------------------------------
(* Types.                                                                  *)
THEOREM EventsTypeCorrect == Spec => []EventsTypeOK
<1>1. EventsInv => EventsTypeOK
  BY DEF EventsInv
<1> QED
  BY <1>1, EventsInvariant, PTL

(* An event that is not in the sidecar's log when the run reconciles.      *)
LEMMA LostEvent ==
  ASSUME EventsInv, DelaysInv, reconciled, NEW k \in Lost
  PROVE  /\ k \in Key
         /\ event[k] \in {"dead", "locked"} \/ SettleTime <= Delay(k)
<1>1. k \in Key /\ event[k] # "none" /\ accepted[k] = 0
  BY DEF EventsInv, EventsTypeOK, RunInv, Under, Lost
<1>2. event[k] \in {"pending", "dead", "locked"} \cup Sending
  BY <1>1 DEF EventsInv, EventsTypeOK, KeyInv, EventInv
<1>3. clock = SettleTime /\ SettleTime \in Nat /\ wait[k] \in Nat
  BY <1>1, EventsAssumption DEF EventsInv, EventsTypeOK, RunInv, reconciled
<1>4. tries[k] \in Nat /\ slow[k] \in Nat
  BY <1>1, EventsAssumption DEF EventsInv, EventsTypeOK
<1>5. Delay(k) \in Nat
  BY <1>4, DelayGrows DEF Delay
<1>6. event[k] \in Sending \cup {"pending"} => SettleTime + wait[k] <= Delay(k)
  BY <1>1, <1>3 DEF DelaysInv, DelayInv
<1> QED
  BY <1>1, <1>2, <1>3, <1>5, <1>6

(* An event reported lost (events.ts:22-31, 138-170) is lost for good, or  *)
(* its tries have taken as long as settleMs: the sleep of runner/index.ts: *)
(* 257 is long enough for every event that is held up for less, whatever   *)
(* the retries, their intervals and time-outs, and the settleMs are.       *)
THEOREM LostIsLost == Spec => []LossIsReal
<1>1. EventsInv /\ DelaysInv => LossIsReal
  BY LostEvent DEF LossIsReal, Delay
<1> QED
  BY <1>1, EventsInvariant, DelaysInvariant, PTL

(* An event lost has been killed with its engine, rejected with all others *)
(* or disturbed as often as it can be retried, or as long as the run waits *)
(* for it: events.ts:133-160.                                              *)
THEOREM LossHasCause == Spec => []NothingLostWithoutCause
<1>1. EventsInv /\ DelaysInv => NothingLostWithoutCause
  <2> SUFFICES ASSUME EventsInv, DelaysInv, reconciled, ~cause, faults < MaxRetries,
                      Interval * (faults + 1) + Timeout * faults < SettleTime, NEW k \in Lost
               PROVE  FALSE
    BY DEF NothingLostWithoutCause
  <2>1. /\ k \in Key /\ rejected[k] \in 0..1 /\ faults \in Nat
        /\ tries[k] \in Nat /\ slow[k] \in Nat
    BY LostEvent, EventsAssumption DEF EventsInv, EventsTypeOK
  <2>2. tries[k] <= faults + 1 /\ slow[k] <= faults
    BY <2>1 DEF EventsInv, KeyInv, CauseInv, DelaysInv, DelayInv
  <2>3. event[k] \notin {"dead", "locked"}
    BY <2>1, <2>2, EventsAssumption DEF EventsInv, KeyInv, EventInv, CauseInv
  <2>4. SettleTime <= Interval * tries[k] + Timeout * slow[k]
    BY <2>3, LostEvent DEF Delay
  <2>5. Interval * tries[k] <= Interval * (faults + 1) /\ Timeout * slow[k] <= Timeout * faults
    BY <2>1, <2>2, Monotone, EventsAssumption
  <2>6. /\ Interval * tries[k] \in Nat /\ Interval * (faults + 1) \in Nat
        /\ Timeout * slow[k] \in Nat /\ Timeout * faults \in Nat
    BY <2>1, EventsAssumption
  <2> QED
    BY <2>4, <2>5, <2>6, EventsAssumption
<1> QED
  BY <1>1, EventsInvariant, DelaysInvariant, PTL

(* Every retry event that arrived had been rejected first: events.ts:83-98.*)
THEOREM RetriesAreRetried == Spec => []RetriesAreProved
<1>1. EventsInv => RetriesAreProved
  BY DEF EventsInv, EventsTypeOK, RunInv, KeyInv, ArmedInv, RetriesAreProved, reconciled,
     Lost, Retried
<1> QED
  BY <1>1, EventsInvariant, PTL

(* An event accepted more than once was disturbed each time before: a lost *)
(* answer, an engine stopped or killed (events.ts:140-160).  For any       *)
(* number of events, disturbances and retries.                             *)
THEOREM DuplicatesAreExplained == Spec => []DuplicatesHaveCause
<1>1. EventsInv /\ CopiesInv => DuplicatesHaveCause
  <2> SUFFICES ASSUME EventsInv, CopiesInv
               PROVE  Duplicates <= faults * Cardinality(expected \ Lost)
    BY DEF DuplicatesHaveCause
  <2> DEFINE S == expected \ Lost
  <2>1. IsFiniteSet(S)
    BY FS_Subset DEF CopiesInv
  <2>2. faults \in Nat /\ \A k \in S : accepted[k] \in Nat /\ accepted[k] - 1 <= faults
    BY EventsAssumption DEF EventsInv, EventsTypeOK, CopiesInv, CopyInv
  <2>3. Duplicates = SumOf(accepted, S)
    BY Zenon DEF Duplicates, SumOf
  <2> HIDE DEF S
  <2>4. SumOf(accepted, S) <= faults * Cardinality(S)
    BY <2>1, <2>2, SumIsBounded
  <2> QED
    BY <2>3, <2>4 DEF S
<1> QED
  BY <1>1, EventsInvariant, CopiesInvariant, PTL

=============================================================================
