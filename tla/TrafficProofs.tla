---------------------------- MODULE TrafficProofs ----------------------------
(***************************************************************************)
(* What clients are promised of an upgrade and a rollback, for any number  *)
(* of requests and retries: their types and at-most-once execution in      *)
(* every behaviour, no silent loss in one run.                             *)
(***************************************************************************)
EXTENDS OneRunProofs, TrafficProperties, Faults

-----------------------------------------------------------------------------
(* Traffic adds to ZeroDowntime and takes nothing away: what is invariant  *)
(* there is so here.                                                       *)

LEMMA TrafficIsUpgrade == [TrafficNext]_trafficVars => [Next]_vars
<1> SUFFICES ASSUME [TrafficNext]_trafficVars PROVE [Next]_vars
  OBVIOUS
<1>1. CASE TrafficUpgrade
  BY <1>1 DEF TrafficUpgrade, UpgradeDrained, OtherUpgrade, UpgradeStep, Next
<1>2. CASE TrafficRollback
  BY <1>2 DEF TrafficRollback, RollbackDrained, OtherRollback, RollbackStep, Next
<1>3. CASE SyncStep \/ NewProcess \/ EnvironmentStep
  BY <1>3 DEF Next
<1>4. CASE SessionStep
  BY <1>4 DEF SessionStep, Route, Connect, Retry, Refuse, Execute, Answer, Move
<1>5. CASE UNCHANGED trafficVars
  BY <1>5 DEF trafficVars
<1> QED
  BY <1>1, <1>2, <1>3, <1>4, <1>5 DEF TrafficNext

(* What an upgrade or rollback does to the sessions, and nothing else.     *)
LEMMA SessionFootprint ==
  [TrafficNext]_trafficVars =>
    \/ SessionStep
    \/ SessionsFollow /\ UNCHANGED residual
    \/ UNCHANGED sessionVars /\ (UpgradeDrained \/ RollbackDrained \/ UNCHANGED residual)
<1> QED
  BY DEF TrafficNext, TrafficUpgrade, TrafficRollback, UpgradeDrained, RollbackDrained,
     OtherUpgrade, OtherRollback, trafficVars, sessionVars

-----------------------------------------------------------------------------
(* Types.                                                                  *)

LEMMA SessionTypes == SessionTypeOK /\ [TrafficNext]_trafficVars => SessionTypeOK'
<1> SUFFICES ASSUME SessionTypeOK, [TrafficNext]_trafficVars PROVE SessionTypeOK'
  OBVIOUS
<1> USE RetriesIsPositive DEF SessionTypeOK
<1>1. CASE SessionStep
  <2>1. PICK r \in Request :
          \/ \E s \in Server : Route(r, s)
          \/ Connect(r) \/ Retry(r) \/ Refuse(r) \/ Execute(r) \/ Answer(r)
    BY <1>1 DEF SessionStep
  <2>2. (phase \in [Request -> Phase])' /\ UNCHANGED residual
    BY <2>1 DEF Route, Connect, Retry, Refuse, Execute, Answer, Move, Phase
  <2>3. (at \in [Request -> Server \cup {NoServer}])'
    BY <2>1 DEF Route, Connect, Retry, Refuse, Execute, Answer, Targets
  <2>4. (tries \in [Request -> 0..Retries])'
    BY <2>1 DEF Route, Connect, Retry, Refuse, Execute, Answer
  <2>5. (applied \in [Request -> Nat])'
    BY <2>1 DEF Route, Connect, Retry, Refuse, Execute, Answer
  <2> QED
    BY <2>2, <2>3, <2>4, <2>5
<1>2. CASE SessionsFollow /\ UNCHANGED residual
  BY <1>2 DEF SessionsFollow, OnCut, Phase
<1>3. CASE UNCHANGED sessionVars /\ (UpgradeDrained \/ RollbackDrained \/ UNCHANGED residual)
  BY <1>3 DEF sessionVars, UpgradeDrained, RollbackDrained, WaitDrained, Server
<1> QED
  BY <1>1, <1>2, <1>3, SessionFootprint

(* Type correctness, for any requests, retries, processes and failures.    *)
THEOREM TrafficTypeCorrect == TrafficSpec => []TrafficTypeOK
<1> DEFINE Inv == WayBackInv /\ SessionTypeOK
<1>1. TrafficInit => Inv
  BY WayBackInit, RetriesIsPositive DEF TrafficInit, SessionTypeOK, Phase
<1>2. Inv /\ [TrafficNext]_trafficVars => Inv'
  BY WayBackStep, TrafficIsUpgrade, SessionTypes
<1>3. Inv => TrafficTypeOK
  BY DEF WayBackInv, TrafficTypeOK
<1> QED
  BY <1>1, <1>2, <1>3, PTL DEF TrafficSpec

-----------------------------------------------------------------------------
(* At most once.  A request is carried out on its way from "open" to       *)
(* "executed", or while its engine leaves, and never returns from there.   *)

Unsent == {"unsent", "connecting", "open", "refused"}

AppliedInv ==
  \A r \in Request :
    /\ phase[r] \in Unsent => applied[r] = 0
    /\ phase[r] \in {"executed", "answered"} => applied[r] = 1
    /\ applied[r] \in {0, 1}

LEMMA AppliedStep ==
  ASSUME SessionTypeOK, AppliedInv, [TrafficNext]_trafficVars PROVE AppliedInv'
<1> USE DEF AppliedInv, SessionTypeOK, Unsent
<1>1. CASE SessionStep
  <2>1. PICK r \in Request :
          \/ \E s \in Server : Route(r, s)
          \/ Connect(r) \/ Retry(r) \/ Refuse(r) \/ Execute(r) \/ Answer(r)
    BY <1>1 DEF SessionStep
  <2> QED
    BY <2>1 DEF Route, Connect, Retry, Refuse, Execute, Answer, Move
<1>2. CASE SessionsFollow
  BY <1>2 DEF SessionsFollow, EngineLeaves, OnCut, Phase
<1>3. CASE UNCHANGED sessionVars
  BY <1>3 DEF sessionVars
<1> QED
  BY <1>1, <1>2, <1>3, SessionFootprint

(* Retries and redispatches never carry a mutation out twice, whatever the *)
(* orchestrator stops, restarts or interrupts meanwhile (haproxy.cfg:34).  *)
THEOREM NeverAppliedTwice == TrafficSpec => []AppliedAtMostOnce
<1> DEFINE Inv == SessionTypeOK /\ AppliedInv
<1>1. TrafficInit => Inv
  BY RetriesIsPositive DEF TrafficInit, SessionTypeOK, AppliedInv, Unsent, Phase
<1>2. Inv /\ [TrafficNext]_trafficVars => Inv'
  BY SessionTypes, AppliedStep
<1>3. Inv => AppliedAtMostOnce
  BY DEF AppliedInv, AppliedAtMostOnce, Unsent
<1> QED
  BY <1>1, <1>2, <1>3, PTL DEF TrafficSpec

-----------------------------------------------------------------------------
(* No silent loss.  A server that has left, or is about to be stopped,     *)
(* holds nothing that its drain has not reported.                          *)

BlueUndrained  == BeforeSwitch \cup {"waitUp", "drainBlue", "waitDrained"}
GreenUndrained == BeforeFlip \cup {"waitBlueUp", "drainGreen", "waitGreenDrained"}

HeldPhase == {"connecting", "open", "executed"}

Leaving(s) ==
  \/ engine[s] # "healthy"
  \/ s = Blue /\ upc = "stopBlue"
  \/ s = Green /\ rpc = "stopGreen"

LostInv ==
  /\ NoRequestIsLost
  /\ \A r \in Request :
       phase[r] \in HeldPhase => at[r] \in Server /\ (Leaving(at[r]) => at[r] \in residual)
  /\ upc \in BeforeSwitch   => \A r \in Request : at[r] # Green
  /\ upc \in BlueUndrained  => Blue \notin residual
  /\ rpc \in GreenUndrained => Green \notin residual

(* A server HAProxy sends requests to is staying.                          *)
LEMMA UpIsStaying ==
  OneRunInv => \A s \in Server : StatusUp(s) => ~Leaving(s) /\ (upc \in BeforeSwitch => s # Green)
<1> QED
  BY DEF OneRunInv, ProxyInv, BlueInv, GreenProved, StatusUp, Leaving, Server, Blue, Green,
     BeforeSwitch, AfterDrain, AfterFlip

(* An engine that answers stops doing so only as a drained server, or as a *)
(* green that never got a request.                                         *)
LEMMA WhoLeaves ==
  ASSUME OneRunInv, [Next]_vars, NEW s \in Server, engine[s] = "healthy", engine'[s] # "healthy"
  PROVE  Leaving(s) \/ (s = Green /\ upc \in BeforeSwitch)
<1> USE DEF OneRunInv, WayBackInv, TypeOK, StackTypeOK, EngineTypeOK, Server, Blue, Green,
            EngineStatus, Leaving, BeforeSwitch, Proving, Aborting
<1>1. CASE UpgradeStep
  <2>1. CASE AbortStop \/ UpGreen \/ StopBlue \/ StopBlueThrows
    BY <2>1 DEF AbortStop, UpGreen, StopBlue, StopBlueThrows, ComposeRemove, ComposeStop,
       ComposeUp, Goto, engineVars
  <2>2. CASE ~(AbortStop \/ UpGreen \/ StopBlue \/ StopBlueThrows)
    BY <1>1, <2>2 DEF UpgradeStep, UpgradeStart, Preflight, CreateClone, RestoreClone,
       GreenHealthy, GateVersion, GateMetadata, GateVerify, GateAddress, GateFails,
       GatePasses, AbortDrop, EnableGreen, GreenIsUp, DrainBlue, BlueDrained, AwaitSync,
       FinalCopy, Postcondition, UpgradeThrows, stackVars, engineVars
  <2> QED
    BY <2>1, <2>2
<1>2. CASE RollbackStep
  <2>1. CASE UpBlue
    BY <2>1 DEF UpBlue, ComposeUp, RGoto, Running, WayBackIntact, LocalsIntact
  <2>2. CASE StopGreen
    BY <2>2 DEF StopGreen, ComposeStop, RGoto, engineVars
  <2>3. CASE ~(UpBlue \/ StopGreen)
    BY <1>2, <2>3 DEF RollbackStep, RollbackStart, InspectBlue, BlueHealthy, EnableBlue,
       BlueIsUp, DrainGreen, GreenDrained, MaintGreen, RollbackThrows, stackVars,
       engineVars
  <2> QED
    BY <2>1, <2>2, <2>3
<1>3. CASE SyncStep \/ NewProcess \/ UNCHANGED vars
  BY <1>3 DEF SyncStep, SyncCopy, SyncCopied, SyncExit, NewProcess, vars, stackVars
<1>4. CASE EnvironmentStep
  BY <1>4 DEF EnvironmentStep, StackStep, BootDone, HealthCheck, ChangeMetadata, engineVars
<1> QED
  BY <1>1, <1>2, <1>3, <1>4 DEF Next

(* Within one run an upgrade and a rollback only go on, and pass from      *)
(* drain to stop by the drain alone.                                       *)
LEMMA Onward ==
  ASSUME OneRun, OneRunInv, [TrafficNext]_trafficVars
  PROVE  /\ upc' \in BeforeSwitch   => upc \in BeforeSwitch
         /\ upc' \in BlueUndrained  => upc \in BlueUndrained
         /\ rpc' \in GreenUndrained => rpc \in GreenUndrained
         /\ upc' = "stopBlue"  => upc = "stopBlue" \/ UpgradeDrained
         /\ rpc' = "stopGreen" => rpc = "stopGreen" \/ RollbackDrained
<1> USE DEF BeforeSwitch, BlueUndrained, GreenUndrained, BeforeFlip, Proving, Aborting
<1>1. CASE TrafficUpgrade
  <2>1. CASE UpgradeDrained
    BY <2>1 DEF UpgradeDrained, BlueDrained, Goto, rollbackVars
  <2>2. CASE upc # "waitDrained" /\ UpgradeStep
    BY <2>2 DEF UpgradeStep, UpgradeStart, Preflight, CreateClone, RestoreClone, UpGreen,
       GreenHealthy, GateVersion, GateMetadata, GateVerify, GateAddress, GateFails,
       GatePasses, AbortStop, AbortDrop, EnableGreen, GreenIsUp, DrainBlue, BlueDrained,
       StopBlue, StopBlueThrows, AwaitSync, FinalCopy, Postcondition, UpgradeThrows,
       Goto, rollbackVars
  <2>3. CASE UpgradeThrows
    BY <2>3 DEF UpgradeThrows, Goto, rollbackVars
  <2> QED
    BY <1>1, <2>1, <2>2, <2>3 DEF TrafficUpgrade, OtherUpgrade
<1>2. CASE TrafficRollback
  <2>1. CASE RollbackDrained
    BY <2>1 DEF RollbackDrained, GreenDrained, RGoto, upgradeVars
  <2>2. CASE rpc # "waitGreenDrained" /\ RollbackStep
    BY <2>2 DEF RollbackStep, RollbackStart, InspectBlue, UpBlue, BlueHealthy, EnableBlue,
       BlueIsUp, DrainGreen, GreenDrained, StopGreen, MaintGreen, RollbackThrows,
       RGoto, upgradeVars
  <2>3. CASE RollbackThrows
    BY <2>3 DEF RollbackThrows, RGoto, upgradeVars
  <2> QED
    BY <1>2, <2>1, <2>2, <2>3 DEF TrafficRollback, OtherRollback
<1>3. CASE NewProcess
  BY <1>3 DEF NewProcess, OneRun, OneRunInv, WayBackInv, TypeOK, CounterTypeOK
<1>4. CASE SyncStep \/ EnvironmentStep \/ SessionStep \/ UNCHANGED trafficVars
  BY <1>4 DEF SyncStep, SyncCopy, SyncCopied, SyncExit, EnvironmentStep, SessionStep, Route,
     Connect, Retry, Refuse, Execute, Answer, Move, vars, trafficVars,
     upgradeVars, rollbackVars
<1> QED
  BY <1>1, <1>2, <1>3, <1>4 DEF TrafficNext

LEMMA LostStep ==
  ASSUME OneRun, OneRunInv, SessionTypeOK, LostInv, [TrafficNext]_trafficVars
  PROVE  LostInv'
<1>1. CASE SessionStep
  <2>1. PICK r \in Request :
          \/ \E s \in Server : Route(r, s)
          \/ Connect(r) \/ Retry(r) \/ Refuse(r) \/ Execute(r) \/ Answer(r)
    BY <1>1 DEF SessionStep
  <2>2. UNCHANGED <<vars, residual>>
    BY <2>1 DEF Route, Connect, Retry, Refuse, Execute, Answer, Move
  <2>3. \A s \in Server : Leaving(s)' <=> Leaving(s)
    BY <2>2 DEF vars, stackVars, upgradeVars, rollbackVars, Leaving
  <2>4. CASE \E s \in Server : Route(r, s)
    BY <2>2, <2>3, <2>4, UpIsStaying DEF Route, Move, LostInv, NoRequestIsLost, SessionTypeOK,
       HeldPhase, vars, upgradeVars, rollbackVars
  <2>5. phase[r] = "unsent" => ~Refuse(r)
    BY DEF Refuse, Move, OneRunInv, ProxyInv, AlwaysServing, Serving
  <2>6. CASE Retry(r)
    BY <2>2, <2>3, <2>6, UpIsStaying DEF Retry, Targets, Move, LostInv, NoRequestIsLost,
       SessionTypeOK, HeldPhase, vars, upgradeVars, rollbackVars
  <2>7. CASE Connect(r) \/ Refuse(r) \/ Execute(r) \/ Answer(r)
    BY <2>2, <2>3, <2>5, <2>7 DEF Connect, Refuse, Execute, Answer, Move, LostInv, NoRequestIsLost,
       SessionTypeOK, HeldPhase, Leaving, vars, upgradeVars, rollbackVars
  <2> QED
    BY <2>1, <2>4, <2>5, <2>6, <2>7
<1>2. CASE UpgradeDrained \/ RollbackDrained
  <2>1. \A s \in Server : Leaving(s)' =>
          \/ Leaving(s)
          \/ s = Blue /\ UpgradeDrained
          \/ s = Green /\ RollbackDrained
    BY <1>2, Onward DEF Leaving, UpgradeDrained, RollbackDrained, BlueDrained, GreenDrained,
       stackVars
  <2>2. CASE UpgradeDrained
    <3>1. /\ UNCHANGED sessionVars
          /\ residual' = IF Held(Blue) = {} THEN residual \ {Blue} ELSE residual \cup {Blue}
          /\ upc = "waitDrained" /\ upc' = "stopBlue" /\ rpc' = rpc
      BY <2>2 DEF UpgradeDrained, WaitDrained, BlueDrained, Goto, rollbackVars
    <3>2. Blue \notin residual
      BY <3>1 DEF LostInv, BlueUndrained
    <3>3. Held(Blue) # {} => Blue \in residual'
      BY <3>1
    <3>4. residual \subseteq residual' /\ residual' \subseteq residual \cup {Blue}
      BY <3>1, <3>2
    <3>5. \A r \in Request : phase[r] \in HeldPhase /\ at[r] = Blue => Blue \in residual'
      BY <3>3 DEF Held, HeldPhase
    <3>6. \A r \in Request :
            phase[r] \in HeldPhase => at[r] \in Server /\ (Leaving(at[r])' => at[r] \in residual')
      BY <2>1, <3>1, <3>4, <3>5 DEF LostInv, sessionVars, Server, Blue, Green, RollbackDrained,
         GreenDrained, RGoto, upgradeVars
    <3> QED
      BY <3>1, <3>4, <3>6, Onward DEF LostInv, NoRequestIsLost, sessionVars, BlueUndrained,
         BeforeSwitch, Proving, Aborting, Blue, Green
  <2>3. CASE RollbackDrained
    <3>1. /\ UNCHANGED sessionVars
          /\ residual' = IF Held(Green) = {} THEN residual \ {Green} ELSE residual \cup {Green}
          /\ rpc = "waitGreenDrained" /\ rpc' = "stopGreen" /\ upc' = upc
      BY <2>3 DEF RollbackDrained, WaitDrained, GreenDrained, RGoto, upgradeVars
    <3>2. Green \notin residual
      BY <3>1 DEF LostInv, GreenUndrained
    <3>3. Held(Green) # {} => Green \in residual'
      BY <3>1
    <3>4. residual \subseteq residual' /\ residual' \subseteq residual \cup {Green}
      BY <3>1, <3>2
    <3>5. \A r \in Request : phase[r] \in HeldPhase /\ at[r] = Green => Green \in residual'
      BY <3>3 DEF Held, HeldPhase
    <3>6. \A r \in Request :
            phase[r] \in HeldPhase => at[r] \in Server /\ (Leaving(at[r])' => at[r] \in residual')
      BY <2>1, <3>1, <3>4, <3>5 DEF LostInv, sessionVars, Server, Blue, Green, UpgradeDrained,
         BlueDrained, Goto, rollbackVars
    <3> QED
      BY <3>1, <3>4, <3>6, Onward DEF LostInv, NoRequestIsLost, sessionVars, GreenUndrained,
         BeforeFlip, Blue, Green
  <2> QED
    BY <1>2, <2>2, <2>3
<1>3. CASE ~(UpgradeDrained \/ RollbackDrained)
  <2>1. \A s \in Server : Leaving(s)' => Leaving(s) \/ (s = Green /\ upc \in BeforeSwitch)
    BY <1>3, WhoLeaves, Onward, TrafficIsUpgrade DEF Leaving
  <2>2. CASE SessionsFollow /\ UNCHANGED residual
    <3>1. PICK finished, carriedOut \in SUBSET Request :
            /\ phase' = [r \in Request |->
                 IF ~EngineLeaves(r) THEN phase[r]
                 ELSE IF r \in finished THEN "answered" ELSE "cut"]
            /\ UNCHANGED at
      BY <2>2 DEF SessionsFollow, OnCut
    <3>2. \A r \in Request : EngineLeaves(r) => at[r] \in residual
      BY <1>3, WhoLeaves, TrafficIsUpgrade DEF EngineLeaves, LostInv, HeldPhase
    <3>3. NoRequestIsLost'
      BY <2>2, <3>1, <3>2 DEF LostInv, NoRequestIsLost
    <3>4. \A r \in Request : (phase[r] \in HeldPhase)' => phase[r] \in HeldPhase
      BY <3>1 DEF HeldPhase, EngineLeaves
    <3> QED
      BY <2>1, <2>2, <3>1, <3>3, <3>4, Onward DEF LostInv
  <2>3. CASE UNCHANGED sessionVars /\ UNCHANGED residual
    BY <2>1, <2>3, Onward DEF LostInv, NoRequestIsLost, HeldPhase, sessionVars
  <2> QED
    BY <1>1, <1>3, <2>2, <2>3, SessionFootprint
<1> QED
  BY <1>1, <1>2, <1>3

(* However the switch, the retries and the failures of a run interleave, a *)
(* request is lost only by a server whose drain reported that it was going *)
(* to be: zeroDowntime.ts:176-179 and 261-263, haproxy/client.ts:148.      *)
THEOREM NothingLostSilently == ASSUME OneRun PROVE TrafficSpec => []NoRequestIsLost
<1> DEFINE Inv == OneRunInv /\ SessionTypeOK /\ LostInv
<1>1. TrafficInit => Inv
  <2>1. TrafficInit => SessionTypeOK
    BY RetriesIsPositive DEF TrafficInit, SessionTypeOK, Phase
  <2> QED
    BY <2>1, OneRunInit DEF TrafficInit, LostInv, NoRequestIsLost, HeldPhase, NoServer, Green
<1>2. Inv /\ [TrafficNext]_trafficVars => Inv'
  BY OneRunStep, TrafficIsUpgrade, SessionTypes, LostStep
<1>3. Inv => NoRequestIsLost
  BY DEF LostInv
<1> QED
  BY <1>1, <1>2, <1>3, PTL DEF TrafficSpec

(* What is promised of a run holds whatever its clients send.              *)
THEOREM PromisesUnderTraffic ==
  ASSUME OneRun
  PROVE  TrafficSpec => [](AlwaysServing /\ OnlyProvenServes /\ OutcomeIsExclusive)
<1>1. TrafficInit => OneRunInv
  BY OneRunInit DEF TrafficInit
<1>2. OneRunInv /\ [TrafficNext]_trafficVars => OneRunInv'
  BY OneRunStep, TrafficIsUpgrade
<1>3. OneRunInv => AlwaysServing /\ OnlyProvenServes /\ OutcomeIsExclusive
  BY DEF OneRunInv, ProxyInv, GreenProved, OnlyProvenServes, OutcomeInv, WayBackInv,
     WayBackIntact, OutcomeIsExclusive, AfterDrain, AfterFlip, Stopped, Running
<1> QED
  BY <1>1, <1>2, <1>3, PTL DEF TrafficSpec

-----------------------------------------------------------------------------
(* What remains true of upgrades and rollbacks, overlapping, interrupted   *)
(* and run again, when faults also kill and restart engines under them.    *)

FaultStep == KillBlue \/ RestartKilled \/ SeverBlue

(* A fault has blue's container stopped or booting, and nothing else.      *)
LEMMA FaultFootprint ==
  ASSUME WayBackInv, FaultStep
  PROVE  /\ engine' \in [Server -> EngineStatus] /\ UNCHANGED <<db, defect>>
         /\ UNCHANGED <<proxyVars, pgVars, upgradeVars, syncVars, rollbackVars, state, process, residual>>
         /\ faults' \in 0..MaxFaults
         /\ SessionsFollow
<1> USE DEF WayBackInv, TypeOK, StackTypeOK, EngineTypeOK, CounterTypeOK, Server, Blue, Green,
            EngineStatus
<1>1. CASE KillBlue
  BY <1>1, BoundsAreNat DEF KillBlue, FaultGoto, ComposeStop, Fault
<1>2. CASE RestartKilled
  BY <1>2 DEF RestartKilled, FaultGoto, ComposeUp, NoFault, WayBackIntact
<1>3. CASE SeverBlue
  BY <1>3, BoundsAreNat DEF SeverBlue, FaultGoto, Fault
<1> QED
  BY <1>1, <1>2, <1>3 DEF FaultStep

LEMMA FaultsCases ==
  [FaultsNext]_faultsVars => [TrafficNext]_trafficVars \/ FaultStep
<1> QED
  BY DEF FaultsNext, FaultStep, faultsVars

LEMMA WayBackFaults == WayBackInv /\ [FaultsNext]_faultsVars => WayBackInv'
<1> SUFFICES ASSUME WayBackInv, [FaultsNext]_faultsVars PROVE WayBackInv'
  OBVIOUS
<1>1. CASE [TrafficNext]_trafficVars
  BY <1>1, WayBackStep, TrafficIsUpgrade
<1>2. CASE FaultStep
  <2>1. EngineTypeOK'
    BY <1>2, FaultFootprint DEF WayBackInv, TypeOK, StackTypeOK, EngineTypeOK
  <2>2. (ProxyTypeOK /\ PgTypeOK /\ LocalTypeOK /\ CounterTypeOK)'
    BY <1>2, FaultFootprint DEF WayBackInv, TypeOK, StackTypeOK, ProxyTypeOK, PgTypeOK,
       LocalTypeOK, CounterTypeOK, proxyVars, pgVars, upgradeVars, syncVars, rollbackVars
  <2>3. (WayBackIntact /\ LocalsIntact)'
    BY <1>2, FaultFootprint DEF WayBackInv, WayBackIntact, LocalsIntact, pgVars, upgradeVars,
       rollbackVars
  <2> QED
    BY <2>1, <2>2, <2>3 DEF WayBackInv, TypeOK, StackTypeOK
<1> QED
  BY <1>1, <1>2, FaultsCases

(* Whatever is killed and restarted while upgrades overlap, fail and are   *)
(* interrupted, the way back stays open: zeroDowntime.ts:44-47, 227-235.   *)
THEOREM WayBackSurvivesFaults == FaultsSpec => []WayBackIntact
<1>1. FaultsInit => WayBackInv
  BY WayBackInit DEF FaultsInit, TrafficInit
<1>2. WayBackInv => WayBackIntact
  BY DEF WayBackInv
<1> QED
  BY <1>1, <1>2, WayBackFaults, PTL DEF FaultsSpec

LEMMA SessionsFollowTypes ==
  ASSUME SessionTypeOK, AppliedInv, SessionsFollow, UNCHANGED residual
  PROVE  SessionTypeOK' /\ AppliedInv'
<1>1. SessionTypeOK'
  BY DEF SessionsFollow, SessionTypeOK, OnCut, Phase
<1>2. AppliedInv'
  BY DEF SessionsFollow, SessionTypeOK, AppliedInv, Unsent, EngineLeaves, OnCut, Phase
<1> QED
  BY <1>1, <1>2

LEMMA SessionsUnderFaults ==
  WayBackInv /\ SessionTypeOK /\ AppliedInv /\ [FaultsNext]_faultsVars
    => SessionTypeOK' /\ AppliedInv'
<1> SUFFICES ASSUME WayBackInv, SessionTypeOK, AppliedInv, [FaultsNext]_faultsVars
             PROVE  SessionTypeOK' /\ AppliedInv'
  OBVIOUS
<1>1. CASE [TrafficNext]_trafficVars
  BY <1>1, SessionTypes, AppliedStep
<1>2. CASE FaultStep
  BY <1>2, FaultFootprint, SessionsFollowTypes
<1> QED
  BY <1>1, <1>2, FaultsCases

LEMMA FaultsInvariant == FaultsSpec => [](WayBackInv /\ SessionTypeOK /\ AppliedInv)
<1>1. FaultsInit => WayBackInv /\ SessionTypeOK /\ AppliedInv
  BY WayBackInit, RetriesIsPositive DEF FaultsInit, TrafficInit, SessionTypeOK, AppliedInv,
     Unsent, Phase
<1> QED
  BY <1>1, WayBackFaults, SessionsUnderFaults, PTL DEF FaultsSpec

(* An engine that dies amid a request may have carried it out, and nothing *)
(* sends it again: haproxy.cfg:30-34.                                      *)
THEOREM NeverAppliedTwiceUnderFaults == FaultsSpec => []AppliedAtMostOnce
<1>1. AppliedInv => AppliedAtMostOnce
  BY DEF AppliedInv, AppliedAtMostOnce, Unsent
<1> QED
  BY <1>1, FaultsInvariant, PTL

(* Type correctness with faults.                                           *)
THEOREM FaultsTypeCorrect == FaultsSpec => []FaultsTypeOK
<1> DEFINE FaultOK == fault \in {"timer", "killed", "over"}
<1>1. FaultsInit => FaultOK
  BY DEF FaultsInit
<1>2. FaultOK /\ [FaultsNext]_faultsVars => FaultOK'
  BY DEF FaultsNext, faultsVars, KillBlue, RestartKilled, SeverBlue, FaultGoto
<1>3. WayBackInv /\ SessionTypeOK /\ FaultOK => FaultsTypeOK
  BY DEF WayBackInv, FaultsTypeOK, TrafficTypeOK
<1> QED
  BY <1>1, <1>2, <1>3, FaultsInvariant, PTL DEF FaultsSpec

=============================================================================
