---------------------------- MODULE OneRunProofs ----------------------------
(***************************************************************************)
(* What clients and operators are promised of one run: one orchestrator    *)
(* process in which the rollback starts after the upgrade is over, any     *)
(* number of commands failing anywhere.                                    *)
(***************************************************************************)
EXTENDS ZeroDowntimeProofs

OneRun == Overlap = FALSE /\ MaxProcesses = 1

(* Awaits of the upgrade before green is enabled, from green's boot to its *)
(* last gate, and after blue is drained.                                   *)
BeforeSwitch == {"idle", "enableGreen"} \cup Proving \cup Aborting
GreenBooted  == {"gateVersion", "gateMetadata", "gateVerify", "gateAddress",
                 "enableGreen", "waitUp", "drainBlue"}
CloneExists  == {"restore", "upGreen", "waitGreen", "abortStop", "abortDrop"}
                  \cup GreenBooted
AfterDrain   == {"waitDrained", "stopBlue", "awaitSync", "finalCopy",
                 "postcondition", "ended"}

(* Awaits of the rollback before and after green is drained.               *)
BeforeFlip == {"idle", "inspect", "upBlue", "waitBlue", "enableBlue"}
AfterFlip  == {"waitGreenDrained", "stopGreen", "maintGreen", "ended"}

(* Green as the gates leave it.                                            *)
GreenProved == engine[Green] = "healthy" /\ defect[Green] = "none" /\ db[Green] \in Clones \cap dbs

(* The proxy: blue is in rotation or draining, green in rotation only once *)
(* proved, and whichever of them must answer does.                         *)
ProxyInv ==
  /\ admin[Blue] \in {"ready", "drain"}
  /\ admin[Green] = "ready" => GreenProved
  /\ upc \in BeforeSwitch \cup {"waitUp", "drainBlue"} => admin[Blue] = "ready" /\ rpc = "idle"
  /\ upc \in BeforeSwitch => admin[Green] = "maint"
  /\ upc = "aborted" /\ rpc = "idle" =>
       admin[Blue] = "ready" /\ admin[Green] = "maint" /\ state = NoDb
  /\ upc \in {"waitUp", "drainBlue"} => admin[Green] = "ready"
  /\ upc = "drainBlue" => Serving(Green)
  /\ upc \in AfterDrain \ {"ended"} => rpc = "idle"
  /\ upc \in AfterDrain /\ rpc = "idle" => Serving(Green) /\ admin[Blue] = "drain"
  /\ admin[Blue] = "ready" /\ rpc \in BeforeFlip => Serving(Blue)
  /\ rpc = "drainGreen" => Serving(Blue)
  /\ rpc \in AfterFlip => Serving(Blue) /\ admin[Green] # "ready"
  /\ rpc # "idle" => upc \in Settled
  /\ AlwaysServing

(* Blue is stopped only by a finished switch and started only by rollback. *)
BlueInv ==
  /\ rpc \in {"idle", "inspect"} => engine[Blue] \in {"stopped", "healthy"}
  /\ rpc \in {"enableBlue", "waitBlueUp"} => engine[Blue] = "healthy"
  /\ admin[Blue] = "ready" => engine[Blue] = "healthy"

(* What each gate has established of green.                                *)
GateInv ==
  /\ upc \in CloneExists => clone \in Clones \cap dbs
  /\ upc \in GreenBooted \cup {"waitGreen"} => db[Green] = clone /\ Running(Green)
  /\ upc \in GreenBooted => engine[Green] = "healthy"
  /\ upc = "gateMetadata" => defect[Green] # "version"
  /\ upc = "gateVerify" => defect[Green] \notin {"version", "metadata"}
  /\ upc \in {"gateAddress", "enableGreen", "waitUp", "drainBlue"} => defect[Green] = "none"
  /\ upc \in {"idle", "preflight", "createClone"} => state = NoDb

(* What a finished upgrade leaves.                                         *)
Stopped == {"awaitSync", "finalCopy", "postcondition", "ended"}

OutcomeInv ==
  /\ upc \in AfterDrain => db[Green] = clone
  /\ upc \in Stopped => ~syncing
  /\ upc \in Stopped \ {"awaitSync"} => spc = "off"
  /\ upc \in Stopped /\ rpc = "idle" => engine[Blue] = "stopped"

OneRunInv == WayBackInv /\ ProxyInv /\ BlueInv /\ GateInv /\ OutcomeInv

(* The part that concerns the program, which the steps below preserve;     *)
(* WayBackInv is preserved by WayBackStep.                                 *)
SwitchInv == ProxyInv /\ BlueInv /\ GateInv /\ OutcomeInv

LEMMA OneRunInit == OneRun /\ Init => OneRunInv
<1> SUFFICES ASSUME Init PROVE SwitchInv
  BY WayBackInit DEF OneRunInv, SwitchInv
<1> QED
  BY DEF Init, StackInit, SwitchInv, ProxyInv, BlueInv, GateInv, OutcomeInv, AlwaysServing,
     Serving, StatusUp, Server, Blue, Green, BeforeSwitch, GreenBooted, CloneExists,
     AfterDrain, AfterFlip, Stopped, Proving, Aborting, Settled

-----------------------------------------------------------------------------
LEMMA UpgradePreserves ==
  ASSUME OneRun, OneRunInv, UpgradeStep PROVE SwitchInv'
<1> USE DEF SwitchInv, OneRunInv, WayBackInv, TypeOK, StackTypeOK, ProxyTypeOK, EngineTypeOK,
            PgTypeOK, LocalTypeOK, WayBackIntact, LocalsIntact, ProxyInv, BlueInv, GateInv,
            OutcomeInv, Stopped, Serving, StatusUp, Running, AlwaysServing, GreenProved, BeforeSwitch,
            GreenBooted, CloneExists, AfterDrain, BeforeFlip, AfterFlip, Proving, Aborting,
            Settled, Switching, Goto, Server, Blue, Green, ServerState, EngineStatus,
            Defect, proxyVars, engineVars, pgVars, stackVars, syncVars, rollbackVars
<1>0. UpgradeStep
  OBVIOUS
<1>1. SwitchInv'
  <2>1. CASE UpgradeStart
    BY <2>1 DEF UpgradeStart
  <2>2. CASE Preflight
    BY <2>2 DEF Preflight
  <2>3. CASE CreateClone
    BY <2>3 DEF CreateClone, CreateDatabase
  <2>4. CASE RestoreClone
    BY <2>4 DEF RestoreClone, RestoreDump
  <2>5. CASE UpGreen
    BY <2>5 DEF UpGreen, ComposeUp
  <2>6. CASE GreenHealthy
    BY <2>6 DEF GreenHealthy
  <2>7. CASE GateVersion
    BY <2>7 DEF GateVersion, GateFails, GatePasses
  <2>8. CASE GateMetadata
    BY <2>8 DEF GateMetadata, GateFails, GatePasses
  <2>9. CASE GateVerify
    BY <2>9 DEF GateVerify, GateFails, GatePasses
  <2>10. CASE GateAddress
    BY <2>10 DEF GateAddress, GateFails, GatePasses
  <2>11. CASE AbortStop
    BY <2>11 DEF AbortStop, ComposeRemove, ComposeStop
  <2>12. CASE AbortDrop
    BY <2>12 DEF AbortDrop, DropDatabase
  <2>13. CASE EnableGreen
    BY <2>13 DEF EnableGreen, SetServerState
  <2>14. CASE GreenIsUp
    BY <2>14 DEF GreenIsUp
  <2>15. CASE DrainBlue
    BY <2>15 DEF DrainBlue, SetServerState
  <2>16. CASE BlueDrained
    BY <2>16 DEF BlueDrained
  <2>17. CASE StopBlue
    BY <2>17 DEF StopBlue, ComposeStop
  <2>18. CASE StopBlueThrows
    BY <2>18 DEF StopBlueThrows, ComposeStop
  <2>19. CASE AwaitSync
    BY <2>19 DEF AwaitSync
  <2>20. CASE FinalCopy
    BY <2>20 DEF FinalCopy
  <2>21. CASE Postcondition
    BY <2>21 DEF Postcondition
  <2>22. CASE UpgradeThrows
    BY <2>22 DEF UpgradeThrows, Throwing
  <2> QED
    BY <1>0, <2>1, <2>2, <2>3, <2>4, <2>5, <2>6, <2>7, <2>8, <2>9, <2>10,
       <2>11, <2>12, <2>13, <2>14, <2>15, <2>16, <2>17, <2>18, <2>19,
       <2>20, <2>21, <2>22 DEF UpgradeStep
<1> QED
  BY <1>1

LEMMA RollbackPreserves ==
  ASSUME OneRun, OneRunInv, RollbackStep PROVE SwitchInv'
<1> USE DEF SwitchInv, OneRun, OneRunInv, WayBackInv, TypeOK, StackTypeOK, ProxyTypeOK,
            EngineTypeOK, PgTypeOK, LocalTypeOK, WayBackIntact, LocalsIntact, ProxyInv,
            BlueInv, GateInv, OutcomeInv, Stopped, Serving, StatusUp, Running, AlwaysServing, GreenProved,
            BeforeSwitch, GreenBooted, CloneExists, AfterDrain, BeforeFlip, AfterFlip,
            Proving, Aborting, Settled, RollingBack, RGoto, Server, Blue, Green,
            ServerState, EngineStatus, proxyVars, engineVars, pgVars, stackVars,
            upgradeVars, syncVars
<1>0. RollbackStep
  OBVIOUS
<1>1. SwitchInv'
  <2>1. CASE RollbackStart
    BY <2>1 DEF RollbackStart
  <2>2. CASE InspectBlue
    BY <2>2 DEF InspectBlue
  <2>3. CASE UpBlue
    BY <2>3 DEF UpBlue, ComposeUp
  <2>4. CASE BlueHealthy
    BY <2>4 DEF BlueHealthy
  <2>5. CASE EnableBlue
    BY <2>5 DEF EnableBlue, SetServerState
  <2>6. CASE BlueIsUp
    BY <2>6 DEF BlueIsUp
  <2>7. CASE DrainGreen
    BY <2>7 DEF DrainGreen, SetServerState
  <2>8. CASE GreenDrained
    BY <2>8 DEF GreenDrained
  <2>9. CASE StopGreen
    BY <2>9 DEF StopGreen, ComposeStop
  <2>10. CASE MaintGreen
    BY <2>10 DEF MaintGreen, SetServerState
  <2>11. CASE RollbackThrows
    BY <2>11 DEF RollbackThrows
  <2> QED
    BY <1>0, <2>1, <2>2, <2>3, <2>4, <2>5, <2>6, <2>7, <2>8, <2>9, <2>10,
       <2>11 DEF RollbackStep
<1> QED
  BY <1>1

(* What the containers, HAProxy's checks and an operator do.               *)
LEMMA EnvironmentPreserves ==
  ASSUME OneRun, OneRunInv, EnvironmentStep PROVE SwitchInv'
<1> USE DEF SwitchInv, OneRunInv, WayBackInv, TypeOK, StackTypeOK, ProxyTypeOK, EngineTypeOK,
            PgTypeOK, WayBackIntact, LocalsIntact, ProxyInv, BlueInv, GateInv,
            OutcomeInv, Stopped, Serving, StatusUp, Running, AlwaysServing, GreenProved, BeforeSwitch,
            GreenBooted, CloneExists, AfterDrain, BeforeFlip, AfterFlip, Proving, Aborting,
            Settled, Server, Blue, Green, EngineStatus, proxyVars, engineVars, pgVars,
            upgradeVars, syncVars, rollbackVars, EnvironmentStep, StackStep
<1>1. CASE \E s \in Server : BootDone(s)
  BY <1>1 DEF BootDone
<1>2. CASE \E s \in Server : HealthCheck(s)
  BY <1>2 DEF HealthCheck
<1>3. CASE \E s \in Server : ChangeMetadata(s)
  BY <1>3 DEF ChangeMetadata
<1> QED
  BY <1>1, <1>2, <1>3

(* The action-log loop touches nothing but its own place, and never comes  *)
(* back once it is off.                                                    *)
LEMMA LoopPreserves ==
  ASSUME OneRunInv, SyncStep \/ UNCHANGED vars PROVE SwitchInv'
<1>1. /\ UNCHANGED <<stackVars, upc, clone, state, rpc, syncing, source, target>>
      /\ spc = "off" => spc' = "off"
  BY DEF SyncStep, SyncCopy, SyncCopied, SyncExit, vars, upgradeVars, syncVars, rollbackVars
<1> QED
  BY <1>1 DEF SwitchInv, OneRunInv, ProxyInv, BlueInv, GateInv, OutcomeInv, Stopped, Serving,
     StatusUp, Running, AlwaysServing, GreenProved, stackVars

LEMMA OneRunStep == OneRun /\ OneRunInv /\ [Next]_vars => OneRunInv'
<1> SUFFICES ASSUME OneRun, OneRunInv, [Next]_vars PROVE SwitchInv'
  BY WayBackStep DEF OneRunInv, SwitchInv
<1>1. CASE UpgradeStep
  BY <1>1, UpgradePreserves
<1>2. CASE RollbackStep
  BY <1>2, RollbackPreserves
<1>3. CASE EnvironmentStep
  BY <1>3, EnvironmentPreserves
<1>4. CASE SyncStep
  BY <1>4, LoopPreserves
<1>5. CASE NewProcess
  <2>1. process \in 1..1 /\ process < 1
    BY <1>5 DEF NewProcess, OneRun, OneRunInv, WayBackInv, TypeOK, CounterTypeOK
  <2> QED
    BY <2>1
<1>6. CASE UNCHANGED vars
  BY <1>6, LoopPreserves
<1> QED
  BY <1>1, <1>2, <1>3, <1>4, <1>5, <1>6 DEF Next

LEMMA OneRunInvariant == ASSUME OneRun PROVE Spec => []OneRunInv
<1>1. Init => OneRunInv
  BY OneRunInit
<1>2. OneRunInv /\ [Next]_vars => OneRunInv'
  BY OneRunStep
<1> QED
  BY <1>1, <1>2, PTL DEF Spec

-----------------------------------------------------------------------------
(* The promises.                                                           *)

(* At every instant of a run, wherever the upgrade or the rollback fails,  *)
(* some server answers: the order of "ready" and "drain" in                *)
(* zeroDowntime.ts:170-174 and 257-259, and the waits between them.        *)
THEOREM NoInstantWithoutBackend == ASSUME OneRun PROVE Spec => []AlwaysServing
<1>1. OneRunInv => AlwaysServing
  BY DEF OneRunInv, ProxyInv
<1> QED
  BY <1>1, OneRunInvariant, PTL

(* Green is in rotation only with an engine that passed every gate, on a   *)
(* clone that exists: the gates of zeroDowntime.ts:140-155.                *)
THEOREM TrafficOnlyToProved == ASSUME OneRun PROVE Spec => []OnlyProvenServes
<1>1. OneRunInv => OnlyProvenServes
  BY DEF OneRunInv, ProxyInv, GreenProved, OnlyProvenServes
<1> QED
  BY <1>1, OneRunInvariant, PTL

(* An aborted upgrade changed nothing a client or a rollback can see.      *)
THEOREM AbortChangesNothing == ASSUME OneRun PROVE Spec => []AbortIsNonEvent
<1>1. OneRunInv => AbortIsNonEvent
  BY DEF OneRunInv, ProxyInv, AbortIsNonEvent, BeforeFlip
<1> QED
  BY <1>1, OneRunInvariant, PTL

(* A finished upgrade or rollback leaves one engine in rotation, on the    *)
(* database it should be on.                                               *)
THEOREM OneEngineLeft == ASSUME OneRun PROVE Spec => []OutcomeIsExclusive
<1>1. OneRunInv => OutcomeIsExclusive
  BY DEF OneRunInv, ProxyInv, OutcomeInv, WayBackInv, WayBackIntact, OutcomeIsExclusive,
     AfterDrain, AfterFlip, Stopped, Running
<1> QED
  BY <1>1, OneRunInvariant, PTL

(* A first upgrade clones the database of an engine in service: "the       *)
(* orchestrator discovers which is current" (runbook.md:105) fails only    *)
(* for a later process, as the run zd_rerun shows: zeroDowntime.ts:75-76   *)
(* asks blue alone, and a switch that is cut short can leave blue drained, *)
(* healthy and on the original while green serves.                         *)
THEOREM FirstUpgradeClonesWhatServes == ASSUME OneRun PROVE Spec => []ClonesWhatServes
<1>1. OneRunInv => ClonesWhatServes
  <2> SUFFICES ASSUME OneRunInv, upc = "restore"
               PROVE  Serving(Blue) /\ db[Blue] = source
    BY DEF ClonesWhatServes, Server
  <2>1. admin[Blue] = "ready" /\ rpc \in BeforeFlip
    BY DEF OneRunInv, ProxyInv, BeforeSwitch, Proving, BeforeFlip
  <2>2. db[Blue] = source
    BY DEF OneRunInv, WayBackInv, WayBackIntact, LocalsIntact
  <2> QED
    BY <2>1, <2>2 DEF OneRunInv, ProxyInv
<1> QED
  BY <1>1, OneRunInvariant, PTL

Drained == \A s \in Server : Running(s) /\ engine'[s] = "stopped" => admin[s] # "ready"

LEMMA StopsDrained == ASSUME OneRunInv, Next PROVE Drained
<1> USE DEF OneRunInv, WayBackInv, TypeOK, StackTypeOK, EngineTypeOK, Server, Blue, Green,
            Running, EngineStatus, Drained
<1>1. CASE UpgradeStep
  <2>1. CASE AbortStop
    BY <2>1 DEF AbortStop, ComposeRemove, ComposeStop, Goto, ProxyInv, BeforeSwitch, Aborting, engineVars
  <2>2. CASE StopBlue \/ StopBlueThrows
    BY <2>2 DEF StopBlue, StopBlueThrows, ComposeStop, Goto, ProxyInv, AfterDrain
  <2>3. CASE ~(AbortStop \/ StopBlue \/ StopBlueThrows)
    BY <1>1, <2>3 DEF UpgradeStep, UpgradeStart, Preflight, CreateClone, RestoreClone,
       UpGreen, ComposeUp, GreenHealthy, GateVersion, GateMetadata, GateVerify,
       GateAddress, GateFails, GatePasses, AbortDrop, EnableGreen, GreenIsUp, DrainBlue,
       BlueDrained, AwaitSync, FinalCopy, Postcondition, UpgradeThrows, stackVars,
       engineVars
  <2> QED
    BY <2>1, <2>2, <2>3
<1>2. CASE RollbackStep
  <2>1. CASE StopGreen
    BY <2>1 DEF StopGreen, ComposeStop, RGoto, ProxyInv, AfterFlip, engineVars
  <2>2. CASE ~StopGreen
    BY <1>2, <2>2 DEF RollbackStep, RollbackStart, InspectBlue, UpBlue, ComposeUp,
       BlueHealthy, EnableBlue, BlueIsUp, DrainGreen, GreenDrained, MaintGreen,
       RollbackThrows, stackVars, engineVars
  <2> QED
    BY <2>1, <2>2
<1>3. CASE SyncStep \/ NewProcess
  BY <1>3 DEF SyncStep, SyncCopy, SyncCopied, SyncExit, NewProcess, stackVars
<1>4. CASE EnvironmentStep
  BY <1>4 DEF EnvironmentStep, StackStep, BootDone, HealthCheck, ChangeMetadata, engineVars
<1> QED
  BY <1>1, <1>2, <1>3, <1>4 DEF Next

(* `docker compose stop` reaches only an engine HAProxy has drained.       *)
THEOREM StopsOnlyDrained == ASSUME OneRun PROVE Spec => NeverStopsReadyServer
<1>1. OneRunInv /\ [Next]_vars => [Drained]_vars
  BY StopsDrained
<1>2. Spec => [][Drained]_vars
  BY <1>1, OneRunInvariant, PTL DEF Spec
<1> QED
  BY <1>2 DEF NeverStopsReadyServer, Drained

-----------------------------------------------------------------------------
(* The refinement: serving is the set of servers that answer, fit the set  *)
(* of engines that may.                                                    *)

LEMMA ServingIsFit == OneRunInv => \A s \in Server : Serving(s) => Fit(s)
<1> QED
  BY DEF OneRunInv, WayBackInv, WayBackIntact, ProxyInv, GreenProved, Serving, StatusUp,
     Fit, Server, Blue, Green

SameServing(r) == Serving(r)' <=> Serving(r)
SameFit(r)     == Fit(r)' <=> Fit(r)

(* A step changes who answers or who is fit, of one server, and not the    *)
(* fitness of one that answers.                                            *)
LEMMA OneServerAtATime ==
  ASSUME OneRun, OneRunInv, Next
  PROVE  \/ /\ \A r \in Server : SameFit(r)
            /\ \E s \in Server : \A r \in Server \ {s} : SameServing(r)
         \/ /\ \A r \in Server : SameServing(r)
            /\ \E s \in Server : ~Serving(s) /\ \A r \in Server \ {s} : SameFit(r)
<1> USE DEF SameServing, SameFit, Serving, StatusUp, Fit, OneRunInv, WayBackInv, TypeOK,
            StackTypeOK, ProxyTypeOK, EngineTypeOK, PgTypeOK, Server, Blue, Green
<1>1. CASE UNCHANGED <<engineVars, pgVars>>
  <2>1. CASE UNCHANGED proxyVars
    BY <1>1, <2>1 DEF proxyVars, engineVars, pgVars
  <2>2. CASE \E s \in Server, st \in ServerState : SetServerState(s, st)
    BY <1>1, <2>2 DEF SetServerState, engineVars, pgVars
  <2>3. CASE \E s \in Server : HealthCheck(s)
    BY <1>1, <2>3 DEF HealthCheck, engineVars, pgVars
  <2> QED
    BY <2>1, <2>2, <2>3, ProxyFootprint
<1>2. CASE UNCHANGED proxyVars /\ \E s \in Server : BootDone(s)
  BY <1>2, DistinctDatabases DEF BootDone, proxyVars, BlueInv, ProxyInv, GreenProved,
     WayBackIntact, LocalsIntact, DB
<1>3. CASE UNCHANGED <<proxyVars, pgVars>>
  <2> USE <1>3 DEF proxyVars, pgVars
  <2>1. CASE UNCHANGED engineVars
    BY <2>1 DEF engineVars
  <2>2. CASE upc = "upGreen" /\ ComposeUp(Green, clone)
    BY <2>2 DEF ComposeUp, ProxyInv, BeforeSwitch, Proving
  <2>3. CASE rpc = "upBlue" /\ ComposeUp(Blue, target)
    BY <2>3 DEF ComposeUp, WayBackIntact, LocalsIntact, Running
  <2>4. CASE \E s \in Server : ComposeStop(s)
    BY <2>4, StopsDrained DEF ComposeStop, Drained, Running
  <2>5. CASE upc = "abortStop" /\ ComposeRemove(Green)
    BY <2>5 DEF ComposeRemove, ProxyInv, BeforeSwitch, Aborting
  <2> QED
    BY <1>2, <2>1, <2>2, <2>3, <2>4, <2>5, EngineFootprint
<1>4. CASE UNCHANGED <<proxyVars, engineVars>>
  <2> USE <1>4 DEF proxyVars, engineVars
  <2>1. CASE UNCHANGED pgVars
    BY <2>1 DEF pgVars
  <2>2. CASE \E c \in Clones : CreateDatabase(c)
    BY <2>2, ServingIsFit DEF CreateDatabase, WayBackIntact
  <2>3. CASE upc = "restore" /\ RestoreDump(source, clone)
    BY <2>3, DistinctDatabases DEF RestoreDump, WayBackIntact, LocalsIntact
  <2>4. CASE upc = "abortDrop" /\ DropDatabase(clone)
    BY <2>4, DistinctDatabases DEF DropDatabase, WayBackIntact, LocalTypeOK, ProxyInv,
       BeforeSwitch, Aborting, DB
  <2>5. CASE \E s \in Server : ChangeMetadata(s)
    BY <2>5 DEF ChangeMetadata
  <2> QED
    BY <1>2, <2>1, <2>2, <2>3, <2>4, <2>5, PgFootprint
<1> QED
  BY <1>1, <1>2, <1>3, <1>4, OneComponentAtATime

servingNow == {s \in Server : Serving(s)}
fitNow     == {s \in Server : Fit(s)}

LEMMA PromiseInit == OneRunInv => Promise!Init
<1> SUFFICES ASSUME OneRunInv PROVE Promise!Init
  OBVIOUS
<1>1. servingNow # {}
  BY DEF OneRunInv, ProxyInv, AlwaysServing, servingNow
<1>2. servingNow \subseteq fitNow
  BY ServingIsFit DEF servingNow, fitNow
<1>3. servingNow \in SUBSET Server /\ fitNow \in SUBSET Server
  BY DEF servingNow, fitNow
<1> QED
  BY <1>1, <1>2, <1>3 DEF Promise!Init, servingNow, fitNow

LEMMA PromiseStep ==
  ASSUME OneRun, OneRunInv, Next, OneRunInv'
  PROVE  Promise!Next \/ UNCHANGED <<servingNow, fitNow>>
<1>1. servingNow' # {}
  BY DEF OneRunInv, ProxyInv, AlwaysServing, servingNow
<1>2. servingNow \subseteq fitNow
  BY ServingIsFit DEF servingNow, fitNow
<1>3. servingNow' \subseteq fitNow'
  <2>1. \A s \in Server : Serving(s)' => Fit(s)'
    BY DEF OneRunInv, WayBackInv, WayBackIntact, ProxyInv, GreenProved, Serving, StatusUp,
       Fit, Server, Blue, Green
  <2> QED
    BY <2>1 DEF servingNow, fitNow
<1>4. CASE /\ \A r \in Server : SameFit(r)
           /\ \E s \in Server : \A r \in Server \ {s} : SameServing(r)
  <2>1. fitNow' = fitNow
    BY <1>4 DEF fitNow, SameFit
  <2>2. PICK s \in Server : \A r \in Server \ {s} : SameServing(r)
    BY <1>4
  <2>3. servingNow' \in {servingNow \cup {s}, servingNow \ {s}}
    BY <2>2 DEF servingNow, SameServing
  <2>4. CASE s \in fitNow /\ servingNow' = servingNow \cup {s}
    <3>1. Promise!Enable(s)
      BY <2>1, <2>4 DEF Promise!Enable, servingNow, fitNow
    <3> QED
      BY <3>1 DEF Promise!Next
  <2>5. CASE servingNow' = servingNow \ {s}
    <3>1. Promise!Retire(s)
      BY <1>1, <2>1, <2>5 DEF Promise!Retire, servingNow, fitNow
    <3> QED
      BY <3>1 DEF Promise!Next
  <2>6. s \in fitNow \/ servingNow' # servingNow \cup {s}
    BY <1>3, <2>1
  <2> QED
    BY <2>3, <2>4, <2>5, <2>6
<1>5. CASE /\ \A r \in Server : SameServing(r)
           /\ \E s \in Server : ~Serving(s) /\ \A r \in Server \ {s} : SameFit(r)
  <2>1. servingNow' = servingNow
    BY <1>5 DEF servingNow, SameServing
  <2>2. PICK s \in Server : ~Serving(s) /\ \A r \in Server \ {s} : SameFit(r)
    BY <1>5
  <2>3. s \notin servingNow /\ fitNow' \in {fitNow \cup {s}, fitNow \ {s}}
    BY <2>2 DEF servingNow, fitNow, SameFit
  <2>4. Promise!Refit(s)
    BY <2>1, <2>3 DEF Promise!Refit, servingNow, fitNow
  <2> QED
    BY <2>4 DEF Promise!Next
<1> QED
  BY <1>4, <1>5, OneServerAtATime

(* A run implements Switchover: whatever the orchestrator does to proxy,   *)
(* containers and databases is, to a client, a fit server enabled, a       *)
(* server retired that is not the last, or nothing.                        *)
THEOREM RunImplementsSwitchover == ASSUME OneRun PROVE Spec => PromiseKept
<1>1. OneRunInv /\ [Next]_vars /\ OneRunInv' =>
        [Promise!Next]_<<{s \in Server : Serving(s)}, {s \in Server : Fit(s)}>>
  <2>1. ASSUME OneRunInv, UNCHANGED vars PROVE UNCHANGED <<servingNow, fitNow>>
    BY <2>1 DEF vars, stackVars, servingNow, fitNow, Serving, StatusUp, Fit
  <2> QED
    BY <2>1, PromiseStep DEF servingNow, fitNow
<1> QED
  BY <1>1, PromiseInit, OneRunInvariant, PTL DEF Spec, PromiseKept, Promise!Spec

=============================================================================
