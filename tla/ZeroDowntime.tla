---------------------------- MODULE ZeroDowntime ----------------------------
(***************************************************************************)
(* The blue/green upgrader of src/upgraders/zeroDowntime.ts and the timers *)
(* of src/runner/index.ts that start it.                                   *)
(*                                                                         *)
(* An upgrade and a rollback are asynchronous functions: each is a process *)
(* with a program counter that names the await it is at, so that whatever  *)
(* happens between two awaits is one step and everything else can happen   *)
(* at an await.  The loop that copies the action log while green boots is  *)
(* a third process.  Any awaited command can throw; what the code catches  *)
(* it goes on from, what it does not catch ends the upgrade or rollback.   *)
(* Nothing is persisted: a new orchestrator process starts from the stack  *)
(* alone.                                                                  *)
(***************************************************************************)
EXTENDS Stack

CONSTANTS
  Overlap,      \* may the rollback's timer fire before the upgrade is over?
  MaxFaults,    \* bound: commands that fail, and interrupts, per behaviour
  MaxProcesses  \* bound: orchestrator processes per behaviour

ASSUME OverlapIsBoolean == Overlap \in BOOLEAN
ASSUME BoundsAreNat     == MaxFaults \in Nat /\ MaxProcesses \in Nat \ {0}

VARIABLES
  upc,      \* await the upgrade is at
  source,   \* local originalMetadataDb of upgrade()
  clone,    \* local cloneDb of upgrade()
  before,   \* local `before`: metadata fingerprint at pre-flight
  drift,    \* has metadata.drift been recorded?
  syncing,  \* the flag syncingActions
  spc,      \* where the action-log loop is
  state,    \* module-scoped state?.originalMetadataDb
  rpc,      \* await the rollback is at
  target,   \* local originalMetadataDb of rollback()
  process,  \* orchestrator processes started so far
  faults    \* commands that have failed so far

upgradeVars  == <<upc, source, clone, before, drift>>
syncVars     == <<syncing, spc>>
rollbackVars == <<rpc, target>>
vars == <<stackVars, upgradeVars, syncVars, rollbackVars, state, process, faults>>

(* The awaits of upgrade() in program order, and those of abort().         *)
Proving   == {"preflight", "createClone", "restore", "upGreen", "waitGreen",
              "gateVersion", "gateMetadata", "gateVerify", "gateAddress"}
Switching == {"enableGreen", "waitUp", "drainBlue", "waitDrained", "stopBlue",
              "awaitSync", "finalCopy", "postcondition"}
Aborting  == {"abortStop", "abortDrop"}
Settled   == {"ended", "aborted", "failed"}
UpgradePC == {"idle"} \cup Proving \cup Switching \cup Aborting \cup Settled

(* The awaits of rollback().                                               *)
RollingBack == {"inspect", "upBlue", "waitBlue", "enableBlue", "waitBlueUp",
                "drainGreen", "waitGreenDrained", "stopGreen", "maintGreen"}
RollbackPC  == {"idle", "ended", "failed"} \cup RollingBack

LocalTypeOK ==
  /\ upc     \in UpgradePC
  /\ source  \in DB \cup {NoDb}
  /\ clone   \in Clones \cup {NoDb}
  /\ drift   \in BOOLEAN
  /\ syncing \in BOOLEAN
  /\ spc     \in {"off", "wait", "copy"}
  /\ state   \in DB \cup {NoDb}
  /\ rpc     \in RollbackPC
  /\ target  \in DB \cup {NoDb}

CounterTypeOK ==
  /\ before  \in 0..MaxChanges
  /\ process \in 1..MaxProcesses
  /\ faults  \in 0..MaxFaults

TypeOK == StackTypeOK /\ LocalTypeOK /\ CounterTypeOK

Init ==
  /\ StackInit
  /\ upc = "idle" /\ source = NoDb /\ clone = NoDb /\ before = 0 /\ drift = FALSE
  /\ syncing = FALSE /\ spc = "off"
  /\ state = NoDb
  /\ rpc = "idle" /\ target = NoDb
  /\ process = 1 /\ faults = 0

(* A command fails, within the bound; or it does not.                      *)
Fault   == faults < MaxFaults /\ faults' = faults + 1
NoFault == UNCHANGED faults

(* The upgrade goes from one await to the next; the other processes do     *)
(* not move.  Below, a definition X_Bug is X with a plausible bug in it;   *)
(* it is part of no specification, and stands before X so that it can be   *)
(* put in X's place to see a property notice.                              *)
Goto(from, to) ==
  /\ upc = from
  /\ upc' = to
  /\ UNCHANGED <<rollbackVars, process>>

-----------------------------------------------------------------------------
(* Upgrade, steps 1 to 3: pre-flight, clone, boot green.                   *)

UpgradeStart ==
  /\ Goto("idle", "preflight")
  /\ UNCHANGED <<stackVars, source, clone, before, drift, syncVars, state, faults>>

Preflight ==
  /\ engine[Blue] = "healthy"
  /\ before' = md[db[Blue]]
  /\ Goto("preflight", IF defect[Blue] = "metadata" THEN "aborted" ELSE "createClone")
  /\ UNCHANGED <<stackVars, source, clone, drift, syncVars, state, faults>>

CreateClone_SameNameBug ==
  /\ Goto("createClone", "restore")
  /\ source' = db[Blue]
  /\ clone' = source' /\ CreateDatabase(source')
  /\ UNCHANGED <<proxyVars, engineVars, before, drift, syncVars, state, faults>>

(* The database to clone is the one in blue's environment.  `docker        *)
(* inspect` failing is not an error: cfg.metadataDb is used instead.       *)
CreateClone ==
  /\ Goto("createClone", "restore")
  /\ \/ source' = db[Blue] /\ NoFault
     \/ source' = Original /\ Fault
  /\ \E c \in Clones \ dbs : clone' = c /\ CreateDatabase(c)
  /\ UNCHANGED <<proxyVars, engineVars, before, drift, syncVars, state>>

(* The dump is restored; from here on `state` is set and the action-log    *)
(* loop runs.                                                              *)
RestoreClone ==
  /\ Goto("restore", "upGreen")
  /\ RestoreDump(source, clone)
  /\ state' = source
  /\ syncing' = TRUE /\ spc' = "wait"
  /\ UNCHANGED <<proxyVars, engineVars, source, clone, before, drift, faults>>

UpGreen_OnOriginalBug ==
  /\ Goto("upGreen", "waitGreen")
  /\ ComposeUp(Green, source)
  /\ UNCHANGED <<proxyVars, pgVars, source, clone, before, drift, syncVars, state, faults>>

UpGreen ==
  /\ Goto("upGreen", "waitGreen")
  /\ ComposeUp(Green, clone)
  /\ UNCHANGED <<proxyVars, pgVars, source, clone, before, drift, syncVars, state, faults>>

GreenHealthy ==
  /\ engine[Green] = "healthy"
  /\ Goto("waitGreen", "gateVersion")
  /\ UNCHANGED <<stackVars, source, clone, before, drift, syncVars, state, faults>>

-----------------------------------------------------------------------------
(* Step 4: the gates.  A gate that fails clears the flag of the action-log *)
(* loop and starts the abort.                                              *)

GateFails_KeepsSyncingBug(gate) ==
  /\ Goto(gate, "abortStop")
  /\ UNCHANGED <<stackVars, source, clone, before, drift, syncVars, state>>

GateFails(gate) ==
  /\ Goto(gate, "abortStop")
  /\ syncing' = FALSE
  /\ UNCHANGED <<stackVars, source, clone, before, drift, spc, state>>

GatePasses(gate, next) ==
  /\ Goto(gate, next)
  /\ UNCHANGED <<stackVars, source, clone, before, drift, syncVars, state, faults>>

GateVersion ==
  /\ engine[Green] = "healthy"
  /\ \/ defect[Green] = "version" /\ GateFails("gateVersion") /\ NoFault
     \/ defect[Green] # "version" /\ GatePasses("gateVersion", "gateMetadata")

GateMetadata ==
  /\ engine[Green] = "healthy"
  /\ \/ defect[Green] = "metadata" /\ GateFails("gateMetadata") /\ NoFault
     \/ defect[Green] # "metadata" /\ GatePasses("gateMetadata", "gateVerify")

GateVerify_IgnoredBug ==
  GatePasses("gateVerify", "gateAddress")

(* verifyEngine turns whatever a probe throws into a failed probe: an      *)
(* engine that is not there, or one request that goes wrong.               *)
GateVerify ==
  \/ /\ engine[Green] # "healthy" \/ defect[Green] = "verify"
     /\ GateFails("gateVerify") /\ NoFault
  \/ GateFails("gateVerify") /\ Fault
  \/ /\ engine[Green] = "healthy" /\ defect[Green] # "verify"
     /\ GatePasses("gateVerify", "gateAddress")

(* containerIp is null for a container that is not running, and whenever   *)
(* `docker inspect` fails.                                                 *)
GateAddress ==
  \/ ~Running(Green) /\ GateFails("gateAddress") /\ NoFault
  \/ GateFails("gateAddress") /\ Fault
  \/ Running(Green) /\ GatePasses("gateAddress", "enableGreen")

(* abort(): `stop` and `rm -f` of green, whose failures are swallowed, and *)
(* then the clone is dropped.  `rm -f` leaves a running container alone.   *)
AbortStop ==
  /\ Goto("abortStop", "abortDrop")
  /\ \/ ComposeRemove(Green) /\ NoFault
     \/ ComposeStop(Green) /\ Fault
     \/ UNCHANGED engineVars /\ Fault
  /\ UNCHANGED <<proxyVars, pgVars, source, clone, before, drift, syncVars, state>>

(* Somebody may reconnect to the clone between pg_terminate_backend and    *)
(* DROP DATABASE.                                                          *)
CloneInUse == spc = "copy" \/ (Running(Green) /\ db[Green] = clone)

AbortDrop_KeepsStateBug ==
  /\ Goto("abortDrop", "aborted")
  /\ DropDatabase(clone)
  /\ UNCHANGED <<proxyVars, engineVars, source, clone, before, drift, syncVars, state, faults>>

AbortDrop ==
  /\ Goto("abortDrop", "aborted")
  /\ \/ DropDatabase(clone) /\ NoFault
     \/ UNCHANGED pgVars /\ CloneInUse /\ NoFault
     \/ UNCHANGED pgVars /\ Fault
  /\ state' = NoDb
  /\ UNCHANGED <<proxyVars, engineVars, source, clone, before, drift, syncVars>>

-----------------------------------------------------------------------------
(* Steps 5 to 9: switch, drain, stop blue, last copy, post-conditions.     *)

EnableGreen ==
  /\ Goto("enableGreen", "waitUp")
  /\ SetServerState(Green, "ready")
  /\ UNCHANGED <<engineVars, pgVars, source, clone, before, drift, syncVars, state, faults>>

GreenIsUp_NoWaitBug ==
  /\ Goto("waitUp", "drainBlue")
  /\ UNCHANGED <<stackVars, source, clone, before, drift, syncVars, state, faults>>

GreenIsUp ==
  /\ StatusUp(Green)
  /\ Goto("waitUp", "drainBlue")
  /\ UNCHANGED <<stackVars, source, clone, before, drift, syncVars, state, faults>>

DrainBlue_ForgottenBug ==
  /\ Goto("drainBlue", "waitDrained")
  /\ UNCHANGED <<stackVars, source, clone, before, drift, syncVars, state, faults>>

DrainBlue ==
  /\ Goto("drainBlue", "waitDrained")
  /\ SetServerState(Blue, "drain")
  /\ UNCHANGED <<engineVars, pgVars, source, clone, before, drift, syncVars, state, faults>>

(* waitDrained returns whether or not sessions remain.                     *)
BlueDrained ==
  /\ Goto("waitDrained", "stopBlue")
  /\ UNCHANGED <<stackVars, source, clone, before, drift, syncVars, state, faults>>

StopBlue_KeepsSyncingBug ==
  /\ Goto("stopBlue", "awaitSync")
  /\ ComposeStop(Blue)
  /\ UNCHANGED <<proxyVars, pgVars, source, clone, before, drift, syncVars, state, faults>>

StopBlue ==
  /\ Goto("stopBlue", "awaitSync")
  /\ ComposeStop(Blue)
  /\ syncing' = FALSE
  /\ UNCHANGED <<proxyVars, pgVars, source, clone, before, drift, spc, state, faults>>

(* `compose stop` reports an error after the container has stopped.        *)
StopBlueThrows ==
  /\ Goto("stopBlue", "failed")
  /\ ComposeStop(Blue)
  /\ Fault
  /\ UNCHANGED <<proxyVars, pgVars, source, clone, before, drift, syncVars, state>>

AwaitSync_NotAwaitedBug ==
  /\ Goto("awaitSync", "finalCopy")
  /\ UNCHANGED <<stackVars, source, clone, before, drift, syncVars, state, faults>>

AwaitSync ==
  /\ spc = "off"
  /\ Goto("awaitSync", "finalCopy")
  /\ UNCHANGED <<stackVars, source, clone, before, drift, syncVars, state, faults>>

(* A failure of the last copy is recorded and the upgrade goes on.         *)
FinalCopy ==
  /\ Goto("finalCopy", "postcondition")
  /\ UNCHANGED <<stackVars, source, clone, before, drift, syncVars, state, faults>>

(* Drift is recorded, not acted upon.                                      *)
Postcondition ==
  /\ engine[Green] = "healthy"
  /\ drift' = (md[db[Green]] # before)
  /\ Goto("postcondition", "ended")
  /\ UNCHANGED <<stackVars, source, clone, before, syncVars, state, faults>>

(* Every await of upgrade() outside abort() can throw, except containerIp  *)
(* and the two of step 8.  Nothing is undone: the runner records           *)
(* upgrade.failed and the run goes on.                                     *)
Throwing == (Proving \cup Switching) \ {"gateAddress", "awaitSync", "finalCopy"}

(* What the await waits for, or asks, is not there: it times out.          *)
Stalled ==
  \/ upc = "preflight" /\ engine[Blue] # "healthy"
  \/ upc = "waitUp" /\ ~StatusUp(Green)
  \/ /\ upc \in {"waitGreen", "gateVersion", "gateMetadata", "postcondition"}
     /\ engine[Green] # "healthy"

UpgradeThrows ==
  /\ upc \in Throwing
  /\ Goto(upc, "failed")
  /\ \/ Stalled /\ NoFault
     \/ Fault
  /\ UNCHANGED <<stackVars, source, clone, before, drift, syncVars, state>>

UpgradeStep ==
  \/ UpgradeStart \/ Preflight \/ CreateClone \/ RestoreClone \/ UpGreen
  \/ GreenHealthy \/ GateVersion \/ GateMetadata \/ GateVerify \/ GateAddress
  \/ AbortStop \/ AbortDrop
  \/ EnableGreen \/ GreenIsUp \/ DrainBlue \/ BlueDrained
  \/ StopBlue \/ StopBlueThrows \/ AwaitSync \/ FinalCopy \/ Postcondition
  \/ UpgradeThrows

-----------------------------------------------------------------------------
(* The action-log loop: `while (syncingActions) { copyActionLog; sleep }`. *)

SyncCopy ==
  /\ spc = "wait" /\ syncing
  /\ spc' = "copy"
  /\ UNCHANGED <<stackVars, upgradeVars, syncing, state, rollbackVars, process, faults>>

(* The copy returns, or throws and is recorded in syncErrors.              *)
SyncCopied ==
  /\ spc = "copy"
  /\ spc' = "wait"
  /\ UNCHANGED <<stackVars, upgradeVars, syncing, state, rollbackVars, process, faults>>

SyncExit ==
  /\ spc = "wait" /\ ~syncing
  /\ spc' = "off"
  /\ UNCHANGED <<stackVars, upgradeVars, syncing, state, rollbackVars, process, faults>>

SyncStep == SyncCopy \/ SyncCopied \/ SyncExit

-----------------------------------------------------------------------------
(* rollback().                                                             *)

RGoto(from, to) ==
  /\ rpc = from
  /\ rpc' = to
  /\ UNCHANGED <<upgradeVars, syncVars, state, process>>

(* Its timer is set when the run starts and never looks at the upgrade.    *)
RollbackStart ==
  /\ upc \in Settled \/ (Overlap /\ upc # "idle")
  /\ RGoto("idle", "inspect")
  /\ target' = IF state # NoDb THEN state ELSE Original
  /\ UNCHANGED <<stackVars, faults>>

(* containerRunning is false when `docker inspect` fails.                  *)
InspectBlue ==
  /\ \/ RGoto("inspect", IF Running(Blue) THEN "enableBlue" ELSE "upBlue") /\ NoFault
     \/ RGoto("inspect", "upBlue") /\ Fault
  /\ UNCHANGED <<stackVars, target>>

UpBlue ==
  /\ RGoto("upBlue", "waitBlue")
  /\ ComposeUp(Blue, target)
  /\ UNCHANGED <<proxyVars, pgVars, target, faults>>

BlueHealthy ==
  /\ engine[Blue] = "healthy"
  /\ RGoto("waitBlue", "enableBlue")
  /\ UNCHANGED <<stackVars, target, faults>>

EnableBlue ==
  /\ RGoto("enableBlue", "waitBlueUp")
  /\ SetServerState(Blue, "ready")
  /\ UNCHANGED <<engineVars, pgVars, target, faults>>

BlueIsUp_NoWaitBug ==
  /\ RGoto("waitBlueUp", "drainGreen")
  /\ UNCHANGED <<stackVars, target, faults>>

BlueIsUp ==
  /\ StatusUp(Blue)
  /\ RGoto("waitBlueUp", "drainGreen")
  /\ UNCHANGED <<stackVars, target, faults>>

DrainGreen ==
  /\ RGoto("drainGreen", "waitGreenDrained")
  /\ SetServerState(Green, "drain")
  /\ UNCHANGED <<engineVars, pgVars, target, faults>>

GreenDrained ==
  /\ RGoto("waitGreenDrained", "stopGreen")
  /\ UNCHANGED <<stackVars, target, faults>>

(* Failing to stop green, or to put it in maintenance, is swallowed.       *)
StopGreen ==
  /\ RGoto("stopGreen", "maintGreen")
  /\ \/ ComposeStop(Green) /\ NoFault
     \/ UNCHANGED engineVars /\ Fault
  /\ UNCHANGED <<proxyVars, pgVars, target>>

MaintGreen ==
  /\ RGoto("maintGreen", "ended")
  /\ \/ SetServerState(Green, "maint") /\ NoFault
     \/ UNCHANGED proxyVars /\ Fault
  /\ UNCHANGED <<engineVars, pgVars, target>>

RollbackStalled_NoTimeoutBug ==
  rpc = "waitBlueUp" /\ ~StatusUp(Blue)

RollbackStalled ==
  \/ rpc = "waitBlue" /\ engine[Blue] # "healthy"
  \/ rpc = "waitBlueUp" /\ ~StatusUp(Blue)

RollbackThrows ==
  /\ rpc \in RollingBack \ {"inspect", "stopGreen", "maintGreen"}
  /\ RGoto(rpc, "failed")
  /\ \/ RollbackStalled /\ NoFault
     \/ Fault
  /\ UNCHANGED <<stackVars, target>>

RollbackStep ==
  \/ RollbackStart \/ InspectBlue \/ UpBlue \/ BlueHealthy \/ EnableBlue
  \/ BlueIsUp \/ DrainGreen \/ GreenDrained \/ StopGreen \/ MaintGreen
  \/ RollbackThrows

-----------------------------------------------------------------------------
(* A new orchestrator process: the previous one has returned from main()   *)
(* with nothing left on its event loop, or it was interrupted.             *)
NewProcess ==
  /\ process < MaxProcesses
  /\ \/ /\ upc \in Settled \cup {"idle"}
        /\ rpc \notin RollingBack
        /\ spc = "off"
        /\ NoFault
     \/ Fault
  /\ process' = process + 1
  /\ upc' = "idle" /\ source' = NoDb /\ clone' = NoDb /\ before' = 0 /\ drift' = FALSE
  /\ syncing' = FALSE /\ spc' = "off"
  /\ rpc' = "idle" /\ target' = NoDb
  /\ state' = NoDb
  /\ UNCHANGED stackVars

EnvironmentStep ==
  /\ StackStep
  /\ UNCHANGED <<upgradeVars, syncVars, rollbackVars, state, process, faults>>

Next == UpgradeStep \/ SyncStep \/ RollbackStep \/ NewProcess \/ EnvironmentStep

(* The orchestrator's timers and promises are served by its event loop,    *)
(* every await is bounded by a timeout, and docker and Postgres answer: an *)
(* upgrade or rollback that has started goes on.  That one starts is up to *)
(* the profile's schedule.                                                 *)
Fairness ==
  /\ WF_vars(upc # "idle" /\ UpgradeStep)
  /\ WF_vars(SyncStep)
  /\ WF_vars(rpc # "idle" /\ RollbackStep)

Spec == Init /\ [][Next]_vars /\ Fairness

=============================================================================
