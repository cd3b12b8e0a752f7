------------------------- MODULE ZeroDowntimeProofs -------------------------
(***************************************************************************)
(* Theorems about the zero-downtime upgrader, for every number of faults,  *)
(* orchestrator processes, clones and metadata changes.                    *)
(***************************************************************************)
EXTENDS ZeroDowntimeProperties, TLAPS

(* The local variables that name a database name the right one wherever a  *)
(* command uses them.  WayBackIntact is not inductive without this: what   *)
(* rollback starts blue on is `state`, which is set from blue's container, *)
(* and what green is started on is the clone.                              *)
LocalsIntact ==
  /\ upc = "restore" => source = Original /\ clone \in Clones
  /\ db[Green] \in Clones \cup {NoDb}
  /\ state  \in {Original, NoDb}
  /\ target \in {Original, NoDb}
  /\ rpc \in {"inspect", "upBlue"} => target = Original

WayBackInv == TypeOK /\ WayBackIntact /\ LocalsIntact

-----------------------------------------------------------------------------
(* The initial states.                                                     *)

LEMMA WayBackInit == Init => WayBackInv
<1> SUFFICES ASSUME Init PROVE WayBackInv
  OBVIOUS
<1>1. StackTypeOK
  BY ChangesBounded DEF Init, StackInit, StackTypeOK, ProxyTypeOK, EngineTypeOK,
     PgTypeOK, Server, Blue, Green, DB, EngineStatus, ServerState, Defect
<1>2. LocalTypeOK
  BY DEF Init, LocalTypeOK, UpgradePC, RollbackPC
<1>3. CounterTypeOK
  BY ChangesBounded, BoundsAreNat DEF Init, CounterTypeOK
<1>4. WayBackIntact /\ LocalsIntact
  BY DEF Init, StackInit, WayBackIntact, LocalsIntact, Server, Blue, Green
<1> QED
  BY <1>1, <1>2, <1>3, <1>4 DEF WayBackInv, TypeOK

-----------------------------------------------------------------------------
(* Footprints: the commands through which a step of the orchestrator can   *)
(* touch the proxy, the containers and the databases.                      *)

LEMMA ProxyFootprint ==
  Next => \/ UNCHANGED proxyVars
          \/ \E s \in Server, st \in ServerState : SetServerState(s, st)
          \/ \E s \in Server : HealthCheck(s)
<1> USE DEF Server, ServerState, Blue, Green, proxyVars, stackVars
<1>1. UpgradeStep => UNCHANGED proxyVars \/ \E s \in Server, st \in ServerState : SetServerState(s, st)
  BY DEF UpgradeStep, UpgradeStart, Preflight, CreateClone, RestoreClone, UpGreen,
     GreenHealthy, GateVersion, GateMetadata, GateVerify, GateAddress, GateFails,
     GatePasses, AbortStop, AbortDrop, EnableGreen, GreenIsUp, DrainBlue, BlueDrained,
     StopBlue, StopBlueThrows, AwaitSync, FinalCopy, Postcondition, UpgradeThrows
<1>2. RollbackStep => UNCHANGED proxyVars \/ \E s \in Server, st \in ServerState : SetServerState(s, st)
  BY DEF RollbackStep, RollbackStart, InspectBlue, UpBlue, BlueHealthy, EnableBlue,
     BlueIsUp, DrainGreen, GreenDrained, StopGreen, MaintGreen, RollbackThrows
<1>3. SyncStep \/ NewProcess => UNCHANGED proxyVars
  BY DEF SyncStep, SyncCopy, SyncCopied, SyncExit, NewProcess
<1>4. EnvironmentStep => UNCHANGED proxyVars \/ \E s \in Server : HealthCheck(s)
  BY DEF EnvironmentStep, StackStep, BootDone, ChangeMetadata
<1> QED
  BY <1>1, <1>2, <1>3, <1>4 DEF Next

LEMMA EngineFootprint ==
  Next => \/ UNCHANGED engineVars
          \/ upc = "upGreen" /\ ComposeUp(Green, clone)
          \/ rpc = "upBlue" /\ ComposeUp(Blue, target)
          \/ upc = "abortStop" /\ ComposeRemove(Green)
          \/ \E s \in Server : ComposeStop(s)
          \/ \E s \in Server : BootDone(s)
<1> USE DEF Server, Blue, Green, engineVars, stackVars
<1>1. UpgradeStep => \/ UNCHANGED engineVars
                     \/ upc = "upGreen" /\ ComposeUp(Green, clone)
                     \/ upc = "abortStop" /\ ComposeRemove(Green)
                     \/ \E s \in Server : ComposeStop(s)
  BY DEF UpgradeStep, UpgradeStart, Preflight, CreateClone, RestoreClone, UpGreen,
     GreenHealthy, GateVersion, GateMetadata, GateVerify, GateAddress, GateFails,
     GatePasses, AbortStop, AbortDrop, EnableGreen, GreenIsUp, DrainBlue, BlueDrained,
     StopBlue, StopBlueThrows, AwaitSync, FinalCopy, Postcondition, UpgradeThrows, Goto
<1>2. RollbackStep => \/ UNCHANGED engineVars
                      \/ rpc = "upBlue" /\ ComposeUp(Blue, target)
                      \/ \E s \in Server : ComposeStop(s)
  BY DEF RollbackStep, RollbackStart, InspectBlue, UpBlue, BlueHealthy, EnableBlue,
     BlueIsUp, DrainGreen, GreenDrained, StopGreen, MaintGreen, RollbackThrows, RGoto
<1>3. SyncStep \/ NewProcess => UNCHANGED engineVars
  BY DEF SyncStep, SyncCopy, SyncCopied, SyncExit, NewProcess
<1>4. EnvironmentStep => UNCHANGED engineVars \/ \E s \in Server : BootDone(s)
  BY DEF EnvironmentStep, StackStep, HealthCheck, ChangeMetadata
<1> QED
  BY <1>1, <1>2, <1>3, <1>4 DEF Next

LEMMA PgFootprint ==
  Next => \/ UNCHANGED pgVars
          \/ \E c \in Clones : CreateDatabase(c)
          \/ upc = "restore" /\ RestoreDump(source, clone)
          \/ upc = "abortDrop" /\ DropDatabase(clone)
          \/ \E s \in Server : BootDone(s)
          \/ \E s \in Server : ChangeMetadata(s)
<1> USE DEF pgVars, stackVars
<1>1. UpgradeStep => \/ UNCHANGED pgVars
                     \/ \E c \in Clones : CreateDatabase(c)
                     \/ upc = "restore" /\ RestoreDump(source, clone)
                     \/ upc = "abortDrop" /\ DropDatabase(clone)
  BY DEF UpgradeStep, UpgradeStart, Preflight, CreateClone, RestoreClone, UpGreen,
     GreenHealthy, GateVersion, GateMetadata, GateVerify, GateAddress, GateFails,
     GatePasses, AbortStop, AbortDrop, EnableGreen, GreenIsUp, DrainBlue, BlueDrained,
     StopBlue, StopBlueThrows, AwaitSync, FinalCopy, Postcondition, UpgradeThrows, Goto
<1>2. RollbackStep => UNCHANGED pgVars
  BY DEF RollbackStep, RollbackStart, InspectBlue, UpBlue, BlueHealthy, EnableBlue,
     BlueIsUp, DrainGreen, GreenDrained, StopGreen, MaintGreen, RollbackThrows
<1>3. SyncStep \/ NewProcess => UNCHANGED pgVars
  BY DEF SyncStep, SyncCopy, SyncCopied, SyncExit, NewProcess
<1>4. EnvironmentStep => \/ UNCHANGED pgVars
                         \/ \E s \in Server : BootDone(s)
                         \/ \E s \in Server : ChangeMetadata(s)
  BY DEF EnvironmentStep, StackStep, HealthCheck
<1> QED
  BY <1>1, <1>2, <1>3, <1>4 DEF Next

(* Of the three, a step touches one, except that an engine that finishes   *)
(* booting migrates its database.                                          *)
LEMMA OneComponentAtATime ==
  Next => \/ UNCHANGED <<engineVars, pgVars>>
          \/ UNCHANGED <<proxyVars, pgVars>>
          \/ UNCHANGED <<proxyVars, engineVars>>
          \/ UNCHANGED proxyVars /\ \E s \in Server : BootDone(s)
<1> USE DEF proxyVars, engineVars, pgVars, stackVars
<1>1. CASE UpgradeStep
  BY <1>1 DEF UpgradeStep, UpgradeStart, Preflight, CreateClone, RestoreClone, UpGreen,
     GreenHealthy, GateVersion, GateMetadata, GateVerify, GateAddress, GateFails,
     GatePasses, AbortStop, AbortDrop, EnableGreen, GreenIsUp, DrainBlue, BlueDrained,
     StopBlue, StopBlueThrows, AwaitSync, FinalCopy, Postcondition, UpgradeThrows
<1>2. CASE RollbackStep
  BY <1>2 DEF RollbackStep, RollbackStart, InspectBlue, UpBlue, BlueHealthy, EnableBlue,
     BlueIsUp, DrainGreen, GreenDrained, StopGreen, MaintGreen, RollbackThrows
<1>3. CASE SyncStep \/ NewProcess \/ EnvironmentStep
  BY <1>3 DEF SyncStep, SyncCopy, SyncCopied, SyncExit, NewProcess, EnvironmentStep,
     StackStep, BootDone, HealthCheck, ChangeMetadata
<1> QED
  BY <1>1, <1>2, <1>3 DEF Next

-----------------------------------------------------------------------------
(* The commands preserve the type of the component they act on.            *)

LEMMA ProxyTypes == TypeOK /\ Next => ProxyTypeOK'
<1> SUFFICES ASSUME TypeOK, Next PROVE ProxyTypeOK'
  OBVIOUS
<1>1. CASE UNCHANGED proxyVars
  BY <1>1 DEF TypeOK, StackTypeOK, ProxyTypeOK, proxyVars
<1>2. CASE \E s \in Server, st \in ServerState : SetServerState(s, st)
  BY <1>2 DEF TypeOK, StackTypeOK, ProxyTypeOK, SetServerState
<1>3. CASE \E s \in Server : HealthCheck(s)
  BY <1>3 DEF TypeOK, StackTypeOK, ProxyTypeOK, HealthCheck
<1> QED
  BY <1>1, <1>2, <1>3, ProxyFootprint

LEMMA EngineTypes == TypeOK /\ LocalsIntact /\ Next => EngineTypeOK'
<1> SUFFICES ASSUME TypeOK, LocalsIntact, Next PROVE EngineTypeOK'
  OBVIOUS
<1> USE DEF TypeOK, StackTypeOK, EngineTypeOK
<1>1. CASE UNCHANGED engineVars
  BY <1>1 DEF engineVars
<1>2. CASE ComposeUp(Green, clone)
  BY <1>2 DEF ComposeUp, LocalTypeOK, EngineStatus, Server, DB
<1>3. CASE ComposeUp(Blue, target)
  BY <1>3 DEF ComposeUp, LocalTypeOK, EngineStatus, Server, DB
<1>4. CASE \E s \in Server : ComposeStop(s)
  BY <1>4 DEF ComposeStop, EngineStatus
<1>5. CASE \E s \in Server : BootDone(s)
  BY <1>5 DEF BootDone, EngineStatus
<1>6. CASE ComposeRemove(Green)
  BY <1>6 DEF ComposeRemove, EngineStatus
<1> QED
  BY <1>1, <1>2, <1>3, <1>4, <1>5, <1>6, EngineFootprint

LEMMA PgTypes == TypeOK /\ LocalsIntact /\ Next => PgTypeOK'
<1> SUFFICES ASSUME TypeOK, LocalsIntact, Next PROVE PgTypeOK'
  OBVIOUS
<1> USE DEF TypeOK, StackTypeOK, PgTypeOK
<1>1. CASE UNCHANGED pgVars
  BY <1>1 DEF pgVars
<1>2. CASE \E c \in Clones : CreateDatabase(c)
  BY <1>2 DEF CreateDatabase, DB
<1>3. CASE upc = "restore" /\ RestoreDump(source, clone)
  BY <1>3 DEF RestoreDump, LocalsIntact, DB
<1>4. CASE upc = "abortDrop" /\ DropDatabase(clone)
  BY <1>4 DEF DropDatabase
<1>5. CASE \E s \in Server : BootDone(s)
  BY <1>5 DEF BootDone
<1>6. CASE \E s \in Server : ChangeMetadata(s)
  <2>1. PICK s \in Server : ChangeMetadata(s)
    BY <1>6
  <2>2. CASE db[s] \in DB
    BY <2>1, <2>2, ChangesBounded DEF ChangeMetadata
  <2>3. CASE db[s] \notin DB
    BY <2>1, <2>3 DEF ChangeMetadata
  <2> QED
    BY <2>2, <2>3
<1> QED
  BY <1>1, <1>2, <1>3, <1>4, <1>5, <1>6, PgFootprint

LEMMA LocalTypes == WayBackInv /\ Next => LocalTypeOK'
<1> SUFFICES ASSUME WayBackInv, Next PROVE LocalTypeOK'
  OBVIOUS
<1> USE DEF WayBackInv, TypeOK, LocalTypeOK, upgradeVars, syncVars, rollbackVars
<1>1. CASE UpgradeStep
  <2> USE DEF UpgradeStep, UpgradeStart, Preflight, CreateClone, RestoreClone, UpGreen,
       GreenHealthy, GateVersion, GateMetadata, GateVerify, GateAddress, GateFails,
       GatePasses, AbortStop, AbortDrop, EnableGreen, GreenIsUp, DrainBlue, BlueDrained,
       StopBlue, StopBlueThrows, AwaitSync, FinalCopy, Postcondition, UpgradeThrows, Goto
  <2>1. (upc \in UpgradePC /\ rpc \in RollbackPC /\ spc \in {"off", "wait", "copy"})'
    BY <1>1 DEF UpgradePC, Proving, Switching, Aborting, Settled
  <2>2. (/\ source \in DB \cup {NoDb} /\ clone \in Clones \cup {NoDb}
         /\ state \in DB \cup {NoDb} /\ target \in DB \cup {NoDb})'
    BY <1>1 DEF WayBackIntact, DB
  <2>3. (drift \in BOOLEAN)'
    <3>1. CASE Postcondition
      BY <3>1
    <3>2. CASE ~Postcondition
      BY <1>1, <3>2
    <3> QED
      BY <3>1, <3>2
  <2>4. (syncing \in BOOLEAN)'
    BY <1>1
  <2> QED
    BY <2>1, <2>2, <2>3, <2>4
<1>2. CASE RollbackStep
  <2> USE DEF RollbackStep, RollbackStart, InspectBlue, UpBlue, BlueHealthy, EnableBlue,
       BlueIsUp, DrainGreen, GreenDrained, StopGreen, MaintGreen, RollbackThrows, RGoto
  <2>1. (rpc \in RollbackPC)'
    BY <1>2 DEF RollbackPC, RollingBack
  <2>2. (target \in DB \cup {NoDb})' /\ UNCHANGED <<upgradeVars, syncVars, state>>
    BY <1>2 DEF DB
  <2> QED
    BY <2>1, <2>2
<1>3. CASE SyncStep
  BY <1>3 DEF SyncStep, SyncCopy, SyncCopied, SyncExit
<1>4. CASE NewProcess
  BY <1>4 DEF NewProcess, UpgradePC, RollbackPC
<1>5. CASE EnvironmentStep
  BY <1>5 DEF EnvironmentStep
<1> QED
  BY <1>1, <1>2, <1>3, <1>4, <1>5 DEF Next

LEMMA CounterTypes == WayBackInv /\ Next => CounterTypeOK'
<1> SUFFICES ASSUME WayBackInv, Next PROVE CounterTypeOK'
  OBVIOUS
<1> USE ChangesBounded, BoundsAreNat
    DEF WayBackInv, WayBackIntact, TypeOK, CounterTypeOK, Fault, NoFault,
        upgradeVars, syncVars, rollbackVars
<1>1. CASE UpgradeStep
  <2>1. CASE Preflight
    BY <2>1 DEF Preflight, Goto, StackTypeOK, PgTypeOK, DB
  <2>2. CASE ~Preflight
    BY <1>1, <2>2 DEF UpgradeStep, UpgradeStart, CreateClone, RestoreClone, UpGreen,
       GreenHealthy, GateVersion, GateMetadata, GateVerify, GateAddress, GateFails,
       GatePasses, AbortStop, AbortDrop, EnableGreen, GreenIsUp, DrainBlue, BlueDrained,
       StopBlue, StopBlueThrows, AwaitSync, FinalCopy, Postcondition, UpgradeThrows, Goto
  <2> QED
    BY <2>1, <2>2
<1>2. CASE RollbackStep
  BY <1>2 DEF RollbackStep, RollbackStart, InspectBlue, UpBlue, BlueHealthy, EnableBlue,
     BlueIsUp, DrainGreen, GreenDrained, StopGreen, MaintGreen, RollbackThrows, RGoto
<1>3. CASE SyncStep \/ NewProcess \/ EnvironmentStep
  BY <1>3 DEF SyncStep, SyncCopy, SyncCopied, SyncExit, NewProcess, EnvironmentStep
<1> QED
  BY <1>1, <1>2, <1>3 DEF Next

-----------------------------------------------------------------------------
(* The way back.                                                           *)

LEMMA WayBackStep == WayBackInv /\ [Next]_vars => WayBackInv'
<1> SUFFICES ASSUME WayBackInv, [Next]_vars PROVE WayBackInv'
  OBVIOUS
<1> USE DEF WayBackInv
<1>1. CASE UNCHANGED vars
  BY <1>1 DEF vars, stackVars, upgradeVars, syncVars, rollbackVars, TypeOK, StackTypeOK,
     ProxyTypeOK, EngineTypeOK, PgTypeOK, LocalTypeOK, CounterTypeOK, WayBackIntact,
     LocalsIntact
<1>2. CASE Next
  <2>1. TypeOK'
    BY <1>2, ProxyTypes, EngineTypes, PgTypes, LocalTypes, CounterTypes
    DEF TypeOK, StackTypeOK
  (* No step but a boot of green migrates, and green is never on Original. *)
  <2>2. (Original \in dbs \ migrated)'
    <3> USE DEF WayBackIntact, LocalsIntact, TypeOK, StackTypeOK
    <3>1. CASE UNCHANGED pgVars
      BY <3>1 DEF pgVars
    <3>2. CASE \E c \in Clones : CreateDatabase(c)
      BY <3>2 DEF CreateDatabase
    <3>3. CASE upc = "restore" /\ RestoreDump(source, clone)
      BY <3>3 DEF RestoreDump
    <3>4. CASE upc = "abortDrop" /\ DropDatabase(clone)
      BY <3>4, DistinctDatabases DEF DropDatabase, LocalTypeOK, DB
    <3>5. CASE \E s \in Server : BootDone(s)
      BY <3>5, DistinctDatabases DEF BootDone, Server, Blue, Green, DB
    <3>6. CASE \E s \in Server : ChangeMetadata(s)
      BY <3>6 DEF ChangeMetadata
    <3> QED
      BY <1>2, <3>1, <3>2, <3>3, <3>4, <3>5, <3>6, PgFootprint
  <2>3. (db[Blue] = Original /\ db[Green] \in Clones \cup {NoDb})'
    <3> USE DEF WayBackIntact, LocalsIntact, TypeOK, StackTypeOK, EngineTypeOK,
                LocalTypeOK, Server, Blue, Green
    <3>1. CASE UNCHANGED engineVars
      BY <3>1 DEF engineVars
    <3>2. CASE upc = "upGreen" /\ ComposeUp(Green, clone)
      BY <3>2 DEF ComposeUp
    <3>3. CASE rpc = "upBlue" /\ ComposeUp(Blue, target)
      BY <3>3 DEF ComposeUp
    <3>4. CASE \E s \in Server : ComposeStop(s)
      BY <3>4 DEF ComposeStop
    <3>5. CASE \E s \in Server : BootDone(s)
      BY <3>5 DEF BootDone
    <3>6. CASE ComposeRemove(Green)
      BY <3>6 DEF ComposeRemove
    <3> QED
      BY <1>2, <3>1, <3>2, <3>3, <3>4, <3>5, <3>6, EngineFootprint
  <2>4. /\ (upc = "restore" => source = Original /\ clone \in Clones)'
        /\ (state \in {Original, NoDb} /\ target \in {Original, NoDb})'
        /\ (rpc \in {"inspect", "upBlue"} => target = Original)'
    <3> USE DEF WayBackIntact, LocalsIntact, upgradeVars, syncVars, rollbackVars
    <3>1. CASE UpgradeStep
      BY <3>1 DEF UpgradeStep, UpgradeStart, Preflight, CreateClone, RestoreClone, UpGreen,
         GreenHealthy, GateVersion, GateMetadata, GateVerify, GateAddress, GateFails,
         GatePasses, AbortStop, AbortDrop, EnableGreen, GreenIsUp, DrainBlue, BlueDrained,
         StopBlue, StopBlueThrows, AwaitSync, FinalCopy, Postcondition, UpgradeThrows, Goto
    <3>2. CASE RollbackStep
      BY <3>2, DistinctDatabases
         DEF RollbackStep, RollbackStart, InspectBlue, UpBlue, BlueHealthy, EnableBlue,
         BlueIsUp, DrainGreen, GreenDrained, StopGreen, MaintGreen, RollbackThrows, RGoto
    <3>3. CASE SyncStep \/ NewProcess \/ EnvironmentStep
      BY <3>3 DEF SyncStep, SyncCopy, SyncCopied, SyncExit, NewProcess, EnvironmentStep
    <3> QED
      BY <1>2, <3>1, <3>2, <3>3 DEF Next
  <2> QED
    BY <2>1, <2>2, <2>3, <2>4 DEF WayBackIntact, LocalsIntact
<1> QED
  BY <1>1, <1>2

LEMMA WayBackInvariant == Spec => []WayBackInv
<1> QED
  BY WayBackInit, WayBackStep, PTL DEF Spec

(* Type correctness.                                                       *)
THEOREM TypeCorrect == Spec => []TypeOK
<1>1. WayBackInv => TypeOK
  BY DEF WayBackInv
<1> QED
  BY <1>1, WayBackInvariant, PTL

(* Whatever fails, overlaps, is interrupted or run again, the database     *)
(* blue was created on exists, is unmigrated, and is blue's: what rollback *)
(* in zeroDowntime.ts:236-251 counts on.                                   *)
THEOREM WayBackStaysIntact == Spec => []WayBackIntact
<1>1. WayBackInv => WayBackIntact
  BY DEF WayBackInv
<1> QED
  BY <1>1, WayBackInvariant, PTL

=============================================================================
