-------------------------- MODULE ActionLogProofs --------------------------
(***************************************************************************)
(* Theorems about the action log across an upgrade, for every number of    *)
(* actions, commands that fail and queries that fail.                      *)
(***************************************************************************)
EXTENDS OneRunProofs, ActionLogProperties

(* Awaits of the upgrade up to the dump, and from it to the end.           *)
BeforeRestore == {"idle", "preflight", "createClone", "restore"}
Cloned        == (Proving \cup Switching \cup Aborting \cup {"ended"}) \ {"preflight", "createClone"}

(* A behaviour of LogSpec has one upgrade, so its locals stay what they    *)
(* are from the creation of the clone, with the loop or the last copy at   *)
(* work on them but never both.                                            *)
UpgradeInv ==
  /\ upc \in BeforeRestore => spc = "off" /\ ~syncing /\ engine[Green] = "stopped"
  /\ syncing \/ spc # "off" \/ upc \in Cloned => source = Original /\ clone \in Clones
  /\ upc \in {"awaitSync", "finalCopy"} => ~syncing
  /\ upc = "finalCopy" => spc = "off"

(* A copy that takes a row for new, or is about to, is right: the clone    *)
(* has not got it.  An action is created on one engine, so the row it has  *)
(* not got yet is nobody else's to write.                                  *)
CopyInv ==
  /\ upc \in BeforeRestore => \A c \in Clones, a \in Action : log[c][a] = "absent"
  /\ query["loop"]  # "none" => spc = "copy"
  /\ query["final"] # "none" => upc = "finalCopy"
  /\ \A p \in Copier, a \in Action :
       /\ query[p] = "source" /\ seen[p][a] = "absent" /\ log[Original][a] # "absent" =>
            log[clone][a] = "absent"
       /\ query[p] = "upsert" /\ pending[p][a] = "created" =>
            log[Original][a] # "absent" /\ log[clone][a] = "absent"

LogInv == WayBackInv /\ LogTypeOK /\ UpgradeInv /\ CopyInv

-----------------------------------------------------------------------------
(* A step of the composition is one of the upgrader, or leaves it alone.   *)

UpgradeOrOther ==
  UpgradeStep \/ SyncStep \/ RollbackStep \/ EnvironmentStep \/ UNCHANGED vars

LEMMA LogIsUpgrade == [LogNext]_allVars => UpgradeOrOther
<1> USE DEF UpgradeOrOther
<1>1. LoggedUpgrade => UpgradeOrOther
  BY DEF LoggedUpgrade, RestoreLog, FinalStarts, FinalReturns, CopyStep, ReadTarget,
     ReadSource, Upsert, OtherUpgradeStep, UpgradeStep
<1>2. LoggedLoop => UpgradeOrOther
  BY DEF LoggedLoop, LoopStarts, LoopReturns, LoopExits, CopyStep, ReadTarget, ReadSource,
     Upsert, SyncStep
<1> QED
  BY <1>1, <1>2 DEF LogNext, LoggedRollback, Create, Respond, allVars

LEMMA UpgradeInvStep == WayBackInv /\ UpgradeInv /\ UpgradeOrOther => UpgradeInv'
<1> SUFFICES ASSUME WayBackInv, UpgradeInv, UpgradeOrOther PROVE UpgradeInv'
  OBVIOUS
<1> USE DEF UpgradeInv, BeforeRestore, Cloned, Proving, Switching, Aborting
<1>1. CASE UpgradeStep
  <2> USE DEF WayBackInv, WayBackIntact, LocalsIntact, Goto, syncVars, stackVars, engineVars
  <2>1. CASE CreateClone
    BY <2>1 DEF CreateClone
  <2>2. CASE RestoreClone
    BY <2>2 DEF RestoreClone
  <2>3. CASE ~CreateClone /\ ~RestoreClone
    BY <1>1, <2>3 DEF UpgradeStep, UpgradeStart, Preflight, UpGreen,
     GreenHealthy, GateVersion, GateMetadata, GateVerify, GateAddress, GateFails,
     GatePasses, AbortStop, AbortDrop, EnableGreen, GreenIsUp, DrainBlue, BlueDrained,
     StopBlue, StopBlueThrows, AwaitSync, FinalCopy, Postcondition, UpgradeThrows, Settled
  <2> QED
    BY <2>1, <2>2, <2>3
<1>2. CASE RollbackStep
  <2>1. UNCHANGED <<upgradeVars, syncVars>>
    BY <1>2 DEF RollbackStep, RollbackStart, InspectBlue, UpBlue, BlueHealthy, EnableBlue,
       BlueIsUp, DrainGreen, GreenDrained, StopGreen, MaintGreen, RollbackThrows, RGoto
  <2>2. engine[Green] = "stopped" => engine'[Green] = "stopped"
    BY <1>2 DEF RollbackStep, RollbackStart, InspectBlue, UpBlue, BlueHealthy, EnableBlue,
       BlueIsUp, DrainGreen, GreenDrained, StopGreen, MaintGreen, RollbackThrows,
       ComposeUp, ComposeStop, stackVars, engineVars, WayBackInv, TypeOK, StackTypeOK,
       EngineTypeOK, Server, Blue, Green
  <2> QED
    BY <2>1, <2>2 DEF upgradeVars, syncVars
<1>3. CASE SyncStep \/ UNCHANGED vars
  BY <1>3 DEF SyncStep, SyncCopy, SyncCopied, SyncExit, vars, stackVars, upgradeVars, syncVars
<1>4. CASE EnvironmentStep
  <2>1. UNCHANGED <<upgradeVars, syncVars>>
    BY <1>4 DEF EnvironmentStep
  <2>2. engine[Green] = "stopped" => engine'[Green] = "stopped"
    BY <1>4 DEF EnvironmentStep, StackStep, BootDone, HealthCheck, ChangeMetadata, engineVars,
       WayBackInv, TypeOK, StackTypeOK, EngineTypeOK, Server, Blue, Green
  <2> QED
    BY <2>1, <2>2 DEF upgradeVars, syncVars
<1> QED
  BY <1>1, <1>2, <1>3, <1>4 DEF UpgradeOrOther

-----------------------------------------------------------------------------
(* What a step does to the rows, cell by cell.                             *)

(* An engine writes the row of an action into the log of its database.     *)
Written(s, a, v) ==
  /\ engine[s] = "healthy"
  /\ \/ v = "created" /\ \A d \in DB : log[d][a] = "absent"
     \/ v = "done" /\ log[db[s]][a] = "created"
  /\ log' = [log EXCEPT ![db[s]][a] = v]
  /\ UNCHANGED <<vars, copyVars>>

LEMMA EnginesWrite ==
  ASSUME LogInv, NEW s \in Server, NEW a \in Action, Create(s, a) \/ Respond(s, a)
  PROVE  \E v \in {"created", "done"} :
           /\ Written(s, a, v)
           /\ log' \in [DB -> [Action -> RowState]]
           /\ \A d \in DB, b \in Action :
                log'[d][b] = IF d = db[s] /\ b = a THEN v ELSE log[d][b]
<1>1. PICK v \in {"created", "done"} : Written(s, a, v)
  BY DEF Create, Respond, Written, Serving
<1>2. v \in RowState
  BY DEF RowState
<1> QED
  <2>1. log \in [DB -> [Action -> RowState]] /\ log' = [log EXCEPT ![db[s]][a] = v]
    BY <1>1 DEF Written, LogInv, LogTypeOK
  <2>2. CASE db[s] \in DB
    BY <1>1, <1>2, <2>1, <2>2
  <2>3. CASE db[s] \notin DB
    BY <1>1, <2>1, <2>3
  <2> QED
    BY <2>2, <2>3

LEMMA UpsertWrites ==
  ASSUME LogInv, NEW p \in Copier, NEW a \in Action, Upsert(p, a)
  PROVE  /\ pending' \in [Copier -> [Action -> RowState]]
         /\ \A q \in Copier, b \in Action :
              pending'[q][b] = IF q = p /\ b = a THEN "absent" ELSE pending[q][b]
         /\ log' \in [DB -> [Action -> RowState]]
         /\ \/ log' = log
            \/ \A d \in DB, b \in Action :
                 log'[d][b] = IF d = clone /\ b = a THEN pending[p][a] ELSE log[d][b]
<1> USE DEF LogInv, LogTypeOK, Upsert
<1>1. "absent" \in RowState /\ pending[p][a] \in RowState
  BY DEF RowState
<1>2. pending' = [pending EXCEPT ![p][a] = "absent"]
  OBVIOUS
<1>3. /\ pending' \in [Copier -> [Action -> RowState]]
      /\ \A q \in Copier, b \in Action :
           pending'[q][b] = IF q = p /\ b = a THEN "absent" ELSE pending[q][b]
  BY <1>1, <1>2
<1>4. CASE log' = [log EXCEPT ![clone][a] = pending[p][a]]
  <2>1. CASE clone \in DB
    BY <1>1, <1>3, <1>4, <2>1
  <2>2. CASE clone \notin DB
    BY <1>3, <1>4, <2>2
  <2> QED
    BY <2>1, <2>2
<1>5. CASE log' = log
  BY <1>3, <1>5
<1> QED
  BY <1>4, <1>5

(* A step that is neither is the dump, or writes no row.                   *)
Rewrites ==
  \/ RestoreLog
  \/ \E p \in Copier, a \in Action : Upsert(p, a)
  \/ \E s \in Server, a \in Action : Create(s, a) \/ Respond(s, a)

(* A copy goes on to its next query; a copy begins or ends; or nothing.    *)
Reads ==
  /\ UNCHANGED log
  /\ \/ \E p \in Copier : ReadTarget(p) \/ ReadSource(p)
     \/ LoopStarts \/ FinalStarts
     \/ LoopReturns \/ FinalReturns
     \/ UNCHANGED copyVars /\ (OtherUpgradeStep \/ LoopExits \/ LoggedRollback
                                 \/ EnvironmentStep \/ UNCHANGED vars)

LEMMA LogSteps == [LogNext]_allVars => Rewrites \/ Reads
<1> USE DEF Rewrites, Reads, Copier, logVars
<1>1. LoggedUpgrade => Rewrites \/ Reads
  BY DEF LoggedUpgrade, FinalStarts, FinalReturns, CopyReturns, CopyThrows, Begin, CopyStep,
     ReadTarget, ReadSource, OtherUpgradeStep
<1>2. LoggedLoop => Rewrites \/ Reads
  BY DEF LoggedLoop, LoopStarts, LoopReturns, LoopExits, CopyReturns, CopyThrows, Begin,
     CopyStep, ReadTarget, ReadSource
<1> QED
  BY <1>1, <1>2 DEF LogNext, LoggedRollback, allVars

(* Whenever rows are being copied, they are from blue's log to the clone's.*)
LEMMA CopyDirection ==
  ASSUME LogInv, NEW p \in Copier, query[p] # "none"
  PROVE  source = Original /\ clone \in Clones
<1> QED
  BY DEF LogInv, UpgradeInv, CopyInv, Copier, Cloned, Switching, Proving, Aborting

-----------------------------------------------------------------------------
(* Types.                                                                  *)
LEMMA LogTypes ==
  ASSUME LogInv, [LogNext]_allVars PROVE LogTypeOK'
<1>0. LogTypeOK /\ WayBackInv
  BY DEF LogInv
<1> USE <1>0, CopyFaultsBounded DEF LogTypeOK
<1>1. CASE RestoreLog
  <2>1. source \in DB /\ clone \in DB
    BY <1>1 DEF RestoreLog, RestoreClone, Goto, WayBackInv, LocalsIntact, DB
  <2> QED
    BY <1>1, <2>1 DEF RestoreLog, copyVars
<1>2. CASE \E p \in Copier, a \in Action : Upsert(p, a)
  <2>1. PICK p \in Copier, a \in Action : Upsert(p, a)
    BY <1>2
  <2>2. copyFaults' \in 0..MaxCopyFaults
    BY <2>1 DEF Upsert, CopyFault
  <2>3. UNCHANGED <<query, seen, recorded>>
    BY <2>1 DEF Upsert
  <2> QED
    BY <2>1, <2>2, <2>3, UpsertWrites
<1>3. CASE \E s \in Server, a \in Action : Create(s, a) \/ Respond(s, a)
  BY <1>3, EnginesWrite DEF Written, copyVars
<1>4. CASE Reads
  <2>1. log' \in [DB -> [Action -> RowState]]
    BY <1>4 DEF Reads
  <2>2. (query \in [Copier -> {"none", "target", "source", "upsert"}])'
    BY <1>4 DEF Reads, ReadTarget, ReadSource, LoopStarts, FinalStarts, LoopReturns,
       FinalReturns, CopyReturns, CopyThrows, Begin, Finish, copyVars, Copier
  <2>3. (seen \in [Copier -> [Action -> RowState]])'
    <3>1. CASE \E p \in Copier : ReadTarget(p)
      <4>1. clone \in DB
        BY <3>1 DEF ReadTarget, WayBackInv, TypeOK, StackTypeOK, PgTypeOK
      <4> QED
        BY <3>1, <4>1 DEF ReadTarget
    <3>2. CASE LoopReturns \/ FinalReturns
      BY <3>2 DEF LoopReturns, FinalReturns, CopyReturns, CopyThrows, Finish, Empty, RowState
    <3> QED
      BY <1>4, <3>1, <3>2 DEF Reads, ReadSource, LoopStarts, FinalStarts, Begin, copyVars
  <2>4. (pending \in [Copier -> [Action -> RowState]])'
    <3>1. CASE \E p \in Copier : ReadSource(p)
      <4>1. PICK p \in Copier : ReadSource(p)
        BY <3>1
      <4> DEFINE rows == [a \in Action |-> IF Stale(p, a) THEN log[source][a] ELSE "absent"]
      <4>2. \A a \in Action : Stale(p, a) => log[source][a] \in RowState
        <5>1. source \in DB
          BY <4>1, CopyDirection DEF ReadSource, DB
        <5> QED
          BY <5>1
      <4>3. rows \in [Action -> RowState]
        BY <4>2 DEF RowState
      <4>4. pending' = [pending EXCEPT ![p] = rows]
        BY <4>1 DEF ReadSource
      <4> HIDE DEF rows
      <4> QED
        BY <4>3, <4>4
    <3>2. CASE LoopReturns \/ FinalReturns
      <4>1. PICK p \in Copier : Finish(p)
        BY <3>2 DEF LoopReturns, FinalReturns, CopyReturns, CopyThrows, Copier
      <4>2. Empty \in [Action -> RowState]
        BY DEF Empty, RowState
      <4> QED
        BY <4>1, <4>2 DEF Finish
    <3> QED
      BY <1>4, <3>1, <3>2 DEF Reads, ReadTarget, LoopStarts, FinalStarts, Begin, copyVars
  <2>5. recorded' \in BOOLEAN
    BY <1>4 DEF Reads, ReadTarget, ReadSource, LoopStarts, FinalStarts, LoopReturns,
       FinalReturns, CopyReturns, CopyThrows, Begin, Finish, copyVars
  <2>6. copyFaults' = copyFaults \/ CopyFault
    BY <1>4 DEF Reads, ReadTarget, ReadSource, LoopStarts, FinalStarts, LoopReturns,
       FinalReturns, CopyReturns, CopyThrows, Begin, Finish, copyVars
  <2>7. copyFaults' \in 0..MaxCopyFaults
    BY <2>6 DEF CopyFault
  <2> QED
    BY <2>1, <2>2, <2>3, <2>4, <2>5, <2>7
<1> QED
  BY <1>1, <1>2, <1>3, <1>4, LogSteps DEF Rewrites

-----------------------------------------------------------------------------
(* A copy and the engines between two of its queries.                      *)
LEMMA CopyInvStep ==
  ASSUME LogInv, [LogNext]_allVars PROVE CopyInv'
<1>0. LogTypeOK /\ WayBackInv /\ UpgradeInv /\ CopyInv /\ Original \in DB
  BY DEF LogInv, DB
<1>1. ASSUME NEW p \in Copier, query[p] # "none"
      PROVE  clone \in DB /\ clone # Original /\ source = Original
  BY <1>1, CopyDirection, DistinctDatabases DEF DB
<1> USE <1>0 DEF CopyInv
<1>2. CASE RestoreLog
  <2>1. /\ upc = "restore" /\ upc' = "upGreen" /\ spc = "off"
        /\ UNCHANGED copyVars
    BY <1>2 DEF RestoreLog, RestoreClone, Goto, UpgradeInv, BeforeRestore
  <2>2. query["loop"] = "none" /\ query["final"] = "none"
    BY <2>1
  <2> QED
    BY <2>1, <2>2 DEF BeforeRestore, Copier, copyVars
<1>3. CASE \E p \in Copier, a \in Action : Upsert(p, a)
  <2>1. PICK p \in Copier, a \in Action : Upsert(p, a)
    BY <1>3
  <2>2. UNCHANGED <<vars, query, seen>> /\ query[p] = "upsert" /\ pending[p][a] # "absent"
    BY <2>1 DEF Upsert
  <2>3. UNCHANGED <<upc, spc, clone>>
    BY <2>2 DEF vars, upgradeVars, syncVars
  <2>4. upc \notin BeforeRestore
    BY <2>2 DEF UpgradeInv, BeforeRestore, Copier
  <2>5. \A q \in Copier : q # p => query[q] = "none"
    BY <2>2 DEF UpgradeInv, Copier
  <2>6. \A b \in Action : b # a => log'[Original][b] = log[Original][b] /\ log'[clone][b] = log[clone][b]
    BY <1>1, <2>1, <2>2, UpsertWrites
  <2>7. \A b \in Action : pending'[p][b] = "created" => b # a /\ pending[p][b] = "created"
    BY <2>1, UpsertWrites
  <2> QED
    BY <2>2, <2>3, <2>4, <2>5, <2>6, <2>7
<1>4. CASE \E s \in Server, a \in Action : Create(s, a) \/ Respond(s, a)
  <2>1. PICK s \in Server, a \in Action : Create(s, a) \/ Respond(s, a)
    BY <1>4
  <2>2. PICK v \in {"created", "done"} :
          /\ Written(s, a, v)
          /\ \A d \in DB, b \in Action :
               log'[d][b] = IF d = db[s] /\ b = a THEN v ELSE log[d][b]
    BY <2>1, EnginesWrite
  <2>3. UNCHANGED <<vars, copyVars>>
    BY <2>2 DEF Written
  <2>4. UNCHANGED <<upc, spc, clone, query, seen, pending>>
    BY <2>3 DEF vars, upgradeVars, syncVars, copyVars
  <2>5. upc \in BeforeRestore => db[s] \notin Clones
    BY <2>2, DistinctDatabases
    DEF Written, UpgradeInv, WayBackInv, WayBackIntact, Server, Blue, Green, DB
  <2>6. ASSUME NEW p \in Copier, query[p] # "none", log[clone][a] = "absent",
               log[Original][a] # "absent"
        PROVE  log'[clone][a] = "absent"
    BY <1>1, <2>2, <2>6 DEF Written
  <2>7. ASSUME NEW p \in Copier, query[p] # "none", log[Original][a] = "absent",
               log'[Original][a] # "absent"
        PROVE  log'[clone][a] = "absent"
    BY <1>1, <2>2, <2>7 DEF Written
  <2>8. \A d \in DB, b \in Action : log[d][b] # "absent" => log'[d][b] # "absent"
    BY <2>2
  <2>9. \A d \in DB, b \in Action : b # a => log'[d][b] = log[d][b]
    BY <2>2
  <2>10. \A c \in Clones, b \in Action : upc \in BeforeRestore => log'[c][b] = log[c][b]
    BY <2>2, <2>5 DEF DB
  <2> QED
    BY <1>1, <2>4, <2>6, <2>7, <2>8, <2>9, <2>10
<1>5. CASE Reads
  <2> USE <1>5 DEF Reads
  <2>1. CASE \E p \in Copier : ReadTarget(p) \/ ReadSource(p)
    <3>1. PICK p \in Copier : ReadTarget(p) \/ ReadSource(p)
      BY <2>1
    <3>2. UNCHANGED <<vars, log>>
      BY <3>1 DEF ReadTarget, ReadSource
    <3>3. UNCHANGED <<upc, spc, clone, source>>
      BY <3>2 DEF vars, upgradeVars, syncVars
    <3>4. CASE ReadTarget(p)
      BY <3>2, <3>3, <3>4 DEF ReadTarget, Copier, LogTypeOK
    <3>5. CASE ReadSource(p)
      BY <1>1, <3>2, <3>3, <3>5 DEF ReadSource, Stale, Copier, LogTypeOK
    <3> QED
      BY <3>1, <3>4, <3>5
  <2>2. CASE LoopStarts \/ FinalStarts
    <3>1. UNCHANGED <<clone, log, seen, pending>>
      BY <2>2 DEF LoopStarts, FinalStarts, Begin, SyncCopy, AwaitSync, upgradeVars
    <3>2. (upc \in BeforeRestore)' => upc \in BeforeRestore
      BY <2>2 DEF LoopStarts, FinalStarts, SyncCopy, AwaitSync, Goto, upgradeVars, BeforeRestore
    <3>3. (query["loop"] # "none" => spc = "copy")' /\ (query["final"] # "none" => upc = "finalCopy")'
      BY <2>2 DEF LoopStarts, FinalStarts, Begin, SyncCopy, AwaitSync, Goto, upgradeVars,
         syncVars, LogTypeOK, Copier
    <3>4. \A p \in Copier : query'[p] = query[p] \/ query'[p] = "target"
      BY <2>2 DEF LoopStarts, FinalStarts, Begin, LogTypeOK
    <3> QED
      BY <3>1, <3>2, <3>3, <3>4
  <2>3. CASE LoopReturns \/ FinalReturns
    <3>1. UNCHANGED <<clone, log>>
      BY <2>3 DEF LoopReturns, FinalReturns, SyncCopied, FinalCopy, upgradeVars
    <3>2. (upc \in BeforeRestore)' => upc \in BeforeRestore
      BY <2>3 DEF LoopReturns, FinalReturns, SyncCopied, FinalCopy, Goto, upgradeVars, BeforeRestore
    <3>3. (query["loop"] # "none" => spc = "copy")' /\ (query["final"] # "none" => upc = "finalCopy")'
      <4>1. LoopReturns => query'["loop"] = "none" /\ query'["final"] = query["final"] /\ upc' = upc
        BY DEF LoopReturns, CopyReturns, CopyThrows, Finish, SyncCopied, upgradeVars, LogTypeOK, Copier
      <4>2. FinalReturns => query'["final"] = "none" /\ query'["loop"] = query["loop"] /\ spc' = spc
        BY DEF FinalReturns, CopyReturns, CopyThrows, Finish, FinalCopy, syncVars, LogTypeOK, Copier
      <4> QED
        BY <2>3, <4>1, <4>2
    <3>4. \A q \in Copier, a \in Action :
            \/ query'[q] = "none"
            \/ query'[q] = query[q] /\ seen'[q][a] = seen[q][a] /\ pending'[q][a] = pending[q][a]
      BY <2>3 DEF LoopReturns, FinalReturns, CopyReturns, CopyThrows, Finish, LogTypeOK
    <3> QED
      BY <3>1, <3>2, <3>3, <3>4
  <2>4. CASE UNCHANGED copyVars /\ (OtherUpgradeStep \/ LoopExits \/ LoggedRollback
                                      \/ EnvironmentStep \/ UNCHANGED vars)
    <3>1. UNCHANGED <<query, seen, pending, log>>
      BY <2>4 DEF copyVars
    <3>2. /\ (upc \in BeforeRestore)' => upc \in BeforeRestore
          /\ spc = "copy" => spc' = "copy"
          /\ upc = "finalCopy" => upc' = "finalCopy"
          /\ clone' = clone \/ upc = "createClone"
      <4>1. CASE OtherUpgradeStep
        BY <4>1 DEF OtherUpgradeStep, UpgradeStep, UpgradeStart, Preflight, CreateClone,
           RestoreClone, UpGreen, GreenHealthy, GateVersion, GateMetadata, GateVerify,
           GateAddress, GateFails, GatePasses, AbortStop, AbortDrop, EnableGreen, GreenIsUp,
           DrainBlue, BlueDrained, StopBlue, StopBlueThrows, AwaitSync, FinalCopy,
           Postcondition, UpgradeThrows, Throwing, Goto, syncVars, BeforeRestore, Proving,
           Switching, Settled
      <4>2. CASE LoggedRollback
        BY <4>2 DEF LoggedRollback, RollbackStep, RollbackStart, InspectBlue, UpBlue,
           BlueHealthy, EnableBlue, BlueIsUp, DrainGreen, GreenDrained, StopGreen, MaintGreen,
           RollbackThrows, RGoto, upgradeVars, syncVars
      <4>3. CASE LoopExits \/ EnvironmentStep \/ UNCHANGED vars
        BY <4>3 DEF LoopExits, SyncExit, EnvironmentStep, vars, upgradeVars, syncVars
      <4> QED
        BY <2>4, <4>1, <4>2, <4>3
    <3>3. upc = "createClone" => query["loop"] = "none" /\ query["final"] = "none"
      BY DEF UpgradeInv, BeforeRestore
    <3> QED
      BY <3>1, <3>2, <3>3 DEF Copier
  <2> QED
    BY <2>1, <2>2, <2>3, <2>4
<1> QED
  BY <1>2, <1>3, <1>4, <1>5, LogSteps DEF Rewrites

-----------------------------------------------------------------------------
LEMMA LogInvInit == LogInit => LogInv
<1> SUFFICES ASSUME LogInit PROVE LogInv
  OBVIOUS
<1>1. Init /\ WayBackInv
  BY WayBackInit DEF LogInit
<1>2. LogTypeOK
  <2>1. Empty \in [Action -> RowState] /\ 0 \in 0..MaxCopyFaults
    BY CopyFaultsBounded DEF Empty, RowState
  <2>2. (recorded \in BOOLEAN) /\ query \in [Copier -> {"none", "target", "source", "upsert"}]
    BY DEF LogInit
  <2> QED
    BY <2>1, <2>2 DEF LogInit, LogTypeOK
<1>3. UpgradeInv
  BY <1>1 DEF Init, StackInit, UpgradeInv, Cloned, Proving, Switching, Aborting, Server, Blue, Green
<1>4. CopyInv
  BY DEF LogInit, CopyInv, Empty, DB, Copier
<1> QED
  BY <1>1, <1>2, <1>3, <1>4 DEF LogInv

LEMMA LogInvStep == LogInv /\ [LogNext]_allVars => LogInv'
<1> SUFFICES ASSUME LogInv, [LogNext]_allVars PROVE LogInv'
  OBVIOUS
<1>1. UpgradeOrOther
  BY LogIsUpgrade
<1>2. [Next]_vars
  BY <1>1 DEF UpgradeOrOther, Next
<1>3. WayBackInv' /\ UpgradeInv'
  BY <1>1, <1>2, WayBackStep, UpgradeInvStep DEF LogInv
<1> QED
  BY <1>3, LogTypes, CopyInvStep DEF LogInv

LEMMA LogInvariant == LogSpec => []LogInv
<1> QED
  BY LogInvInit, LogInvStep, PTL DEF LogSpec

(* Taking copyActionLog apart into its queries changes nothing of what the *)
(* upgrader may do: module ActionLog is a module ZeroDowntime with rows.   *)
THEOREM LogIsAnUpgrade == LogSpec => Init /\ [][Next]_vars
<1>1. LogInit => Init
  BY DEF LogInit
<1>2. [LogNext]_allVars => [Next]_vars
  BY LogIsUpgrade DEF UpgradeOrOther, Next
<1> QED
  BY <1>1, <1>2, PTL DEF LogSpec

(* Types.                                                                  *)
THEOREM ActionLogTypeCorrect == LogSpec => []ActionLogTypeOK
<1>1. LogInv => ActionLogTypeOK
  BY DEF LogInv, WayBackInv, ActionLogTypeOK
<1> QED
  BY <1>1, LogInvariant, PTL

-----------------------------------------------------------------------------
(* What is in a log stays, whatever overlaps.                              *)

Stays(d, a) ==
  /\ log[d][a] = "done" => log'[d][a] = "done"
  /\ log[d][a] # "absent" => log'[d][a] # "absent"

LEMMA RowsStay ==
  ASSUME LogInv, [LogNext]_allVars, NEW d \in DB, NEW a \in Action
  PROVE  Stays(d, a)
<1>0. LogTypeOK /\ CopyInv
  BY DEF LogInv
<1> USE DEF Stays
<1>1. CASE RestoreLog
  <2>1. log[clone][a] = "absent" /\ clone \in DB
    BY <1>0, <1>1 DEF LogInv, RestoreLog, RestoreClone, Goto, CopyInv, BeforeRestore,
       WayBackInv, LocalsIntact, DB
  <2> QED
    BY <1>0, <1>1, <2>1 DEF RestoreLog, LogTypeOK
<1>2. CASE \E p \in Copier, b \in Action : Upsert(p, b)
  <2>1. PICK p \in Copier, b \in Action : Upsert(p, b)
    BY <1>2
  <2>2. query[p] = "upsert" /\ pending[p][b] # "absent" /\ pending[p][b] \in RowState
    BY <1>0, <2>1 DEF Upsert, LogTypeOK
  <2>3. pending[p][b] = "created" => log[clone][b] = "absent"
    BY <1>0, <2>2 DEF CopyInv
  <2> QED
    BY <2>1, <2>2, <2>3, UpsertWrites DEF RowState
<1>3. CASE \E s \in Server, b \in Action : Create(s, b) \/ Respond(s, b)
  <2>1. PICK s \in Server, b \in Action : Create(s, b) \/ Respond(s, b)
    BY <1>3
  <2>2. PICK v \in {"created", "done"} :
          /\ Written(s, b, v)
          /\ \A e \in DB, c \in Action :
               log'[e][c] = IF e = db[s] /\ c = b THEN v ELSE log[e][c]
    BY <2>1, EnginesWrite
  <2> QED
    BY <2>2 DEF Written
<1>4. CASE Reads
  BY <1>4 DEF Reads
<1> QED
  BY <1>1, <1>2, <1>3, <1>4, LogSteps DEF Rewrites

(* A result that has reached a log is never undone by the copy of a row    *)
(* that was pending when it was read: stack/index.ts:183-186.              *)
THEOREM ResultsStay == LogSpec => ResultsAreNeverUndone
<1>1. LogInv /\ [LogNext]_allVars =>
        [\A d \in dbs, a \in Action : log[d][a] = "done" => log'[d][a] = "done"]_allVars
  BY RowsStay DEF LogInv, WayBackInv, TypeOK, StackTypeOK, PgTypeOK, Stays
<1> QED
  BY <1>1, LogInvariant, PTL DEF LogSpec, ResultsAreNeverUndone

-----------------------------------------------------------------------------
(* One run: the last copy carries over whatever blue has written.          *)

(* After blue has stopped its log is final; the last copy knows of every   *)
(* row of it that the clone has not got.                                   *)
Carried(a) ==
  /\ log[Original][a] = "done"   => log[clone][a] = "done"
  /\ log[Original][a] # "absent" => log[clone][a] # "absent"

CarryInv ==
  copyFaults = 0 /\ rpc = "idle" =>
    \A a \in Action :
      /\ query["final"] = "source" =>
           /\ seen["final"][a] = "done"   => log[clone][a] = "done"
           /\ seen["final"][a] # "absent" => log[clone][a] # "absent"
      /\ query["final"] = "upsert" =>
           pending["final"][a] = log[Original][a] \/ Carried(a)
      /\ upc \in {"postcondition", "ended"} => Carried(a)

LEMMA CarryStep ==
  ASSUME OneRun, OneRunInv, LogInv, LogInv', CarryInv, [LogNext]_allVars
  PROVE  CarryInv'
<1> SUFFICES ASSUME (copyFaults = 0 /\ rpc = "idle")', NEW a \in Action
             PROVE  (/\ query["final"] = "source" =>
                          /\ seen["final"][a] = "done"   => log[clone][a] = "done"
                          /\ seen["final"][a] # "absent" => log[clone][a] # "absent"
                     /\ query["final"] = "upsert" =>
                          pending["final"][a] = log[Original][a] \/ Carried(a)
                     /\ upc \in {"postcondition", "ended"} => Carried(a))'
  BY DEF CarryInv
<1>0. LogTypeOK /\ UpgradeInv /\ CopyInv /\ Original \in DB /\ "final" \in Copier
  BY DEF LogInv, DB, Copier
<1> USE <1>0 DEF Carried
<1>1. copyFaults = 0 /\ rpc = "idle"
  <2>1. copyFaults = 0
    <3>1. copyFaults' = copyFaults \/ CopyFault
      BY LogSteps DEF Rewrites, Reads, RestoreLog, Upsert, Create, Respond, ReadTarget,
         ReadSource, LoopStarts, FinalStarts, LoopReturns, FinalReturns, CopyReturns,
         CopyThrows, Begin, Finish, copyVars
    <3>2. copyFaults \in Nat
      BY CopyFaultsBounded DEF LogTypeOK
    <3> QED
      BY <3>1, <3>2 DEF CopyFault
  <2>2. rpc = "idle"
    <3>1. rpc' = rpc \/ RollbackStep
      BY LogIsUpgrade DEF UpgradeOrOther, SyncStep, SyncCopy, SyncCopied, SyncExit,
         EnvironmentStep, vars, rollbackVars, UpgradeStep, UpgradeStart, Preflight, CreateClone,
         RestoreClone, UpGreen, GreenHealthy, GateVersion, GateMetadata, GateVerify,
         GateAddress, GateFails, GatePasses, AbortStop, AbortDrop, EnableGreen, GreenIsUp,
         DrainBlue, BlueDrained, StopBlue, StopBlueThrows, AwaitSync, FinalCopy,
         Postcondition, UpgradeThrows, Goto
    <3>2. RollbackStep => rpc' # "idle"
      BY DEF RollbackStep, RollbackStart, InspectBlue, UpBlue, BlueHealthy, EnableBlue,
         BlueIsUp, DrainGreen, GreenDrained, StopGreen, MaintGreen, RollbackThrows, RGoto
    <3> QED
      BY <3>1, <3>2
  <2> QED
    BY <2>1, <2>2
<1>2. /\ query["final"] = "source" =>
           /\ seen["final"][a] = "done"   => log[clone][a] = "done"
           /\ seen["final"][a] # "absent" => log[clone][a] # "absent"
      /\ query["final"] = "upsert" => pending["final"][a] = log[Original][a] \/ Carried(a)
      /\ upc \in {"postcondition", "ended"} => Carried(a)
  BY <1>1 DEF CarryInv
(* From here on blue is stopped, so its log does not change, and green is  *)
(* on the clone, which is there.                                           *)
<1>3. ASSUME upc \in {"finalCopy", "postcondition", "ended"}
      PROVE  /\ engine[Blue] = "stopped" /\ db[Green] = clone /\ spc = "off"
             /\ clone \in DB /\ clone \in dbs /\ clone # Original /\ source = Original
             /\ UNCHANGED <<source, clone>>
             /\ ~RestoreLog /\ query["loop"] = "none"
  <2>1. engine[Blue] = "stopped" /\ db[Green] = clone /\ spc = "off" /\ clone \in dbs
    BY <1>1, <1>3 DEF OneRunInv, OutcomeInv, ProxyInv, GreenProved, Stopped, AfterDrain, Serving, StatusUp
  <2>2. clone \in DB /\ clone # Original /\ source = Original
    BY <1>3, DistinctDatabases DEF UpgradeInv, Cloned, Switching, DB
  <2>3. UNCHANGED <<source, clone>>
    BY <1>3, LogIsUpgrade DEF UpgradeOrOther, SyncStep, SyncCopy, SyncCopied, SyncExit,
       EnvironmentStep, vars, upgradeVars, UpgradeStep, UpgradeStart, Preflight, CreateClone,
       RestoreClone, UpGreen, GreenHealthy, GateVersion, GateMetadata, GateVerify,
       GateAddress, GateFails, GatePasses, AbortStop, AbortDrop, EnableGreen, GreenIsUp,
       DrainBlue, BlueDrained, StopBlue, StopBlueThrows, AwaitSync, FinalCopy,
       Postcondition, UpgradeThrows, Goto, RollbackStep, RollbackStart, InspectBlue, UpBlue,
       BlueHealthy, EnableBlue, BlueIsUp, DrainGreen, GreenDrained, StopGreen, MaintGreen,
       RollbackThrows, RGoto
  <2>4. ~RestoreLog /\ query["loop"] = "none"
    BY <1>3, <2>1 DEF RestoreLog, RestoreClone, Goto, CopyInv
  <2> QED
    BY <2>1, <2>2, <2>3, <2>4
<1>4. ASSUME upc \in {"finalCopy", "postcondition", "ended"}
      PROVE  log'[Original][a] = log[Original][a] /\ Stays(clone, a)
  <2>1. Stays(clone, a)
    BY <1>3, <1>4, RowsStay
  <2>2. CASE \E p \in Copier, b \in Action : Upsert(p, b)
    BY <1>3, <1>4, <2>1, <2>2, UpsertWrites
  <2>3. CASE \E s \in Server, b \in Action : Create(s, b) \/ Respond(s, b)
    <3>1. PICK s \in Server, b \in Action : Create(s, b) \/ Respond(s, b)
      BY <2>3
    <3>2. db[s] # Original
      BY <1>3, <1>4, <3>1, EnginesWrite DEF Written, Server
    <3> QED
      BY <2>1, <3>1, <3>2, EnginesWrite
  <2>4. CASE Reads
    BY <2>1, <2>4 DEF Reads
  <2> QED
    BY <1>3, <1>4, <2>2, <2>3, <2>4, LogSteps DEF Rewrites
<1>5. (query["final"] # "none" => upc = "finalCopy")'
  BY DEF LogInv, CopyInv
<1>6. CASE \E p \in Copier, b \in Action : Upsert(p, b)
  <2>1. PICK p \in Copier, b \in Action : Upsert(p, b)
    BY <1>6
  <2>2. UNCHANGED <<vars, query, seen>> /\ query[p] = "upsert"
    BY <2>1 DEF Upsert
  <2>3. UNCHANGED <<upc, clone>>
    BY <2>2 DEF vars, upgradeVars
  <2>4. CASE upc \notin {"finalCopy", "postcondition", "ended"}
    BY <1>5, <2>2, <2>3, <2>4
  <2>5. CASE upc \in {"finalCopy", "postcondition", "ended"}
    <3>1. p = "final"
      BY <1>3, <2>2, <2>5 DEF Copier
    <3>2. log' = [log EXCEPT ![clone][b] = pending["final"][b]]
      BY <1>1, <1>3, <2>1, <2>5, <3>1 DEF Upsert, CopyFault
    <3>3. pending["final"][a] = pending'["final"][a] \/ log'[clone][a] = pending["final"][a]
      <4>1. CASE a = b
        BY <1>3, <2>5, <3>2, <4>1 DEF LogTypeOK
      <4>2. CASE a # b
        BY <2>1, <3>1, <4>2, UpsertWrites
      <4> QED
        BY <4>1, <4>2
    <3> QED
      BY <1>2, <1>3, <1>4, <2>2, <2>3, <2>5, <3>1, <3>3 DEF Stays
  <2> QED
    BY <2>4, <2>5
<1>7. CASE \E p \in Copier : ReadTarget(p) \/ ReadSource(p)
  <2>1. PICK p \in Copier : ReadTarget(p) \/ ReadSource(p)
    BY <1>7
  <2>2. UNCHANGED <<vars, log>>
    BY <2>1 DEF ReadTarget, ReadSource
  <2>3. UNCHANGED <<upc, clone>>
    BY <2>2 DEF vars, upgradeVars
  <2>4. CASE p = "loop"
    BY <1>2, <2>1, <2>2, <2>3, <2>4 DEF ReadTarget, ReadSource, LogTypeOK, Copier
  <2>5. CASE p = "final"
    <3>1. upc = "finalCopy"
      BY <2>1, <2>5 DEF ReadTarget, ReadSource, CopyInv
    <3>2. CASE ReadTarget(p)
      BY <2>2, <2>3, <2>5, <3>1, <3>2 DEF ReadTarget, LogTypeOK
    <3>3. CASE ReadSource(p)
      <4>1. query'["final"] = "upsert" /\ query["final"] = "source"
        BY <2>5, <3>3 DEF ReadSource, LogTypeOK
      <4>2. pending'["final"][a] = IF Stale("final", a) THEN log[Original][a] ELSE "absent"
        BY <1>3, <2>5, <3>1, <3>3 DEF ReadSource, LogTypeOK
      <4>3. ~Stale("final", a) => Carried(a)
        BY <1>2, <1>3, <3>1, <4>1 DEF Stale, LogTypeOK, RowState
      <4> QED
        BY <2>2, <2>3, <3>1, <4>1, <4>2, <4>3
    <3> QED
      BY <2>1, <3>2, <3>3
  <2> QED
    BY <2>4, <2>5 DEF Copier
<1>8. CASE FinalStarts
  BY <1>8 DEF FinalStarts, Begin, AwaitSync, Goto, LogTypeOK
<1>9. CASE FinalReturns
  <2>1. /\ upc = "finalCopy" /\ upc' = "postcondition"
        /\ query'["final"] = "none" /\ log' = log
        /\ CopyReturns("final") \/ CopyThrows("final")
    BY <1>9 DEF FinalReturns, FinalCopy, Goto, CopyReturns, CopyThrows, Finish, LogTypeOK
  <2>2. CopyReturns("final")
    BY <1>1, <1>3, <2>1, CopyFaultsBounded DEF CopyThrows, CopyFault, LogTypeOK
  <2>3. query["final"] = "upsert" /\ pending["final"][a] = "absent"
    BY <2>2 DEF CopyReturns, Empty
  <2> QED
    BY <1>2, <1>3, <2>1, <2>3
<1>10. CASE \/ RestoreLog \/ LoopStarts \/ LoopReturns
            \/ \E s \in Server, b \in Action : Create(s, b) \/ Respond(s, b)
            \/ UNCHANGED copyVars /\ (OtherUpgradeStep \/ LoopExits \/ LoggedRollback
                                        \/ EnvironmentStep \/ UNCHANGED vars)
  <2>1. query'["final"] = query["final"] /\ seen'["final"] = seen["final"]
          /\ pending'["final"] = pending["final"]
    BY <1>10 DEF RestoreLog, LoopStarts, LoopReturns, Begin, CopyReturns, CopyThrows, Finish,
       Create, Respond, copyVars, LogTypeOK, Copier
  <2>2. upc' \in {"postcondition", "ended"} => upc \in {"postcondition", "ended"}
    BY <1>10 DEF RestoreLog, RestoreClone, LoopStarts, LoopReturns, SyncCopy, SyncCopied,
       Create, Respond, OtherUpgradeStep, LoopExits, SyncExit, LoggedRollback, EnvironmentStep,
       vars, upgradeVars, UpgradeStep, UpgradeStart, Preflight, CreateClone,
       UpGreen, GreenHealthy, GateVersion, GateMetadata, GateVerify,
       GateAddress, GateFails, GatePasses, AbortStop, AbortDrop, EnableGreen, GreenIsUp,
       DrainBlue, BlueDrained, StopBlue, StopBlueThrows, AwaitSync, FinalCopy,
       Postcondition, UpgradeThrows, Goto, RollbackStep, RollbackStart, InspectBlue, UpBlue,
       BlueHealthy, EnableBlue, BlueIsUp, DrainGreen, GreenDrained, StopGreen, MaintGreen,
       RollbackThrows, RGoto
  <2>3. query["final"] # "none" => upc = "finalCopy"
    BY DEF CopyInv
  <2> QED
    BY <1>2, <1>3, <1>4, <2>1, <2>2, <2>3 DEF Stays
<1> QED
  BY <1>6, <1>7, <1>8, <1>9, <1>10, LogSteps DEF Rewrites, Reads

LEMMA CarryInvariant == ASSUME OneRun PROVE LogSpec => [](LogInv /\ OneRunInv /\ CarryInv)
<1>1. LogInit => OneRunInv /\ CarryInv
  <2>1. LogInit => Init /\ CarryInv
    BY DEF LogInit, Init, CarryInv, Copier
  <2> QED
    BY <2>1, OneRunInit
<1>2. LogInv /\ OneRunInv /\ CarryInv /\ LogInv' /\ [LogNext]_allVars => OneRunInv' /\ CarryInv'
  BY OneRunStep, CarryStep, LogIsUpgrade DEF UpgradeOrOther, Next
<1> QED
  BY <1>1, <1>2, LogInvariant, PTL DEF LogSpec

(* "This catches anything the sync loop missed", zeroDowntime.ts:192: if no*)
(* query fails, every result blue has written is in the clone's log.       *)
THEOREM LastCopyCatchesAll == ASSUME OneRun PROVE LogSpec => []NoResultLeftBehind
<1>1. LogInv /\ CarryInv => NoResultLeftBehind
  BY DEF LogInv, CarryInv, Carried, NoResultLeftBehind, UpgradeInv, Cloned
<1> QED
  BY <1>1, CarryInvariant, PTL

(* And green knows every action blue has accepted, finished or not.        *)
THEOREM GreenKnowsActions == ASSUME OneRun PROVE LogSpec => []NoActionForgotten
<1>1. LogInv /\ OneRunInv /\ CarryInv => NoActionForgotten
  BY DEF LogInv, CarryInv, Carried, NoActionForgotten, UpgradeInv, Cloned, OneRunInv,
     OutcomeInv, AfterDrain
<1> QED
  BY <1>1, CarryInvariant, PTL

=============================================================================
