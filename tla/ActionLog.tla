----------------------------- MODULE ActionLog -----------------------------
(***************************************************************************)
(* The log of asynchronous actions (hdb_action_log) across an upgrade.     *)
(*                                                                         *)
(* Every metadata database has one.  An engine writes the row of an action *)
(* when it is created and again when its handler responds; a client polls  *)
(* the engine that HAProxy routes it to, which reads the log of its own    *)
(* database only.  The upgrader copies rows from blue's log into the       *)
(* clone's, in its loop and once more after blue has stopped.              *)
(*                                                                         *)
(* This module composes ZeroDowntime with the logs: a step of the upgrade  *)
(* that touches them is conjoined with what it does to them, and           *)
(* copyActionLog, one step of ZeroDowntime, is taken apart into its        *)
(* queries.                                                                *)
(***************************************************************************)
EXTENDS ZeroDowntime

CONSTANTS
  Action,        \* the asynchronous actions clients create
  MaxCopyFaults  \* bound: queries of copyActionLog that fail

ASSUME CopyFaultsBounded == MaxCopyFaults \in Nat

(* A row that is not there, one whose handler has not responded, and one   *)
(* whose response_received_at is set.                                      *)
RowState == {"absent", "created", "done"}
Empty    == [a \in Action |-> "absent"]

(* copyActionLog is called by the loop and by step 8 of the upgrade.       *)
Copier == {"loop", "final"}

VARIABLES
  log,         \* [database -> [action -> state of its row]]
  query,       \* the query each call of copyActionLog is at
  seen,        \* its local targetState
  pending,     \* its local pending: the rows still to be upserted
  recorded,    \* is an error in syncErrors, or actionlog.copy.failed marked?
  copyFaults   \* queries that have failed so far

copyVars == <<query, seen, pending, recorded, copyFaults>>
logVars  == <<log, copyVars>>
allVars  == <<vars, logVars>>

LogTypeOK ==
  /\ log        \in [DB -> [Action -> RowState]]
  /\ query      \in [Copier -> {"none", "target", "source", "upsert"}]
  /\ seen       \in [Copier -> [Action -> RowState]]
  /\ pending    \in [Copier -> [Action -> RowState]]
  /\ recorded   \in BOOLEAN
  /\ copyFaults \in 0..MaxCopyFaults

LogInit ==
  /\ Init
  /\ log      = [d \in DB |-> Empty]
  /\ query    = [p \in Copier |-> "none"]
  /\ seen     = [p \in Copier |-> Empty]
  /\ pending  = [p \in Copier |-> Empty]
  /\ recorded = FALSE /\ copyFaults = 0

CopyFault == copyFaults < MaxCopyFaults /\ copyFaults' = copyFaults + 1

-----------------------------------------------------------------------------
(* Engines and clients.                                                    *)

(* A client creates an action through an engine in service.  Its id is a   *)
(* fresh uuid.                                                             *)
Create(s, a) ==
  /\ Serving(s)
  /\ \A d \in DB : log[d][a] = "absent"
  /\ log' = [log EXCEPT ![db[s]][a] = "created"]
  /\ UNCHANGED <<vars, copyVars>>

(* The handler responds to an engine, which is running and may be drained. *)
Respond(s, a) ==
  /\ engine[s] = "healthy"
  /\ log[db[s]][a] = "created"
  /\ log' = [log EXCEPT ![db[s]][a] = "done"]
  /\ UNCHANGED <<vars, copyVars>>

(* A poll routed to s gets the action's output.                            *)
PollAnswered(s, a) == Serving(s) /\ log[db[s]][a] = "done"

-----------------------------------------------------------------------------
(* copyActionLog.                                                          *)

Begin(p) ==
  /\ query' = [query EXCEPT ![p] = "target"]
  /\ UNCHANGED <<log, seen, pending, recorded, copyFaults>>

Finish(p) ==
  /\ query'   = [query EXCEPT ![p] = "none"]
  /\ seen'    = [seen EXCEPT ![p] = Empty]
  /\ pending' = [pending EXCEPT ![p] = Empty]

(* What the target already has, and whether its copy is finished.          *)
ReadTarget(p) ==
  /\ query[p] = "target"
  /\ clone \in dbs
  /\ query' = [query EXCEPT ![p] = "source"]
  /\ seen'  = [seen EXCEPT ![p] = log[clone]]
  /\ UNCHANGED <<vars, log, pending, recorded, copyFaults>>

Stale_OnlyMissingBug(p, a) ==
  seen[p][a] = "absent" /\ log[source][a] # "absent"

Stale_OnlyFinishedBug(p, a) ==
  seen[p][a] # "done" /\ log[source][a] = "done"

(* The target has never seen the row, or its copy is stale.                *)
Stale(p, a) ==
  \/ seen[p][a] = "absent"  /\ log[source][a] # "absent"
  \/ seen[p][a] = "created" /\ log[source][a] = "done"

ReadSource(p) ==
  /\ query[p] = "source"
  /\ query'   = [query EXCEPT ![p] = "upsert"]
  /\ pending' = [pending EXCEPT ![p] =
                   [a \in Action |-> IF Stale(p, a) THEN log[source][a] ELSE "absent"]]
  /\ UNCHANGED <<vars, log, seen, recorded, copyFaults>>

(* INSERT .. ON CONFLICT DO UPDATE of one row, whose failure is swallowed. *)
Upsert(p, a) ==
  /\ query[p] = "upsert" /\ pending[p][a] # "absent"
  /\ pending' = [pending EXCEPT ![p][a] = "absent"]
  /\ \/ /\ clone \in dbs
        /\ log' = [log EXCEPT ![clone][a] = pending[p][a]]
        /\ UNCHANGED copyFaults
     \/ UNCHANGED <<log, copyFaults>> /\ clone \notin dbs
     \/ UNCHANGED log /\ CopyFault
  /\ UNCHANGED <<vars, query, seen, recorded>>

CopyReturns(p) ==
  /\ query[p] = "upsert" /\ pending[p] = Empty
  /\ Finish(p)
  /\ UNCHANGED <<log, recorded, copyFaults>>

(* A query other than an upsert fails.  The loop catches it and goes on    *)
(* with its next tick, the upgrade catches it and goes on; both record it. *)
CopyThrows(p) ==
  /\ \/ query[p] = "target" /\ clone \notin dbs /\ UNCHANGED copyFaults
     \/ query[p] \in {"target", "source"} /\ CopyFault
  /\ Finish(p)
  /\ recorded' = TRUE
  /\ UNCHANGED log

-----------------------------------------------------------------------------
(* The upgrade, with what its steps do to the logs.                        *)

(* pg_dump takes a snapshot of the log with everything else.               *)
RestoreLog ==
  /\ RestoreClone
  /\ log' = [log EXCEPT ![clone] = log[source]]
  /\ UNCHANGED copyVars

LoopStarts  == SyncCopy /\ Begin("loop")
LoopReturns == SyncCopied /\ (CopyReturns("loop") \/ CopyThrows("loop"))
LoopExits   == SyncExit /\ UNCHANGED logVars

FinalStarts_NothingReadBug ==
  /\ AwaitSync
  /\ query' = [query EXCEPT !["final"] = "upsert"]
  /\ UNCHANGED <<log, seen, pending, recorded, copyFaults>>

FinalStarts  == AwaitSync /\ Begin("final")
FinalReturns == FinalCopy /\ (CopyReturns("final") \/ CopyThrows("final"))

CopyStep(p) == ReadTarget(p) \/ ReadSource(p) \/ \E a \in Action : Upsert(p, a)

OtherUpgradeStep ==
  /\ \/ upc \notin {"restore", "awaitSync", "finalCopy"} /\ UpgradeStep
     \/ upc = "restore" /\ UpgradeThrows
  /\ UNCHANGED logVars

LoggedUpgrade ==
  \/ RestoreLog \/ FinalStarts \/ CopyStep("final") \/ FinalReturns
  \/ OtherUpgradeStep

LoggedLoop == LoopStarts \/ CopyStep("loop") \/ LoopReturns \/ LoopExits

LoggedRollback == RollbackStep /\ UNCHANGED logVars

LogNext ==
  \/ LoggedUpgrade
  \/ LoggedLoop
  \/ LoggedRollback
  \/ EnvironmentStep /\ UNCHANGED logVars
  \/ \E s \in Server, a \in Action : Create(s, a) \/ Respond(s, a)

(* That of ZeroDowntime: queries are awaited like any other command.       *)
LogSpec ==
  /\ LogInit /\ [][LogNext]_allVars
  /\ WF_allVars(upc # "idle" /\ LoggedUpgrade)
  /\ WF_allVars(LoggedLoop)
  /\ WF_allVars(rpc # "idle" /\ LoggedRollback)

=============================================================================
