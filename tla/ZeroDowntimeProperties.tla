----------------------- MODULE ZeroDowntimeProperties -----------------------
(***************************************************************************)
(* The properties of the zero-downtime upgrader: those it has when an      *)
(* upgrade and a rollback follow one another in one orchestrator process,  *)
(* those it has whatever is restarted or overlaps, and what its comments   *)
(* and documents say of it that its code does not do.                      *)
(***************************************************************************)
EXTENDS ZeroDowntime

(* "Green becomes ready BEFORE blue starts draining, so there is never an  *)
(* instant with no ready backend" (zeroDowntime.ts:170): at every instant  *)
(* of an upgrade and of the rollback after it, wherever either fails, a    *)
(* request finds a server that answers.                                    *)
AlwaysServing == \E s \in Server : Serving(s)

(* Green is enabled only with an engine that has passed every gate, and    *)
(* whose database is a clone that has not been dropped.                    *)
OnlyProvenServes ==
  admin[Green] = "ready" =>
    /\ engine[Green] = "healthy"
    /\ defect[Green] = "none"
    /\ db[Green] \in Clones \cap dbs

(* The way back: nothing migrates or drops the database blue was created   *)
(* on, and blue is never pointed at another.  Rollback needs no more than  *)
(* this ("nothing needs repairing", zeroDowntime.ts:234).                  *)
WayBackIntact ==
  /\ Original \in dbs \ migrated
  /\ db[Blue] = Original

(* "A failed upgrade is a non-event": an aborted upgrade leaves blue       *)
(* serving, green out of rotation, and nothing for rollback to find.       *)
AbortIsNonEvent ==
  upc = "aborted" /\ rpc = "idle" =>
    /\ Serving(Blue)
    /\ admin[Green] = "maint"
    /\ state = NoDb

(* An upgrade or a rollback that ends has left one engine in rotation:     *)
(* green on this upgrade's clone with blue stopped and the action-log loop *)
(* gone, or blue on the original.                                          *)
OutcomeIsExclusive ==
  /\ upc = "ended" /\ rpc = "idle" =>
       /\ Serving(Green) /\ db[Green] = clone
       /\ admin[Blue] # "ready" /\ ~Running(Blue)
       /\ spc = "off"
  /\ rpc = "ended" =>
       /\ Serving(Blue) /\ db[Blue] = Original
       /\ admin[Green] # "ready"

(* No step stops an engine whose server HAProxy still sends requests to.   *)
NeverStopsReadyServer ==
  [][\A s \in Server : Running(s) /\ engine'[s] = "stopped" => admin[s] # "ready"]_vars

(* The client's view: Switchover is implemented.                           *)
Fit(s) ==
  /\ engine[s] = "healthy"
  /\ db[s] \in dbs
  /\ IF s = Green THEN defect[s] = "none" ELSE db[s] \notin migrated

Promise == INSTANCE Switchover
  WITH serving <- {s \in Server : Serving(s)}, fit <- {s \in Server : Fit(s)}

PromiseKept == Promise!Spec

(* Every await has a timeout: an upgrade, and a rollback, that has started *)
(* ends, aborts or fails.                                                  *)
UpgradeSettles  == (upc = "preflight") ~> (upc \in Settled)
RollbackSettles == (rpc = "inspect") ~> (rpc \in {"ended", "failed"})

(* After an abort the action-log loop stops, without being awaited.        *)
LoopStops == (upc \in {"aborted", "ended"}) ~> (spc = "off")

-----------------------------------------------------------------------------
(* What is said of the program and is not so.                              *)

(* runbook.md:105 "The orchestrator discovers which is current by          *)
(* inspecting the running container's environment": the database cloned is *)
(* one whose engine is in service.                                         *)
ClonesWhatServes ==
  upc = "restore" => \E s \in Server : Serving(s) /\ db[s] = source

(* runbook.md:125 "detects drift by comparing .. before and after and      *)
(* records a metadata.drift marker": metadata that changed on blue after   *)
(* pre-flight is reported by an upgrade that ends.                         *)
DriftIsRecorded ==
  upc = "ended" /\ md[source] # before => drift

=============================================================================
