------------------------------- MODULE Faults -------------------------------
(***************************************************************************)
(* The faults of src/faults/index.ts that take an engine down, let loose   *)
(* on an upgrade or rollback under traffic: runHarness() gives each fault  *)
(* a timer of its own, next to those of the scheduled actions, so one can  *)
(* strike at any await of theirs.  The other faults do nothing to the      *)
(* stack an upgrade works on; rejectAllEvents is in module Events.         *)
(***************************************************************************)
EXTENDS Traffic

VARIABLE fault   \* where the fault of this orchestrator process is

faultsVars == <<trafficVars, fault>>

FaultsTypeOK == TrafficTypeOK /\ fault \in {"timer", "killed", "over"}

FaultsInit == TrafficInit /\ fault = "timer"

FaultGoto(from, to) ==
  /\ fault = from
  /\ fault' = to
  /\ UNCHANGED <<proxyVars, pgVars, upgradeVars, syncVars, rollbackVars, state, process, residual>>

(* SIGKILL, "with no graceful shutdown at all": what blue holds is cut.    *)
KillBlue ==
  /\ FaultGoto("timer", "killed")
  /\ Running(Blue) /\ Fault
  /\ ComposeStop(Blue)
  /\ SessionsFollow
  /\ \A r \in Request : EngineLeaves(r) => phase'[r] = OnCut

(* killAndRestartBlue() goes on: `up -d` of blue, on cfg.metadataDb.       *)
RestartKilled ==
  /\ FaultGoto("killed", "over")
  /\ ComposeUp(Blue, Original)
  /\ SessionsFollow
  /\ NoFault

(* severSubscriptions(): `docker restart` of blue, running or not.         *)
SeverBlue ==
  /\ FaultGoto("timer", "over")
  /\ Fault
  /\ engine' = [engine EXCEPT ![Blue] = "booting"]
  /\ UNCHANGED <<db, defect>>
  /\ SessionsFollow

(* A new process has timers of its own; those of the old one are gone.     *)
FaultsNext ==
  \/ TrafficNext /\ fault' = IF process' = process THEN fault ELSE "timer"
  \/ KillBlue \/ RestartKilled \/ SeverBlue

FaultsSpec == FaultsInit /\ [][FaultsNext]_faultsVars

=============================================================================
