------------------------------- MODULE Stack -------------------------------
(***************************************************************************)
(* The stack an upgrade is performed on, as the orchestrator sees it: the  *)
(* two Hasura engines (docker containers), the server table of HAProxy     *)
(* and the metadata databases of Postgres.                                 *)
(*                                                                         *)
(* The operators are the commands of src/stack/index.ts and                *)
(* src/haproxy/client.ts, each as an action on the variables it touches,   *)
(* together with what the containers and the proxy do on their own.  When  *)
(* a command is issued, and what happens when it fails, is the upgrader's  *)
(* business (module ZeroDowntime).                                         *)
(***************************************************************************)
EXTENDS Naturals

CONSTANTS
  Original,    \* cfg.metadataDb: the metadata database blue is created on
  Clones,      \* names a clone can get (`hasura_metadata_${Date.now()}`)
  NoDb,        \* no database: an unset environment variable, a null state
  MaxChanges   \* bound: metadata changes an operator applies per database

Blue   == "blue"
Green  == "green"
Server == {Blue, Green}

DB     == {Original} \cup Clones

ASSUME DistinctDatabases == Original \notin Clones /\ NoDb \notin DB
ASSUME ChangesBounded    == MaxChanges \in Nat

(* What `docker inspect` says of a container, with "healthy" for a running *)
(* one whose /healthz answers 200.                                         *)
EngineStatus == {"stopped", "booting", "healthy"}

(* The administrative states of a HAProxy server.                          *)
ServerState == {"ready", "drain", "maint"}

(* What can be wrong with an engine that has booted, named for the gate    *)
(* that looks for it.                                                      *)
Defect == {"none", "version", "metadata", "verify"}

VARIABLES
  admin,     \* HAProxy: administrative state of each server
  up,        \* HAProxy: last verdict of each server's health check
  engine,    \* docker: status of each engine's container
  db,        \* docker: metadata database in each container's environment
  defect,    \* what is wrong with the engine the container runs
  dbs,       \* Postgres: the metadata databases that exist
  migrated,  \* Postgres: databases whose catalog toVersion has migrated
  md         \* Postgres: revision of the metadata each database holds

proxyVars  == <<admin, up>>
engineVars == <<engine, db, defect>>
pgVars     == <<dbs, migrated, md>>
stackVars  == <<admin, up, engine, db, defect, dbs, migrated, md>>

ProxyTypeOK ==
  /\ admin \in [Server -> ServerState]
  /\ up    \in [Server -> BOOLEAN]

EngineTypeOK ==
  /\ engine \in [Server -> EngineStatus]
  /\ db     \in [Server -> DB \cup {NoDb}]
  /\ defect \in [Server -> Defect]

PgTypeOK ==
  /\ dbs      \in SUBSET DB
  /\ migrated \in SUBSET DB
  /\ md       \in [DB -> 0..MaxChanges]

StackTypeOK == ProxyTypeOK /\ EngineTypeOK /\ PgTypeOK

(* After fullReset: blue serves from the original database, green does not *)
(* exist and is `disabled` in haproxy.cfg.  Blue's own metadata may have   *)
(* become inconsistent since.                                              *)
StackInit ==
  /\ admin    = [s \in Server |-> IF s = Blue THEN "ready" ELSE "maint"]
  /\ up       = [s \in Server |-> s = Blue]
  /\ engine   = [s \in Server |-> IF s = Blue THEN "healthy" ELSE "stopped"]
  /\ db       = [s \in Server |-> IF s = Blue THEN Original ELSE NoDb]
  /\ defect   \in {[s \in Server |-> IF s = Blue THEN d ELSE "none"] :
                     d \in {"none", "metadata"}}
  /\ dbs      = {Original}
  /\ migrated = {}
  /\ md       = [d \in DB |-> 0]

Running(s) == engine[s] # "stopped"

(* HAProxy's status column reads "UP": requests are routed to s.           *)
StatusUp(s) == admin[s] = "ready" /\ up[s]

(* A request routed to s is answered.                                      *)
Serving(s) == StatusUp(s) /\ engine[s] = "healthy"

-----------------------------------------------------------------------------
(* Commands of the HAProxy client.                                         *)

(* `set server .. state ..`.  A server that leaves maintenance has no      *)
(* verdict yet: HAProxy may count it up until the first check says         *)
(* otherwise.                                                              *)
SetServerState(s, st) ==
  /\ admin' = [admin EXCEPT ![s] = st]
  /\ \E verdict \in BOOLEAN :
       /\ st = "maint" => ~verdict
       /\ st # "maint" /\ admin[s] # "maint" => verdict = up[s]
       /\ up' = [up EXCEPT ![s] = verdict]

-----------------------------------------------------------------------------
(* Commands of docker compose.                                             *)

(* `up -d`: a stopped container is started; a running one is left alone    *)
(* unless its environment changed, in which case it is recreated.          *)
ComposeUp(s, d) ==
  /\ engine' = IF Running(s) /\ db[s] = d
               THEN engine ELSE [engine EXCEPT ![s] = "booting"]
  /\ db'     = [db EXCEPT ![s] = d]
  /\ UNCHANGED defect

(* `stop`: graceful shutdown within stop_grace_period, then SIGKILL.       *)
ComposeStop(s) ==
  /\ engine' = [engine EXCEPT ![s] = "stopped"]
  /\ UNCHANGED <<db, defect>>

(* `stop`, then `rm -f`: the container and its environment are gone.       *)
ComposeRemove(s) ==
  /\ engine' = [engine EXCEPT ![s] = "stopped"]
  /\ db'     = [db EXCEPT ![s] = NoDb]
  /\ UNCHANGED defect

-----------------------------------------------------------------------------
(* Statements against Postgres.                                            *)

CreateDatabase(d) ==
  /\ dbs' = dbs \cup {d}
  /\ UNCHANGED <<migrated, md>>

(* `pg_dump from | psql to`                                                *)
RestoreDump(from, to) ==
  /\ md'       = [md EXCEPT ![to] = md[from]]
  /\ migrated' = IF from \in migrated THEN migrated \cup {to} ELSE migrated
  /\ UNCHANGED dbs

DropDatabase(d) ==
  /\ dbs' = dbs \ {d}
  /\ UNCHANGED <<migrated, md>>

-----------------------------------------------------------------------------
(* What the stack does on its own.                                         *)

(* An engine finishes booting.  It migrates the catalog of the database it *)
(* was given; fromVersion cannot run on a catalog toVersion has migrated.  *)
BootDone(s) ==
  /\ engine[s] = "booting"
  /\ db[s] \in dbs
  /\ s = Blue => db[s] \notin migrated
  /\ engine'   = [engine EXCEPT ![s] = "healthy"]
  /\ migrated' = IF s = Green THEN migrated \cup {db[s]} ELSE migrated
  /\ \E d \in Defect :
       /\ s = Blue => d = defect[s]
       /\ defect' = [defect EXCEPT ![s] = d]
  /\ UNCHANGED <<proxyVars, db, dbs, md>>

(* HAProxy checks every server that is not in maintenance.                 *)
HealthCheck(s) ==
  /\ admin[s] # "maint"
  /\ up[s] # (engine[s] = "healthy")
  /\ up' = [up EXCEPT ![s] = ~up[s]]
  /\ UNCHANGED <<admin, engineVars, pgVars>>

(* An operator applies a metadata change through an engine in service.     *)
ChangeMetadata(s) ==
  /\ Serving(s)
  /\ md[db[s]] < MaxChanges
  /\ md' = [md EXCEPT ![db[s]] = @ + 1]
  /\ UNCHANGED <<proxyVars, engineVars, dbs, migrated>>

StackStep ==
  \/ \E s \in Server : BootDone(s)
  \/ \E s \in Server : HealthCheck(s)
  \/ \E s \in Server : ChangeMetadata(s)

=============================================================================
