# Verification of the zero-downtime Hasura upgrade

TLA+ models, TLC runs and TLAPS proofs for the blue/green upgrade orchestrator
of this repository and for the harness that measures it. Paths below are
relative to the repository; `src/…` is the TypeScript source.

## 1. The system

One orchestrator process (node, `src/cli.ts run`) drives a docker stack and
measures it at the same time.

| Component | State it keeps | Operations | Interacts with |
|---|---|---|---|
| Zero-downtime upgrader, `src/upgraders/zeroDowntime.ts` | module-scoped `state`, the locals of `upgrade()`, the flag `syncingActions` | `upgrade` (9 steps, 25 awaits), `abort`, the action-log loop, `rollback` | docker, HAProxy, Postgres, both engines; the runner's timers |
| Stack control, `src/stack/index.ts` | none of its own: containers, databases | `compose`, `cloneMetadataDb`, `copyActionLog`, `dropDatabase`, `containerEnvVar/Running/Ip`, resets | the upgrader, the runner |
| HAProxy client and table, `src/haproxy/client.ts`, `compose/haproxy/haproxy.cfg` | administrative state and health verdict per server | `setServerState`, `setServerAddr`, `waitServerStatus`, `waitDrained` | the upgrader; every request of every probe |
| Action log and its probe, `stack/index.ts`, `probes/actions.ts` | `hdb_action_log` in blue's database and in the clone | create, poll; copy of rows | engines, the upgrader's loop |
| Sequence writer, subscriptions, `probes/seqWriter.ts`, `probes/subscriptions.ts` | sequence written, cursor, rows received, drops, reconnect times | tick, connect, payload, drop, reconnect, stop | Postgres, the engine through HAProxy |
| Event probes, sidecar, `probes/events.ts`, `sidecar/server.mjs` | expectations; deliveries, forced failures | mutate and expect, deliver, reject, reconcile | engines' event log |
| Runner, `src/runner/index.ts`, `runner/timeline.ts` | `stopping`, probe loops, action promises, timeline | start, probe, fire actions, stop, settle, score | everything |
| Report, `report/windows.ts`, `scorecard.ts`, `policies.ts` | none (pure) | `deriveWindows`, `longestContiguousOutage`, `scoreWindow`, `evaluatePolicy` | timeline, scorecard |
| Hasura client, `src/hasura/client.ts` | none | `graphql`, `restGet`, classification of an answer or an exception | every probe, the gates |
| Mutation probes, `probes/mutations.ts` | the key counter; rows of `probe_orders`, `probe_counter` | eight programs of one to three requests, each checking its own answer | Postgres through the engines |
| Read oracle, `src/oracle/*`, `probes/reads.ts` | expectations captured before the run | exact-match reads, permission denials | the engines |
| Naive upgrader, cron probe, faults, CLI, config, pools, rendering | little or none | — | see "not modelled" |

### What is hard in it

* **Order across an await.** A switch is three commands (enable green, wait for
  its check, drain blue) with HAProxy's own checks, failures and other timers
  in between. *There must be a backend at every instant.*
* **Every exception path.** Any awaited command can throw; some failures are
  swallowed (`.catch(() => {})`), one path is `abort()`, the others leave
  `upgrade()` where it was.
* **Timers that do not know of one another.** Each scheduled action has its own
  (`runner/index.ts:201-219`); the action-log loop is a detached promise.
* **Nothing is persisted.** A new process reads reality from the containers.
* **Stale knowledge**: a health verdict, the contents of a clone, a snapshot of
  the action log, a cursor.
* **Measurement**: what is counted, in which window, and what a policy reads.

`PROJECT.json` lists each hazard at its line with the property that watches it.

## 2. Modules

```
Stack ──> ZeroDowntime ──> ZeroDowntimeProperties ──> MCZeroDowntime      (TLC)
          │   │               │  ^                └─> ZeroDowntimeProofs ──> OneRunProofs (TLAPS)
          │   │               │  └── INSTANCE Switchover (abstract specification)
          │   ├─> ActionLog ──> ActionLogProperties ──> MCActionLog, ActionLogProofs (with OneRunProofs)
          │   └─> Traffic ──> TrafficProperties ──> MCTraffic (with MCZeroDowntime)
          │       │                             └─> TrafficProofs (with OneRunProofs)
          │       └─> Faults ──> MCFaults (with TrafficProperties), TrafficProofs
SeqStream ──> SeqStreamProperties (INSTANCE Feed) ──> MCSeqStream, SeqStreamProofs
Scorecard ──> Runner ──> RunnerProperties ──> MCRunner, RunnerProofs
Events ──> EventsProperties ──> MCEvents, EventsProofs
HasuraClient ──> Probes ──> ProbesProperties ──> MCProbes, ProbesProofs
```

**`Stack`**: the stack as the orchestrator sees it. `admin` and `up` are
HAProxy's administrative state and last check of a server; `engine`, `db`,
`defect` a container's status, the metadata database in its environment, and
which gate (if any) would find fault with it; `dbs`, `migrated`, `md` the
databases that exist, those whose catalog the new version has migrated, and
the metadata revision each holds. Commands are operators (`SetServerState`,
`ComposeUp`, `RestoreDump`, …), each an action on the variables it touches. The
environment is three actions: an engine finishes booting (and migrates its
catalog, and turns out to have any defect), HAProxy checks a server, an
operator changes metadata through the engine in service.

Three points matter. A server that leaves `maint` has no verdict yet and HAProxy may
count it up at once, so `SetServerState` leaves `up` open; `waitServerStatus`
can therefore be satisfied by an optimistic verdict, and it is `waitHealthy`
and the gates, not HAProxy, that make the switch safe. `docker compose up`
recreates a running container only when its environment changed. An old
engine never becomes healthy on a catalog the new one has migrated.

**`ZeroDowntime`**: `upc` names the await `upgrade()` is at, `rpc` that of
`rollback()`, `spc` where the action-log loop is. What happens between two
awaits is one action, so an action is a handler's continuation:

| Source | Actions |
|---|---|
| steps 1–3, `zeroDowntime.ts:52-126` | `UpgradeStart`, `Preflight`, `CreateClone`, `RestoreClone`, `UpGreen`, `GreenHealthy` |
| step 4 and `abort`, `:128-159` | `GateVersion`, `GateMetadata`, `GateVerify`, `AbortStop`, `AbortDrop` |
| steps 5–7, `:161-189` | `GateAddress`, `EnableGreen`, `GreenIsUp`, `DrainBlue`, `BlueDrained`, `StopBlue`, `StopBlueThrows` |
| steps 8–9, `:191-226` | `AwaitSync`, `FinalCopy`, `Postcondition` |
| the loop, `:101-114` | `SyncCopy`, `SyncCopied`, `SyncExit` |
| `rollback`, `:236-273` | `RollbackStart`, `InspectBlue`, `UpBlue`, `BlueHealthy`, `EnableBlue`, `BlueIsUp`, `DrainGreen`, `GreenDrained`, `StopGreen`, `MaintGreen` |
| exceptions, `runner/index.ts:205-216` | `UpgradeThrows`, `RollbackThrows` |
| a new process, `cli.ts` | `NewProcess` |

A command that throws after it took effect leaves the same states as one that
succeeds followed by a throw at the next await, so only `StopBlueThrows`, whose
next await cannot throw, is an action of its own. Definitions named `X_…Bug` are
plausible bugs; no specification contains them, and `PROJECT.json` says which
property notices each.

**`Switchover`** is what a client is promised: a non-empty set of servers that
answer, always among those fit to; servers are enabled, retired and refitted
one at a time. **`ZeroDowntimeProperties`** states the properties and the
refinement mapping (`PromiseKept`).

**`Traffic`** composes `ZeroDowntime` with the sessions HAProxy holds: a
request is given to a server that is up (`Route`), connects, is retried or
redispatched to another server when nothing listens (`Retry`, `retries 3`,
`option redispatch`, `retry-on conn-failure` of `haproxy.cfg`), is carried out
(`Execute`) and answered. Every step of an upgrade or rollback is conjoined with
what it does to them: an engine that is stopped or recreated answers some of
what it holds and cuts the rest (`SessionsFollow`), and `waitDrained` returns
with sessions left or without (`WaitDrained`, which remembers in `residual` what
the caller records in its marker). A websocket is a request that stays
`executed` for as long as its client likes. A server without a row in
`show stat`, which `waitDrained` takes for drained (`client.ts:161`), cannot occur
here: both servers are in the table for good.

**`Faults`** lets the faults of `src/faults/index.ts` that take blue down loose on
all that: `runHarness` gives a fault a timer of its own, so one strikes at any
await of an upgrade or rollback. `KillBlue` cuts what blue holds without a grace
period, `RestartKilled` is the `compose up` that follows on its own, `SeverBlue` a
`docker restart`.

**`ActionLog`** composes `ZeroDowntime` with the table `hdb_action_log` of every
metadata database. Each step of the upgrade that touches a log is conjoined
with what it does to it (`RestoreLog`, the drop of a clone), and the one step
`copyActionLog` (`stack/index.ts:164-233`) is taken apart into its queries:
`ReadTarget`, `ReadSource`, `Upsert` row by row, with engines and clients
writing in between. The loop and step 8 each have a call of their own. A row is
absent, created or done; its columns do not matter to the copy beyond
`response_received_at`.

**`SeqStream`** is the sequence writer and one subscription, streaming or live
(the two share nothing but the table, so a behaviour follows one of them).
`Insert`, `Commit`, `Written`, `WriteFails` are one tick of the writer;
`Subscribe`, `Payload`, `SocketDies`, `Completes`, `Retry`, `Disposed` the loop
of `subscriptions.ts`; `Push` the engine, `Outage` and `Recover` the endpoint.
Values sent and not consumed when a socket dies are lost. **`Feed`** is what a
subscriber is promised: a prefix of the rows, never a gap. Left out: how long a
back-off is, and a row that commits long after its insert was given up.

**`Scorecard`** holds the pure functions of `windows.ts`, `scorecard.ts` and
`policies.ts` as operators (folds over sequences; no RECURSIVE).
**`Runner`** is `runHarness`: the probe loops (`Ask`, `Answer`, `LoopEnds`), the
scheduled actions behind their timers (`Begin`, `TimerAfterStop`, `Settle`), the
end of the run (`Stop`, `LoopsSettled`, `ActionsSettled`) and a service that
goes down and comes back. Records are appended in the order of their times, so
the code's sort of them is the identity. A marker `.failed` does not close a
window, `.aborted` does, as in the code. Latencies, percentiles and window names
are left out: no verdict reads them. `Passes` has every gate of `evaluatePolicy`;
those on events, subscription rows, drops, reconnects and cron judge a `Measurement`
that the run does not compute here: `Measured` is the set of what it may come to,
and the verdict is checked, and proved, for each of them. What an action does to the stack is
`ZeroDowntime`'s subject; here it leaves its markers. Markers that a left-over
action-log loop may append after the end are not in `Runner`, nor what may throw between the end of the
run and its score (`Events` has the request for the deliveries). A request is
decided and recorded in one instant; the code records it when the probe has returned
(`runner/index.ts:179-180`), later by what the response, or its timeout, takes, and
an outage may come out shorter or longer by that.

**`Events`** follows a mutation's key through the probe (`Begin` or `Arm`,
`Mutate`, `Answered`), the engines' event log (`Deliver`, `Ack`, `Nack`, a lost
answer, a try that hangs until it times out, a graceful stop that makes deliveries
pending again, a kill that leaves them locked), the sidecar's webhook (`Webhook`,
`RejectAllStarts/Ends`) and the reconciliation (`Settle`, `Reconcile`; `Lost`,
`Retried`, `Duplicates`). `settleMs` is a fixed sleep, whatever the events are
doing: `clock` counts it in ticks, `wait` the ticks of an event to its next try
(`interval_sec`) or to the end of one that hangs (`timeout_sec`), and `Reconcile`
fires when `clock = SettleTime` and at no other condition, so an event that is still
retried is counted lost. What is due is sent, and answered unless it hangs, within
the tick (`Due`). Engines are stopped and killed before the settling only, as
`runHarness` awaits actions and faults before it. `fetchDeliveries` may throw, and
the run with it (`ReconcileThrows`). Left out: a request the engine gave up on and
the sidecar processes later. The event log is external: it is what the comments of `events.ts` and
`faults/index.ts` and the triggers' `retry_conf` say of it.

**`HasuraClient`** is how the end of a request is classified: `Interpret` a
response, `ClassifyThrown` an exception of the transport. **`Probes`** runs the
mutation probes, an exact-match read and a permission denial over it. A probe
is a program of requests (`Program`) about rows that bear its key; `After` says
what a request does to the rows, `Committed` and `Returned` what an engine with
a given `Defect` makes of it instead, `Check` what the probe demands of its
answer. A request may get no usable answer (`NobodyAnswers`) and still have been
carried out, now or later (`CarriedOutLate`). The rows the shared tables hold for
a key, the counter every loop increments, and the key counter are state; the
texts of queries, the individual read specifications and the canonical form of JSON
are abstracted to equality of rows.

## 3. Runs

### The upgrader

`ZD_OneRun` (about 121 000 states, under half a minute): `Traffic`, so the
upgrade, the rollback and a client's request; one process, one clone name, two
commands failing anywhere, rollback only once the upgrade is over. All of
`NoRequestIsLost`, `AlwaysServing`, `OnlyProvenServes`, `AbortIsNonEvent`, `OutcomeIsExclusive`,
`NeverStopsReadyServer`, the refinement `PromiseKept`, and the liveness
properties `UpgradeSettles`, `RollbackSettles`, `LoopStops`.
`ZD_Reruns` (about 4 million, under two minutes): two processes, two clone names,
overlap, and one interrupt, failing command or fault, under traffic; what survives all of it is `WayBackIntact`, the
whole basis of rollback, and `AppliedAtMostOnce`: requests may be refused and cut
there, but none is ever carried out twice.

Bounds: `Clones` one name per upgrade that can run; `MaxFaults` 2 lets one
failure cause an abort and another hit the abort or the rollback;
`MaxProcesses` 2 is an interrupted upgrade and its successor; `MaxChanges` 1
tells a changed metadata from an unchanged one. One request is enough: requests
do not influence one another, and of all that a server holds `waitDrained` asks
only whether there is any. `Retries` is the 3 of `haproxy.cfg` where requests may
not be lost, and 1 where only repetition matters. The clones are symmetric in
`ZD_Reruns`, which checks invariants only. The proofs have none of these bounds.

Fairness: weak, on the upgrade, on the rollback and on the loop, each as a
whole. Node's event loop serves every timer and settled promise, every docker
command, HTTP request and HAProxy command in the code has a timeout, and the
waits (`waitHealthy`, `waitServerStatus`, `waitDrained`) have deadlines, so a
pending continuation eventually runs; nothing is assumed of engines, checks,
operators or requests, nor that an upgrade or a rollback is ever started, which is the
schedule's choice. That each *await* ends is not assumed either: an await whose
condition never comes ends through `Stalled` or `RollbackStalled`, the
timeouts, and `AwaitSync` has none and depends on the loop.

Three runs end in a violation, each of a sentence of the repository:

| Run | What is said | What happens |
|---|---|---|
| `ZD_Overlap` | "there is never an instant with no ready backend" (`zeroDowntime.ts:170`) | the runner starts a rollback while the upgrade drains; each drains the other's server |
| `ZD_Rerun` | "blue and green alternate roles" (`docs/runbook.md:105`) | an upgrade is cut short with blue drained and not yet stopped; a new process's upgrade passes its pre-flight on blue and clones blue's database although green serves. (After an upgrade that *succeeded* there is no second one: blue is stopped and the pre-flight throws, `zeroDowntime.ts:58-61`.) |
| `ZD_Drift` | "detects drift … and records a `metadata.drift` marker" (`docs/runbook.md:125`) | a change on blue after the clone is in neither of the two fingerprints compared |

Met on the way, without a run of its own: only `abort()` and step 8 clear the flag
`syncingActions`, so an upgrade that throws anywhere else between them leaves
the action-log loop running (`zeroDowntime.ts:95` says an abort "must not leave a
background loop writing"; `LoopStops` therefore speaks of upgrades that end by
themselves).

### The action log

`AL_Copy` (about 88 000 states): one upgrade and a rollback, one command and one
query failing, one action: `ResultsAreNeverUndone` (an upsert never replaces a
result with the pending row that was read before it), `NoResultLeftBehind` and
`NoActionForgotten` (after an upgrade without a failed query), and
`ResultReachesClient`. One action is enough: rows are copied independently of
each other, and one row meets every interleaving of two copies with two
engines. The last property has an exception the code does not close: a
rollback that restarts blue and then fails leaves blue's further writes behind.
Fairness is that of `ZeroDowntime`, plus copies that go on.

`AL_Silent` is a violation: "Recorded rather than swallowed"
(`zeroDowntime.ts:107`), but the failure of a row's upsert is swallowed inside
`copyActionLog`, which no marker and no entry of `syncErrors` shows.

### The sequence and its subscriptions

`SS_Run` (about 155 000 states): three rows, two disturbances among failed
inserts, cut sockets, completions and outages. `NothingSkipped` (no gap up to
the cursor), `FeedKept` (the refinement of `Feed`), `NoDropHides` (no connection
ends uncounted), `CatchesUp`. Three rows are one received, one in flight and one
not yet sent when a socket dies; two disturbances are a failure during the
recovery from another. Fairness: the harness's timers and handlers run
(`WriterStep`, `SubscriptionStep`); of the engine it is assumed that it sends
what there is (`Push`) and that an outage ends (`Recover`), without which there
is nothing to catch up with.

`SS_Timing` is a violation: drop timings are to be "measured"
(`subscriptions.ts:31`), but every refused attempt resets `disconnectedAt`, so a
long outage is recorded as its last attempt only.

### The run and its score

`RN_Score` (2.3 million states, about a minute): two probes, an upgrade and a
rollback, three outcomes, two ticks of time, up to three requests, and an
outage anywhere. The headline outage equals its documented definition
(`OutageIsTheLongestStretch`) and is no shorter than the time the service was
down (`OutageIsNotUnderstated`); windows cover the run and quiet ones hold no
action (`QuietIsQuiet`); failures are in the headline and in a window
(`HeadlineCoversWindows`). `PassMeansNothingFailed`: both bars, `strict` and
`zero-downtime`, are passed if and only if no request failed and the rest of what was
measured is within the bar, for the seven measurements of `MCMeasured`: one in which all is
well, and for every other gate one that may fail it (lost events, lost retries,
missed rows, drops, a reconnect at and above its limit, cron). The
timeline is complete when read (`TimelineIsFinal`) and is read (`RunIsScored`).
Three requests are a success, a failure and a success; two ticks give before,
during and after, and every tie; `Second` is two ticks, so that buckets hold
one moment or two. Fairness is of what the harness does by itself: requests
have deadlines, and that actions end is what `UpgradeSettles` and
`RollbackSettles` show of `ZeroDowntime`.

### Events

`EV_Run` (about 1.3 million states, a minute and a half): an ordinary probe and a
retry probe, three retries, three disturbances, and a settling. What is reported
lost is lost for good, or its failed tries have taken the whole of `settleMs`
(`LossIsReal`); nothing is lost without a kill or a rejecting sidecar while there
are fewer disturbances than retries and the retries they cost end before `settleMs` do
(`NothingLostWithoutCause`); an event that came by retry is proved to have
(`RetriesAreProved`), duplicates have a cause (`DuplicatesHaveCause`) and the run
reconciles, or throws for want of the deliveries (`RunReconciles`). Keys are
independent but for the disturbances they share, hence one of each kind. A tick is five
seconds: `interval_sec` 5, `timeout_sec` 10 and three retries are those of
`seed/metadata/metadata.json`, and six ticks are the `settleMs` of the default
profile. Three disturbances are as many as there are retries, and two that hang
already fill the six ticks: states in which an event is counted lost while an
engine is about to deliver it are reached, and the bound in `LossIsReal` is met
exactly. With the 20 s of the fast profile (`config/index.ts:74`) one try that hangs
and the forced rejection are enough. Nothing in the code compares `settleMs` with the
triggers' `retry_conf`; the two properties say how far it suffices.

Fairness: requests are answered or lost, an engine delivers what is due, time
passes, and the run goes on from one await to the next.

### The probes

`PR_Run` (about 900 000 states, a minute): two loops, two keys, one mutation under
way that nobody waits for, and an engine with any one of six defects beside a
correct one. `OutcomeNamesItsCause`: downtime is reported only of a request nobody
answered, errors and wrong results only of an engine that has the defect,
however loops interleave and whatever is committed late. `DefectIsReported`:
what a defective engine answers alone is reported by every probe that `Finds`
lists for it. Two keys are an iteration and the one after an iteration whose
answer was lost; loops differ in nothing but what they run, hence the symmetry.

What the model made plain, and no run shows: `mutations.ts:158-160` says that
"Global monotonicity is checked in the scorecard", and no code compares two
values of the counter; a denial probe calls an error that is not the expected one
`wrong-result`, although `types.ts:11` reserves that for answers without errors.

## 4. Proofs

`ZeroDowntimeProofs` proves, for any clones, bounds, overlap and number of
processes, `TypeCorrect` and `WayBackStaysIntact`. The inductive invariant is
`WayBackInv`: `WayBackIntact` says nothing of the locals that decide which
database is migrated or dropped, so it is strengthened with them
(`LocalsIntact`: an upgrade clones from the original, green is on a clone or on
nothing, `state` and rollback's target are the original or nothing).

`OneRunProofs` assumes `OneRun` (one process, no overlap; *any* number of
failures) and proves `OneRunInv` inductive: what each program counter implies
of the proxy (`ProxyInv`), of blue (`BlueInv`), of what the gates have
established (`GateInv`) and of what a finished upgrade leaves (`OutcomeInv`).
`AlwaysServing` needs all of it: that nothing is drained before the other
server answers follows from the order of three awaits, from blue never being
booted while ready, and from green not being replaced after its gates. From
`OneRunInv` follow `NoInstantWithoutBackend`, `TrafficOnlyToProved`,
`AbortChangesNothing`, `OneEngineLeft`, `StopsOnlyDrained`,
`FirstUpgradeClonesWhatServes` and `RunImplementsSwitchover`, the refinement.
`FirstUpgradeClonesWhatServes` marks the edge of a finding: `ClonesWhatServes`,
which `zd_rerun` violates, holds of every run of a first process, so that the
violation needs a second process, started after the first was cut short. The argument for preservation is by
footprint: lemmas state through which commands a step can touch the proxy, the
containers and the databases (`ProxyFootprint`, `EngineFootprint`,
`PgFootprint`), and each invariant is checked against those commands instead
of against every action.

`TrafficProofs` proves, for any requests and retries, `TrafficTypeCorrect` and
`NeverAppliedTwice` whatever overlaps or is restarted, and under `OneRun`
`NothingLostSilently` and `PromisesUnderTraffic`. A step of `Traffic` is a step of
`ZeroDowntime` or leaves its variables alone (`TrafficIsUpgrade`), so `OneRunInv`
carries over as it is. It is strengthened with `LostInv`: a server that has left the
rotation, and is stopped or about to be, holds only requests that its drain has
reported. That is what the order "drain, wait, stop" is for, and what makes a
request lost only where a marker says so.

Its last section adds the faults: `WayBackSurvivesFaults`,
`NeverAppliedTwiceUnderFaults` and `FaultsTypeCorrect` hold of every behaviour of
`Faults`, in which blue is killed or restarted by a fault at any point. A fault touches blue's
container and the sessions it holds (`FaultFootprint`), and `WayBackInv` speaks of
neither. What is proved of one run without faults is not claimed here: an engine
that is killed while it serves is an instant without a backend.

`ActionLogProofs` proves, for any actions, failing commands and failing queries,
`LogIsAnUpgrade` (the composition allows the upgrader nothing new, so that
`WayBackInv` and `OneRunInv` carry over), `ActionLogTypeCorrect` and `ResultsStay`.
The last rests on `CopyInv`: while a copy holds a pending row that it took for new,
the clone has no row of that action. It is inductive because of two facts of the
program: an action's id is fresh, so one engine alone creates its row, and the loop
and the last copy are never at work together (`UpgradeInv`), which is what awaiting
the loop in step 8 is for. Under `OneRun`, `CarryInv` gives `LastCopyCatchesAll` and
`GreenKnowsActions`: once blue is stopped its log is final, and each row of it is in
the clone or among the rows the last copy has yet to write.

`ProbesProofs` proves `ProbesTypeCorrect`, `OutcomesAreJust` and
`DefectsAreReported` for any number of loops, keys, increments and late commits.
`KeysInv` says that a key is in the hands of one iteration: keys of running loops
differ, none of them is that of a late mutation an earlier iteration left, and a
key not handed out has no rows. Hence `RunsInv`: while an engine alone has
answered an iteration, the rows of its key are the ones that engine makes of the
requests so far (`RowsAt`), and the answer to the next one follows by cases.

`EventsProofs` proves `EventsTypeCorrect`, `LostIsLost`, `LossHasCause`,
`RetriesAreRetried` and `DuplicatesAreExplained` for any number of probes, retries and disturbances. `ArmedInv`
follows the one rejection a retry probe forces: it is to come or it has come, never
both, and nothing is accepted before it. `CauseInv` is the bookkeeping behind "lost
for a reason": without a kill or a rejection at large, the failed deliveries of an
event are at most the disturbances so far and the forced rejection, so that no
event runs out of retries by itself. `DelaysInv` accounts for time: while an event is on its
way, the ticks of the settling that have passed and those it still waits for are
at most `Delay`, one interval for every failed try and one time-out for every try that
hung; a try that fails adds its interval to both sides, and a tick takes from `wait` what it
adds to `clock`, because none passes while something is due. So an event that is not
there when `settleMs` are over is dead, locked, or has been delayed for that long, for
any `retry_conf` and any `settleMs`. `CopiesInv` does the same for duplicates: an
event has been accepted at most once more than there were disturbances, and no
more often than them unless its last acceptance still stands. `SumIsBounded` takes
that from one event to the sum over all of them, however many there are.

`SeqStreamProofs` proves, for any number of rows, disturbances, drops and any
duration, `StreamTypeCorrect`, `NeverSkips`, `StreamImplementsFeed` and
`EveryDropCounts`. `NothingSkipped` relates only the cursor to what was received;
the invariant `StreamInv` adds where every other row is: committed rows, the
cursor and what the engine has sent are behind the writer's `next` (`RowsInv`,
`CursorInv`), a closed socket carries nothing (`SocketInv`), what has been received
is *exactly* the rows up to the cursor (`SeenInv`), and what is in flight is
exactly the rows between the cursor and what was sent (`SendInv`). That the
writer inserts in order is what makes a cursor safe, and `RowsInv` says so. The three
lemmas on spans of rows (`UpToJoins`, `AfterCuts`, `AfterJoins`) are all the
arithmetic there is. `NoDropHides` follows from a separate invariant of the
counters, `CountInv`.

`RunnerProofs` proves every safety property of `RunnerProperties` for any number of
probes, actions, records and markers. It has two halves.

The first is the run. `RunnerInv` holds of every state: the timeline is in the
order of time and in the past (`InOrder`, and with it `TimelineIsSorted`: the sorts
that the model leaves out change nothing), the service goes down at most once
(`ServiceHistory`) and what is recorded is true of it (`Truthful`: any answer
came before the outage or after it), and when the timeline is read nobody is left to
append (`Awaited`, and with it `ScoredTimelineIsFinal`).

The second is the scorecard, whose operators are folds. What a recursive
*operator* computes cannot be proved here, but the folds of the community modules
are recursive *functions*, over sets of positions. `SetRecursion` shows that such a
function exists, and `ObserveFold`, `AmongFold` and `AddActionFold` unroll each fold
into the sequence of its intermediate results. Induction along it is `SetInduction`:
induction over a *set* of naturals instead of a predicate, derived from
`WFMin` and `NatLessThanWellFounded` of the library, so that no operator has to be
instantiated. On that rest

* `ScanFindsTheLongestStretch`. After n entries, `At` says which success was the
  last and which failure the first since, and `WorstOf` that the worst so far is the
  longest stretch a success has closed (`ScanStep`); the stretch that is open at the
  end is the one the scan remembers (`StretchBegins`). So the single pass computes
  the definition in the comment of the headline, for every timeline.
* `HeadlineIsNotUnderstated`. A failure during the outage is in a stretch
  (`StretchAround`); as success came before and after, it begins and ends with a
  success, and by `Truthful` those are outside the outage.
* `PassIsExact`. The headline scores the whole timeline (`HeadlineIsAll`, which
  needs `runEnd + 1`), and a timeline without failures has no stretch; so the
  gates on requests are passed by exactly the runs without a failed one, and the
  other gates are left to what was measured, whatever that is.
* `WindowsAreSound`. After n actions the windows cover everything up to the cursor
  and nothing shares a quiet one (`Tiles`); that no later action reaches back into a
  quiet window (`QuietBefore`) is where the order of the markers matters, and that
  no earlier one does is what the `Math.max` of the cursor is for (`AppendTile`).
* `HeadlineIsTheWorst`. `Array.filter()` embeds its result in the whole
  (`AmongPicks`), so counts and buckets of a window are no larger
  (`PartsAreFewer`), and a stretch of a window is part of one of the run
  (`PartsAreShorter`): not obvious, as cutting a timeline moves the successes that
  bound a stretch. With `Tiles`, every failure before the last millisecond has a
  window that counts it.

The assumptions are the named ASSUMEs of the modules (clone names differ from the
original's name, bounds, durations and measurements are naturals, no action is
called "run") and, where it is
written out, `OneRun`. Every invariant and every
action property that a passing run checks, and both refinements, are also stated
by a theorem. Liveness under fairness is outside the prover's reach and is checked by
TLC only: `UpgradeSettles`, `RollbackSettles`, `LoopStops`, `ResultReachesClient`,
`CatchesUp`, `RunIsScored` and `RunReconciles`. So are, by their nature, the
violations that the findings report.

## 5. Not modelled, and simplified

* Engines do not crash on their own; the failures modelled are those of the
  orchestrator's commands and, in `Faults` and `Events`, the fault scripts. A paused
  container, which hangs rather than fails, is left out.
* Time is not a number but in `Runner`, the reconnect times of `SeqStream` and the
  settling of `Events`: elsewhere a timeout may fire whenever what it waits for is absent. `waitDrained` returns whether or not sessions remain, as it does.
* `pg_dump | psql` is atomic; a dump cut short without an error status (the
  pipeline has no `pipefail`) is listed as a hazard only.
* The naive upgrader: stop, start and wait on one server. It is the baseline that is
  meant to have an outage; there is no promise to check. Its rollback starts the old
  version on a catalog the new one has migrated, which by what `Stack` says of
  engines never becomes healthy: `waitHealthy` then throws after 300 s.
* The cron probe: fires are counted against minutes of wall-clock time. The verdict
  takes any count (`Measured`). Two things
  seen while reading: the clone carries the pending rows of `hdb_cron_events`, so
  blue and green both fire a heartbeat while both run, and `observed >=
  expectedAtLeast` can be met by such pairs although another heartbeat was missed;
  and a heartbeat of the last minute received after `runEnd` is expected and not
  counted (listed as a hazard).
* The individual read specifications and the canonical form of JSON: an exact match
  is equality of rows in `Probes`.
* Configuration, connection pools, rendering and the CLI's other commands: no state
  that a property could be about. See `components` in `PROJECT.json`.

## 6. Plan

Order of work: what serves traffic first (`Stack`, `ZeroDowntime`, `Traffic`,
`Faults`), then what an upgrade must carry over (`ActionLog`, `SeqStream`), then what
measures it (`HasuraClient`, `Probes`, `Scorecard`, `Runner`, `Events`). All of these
are written and checked. Left:

1. *Model.* The cron reconciliation, once heartbeats and minute boundaries have a
   notion of time to share; the naive upgrader beside `Switchover`, as the baseline
   that does not implement it; a paused engine.
2. *Compose.* `Runner` with `ZeroDowntime`, so that the outage of the scorecard is
   the outage of the stack; `Events` with the engines of `Stack`, so that which
   engine delivers follows from the upgrade; a light reset between runs.
3. *Prove.* What follows from the compositions of 2; until then every safety
   property that a run checks has its theorem.
