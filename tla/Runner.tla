------------------------------- MODULE Runner -------------------------------
(***************************************************************************)
(* runHarness() of src/runner/index.ts: probe loops, scheduled actions and *)
(* the end of the run, all appending to one timeline (timeline.ts) while   *)
(* the service they probe goes down and comes back.                        *)
(*                                                                         *)
(* What an action does to the service is the subject of ZeroDowntime; here *)
(* an action is the markers it leaves on the timeline.                     *)
(***************************************************************************)
EXTENDS Scorecard

CONSTANTS
  Probes,       \* the probe loops
  Action,       \* what is scheduled: upgrade, rollback, a fault
  Kinds,        \* the outcomes probes have in this instance
  MaxTime,      \* bound: ticks of a run
  MaxRecords,   \* bound: requests probes make
  MaxEntries    \* bound: those, and the markers of the actions begun

ASSUME RunnerAssumption ==
  /\ "run" \notin Action
  /\ Kinds \subseteq Outcome
  /\ MaxTime \in Nat /\ MaxRecords \in Nat /\ MaxEntries \in Nat

VARIABLES
  now,        \* Date.now(), from the start of the run
  stage,      \* runHarness(): probing, awaiting loops, awaiting actions, scored
  loop,       \* where each probe's loop is
  action,     \* where each scheduled action is
  records,    \* Timeline: records
  markers,    \* Timeline: markers
  downAt,     \* when the service went down
  upAt        \* when it came back

timeline    == <<records, markers>>
serviceVars == <<downAt, upAt>>
vars == <<now, stage, loop, action, timeline, serviceVars>>

Time     == 0..MaxTime
stopping == stage # "probing"
Serving  == downAt = None \/ upAt # None

RunnerTypeOK ==
  /\ now \in Time /\ downAt \in Time \cup {None} /\ upAt \in Time \cup {None}
  /\ stage \in {"probing", "loops", "actions", "scored"}
  /\ loop \in [Probes -> {"sleep", "asking", "ended"}]
  /\ action \in [Action -> {"timer", "running", "settled"}]
  /\ records \in Seq([t : Time, kind : Outcome])
  /\ markers \in Seq([t : Time, of : Action \cup {"run"}, what : {"start", "end", "aborted", "failed"}])

Marker(of, what) == [t |-> now, of |-> of, what |-> what]

Init ==
  /\ now = 0 /\ stage = "probing"
  /\ loop = [p \in Probes |-> "sleep"] /\ action = [a \in Action |-> "timer"]
  /\ records = <<>> /\ markers = <<Marker("run", "start")>>
  /\ downAt = None /\ upAt = None

-----------------------------------------------------------------------------
(* A probe's loop.                                                         *)

Requests == Len(records) + Cardinality({p \in Probes : loop[p] = "asking"})
Begun    == Cardinality({i \in DOMAIN markers : markers[i].what = "start" /\ markers[i].of # "run"})

Ask(p) ==
  /\ loop[p] = "sleep" /\ ~stopping
  /\ Requests < MaxRecords /\ Requests + 2 * Begun < MaxEntries
  /\ loop' = [loop EXCEPT ![p] = "asking"]
  /\ UNCHANGED <<now, stage, action, timeline, serviceVars>>

(* An answer, right or wrong, comes from a service that is up.  A request  *)
(* fails or times out, or the probe throws, with the service up or down.   *)
Answer(p) ==
  /\ loop[p] = "asking"
  /\ \E kind \in Kinds :
       /\ Serving \/ kind \in Down
       /\ records' = Append(records, [t |-> now, kind |-> kind])
  /\ loop' = [loop EXCEPT ![p] = "sleep"]
  /\ UNCHANGED <<now, stage, action, markers, serviceVars>>

(* while (!stopping)                                                       *)
LoopEnds(p) ==
  /\ loop[p] = "sleep" /\ stopping
  /\ loop' = [loop EXCEPT ![p] = "ended"]
  /\ UNCHANGED <<now, stage, action, timeline, serviceVars>>

-----------------------------------------------------------------------------
(* A scheduled action, each behind a timer of its own.                     *)

Mark(new) == markers' = markers \o new /\ UNCHANGED records

Begin_UnnamedBug(a) ==
  /\ action[a] = "timer" /\ ~stopping
  /\ Requests + 2 * Begun + 2 <= MaxEntries
  /\ action' = [action EXCEPT ![a] = "running"]
  /\ Mark(<<Marker("", "start")>>)
  /\ UNCHANGED <<now, stage, loop, serviceVars>>

Begin(a) ==
  /\ action[a] = "timer" /\ ~stopping
  /\ Requests + 2 * Begun + 2 <= MaxEntries
  /\ action' = [action EXCEPT ![a] = "running"]
  /\ Mark(<<Marker(a, "start")>>)
  /\ UNCHANGED <<now, stage, loop, serviceVars>>

TimerAfterStop_NeverBug(a) ==
  /\ action[a] = "timer" /\ stopping
  /\ UNCHANGED vars

(* A timer that fires once the run is stopping starts nothing.             *)
TimerAfterStop(a) ==
  /\ action[a] = "timer" /\ stopping
  /\ action' = [action EXCEPT ![a] = "settled"]
  /\ UNCHANGED <<now, stage, loop, timeline, serviceVars>>

(* An action ends, or throws.  An aborted upgrade marks that it is, then   *)
(* throws; the runner marks whatever throws.                               *)
Settle(a) ==
  /\ action[a] = "running"
  /\ action' = [action EXCEPT ![a] = "settled"]
  /\ \/ Mark(<<Marker(a, "end")>>)
     \/ Mark(<<Marker(a, "failed")>>)
     \/ a = "upgrade" /\ Mark(<<Marker(a, "aborted"), Marker(a, "failed")>>)
  /\ UNCHANGED <<now, stage, loop, serviceVars>>

-----------------------------------------------------------------------------
(* The end of the run.                                                     *)

Stop ==
  /\ stage = "probing"
  /\ stage' = "loops"
  /\ UNCHANGED <<now, loop, action, timeline, serviceVars>>

LoopsSettled_AtOnceBug ==
  /\ stage = "loops"
  /\ stage' = "actions"
  /\ UNCHANGED <<now, loop, action, timeline, serviceVars>>

LoopsSettled ==
  /\ stage = "loops"
  /\ \A p \in Probes : loop[p] = "ended"
  /\ stage' = "actions"
  /\ UNCHANGED <<now, loop, action, timeline, serviceVars>>

(* runEnd is now; what is scored later is what the timeline holds then.    *)
ActionsSettled ==
  /\ stage = "actions"
  /\ \A a \in Action : action[a] = "settled"
  /\ stage' = "scored"
  /\ Mark(<<Marker("run", "end")>>)
  /\ UNCHANGED <<now, loop, action, serviceVars>>

-----------------------------------------------------------------------------
Tick ==
  /\ stage # "scored" /\ now < MaxTime
  /\ now' = now + 1
  /\ UNCHANGED <<stage, loop, action, timeline, serviceVars>>

GoDown ==
  /\ downAt = None /\ stage # "scored"
  /\ downAt' = now
  /\ UNCHANGED <<now, stage, loop, action, timeline, upAt>>

ComeBack ==
  /\ ~Serving /\ stage # "scored"
  /\ upAt' = now
  /\ UNCHANGED <<now, stage, loop, action, timeline, downAt>>

(* What the harness does by itself, sooner or later.                       *)
HarnessStep ==
  \/ \E p \in Probes : Answer(p) \/ LoopEnds(p)
  \/ \E a \in Action : TimerAfterStop(a) \/ Settle(a)
  \/ Stop \/ LoopsSettled \/ ActionsSettled

Next ==
  \/ HarnessStep
  \/ \E p \in Probes : Ask(p)
  \/ \E a \in Action : Begin(a)
  \/ Tick \/ GoDown \/ ComeBack

(* Requests have deadlines, actions end (UpgradeSettles, RollbackSettles   *)
(* of ZeroDowntimeProperties) and timers fire.                             *)
Fairness == WF_vars(HarnessStep)

Spec == Init /\ [][Next]_vars /\ Fairness

=============================================================================
