----------------------------- MODULE Scorecard -----------------------------
(***************************************************************************)
(* From the timeline of a run to its numbers: the windows of               *)
(* src/report/windows.ts, the scores of src/report/scorecard.ts and the    *)
(* thresholds of src/report/policies.ts, as operators.                     *)
(*                                                                         *)
(* A record is [t, kind], a marker [t, of, what]: what happens to the      *)
(* orchestrator action `of`.  Latencies, their percentiles and the names   *)
(* of windows are left out, no verdict reads them.                         *)
(***************************************************************************)
EXTENDS Integers, Sequences, FiniteSets, SequencesExt

CONSTANT Second     \* the length of a bucket of worstSecondBucket()

ASSUME SecondAssumption == Second \in Nat \ {0}

FailureKind == {"unavailable", "timeout", "graphql-error", "wrong-result"}
Outcome     == FailureKind \cup {"ok"}
Down        == {"unavailable", "timeout"}   \* not answering, as against answering wrongly

None == -1     \* null

Failing(records) == {i \in DOMAIN records : records[i].kind # "ok"}

(* Array.filter(): the members of s at the positions in I, in their order. *)
(* (SelectSeq is a primitive of the prover, nothing can be proved of it.)  *)
Among(s, I) ==
  FoldLeftDomain(LAMBDA kept, i : IF i \in I THEN Append(kept, s[i]) ELSE kept, <<>>, s)

-----------------------------------------------------------------------------
(* longestContiguousOutage().  Records are appended with the time of their *)
(* appending, so the sort it begins with leaves them where they are.       *)
(* failuresSinceSuccess is positive exactly when firstFailureAt is set.    *)

Unharmed == [worst |-> 0, lastSuccessAt |-> None, firstFailureAt |-> None]

Closed(s, t) ==
  IF s.firstFailureAt = None THEN s.worst
  ELSE LET from == IF s.lastSuccessAt # None THEN s.lastSuccessAt ELSE s.firstFailureAt
       IN  Max({s.worst, t - from})

Observe_NoResetBug(s, r) ==
  IF r.kind = "ok" THEN [s EXCEPT !.worst = Closed(s, r.t), !.lastSuccessAt = r.t]
  ELSE IF r.kind \in Down /\ s.firstFailureAt = None THEN [s EXCEPT !.firstFailureAt = r.t]
  ELSE s

Observe_FromFailureBug(s, r) ==
  IF r.kind = "ok" THEN [worst |-> Closed(s, r.t), lastSuccessAt |-> None, firstFailureAt |-> None]
  ELSE IF r.kind \in Down /\ s.firstFailureAt = None THEN [s EXCEPT !.firstFailureAt = r.t]
  ELSE s

Observe(s, r) ==
  IF r.kind = "ok" THEN [worst |-> Closed(s, r.t), lastSuccessAt |-> r.t, firstFailureAt |-> None]
  ELSE IF r.kind \in Down /\ s.firstFailureAt = None THEN [s EXCEPT !.firstFailureAt = r.t]
  ELSE s

(* An outage still open at the end counts up to the last observation.      *)
LongestContiguousOutage(records) ==
  IF records = <<>> THEN 0
  ELSE Closed(FoldLeft(Observe, Unharmed, records), Last(records).t)

WorstSecondBucket(records) ==
  LET harmed   == {i \in DOMAIN records : records[i].kind \in Down}
      second(i) == records[i].t \div Second
  IN  Max({0} \cup {Cardinality({j \in harmed : second(j) = second(i)}) : i \in harmed})

ScoreWindow_AfterStartBug(window, all) ==
  LET records == Among(all, {i \in DOMAIN all : window.from < all[i].t /\ all[i].t < window.to})
  IN  [requests |-> Len(records),
       failures |-> Cardinality(Failing(records)),
       byKind   |-> [k \in FailureKind |-> Cardinality({i \in DOMAIN records : records[i].kind = k})],
       outage   |-> LongestContiguousOutage(records),
       worstSecond |-> WorstSecondBucket(records)]

Inside(window, all) == {i \in DOMAIN all : window.from <= all[i].t /\ all[i].t < window.to}

ScoreWindow(window, all) ==
  LET records == Among(all, Inside(window, all))
  IN  [requests |-> Len(records),
       failures |-> Cardinality(Failing(records)),
       byKind   |-> [k \in FailureKind |-> Cardinality({i \in DOMAIN records : records[i].kind = k})],
       outage   |-> LongestContiguousOutage(records),
       worstSecond |-> WorstSecondBucket(records)]

-----------------------------------------------------------------------------
(* deriveWindows(): an action's window ends with the first .end or         *)
(* .aborted after its .start, or with the run; what is between is quiet.   *)

Quiet(from, to) == [kind |-> "quiet", of |-> "run", from |-> from, to |-> to]

Starts(markers) == {i \in DOMAIN markers : markers[i].what = "start" /\ markers[i].of # "run"}

Terminators(s, markers) ==
  {i \in DOMAIN markers : markers[i].t >= s.t /\ markers[i].of = s.of
                         /\ markers[i].what \in {"end", "aborted"}}

ActionWindow(s, markers, runEnd) ==
  LET ends == Terminators(s, markers)
  IN  [kind |-> "action", of |-> s.of, from |-> s.t,
       to |-> IF ends = {} THEN runEnd ELSE markers[Min(ends)].t]

Actions(markers, runEnd) ==
  LET starts == Among(markers, Starts(markers))
  IN  [i \in DOMAIN starts |-> ActionWindow(starts[i], markers, runEnd)]

AddAction_NoMaxBug(s, a) ==
  [windows |-> (IF a.from > s.cursor THEN Append(s.windows, Quiet(s.cursor, a.from))
                ELSE s.windows) \o <<a>>,
   cursor  |-> a.to]

AddAction(s, a) ==
  [windows |-> (IF a.from > s.cursor THEN Append(s.windows, Quiet(s.cursor, a.from))
                ELSE s.windows) \o <<a>>,
   cursor  |-> Max({s.cursor, a.to})]

DeriveWindows(markers, runStart, runEnd) ==
  LET s == FoldLeft(AddAction, [windows |-> <<>>, cursor |-> runStart], Actions(markers, runEnd))
  IN  IF runEnd > s.cursor THEN Append(s.windows, Quiet(s.cursor, runEnd)) ELSE s.windows

-----------------------------------------------------------------------------
(* The overall score, of runHarness(), and evaluatePolicy(): a limit of    *)
(* null does not gate.                                                     *)

Overall_RunEndBug(records, runStart, runEnd) == ScoreWindow(Quiet(runStart, runEnd), records)

Overall(records, runStart, runEnd) == ScoreWindow(Quiet(runStart, runEnd + 1), records)

(* What a run measures besides its requests: reconcileEvents(), the stats  *)
(* of the subscriptions and reconcileCron().                               *)
Measurement ==
  [lostEvents : Nat, retriesLost : Nat, missedRows : Nat, drops : Nat, reconnectMs : Nat,
   cronObserved : Nat, cronExpected : Nat]

Within(limit, actual) == limit = None \/ actual <= limit

PassesRequests(policy, overall) ==
  /\ Within(policy.maxFailedRequests, overall.failures)
  /\ Within(policy.maxContiguousOutageMs, overall.outage)
  /\ Within(policy.maxIncorrectResults, overall.byKind["wrong-result"])
  /\ Within(policy.maxGraphqlErrors, overall.byKind["graphql-error"])

Passes(policy, overall, other) ==
  /\ PassesRequests(policy, overall)
  /\ Within(policy.maxLostEvents, other.lostEvents)
  /\ Within(policy.maxMissedSubRows, other.missedRows)
  /\ Within(policy.maxSubscriptionDrops, other.drops)
  /\ Within(policy.maxReconnectMs, other.reconnectMs)
  /\ policy.name # "informational" => other.cronObserved >= other.cronExpected
  /\ Within(policy.maxLostEvents, other.retriesLost)

StrictPolicy ==
  [name |-> "strict",
   maxFailedRequests |-> 0, maxContiguousOutageMs |-> 0,
   maxIncorrectResults |-> 0, maxGraphqlErrors |-> 0,
   maxLostEvents |-> 0, maxMissedSubRows |-> 0,
   maxSubscriptionDrops |-> 0, maxReconnectMs |-> None]

ZeroDowntimePolicy ==
  [StrictPolicy EXCEPT !.name = "zero-downtime",
                       !.maxSubscriptionDrops = None, !.maxReconnectMs = 30000]

=============================================================================
