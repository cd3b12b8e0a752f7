-------------------------- MODULE RunnerProperties --------------------------
(***************************************************************************)
(* Whether the numbers of a run say what happened in it.                   *)
(***************************************************************************)
EXTENDS Runner

CONSTANT Measured   \* what events, subscriptions and cron come to in a run

ASSUME MeasuredAssumption == Measured \subseteq Measurement

scored  == stage = "scored"
Windows == DeriveWindows(markers, 0, now)
Run     == Overall(records, 0, now)

(* The definition the headline number is documented with (scorecard.ts:    *)
(* 16-21, 105-113, 139-140): the longest stretch without a success that    *)
(* contains a failure to answer, bounded by successes either side; before  *)
(* the first success it begins with the first failure, after the last one  *)
(* it ends with the last observation.                                      *)
Ok(s, i) == s[i].kind = "ok"

Harmed(s, i, j) ==
  /\ i <= j
  /\ \A k \in (i + 1)..(j - 1) : ~Ok(s, k)
  /\ \E k \in i..j : s[k].kind \in Down
  /\ Ok(s, i) \/ (s[i].kind \in Down /\ \A k \in 1..(i - 1) : s[k].kind \notin Down \cup {"ok"})

Stretch(s, i, j) == Harmed(s, i, j) /\ (Ok(s, j) \/ j = Len(s))

LongestStretch(s) ==
  LET bounds == {b \in (DOMAIN s) \X (DOMAIN s) : Stretch(s, b[1], b[2])}
  IN  Max({0} \cup {s[b[2]].t - s[b[1]].t : b \in bounds})

(* One pass over the log computes it, with ties, wrong answers and open    *)
(* ends anywhere.                                                          *)
OutageIsTheLongestStretch == scored => LongestContiguousOutage(records) = LongestStretch(records)

(* "Wall-clock time during which the service was not usefully answering":  *)
(* when a probe ran into an outage, and others succeeded before and after  *)
(* it, the number is no less than the time the service really was down.    *)
OutageIsNotUnderstated ==
  LET Seen(Kind, at) == \E i \in DOMAIN records : records[i].kind \in Kind /\ at[records[i].t]
  IN  /\ scored /\ upAt # None
      /\ Seen({"ok"}, [t \in Time |-> t <= downAt])
      /\ Seen(Down, [t \in Time |-> downAt < t /\ t < upAt])
      /\ Seen({"ok"}, [t \in Time |-> t >= upAt])
      => Run.outage >= upAt - downAt

(* Windows are what damage is attributed to (timeline.ts:10-12).  Whatever *)
(* overlaps, aborts or fails, every moment of the run is in a window, none *)
(* in two quiet ones, and none in a quiet one while an action goes on.     *)
QuietIsQuiet ==
  scored =>
    \A t \in 0..(now - 1) :
      LET here  == {i \in DOMAIN Windows : Windows[i].from <= t /\ t < Windows[i].to}
          quiet == {i \in here : Windows[i].kind = "quiet"}
      IN  here # {} /\ (quiet # {} => Cardinality(here) = 1)

(* "Rates must be reported per window" (windows.ts:19): no window looks    *)
(* worse than the headline, and every failure is in one (the headline      *)
(* takes in the last millisecond of the run, which is in no window).       *)
HeadlineCoversWindows ==
  scored =>
    LET scores == [i \in DOMAIN Windows |-> ScoreWindow(Windows[i], records)]
    IN  /\ \A i \in DOMAIN scores :
             /\ scores[i].outage <= Run.outage
             /\ scores[i].worstSecond <= Run.worstSecond
             /\ scores[i].failures <= Run.failures
        /\ \A f \in Failing(records) : records[f].t < now =>
             \E i \in DOMAIN scores :
               Windows[i].from <= records[f].t /\ records[f].t < Windows[i].to
               /\ scores[i].byKind[records[f].kind] > 0

(* A run passes a bar of the project (config: strict, zero-downtime) if and *)
(* only if none of its requests failed, the last to come back included,    *)
(* and what its events, subscriptions and cron came to is within the bar:  *)
(* the verdict on them is the one on a run without requests.  So no failed *)
(* request escapes the headline, and successes alone fail no run, by an    *)
(* outage scored among them or otherwise.                                  *)
PassMeansNothingFailed ==
  scored =>
    \A policy \in {StrictPolicy, ZeroDowntimePolicy}, other \in Measured :
      Passes(policy, Run, other) <=>
        Failing(records) = {} /\ Passes(policy, Overall(<<>>, 0, now), other)

(* What is scored is complete: no loop and no action is left to append to  *)
(* the timeline while or after it is read.                                 *)
TimelineIsFinal == [][scored => UNCHANGED timeline]_vars

(* The run comes to its score whatever is in flight when it stops.         *)
RunIsScored == <>scored

=============================================================================
