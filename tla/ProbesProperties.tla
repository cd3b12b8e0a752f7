-------------------------- MODULE ProbesProperties --------------------------
(* What the outcomes of the probes may be trusted for.                     *)
EXTENDS Probes

(* "They point at completely different bugs and blurring them would        *)
(* destroy the harness's diagnostic value" (probes/types.ts:4): downtime   *)
(* is reported only of a request nobody answered, an error or a wrong      *)
(* result only of an engine that has such a defect; no interleaving of     *)
(* loops, lost answer or late commit makes a probe accuse a correct        *)
(* engine (probes/mutations.ts:8).                                         *)
OutcomeNamesItsCause ==
  \A r \in recorded :
    CASE r.outcome \in {"unavailable", "timeout"} -> "nobody" \in r.answered
      [] r.outcome = "graphql-error" -> "errors" \in r.answered
      [] r.outcome = "wrong-result"  -> defect \in r.answered
      [] r.outcome = "ok"            -> "nobody" \notin r.answered

(* The probes that find a defect, when the engine that has it answers all  *)
(* the requests of an iteration.                                           *)
Finds ==
  [errors     |-> Probe,
   drops      |-> {"m_upsert_on_conflict", "m_update_set", "m_update_jsonb_append",
                   "m_delete_returning"},
   echoes     |-> Probe \ {"denial"},
   ignores    |-> {"m_upsert_on_conflict", "m_update_set", "m_update_jsonb_append"},
   duplicates |-> {"m_upsert_on_conflict"},
   widens     |-> {"denial"}]

(* No defect gets past all the probes: silent corruption, "the worst kind" *)
(* (probes/types.ts:12), is reported by each probe that can see it.        *)
DefectIsReported ==
  \A r \in recorded :
    r.answered = {defect} /\ r.probe \in Finds[defect] => r.outcome # "ok"

=============================================================================
