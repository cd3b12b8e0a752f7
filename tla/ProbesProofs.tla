---------------------------- MODULE ProbesProofs ----------------------------
(***************************************************************************)
(* The outcomes of the probes mean what they say, for any number of loops, *)
(* keys, lost answers and mutations carried out late.                      *)
(***************************************************************************)
EXTENDS ProbesProperties, TLAPS

First  == Inserts \cup {"upsert1"}
Second == {"setStatus", "append", "delete", "upsert9"}
Keyed  == First \cup Second \cup {"count"}

(* The row that the first request of every longer program leaves.          *)
Seeded(k) == <<Row(k, 1, 1, {"a"})>>

-----------------------------------------------------------------------------
(* Programs and requests.                                                  *)

LEMMA Programs ==
  \A p \in Probe :
    /\ p \in Keyless <=> Program[p][1] \in {"inc", "read", "forbidden"}
    /\ p \in Keyless => Len(Program[p]) = 1
    /\ p \notin Keyless => Program[p][1] \in First
    /\ Len(Program[p]) \in {1, 2, 3}
    /\ Len(Program[p]) > 1 => Program[p][1] \in {"seed", "upsert1"} /\ Program[p][2] \in Second
    /\ Len(Program[p]) = 3 => Program[p][2] = "upsert9" /\ Program[p][3] = "count"
    /\ Program[p][2] = "upsert9" /\ Len(Program[p]) > 1 => Len(Program[p]) = 3
<1> QED
  BY DEF Probe, Program, Keyless, First, Second, Inserts

Last(p) == Program[p][Len(Program[p])]

LEMMA LastRequests ==
  /\ Last("m_upsert_on_conflict") = "count"
  /\ Last("m_update_set") = "setStatus"
  /\ Last("m_update_jsonb_append") = "append"
  /\ Last("m_delete_returning") = "delete"
  /\ Last("denial") = "forbidden"
  /\ \A p \in Probe : Last(p) \in Keyed \cup {"inc", "read", "forbidden"}
  /\ \A p \in Probe : p # "denial" => Last(p) # "forbidden"
  /\ \A p \in Probe : Last(p) \notin {"seed", "upsert1"}
<1>1. /\ Last("m_insert_returning") = "insert" /\ Last("m_insert_multi") = "insertMany"
      /\ Last("m_upsert_on_conflict") = "count" /\ Last("m_update_set") = "setStatus"
      /\ Last("m_update_inc") = "inc" /\ Last("m_update_jsonb_append") = "append"
      /\ Last("m_delete_returning") = "delete"
      /\ Last("m_multi_mutation_one_request") = "insertBoth"
      /\ Last("exactMatch") = "read" /\ Last("denial") = "forbidden"
  BY DEF Last, Program
<1>2. \A p \in Probe :
        p \in {"m_insert_returning", "m_insert_multi", "m_upsert_on_conflict", "m_update_set",
              "m_update_inc", "m_update_jsonb_append", "m_delete_returning",
              "m_multi_mutation_one_request", "exactMatch", "denial"}
  BY DEF Probe, Program
<1> QED
  BY <1>1, <1>2 DEF Keyed, First, Second, Inserts

LEMMA NoAnswerKinds == \A end \in NoAnswer : Result(end) \in {"unavailable", "timeout"}
<1> QED
  BY DEF NoAnswer, Result, Thrown, Response, ClassifyThrown, Interpret

LEMMA ResponseKinds == \A b \in {"data", "errors"} :
  Result(Response(200, b)) = IF b = "errors" THEN "graphql-error" ELSE "ok"
<1> QED
  BY DEF Result, Response, Interpret

(* The two ends a request that is answered can have.                       *)
LEMMA VerdictIs ==
  ASSUME NEW d, NEW st, NEW k, NEW rows
  PROVE  Verdict(d, st, k, rows) =
           IF st = "forbidden" THEN (IF HasErrors(d, st, rows) /\ d # "errors" THEN "ok" ELSE "wrong-result")
           ELSE IF HasErrors(d, st, rows) THEN "graphql-error"
           ELSE IF Check(st, k, Returned(d, st, k, rows)) THEN "ok" ELSE "wrong-result"
<1>1. CASE HasErrors(d, st, rows)
  <2>1. Result(Response(200, IF HasErrors(d, st, rows) THEN "errors" ELSE "data")) = "graphql-error"
    BY <1>1, ResponseKinds
  <2> QED
    BY <1>1, <2>1 DEF Verdict, Denied
<1>2. CASE ~HasErrors(d, st, rows)
  <2>1. Result(Response(200, IF HasErrors(d, st, rows) THEN "errors" ELSE "data")) = "ok"
    BY <1>2, ResponseKinds
  <2> QED
    BY <1>2, <2>1 DEF Verdict, Denied
<1> QED
  BY <1>1, <1>2

(* An answer is never taken for downtime, an error is the engine's or a    *)
(* conflict.                                                               *)
LEMMA VerdictKinds ==
  ASSUME NEW d, NEW st, NEW k, NEW rows, ~Conflict(st, rows)
  PROVE  /\ Verdict(d, st, k, rows) \in {"ok", "graphql-error", "wrong-result"}
         /\ Verdict(d, st, k, rows) = "graphql-error" => d = "errors"
<1> QED
  BY VerdictIs DEF HasErrors

-----------------------------------------------------------------------------
(* The rows of a key when an engine alone has answered an iteration so far.*)

RowsAt(d, st, k, rows) ==
  /\ st \in Second => d # "errors" /\ rows = IF d = "drops" THEN <<>> ELSE Seeded(k)
  /\ st = "count" =>
       /\ d \notin {"errors", "echoes", "ignores"}
       /\ Len(rows) = IF d = "drops" THEN 0 ELSE IF d = "duplicates" THEN 2 ELSE 1

LEMMA SeededRow ==
  ASSUME NEW k
  PROVE  /\ Len(Seeded(k)) = 1 /\ DOMAIN Seeded(k) = 1..1 /\ Seeded(k) # <<>>
         /\ Seeded(k)[1].qty = 1 /\ Seeded(k)[1].probe_key = <<k, 1>>
         /\ Seeded(k)[1].status = "new" /\ Seeded(k)[1].payload = {"a"}
         /\ Seeded(k)[1] = [probe_key |-> <<k, 1>>, qty |-> 1, status |-> "new", payload |-> {"a"}]
<1> QED
  BY DEF Seeded, Row

(* An engine without a defect passes every check.                          *)
LEMMA CorrectPasses ==
  ASSUME NEW st \in Keyed, NEW k, NEW rows,
         st \in First => rows = <<>>, RowsAt("correct", st, k, rows)
  PROVE  Verdict("correct", st, k, rows) = "ok"
<1> DEFINE returned == Returned("correct", st, k, rows)
<1>1. CASE st \in First
  <2>1. ~HasErrors("correct", st, rows)
    BY <1>1 DEF First, HasErrors, Conflict, Inserts
  <2>2. returned = Objects(st, k)
    BY <1>1 DEF First, Returned, After, Conflict, Inserts, Upserts
  <2>3. Check(st, k, returned)
    BY <1>1, <2>2 DEF First, Check, Inserts
  <2> QED
    BY <1>1, <2>1, <2>3, VerdictIs DEF First, Inserts
<1>2. CASE st \in Second
  <2>1. rows = Seeded(k)
    BY <1>2 DEF RowsAt
  <2>2. CASE st = "delete"
    <3>1. Check(st, k, returned)
      BY <2>1, <2>2, SeededRow DEF Returned, Check, Upserts
    <3> QED
      BY <2>2, <3>1, VerdictIs DEF HasErrors, Conflict, Inserts
  <2>3. CASE st # "delete"
    <3>1. returned = [n \in 1..1 |-> Updated(st, k, rows[n])]
      BY <1>2, <2>1, <2>3, SeededRow DEF Returned, After, Conflict, Second, Inserts, Upserts, Updates
    <3>2. Len(returned) = 1 /\ returned[1] = Updated(st, k, Seeded(k)[1]) /\ returned # <<>>
      BY <2>1, <3>1
    <3>3. /\ returned[1].probe_key = <<k, 1>>
          /\ st = "upsert9" => returned[1].qty = 9
          /\ st = "setStatus" => returned[1].status = "shipped"
          /\ st = "append" => returned[1].payload = {"a", "b"}
      <4> DEFINE row == Seeded(k)[1]
      <4>1. /\ row.probe_key = <<k, 1>> /\ row.qty = 1
            /\ row.status = "new" /\ row.payload = {"a"}
        BY SeededRow
      <4>2. returned[1] = Updated(st, k, row)
        BY <3>2
      <4> HIDE DEF row, returned
      <4>3. returned[1].probe_key = row.probe_key
        BY <4>2 DEF Updated
      <4>4. st = "upsert9" => returned[1].qty = Objects(st, k)[1].qty
        BY <4>2 DEF Updated, Upserts
      <4>5. st = "upsert9" => Objects(st, k)[1].qty = 9
        BY DEF Objects, Row
      <4>6. st = "setStatus" => returned[1].status = "shipped"
        BY <4>2 DEF Updated
      <4>7. st = "append" => returned[1].payload = row.payload \cup {"b"}
        BY <4>2 DEF Updated
      <4> QED
        BY <4>1, <4>3, <4>4, <4>5, <4>6, <4>7
    <3>4. Check(st, k, returned)
      BY <1>2, <2>3, <3>2, <3>3 DEF Second, Check
    <3> QED
      BY <1>2, <3>4, VerdictIs DEF HasErrors, Conflict, Second, Inserts
  <2> QED
    BY <2>2, <2>3
<1>3. CASE st = "count"
  <2>1. returned = rows /\ Len(rows) = 1
    BY <1>3 DEF RowsAt, Returned, After, Conflict, Inserts, Upserts, Updates
  <2> QED
    BY <1>3, <2>1, VerdictIs DEF HasErrors, Conflict, Inserts, Check
<1> QED
  BY <1>1, <1>2, <1>3 DEF Keyed

(* Nor can an engine with a defect pass a probe that finds it.             *)
LEMMA DefectShows ==
  ASSUME NEW d \in Defect, NEW p \in Probe, p \in Finds[d], NEW k, NEW rows,
         NEW st, st = Last(p),
         st \in First => rows = <<>>, RowsAt(d, st, k, rows),
         st \in {"inc", "read"} => DOMAIN rows = 1..1
  PROVE  Verdict(d, st, k, rows) # "ok"
<1> DEFINE returned == Returned(d, st, k, rows)
<1>0. st \in Keyed \cup {"inc", "read", "forbidden"}
  BY LastRequests
<1>1. CASE d = "errors"
  BY <1>1, VerdictIs DEF HasErrors
<1>2. CASE d = "drops"
  <2>1. st \in {"count", "setStatus", "append", "delete"}
    BY <1>2, LastRequests DEF Finds
  <2>2. rows = <<>> \/ (st = "count" /\ Len(rows) = 0)
    BY <1>2, <2>1 DEF RowsAt, Second
  <2>3. st \in {"count", "delete"} => returned = rows
    BY <1>2, <2>1 DEF Returned, After, Inserts, Upserts, Updates
  <2>4. st \in {"setStatus", "append"} => returned = <<>>
    BY <1>2, <2>1, <2>2 DEF Returned, After, Inserts, Upserts, Updates
  <2>5. ~Check(st, k, returned)
    BY <2>1, <2>2, <2>3, <2>4 DEF Check
  <2> QED
    BY <2>1, <2>5, VerdictIs
<1>3. CASE d = "echoes"
  <2> DEFINE concerned == IF st = "delete" THEN rows ELSE After(st, k, rows)
  <2>1. st # "forbidden" /\ st # "count"
    BY <1>3, LastRequests DEF Finds, RowsAt
  <2>2. returned = [n \in DOMAIN concerned |-> Other]
    BY <1>3 DEF Returned
  <2> HIDE DEF returned, concerned
  <2>3. 1 \in DOMAIN concerned
    <3>1. CASE st \in First
      BY <3>1 DEF concerned, First, After, Inserts, Upserts, Objects
    <3>2. CASE st \in Second
      <4>1. rows = Seeded(k) /\ rows # <<>> /\ DOMAIN rows = 1..1
        BY <1>3, <3>2, SeededRow DEF RowsAt
      <4>2. concerned = IF st = "delete" THEN rows ELSE [n \in DOMAIN rows |-> Updated(st, k, rows[n])]
        BY <3>2, <4>1 DEF concerned, Second, After, Inserts, Upserts, Updates
      <4> QED
        BY <4>1, <4>2
    <3>3. CASE st \in {"inc", "read"}
      BY <3>3 DEF concerned, After, Inserts, Upserts, Updates
    <3> QED
      BY <1>0, <2>1, <3>1, <3>2, <3>3 DEF Keyed
  <2>4. returned[1] = Other
    BY <2>2, <2>3
  <2>5. Other.qty = 0 /\ Other.probe_key = <<0, 0>> /\ Other.status = "other" /\ Other.payload = {}
    BY DEF Other
  <2>6. st \in {"insert", "insertMany", "insertBoth"} => Objects(st, k)[1].qty # 0
    BY DEF Objects, Row
  <2>7. Books[1].qty # 0
    BY DEF Books, Row
  <2>8. ~Check(st, k, returned)
    BY <1>0, <2>1, <2>4, <2>5, <2>6, <2>7, LastRequests DEF Check, Keyed, First, Second, Inserts
  <2> QED
    BY <2>1, <2>8, VerdictIs DEF returned
<1>4. CASE d = "ignores"
  <2>1. st \in {"setStatus", "append"}
    BY <1>4, LastRequests DEF Finds, RowsAt
  <2>2. returned = Seeded(k)
    BY <1>4, <2>1, SeededRow DEF RowsAt, Second, Returned
  <2>3. ~Check(st, k, returned)
    BY <2>1, <2>2, SeededRow DEF Check
  <2> QED
    BY <2>1, <2>3, VerdictIs
<1>5. CASE d = "duplicates"
  <2>1. st = "count"
    BY <1>5, LastRequests DEF Finds
  <2>2. returned = rows /\ Len(rows) = 2
    BY <1>5, <2>1 DEF RowsAt, Returned, After, Inserts, Upserts, Updates
  <2> QED
    BY <2>1, <2>2, VerdictIs DEF Check
<1>6. CASE d = "widens"
  <2>1. st = "forbidden"
    BY <1>6, LastRequests DEF Finds
  <2> QED
    BY <1>6, <2>1, VerdictIs DEF HasErrors, Conflict, Inserts
<1> QED
  BY <1>1, <1>2, <1>3, <1>4, <1>5, <1>6 DEF Defect

(* What a request leaves for the next one of its iteration.                *)
LEMMA NextRows ==
  ASSUME NEW d \in Defect \cup {"correct"}, NEW p \in Probe, NEW i \in 1..2, i < Len(Program[p]),
         NEW st, st = Program[p][i], NEW k, NEW rows,
         st \in First => rows = <<>>, RowsAt(d, st, k, rows), Verdict(d, st, k, rows) = "ok"
  PROVE  RowsAt(d, Program[p][i + 1], k, Committed(d, st, k, rows))
<1> DEFINE left == Committed(d, st, k, rows)
<1>1. CASE i = 1
  <2>1. st \in {"seed", "upsert1"} /\ Program[p][2] \in Second
    BY <1>1, Programs
  <2>2. rows = <<>>
    BY <2>1 DEF First, Inserts
  <2>3. d # "errors"
    BY <2>1, VerdictIs DEF HasErrors
  <2>4. Objects(st, k) = Seeded(k)
    BY <2>1 DEF Objects, Seeded
  <2>5. left = IF d = "drops" THEN <<>> ELSE Seeded(k)
    BY <2>1, <2>2, <2>3, <2>4 DEF Committed, After, Inserts, Upserts, Seeded
  <2> QED
    BY <1>1, <2>1, <2>3, <2>5 DEF RowsAt, Second
<1>2. CASE i = 2
  <2>1. st = "upsert9" /\ Program[p][3] = "count"
    <3>1. Len(Program[p]) \in {1, 2, 3} /\ 2 < Len(Program[p])
      BY <1>2, Programs
    <3>2. ASSUME NEW n \in {1, 2, 3}, 2 < n PROVE n = 3
      BY <3>2
    <3>3. Len(Program[p]) = 3
      BY <3>1, <3>2
    <3> QED
      BY <1>2, <3>3, Programs
  <2>2. d # "errors" /\ rows = IF d = "drops" THEN <<>> ELSE Seeded(k)
    BY <2>1 DEF RowsAt, Second
  <2>3. Check(st, k, Returned(d, st, k, rows))
    BY <2>1, VerdictIs
  <2>4. Returned(d, st, k, rows) # <<>> /\ Returned(d, st, k, rows)[1].qty = 9
    BY <2>1, <2>3 DEF Check
  <2>5. d # "ignores"
    <3>1. d = "ignores" => Returned(d, st, k, rows) = Seeded(k)
      BY <2>1, <2>2, SeededRow DEF Returned
    <3>2. Seeded(k)[1].qty = 1
      BY SeededRow
    <3> QED
      BY <2>4, <3>1, <3>2
  <2>6. d # "echoes"
    <3>1. d = "echoes" => Returned(d, st, k, rows) = [n \in 1..1 |-> Other]
      BY <2>1, <2>2, SeededRow DEF Returned, After, Inserts, Upserts
    <3>2. Other.qty = 0
      BY DEF Other
    <3> QED
      BY <2>4, <3>1, <3>2
  <2>8. CASE d = "duplicates"
    <3>1. left = Seeded(k) \o Objects(st, k)
      BY <2>1, <2>2, <2>8 DEF Committed, Upserts
    <3>2. Len(left) = 2
      BY <2>1, <3>1 DEF Objects, Seeded
    <3> QED
      BY <1>2, <2>1, <2>8, <3>2 DEF RowsAt, Second
  <2>9. CASE d \in {"widens", "correct"}
    <3>1. left = [n \in 1..1 |-> Updated(st, k, rows[n])]
      BY <2>1, <2>2, <2>9, SeededRow DEF Committed, After, Inserts, Upserts
    <3>2. Len(left) = 1
      BY <3>1
    <3>3. RowsAt(d, "count", k, left)
      BY <2>9, <3>2 DEF RowsAt, Second
    <3> QED
      BY <1>2, <2>1, <3>3
  <2>10. d = "drops" => RowsAt(d, "count", k, left)
    BY <2>1, <2>2 DEF Committed, RowsAt, Second
  <2> QED
    BY <1>2, <2>1, <2>2, <2>5, <2>6, <2>8, <2>9, <2>10 DEF Defect
<1> QED
  BY <1>1, <1>2

-----------------------------------------------------------------------------
(* The state.                                                              *)

Running(l)  == run[l] # Idle
KeyedRun(l) == Running(l) /\ run[l].probe \notin Keyless

TypeInv ==
  /\ ProbesTypeOK
  /\ orders = [k \in Key |-> orders[k]]
  /\ run = [l \in Loop |-> run[l]]

(* Whose a key is.                                                         *)
KeysInv ==
  /\ \A l \in Loop : KeyedRun(l) => run[l].key < nextKey
  /\ \A l, m \in Loop : KeyedRun(l) /\ KeyedRun(m) /\ l # m => run[l].key # run[m].key
  /\ \A x \in late : x[2] # "inc" =>
       x[1] < nextKey /\ \A l \in Loop : KeyedRun(l) => run[l].key # x[1]
  /\ \A k \in Key : k >= nextKey => orders[k] = <<>>

(* What an iteration under way has found and left.                         *)
RunsInv ==
  \A l \in Loop : Running(l) =>
    /\ run[l].at <= Len(Program[run[l].probe])
    /\ run[l].answered \subseteq {defect, "correct"}
    /\ KeyedRun(l) /\ Request(l) \in First => orders[run[l].key] = <<>>
    /\ KeyedRun(l) => \A d \in {defect, "correct"} :
         run[l].answered \subseteq {d} => RowsAt(d, Request(l), run[l].key, orders[run[l].key])

ProbesInv == TypeInv /\ KeysInv /\ RunsInv

LEMMA RunType ==
  ASSUME TypeInv, NEW l \in Loop, Running(l)
  PROVE  /\ run[l] \in [probe : Probe, key : Key, at : 1..3, answered : SUBSET Answerer]
         /\ run[l].probe \in Probe /\ run[l].key \in Key /\ run[l].at \in 1..3
<1> QED
  BY DEF TypeInv, ProbesTypeOK, Running

LEMMA Requests ==
  ASSUME NEW p \in Probe, NEW i \in 1..3, i <= Len(Program[p])
  PROVE  /\ p \in Keyless => Program[p][i] \in {"inc", "read", "forbidden"}
         /\ p \notin Keyless => Program[p][i] \in Keyed
         /\ i > 1 => Program[p][i] \notin First
         /\ p \notin Keyless => (i = 1 <=> Program[p][i] \in First)
<1>1. CASE i = 1
  BY <1>1, Programs DEF Keyed
<1>2. CASE i = 2
  BY <1>2, Programs DEF Keyed, First, Second, Inserts
<1>3. CASE i = 3
  BY <1>3, Programs DEF Keyed, First, Inserts
<1> QED
  BY <1>1, <1>2, <1>3

-----------------------------------------------------------------------------
(* What a transaction does to the tables.                                  *)

LEMMA CommitTouches ==
  ASSUME TypeInv, NEW d, NEW st, NEW k \in Key, Commit(d, st, k)
  PROVE  /\ orders' = [j \in Key |-> orders'[j]]
         /\ \A j \in Key : j # k => orders'[j] = orders[j]
         /\ st \notin Mutations \ {"inc"} => orders' = orders
         /\ st \in Keyed => orders'[k] = Committed(d, st, k, orders[k])
<1>1. CASE st = "inc"
  BY <1>1 DEF Commit, TypeInv, Keyed, First, Second, Inserts
<1>2. CASE st # "inc" /\ st \in Mutations
  <2>1. orders' = [orders EXCEPT ![k] = Committed(d, st, k, orders[k])]
    BY <1>2 DEF Commit, Named, Mutations, Inserts, Upserts, Updates
  <2> QED
    BY <1>2, <2>1 DEF TypeInv
<1>3. CASE st # "inc" /\ st \notin Mutations
  <2>1. orders' = orders
    BY <1>3 DEF Commit
  <2>2. Committed(d, st, k, orders[k]) = orders[k]
    BY <1>3 DEF Committed, After, Mutations
  <2> QED
    BY <1>3, <2>1, <2>2 DEF TypeInv
<1> QED
  BY <1>1, <1>2, <1>3

LEMMA CommittedTypes ==
  ASSUME NEW k \in Key, NEW rows \in Seq(OrderRow(k)), NEW d, NEW st \in Mutations \ {"inc"}
  PROVE  Committed(d, st, k, rows) \in Seq(OrderRow(k))
<1>1. ASSUME st \in Inserts \cup Upserts PROVE Objects(st, k) \in Seq(OrderRow(k))
  <2>1. \A n \in 1..3, qty \in 1..9, payload \in SUBSET {"origin", "a", "b"} :
          Row(k, n, qty, payload) \in OrderRow(k)
    BY DEF Row, OrderRow
  <2>2. {"origin"} \in SUBSET {"origin", "a", "b"} /\ {"a"} \in SUBSET {"origin", "a", "b"}
        /\ {} \in SUBSET {"origin", "a", "b"}
    OBVIOUS
  <2>3. /\ Row(k, 1, 4, {"origin"}) \in OrderRow(k) /\ Row(k, 1, 9, {}) \in OrderRow(k)
        /\ Row(k, 1, 1, {"a"}) \in OrderRow(k)
        /\ \A n \in 1..3 : Row(k, n, n, {}) \in OrderRow(k)
    BY <2>1, <2>2
  <2> QED
    BY <2>3 DEF Objects
<1>2. ASSUME st \in Upserts \cup Updates, NEW row \in OrderRow(k)
      PROVE  Updated(st, k, row) \in OrderRow(k)
  BY <1>2 DEF Updated, OrderRow, Upserts, Updates, Objects, Row
<1>3. After(st, k, rows) \in Seq(OrderRow(k))
  BY <1>1, <1>2 DEF After
<1> QED
  BY <1>1, <1>3 DEF Committed

LEMMA CommitTypes ==
  ASSUME TypeInv, NEW d, NEW st, NEW k \in Key, Commit(d, st, k)
  PROVE  /\ \A j \in Key : orders'[j] \in Seq(OrderRow(j))
         /\ counter' \in 0..MaxCounter
<1>1. \A j \in Key : orders'[j] \in Seq(OrderRow(j))
  <2>1. CASE st \in Mutations \ {"inc"}
    <3>1. orders'[k] = Committed(d, st, k, orders[k])
      BY <2>1, CommitTouches DEF Keyed, First, Second, Mutations, Inserts, Upserts, Updates
    <3> QED
      BY <2>1, <3>1, CommittedTypes, CommitTouches DEF TypeInv, ProbesTypeOK
  <2>2. CASE st \notin Mutations \ {"inc"}
    BY <2>2, CommitTouches DEF TypeInv, ProbesTypeOK
  <2> QED
    BY <2>1, <2>2
<1>2. counter' \in 0..MaxCounter
  <2>1. CASE st = "inc"
    <3> DEFINE named == <<Row(0, 1, counter, {})>>
               rows  == Committed(d, st, k, named)
    <3>1. rows[1].qty <= MaxCounter /\ counter' = rows[1].qty
      BY <2>1 DEF Commit, Named
    <3>2. DOMAIN named = 1..1 /\ named[1].qty = counter
      BY DEF Row
    <3>3. rows = named \/ rows = [n \in DOMAIN named |-> Updated(st, k, named[n])]
      BY <2>1 DEF Committed, After, Inserts, Upserts, Updates
    <3>4. Updated(st, k, named[1]).qty = counter + 1
      BY <2>1, <3>2 DEF Updated, Upserts
    <3>5. rows[1].qty \in {counter, counter + 1}
      BY <3>2, <3>3, <3>4
    <3> QED
      BY <3>1, <3>5, BoundsAreNat DEF TypeInv, ProbesTypeOK
  <2>2. CASE st # "inc"
    BY <2>2 DEF Commit, TypeInv, ProbesTypeOK
  <2> QED
    BY <2>1, <2>2
<1> QED
  BY <1>1, <1>2

-----------------------------------------------------------------------------
(* The request of a loop is answered.                                      *)

Promises == OutcomeNamesItsCause /\ DefectIsReported

LEMMA RequestOf ==
  ASSUME ProbesInv, NEW l \in Loop, Running(l)
  PROVE  /\ KeyedRun(l) => Request(l) \in Keyed /\ Named(Request(l), run[l].key) = orders[run[l].key]
         /\ ~KeyedRun(l) => /\ Request(l) \in {"inc", "read", "forbidden"}
                            /\ run[l].at = Len(Program[run[l].probe])
         /\ ~Conflict(Request(l), Named(Request(l), run[l].key))
<1>1. Request(l) = Program[run[l].probe][run[l].at] /\ run[l].at <= Len(Program[run[l].probe])
  BY DEF Request, ProbesInv, RunsInv
<1>2. /\ KeyedRun(l) => Request(l) \in Keyed
      /\ ~KeyedRun(l) => Request(l) \in {"inc", "read", "forbidden"}
  BY <1>1, RunType, Requests DEF ProbesInv, KeyedRun
<1>3. ~KeyedRun(l) => run[l].at = Len(Program[run[l].probe])
  <2>1. ~KeyedRun(l) => Len(Program[run[l].probe]) = 1
    BY RunType, Programs DEF ProbesInv, KeyedRun
  <2>2. ASSUME NEW i \in 1..3, i <= 1 PROVE i = 1
    BY <2>2
  <2>3. run[l].at \in 1..3
    BY RunType DEF ProbesInv
  <2> QED
    BY <1>1, <2>1, <2>2, <2>3
<1>4. KeyedRun(l) => Named(Request(l), run[l].key) = orders[run[l].key]
  BY <1>2 DEF Named, Keyed, First, Second, Inserts
<1>5. ~Conflict(Request(l), Named(Request(l), run[l].key))
  BY <1>2, <1>4 DEF Conflict, ProbesInv, RunsInv, First, Inserts
<1> QED
  BY <1>2, <1>3, <1>4, <1>5

(* The verdict a probe reaches, and whom it may accuse.                    *)
LEMMA JustVerdict ==
  ASSUME ProbesInv, NEW l \in Loop, Running(l), NEW d \in {defect, "correct"},
         NEW verdict, verdict = Verdict(d, Request(l), run[l].key, Named(Request(l), run[l].key)),
         NEW by, by = run[l].answered \cup {d}
  PROVE  /\ verdict \in {"ok", "graphql-error", "wrong-result"}
         /\ verdict = "graphql-error" => "errors" \in by
         /\ verdict = "wrong-result" => defect \in by
         /\ by = {defect} /\ run[l].probe \in Finds[defect]
            /\ run[l].at = Len(Program[run[l].probe]) => verdict # "ok"
<1> DEFINE st == Request(l)
           k  == run[l].key
<1>1. verdict \in {"ok", "graphql-error", "wrong-result"} /\ (verdict = "graphql-error" => d = "errors")
  BY RequestOf, VerdictKinds
<1>2. KeyedRun(l) /\ st \in First => orders[k] = <<>>
  BY DEF ProbesInv, RunsInv
<1>3. KeyedRun(l) /\ run[l].answered \subseteq {d} => RowsAt(d, st, k, orders[k])
  BY DEF ProbesInv, RunsInv
<1>4. ASSUME verdict = "wrong-result", defect \notin by PROVE FALSE
  <2>1. d = "correct" /\ run[l].answered \subseteq {d}
    BY <1>4 DEF ProbesInv, RunsInv
  <2>2. CASE KeyedRun(l)
    BY <1>2, <1>3, <1>4, <2>1, <2>2, RequestOf, CorrectPasses
  <2>3. CASE ~KeyedRun(l)
    <3>1. st \in {"inc", "read", "forbidden"}
      BY <2>3, RequestOf
    <3>2. CASE st = "forbidden"
      BY <1>4, <2>1, <3>2, VerdictIs DEF HasErrors
    <3>3. CASE st = "read"
      <4>1. Returned("correct", st, k, Named(st, k)) = Books
        BY <3>3 DEF Returned, After, Named, Inserts, Upserts, Updates
      <4>2. ~HasErrors("correct", st, Named(st, k)) /\ Check(st, k, Books)
        BY <3>3 DEF HasErrors, Conflict, Inserts, Check
      <4> QED
        BY <1>4, <2>1, <3>3, <4>1, <4>2, VerdictIs
    <3>4. CASE st = "inc"
      <4> DEFINE rows == <<Row(0, 1, counter, {})>>
      <4>1. Returned("correct", st, k, rows) = [n \in 1..1 |-> Updated(st, k, rows[n])]
        BY <3>4 DEF Returned, After, Inserts, Upserts, Updates
      <4>2. Updated(st, k, rows[1]).qty = counter + 1
        BY <3>4 DEF Updated, Upserts, Row
      <4>3. counter + 1 >= 1
        BY BoundsAreNat DEF ProbesInv, TypeInv, ProbesTypeOK
      <4>4. Check(st, k, Returned("correct", st, k, rows))
        BY <3>4, <4>1, <4>2, <4>3 DEF Check
      <4>5. Named(st, k) = rows /\ ~HasErrors("correct", st, rows)
        BY <3>4 DEF Named, HasErrors, Conflict, Inserts
      <4> QED
        BY <1>4, <2>1, <3>4, <4>4, <4>5, VerdictIs
    <3> QED
      BY <3>1, <3>2, <3>3, <3>4
  <2> QED
    BY <2>2, <2>3
<1>5. ASSUME by = {defect}, run[l].probe \in Finds[defect], run[l].at = Len(Program[run[l].probe])
      PROVE  verdict # "ok"
  <2>1. d = defect /\ run[l].answered \subseteq {d} /\ st = Last(run[l].probe) /\ d \in Defect
    BY <1>5 DEF Last, Request, ProbesInv, TypeInv, ProbesTypeOK
  <2>2. run[l].probe \in Probe
    BY RunType DEF ProbesInv
  <2>3. CASE KeyedRun(l)
    <3>1. Named(st, k) = orders[k] /\ st \in Keyed
      BY <2>3, RequestOf
    <3>2. st \notin {"inc", "read"}
      BY <3>1 DEF Keyed, First, Second, Inserts
    <3> QED
      BY <1>2, <1>3, <1>5, <2>1, <2>2, <2>3, <3>1, <3>2, DefectShows
  <2>4. CASE ~KeyedRun(l)
    <3>1. st \in {"inc", "read", "forbidden"}
      BY <2>4, RequestOf
    <3>2. st \notin First /\ RowsAt(d, st, k, Named(st, k))
      BY <3>1 DEF First, Inserts, RowsAt, Second
    <3>3. st \in {"inc", "read"} => DOMAIN Named(st, k) = 1..1
      BY DEF Named, Books
    <3> QED
      BY <1>5, <2>1, <2>2, <3>2, <3>3, DefectShows
  <2> QED
    BY <2>3, <2>4
<1> QED
  BY <1>1, <1>4, <1>5

-----------------------------------------------------------------------------
(* The steps.                                                              *)

(* A request ends, for the loop that made it.                              *)
LEMMA ProceedTypes ==
  ASSUME TypeInv, NEW l \in Loop, Running(l), NEW verdict \in ResultKind \cup {"wrong-result"},
         NEW who \in {defect, "correct", "nobody"}, Proceed(l, verdict, who),
         run[l].at <= Len(Program[run[l].probe])
  PROVE  /\ run' = [m \in Loop |-> run'[m]]
         /\ \A m \in Loop : run'[m] = Idle \/
              run'[m] \in [probe : Probe, key : Key, at : 1..3, answered : SUBSET Answerer]
         /\ \A m \in Loop : m # l => run'[m] = run[m]
         /\ run'[l] # Idle =>
              /\ verdict = "ok" /\ run[l].at < Len(Program[run[l].probe])
              /\ run'[l].probe = run[l].probe /\ run'[l].key = run[l].key
              /\ run'[l].at = run[l].at + 1
              /\ run'[l].answered = run[l].answered \cup {who}
         /\ recorded' \in SUBSET [probe : Probe, answered : SUBSET Answerer,
                                  outcome : ResultKind \cup {"wrong-result"}]
         /\ \A r \in recorded' :
              /\ r.probe = run[l].probe /\ r.outcome = verdict
              /\ r.answered = run[l].answered \cup {who}
              /\ verdict = "ok" => ~(run[l].at < Len(Program[run[l].probe]))
<1> DEFINE by == run[l].answered \cup {who}
<1>1. run[l] \in [probe : Probe, key : Key, at : 1..3, answered : SUBSET Answerer]
  BY RunType
<1>2. by \in SUBSET Answerer
  BY <1>1 DEF TypeInv, ProbesTypeOK, Answerer
<1>3. CASE verdict = "ok" /\ run[l].at < Len(Program[run[l].probe])
  <2>1. /\ run' = [run EXCEPT ![l].at = @ + 1, ![l].answered = by]
        /\ recorded' = {}
    BY <1>3 DEF Proceed
  <2>2. run'[l] = [run[l] EXCEPT !.at = @ + 1, !.answered = by]
    BY <2>1 DEF TypeInv
  <2>3. /\ run'[l].probe = run[l].probe /\ run'[l].key = run[l].key
        /\ run'[l].at = run[l].at + 1 /\ run'[l].answered = by
    BY <1>1, <2>2
  <2>4. run[l].at + 1 \in 1..3
    <3>1. Len(Program[run[l].probe]) \in {1, 2, 3}
      BY <1>1, Programs
    <3>2. ASSUME NEW i \in 1..3, NEW n \in {1, 2, 3}, i < n PROVE i + 1 \in 1..3
      BY <3>2
    <3> QED
      BY <1>1, <1>3, <3>1, <3>2
  <2>5. run'[l] \in [probe : Probe, key : Key, at : 1..3, answered : SUBSET Answerer]
    BY <1>1, <1>2, <2>2, <2>4
  <2> QED
    BY <1>3, <2>1, <2>3, <2>5 DEF TypeInv, ProbesTypeOK
<1>4. CASE ~(verdict = "ok" /\ run[l].at < Len(Program[run[l].probe]))
  <2>1. /\ run' = [run EXCEPT ![l] = Idle]
        /\ recorded' = {[probe |-> run[l].probe, answered |-> by, outcome |-> verdict]}
    BY <1>4 DEF Proceed
  <2> DEFINE r == [probe |-> run[l].probe, answered |-> by, outcome |-> verdict]
  <2>2. r \in [probe : Probe, answered : SUBSET Answerer, outcome : ResultKind \cup {"wrong-result"}]
    BY <1>1, <1>2
  <2>3. r.probe = run[l].probe /\ r.answered = by /\ r.outcome = verdict
    OBVIOUS
  <2>4. run'[l] = Idle /\ \A m \in Loop : m # l => run'[m] = run[m]
    BY <2>1 DEF TypeInv
  <2>5. run' = [m \in Loop |-> run'[m]]
    BY <2>1 DEF TypeInv
  <2> HIDE DEF r
  <2>6. recorded' = {r}
    BY <2>1 DEF r
  <2> QED
    BY <1>4, <2>2, <2>3, <2>4, <2>5, <2>6 DEF TypeInv, ProbesTypeOK
<1> QED
  BY <1>3, <1>4

LEMMA BeginStep ==
  ASSUME ProbesInv, NEW l \in Loop, NEW p \in Probe, Begin(l, p)
  PROVE  ProbesInv' /\ Promises'
<1> DEFINE x == [probe |-> p, key |-> IF p \in Keyless THEN 1 ELSE nextKey, at |-> 1, answered |-> {}]
<1>1. /\ run' = [run EXCEPT ![l] = x] /\ recorded' = {}
      /\ UNCHANGED <<defect, orders, counter, late>>
      /\ p \in Keyless => nextKey' = nextKey
      /\ p \notin Keyless => nextKey <= MaxKeys /\ nextKey' = nextKey + 1
      /\ run[l] = Idle
  BY DEF Begin, tableVars, NextKey
<1>2. /\ nextKey \in 1..(MaxKeys + 1) /\ MaxKeys \in Nat \ {0}
      /\ nextKey' \in 1..(MaxKeys + 1) /\ nextKey <= nextKey'
  BY <1>1, BoundsAreNat DEF ProbesInv, TypeInv, ProbesTypeOK
<1>3. x \in [probe : Probe, key : Key, at : 1..3, answered : SUBSET Answerer]
  BY <1>1, <1>2 DEF Key
<1>4. /\ run'[l] = x /\ run' = [m \in Loop |-> run'[m]]
      /\ \A m \in Loop : m # l => run'[m] = run[m]
  BY <1>1 DEF ProbesInv, TypeInv
<1>5. TypeInv'
  BY <1>1, <1>2, <1>3, <1>4 DEF ProbesInv, TypeInv, ProbesTypeOK
<1>6. /\ ~KeyedRun(l)
      /\ KeyedRun(l)' => p \notin Keyless /\ run'[l].key = nextKey
      /\ \A m \in Loop : m # l => (KeyedRun(m)' <=> KeyedRun(m))
  BY <1>1, <1>4 DEF KeyedRun, Running
<1>7. KeysInv'
  <2>1. \A m \in Loop : KeyedRun(m) => run[m].key \in Nat /\ run[m].key < nextKey
    BY RunType DEF ProbesInv, KeysInv, KeyedRun, Key
  <2>2. \A m \in Loop : KeyedRun(m)' => run'[m].key < nextKey'
    BY <1>1, <1>2, <1>4, <1>6, <2>1
  <2>3. \A m, n \in Loop : KeyedRun(m)' /\ KeyedRun(n)' /\ m # n => run'[m].key # run'[n].key
    BY <1>2, <1>4, <1>6, <2>1 DEF ProbesInv, KeysInv
  <2>4. \A y \in late : y[2] # "inc" =>
          y[1] < nextKey' /\ \A m \in Loop : KeyedRun(m)' => run'[m].key # y[1]
    <3>1. \A y \in late : y[1] \in Nat
      BY DEF ProbesInv, TypeInv, ProbesTypeOK, Key
    <3> QED
      BY <1>2, <1>4, <1>6, <3>1 DEF ProbesInv, KeysInv
  <2>5. \A k \in Key : k >= nextKey' => orders[k] = <<>>
    BY <1>2 DEF ProbesInv, KeysInv, Key
  <2> QED
    BY <1>1, <2>2, <2>3, <2>4, <2>5 DEF KeysInv
<1>8. RunsInv'
  <2>1. \A m \in Loop : m # l => Request(m)' = Request(m) /\ (Running(m)' <=> Running(m))
    BY <1>4 DEF Request, Running
  <2>2. run'[l].at <= Len(Program[p]) /\ run'[l].answered = {}
    BY <1>4, Programs
  <2>3. KeyedRun(l)' => orders[nextKey] = <<>> /\ Request(l)' \in First
    <3>1. p \notin Keyless => nextKey \in Key /\ Program[p][1] \in First
      BY <1>1, <1>2, Programs DEF Key
    <3> QED
      BY <1>2, <1>4, <1>6, <3>1 DEF Request, ProbesInv, KeysInv
  <2>4. \A d, k, rows : Request(l)' \in First => RowsAt(d, Request(l)', k, rows)
    BY DEF First, Second, Inserts, RowsAt
  <2> QED
    BY <1>1, <1>4, <1>6, <2>1, <2>2, <2>3, <2>4 DEF ProbesInv, RunsInv
<1> QED
  BY <1>1, <1>5, <1>7, <1>8 DEF ProbesInv, Promises, OutcomeNamesItsCause, DefectIsReported

(* A request that ends disturbs no other loop, and leaves its own with     *)
(* what the next request counts on.                                        *)
LEMMA EndsStep ==
  ASSUME ProbesInv, NEW l \in Loop, Running(l), NEW verdict \in ResultKind \cup {"wrong-result"},
         NEW who \in {defect, "correct", "nobody"}, Proceed(l, verdict, who),
         UNCHANGED <<defect, nextKey>>, TypeInv',
         \A j \in Key : j # run[l].key \/ ~KeyedRun(l) => orders'[j] = orders[j],
         late' \subseteq late \cup {<<run[l].key, Request(l)>>},
         verdict = "ok" =>
           /\ late' = late /\ who # "nobody"
           /\ verdict = Verdict(who, Request(l), run[l].key, Named(Request(l), run[l].key))
           /\ KeyedRun(l) =>
                orders'[run[l].key] = Committed(who, Request(l), run[l].key, orders[run[l].key])
  PROVE  KeysInv' /\ RunsInv'
<1> DEFINE k  == run[l].key
           st == Request(l)
<1>1. /\ \A m \in Loop : m # l => run'[m] = run[m]
      /\ run'[l] # Idle =>
           /\ verdict = "ok" /\ run[l].at < Len(Program[run[l].probe])
           /\ run'[l].probe = run[l].probe /\ run'[l].key = k
           /\ run'[l].at = run[l].at + 1
           /\ run'[l].answered = run[l].answered \cup {who}
  BY ProceedTypes DEF ProbesInv, RunsInv
<1>2. \A m \in Loop : KeyedRun(m)' => KeyedRun(m) /\ run'[m].key = run[m].key
  BY <1>1 DEF KeyedRun, Running
<1>3. k \in Key /\ nextKey \in Nat
  BY RunType DEF ProbesInv, TypeInv, ProbesTypeOK
<1>4. ~KeyedRun(l) => st \in {"inc", "read", "forbidden"} /\ run'[l] = Idle
  BY <1>1, RequestOf, RunType, Programs DEF ProbesInv, TypeInv, ProbesTypeOK
<1>5. KeysInv'
  <2>1. \A m \in Loop : KeyedRun(m)' => run'[m].key < nextKey'
    BY <1>2 DEF ProbesInv, KeysInv
  <2>2. \A m, n \in Loop : KeyedRun(m)' /\ KeyedRun(n)' /\ m # n => run'[m].key # run'[n].key
    BY <1>2 DEF ProbesInv, KeysInv
  <2>3. \A y \in late' : y[2] # "inc" =>
          y[1] < nextKey' /\ \A m \in Loop : KeyedRun(m)' => run'[m].key # y[1]
    <3>1. CASE late' = late
      BY <1>2, <3>1 DEF ProbesInv, KeysInv
    <3>2. CASE late' # late
      <4>1. ~KeyedRun(l)'
        BY <1>1, <3>2 DEF KeyedRun, Running
      <4>2. CASE KeyedRun(l)
        BY <1>2, <4>1, <4>2 DEF ProbesInv, KeysInv
      <4>3. CASE ~KeyedRun(l)
        <5>1. \A y \in late' : y \in late \/ y[2] \in {"inc", "read", "forbidden"}
          BY <1>4, <4>3
        <5>2. late' \in SUBSET (Key \X Mutations)
          BY DEF TypeInv, ProbesTypeOK
        <5>3. \A y \in late' : y \in late \/ y[2] = "inc"
          BY <5>1, <5>2 DEF Mutations, Inserts, Upserts, Updates
        <5> QED
          BY <1>2, <5>3 DEF ProbesInv, KeysInv
      <4> QED
        BY <4>2, <4>3
    <3> QED
      BY <3>1, <3>2
  <2>4. \A j \in Key : j >= nextKey' => orders'[j] = <<>>
    <3>1. KeyedRun(l) => k < nextKey
      BY DEF ProbesInv, KeysInv
    <3>2. \A j \in Key : j >= nextKey => j # k \/ ~KeyedRun(l)
      BY <1>3, <3>1 DEF Key
    <3> QED
      BY <3>2 DEF ProbesInv, KeysInv
  <2> QED
    BY <2>1, <2>2, <2>3, <2>4 DEF KeysInv
<1>6. ASSUME NEW m \in Loop, Running(m)', m # l
      PROVE  /\ run'[m].at <= Len(Program[run'[m].probe])
             /\ run'[m].answered \subseteq {defect', "correct"}
             /\ KeyedRun(m)' /\ Request(m)' \in First => orders'[run'[m].key] = <<>>
             /\ KeyedRun(m)' => \A d \in {defect', "correct"} :
                  run'[m].answered \subseteq {d} => RowsAt(d, Request(m)', run'[m].key, orders'[run'[m].key])
  <2>1. run'[m] = run[m] /\ Request(m)' = Request(m) /\ Running(m) /\ (KeyedRun(m)' <=> KeyedRun(m))
    BY <1>1, <1>6 DEF Request, KeyedRun, Running
  <2>2. KeyedRun(m) => orders'[run[m].key] = orders[run[m].key]
    <3>1. run[m].key \in Key
      BY <2>1, RunType DEF ProbesInv
    <3> QED
      BY <1>6, <3>1 DEF ProbesInv, KeysInv
  <2> QED
    BY <2>1, <2>2 DEF ProbesInv, RunsInv
<1>7. ASSUME Running(l)'
      PROVE  /\ run'[l].at <= Len(Program[run'[l].probe])
             /\ run'[l].answered \subseteq {defect', "correct"}
             /\ KeyedRun(l)' /\ Request(l)' \in First => orders'[run'[l].key] = <<>>
             /\ KeyedRun(l)' => \A d \in {defect', "correct"} :
                  run'[l].answered \subseteq {d} => RowsAt(d, Request(l)', run'[l].key, orders'[run'[l].key])
  <2> DEFINE p == run[l].probe
             i == run[l].at
  <2>1. /\ verdict = "ok" /\ i < Len(Program[p]) /\ run'[l].probe = p /\ run'[l].key = k
        /\ run'[l].at = i + 1 /\ run'[l].answered = run[l].answered \cup {who}
        /\ KeyedRun(l) /\ Request(l)' = Program[p][i + 1] /\ st = Program[p][i]
    BY <1>1, <1>4, <1>7 DEF Running, Request
  <2>2. p \in Probe /\ i \in 1..3 /\ Len(Program[p]) \in {1, 2, 3}
    BY RunType, Programs DEF ProbesInv
  <2> HIDE DEF i, p, k, st
  <2>3. ASSUME NEW n \in {1, 2, 3}, i < n PROVE i \in 1..2 /\ i + 1 \in 1..3 /\ i + 1 > 1 /\ i + 1 <= n
    BY <2>2, <2>3
  <2>4. i \in 1..2 /\ i + 1 \in 1..3 /\ i + 1 > 1 /\ i + 1 <= Len(Program[p])
    BY <2>1, <2>2, <2>3
  <2>5. Program[p][i + 1] \notin First
    BY <2>2, <2>4, Requests
  <2>6. who \in {defect, "correct"}
    BY <2>1
  <2>7. \A d \in {defect', "correct"} :
          run'[l].answered \subseteq {d} => RowsAt(d, Program[p][i + 1], k, orders'[k])
    <3> SUFFICES ASSUME NEW d \in {defect, "correct"}, run[l].answered \cup {who} \subseteq {d}
                 PROVE  RowsAt(d, Program[p][i + 1], k, orders'[k])
      BY <2>1
    <3>1. d = who /\ run[l].answered \subseteq {d} /\ d \in Defect \cup {"correct"}
      BY DEF ProbesInv, TypeInv, ProbesTypeOK
    <3>2. st \in First => orders[k] = <<>>
      BY <2>1 DEF ProbesInv, RunsInv, st, k
    <3>3. RowsAt(d, st, k, orders[k])
      BY <2>1, <3>1 DEF ProbesInv, RunsInv, st, k
    <3>4. Verdict(d, st, k, orders[k]) = "ok"
      BY <2>1, <3>1, RequestOf DEF st, k
    <3>5. orders'[k] = Committed(d, st, k, orders[k])
      BY <2>1, <3>1 DEF st, k
    <3>6. p \in Probe /\ i \in 1..2 /\ i < Len(Program[p]) /\ st = Program[p][i]
      BY <2>1, <2>2, <2>4
    <3>7. d \in Defect \cup {"correct"}
      BY <3>1
    <3>8. RowsAt(d, Program[p][i + 1], k, Committed(d, st, k, orders[k]))
      BY <3>2, <3>3, <3>4, <3>6, <3>7, NextRows, Zenon
    <3> QED
      BY <3>5, <3>8
  <2> QED
    BY <2>1, <2>4, <2>5, <2>6, <2>7 DEF ProbesInv, RunsInv
<1> QED
  BY <1>5, <1>6, <1>7 DEF RunsInv

LEMMA AnswerStep ==
  ASSUME ProbesInv, NEW l \in Loop, NEW d \in {defect, "correct"}, Answer(l, d)
  PROVE  ProbesInv' /\ Promises'
<1> DEFINE k == run[l].key
           st == Request(l)
           verdict == Verdict(d, st, k, Named(st, k))
           by == run[l].answered \cup {d}
<1>1. /\ Running(l) /\ Commit(d, st, k) /\ Proceed(l, verdict, d)
      /\ UNCHANGED <<defect, nextKey, late>>
  BY DEF Answer, Running
<1>2. /\ verdict \in {"ok", "graphql-error", "wrong-result"}
      /\ verdict = "graphql-error" => "errors" \in by
      /\ verdict = "wrong-result" => defect \in by
      /\ by = {defect} /\ run[l].probe \in Finds[defect]
         /\ run[l].at = Len(Program[run[l].probe]) => verdict # "ok"
  BY <1>1, JustVerdict
<1>3. k \in Key /\ run[l].at <= Len(Program[run[l].probe]) /\ run[l].answered \subseteq {defect, "correct"}
  BY <1>1, RunType DEF ProbesInv, RunsInv
<1> HIDE DEF verdict, by
<1>4. verdict \in ResultKind \cup {"wrong-result"} /\ d \in {defect, "correct", "nobody"}
  BY <1>2 DEF ResultKind
<1>5. /\ run' = [m \in Loop |-> run'[m]]
      /\ \A m \in Loop : run'[m] = Idle \/
           run'[m] \in [probe : Probe, key : Key, at : 1..3, answered : SUBSET Answerer]
      /\ recorded' \in SUBSET [probe : Probe, answered : SUBSET Answerer,
                               outcome : ResultKind \cup {"wrong-result"}]
      /\ \A r \in recorded' :
           /\ r.probe = run[l].probe /\ r.outcome = verdict
           /\ r.answered = by
           /\ verdict = "ok" => ~(run[l].at < Len(Program[run[l].probe]))
  BY <1>1, <1>3, <1>4, ProceedTypes DEF ProbesInv, by
<1>6. TypeInv'
  <2>1. /\ orders' = [j \in Key |-> orders'[j]]
        /\ \A j \in Key : orders'[j] \in Seq(OrderRow(j))
        /\ counter' \in 0..MaxCounter
    BY <1>1, <1>3, CommitTypes, CommitTouches DEF ProbesInv
  <2> QED
    BY <1>1, <1>5, <2>1 DEF ProbesInv, TypeInv, ProbesTypeOK
<1>7. \A j \in Key : j # k \/ ~KeyedRun(l) => orders'[j] = orders[j]
  <2>1. ~KeyedRun(l) => st \notin Mutations \ {"inc"}
    BY <1>1, RequestOf DEF Mutations, Inserts, Upserts, Updates
  <2> QED
    BY <1>1, <1>3, <2>1, CommitTouches DEF ProbesInv
<1>8. KeyedRun(l) => orders'[k] = Committed(d, st, k, orders[k])
  BY <1>1, <1>3, RequestOf, CommitTouches DEF ProbesInv
<1>9. d # "nobody"
  BY DEF ProbesInv, TypeInv, ProbesTypeOK, Defect
<1>10. KeysInv' /\ RunsInv'
  BY <1>1, <1>4, <1>6, <1>7, <1>8, <1>9, EndsStep DEF verdict
<1>11. OutcomeNamesItsCause'
  <2>1. "nobody" \notin by
    BY <1>3, <1>9 DEF by, ProbesInv, TypeInv, ProbesTypeOK, Defect
  <2>2. \A r \in recorded' :
          /\ r.outcome \in {"ok", "graphql-error", "wrong-result"}
          /\ r.outcome = "graphql-error" => "errors" \in r.answered
          /\ r.outcome = "wrong-result" => defect' \in r.answered
          /\ "nobody" \notin r.answered
    BY <1>1, <1>2, <1>5, <2>1
  <2> QED
    BY <2>2 DEF OutcomeNamesItsCause
<1>12. DefectIsReported'
  <2>1. Len(Program[run[l].probe]) \in {1, 2, 3} /\ run[l].at \in 1..3
    BY <1>1, RunType, Programs DEF ProbesInv
  <2>2. ASSUME NEW i \in 1..3, NEW n \in {1, 2, 3}, i <= n, ~(i < n) PROVE i = n
    BY <2>2
  <2>3. verdict = "ok" /\ recorded' # {} => run[l].at = Len(Program[run[l].probe])
    BY <1>3, <1>5, <2>1, <2>2
  <2> QED
    BY <1>1, <1>2, <1>5, <2>3 DEF DefectIsReported
<1> QED
  BY <1>6, <1>10, <1>11, <1>12 DEF ProbesInv, Promises

LEMMA NobodyStep ==
  ASSUME ProbesInv, NEW l \in Loop, NobodyAnswers(l)
  PROVE  ProbesInv' /\ Promises'
<1> DEFINE k == run[l].key
           st == Request(l)
           by == run[l].answered \cup {"nobody"}
<1>1. Running(l) /\ UNCHANGED <<defect, nextKey>>
  BY DEF NobodyAnswers, Running
<1>2. PICK verdict \in {"unavailable", "timeout"} : Proceed(l, verdict, "nobody")
  BY NoAnswerKinds DEF NobodyAnswers
<1>3. k \in Key /\ run[l].at <= Len(Program[run[l].probe]) /\ run[l].probe \in Probe
  BY <1>1, RunType DEF ProbesInv, RunsInv
<1>4. verdict \in ResultKind \cup {"wrong-result"} /\ "nobody" \in {defect, "correct", "nobody"}
  BY <1>2 DEF ResultKind
<1>5. /\ run' = [m \in Loop |-> run'[m]]
      /\ \A m \in Loop : run'[m] = Idle \/
           run'[m] \in [probe : Probe, key : Key, at : 1..3, answered : SUBSET Answerer]
      /\ recorded' \in SUBSET [probe : Probe, answered : SUBSET Answerer,
                               outcome : ResultKind \cup {"wrong-result"}]
      /\ \A r \in recorded' : r.outcome = verdict /\ r.answered = by
  BY <1>1, <1>2, <1>3, <1>4, ProceedTypes DEF ProbesInv
<1>6. \/ UNCHANGED tableVars
      \/ \E d \in {defect, "correct"} : Commit(d, st, k) /\ UNCHANGED late
      \/ st \in Mutations /\ late' = late \cup {<<k, st>>} /\ UNCHANGED <<orders, counter>>
  BY DEF NobodyAnswers
<1>7. /\ orders' = [j \in Key |-> orders'[j]]
      /\ \A j \in Key : orders'[j] \in Seq(OrderRow(j))
      /\ counter' \in 0..MaxCounter
  <2>1. CASE UNCHANGED <<orders, counter>>
    BY <2>1 DEF ProbesInv, TypeInv, ProbesTypeOK
  <2>2. CASE \E d \in {defect, "correct"} : Commit(d, st, k)
    BY <1>3, <2>2, CommitTypes, CommitTouches DEF ProbesInv
  <2> QED
    BY <1>6, <2>1, <2>2 DEF tableVars
<1>8. late' \in SUBSET (Key \X Mutations) /\ late' \subseteq late \cup {<<k, st>>}
  BY <1>3, <1>6 DEF tableVars, ProbesInv, TypeInv, ProbesTypeOK
<1>9. TypeInv'
  BY <1>1, <1>5, <1>7, <1>8 DEF ProbesInv, TypeInv, ProbesTypeOK
<1>10. \A j \in Key : j # k \/ ~KeyedRun(l) => orders'[j] = orders[j]
  <2>1. ~KeyedRun(l) => st \notin Mutations \ {"inc"}
    BY <1>1, RequestOf DEF Mutations, Inserts, Upserts, Updates
  <2>2. CASE UNCHANGED orders
    BY <2>2
  <2>3. CASE \E d \in {defect, "correct"} : Commit(d, st, k)
    BY <1>3, <2>1, <2>3, CommitTouches DEF ProbesInv
  <2> QED
    BY <1>6, <2>2, <2>3 DEF tableVars
<1>11. KeysInv' /\ RunsInv'
  BY <1>1, <1>2, <1>4, <1>8, <1>9, <1>10, EndsStep
<1>12. OutcomeNamesItsCause'
  <2>1. \A r \in recorded' : r.outcome \in {"unavailable", "timeout"} /\ "nobody" \in r.answered
    BY <1>2, <1>5
  <2> QED
    BY <2>1 DEF OutcomeNamesItsCause
<1>13. DefectIsReported'
  BY <1>2, <1>5 DEF DefectIsReported
<1> QED
  BY <1>9, <1>11, <1>12, <1>13 DEF ProbesInv, Promises

LEMMA LateStep ==
  ASSUME ProbesInv, CarriedOutLate PROVE ProbesInv' /\ Promises'
<1>1. PICK x \in late, d \in {defect, "correct"} : Commit(d, x[2], x[1]) /\ late' = late \ {x}
  BY DEF CarriedOutLate
<1>2. UNCHANGED <<defect, nextKey, run>> /\ recorded' = {}
  BY DEF CarriedOutLate
<1>3. x[1] \in Key /\ x[2] \in Mutations
  BY <1>1 DEF ProbesInv, TypeInv, ProbesTypeOK
<1>4. /\ orders' = [j \in Key |-> orders'[j]]
      /\ \A j \in Key : orders'[j] \in Seq(OrderRow(j))
      /\ counter' \in 0..MaxCounter
  BY <1>1, <1>3, CommitTypes, CommitTouches DEF ProbesInv
<1>5. TypeInv'
  BY <1>1, <1>2, <1>4 DEF ProbesInv, TypeInv, ProbesTypeOK
<1>6. \A j \in Key : (orders'[j] = orders[j]) \/ (j = x[1] /\ x[2] # "inc")
  BY <1>1, <1>3, CommitTouches DEF ProbesInv
<1>7. /\ \A l \in Loop : KeyedRun(l) => run[l].key \in Key /\ orders'[run[l].key] = orders[run[l].key]
      /\ \A j \in Key : j >= nextKey => orders'[j] = orders[j]
  <2>1. \A l \in Loop : KeyedRun(l) => run[l].key \in Key
    BY RunType DEF ProbesInv, KeyedRun
  <2>2. nextKey \in Nat /\ Key \subseteq Nat
    BY DEF ProbesInv, TypeInv, ProbesTypeOK, Key
  <2>3. x[2] # "inc" => x[1] < nextKey /\ \A l \in Loop : KeyedRun(l) => run[l].key # x[1]
    BY <1>1 DEF ProbesInv, KeysInv
  <2>4. \A l \in Loop : KeyedRun(l) => orders'[run[l].key] = orders[run[l].key]
    BY <1>6, <2>1, <2>3
  <2>5. ASSUME NEW j \in Key, j >= nextKey PROVE orders'[j] = orders[j]
    <3>1. x[2] # "inc" => j # x[1]
      BY <1>3, <2>2, <2>3, <2>5
    <3> QED
      BY <1>6, <3>1
  <2> QED
    BY <2>1, <2>4, <2>5
<1>8. \A l \in Loop : (KeyedRun(l)' <=> KeyedRun(l)) /\ (Running(l)' <=> Running(l)) /\ Request(l)' = Request(l)
  BY <1>2 DEF KeyedRun, Running, Request
<1>9. KeysInv'
  BY <1>1, <1>2, <1>7, <1>8 DEF ProbesInv, KeysInv
<1>10. RunsInv'
  BY <1>2, <1>7, <1>8 DEF ProbesInv, RunsInv
<1> QED
  BY <1>2, <1>5, <1>9, <1>10 DEF ProbesInv, Promises, OutcomeNamesItsCause, DefectIsReported

-----------------------------------------------------------------------------
(* The theorems.                                                           *)

LEMMA ProbesInvariant == Spec => [](ProbesInv /\ Promises)
<1>1. Init => ProbesInv /\ Promises
  <2>1. ASSUME Init PROVE TypeInv
    BY <2>1, BoundsAreNat DEF Init, TypeInv, ProbesTypeOK
  <2>2. ASSUME Init PROVE KeysInv /\ RunsInv /\ Promises
    BY <2>2 DEF Init, KeysInv, RunsInv, KeyedRun, Running, Promises, OutcomeNamesItsCause,
       DefectIsReported
  <2> QED
    BY <2>1, <2>2 DEF ProbesInv
<1>2. ProbesInv /\ Promises /\ [Next]_vars => (ProbesInv /\ Promises)'
  <2> SUFFICES ASSUME ProbesInv, Promises, [Next]_vars PROVE (ProbesInv /\ Promises)'
    OBVIOUS
  <2>1. CASE \E l \in Loop : \E p \in Probe : Begin(l, p)
    BY <2>1, BeginStep
  <2>2. CASE \E l \in Loop : \E d \in {defect, "correct"} : Answer(l, d)
    BY <2>2, AnswerStep
  <2>3. CASE \E l \in Loop : NobodyAnswers(l)
    BY <2>3, NobodyStep
  <2>4. CASE CarriedOutLate
    BY <2>4, LateStep
  <2>5. CASE UNCHANGED vars
    BY <2>5 DEF vars, tableVars, ProbesInv, TypeInv, ProbesTypeOK, KeysInv, RunsInv, KeyedRun,
       Running, Request, Promises, OutcomeNamesItsCause, DefectIsReported
  <2> QED
    BY <2>1, <2>2, <2>3, <2>4, <2>5 DEF Next
<1> QED
  BY <1>1, <1>2, PTL DEF Spec

(* Type correctness: tables, keys, loops and what they record.             *)
THEOREM ProbesTypeCorrect == Spec => []ProbesTypeOK
<1>1. ProbesInv => ProbesTypeOK
  BY DEF ProbesInv, TypeInv
<1> QED
  BY <1>1, ProbesInvariant, PTL

(* No interleaving of loops, lost answer or mutation carried out late has  *)
(* a probe accuse an engine, or the network, of what it has not done:      *)
(* mutations.ts:1-8, types.ts:1-14.                                        *)
THEOREM OutcomesAreJust == Spec => []OutcomeNamesItsCause
<1>1. Promises => OutcomeNamesItsCause
  BY DEF Promises
<1> QED
  BY <1>1, ProbesInvariant, PTL

(* Each defect is reported by every probe that can see it, whatever other  *)
(* loops do to the tables meanwhile.                                       *)
THEOREM DefectsAreReported == Spec => []DefectIsReported
<1>1. Promises => DefectIsReported
  BY DEF Promises
<1> QED
  BY <1>1, ProbesInvariant, PTL

=============================================================================
