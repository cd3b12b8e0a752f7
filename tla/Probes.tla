------------------------------- MODULE Probes -------------------------------
(***************************************************************************)
(* The mutation probes of src/probes/mutations.ts, the exact-match reads   *)
(* and the permission denials of src/probes/reads.ts, and the tables they  *)
(* work on.                                                                *)
(*                                                                         *)
(* A probe is a program of GraphQL requests about rows that bear its own   *)
(* key; the check after a request looks at nothing but its answer.  A      *)
(* request can also end without a usable answer, carried out or not, or    *)
(* only later.  One of the two engines may have a defect: that is what     *)
(* probes are there to find.                                               *)
(***************************************************************************)
EXTENDS HasuraClient, Sequences, FiniteSets

CONSTANTS
  Loop,       \* probe loops of the runner
  MaxKeys,    \* bound: keys handed out
  MaxCounter, \* bound: increments of the shared counter
  MaxLate     \* bound: mutations under way that nobody waits for

ASSUME BoundsAreNat == MaxKeys \in Nat \ {0} /\ MaxCounter \in Nat /\ MaxLate \in Nat

(* The requests of each probe, in program order.                           *)
Program ==
  [m_insert_returning           |-> <<"insert">>,
   m_insert_multi               |-> <<"insertMany">>,
   m_upsert_on_conflict         |-> <<"upsert1", "upsert9", "count">>,
   m_update_set                 |-> <<"seed", "setStatus">>,
   m_update_inc                 |-> <<"inc">>,
   m_update_jsonb_append        |-> <<"seed", "append">>,
   m_delete_returning           |-> <<"seed", "delete">>,
   m_multi_mutation_one_request |-> <<"insertBoth">>,
   exactMatch                   |-> <<"read">>,
   denial                       |-> <<"forbidden">>]

Probe     == DOMAIN Program
Keyless   == {"m_update_inc", "exactMatch", "denial"}
Key       == 1..MaxKeys
Inserts   == {"insert", "insertMany", "seed", "insertBoth"}
Upserts   == {"upsert1", "upsert9"}
Updates   == {"setStatus", "append", "inc"}
Mutations == Inserts \cup Upserts \cup Updates \cup {"delete"}

(* What can be wrong with an engine: it answers every request with errors; *)
(* does not commit the write it answers; returns other rows than those     *)
(* concerned; leaves a row it should update; inserts where it should       *)
(* update; lets a role read what it may not.                               *)
Defect == {"errors", "drops", "echoes", "ignores", "duplicates", "widens"}

VARIABLES
  defect,   \* what is wrong with one of the engines
  nextKey,  \* the next key
  orders,   \* [key -> the rows that bear it]
  counter,  \* the row probe_counter, which all increment
  late,     \* mutations their client has given up and that will be committed
  run,      \* [loop -> its iteration: the probe, its key, the request it is at
            \*   and who has answered so far]
  recorded  \* the outcome the last step has recorded in the timeline, if any

tableVars == <<orders, counter, late>>
vars == <<defect, nextKey, tableVars, run, recorded>>

Idle == [probe |-> "none"]

Row(k, n, qty, payload) ==
  [probe_key |-> <<k, n>>, qty |-> qty, status |-> "new", payload |-> payload]

Other == [probe_key |-> <<0, 0>>, qty |-> 0, status |-> "other", payload |-> {}]

OrderRow(k) ==
  [probe_key : {k} \X (1..3), qty : 1..9, status : {"new", "shipped"},
   payload : SUBSET {"origin", "a", "b"}]

Answerer == Defect \cup {"correct", "nobody"}

ProbesTypeOK ==
  /\ defect  \in Defect
  /\ nextKey \in 1..(MaxKeys + 1)
  /\ \A k \in Key : orders[k] \in Seq(OrderRow(k))
  /\ counter \in 0..MaxCounter
  /\ late    \in SUBSET (Key \X Mutations)
  /\ \A l \in Loop : run[l] = Idle \/
       run[l] \in [probe : Probe, key : Key, at : 1..3, answered : SUBSET Answerer]
  /\ recorded \in SUBSET [probe : Probe, answered : SUBSET Answerer,
                          outcome : ResultKind \cup {"wrong-result"}]

Init ==
  /\ defect \in Defect
  /\ nextKey = 1
  /\ orders = [k \in Key |-> <<>>] /\ counter = 0 /\ late = {}
  /\ run = [l \in Loop |-> Idle] /\ recorded = {}

-----------------------------------------------------------------------------
(* The engines and Postgres.                                               *)

(* The rows a request names.  Those of a read are seeded and never change. *)
Books == <<Row(0, 1, 5, {})>>

Named(st, k) ==
  IF st = "inc" THEN <<Row(0, 1, counter, {})>>
  ELSE IF st \in {"read", "forbidden"} THEN Books
  ELSE orders[k]

(* The objects of an insert.                                               *)
Objects(st, k) ==
  IF st = "insert" THEN <<Row(k, 1, 4, {"origin"})>>
  ELSE IF st = "insertMany" THEN [n \in 1..3 |-> Row(k, n, n, {})]
  ELSE IF st = "insertBoth" THEN [n \in 1..2 |-> Row(k, n, n, {})]
  ELSE IF st = "upsert9" THEN <<Row(k, 1, 9, {})>>
  ELSE <<Row(k, 1, 1, {"a"})>>

Updated(st, k, row) ==
  [probe_key |-> row.probe_key,
   qty       |-> IF st \in Upserts THEN Objects(st, k)[1].qty
                 ELSE IF st = "inc" THEN row.qty + 1 ELSE row.qty,
   status    |-> IF st = "setStatus" THEN "shipped" ELSE row.status,
   payload   |-> IF st = "append" THEN row.payload \cup {"b"} ELSE row.payload]

(* `probe_key` is unique.                                                  *)
Conflict(st, rows) == st \in Inserts /\ rows # <<>>

(* The rows after a request that a correct engine carries out.             *)
After(st, k, rows) ==
  IF st = "delete" THEN <<>>
  ELSE IF st \in Inserts \cup Upserts /\ rows = <<>> THEN Objects(st, k)
  ELSE IF st \in Upserts \cup Updates THEN [n \in DOMAIN rows |-> Updated(st, k, rows[n])]
  ELSE rows

(* What an engine with defect d commits, and the rows it returns.          *)
Committed(d, st, k, rows) ==
  IF d \in {"errors", "drops"} \/ (d = "ignores" /\ st \in Upserts \cup Updates /\ rows # <<>>)
  THEN rows
  ELSE IF d = "duplicates" /\ st \in Upserts THEN rows \o Objects(st, k)
  ELSE After(st, k, rows)

Returned(d, st, k, rows) ==
  LET concerned == IF st = "delete" THEN rows ELSE After(st, k, rows) IN
  IF d = "echoes" THEN [n \in DOMAIN concerned |-> Other]
  ELSE IF d = "ignores" /\ rows # <<>> THEN rows
  ELSE IF d = "duplicates" /\ st \in Upserts THEN Objects(st, k)
  ELSE concerned

HasErrors(d, st, rows) ==
  \/ d = "errors" \/ Conflict(st, rows)
  \/ st = "forbidden" /\ d # "widens"

-----------------------------------------------------------------------------
(* The probes.                                                             *)

Check_UpsertNotCountedBug(st, k, rows) ==
  /\ st = "insert"  => rows = Objects(st, k)
  /\ st = "upsert9" => rows # <<>> /\ rows[1].qty = 9

(* What a probe demands of the rows returned to a request.                 *)
Check(st, k, rows) ==
  /\ st \in {"insert", "insertMany", "insertBoth"} => rows = Objects(st, k)
  /\ st = "upsert9" => rows # <<>> /\ rows[1].qty = 9
  /\ st = "count"   => Len(rows) = 1
  /\ st \in {"setStatus", "delete"} => Len(rows) = 1 /\ rows[1].probe_key = <<k, 1>>
  /\ st = "setStatus" => rows[1].status = "shipped"
  /\ st = "append"  => rows # <<>> /\ rows[1].payload = {"a", "b"}
  /\ st = "inc"     => rows[1].qty >= 1
  /\ st = "read"    => rows = Books

(* A denial's success is the error it expects, and nothing else.           *)
Denied(kind, expectedError) ==
  CASE kind \in {"unavailable", "timeout"} -> kind
    [] kind = "graphql-error" /\ expectedError -> "ok"
    [] OTHER -> "wrong-result"

(* The outcome of a request that an engine has answered.                   *)
Verdict(d, st, k, rows) ==
  LET kind == Result(Response(200, IF HasErrors(d, st, rows) THEN "errors" ELSE "data"))
  IN  IF st = "forbidden" THEN Denied(kind, d # "errors")
      ELSE IF kind # "ok" THEN kind
      ELSE IF Check(st, k, Returned(d, st, k, rows)) THEN "ok" ELSE "wrong-result"

NextKey_ReusedBug == 1

(* `${runId}-${prefix}-${++keyCounter}`                                    *)
NextKey == nextKey

(* A loop begins an iteration of its probe.                                *)
Begin(l, p) ==
  /\ run[l] = Idle /\ \A m \in Loop : run[m].probe # p
  /\ \/ p \in Keyless /\ UNCHANGED nextKey
     \/ p \notin Keyless /\ nextKey <= MaxKeys /\ nextKey' = nextKey + 1
  /\ run' = [run EXCEPT ![l] =
       [probe |-> p, key |-> IF p \in Keyless THEN 1 ELSE NextKey, at |-> 1, answered |-> {}]]
  /\ recorded' = {}
  /\ UNCHANGED <<defect, tableVars>>

(* The next request if this one went well, else timeline.record().         *)
Proceed(l, verdict, who) ==
  LET by == run[l].answered \cup {who} IN
  IF verdict = "ok" /\ run[l].at < Len(Program[run[l].probe])
  THEN /\ run' = [run EXCEPT ![l].at = @ + 1, ![l].answered = by]
       /\ recorded' = {}
  ELSE /\ run' = [run EXCEPT ![l] = Idle]
       /\ recorded' = {[probe |-> run[l].probe, answered |-> by, outcome |-> verdict]}

(* The engine with defect d, or the correct one, carries out a request.    *)
Commit(d, st, k) ==
  LET rows == Committed(d, st, k, Named(st, k)) IN
  IF st = "inc"
  THEN rows[1].qty <= MaxCounter /\ counter' = rows[1].qty /\ UNCHANGED orders
  ELSE IF st \in Mutations
  THEN orders' = [orders EXCEPT ![k] = rows] /\ UNCHANGED counter
  ELSE UNCHANGED <<orders, counter>>

Request(l) == Program[run[l].probe][run[l].at]

Answer(l, d) ==
  /\ run[l] # Idle
  /\ Commit(d, Request(l), run[l].key)
  /\ Proceed(l, Verdict(d, Request(l), run[l].key, Named(Request(l), run[l].key)), d)
  /\ UNCHANGED <<defect, nextKey, late>>

(* No usable answer: the request was carried out, will be, or never is.    *)
NobodyAnswers(l) ==
  /\ run[l] # Idle
  /\ \E end \in NoAnswer : Proceed(l, Result(end), "nobody")
  /\ \/ UNCHANGED tableVars
     \/ \E d \in {defect, "correct"} : Commit(d, Request(l), run[l].key) /\ UNCHANGED late
     \/ /\ Request(l) \in Mutations /\ Cardinality(late) < MaxLate
        /\ late' = late \cup {<<run[l].key, Request(l)>>}
        /\ UNCHANGED <<orders, counter>>
  /\ UNCHANGED <<defect, nextKey>>

CarriedOutLate ==
  /\ \E x \in late, d \in {defect, "correct"} :
       Commit(d, x[2], x[1]) /\ late' = late \ {x}
  /\ recorded' = {}
  /\ UNCHANGED <<defect, nextKey, run>>

Next ==
  \/ \E l \in Loop : \E p \in Probe : Begin(l, p)
  \/ \E l \in Loop : \E d \in {defect, "correct"} : Answer(l, d)
  \/ \E l \in Loop : NobodyAnswers(l)
  \/ CarriedOutLate

Spec == Init /\ [][Next]_vars

=============================================================================
