-------------------------- MODULE SeqStreamProofs --------------------------
(***************************************************************************)
(* Proofs about the streaming subscription, for any number of rows, drops  *)
(* and disturbances: it never skips a row, implements the abstract feed,   *)
(* and hides no drop.                                                      *)
(***************************************************************************)
EXTENDS SeqStreamProperties, TLAPS

(* A tick in progress has taken its number.                                *)
TickInv == tick \in {"insert", "reply"} => next > 1

(* Rows are numbers.                                                       *)
LEMMA Rows == Row \subseteq 0..MaxSeq /\ Row \subseteq Nat
  BY StreamBounds DEF StreamBounds, Row

(* Runs of rows: those after a and up to b, those up to a, those above b.  *)
After(S, a, b) == {m \in S : a < m /\ m <= b}
UpTo(S, a)     == {m \in S : m <= a}
Above(S, b)    == {m \in S : m > b}

(* What was received up to the cursor a, with what is in flight up to b,   *)
(* is everything up to b (Payload).                                        *)
LEMMA UpToJoins ==
  ASSUME NEW S \in SUBSET Nat, NEW a \in Nat, NEW b \in Nat, NEW c \in Nat, a <= b, b <= c
  PROVE  UpTo(S, a) \cup UpTo(After(S, a, c), b) = UpTo(S, b)
<1>1. \A m \in Nat : (m <= b <=> m <= a \/ (a < m /\ m <= c /\ m <= b))
  OBVIOUS
<1> QED
  BY <1>1, Zenon DEF UpTo, After

(* What stays in flight when everything up to b is consumed (Payload).     *)
LEMMA AfterCuts ==
  ASSUME NEW S \in SUBSET Nat, NEW a \in Nat, NEW b \in Nat, NEW c \in Nat, a <= b, b <= c
  PROVE  Above(After(S, a, c), b) = After(S, b, c)
<1>1. \A m \in Nat : (b < m /\ m <= c <=> a < m /\ m <= c /\ m > b)
  OBVIOUS
<1> QED
  BY <1>1, Zenon DEF Above, After

(* What is in flight, with the next batch (Push).                          *)
LEMMA AfterJoins ==
  ASSUME NEW S \in SUBSET Nat, NEW a \in Nat, NEW b \in Nat, NEW c \in Nat, a <= b, b <= c
  PROVE  After(S, a, b) \cup After(S, b, c) = After(S, a, c)
<1>1. \A m \in Nat : (a < m /\ m <= c <=> (a < m /\ m <= b) \/ (b < m /\ m <= c))
  OBVIOUS
<1> QED
  BY <1>1, Zenon DEF After

(* Every variable keeps its type.                                          *)
THEOREM StreamTypeCorrect == Spec => []TypeOK
<1>1. Init => TypeOK /\ TickInv
  <2> SUFFICES ASSUME Init PROVE TypeOK /\ TickInv
    OBVIOUS
  <2> USE StreamBounds DEF StreamBounds, Init, Row
  <2>1. RunTypeOK
    BY DEF RunTypeOK
  <2>2. WriterTypeOK /\ TickInv
    BY DEF WriterTypeOK, TickInv
  <2>3. LoopTypeOK
    BY DEF LoopTypeOK
  <2>4. CountTypeOK
    BY DEF CountTypeOK
  <2>5. DataTypeOK
    BY DEF DataTypeOK
  <2> QED
    BY <2>1, <2>2, <2>3, <2>4, <2>5 DEF TypeOK
<1>2. TypeOK /\ TickInv /\ [Next]_vars => TypeOK' /\ TickInv'
  <2> SUFFICES ASSUME TypeOK, TickInv, [Next]_vars PROVE TypeOK' /\ TickInv'
    OBVIOUS
  <2> USE StreamBounds DEF StreamBounds, Row, TypeOK, runVars, writerVars, loopVars,
          countVars, dataVars, socketVars
  <2>1. RunTypeOK'
    <3> USE DEF RunTypeOK
    <3>1. UNCHANGED broken \/ Break
      BY DEF vars, Next, WriterStep, Insert, Commit, Written, WriteFails, StopWriter,
             SubscriptionStep, Subscribe, Refused, Payload, Retry, Disposed, SocketDies,
             EmptyPayload, Completes, StopSubscription, Push, Outage, Recover, Clock
    <3>2. serving' \in {serving, TRUE, FALSE} /\ stage' \in {stage, "drain", "over"}
      BY DEF vars, Next, WriterStep, Insert, Commit, Written, WriteFails, StopWriter,
             WriterOnly, SubscriptionStep, Subscribe, Refused, Payload, Retry, Disposed,
             SocketDies, EmptyPayload, Completes, StopSubscription, Push, Outage, Recover,
             Clock
    <3>3. broken' \in 0..MaxBroken
      BY <3>1 DEF Break
    <3> QED
      BY <3>2, <3>3
  <2>2. WriterTypeOK' /\ TickInv'
    <3> USE DEF WriterTypeOK, TickInv
    <3>1. CASE Insert
      BY <3>1 DEF Insert
    <3>2. CASE Commit
      BY <3>2 DEF Commit
    <3>3. CASE Written
      BY <3>3 DEF Written, TickEnds
    <3>4. CASE WriteFails \/ StopWriter
      BY <3>4 DEF WriteFails, StopWriter, TickEnds
    <3>5. CASE UNCHANGED writerVars
      BY <3>5
    <3> QED
      BY <3>1, <3>2, <3>3, <3>4, <3>5
      DEF vars, Next, WriterStep, SubscriptionStep, Subscribe, Refused, Payload, Retry,
          Disposed, SocketDies, EmptyPayload, Completes, StopSubscription, Push, Outage,
          Recover, Clock
  <2>3. LoopTypeOK'
    BY DEF LoopTypeOK, vars, Next, WriterStep, Insert, Commit, Written, WriteFails,
           StopWriter, WriterOnly, SubscriptionStep, Subscribe, Refused, Payload, Retry,
           Disposed, SocketDies, EmptyPayload, Completes, StopSubscription, Connected,
           Announce, LeaveSocket, Push, Outage, Recover, Clock
  <2>4. CountTypeOK'
    BY DEF CountTypeOK, vars, Next, WriterStep, Insert, Commit, Written, WriteFails,
           StopWriter, WriterOnly, SubscriptionStep, Subscribe, Refused, Payload, Retry,
           Disposed, SocketDies, EmptyPayload, Completes, StopSubscription, Connected,
           Announce, LeaveSocket, RecordDrop, Push, Outage, Recover, Clock
  <2>5. DataTypeOK'
    <3> USE DEF WriterTypeOK, DataTypeOK
    <3>1. CASE Subscribe
      BY <3>1 DEF Subscribe
    <3>2. CASE Payload
      <4>1. PICK n \in inFlight :
              /\ inFlight' = {m \in inFlight : m > n}
              /\ maxSeq' \in {n, maxSeq}
              /\ received' \in {received \cup {m \in inFlight : m <= n}, received}
        BY <3>2 DEF Payload
      <4>2. inFlight \subseteq Row /\ received \subseteq Row
        BY DEF Row
      <4>3. maxSeq' \in 0..MaxSeq
        BY <4>1, <4>2, Rows
      <4>4. received' \subseteq Row /\ inFlight' \subseteq Row
        BY <4>1, <4>2
      <4> QED
        BY <3>2, <4>3, <4>4 DEF Payload
    <3>3. CASE Push
      <4>1. PICK n \in table :
              sent' = n /\ \E N \in SUBSET table : inFlight' = inFlight \cup N
        BY <3>3 DEF Push
      <4>2. inFlight \subseteq Row /\ table \subseteq Row
        BY DEF Row
      <4>3. sent' \in 0..MaxSeq /\ inFlight' \subseteq Row
        BY <4>1, <4>2, Rows
      <4> QED
        BY <3>3, <4>3 DEF Push
    <3>4. CASE UNCHANGED <<dataVars, sent>> /\ inFlight' \in {{}, inFlight}
      BY <3>4
    <3> QED
      BY <3>1, <3>2, <3>3, <3>4
      DEF vars, Next, WriterStep, Insert, Commit, Written, WriteFails, StopWriter, WriterOnly,
          SubscriptionStep, Refused, Retry, Disposed, SocketDies, EmptyPayload, Completes,
          StopSubscription, LeaveSocket, Outage, Recover, Clock
  <2> QED
    BY <2>1, <2>2, <2>3, <2>4, <2>5 DEF TypeOK
<1> QED
  BY <1>1, <1>2, PTL DEF Spec

-----------------------------------------------------------------------------
(* The rows.  Whatever the writer commits next comes after x.              *)
Past(x) == x < next /\ (tick = "insert" => x < next - 1)

(* The writer's rows come in order; the streaming subscription has every   *)
(* row up to its cursor, and what its socket carries is every row from     *)
(* there to where the engine has sent.                                     *)
RowsInv   == \A n \in table : Past(n)
CursorInv == Past(maxSeq) /\ Past(sent)
SocketInv == inFlight \subseteq table /\ (at # "open" => inFlight = {})
SeenInv   == IF kind = "streaming" THEN received = {n \in table : n <= maxSeq} ELSE received = {}
SendInv   == kind = "streaming" /\ at = "open" =>
                maxSeq <= sent /\ inFlight = {n \in table : maxSeq < n /\ n <= sent}

StreamInv == RowsInv /\ CursorInv /\ SocketInv /\ SeenInv /\ SendInv

(* A step of writer, subscription or engine keeps it.                      *)
LEMMA StreamInductive == TypeOK /\ StreamInv /\ [Next]_vars => StreamInv'
<1> SUFFICES ASSUME TypeOK, StreamInv, [Next]_vars PROVE StreamInv'
  OBVIOUS
<1> USE DEF StreamInv, RowsInv, CursorInv, SocketInv, SeenInv, SendInv, runVars, writerVars,
        loopVars, countVars, dataVars, socketVars
<1>0. /\ next \in Int /\ maxSeq \in Nat /\ sent \in Nat /\ table \in SUBSET Nat
      /\ kind \in {"streaming", "live"}
  BY StreamBounds, Rows DEF StreamBounds, TypeOK, WriterTypeOK, LoopTypeOK, DataTypeOK
<1>1. CASE Insert \/ Written \/ WriteFails \/ StopWriter
  <2>1. UNCHANGED <<kind, at, maxSeq, received, sent, inFlight, table>>
    BY <1>1 DEF Insert, Written, WriteFails, StopWriter, WriterOnly
  <2>2. \A x \in Int : Past(x) => Past(x)'
    BY <1>0, <1>1 DEF Past, Insert, Written, WriteFails, StopWriter, TickEnds
  <2> QED
    BY <1>0, <2>1, <2>2
<1>2. CASE Commit
  <2>1. /\ UNCHANGED <<kind, at, maxSeq, received, sent, inFlight, next>>
        /\ table' = table \cup {next - 1}
    BY <1>2 DEF Commit, WriterOnly
  <2>2. \A x \in Int : Past(x) => x < next - 1 /\ Past(x)'
    BY <1>0, <1>2 DEF Past, Commit
  <2>3. Past(next - 1)'
    BY <1>0, <1>2 DEF Past, Commit
  <2>4. maxSeq < next - 1 /\ sent < next - 1
    BY <1>0, <2>2
  <2>5. RowsInv' /\ CursorInv' /\ SocketInv'
    BY <1>0, <2>1, <2>2, <2>3
  <2>6. SeenInv'
    BY <1>0, <2>1, <2>4
  <2>7. SendInv'
    BY <1>0, <2>1, <2>4
  <2> QED
    BY <2>5, <2>6, <2>7
<1>3. CASE Subscribe
  <2>1. /\ UNCHANGED <<kind, maxSeq, received, inFlight, table, next, tick>>
        /\ inFlight = {} /\ sent' \in {maxSeq, 0} /\ (kind = "streaming" => sent' = maxSeq)
    BY <1>3 DEF Subscribe
  <2>2. \A x \in Int : Past(x) => Past(x)'
    BY <2>1 DEF Past
  <2>3. Past(maxSeq) => Past(0)
    BY <1>0 DEF Past
  <2>4. RowsInv' /\ CursorInv' /\ SocketInv' /\ SeenInv'
    BY <1>0, <2>1, <2>2, <2>3
  <2>5. \A m \in table : ~(maxSeq < m /\ m <= maxSeq)
    <3>1. \A m \in Nat : ~(maxSeq < m /\ m <= maxSeq)
      BY <1>0
    <3> QED
      BY <1>0, <3>1
  <2>6. {m \in table : maxSeq < m /\ m <= maxSeq} = {}
    BY <2>5, Zenon
  <2>7. kind = "streaming" => maxSeq <= sent'
    BY <1>0, <2>1
  <2>8. SendInv'
    BY <2>1, <2>6, <2>7
  <2> QED
    BY <2>4, <2>8
<1>4. CASE Retry \/ StopSubscription
  BY <1>4 DEF Retry, StopSubscription, Past
<1>5. CASE Refused \/ Disposed \/ SocketDies \/ Completes
  <2>1. UNCHANGED <<table, next, tick, kind, maxSeq, received, sent>>
    BY <1>5 DEF Refused, Disposed, SocketDies, Completes
  <2>2. inFlight' = {} /\ at' # "open"
    BY <1>5 DEF Refused, Disposed, SocketDies, Completes, LeaveSocket
  <2> QED
    BY <2>1, <2>2 DEF Past
<1>6. CASE EmptyPayload
  BY <1>6 DEF EmptyPayload, Past
<1>7. CASE Payload
  <2>1. UNCHANGED <<table, next, tick, kind, at, sent>> /\ at = "open"
    BY <1>7 DEF Payload
  <2>2. PICK n \in inFlight :
          /\ inFlight' = {m \in inFlight : m > n}
          /\ maxSeq'   = IF n > maxSeq THEN n ELSE maxSeq
          /\ received' = IF kind = "streaming"
                         THEN received \cup {m \in inFlight : m <= n} ELSE received
    BY <1>7 DEF Payload
  <2>3. n \in table /\ n \in Nat
    BY <1>0, <2>2
  <2>4. RowsInv' /\ SocketInv'
    BY <2>1, <2>2 DEF Past
  <2>5. CursorInv'
    BY <2>1, <2>2, <2>3 DEF Past
  <2>6. CASE kind = "live"
    BY <2>1, <2>2, <2>4, <2>5, <2>6
  <2>7. CASE kind = "streaming"
    <3>1. inFlight = {m \in table : maxSeq < m /\ m <= sent} /\ received = {m \in table : m <= maxSeq}
      BY <2>1, <2>7
    <3>2. maxSeq' = n /\ n <= sent /\ maxSeq < n
      BY <1>0, <2>2, <2>3, <3>1
    <3>3. /\ UpTo(table, maxSeq) \cup UpTo(After(table, maxSeq, sent), n) = UpTo(table, n)
          /\ Above(After(table, maxSeq, sent), n) = After(table, n, sent)
      <4>1. maxSeq <= n
        BY <1>0, <2>3, <3>2
      <4>2. UpTo(table, maxSeq) \cup UpTo(After(table, maxSeq, sent), n) = UpTo(table, n)
        BY <1>0, <2>3, <3>2, <4>1, UpToJoins
      <4>3. Above(After(table, maxSeq, sent), n) = After(table, n, sent)
        BY <1>0, <2>3, <3>2, <4>1, AfterCuts
      <4> QED
        BY <4>2, <4>3
    <3>4. received' = {m \in table : m <= n}
      BY <2>2, <2>7, <3>1, <3>3 DEF UpTo, After
    <3>5. inFlight' = {m \in table : n < m /\ m <= sent}
      BY <2>2, <3>1, <3>3 DEF After, Above
    <3> QED
      BY <2>1, <2>4, <2>5, <2>7, <3>2, <3>4, <3>5
  <2> QED
    BY <1>0, <2>6, <2>7
<1>8. CASE Push
  <2>1. UNCHANGED <<table, next, tick, kind, at, maxSeq, received>> /\ at = "open"
    BY <1>8 DEF Push
  <2>2. PICK n \in table :
          /\ n > sent
          /\ sent' = n
          /\ inFlight' = inFlight \cup
               IF kind = "live" THEN {n} ELSE {m \in table : sent < m /\ m <= n}
    BY <1>8 DEF Push
  <2>3. n \in Nat /\ n > sent
    BY <1>0, <2>2
  <2>4. RowsInv' /\ CursorInv' /\ SocketInv' /\ SeenInv'
    BY <2>1, <2>2, <2>3 DEF Past
  <2>5. CASE kind = "live"
    BY <2>1, <2>4, <2>5
  <2>6. CASE kind = "streaming"
    <3>1. inFlight = {m \in table : maxSeq < m /\ m <= sent} /\ maxSeq <= sent
      BY <2>1, <2>6
    <3>2. inFlight' = {m \in table : maxSeq < m /\ m <= n}
      <4>1. inFlight' = inFlight \cup {m \in table : sent < m /\ m <= n}
        BY <2>2, <2>6
      <4>2. After(table, maxSeq, sent) \cup After(table, sent, n) = After(table, maxSeq, n)
        <5>1. sent <= n
          BY <1>0, <2>3
        <5> QED
          BY <1>0, <2>3, <3>1, <5>1, AfterJoins
      <4> QED
        BY <3>1, <4>1, <4>2 DEF After
    <3> QED
      BY <1>0, <2>1, <2>2, <2>3, <2>4, <3>1, <3>2
  <2> QED
    BY <1>0, <2>5, <2>6
<1>9. CASE Outage \/ Recover \/ Clock
  BY <1>9 DEF Outage, Recover, Clock, Past
<1>10. CASE UNCHANGED vars
  BY <1>10 DEF vars, Past
<1> QED
  BY <1>1, <1>2, <1>3, <1>4, <1>5, <1>6, <1>7, <1>8, <1>9, <1>10
  DEF Next, WriterStep, SubscriptionStep

(* It holds of every run.                                                  *)
LEMMA StreamInvariant == Spec => [](TypeOK /\ StreamInv)
<1>1. Init => StreamInv
  BY StreamBounds DEF StreamBounds, Init, StreamInv, RowsInv, CursorInv, SocketInv, SeenInv,
     SendInv, Past
<1> QED
  BY <1>1, StreamInductive, StreamTypeCorrect, PTL DEF Spec

(* The streaming subscription has received every row up to its cursor.     *)
THEOREM NeverSkips == Spec => []NothingSkipped
<1>1. TypeOK /\ StreamInv => NothingSkipped
  BY DEF StreamInv, SeenInv, NothingSkipped
<1> QED
  BY <1>1, StreamInvariant, PTL

(* Cut off and resumed, it is a feed without gaps.                         *)
THEOREM StreamImplementsFeed == Spec => FeedKept
<1>1. Init => F!Init
  BY DEF Init, F!Init
<1>2. TypeOK /\ StreamInv /\ [Next]_vars => [F!Next]_<<table, received>>
  <2> SUFFICES ASSUME TypeOK, StreamInv, [Next]_vars,
                      ~UNCHANGED <<table, received>>
               PROVE  F!Next
    OBVIOUS
  <2> USE DEF runVars, writerVars, loopVars, countVars, dataVars, socketVars
  <2>0. /\ next \in 1..(MaxSeq + 1) /\ maxSeq \in Nat /\ sent \in Nat /\ MaxSeq \in Nat
        /\ table \subseteq Row /\ table \in SUBSET Nat
    BY StreamBounds, Rows DEF StreamBounds, TypeOK, WriterTypeOK, DataTypeOK
  <2>1. CASE Commit
    <3>1. \A r \in table : r < next - 1
      BY <2>1 DEF Commit, StreamInv, RowsInv, Past
    <3>2. next - 1 \in Row
      BY <2>0, <2>1 DEF Commit, StreamInv, CursorInv, Past, Row
    <3> QED
      BY <2>1, <3>1, <3>2 DEF F!Next, F!Append, Commit, WriterOnly, dataVars
  <2>2. CASE Payload
    <3> USE DEF StreamInv, SocketInv, SeenInv, SendInv
    <3>1. UNCHANGED table /\ at = "open"
      BY <2>2 DEF Payload
    <3>2. PICK n \in inFlight :
            received' = IF kind = "streaming"
                        THEN received \cup {m \in inFlight : m <= n} ELSE received
      BY <2>2 DEF Payload
    <3>3. kind = "streaming"
      BY <3>1, <3>2
    <3>4. n \in Row /\ maxSeq < n /\ n <= sent
      BY <2>0, <3>1, <3>2, <3>3
    <3>5. received' = {r \in table : r <= n}
      <4>1. /\ inFlight = {m \in table : maxSeq < m /\ m <= sent}
            /\ received = {m \in table : m <= maxSeq}
        BY <3>1, <3>3
      <4>2. n \in Nat
        BY <3>4, Rows
      <4>3. UpTo(table, maxSeq) \cup UpTo(After(table, maxSeq, sent), n) = UpTo(table, n)
        <5>1. maxSeq <= n
          BY <2>0, <3>4, <4>2
        <5> QED
          BY <2>0, <3>4, <4>2, <5>1, UpToJoins
      <4> QED
        BY <3>2, <3>3, <4>1, <4>3 DEF UpTo, After
    <3>6. received \subseteq received'
      BY <3>2, <3>3
    <3> QED
      BY <3>1, <3>4, <3>5, <3>6 DEF F!Next, F!Deliver
  <2>3. Commit \/ Payload
    BY DEF Next, WriterStep, SubscriptionStep, Insert, Written, WriteFails, StopWriter,
           WriterOnly, Subscribe, Retry, StopSubscription, Refused, Disposed, SocketDies,
           Completes, EmptyPayload, Push, Outage, Recover, Clock, vars
  <2> QED
    BY <2>1, <2>2, <2>3
<1> QED
  BY <1>1, <1>2, StreamInvariant, PTL DEF Spec, FeedKept, F!Spec

-----------------------------------------------------------------------------
(* The counters.  Between a drop and the next connection, one drop is      *)
(* still to be matched by a connection.                                    *)
CountInv ==
  /\ NoDropHides
  /\ at = "open" /\ announced => lostFor = NotLost
  /\ at \in {"attempt", "open"} /\ ~announced =>
       IF lostFor = NotLost THEN connects = 0 /\ drops = 0 /\ reconnects = 0
       ELSE connects <= drops /\ reconnects < drops
  /\ at = "attempt" => ~announced
  /\ at = "sleep" =>
       lostFor # NotLost /\ connects <= drops /\ reconnects < drops

(* Every connection that ends while the run goes on is counted and timed.  *)
THEOREM EveryDropCounts == Spec => []NoDropHides
<1>1. Init => CountInv
  BY DEF Init, CountInv, NoDropHides
<1>2. TypeOK /\ CountInv /\ [Next]_vars => CountInv'
  <2> SUFFICES ASSUME TypeOK, CountInv, [Next]_vars PROVE CountInv'
    OBVIOUS
  <2> USE StreamBounds DEF StreamBounds, TypeOK, LoopTypeOK, CountTypeOK, CountInv, NoDropHides, NotLost, runVars, writerVars,
          loopVars, countVars, dataVars, socketVars
  <2>1. CASE Insert \/ Commit \/ Written \/ WriteFails \/ StopWriter
    BY <2>1 DEF Insert, Commit, Written, WriteFails, StopWriter, WriterOnly
  <2>2. CASE Subscribe \/ Retry \/ StopSubscription
    BY <2>2 DEF Subscribe, Retry, StopSubscription
  <2>3. CASE Refused \/ SocketDies
    BY <2>3 DEF Refused, SocketDies, LeaveSocket, RecordDrop
  <2>4. CASE Completes \/ Disposed
    BY <2>4 DEF Completes, Disposed, Announce, LeaveSocket, RecordDrop
  <2>5. CASE EmptyPayload \/ Payload
    BY <2>5 DEF EmptyPayload, Payload, Connected, Announce
  <2>6. CASE Push \/ Outage \/ Recover \/ Clock
    BY <2>6 DEF Push, Outage, Recover, Clock
  <2>7. CASE UNCHANGED vars
    BY <2>7 DEF vars
  <2> QED
    BY <2>1, <2>2, <2>3, <2>4, <2>5, <2>6, <2>7
    DEF Next, WriterStep, SubscriptionStep
<1>3. CountInv => NoDropHides
  BY DEF CountInv
<1> QED
  BY <1>1, <1>2, <1>3, StreamTypeCorrect, PTL DEF Spec

=============================================================================
