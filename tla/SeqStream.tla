----------------------------- MODULE SeqStream -----------------------------
(***************************************************************************)
(* The sequence writer (src/probes/seqWriter.ts) and the subscriptions     *)
(* (src/probes/subscriptions.ts) that measure whether an upgrade loses     *)
(* data: one streams the rows from a cursor, one follows their maximum.    *)
(*                                                                         *)
(* The writer inserts past the engine, so rows go on appearing while there *)
(* is nobody to stream them.  A subscription reconnects by itself; rows    *)
(* sent and not yet consumed when its socket dies are gone, and the cursor *)
(* it reconnects with decides whether they are sent again.                 *)
(*                                                                         *)
(* The two subscriptions have nothing in common but the writer and the     *)
(* endpoint, which neither influences: a behaviour follows one of them.    *)
(***************************************************************************)
EXTENDS Integers, FiniteSets

CONSTANTS
  MaxSeq,       \* bound: rows the writer tries to insert
  MaxTime,      \* bound: ticks a disconnection is measured for
  MaxDrops,     \* bound: connection attempts that are refused
  MaxBroken     \* bound: inserts that fail, sockets cut, outages

ASSUME StreamBounds ==
  MaxSeq \in Nat /\ MaxTime \in Nat /\ MaxDrops \in Nat /\ MaxBroken \in Nat

Row     == 1..MaxSeq
NotLost == -1        \* disconnectedAt = null

VARIABLES
  broken,      \* disturbances so far
  serving,     \* does the probed endpoint accept connections?
  stage,       \* how far the end of the run is
  table,       \* the rows of seq_stream that are committed
  next,        \* SeqWriter: next
  tick,        \* SeqWriter: where its tick is
  written,     \* SeqWriter: written
  kind,        \* which subscription this is
  running,     \* subscription: running
  at,          \* subscription: where its loop is
  announced,   \* subscription: local announced of consume()
  lostFor,     \* subscription: Date.now() - disconnectedAt of loop()
  connects,    \* subscription: length of connects
  drops,       \* subscription: length of drops
  reconnects,  \* subscription: length of reconnectMs
  maxSeq,      \* subscription: maxSeq
  received,    \* streaming subscription: received
  sent,        \* engine: what the socket's query has been sent up to
  inFlight     \* values sent over the socket and not yet consumed

runVars    == <<broken, serving, stage>>
writerVars == <<table, next, tick, written>>
loopVars   == <<kind, running, at, announced>>
countVars  == <<lostFor, connects, drops, reconnects>>
dataVars   == <<maxSeq, received>>
socketVars == <<sent, inFlight>>
vars == <<runVars, writerVars, loopVars, countVars, dataVars, socketVars>>

RunTypeOK ==
  broken \in 0..MaxBroken /\ serving \in BOOLEAN /\ stage \in {"run", "drain", "over"}

WriterTypeOK ==
  /\ table \subseteq Row /\ written \subseteq Row
  /\ next \in 1..(MaxSeq + 1)
  /\ tick \in {"timer", "insert", "reply", "off"}

LoopTypeOK ==
  /\ kind \in {"streaming", "live"}
  /\ running \in BOOLEAN /\ announced \in BOOLEAN
  /\ at \in {"attempt", "open", "sleep", "ended"}

CountTypeOK ==
  /\ lostFor \in {NotLost} \cup 0..MaxTime
  /\ connects \in Nat /\ drops \in Nat /\ reconnects \in Nat

DataTypeOK ==
  /\ maxSeq \in 0..MaxSeq /\ received \subseteq Row
  /\ sent \in 0..MaxSeq /\ inFlight \subseteq Row

TypeOK == RunTypeOK /\ WriterTypeOK /\ LoopTypeOK /\ CountTypeOK /\ DataTypeOK

Init ==
  /\ broken = 0 /\ serving = TRUE /\ stage = "run"
  /\ table = {} /\ next = 1 /\ tick = "timer" /\ written = {}
  /\ kind \in {"streaming", "live"}
  /\ running = TRUE /\ at = "attempt" /\ announced = FALSE
  /\ lostFor = NotLost /\ connects = 0 /\ drops = 0 /\ reconnects = 0
  /\ maxSeq = 0 /\ received = {}
  /\ sent = 0 /\ inFlight = {}

Break == broken < MaxBroken /\ broken' = broken + 1

-----------------------------------------------------------------------------
(* The writer: a tick inserts a row, awaits the answer, and only then sets *)
(* the timer of the next.                                                  *)

WriterOnly == UNCHANGED <<serving, loopVars, countVars, dataVars, socketVars>>

Insert ==
  /\ tick = "timer" /\ stage = "run" /\ next <= MaxSeq
  /\ tick' = "insert" /\ next' = next + 1
  /\ UNCHANGED <<broken, stage, table, written>> /\ WriterOnly

(* Postgres commits the row of the tick in progress.                       *)
Commit ==
  /\ tick = "insert"
  /\ table' = table \cup {next - 1}
  /\ tick' = "reply"
  /\ UNCHANGED <<broken, stage, next, written>> /\ WriterOnly

TickEnds == tick' = IF stage = "run" THEN "timer" ELSE "off"

Written_AheadBug ==
  /\ tick = "reply"
  /\ written' = written \cup {next}
  /\ TickEnds
  /\ UNCHANGED <<broken, stage, table, next>> /\ WriterOnly

Written ==
  /\ tick = "reply"
  /\ written' = written \cup {next - 1}
  /\ TickEnds
  /\ UNCHANGED <<broken, stage, table, next>> /\ WriterOnly

(* The insert fails, before the row was committed or before the answer to  *)
(* the commit arrived.                                                     *)
WriteFails ==
  /\ tick \in {"insert", "reply"}
  /\ Break
  /\ TickEnds
  /\ UNCHANGED <<stage, table, next, written>> /\ WriterOnly

(* stop() clears the timer; a tick in progress is not awaited.             *)
StopWriter ==
  /\ stage = "run"
  /\ stage' = "drain"
  /\ tick' = IF tick = "timer" THEN "off" ELSE tick
  /\ UNCHANGED <<broken, table, next, written>> /\ WriterOnly

WriterStep == Insert \/ Commit \/ Written

-----------------------------------------------------------------------------
(* The loop of the subscription.                                           *)

(* onConnected() is called on the first payload of a connection, or when   *)
(* it completes without any.                                               *)
Announce ==
  /\ announced'  = TRUE
  /\ connects'   = IF announced THEN connects ELSE connects + 1
  /\ reconnects' = IF announced \/ lostFor = NotLost THEN reconnects ELSE reconnects + 1

Connected == Announce /\ lostFor' = IF announced THEN lostFor ELSE NotLost

(* A connection ends while the run goes on, or an attempt fails.           *)
RecordDrop == lostFor' = 0 /\ drops' = drops + 1

(* The connection is over.  One that stop() ended is not a drop.           *)
LeaveSocket ==
  /\ at' = IF running THEN "sleep" ELSE "ended"
  /\ inFlight' = {}
  /\ IF running THEN RecordDrop ELSE UNCHANGED <<lostFor, drops>>

Subscribe_FromSentBug ==
  /\ at = "attempt" /\ running /\ serving
  /\ at' = "open"
  /\ UNCHANGED <<runVars, writerVars, kind, running, announced, countVars, dataVars, socketVars>>

(* A fresh client subscribes; the streaming query from the highest row     *)
(* seen, the live query from nothing.                                      *)
Subscribe ==
  /\ at = "attempt" /\ running /\ serving
  /\ at' = "open"
  /\ sent' = IF kind = "streaming" THEN maxSeq ELSE 0
  /\ UNCHANGED <<runVars, writerVars, kind, running, announced, countVars, dataVars, inFlight>>

Refused ==
  /\ at = "attempt" /\ running /\ ~serving
  /\ drops < MaxDrops
  /\ LeaveSocket
  /\ UNCHANGED <<runVars, writerVars, kind, running, announced, connects, reconnects, dataVars, sent>>

(* A payload without rows, which the engine may send first.                *)
EmptyPayload ==
  /\ at = "open" /\ inFlight = {} /\ ~announced
  /\ Connected
  /\ UNCHANGED <<runVars, writerVars, kind, running, at, drops, dataVars, socketVars>>

Payload_LatestOnlyBug ==
  /\ at = "open"
  /\ \E n \in inFlight :
       /\ inFlight' = {m \in inFlight : m > n}
       /\ maxSeq'   = IF n > maxSeq THEN n ELSE maxSeq
       /\ received' = IF kind = "streaming" THEN received \cup {n} ELSE received
  /\ Connected
  /\ UNCHANGED <<runVars, writerVars, kind, running, at, drops, sent>>

(* Payloads arrive in the order they were sent: those up to value n.       *)
Payload ==
  /\ at = "open"
  /\ \E n \in inFlight :
       /\ inFlight' = {m \in inFlight : m > n}
       /\ maxSeq'   = IF n > maxSeq THEN n ELSE maxSeq
       /\ received' = IF kind = "streaming"
                      THEN received \cup {m \in inFlight : m <= n} ELSE received
  /\ Connected
  /\ UNCHANGED <<runVars, writerVars, kind, running, at, drops, sent>>

(* The socket dies: the engine behind it is gone, or it alone is cut.      *)
SocketDies ==
  /\ at = "open"
  /\ \/ ~serving /\ UNCHANGED broken
     \/ Break
  /\ LeaveSocket
  /\ UNCHANGED <<serving, stage, writerVars, kind, running, announced, connects, reconnects, dataVars, sent>>

Completes_NotADropBug ==
  /\ at = "open" /\ inFlight = {} /\ Break
  /\ at' = IF running THEN "sleep" ELSE "ended"
  /\ Connected
  /\ UNCHANGED <<serving, stage, writerVars, kind, running, drops, dataVars, socketVars>>

(* The engine ends the subscription; what it sent has arrived.             *)
Completes ==
  /\ at = "open" /\ inFlight = {} /\ Break
  /\ Announce
  /\ LeaveSocket
  /\ UNCHANGED <<serving, stage, writerVars, kind, running, dataVars, sent>>

Retry_OnceBug ==
  /\ at = "sleep"
  /\ at' = IF running /\ reconnects = 0 THEN "attempt" ELSE "ended"
  /\ announced' = FALSE
  /\ UNCHANGED <<runVars, writerVars, kind, running, countVars, dataVars, socketVars>>

(* After a short back-off, and for as long as the subscription runs.       *)
Retry ==
  /\ at = "sleep"
  /\ at' = IF running THEN "attempt" ELSE "ended"
  /\ announced' = FALSE
  /\ UNCHANGED <<runVars, writerVars, kind, running, countVars, dataVars, socketVars>>

(* stop(): running is cleared and the client disposed.                     *)
StopSubscription ==
  /\ stage = "drain"
  /\ stage' = "over" /\ running' = FALSE
  /\ UNCHANGED <<broken, serving, writerVars, kind, at, announced, countVars, dataVars, socketVars>>

(* The disposed client completes the iterator.                             *)
Disposed ==
  /\ ~running /\ at \in {"attempt", "open"}
  /\ Announce
  /\ LeaveSocket
  /\ UNCHANGED <<runVars, writerVars, kind, running, dataVars, sent>>

SubscriptionStep ==
  \/ Subscribe \/ Refused \/ Payload \/ Retry \/ Disposed
  \/ ~serving /\ SocketDies

-----------------------------------------------------------------------------
(* The engine: rows past the cursor, up to a batch of them, or the maximum *)
(* when it has changed.                                                    *)

Push ==
  /\ at = "open" /\ serving
  /\ \E n \in table :
       /\ n > sent
       /\ kind = "live" => \A m \in table : m <= n
       /\ sent' = n
       /\ inFlight' = inFlight \cup
            IF kind = "live" THEN {n} ELSE {m \in table : sent < m /\ m <= n}
  /\ UNCHANGED <<runVars, writerVars, loopVars, countVars, dataVars>>

(* The endpoint goes away, and comes back.                                 *)
Outage ==
  /\ serving /\ Break
  /\ serving' = FALSE
  /\ UNCHANGED <<stage, writerVars, loopVars, countVars, dataVars, socketVars>>

Recover ==
  /\ ~serving
  /\ serving' = TRUE
  /\ UNCHANGED <<broken, stage, writerVars, loopVars, countVars, dataVars, socketVars>>

(* Time passes for one who waits.                                          *)
Clock ==
  /\ lostFor \in 0..(MaxTime - 1)
  /\ lostFor' = lostFor + 1
  /\ UNCHANGED <<runVars, writerVars, loopVars, connects, drops, reconnects, dataVars, socketVars>>

Next ==
  \/ WriterStep \/ WriteFails \/ StopWriter
  \/ SubscriptionStep \/ EmptyPayload \/ SocketDies \/ Completes \/ StopSubscription
  \/ Push \/ Outage \/ Recover \/ Clock

(* The harness runs its timers and handlers, a socket whose endpoint is    *)
(* gone is found dead (keepAlive), the engine sends what there is, and an  *)
(* outage ends.                                                            *)
Fairness ==
  /\ WF_vars(WriterStep)
  /\ WF_vars(SubscriptionStep)
  /\ WF_vars(Push)
  /\ WF_vars(Recover)

Spec == Init /\ [][Next]_vars /\ Fairness

=============================================================================
