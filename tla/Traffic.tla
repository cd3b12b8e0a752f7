------------------------------ MODULE Traffic ------------------------------
(***************************************************************************)
(* The requests of the clients during an upgrade: compose/haproxy/         *)
(* haproxy.cfg routes each to a server, HaproxyClient.waitDrained counts   *)
(* those a server holds, and stopping an engine ends what it still holds.  *)
(*                                                                         *)
(* This module composes ZeroDowntime with the sessions of HAProxy: a step  *)
(* of an upgrade or rollback is conjoined with what it does to them.  A    *)
(* websocket is a request its server keeps open for as long as the client  *)
(* wants; `timeout tunnel 1h` lets it.                                     *)
(***************************************************************************)
EXTENDS ZeroDowntime

CONSTANTS
  Request,  \* the requests clients send
  Retries   \* `retries` of haproxy.cfg

ASSUME RetriesIsPositive == Retries \in Nat \ {0}

(* HAProxy is trying to connect; the engine has the request; the engine    *)
(* has carried it out; the client has its answer; 503; the connection was  *)
(* closed under it.                                                        *)
Phase == {"unsent", "connecting", "open", "executed", "answered", "refused", "cut"}

NoServer == "none"

VARIABLES
  phase,    \* [request -> how far it is]
  at,       \* [request -> the server HAProxy has given it to last]
  tries,    \* [request -> retries of its connection so far]
  applied,  \* [request -> how often an engine has carried it out]
  residual  \* servers whose last drain was reported to leave sessions behind

sessionVars == <<phase, at, tries, applied>>
trafficVars == <<vars, sessionVars, residual>>

SessionTypeOK ==
  /\ phase    \in [Request -> Phase]
  /\ at       \in [Request -> Server \cup {NoServer}]
  /\ tries    \in [Request -> 0..Retries]
  /\ applied  \in [Request -> Nat]
  /\ residual \in SUBSET Server

TrafficTypeOK == TypeOK /\ SessionTypeOK

TrafficInit ==
  /\ Init
  /\ phase   = [r \in Request |-> "unsent"]
  /\ at      = [r \in Request |-> NoServer]
  /\ tries   = [r \in Request |-> 0]
  /\ applied = [r \in Request |-> 0]
  /\ residual = {}

(* The requests in `scur` of a server's row in `show stat`.                *)
Held(s) == {r \in Request : at[r] = s /\ phase[r] \in {"connecting", "open", "executed"}}

-----------------------------------------------------------------------------
(* HAProxy and the engines.                                                *)

Move(r, from, to) ==
  /\ phase[r] = from
  /\ phase' = [phase EXCEPT ![r] = to]
  /\ UNCHANGED <<vars, residual>>

(* `option http-server-close`: the server of a request is chosen anew,     *)
(* among those that are up, whatever connection the client reuses.         *)
Route(r, s) ==
  /\ StatusUp(s)
  /\ Move(r, "unsent", "connecting")
  /\ at' = [at EXCEPT ![r] = s]
  /\ UNCHANGED <<tries, applied>>

Connect(r) ==
  /\ Move(r, "connecting", "open")
  /\ engine[at[r]] = "healthy"
  /\ UNCHANGED <<at, tries, applied>>

(* `option redispatch`: a retry may go to another server that is up, and   *)
(* the last one does if there is any.                                      *)
Targets(r) ==
  LET ups == {s \in Server : StatusUp(s)} IN
  IF tries[r] + 1 = Retries /\ ups # {} THEN ups ELSE ups \cup {at[r]}

(* `retry-on conn-failure`: nothing listens where the request was sent.    *)
Retry(r) ==
  /\ Move(r, "connecting", "connecting")
  /\ engine[at[r]] # "healthy" /\ tries[r] < Retries
  /\ tries' = [tries EXCEPT ![r] = @ + 1]
  /\ \E s \in Targets(r) : at' = [at EXCEPT ![r] = s]
  /\ UNCHANGED applied

(* HAProxy answers 503 itself: no server is up when it is to choose one,   *)
(* or the last retry has not connected either.                             *)
Refuse(r) ==
  /\ \/ Move(r, "unsent", "refused") /\ \A s \in Server : ~StatusUp(s)
     \/ /\ Move(r, "connecting", "refused")
        /\ engine[at[r]] # "healthy" /\ tries[r] = Retries
  /\ UNCHANGED <<at, tries, applied>>

Execute(r) ==
  /\ Move(r, "open", "executed")
  /\ applied' = [applied EXCEPT ![r] = @ + 1]
  /\ UNCHANGED <<at, tries>>

(* The answer, or the end of a websocket its client closes.                *)
Answer(r) ==
  /\ Move(r, "executed", "answered")
  /\ UNCHANGED <<at, tries, applied>>

SessionStep ==
  \E r \in Request :
    \/ \E s \in Server : Route(r, s)
    \/ Connect(r) \/ Retry(r) \/ Refuse(r) \/ Execute(r) \/ Answer(r)

-----------------------------------------------------------------------------
(* What an upgrade or rollback does to the sessions.                       *)

OnCut_RetriedBug == "connecting"

(* A connection closed after it was established is not retried: the        *)
(* request may have been carried out.                                      *)
OnCut == "cut"

(* An engine that is stopped, or recreated, gets the grace period of       *)
(* docker-compose.yml to answer what it holds; what is left then is cut,   *)
(* carried out or not.                                                     *)
EngineLeaves(r) ==
  /\ phase[r] \in {"open", "executed"}
  /\ engine[at[r]] = "healthy" /\ engine'[at[r]] # "healthy"

SessionsFollow ==
  \E finished, carriedOut \in SUBSET Request :
    /\ finished \subseteq carriedOut
    /\ phase' = [r \in Request |->
         IF ~EngineLeaves(r) THEN phase[r] ELSE IF r \in finished THEN "answered" ELSE OnCut]
    /\ applied' = [r \in Request |->
         IF EngineLeaves(r) /\ phase[r] = "open" /\ r \in carriedOut
         THEN applied[r] + 1 ELSE applied[r]]
    /\ UNCHANGED <<at, tries>>

WaitDrained_NotWaitedBug(s) ==
  residual' = residual \ {s}

(* waitDrained returns when the server holds no session, or on its timeout *)
(* with the number left, which the caller records and goes on.             *)
WaitDrained(s) ==
  IF Held(s) = {} THEN residual' = residual \ {s} ELSE residual' = residual \cup {s}

UpgradeDrained  == BlueDrained /\ WaitDrained(Blue) /\ UNCHANGED sessionVars
RollbackDrained == GreenDrained /\ WaitDrained(Green) /\ UNCHANGED sessionVars

OtherUpgrade ==
  /\ \/ upc # "waitDrained" /\ UpgradeStep
     \/ upc = "waitDrained" /\ UpgradeThrows
  /\ SessionsFollow
  /\ UNCHANGED residual

OtherRollback ==
  /\ \/ rpc # "waitGreenDrained" /\ RollbackStep
     \/ rpc = "waitGreenDrained" /\ RollbackThrows
  /\ SessionsFollow
  /\ UNCHANGED residual

TrafficUpgrade  == UpgradeDrained \/ OtherUpgrade
TrafficRollback == RollbackDrained \/ OtherRollback

TrafficNext ==
  \/ TrafficUpgrade
  \/ TrafficRollback
  \/ (SyncStep \/ NewProcess \/ EnvironmentStep) /\ UNCHANGED <<sessionVars, residual>>
  \/ SessionStep

(* That of ZeroDowntime.  Nothing is assumed of requests: a websocket may  *)
(* be held for ever.                                                       *)
TrafficSpec ==
  /\ TrafficInit /\ [][TrafficNext]_trafficVars
  /\ WF_trafficVars(upc # "idle" /\ TrafficUpgrade)
  /\ WF_trafficVars(SyncStep /\ UNCHANGED <<sessionVars, residual>>)
  /\ WF_trafficVars(rpc # "idle" /\ TrafficRollback)

=============================================================================
