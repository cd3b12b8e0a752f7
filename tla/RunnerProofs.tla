---------------------------- MODULE RunnerProofs ----------------------------
(***************************************************************************)
(* What the numbers of a run say, for any number of probes, actions,       *)
(* records and markers: the invariants of the run, and then the scans of   *)
(* the scorecard over a timeline that has them.                            *)
(***************************************************************************)
EXTENDS RunnerProperties, FiniteSetTheorems, FunctionTheorems, SequenceTheorems,
        WellFoundedInduction, TLAPS

What    == {"start", "end", "aborted", "failed"}
Markers == [t : Time, of : Action \cup {"run"}, what : What]
Records == [t : Time, kind : Outcome]

(* Nobody is left to append when the timeline is read.                     *)
Awaited ==
  /\ stage \in {"actions", "scored"} => \A p \in Probes : loop[p] = "ended"
  /\ stage = "scored" => \A a \in Action : action[a] = "settled"

(* Entries are in the order of time, and in the past.                      *)
InOrder(entries, time) ==
  /\ \A i \in DOMAIN entries : entries[i].t \in 0..time
  /\ \A i, j \in DOMAIN entries : i <= j => entries[i].t <= entries[j].t

(* The service is down once, and answers only while it is not.             *)
ServiceHistory ==
  /\ downAt <= now /\ upAt <= now
  /\ upAt # None => downAt # None /\ downAt <= upAt

Truthful ==
  \A i \in DOMAIN records :
    \/ records[i].kind \in Down
    \/ downAt = None \/ records[i].t <= downAt
    \/ upAt # None /\ upAt <= records[i].t

RunnerInv ==
  /\ RunnerTypeOK /\ Awaited
  /\ InOrder(records, now) /\ InOrder(markers, now)
  /\ ServiceHistory /\ Truthful

-----------------------------------------------------------------------------
(* The invariants of a run.                                                *)

LEMMA ConcatInOrder ==
  ASSUME NEW S, NEW s \in Seq(S), NEW new \in Seq(S), NEW time \in Nat,
         InOrder(s, time), \A i \in DOMAIN new : new[i].t = time
  PROVE  InOrder(s \o new, time)
<1> DEFINE all == s \o new
<1>1. /\ all \in Seq(S) /\ Len(all) = Len(s) + Len(new) /\ Len(s) \in Nat /\ Len(new) \in Nat
      /\ \A i \in 1..Len(s) : all[i] = s[i]
      /\ \A i \in (Len(s) + 1)..Len(all) : all[i] = new[i - Len(s)]
  BY ConcatProperties
<1>2. DOMAIN s = 1..Len(s) /\ DOMAIN all = 1..Len(all) /\ DOMAIN new = 1..Len(new)
  BY <1>1
<1> HIDE DEF all
<1>3. \A i \in DOMAIN all :
        \/ i \in DOMAIN s /\ all[i] = s[i]
        \/ i \notin DOMAIN s /\ all[i].t = time
  <2> TAKE i \in DOMAIN all
  <2>1. CASE i \in 1..Len(s)
    BY <2>1, <1>1, <1>2
  <2>2. CASE i \notin 1..Len(s)
    <3>1. i \in (Len(s) + 1)..Len(all) /\ i - Len(s) \in 1..Len(new)
      BY <2>2, <1>1, <1>2
    <3> QED
      BY <3>1, <2>2, <1>1, <1>2
  <2> QED
    BY <2>1, <2>2
<1>4. \A i \in DOMAIN all : all[i].t \in 0..time
  BY <1>3 DEF InOrder
<1>5. ASSUME NEW i \in DOMAIN all, NEW j \in DOMAIN all, i <= j
      PROVE  all[i].t <= all[j].t
  <2>1. CASE j \in DOMAIN s
    <3>1. i \in DOMAIN s
      BY <1>1, <1>2, <1>5, <2>1
    <3> QED
      BY <3>1, <2>1, <1>3, <1>5 DEF InOrder
  <2>2. CASE j \notin DOMAIN s
    BY <2>2, <1>3, <1>4
  <2> QED
    BY <2>1, <2>2
<1> QED
  BY <1>4, <1>5 DEF InOrder, all

LEMMA OrderLasts ==
  ASSUME NEW s, NEW time \in Nat, NEW later \in Nat, time <= later, InOrder(s, time)
  PROVE  InOrder(s, later)
<1> QED
  BY DEF InOrder

LEMMA RunnerInit == Init => RunnerInv
<1> SUFFICES ASSUME Init PROVE RunnerInv
  OBVIOUS
<1> USE RunnerAssumption DEF Init
<1>1. markers = <<Marker("run", "start")>> /\ Marker("run", "start") \in Markers /\ Marker("run", "start").t = 0
  BY DEF Marker, Markers, What, Time
<1>2. RunnerTypeOK
  <2>1. markers \in Seq(Markers) /\ records \in Seq(Records)
    BY <1>1
  <2> QED
    BY <2>1 DEF RunnerTypeOK, Markers, What, Records, Time, None
<1>3. Awaited /\ ServiceHistory /\ Truthful
  BY DEF Awaited, ServiceHistory, Truthful, None
<1>4. InOrder(records, now) /\ InOrder(markers, now)
  BY <1>1 DEF InOrder
<1> QED
  BY <1>2, <1>3, <1>4 DEF RunnerInv

(* What a step appends to the timeline.                                    *)
Recorded ==
  \E r \in Records : /\ records' = Append(records, r) /\ r.t = now
                     /\ Serving \/ r.kind \in Down
                     /\ UNCHANGED <<now, downAt, upAt, markers>>

Marked ==
  \E new \in Seq(Markers) : /\ markers' = markers \o new
                            /\ \A i \in DOMAIN new : new[i].t = now
                            /\ UNCHANGED <<now, downAt, upAt, records>>

LEMMA StepAppends ==
  ASSUME RunnerInv, [Next]_vars
  PROVE  (records' = records \/ Recorded) /\ (markers' = markers \/ Marked)
<1> USE RunnerAssumption DEF RunnerInv, RunnerTypeOK, Markers, Records, What
<1>1. ASSUME NEW p \in Probes, Answer(p) PROVE Recorded
  BY <1>1 DEF Answer, serviceVars, Recorded
<1>2. ASSUME NEW of \in Action \cup {"run"}, NEW what \in What, Mark(<<Marker(of, what)>>),
             UNCHANGED <<now, downAt, upAt>>
      PROVE  Marked
  <2> DEFINE one == <<Marker(of, what)>>
  <2>1. one \in Seq(Markers) /\ \A i \in DOMAIN one : one[i].t = now
    BY DEF Marker
  <2>2. markers' = markers \o one /\ UNCHANGED records
    BY <1>2 DEF Mark
  <2> HIDE DEF one
  <2> QED
    BY <2>1, <2>2, <1>2 DEF Marked
<1>3. ASSUME NEW a \in Action, NEW what \in What, Mark(<<Marker(a, what)>>),
             UNCHANGED <<now, downAt, upAt>>
      PROVE  Marked
  BY <1>2, <1>3
<1>4. ASSUME NEW a \in Action, Begin(a) \/ Settle(a) PROVE Marked
  <2>1. UNCHANGED <<now, downAt, upAt>>
    BY <1>4 DEF Begin, Settle, serviceVars
  <2>2. CASE \E what \in What : Mark(<<Marker(a, what)>>)
    BY <2>1, <2>2, <1>3
  <2>3. CASE Mark(<<Marker(a, "aborted"), Marker(a, "failed")>>)
    <3> DEFINE both == <<Marker(a, "aborted"), Marker(a, "failed")>>
    <3>1. both \in Seq(Markers) /\ \A i \in DOMAIN both : both[i].t = now
      BY DEF Marker
    <3> QED
      BY <3>1, <2>1, <2>3 DEF Mark, Marked
  <2> QED
    BY <1>4, <2>2, <2>3 DEF Begin, Settle
<1>5. ASSUME ActionsSettled PROVE Marked /\ records' = records
  <2>1. Mark(<<Marker("run", "end")>>) /\ UNCHANGED <<now, downAt, upAt>>
    BY <1>5 DEF ActionsSettled, serviceVars
  <2>2. Marked
    BY <2>1, <1>2
  <2> QED
    BY <2>1, <2>2 DEF Mark
<1>6. ASSUME Tick \/ GoDown \/ ComeBack \/ Stop \/ LoopsSettled \/ UNCHANGED vars
      PROVE  records' = records /\ markers' = markers
  BY <1>6 DEF Tick, GoDown, ComeBack, Stop, LoopsSettled, vars, timeline
<1>7. ASSUME NEW p \in Probes, Ask(p) \/ LoopEnds(p)
      PROVE  records' = records /\ markers' = markers
  BY <1>7 DEF Ask, LoopEnds, timeline
<1>8. ASSUME NEW a \in Action, TimerAfterStop(a)
      PROVE  records' = records /\ markers' = markers
  BY <1>8 DEF TimerAfterStop, timeline
<1>9. ASSUME NEW p \in Probes, Answer(p) PROVE markers' = markers
  BY <1>9 DEF Answer
<1>10. ASSUME NEW a \in Action, Begin(a) \/ Settle(a) PROVE records' = records
  BY <1>10 DEF Begin, Settle, Mark
<1>11. CASE \E p \in Probes : Answer(p) \/ Ask(p) \/ LoopEnds(p)
  BY <1>11, <1>1, <1>7, <1>9
<1>12. CASE \E a \in Action : Begin(a) \/ Settle(a) \/ TimerAfterStop(a)
  BY <1>12, <1>4, <1>8, <1>10
<1> QED
  BY <1>11, <1>12, <1>5, <1>6 DEF Next, HarnessStep


LEMMA RunnerTypesStep == RunnerInv /\ [Next]_vars => RunnerTypeOK' /\ Awaited'
<1> SUFFICES ASSUME RunnerInv, [Next]_vars PROVE RunnerTypeOK' /\ Awaited'
  OBVIOUS
<1>1. records' \in Seq(Records) /\ markers' \in Seq(Markers)
  <2>1. records \in Seq(Records) /\ markers \in Seq(Markers)
    BY DEF RunnerInv, RunnerTypeOK, Records, Markers, What
  <2>2. CASE Recorded
    BY <2>1, <2>2, AppendProperties DEF Recorded
  <2>3. CASE Marked
    BY <2>1, <2>3, ConcatProperties DEF Marked
  <2> QED
    BY <2>1, <2>2, <2>3, StepAppends DEF Recorded, Marked
<1> DEFINE Rest == /\ now \in Time /\ downAt \in Time \cup {None} /\ upAt \in Time \cup {None}
                   /\ stage \in {"probing", "loops", "actions", "scored"}
                   /\ loop \in [Probes -> {"sleep", "asking", "ended"}]
                   /\ action \in [Action -> {"timer", "running", "settled"}]
                   /\ Awaited
<1>2. Rest
  BY DEF RunnerInv, RunnerTypeOK
<1>3. ASSUME NEW p \in Probes, Ask(p) \/ Answer(p) \/ LoopEnds(p) PROVE Rest'
  BY <1>2, <1>3 DEF Ask, Answer, LoopEnds, Awaited, stopping, serviceVars
<1>4. ASSUME NEW a \in Action, Begin(a) \/ TimerAfterStop(a) \/ Settle(a) PROVE Rest'
  BY <1>2, <1>4 DEF Begin, TimerAfterStop, Settle, Awaited, stopping, serviceVars
<1>5. ASSUME Stop \/ LoopsSettled \/ ActionsSettled \/ UNCHANGED vars PROVE Rest'
  BY <1>2, <1>5 DEF Stop, LoopsSettled, ActionsSettled, Awaited, vars, serviceVars
<1>6. ASSUME Tick \/ GoDown \/ ComeBack PROVE Rest'
  <2>1. now' \in Time /\ downAt' \in Time \cup {None} /\ upAt' \in Time \cup {None}
    BY <1>2, <1>6, RunnerAssumption DEF Tick, GoDown, ComeBack, Time, serviceVars
  <2>2. UNCHANGED <<stage, loop, action>>
    BY <1>6 DEF Tick, GoDown, ComeBack
  <2> QED
    BY <1>2, <2>1, <2>2 DEF Awaited
<1>7. Rest'
  BY <1>3, <1>4, <1>5, <1>6 DEF Next, HarnessStep
<1> QED
  BY <1>1, <1>7 DEF RunnerTypeOK, Records, Markers, What

LEMMA ClockStep ==
  ASSUME RunnerInv, [Next]_vars
  PROVE  /\ now \in Nat /\ now' \in Nat /\ now <= now'
         /\ \/ UNCHANGED <<downAt, upAt>>
            \/ downAt = None /\ upAt = None /\ downAt' = now /\ UNCHANGED <<now, upAt>>
            \/ downAt # None /\ upAt = None /\ upAt' = now /\ UNCHANGED <<now, downAt>>
<1>1. now \in Nat /\ MaxTime \in Nat
  BY RunnerAssumption DEF RunnerInv, RunnerTypeOK, Time
<1>2. CASE Tick
  BY <1>1, <1>2 DEF Tick, serviceVars
<1>3. CASE GoDown
  BY <1>1, <1>3 DEF GoDown, RunnerInv, ServiceHistory
<1>4. CASE ComeBack
  BY <1>1, <1>4 DEF ComeBack, Serving
<1>5. CASE UNCHANGED <<now, serviceVars>>
  BY <1>1, <1>5 DEF serviceVars
<1>6. UNCHANGED <<now, serviceVars>> \/ Tick \/ GoDown \/ ComeBack
  BY DEF Next, HarnessStep, Ask, Answer, LoopEnds, Begin, TimerAfterStop, Settle, Stop,
     LoopsSettled, ActionsSettled, vars
<1> QED
  BY <1>2, <1>3, <1>4, <1>5, <1>6

LEMMA OrderStep ==
  ASSUME RunnerInv, [Next]_vars
  PROVE  InOrder(records', now') /\ InOrder(markers', now')
<1>1. /\ records \in Seq(Records) /\ markers \in Seq(Markers)
      /\ InOrder(records, now) /\ InOrder(markers, now)
  BY DEF RunnerInv, RunnerTypeOK, Records, Markers, What
<1>2. InOrder(records, now') /\ InOrder(markers, now')
  BY <1>1, ClockStep, OrderLasts
<1>3. ASSUME Recorded PROVE InOrder(records', now')
  <2>1. PICK r \in Records : records' = Append(records, r) /\ r.t = now /\ now' = now
    BY <1>3 DEF Recorded
  <2>2. records' = records \o <<r>> /\ <<r>> \in Seq(Records)
    BY <1>1, <2>1, AppendIsConcat
  <2>3. \A i \in DOMAIN <<r>> : <<r>>[i].t = now'
    BY <2>1
  <2> DEFINE new == <<r>>
  <2> HIDE DEF new
  <2>4. records' = records \o new /\ new \in Seq(Records) /\ \A i \in DOMAIN new : new[i].t = now'
    BY <2>2, <2>3 DEF new
  <2> QED
    BY <1>1, <1>2, <2>4, ClockStep, ConcatInOrder
<1>4. ASSUME Marked PROVE InOrder(markers', now')
  <2>1. PICK new \in Seq(Markers) : /\ markers' = markers \o new /\ now' = now
                                    /\ \A i \in DOMAIN new : new[i].t = now
    BY <1>4 DEF Marked
  <2> QED
    BY <1>1, <1>2, <2>1, ClockStep, ConcatInOrder
<1> QED
  BY <1>2, <1>3, <1>4, StepAppends

LEMMA ServiceStep ==
  ASSUME RunnerInv, [Next]_vars
  PROVE  ServiceHistory' /\ Truthful'
<1> USE DEF None
<1>1. /\ downAt \in Int /\ upAt \in Int /\ now \in Int /\ now' \in Int
      /\ ServiceHistory /\ Truthful
      /\ records \in Seq(Records) /\ \A i \in DOMAIN records : records[i].t \in 0..now
  BY ClockStep DEF RunnerInv, RunnerTypeOK, Time, Records, InOrder
<1>2. ServiceHistory'
  BY <1>1, ClockStep DEF ServiceHistory
<1>3. ASSUME records' = records PROVE Truthful'
  <2>1. CASE UNCHANGED <<downAt, upAt>>
    BY <1>1, <1>3, <2>1 DEF Truthful
  <2>2. CASE downAt' = now /\ upAt' = upAt
    BY <1>1, <1>3, <2>2 DEF Truthful
  <2>3. CASE downAt # None /\ upAt = None /\ upAt' = now /\ downAt' = downAt
    BY <1>1, <1>3, <2>3 DEF Truthful
  <2> QED
    BY <2>1, <2>2, <2>3, ClockStep
<1>4. ASSUME Recorded PROVE Truthful'
  <2>1. PICK r \in Records : /\ records' = Append(records, r) /\ r.t = now
                             /\ Serving \/ r.kind \in Down
                             /\ UNCHANGED <<downAt, upAt>>
    BY <1>4 DEF Recorded
  <2>2. \A i \in DOMAIN records' :
          \/ i \in DOMAIN records /\ records'[i] = records[i]
          \/ records'[i] = r
    BY <1>1, <2>1, AppendProperties
  <2>3. \/ r.kind \in Down
        \/ downAt = None
        \/ upAt # None /\ upAt <= r.t
    BY <1>1, <2>1 DEF Serving, ServiceHistory
  <2> QED
    BY <1>1, <2>1, <2>2, <2>3 DEF Truthful
<1> QED
  BY <1>2, <1>3, <1>4, StepAppends

LEMMA RunnerInvariant == Spec => []RunnerInv
<1>1. RunnerInv /\ [Next]_vars => RunnerInv'
  <2> SUFFICES ASSUME RunnerInv, [Next]_vars PROVE RunnerInv'
    OBVIOUS
  <2> QED
    BY RunnerTypesStep, OrderStep, ServiceStep DEF RunnerInv
<1> QED
  BY RunnerInit, <1>1, PTL DEF Spec

-----------------------------------------------------------------------------
(* Induction, maxima and folds.                                            *)

(* NatInduction of NaturalsInduction, of a set instead of a predicate.     *)
LEMMA SetInduction ==
  ASSUME NEW S, 0 \in S, \A n \in Nat : n \in S => n + 1 \in S
  PROVE  Nat \subseteq S
<1> DEFINE R == {p \in Nat \X Nat : p[1] < p[2]}
           T == Nat \ S
<1>1. IsWellFoundedOn(R, Nat)
  BY NatLessThanWellFounded DEF OpToRel
<1>2. SUFFICES ASSUME T # {} PROVE FALSE
  OBVIOUS
<1>3. PICK x \in T : \A y \in T : <<y, x>> \notin R
  <2>1. T \subseteq Nat
    OBVIOUS
  <2> HIDE DEF R, T
  <2> QED
    BY <1>1, <1>2, <2>1, WFMin
<1>4. x \in Nat /\ x # 0 /\ x - 1 \in Nat /\ <<x - 1, x>> \in R
  OBVIOUS
<1>5. x - 1 \in S /\ (x - 1) + 1 \in S
  BY <1>3, <1>4
<1> QED
  BY <1>4, <1>5

LEMMA MaxIs ==
  ASSUME NEW S \in SUBSET Int, NEW m \in S, \A y \in S : y <= m
  PROVE  Max(S) = m
<1>1. \E x \in S : \A y \in S : x >= y
  OBVIOUS
<1>2. Max(S) \in S /\ \A y \in S : Max(S) >= y
  BY <1>1 DEF Max
<1> DEFINE x == Max(S)
<1>3. x \in Int /\ m \in Int /\ x >= m /\ x <= m
  BY <1>2
<1> HIDE DEF x
<1>4. x = m
  BY <1>3
<1> QED
  BY <1>4 DEF x

LEMMA MaxOfTwo ==
  ASSUME NEW a \in Int, NEW b \in Int
  PROVE  Max({a, b}) = IF a >= b THEN a ELSE b
<1>1. CASE a >= b
  BY <1>1, MaxIs
<1>2. CASE a < b
  BY <1>2, MaxIs
<1> QED
  BY <1>1, <1>2

LEMMA BoundedMax ==
  ASSUME NEW n \in Nat, NEW S \in SUBSET (0..n), S # {}
  PROVE  Max(S) \in S /\ \A y \in S : y <= Max(S)
<1> DEFINE Has(T) == \E m \in T : \A y \in T : y <= m
           E == {k \in Nat : \A T \in SUBSET (0..k) : T # {} => Has(T)}
<1>1. 0 \in E
  <2>1. ASSUME NEW T \in SUBSET (0..0), T # {} PROVE 0 \in T /\ \A y \in T : y <= 0
    <3>1. PICK y \in T : y \in 0..0
      BY <2>1
    <3> QED
      BY <3>1
  <2> QED
    BY <2>1
<1>2. ASSUME NEW k \in Nat, k \in E PROVE k + 1 \in E
  <2> SUFFICES ASSUME NEW T \in SUBSET (0..(k + 1)), T # {} PROVE Has(T)
    OBVIOUS
  <2>1. CASE k + 1 \in T
    BY <2>1
  <2>2. CASE k + 1 \notin T
    <3>1. T \in SUBSET (0..k)
      BY <2>2
    <3> QED
      BY <1>2, <3>1
  <2> QED
    BY <2>1, <2>2
<1> HIDE DEF E
<1>3. n \in E
  BY <1>1, <1>2, SetInduction
<1>4. PICK m \in S : \A y \in S : y <= m
  BY <1>3 DEF E
<1>5. Max(S) = m
  BY <1>4, MaxIs
<1> QED
  BY <1>4, <1>5

(* What the folds of the community modules are: FoldLeft takes the last    *)
(* position of a set of positions away, down to the empty set.             *)
Folds(g, A, base, n, step) ==
  /\ g \in [SUBSET (1..n) -> A]
  /\ \A s \in SUBSET (1..n) :
       g[s] = IF s = {} THEN base ELSE step[<<g[s \ {Max(s)}], Max(s)>>]

LEMMA SetRecursion ==
  ASSUME NEW A, NEW base \in A, NEW n \in Nat, NEW step \in [A \X (1..n) -> A]
  PROVE  \E g : Folds(g, A, base, n, step)
<1> DEFINE Rec(g, s) == g[s] = IF s = {} THEN base ELSE step[<<g[s \ {Max(s)}], Max(s)>>]
           Good(m) == \E g \in [SUBSET (1..m) -> A] : \A s \in SUBSET (1..m) : Rec(g, s)
           E == {m \in Nat : m <= n => Good(m)}
<1>1. 0 \in E
  <2>1. SUBSET (1..0) = {{}}
    OBVIOUS
  <2> DEFINE g == [s \in SUBSET (1..0) |-> base]
  <2>2. g \in [SUBSET (1..0) -> A] /\ \A s \in SUBSET (1..0) : Rec(g, s)
    BY <2>1
  <2> QED
    BY <2>2
<1>2. ASSUME NEW m \in Nat, m \in E PROVE m + 1 \in E
  <2>0. (m + 1 <= n => Good(m + 1)) => m + 1 \in E
    <3> HIDE DEF Good
    <3> QED
      OBVIOUS
  <2> SUFFICES ASSUME m + 1 <= n PROVE Good(m + 1)
    BY <2>0
  <2>5. Good(m)
    <3> HIDE DEF Good
    <3> QED
      BY <1>2
  <2>1. PICK g \in [SUBSET (1..m) -> A] : \A s \in SUBSET (1..m) : Rec(g, s)
    BY <2>5, Zenon
  <2> DEFINE h == [s \in SUBSET (1..(m + 1)) |->
                     IF m + 1 \in s THEN step[<<g[s \ {m + 1}], m + 1>>] ELSE g[s]]
  <2>2. \A s \in SUBSET (1..(m + 1)) : s \ {m + 1} \in SUBSET (1..m)
    OBVIOUS
  <2>3. h \in [SUBSET (1..(m + 1)) -> A]
    <3>1. ASSUME NEW s \in SUBSET (1..(m + 1)) PROVE h[s] \in A
      <4>1. CASE m + 1 \in s
        <5>1. g[s \ {m + 1}] \in A /\ m + 1 \in 1..n
          BY <2>2
        <5> QED
          BY <4>1, <5>1
      <4>2. CASE m + 1 \notin s
        BY <4>2, <2>2
      <4> QED
        BY <4>1, <4>2
    <3> QED
      BY <3>1
  <2>4. ASSUME NEW s \in SUBSET (1..(m + 1)) PROVE Rec(h, s)
    <3>1. CASE m + 1 \in s
      <4>1. Max(s) = m + 1
        BY <3>1, MaxIs
      <4>2. h[s \ {m + 1}] = g[s \ {m + 1}]
        BY <2>2
      <4> QED
        BY <3>1, <4>1, <4>2
    <3>2. CASE m + 1 \notin s /\ s # {}
      <4>1. s \in SUBSET (1..m) /\ s \in SUBSET (0..m)
        BY <3>2
      <4>2. Max(s) \in s
        BY <3>2, <4>1, BoundedMax
      <4>3. s \ {Max(s)} \in SUBSET (1..m) /\ m + 1 \notin s \ {Max(s)}
        BY <4>1, <3>2
      <4>4. h[s \ {Max(s)}] = g[s \ {Max(s)}] /\ h[s] = g[s]
        BY <4>1, <4>3, <3>2
      <4> QED
        BY <3>2, <4>1, <4>4, <2>1
    <3>3. CASE s = {}
      BY <3>3, <2>1
    <3> QED
      BY <3>1, <3>2, <3>3
  <2> QED
    BY <2>3, <2>4
<1> HIDE DEF E
<1>3. n \in E
  BY <1>1, <1>2, SetInduction
<1>4. Good(n)
  <2> HIDE DEF Good
  <2> QED
    BY <1>3 DEF E
<1> QED
  BY <1>4, Zenon DEF Folds

(* What FoldLeft counts down to, in the order it was built up.             *)
LEMMA Countdown ==
  ASSUME NEW n \in Nat, NEW k \in 1..n
  PROVE  Max(1..k) = k /\ (1..k) \ {Max(1..k)} = 1..(k - 1) /\ 1..k \in SUBSET (1..n) /\ 1..k # {}
<1>1. Max(1..k) = k
  <2>1. 1..k \in SUBSET Int /\ k \in 1..k /\ \A y \in 1..k : y <= k
    OBVIOUS
  <2> QED
    BY <2>1, MaxIs
<1> QED
  BY <1>1

Scan == [worst : Int, lastSuccessAt : Int, firstFailureAt : Int]

LEMMA ObserveType ==
  ASSUME NEW s \in Scan, NEW r, r.t \in Int
  PROVE  Closed(s, r.t) \in Int /\ Observe(s, r) \in Scan
<1>1. Closed(s, r.t) \in Int
  <2> DEFINE from == IF s.lastSuccessAt # None THEN s.lastSuccessAt ELSE s.firstFailureAt
  <2>1. s.worst \in Int /\ r.t - from \in Int
    BY DEF Scan
  <2>2. Max({s.worst, r.t - from}) \in Int
    BY <2>1, MaxOfTwo
  <2> QED
    BY <2>1, <2>2 DEF Closed
<1> QED
  BY <1>1 DEF Scan, Observe, None

LEMMA ObserveFold ==
  ASSUME NEW S, NEW entries \in Seq(S), \A i \in DOMAIN entries : entries[i].t \in Int
  PROVE  \E f : /\ f[0] = Unharmed
                /\ \A k \in 1..Len(entries) : f[k] = Observe(f[k - 1], entries[k])
                /\ FoldLeft(Observe, Unharmed, entries) = f[Len(entries)]
<1> DEFINE n == Len(entries)
           D == DOMAIN entries
           step == [p \in Scan \X (1..n) |-> Observe(p[1], entries[p[2]])]
           Fold(g) == [s \in SUBSET D |-> IF s = {} THEN Unharmed
                                          ELSE Observe(g[s \ {Max(s)}], entries[Max(s)])]
<1>1. n \in Nat /\ D = 1..n /\ Unharmed \in Scan
  BY DEF Unharmed, Scan, None
<1>2. step \in [Scan \X (1..n) -> Scan]
  BY <1>1, ObserveType
<1>3. PICK g : Folds(g, Scan, Unharmed, n, step)
  <2> HIDE DEF step, n
  <2> QED
    BY <1>1, <1>2, SetRecursion
<1>4. g = Fold(g)
  <2>1. ASSUME NEW s \in SUBSET (1..n), s # {}
        PROVE  g[s] = Observe(g[s \ {Max(s)}], entries[Max(s)])
    <3>1. s \in SUBSET (0..n)
      OBVIOUS
    <3>2. Max(s) \in s
      BY <1>1, <2>1, <3>1, BoundedMax
    <3>3. Max(s) \in 1..n /\ s \ {Max(s)} \in SUBSET (1..n)
      BY <3>2
    <3> QED
      BY <2>1, <3>3, <1>3 DEF Folds
  <2> QED
    BY <2>1, <1>1, <1>3 DEF Folds
<1> DEFINE it == CHOOSE h : h = Fold(h)
<1>5. it = Fold(it)
  <2> HIDE DEF Fold
  <2> QED
    BY <1>4, Zenon
<1>6. FoldLeft(Observe, Unharmed, entries) = it[D]
  BY Zenon DEF FoldLeft, MapThenFoldSet
<1> HIDE DEF it
<1> DEFINE f == [k \in 0..n |-> it[1..k]]
<1>7. f[0] = Unharmed /\ f[n] = it[D]
  BY <1>1, <1>5
<1>8. ASSUME NEW k \in 1..n PROVE f[k] = Observe(f[k - 1], entries[k])
  <2>1. /\ 1..k \in SUBSET D /\ 1..k # {} /\ Max(1..k) = k /\ (1..k) \ {k} = 1..(k - 1)
        /\ k - 1 \in 0..n
    <3>1. n \in Nat /\ D = 1..n
      BY <1>1
    <3> HIDE DEF n, D, step, Fold, f
    <3>2. /\ Max(1..k) = k /\ (1..k) \ {Max(1..k)} = 1..(k - 1)
          /\ 1..k \in SUBSET (1..n) /\ 1..k # {}
      BY <3>1, Countdown
    <3>3. k - 1 \in 0..n
      BY <3>1
    <3> QED
      BY <3>1, <3>2, <3>3
  <2>2. it[1..k] = Observe(it[1..(k - 1)], entries[k])
    BY <1>5, <2>1
  <2> QED
    BY <2>1, <2>2
<1> QED
  BY <1>6, <1>7, <1>8

-----------------------------------------------------------------------------
(* One pass over the log: longestContiguousOutage() (scorecard.ts:114-146).*)

Ordered(s) == \A i, j \in DOMAIN s : i <= j => s[i].t <= s[j].t

(* Where the scan is after n entries: l is the last success, d the first   *)
(* failure to answer since (0: there is none).                             *)
At(s, n, x, l, d) ==
  /\ l \in 0..n /\ d \in 0..n
  /\ l > 0 => Ok(s, l) /\ x.lastSuccessAt = s[l].t
  /\ l = 0 => x.lastSuccessAt = None
  /\ \A k \in (l + 1)..n : ~Ok(s, k)
  /\ d > 0 => d > l /\ s[d].kind \in Down /\ x.firstFailureAt = s[d].t
  /\ d = 0 => x.firstFailureAt = None
  /\ \A k \in (l + 1)..n : s[k].kind \in Down => d > 0 /\ d <= k

(* The worst of the stretches that a success has closed.                   *)
WorstOf(s, n, worst) ==
  /\ worst \in Nat
  /\ worst = 0 \/ \E i, j \in 1..n : Harmed(s, i, j) /\ Ok(s, j) /\ worst = s[j].t - s[i].t
  /\ \A i, j \in 1..n : Harmed(s, i, j) /\ Ok(s, j) => s[j].t - s[i].t <= worst

Since(l, d) == IF l > 0 THEN l ELSE d

(* A stretch that ends now begins where the scan says.                     *)
LEMMA StretchBegins ==
  ASSUME NEW s \in Seq(Records), NEW n \in Nat, NEW x, NEW l, NEW d, At(s, n, x, l, d),
         NEW j \in 1..Len(s), (j = n + 1 /\ Ok(s, j)) \/ (j = n /\ ~Ok(s, j))
  PROVE  /\ d > 0 => Harmed(s, Since(l, d), j) /\ Since(l, d) \in 1..j
         /\ \A i \in 1..Len(s) : Harmed(s, i, j) => d > 0 /\ i = Since(l, d)
<1> USE DEF Since
<1>1. /\ \A k : ~(Ok(s, k) /\ s[k].kind \in Down)
      /\ l \in 0..n /\ d \in 0..n
  BY DEF Ok, Down, At
<1>2. ASSUME d > 0 PROVE Harmed(s, Since(l, d), j) /\ Since(l, d) \in 1..j
  <2> DEFINE i == Since(l, d)
  <2>1. i \in 1..j /\ d \in i..j
    BY <1>1, <1>2 DEF At
  <2>2. \A k \in (i + 1)..(j - 1) : ~Ok(s, k)
    BY <1>1, <1>2, <2>1 DEF At
  <2>3. Ok(s, i) \/ (s[i].kind \in Down /\ \A k \in 1..(i - 1) : s[k].kind \notin Down \cup {"ok"})
    <3>1. CASE l > 0
      BY <3>1 DEF At
    <3>2. CASE l = 0
      <4>1. \A k \in 1..(d - 1) : ~Ok(s, k) /\ s[k].kind \notin Down
        BY <1>1, <1>2, <3>2 DEF At
      <4> QED
        BY <1>1, <1>2, <3>2, <4>1 DEF At, Ok
    <3> QED
      BY <1>1, <3>1, <3>2
  <2> QED
    BY <1>2, <2>1, <2>2, <2>3 DEF Harmed, At
<1>3. ASSUME NEW i \in 1..Len(s), Harmed(s, i, j)
      PROVE  d > 0 /\ i = Since(l, d)
  <2>1. i <= j /\ i >= l
    <3>1. ~(l \in (i + 1)..(j - 1))
      BY <1>1, <1>3 DEF At, Harmed
    <3>2. i <= j
      BY <1>3 DEF Harmed
    <3>3. ~(l = j /\ l > 0)
      BY <1>1 DEF At
    <3> QED
      BY <1>1, <3>1, <3>2, <3>3
  <2>2. PICK k \in i..j : s[k].kind \in Down
    BY <1>3 DEF Harmed
  <2>3. k \in (l + 1)..n
    BY <1>1, <2>1, <2>2 DEF At
  <2>4. d > 0 /\ d <= k
    BY <2>2, <2>3 DEF At
  <2>5. CASE Ok(s, i)
    BY <1>1, <2>1, <2>2, <2>3, <2>5 DEF At
  <2>6. CASE s[i].kind \in Down /\ \A m \in 1..(i - 1) : s[m].kind \notin Down \cup {"ok"}
    <3>1. l = 0
      BY <1>1, <2>1, <2>6 DEF At, Ok
    <3>2. d <= i
      BY <1>1, <2>1, <2>6, <3>1 DEF At
    <3>3. ~(d \in 1..(i - 1))
      BY <2>4, <2>6 DEF At
    <3> QED
      BY <1>1, <2>4, <3>1, <3>2, <3>3
  <2> QED
    BY <1>3, <2>5, <2>6 DEF Harmed
<1> QED
  BY <1>2, <1>3

(* One more entry.                                                         *)
LEMMA ScanStep ==
  ASSUME NEW s \in Seq(Records), Ordered(s), NEW n \in Nat, n + 1 <= Len(s),
         NEW x \in Scan, NEW l, NEW d, At(s, n, x, l, d), WorstOf(s, n, x.worst)
  PROVE  LET y == Observe(x, s[n + 1])
         IN  /\ y \in Scan /\ WorstOf(s, n + 1, y.worst)
             /\ \E m, e : At(s, n + 1, y, m, e)
<1> DEFINE r == s[n + 1]
           y == Observe(x, r)
           from == Since(l, d)
<1>1. /\ r \in Records /\ r.t \in Nat /\ n + 1 \in 1..Len(s) /\ l \in 0..n /\ d \in 0..n
      /\ \A k \in 1..Len(s) : s[k].t \in Nat
      /\ \A k : ~(Ok(s, k) /\ s[k].kind \in Down)
  <2>1. n + 1 \in 1..Len(s) /\ l \in 0..n /\ d \in 0..n /\ \A k : ~(Ok(s, k) /\ s[k].kind \in Down)
    BY DEF At, Ok, Down
  <2>2. \A k \in 1..Len(s) : s[k] \in Records /\ s[k].t \in Nat
    <3>1. \A e \in Records : e.t \in Nat
      BY RunnerAssumption DEF Records, Time
    <3> QED
      BY <3>1
  <2> QED
    BY <2>1, <2>2
<1>2. y \in Scan
  BY <1>1, ObserveType
<1>6. \A j \in 1..Len(s) : j = n + 1 /\ Ok(s, j) =>
        /\ d > 0 => Harmed(s, Since(l, d), j) /\ Since(l, d) \in 1..j
        /\ \A i \in 1..Len(s) : Harmed(s, i, j) => d > 0 /\ i = Since(l, d)
  <2> TAKE j \in 1..Len(s)
  <2> HAVE j = n + 1 /\ Ok(s, j)
  <2>1. (j = n + 1 /\ Ok(s, j)) \/ (j = n /\ ~Ok(s, j))
    OBVIOUS
  <2> QED
    BY <2>1, StretchBegins
<1>3. ASSUME ~Ok(s, n + 1)
      PROVE  WorstOf(s, n + 1, y.worst)
  <2>1. y.worst = x.worst
    BY <1>3 DEF Observe, Ok, Scan
  <2>2. \A i, j \in 1..(n + 1) : Harmed(s, i, j) /\ Ok(s, j) => i \in 1..n /\ j \in 1..n
    BY <1>3 DEF Harmed
  <2> QED
    BY <2>1, <2>2 DEF WorstOf
<1>4. ASSUME Ok(s, n + 1)
      PROVE  WorstOf(s, n + 1, y.worst)
  <2>1. y.worst = Closed(x, r.t)
    BY <1>4 DEF Observe, Ok
  <2>2. \A i \in 1..(n + 1) : Harmed(s, i, n + 1) => d > 0 /\ i = from
    <3> HIDE DEF from
    <3>1. n + 1 \in 1..Len(s) /\ n + 1 <= Len(s)
      BY <1>1
    <3>2. \A i \in 1..Len(s) : Harmed(s, i, n + 1) => d > 0 /\ i = Since(l, d)
      BY <3>1, <1>4, <1>6
    <3> QED
      BY <3>1, <3>2 DEF from
  <2>3. CASE d = 0
    <3>1. y.worst = x.worst
      BY <2>1, <2>3 DEF Closed, At
    <3>2. \A i, j \in 1..(n + 1) : Harmed(s, i, j) => i \in 1..n /\ j \in 1..n
      <4>1. \A i \in 1..(n + 1) : ~Harmed(s, i, n + 1)
        BY <2>2, <2>3
      <4>2. \A i, j \in 1..(n + 1) : Harmed(s, i, j) => i <= j
        BY DEF Harmed
      <4> QED
        BY <4>1, <4>2
    <3> QED
      BY <3>1, <3>2 DEF WorstOf
  <2>4. CASE d > 0
    <3>1. Harmed(s, from, n + 1) /\ from \in 1..n
      <4>1. Harmed(s, Since(l, d), n + 1)
        BY <1>1, <1>4, <2>4, <1>6
      <4> QED
        BY <1>1, <2>4, <4>1 DEF Since
    <3>2. y.worst = IF x.worst >= r.t - s[from].t THEN x.worst ELSE r.t - s[from].t
      <4>1. y.worst = Max({x.worst, r.t - s[from].t})
        <5>1. x.firstFailureAt # None /\ s[from].t = IF x.lastSuccessAt # None THEN x.lastSuccessAt
                                                      ELSE x.firstFailureAt
          <6>1. x.firstFailureAt = s[d].t /\ d \in 1..Len(s)
            BY <1>1, <2>4 DEF At
          <6>2. CASE l > 0
            <7>1. x.lastSuccessAt = s[l].t /\ l \in 1..Len(s) /\ from = l
              BY <1>1, <6>2 DEF At, Since
            <7> QED
              BY <1>1, <6>1, <7>1 DEF None
          <6>3. CASE l = 0
            <7>1. x.lastSuccessAt = None /\ from = d
              BY <6>3 DEF At, Since
            <7> QED
              BY <1>1, <6>1, <7>1 DEF None
          <6> QED
            BY <1>1, <6>2, <6>3
        <5> QED
          BY <2>1, <5>1 DEF Closed
      <4>2. x.worst \in Int /\ r.t - s[from].t \in Int
        <5>1. x.worst \in Int
          BY DEF Scan
        <5>2. from \in 1..Len(s)
          BY <1>1, <3>1
        <5>3. r.t \in Nat /\ s[from].t \in Nat
          BY <1>1, <5>2
        <5> QED
          BY <5>1, <5>3
      <4> QED
        BY <4>1, <4>2, MaxOfTwo
    <3>3. s[from].t <= r.t
      BY <1>1, <3>1 DEF Ordered
    <3>4. \A i, j \in 1..(n + 1) : Harmed(s, i, j) =>
            (i \in 1..n /\ j \in 1..n) \/ (i = from /\ j = n + 1)
      <4> HIDE DEF from
      <4> TAKE i, j \in 1..(n + 1)
      <4>1. CASE j = n + 1
        BY <2>2, <4>1
      <4>2. CASE j # n + 1
        <5>1. ASSUME Harmed(s, i, j) PROVE i \in 1..n /\ j \in 1..n
          <6>1. i <= j
            BY <5>1 DEF Harmed
          <6> QED
            BY <4>2, <6>1
        <5> QED
          BY <5>1
      <4> QED
        BY <4>1, <4>2
    <3>5. x.worst \in Nat /\ r.t - s[from].t \in Nat
      BY <1>1, <3>1, <3>3 DEF WorstOf
    <3>6. y.worst \in Nat /\ x.worst <= y.worst /\ r.t - s[from].t <= y.worst
      BY <3>2, <3>5
    <3>7. \A i, j \in 1..(n + 1) : Harmed(s, i, j) /\ Ok(s, j) => s[j].t - s[i].t <= y.worst
      <4> SUFFICES ASSUME NEW i \in 1..(n + 1), NEW j \in 1..(n + 1), Harmed(s, i, j), Ok(s, j)
                   PROVE  s[j].t - s[i].t <= y.worst
        OBVIOUS
      <4> HIDE DEF y, from
      <4>1. CASE i = from /\ j = n + 1
        BY <3>6, <4>1
      <4>2. CASE i \in 1..n /\ j \in 1..n
        <5>1. s[j].t - s[i].t <= x.worst /\ s[j].t - s[i].t \in Int
          BY <1>1, <4>2 DEF WorstOf
        <5> QED
          BY <3>5, <3>6, <5>1
      <4> QED
        BY <3>4, <4>1, <4>2
    <3>8. y.worst = 0 \/ \E i, j \in 1..(n + 1) : /\ Harmed(s, i, j) /\ Ok(s, j)
                                                  /\ y.worst = s[j].t - s[i].t
      <4> HIDE DEF y, from
      <4>1. CASE y.worst = x.worst
        BY <4>1 DEF WorstOf
      <4>2. CASE y.worst = r.t - s[from].t
        BY <1>4, <3>1, <4>2
      <4> QED
        BY <3>2, <4>1, <4>2
    <3> QED
      BY <3>6, <3>7, <3>8 DEF WorstOf
  <2> QED
    BY <1>1, <2>3, <2>4
<1>5. \E m, e : At(s, n + 1, y, m, e)
  <2>1. CASE Ok(s, n + 1)
    <3>1. At(s, n + 1, y, n + 1, 0)
      BY <1>1, <2>1 DEF At, Observe, Ok
    <3> QED
      BY <3>1
  <2>2. CASE r.kind \in Down
    <3>1. y.lastSuccessAt = x.lastSuccessAt
      BY <2>2 DEF Observe, Down, Scan
    <3>2. CASE d = 0
      <4>1. x.firstFailureAt = None /\ y.firstFailureAt = r.t
        BY <2>2, <3>2 DEF Observe, Down, Scan, At
      <4>2. At(s, n + 1, y, l, n + 1)
        BY <1>1, <2>2, <3>1, <3>2, <4>1 DEF At
      <4> QED
        BY <4>2
    <3>3. CASE d > 0
      <4>1. y = x
        BY <1>1, <2>2, <3>3 DEF Observe, Down, At, None
      <4>2. At(s, n + 1, y, l, d)
        BY <1>1, <2>2, <3>3, <4>1 DEF At
      <4> QED
        BY <4>2
    <3> QED
      BY <1>1, <3>2, <3>3
  <2>3. CASE ~Ok(s, n + 1) /\ r.kind \notin Down
    <3>1. y = x
      BY <2>3 DEF Observe, Ok
    <3>2. At(s, n + 1, y, l, d)
      BY <1>1, <2>3, <3>1 DEF At
    <3> QED
      BY <3>2
  <2> QED
    BY <2>1, <2>2, <2>3
<1> QED
  BY <1>2, <1>3, <1>4, <1>5

IsLongest(s, outage) ==
  /\ outage \in Nat
  /\ outage = 0 \/ \E i, j \in DOMAIN s : Stretch(s, i, j) /\ outage = s[j].t - s[i].t
  /\ \A i, j \in DOMAIN s : Stretch(s, i, j) => s[j].t - s[i].t <= outage

(* The scan of a timeline, after any of its entries.                       *)
LEMMA ScanReaches ==
  ASSUME NEW s \in Seq(Records), Ordered(s)
  PROVE  LET x == FoldLeft(Observe, Unharmed, s)
         IN  x \in Scan /\ WorstOf(s, Len(s), x.worst) /\ \E l, d : At(s, Len(s), x, l, d)
<1>1. /\ \A r \in Records : r.t \in Nat
      /\ Len(s) \in Nat /\ DOMAIN s = 1..Len(s) /\ \A i \in DOMAIN s : s[i] \in Records
  <2>1. \A r \in Records : r.t \in Nat
    BY RunnerAssumption DEF Records, Time
  <2> QED
    BY <2>1
<1>2. PICK f : /\ f[0] = Unharmed
               /\ \A k \in 1..Len(s) : f[k] = Observe(f[k - 1], s[k])
               /\ FoldLeft(Observe, Unharmed, s) = f[Len(s)]
  <2>1. \A i \in DOMAIN s : s[i].t \in Int
    BY <1>1
  <2> QED
    BY <2>1, ObserveFold
<1> DEFINE Good(n) == f[n] \in Scan /\ WorstOf(s, n, f[n].worst) /\ \E l, d : At(s, n, f[n], l, d)
           E == {n \in Nat : n <= Len(s) => Good(n)}
<1>3. Good(0)
  <2>1. f[0] \in Scan /\ f[0].worst = 0
    BY <1>2 DEF Unharmed, Scan, None
  <2>2. At(s, 0, f[0], 0, 0)
    BY <1>2 DEF Unharmed, At, None
  <2>3. WorstOf(s, 0, 0)
    BY DEF WorstOf
  <2> QED
    BY <2>1, <2>2, <2>3
<1>4. ASSUME NEW n \in Nat, n + 1 <= Len(s), Good(n) PROVE Good(n + 1)
  <2>1. f[n + 1] = Observe(f[n], s[n + 1])
    BY <1>1, <1>2, <1>4
  <2> QED
    BY <2>1, <1>4, ScanStep
<1>5. Len(s) \in E
  <2> HIDE DEF Good
  <2>1. 0 \in E
    BY <1>3
  <2>2. ASSUME NEW n \in Nat, n \in E PROVE n + 1 \in E
    BY <1>1, <1>4, <2>2
  <2> HIDE DEF E
  <2> QED
    BY <1>1, <2>1, <2>2, SetInduction
<1>6. Good(Len(s))
  <2> HIDE DEF Good
  <2> QED
    BY <1>1, <1>5
<1> QED
  BY <1>2, <1>6

LEMMA OutageIsLongest ==
  ASSUME NEW s \in Seq(Records), Ordered(s)
  PROVE  IsLongest(s, LongestContiguousOutage(s))
<1>1. CASE s = <<>>
  BY <1>1 DEF IsLongest, LongestContiguousOutage
<1>2. CASE s # <<>>
  <2> DEFINE x == FoldLeft(Observe, Unharmed, s)
             n == Len(s)
             outage == Closed(x, s[n].t)
  <2>1. /\ n \in 1..n /\ n \in Nat /\ DOMAIN s = 1..n /\ \A k : ~(Ok(s, k) /\ s[k].kind \in Down)
        /\ LongestContiguousOutage(s) = outage
    BY <1>2 DEF LongestContiguousOutage, Last, Ok, Down
  <2>2. \A i \in 1..n : s[i].t \in Nat
    <3>1. \A r \in Records : r.t \in Nat
      BY RunnerAssumption DEF Records, Time
    <3> QED
      BY <3>1
  <2>3. PICK l, d : x \in Scan /\ WorstOf(s, n, x.worst) /\ At(s, n, x, l, d)
    BY ScanReaches
  <2>4. l \in 0..n /\ d \in 0..n /\ x.worst \in Nat
    BY <2>3 DEF At, WorstOf
  <2> HIDE DEF x, n
  <2>5. CASE d = 0
    <3>1. outage = x.worst
      BY <2>3, <2>5 DEF Closed, At
    <3>2. \A i, j \in 1..n : Stretch(s, i, j) <=> Harmed(s, i, j) /\ Ok(s, j)
      <4> SUFFICES ASSUME NEW i \in 1..n, Harmed(s, i, n) PROVE Ok(s, n)
        BY DEF Stretch, n
      <4> QED
        BY <2>1, <2>3, <2>4, <2>5, StretchBegins DEF n
    <3> QED
      BY <2>1, <2>3, <3>1, <3>2 DEF IsLongest, WorstOf
  <2>6. CASE d > 0
    <3> DEFINE from == Since(l, d)
    <3>1. ~Ok(s, n)
      BY <2>1, <2>3, <2>4, <2>6 DEF At
    <3>2. /\ Harmed(s, from, n) /\ from \in 1..n
          /\ \A i \in 1..n : Harmed(s, i, n) => i = from
      BY <2>1, <2>3, <2>4, <2>6, <3>1, StretchBegins DEF n
    <3>3. outage = IF x.worst >= s[n].t - s[from].t THEN x.worst ELSE s[n].t - s[from].t
      <4>1. x.firstFailureAt # None /\ s[from].t = IF x.lastSuccessAt # None THEN x.lastSuccessAt
                                                    ELSE x.firstFailureAt
        <5>1. x.firstFailureAt = s[d].t /\ d \in 1..n
          BY <2>3, <2>4, <2>6 DEF At
        <5>2. CASE l > 0
          <6>1. x.lastSuccessAt = s[l].t /\ l \in 1..n /\ from = l
            BY <2>3, <2>4, <5>2 DEF At, Since
          <6> QED
            BY <2>2, <5>1, <6>1 DEF None
        <5>3. CASE l = 0
          <6>1. x.lastSuccessAt = None /\ from = d
            BY <2>3, <5>3 DEF At, Since
          <6> QED
            BY <2>2, <5>1, <6>1 DEF None
        <5> QED
          BY <2>4, <5>2, <5>3
      <4>2. outage = Max({x.worst, s[n].t - s[from].t})
        BY <4>1 DEF Closed
      <4>3. x.worst \in Int /\ s[n].t - s[from].t \in Int
        BY <2>1, <2>2, <2>4, <3>2
      <4> QED
        BY <4>2, <4>3, MaxOfTwo
    <3>4. s[from].t <= s[n].t /\ s[n].t - s[from].t \in Nat
      <4>1. s[from].t <= s[n].t
        BY <2>1, <3>2 DEF Ordered
      <4> QED
        BY <2>1, <2>2, <3>2, <4>1
    <3>5. \A i, j \in 1..n :
            Stretch(s, i, j) <=> (Harmed(s, i, j) /\ Ok(s, j)) \/ (i = from /\ j = n)
      <4> HIDE DEF from
      <4> QED
        BY <2>1, <3>1, <3>2 DEF Stretch, n
    <3> HIDE DEF outage, from
    <3>6. outage \in Nat /\ x.worst <= outage /\ s[n].t - s[from].t <= outage
      BY <2>4, <3>3, <3>4
    <3>7. \A i, j \in 1..n : Stretch(s, i, j) => s[j].t - s[i].t <= outage
      <4> SUFFICES ASSUME NEW i \in 1..n, NEW j \in 1..n, Stretch(s, i, j)
                   PROVE  s[j].t - s[i].t <= outage
        OBVIOUS
      <4>1. CASE i = from /\ j = n
        BY <3>6, <4>1
      <4>2. CASE Harmed(s, i, j) /\ Ok(s, j)
        <5>1. s[j].t - s[i].t <= x.worst /\ s[j].t - s[i].t \in Int
          BY <2>2, <2>3, <4>2 DEF WorstOf
        <5> QED
          BY <2>4, <3>6, <5>1
      <4> QED
        BY <3>5, <4>1, <4>2
    <3>8. outage = 0 \/ \E i, j \in 1..n : Stretch(s, i, j) /\ outage = s[j].t - s[i].t
      <4>1. CASE outage = x.worst
        BY <2>3, <3>5, <4>1 DEF WorstOf
      <4>2. CASE outage = s[n].t - s[from].t
        BY <2>1, <3>2, <3>5, <4>2
      <4> QED
        BY <3>3, <4>1, <4>2
    <3> QED
      BY <2>1, <3>6, <3>7, <3>8 DEF IsLongest
  <2> QED
    BY <2>4, <2>5, <2>6
<1> QED
  BY <1>1, <1>2

LEMMA StretchIsLongest ==
  ASSUME NEW s \in Seq(Records), NEW outage, IsLongest(s, outage)
  PROVE  LongestStretch(s) = outage
<1> DEFINE bounds == {b \in (DOMAIN s) \X (DOMAIN s) : Stretch(s, b[1], b[2])}
           S == {0} \cup {s[b[2]].t - s[b[1]].t : b \in bounds}
<1>1. \A i \in DOMAIN s : s[i].t \in Nat
  <2>1. \A r \in Records : r.t \in Nat
    BY RunnerAssumption DEF Records, Time
  <2> QED
    BY <2>1
<1>2. \A b \in bounds : b[1] \in DOMAIN s /\ b[2] \in DOMAIN s /\ Stretch(s, b[1], b[2])
  OBVIOUS
<1>3. \A i, j \in DOMAIN s : Stretch(s, i, j) => <<i, j>> \in bounds
  OBVIOUS
<1> HIDE DEF bounds
<1>4. S \in SUBSET Int /\ \A y \in S : y <= outage
  BY <1>1, <1>2 DEF IsLongest
<1>5. outage \in S
  <2>1. CASE outage = 0
    BY <2>1
  <2>2. ASSUME NEW i \in DOMAIN s, NEW j \in DOMAIN s, Stretch(s, i, j), outage = s[j].t - s[i].t
        PROVE  outage \in S
    <3>1. <<i, j>> \in bounds /\ <<i, j>>[1] = i /\ <<i, j>>[2] = j
      BY <2>2, <1>3
    <3> QED
      BY <2>2, <3>1
  <2> QED
    BY <2>1, <2>2 DEF IsLongest
<1>6. Max(S) = outage
  <2> HIDE DEF S
  <2> QED
    BY <1>4, <1>5, MaxIs
<1> QED
  BY <1>6 DEF LongestStretch, bounds

-----------------------------------------------------------------------------
(* What Array.filter() keeps (scorecard.ts:161-163, windows.ts:24-37).     *)

LEMMA AmongFold ==
  ASSUME NEW S, NEW s \in Seq(S), NEW I
  PROVE  \E f : /\ f[0] = <<>>
                /\ \A k \in 1..Len(s) : f[k] = IF k \in I THEN Append(f[k - 1], s[k]) ELSE f[k - 1]
                /\ Among(s, I) = f[Len(s)]
<1> DEFINE n == Len(s)
           D == DOMAIN [i \in DOMAIN s |-> i]
           Pick(kept, i) == IF i \in I THEN Append(kept, s[i]) ELSE kept
           step == [p \in Seq(S) \X (1..n) |-> Pick(p[1], p[2])]
           Fold(g) == [x \in SUBSET D |-> IF x = {} THEN <<>>
                                          ELSE Pick(g[x \ {Max(x)}], [i \in DOMAIN s |-> i][Max(x)])]
<1>1. n \in Nat /\ D = 1..n /\ <<>> \in Seq(S) /\ DOMAIN s = 1..n
  OBVIOUS
<1>2. step \in [Seq(S) \X (1..n) -> Seq(S)]
  <2>1. ASSUME NEW kept \in Seq(S), NEW i \in 1..n PROVE Pick(kept, i) \in Seq(S)
    BY <1>1
  <2> HIDE DEF Pick
  <2> QED
    BY <2>1
<1>3. PICK g : Folds(g, Seq(S), <<>>, n, step)
  <2> HIDE DEF step, n
  <2> QED
    BY <1>1, <1>2, SetRecursion
<1>4. g = Fold(g)
  <2>1. ASSUME NEW x \in SUBSET (1..n), x # {}
        PROVE  g[x] = Pick(g[x \ {Max(x)}], [i \in DOMAIN s |-> i][Max(x)])
    <3>1. x \in SUBSET (0..n)
      OBVIOUS
    <3>2. Max(x) \in x
      BY <1>1, <2>1, <3>1, BoundedMax
    <3>3. Max(x) \in 1..n /\ x \ {Max(x)} \in SUBSET (1..n) /\ g[x \ {Max(x)}] \in Seq(S)
      BY <3>2, <1>3 DEF Folds
    <3>4. [i \in DOMAIN s |-> i][Max(x)] = Max(x)
      BY <1>1, <3>3
    <3> HIDE DEF Pick
    <3>5. g[x] = step[<<g[x \ {Max(x)}], Max(x)>>]
      <4> HIDE DEF step
      <4> QED
        BY <2>1, <1>3 DEF Folds
    <3> QED
      BY <3>3, <3>4, <3>5
  <2> HIDE DEF Pick
  <2> QED
    BY <2>1, <1>1, <1>3 DEF Folds
<1> DEFINE it == CHOOSE h : h = Fold(h)
<1>5. it = Fold(it)
  <2> HIDE DEF Fold
  <2> QED
    BY <1>4, Zenon
<1>6. Among(s, I) = it[D]
  BY Zenon DEF Among, FoldLeftDomain, FoldLeft, MapThenFoldSet
<1> HIDE DEF it
<1> DEFINE f == [k \in 0..n |-> it[1..k]]
<1>7. f[0] = <<>> /\ f[n] = it[D]
  <2>1. it[{}] = <<>> /\ 1..0 = {}
    BY <1>5
  <2> QED
    BY <1>1, <2>1
<1>8. ASSUME NEW k \in 1..n PROVE f[k] = Pick(f[k - 1], k)
  <2>1. /\ 1..k \in SUBSET D /\ 1..k # {} /\ Max(1..k) = k /\ (1..k) \ {k} = 1..(k - 1)
        /\ k - 1 \in 0..n /\ [i \in DOMAIN s |-> i][k] = k
    <3>1. n \in Nat /\ D = 1..n
      BY <1>1
    <3>2. [i \in DOMAIN s |-> i][k] = k
      BY <1>1
    <3> HIDE DEF n, D, step, Fold, f, Pick
    <3>3. /\ Max(1..k) = k /\ (1..k) \ {Max(1..k)} = 1..(k - 1)
          /\ 1..k \in SUBSET (1..n) /\ 1..k # {}
      BY <3>1, Countdown
    <3>4. k - 1 \in 0..n
      BY <3>1
    <3> QED
      BY <3>1, <3>2, <3>3, <3>4
  <2> HIDE DEF Pick
  <2>2. it[1..k] = Pick(it[1..(k - 1)], k)
    BY <1>5, <2>1
  <2> QED
    BY <2>1, <2>2
<1> QED
  BY <1>6, <1>7, <1>8

(* h is where the members of a filtered sequence were.                     *)
Picked(s, I, n, kept, h) ==
  /\ h \in [1..Len(kept) -> (1..n) \cap I]
  /\ \A i, j \in 1..Len(kept) : i < j => h[i] < h[j]
  /\ \A i \in 1..Len(kept) : kept[i] = s[h[i]]
  /\ \A m \in (1..n) \cap I : \E i \in 1..Len(kept) : h[i] = m

LEMMA PickOne ==
  ASSUME NEW S, NEW s \in Seq(S), NEW I, NEW n \in Nat, n + 1 <= Len(s),
         NEW kept \in Seq(S), NEW h, Picked(s, I, n, kept, h)
  PROVE  LET next == IF n + 1 \in I THEN Append(kept, s[n + 1]) ELSE kept
         IN  next \in Seq(S) /\ \E g : Picked(s, I, n + 1, next, g)
<1>1. CASE n + 1 \notin I
  <2>1. (1..(n + 1)) \cap I = (1..n) \cap I
    BY <1>1
  <2>2. Picked(s, I, n + 1, kept, h)
    BY <2>1 DEF Picked
  <2> QED
    BY <1>1, <2>2
<1>2. CASE n + 1 \in I
  <2> DEFINE next == Append(kept, s[n + 1])
             g == [i \in 1..(Len(kept) + 1) |-> IF i <= Len(kept) THEN h[i] ELSE n + 1]
  <2>1. /\ Len(kept) \in Nat /\ s[n + 1] \in S
        /\ next \in Seq(S) /\ Len(next) = Len(kept) + 1
        /\ \A i \in 1..Len(kept) : next[i] = kept[i]
        /\ next[Len(kept) + 1] = s[n + 1]
    BY AppendProperties
  <2>2. ASSUME NEW i \in 1..Len(kept) PROVE h[i] \in 1..n /\ h[i] \in I /\ g[i] = h[i]
    <3>1. h[i] \in 1..n /\ h[i] \in I
      BY DEF Picked
    <3>2. g[i] = h[i]
      BY <2>1
    <3> QED
      BY <3>1, <3>2
  <2>3. g[Len(kept) + 1] = n + 1
    BY <2>1
  <2> HIDE DEF next
  <2>4. g \in [1..Len(next) -> (1..(n + 1)) \cap I]
    <3>1. ASSUME NEW i \in 1..Len(next) PROVE g[i] \in (1..(n + 1)) \cap I
      <4> HIDE DEF g
      <4>1. CASE i \in 1..Len(kept)
        <5>1. g[i] = h[i] /\ h[i] \in 1..n /\ h[i] \in I
          BY <2>2, <4>1
        <5> QED
          BY <5>1
      <4>2. CASE i = Len(kept) + 1
        BY <1>2, <2>3, <4>2
      <4> QED
        BY <2>1, <4>1, <4>2
    <3>2. DOMAIN g = 1..Len(next) /\ g = [i \in DOMAIN g |-> g[i]]
      BY <2>1
    <3> HIDE DEF g
    <3> QED
      BY <3>1, <3>2
  <2> HIDE DEF g
  <2>5. ASSUME NEW i \in 1..Len(next), NEW j \in 1..Len(next), i < j PROVE g[i] < g[j]
    <3>1. i \in 1..Len(kept)
      BY <2>1, <2>5
    <3>2. CASE j = Len(kept) + 1
      BY <2>2, <2>3, <3>1, <3>2
    <3>3. CASE j \in 1..Len(kept)
      BY <2>2, <2>5, <3>1, <3>3 DEF Picked
    <3> QED
      BY <2>1, <3>2, <3>3
  <2>6. ASSUME NEW i \in 1..Len(next) PROVE next[i] = s[g[i]]
    <3>1. CASE i = Len(kept) + 1
      BY <2>1, <2>3, <3>1
    <3>2. CASE i \in 1..Len(kept)
      BY <2>1, <2>2, <3>2 DEF Picked
    <3> QED
      BY <2>1, <3>1, <3>2
  <2>7. ASSUME NEW m \in (1..(n + 1)) \cap I PROVE \E i \in 1..Len(next) : g[i] = m
    <3>1. CASE m = n + 1
      BY <2>1, <2>3, <3>1
    <3>2. CASE m \in (1..n) \cap I
      <4>1. PICK i \in 1..Len(kept) : h[i] = m
        BY <3>2 DEF Picked
      <4>2. i \in 1..Len(next) /\ g[i] = m
        BY <2>1, <2>2, <4>1
      <4> QED
        BY <4>2
    <3> QED
      BY <3>1, <3>2
  <2>8. Picked(s, I, n + 1, next, g)
    BY <2>4, <2>5, <2>6, <2>7 DEF Picked
  <2> QED
    BY <1>2, <2>1, <2>8 DEF next
<1> QED
  BY <1>1, <1>2

LEMMA AmongPicks ==
  ASSUME NEW S, NEW s \in Seq(S), NEW I
  PROVE  Among(s, I) \in Seq(S) /\ \E h : Picked(s, I, Len(s), Among(s, I), h)
<1>1. PICK f : /\ f[0] = <<>>
               /\ \A k \in 1..Len(s) : f[k] = IF k \in I THEN Append(f[k - 1], s[k]) ELSE f[k - 1]
               /\ Among(s, I) = f[Len(s)]
  BY AmongFold
<1> DEFINE Good(n) == f[n] \in Seq(S) /\ \E h : Picked(s, I, n, f[n], h)
           E == {n \in Nat : n <= Len(s) => Good(n)}
<1>2. Good(0)
  <2>1. f[0] \in Seq(S) /\ Len(f[0]) = 0
    BY <1>1
  <2>2. Picked(s, I, 0, f[0], [i \in 1..0 |-> i])
    BY <2>1 DEF Picked
  <2> QED
    BY <2>1, <2>2
<1>3. ASSUME NEW n \in Nat, n + 1 <= Len(s), Good(n) PROVE Good(n + 1)
  <2>1. f[n + 1] = IF n + 1 \in I THEN Append(f[n], s[n + 1]) ELSE f[n]
    <3>1. n + 1 \in 1..Len(s) /\ (n + 1) - 1 = n
      BY <1>3
    <3> QED
      BY <1>1, <3>1
  <2> QED
    BY <2>1, <1>3, PickOne
<1>4. Len(s) \in E
  <2> HIDE DEF Good
  <2>1. 0 \in E
    BY <1>2
  <2>2. ASSUME NEW n \in Nat, n \in E PROVE n + 1 \in E
    <3>1. Len(s) \in Nat
      OBVIOUS
    <3> QED
      BY <1>3, <2>2, <3>1
  <2> HIDE DEF E
  <2> QED
    BY <2>1, <2>2, SetInduction
<1>5. Good(Len(s))
  <2> HIDE DEF Good
  <2> QED
    BY <1>4
<1> QED
  BY <1>1, <1>5

-----------------------------------------------------------------------------
(* The headline, the windows and the policy (scorecard.ts:148-185).        *)

LEMMA AmongAll ==
  ASSUME NEW S, NEW s \in Seq(S)
  PROVE  Among(s, DOMAIN s) = s
<1>1. PICK f : /\ f[0] = <<>>
               /\ \A k \in 1..Len(s) : f[k] = IF k \in DOMAIN s THEN Append(f[k - 1], s[k]) ELSE f[k - 1]
               /\ Among(s, DOMAIN s) = f[Len(s)]
  BY AmongFold
<1> DEFINE Good(n) == f[n] = [i \in 1..n |-> s[i]]
           E == {n \in Nat : n <= Len(s) => Good(n)}
<1>2. Len(s) \in Nat /\ DOMAIN s = 1..Len(s) /\ s = [i \in 1..Len(s) |-> s[i]]
  OBVIOUS
<1>3. Good(0)
  BY <1>1
<1>4. ASSUME NEW n \in Nat, n + 1 <= Len(s), Good(n) PROVE Good(n + 1)
  <2>1. f[n + 1] = Append(f[n], s[n + 1])
    <3>1. n + 1 \in 1..Len(s) /\ (n + 1) - 1 = n
      BY <1>2, <1>4
    <3> QED
      BY <1>1, <1>2, <3>1
  <2>2. [i \in 1..n |-> s[i]] \in Seq(S) /\ Len([i \in 1..n |-> s[i]]) = n
    BY <1>2, <1>4
  <2>3. Append([i \in 1..n |-> s[i]], s[n + 1]) = [i \in 1..(n + 1) |-> s[i]]
    BY <2>2
  <2> QED
    BY <2>1, <2>3, <1>4
<1>5. Len(s) \in E
  <2> HIDE DEF Good
  <2>1. 0 \in E
    BY <1>3
  <2>2. ASSUME NEW n \in Nat, n \in E PROVE n + 1 \in E
    BY <1>2, <1>4, <2>2
  <2> HIDE DEF E
  <2> QED
    BY <1>2, <2>1, <2>2, SetInduction
<1>6. Good(Len(s))
  <2> HIDE DEF Good
  <2> QED
    BY <1>2, <1>5
<1> QED
  BY <1>1, <1>2, <1>6

(* The headline is the score of the whole timeline.                        *)
LEMMA HeadlineIsAll ==
  ASSUME NEW s \in Seq(Records), NEW time \in Nat, InOrder(s, time)
  PROVE  LET score == Overall(s, 0, time)
         IN  /\ score.failures = Cardinality(Failing(s))
             /\ score.byKind = [k \in FailureKind |-> Cardinality({i \in DOMAIN s : s[i].kind = k})]
             /\ score.outage = LongestContiguousOutage(s)
             /\ score.worstSecond = WorstSecondBucket(s)
<1>1. Inside(Quiet(0, time + 1), s) = DOMAIN s
  <2>1. \A i \in DOMAIN s : 0 <= s[i].t /\ s[i].t < time + 1
    BY DEF InOrder
  <2> QED
    BY <2>1 DEF Inside, Quiet
<1>2. Among(s, Inside(Quiet(0, time + 1), s)) = s
  BY <1>1, AmongAll
<1> QED
  BY <1>2 DEF Overall, ScoreWindow

LEMMA PositionsAreFinite ==
  ASSUME NEW S, NEW s \in Seq(S), NEW T \in SUBSET DOMAIN s
  PROVE  IsFiniteSet(T) /\ Cardinality(T) \in 0..Len(s) /\ (Cardinality(T) = 0 <=> T = {})
<1>1. /\ Len(s) \in Nat /\ DOMAIN s = 1..Len(s)
      /\ IsFiniteSet(1..Len(s)) /\ Cardinality(1..Len(s)) = Len(s)
  <2>1. Len(s) \in Nat /\ DOMAIN s = 1..Len(s) /\ 1 \in Int
    OBVIOUS
  <2>2. IsFiniteSet(1..Len(s)) /\ Cardinality(1..Len(s)) = IF 1 > Len(s) THEN 0 ELSE Len(s) - 1 + 1
    BY <2>1, FS_Interval
  <2> QED
    BY <2>1, <2>2
<1>2. IsFiniteSet(T) /\ Cardinality(T) \in Nat /\ Cardinality(T) <= Len(s)
  BY <1>1, FS_Subset, FS_CardinalityType
<1> QED
  BY <1>1, <1>2, FS_EmptySet

(* Both policies that gate agree on requests.                              *)
LEMMA PassIsSpotless ==
  ASSUME NEW s \in Seq(Records), NEW time \in Nat, InOrder(s, time),
         NEW policy \in {StrictPolicy, ZeroDowntimePolicy}
  PROVE  PassesRequests(policy, Overall(s, 0, time)) <=> Failing(s) = {}
<1> DEFINE score == Overall(s, 0, time)
<1>1. /\ score.failures = Cardinality(Failing(s))
      /\ score.byKind = [k \in FailureKind |-> Cardinality({i \in DOMAIN s : s[i].kind = k})]
      /\ score.outage = LongestContiguousOutage(s)
  BY HeadlineIsAll
<1> HIDE DEF score
<1>2. Cardinality(Failing(s)) \in Nat /\ (Cardinality(Failing(s)) = 0 <=> Failing(s) = {})
  <2>1. Failing(s) \in SUBSET DOMAIN s
    BY DEF Failing
  <2> QED
    BY <2>1, PositionsAreFinite
<1>3. PassesRequests(policy, score) <=>
        /\ Cardinality(Failing(s)) <= 0 /\ LongestContiguousOutage(s) <= 0
        /\ score.byKind["wrong-result"] <= 0 /\ score.byKind["graphql-error"] <= 0
  <2>1. /\ policy.maxFailedRequests = 0 /\ policy.maxContiguousOutageMs = 0
        /\ policy.maxIncorrectResults = 0 /\ policy.maxGraphqlErrors = 0
    <3>1. CASE policy = StrictPolicy
      BY <3>1 DEF StrictPolicy
    <3>2. CASE policy = ZeroDowntimePolicy
      BY <3>2 DEF StrictPolicy, ZeroDowntimePolicy
    <3> QED
      BY <3>1, <3>2
  <2> QED
    BY <1>1, <2>1 DEF PassesRequests, Within, None
<1>4. ASSUME Failing(s) = {}
      PROVE  /\ LongestContiguousOutage(s) <= 0
             /\ score.byKind["wrong-result"] <= 0 /\ score.byKind["graphql-error"] <= 0
  <2>1. \A i \in DOMAIN s : s[i].kind = "ok"
    BY <1>4 DEF Failing
  <2>2. LongestContiguousOutage(s) <= 0
    <3>1. IsLongest(s, LongestContiguousOutage(s))
      <4>1. Ordered(s)
        BY DEF Ordered, InOrder
      <4> QED
        BY <4>1, OutageIsLongest
    <3>2. \A i, j \in DOMAIN s : ~Stretch(s, i, j)
      <4> SUFFICES ASSUME NEW i \in DOMAIN s, NEW j \in DOMAIN s, NEW k \in i..j, s[k].kind \in Down
                   PROVE  FALSE
        BY DEF Stretch, Harmed
      <4>1. k \in DOMAIN s
        OBVIOUS
      <4> QED
        BY <2>1, <4>1 DEF Down
    <3> QED
      BY <3>1, <3>2 DEF IsLongest
  <2>3. \A k \in FailureKind : score.byKind[k] = 0
    <3> SUFFICES ASSUME NEW k \in FailureKind PROVE score.byKind[k] = 0
      OBVIOUS
    <3>1. {i \in DOMAIN s : s[i].kind = k} = {}
      BY <2>1 DEF FailureKind
    <3> QED
      BY <1>1, <3>1, FS_EmptySet
  <2> QED
    BY <2>2, <2>3 DEF FailureKind
<1>5. Cardinality(Failing(s)) <= 0 <=> Failing(s) = {}
  BY <1>2
<1>6. PassesRequests(policy, score) <=> Failing(s) = {}
  BY <1>3, <1>4, <1>5
<1> QED
  BY <1>6 DEF score

LEMMA FirstOf ==
  ASSUME NEW S \in SUBSET Nat, S # {}
  PROVE  Min(S) \in S /\ \A y \in S : Min(S) <= y
<1> DEFINE Has == \E m \in S : \A y \in S : m <= y
           E == {k \in Nat : (\E y \in S : y <= k) => Has}
<1>1. 0 \in E
  OBVIOUS
<1>2. ASSUME NEW k \in Nat, k \in E PROVE k + 1 \in E
  <2>1. CASE \E y \in S : y <= k
    BY <1>2, <2>1
  <2>2. CASE ~(\E y \in S : y <= k)
    <3> SUFFICES ASSUME NEW y \in S, y <= k + 1 PROVE Has
      OBVIOUS
    <3>1. y = k + 1 /\ \A z \in S : y <= z
      BY <2>2
    <3> QED
      BY <3>1
  <2> QED
    BY <2>1, <2>2
<1> HIDE DEF E
<1>3. Nat \subseteq E
  BY <1>1, <1>2, SetInduction
<1>4. PICK m \in S : \A y \in S : m <= y
  <2>1. PICK y \in S : TRUE
    OBVIOUS
  <2>2. y \in E /\ y <= y
    BY <1>3
  <2> QED
    BY <2>2 DEF E
<1>5. Min(S) \in S /\ \A y \in S : Min(S) <= y
  BY <1>4 DEF Min
<1> QED
  BY <1>5

(* Every failure to answer is in a stretch.                                *)
LEMMA StretchAround ==
  ASSUME NEW s \in Seq(Records), NEW k \in DOMAIN s, s[k].kind \in Down
  PROVE  \E a, b \in DOMAIN s : Stretch(s, a, b) /\ a <= k /\ k <= b
<1>1. Len(s) \in Nat /\ DOMAIN s = 1..Len(s) /\ \A i : ~(Ok(s, i) /\ s[i].kind \in Down)
  BY DEF Ok, Down
<1>2. PICK a \in DOMAIN s :
        /\ a <= k /\ \A i \in (a + 1)..k : ~Ok(s, i)
        /\ Ok(s, a) \/ (s[a].kind \in Down /\ \A i \in 1..(a - 1) : s[i].kind \notin Down \cup {"ok"})
  <2> DEFINE Oks == {i \in 1..k : Ok(s, i)}
  <2>1. CASE Oks # {}
    <3>1. Oks \in SUBSET (0..k) /\ k \in Nat
      BY <1>1
    <3>2. Max(Oks) \in Oks /\ \A y \in Oks : y <= Max(Oks)
      BY <2>1, <3>1, BoundedMax
    <3> QED
      BY <1>1, <3>2
  <2>2. CASE Oks = {}
    <3> DEFINE Downs == {i \in 1..k : s[i].kind \in Down}
    <3>1. Downs \in SUBSET Nat /\ k \in Downs
      BY <1>1
    <3>2. Min(Downs) \in Downs /\ \A y \in Downs : Min(Downs) <= y
      BY <3>1, FirstOf
    <3>3. \A i \in 1..(Min(Downs) - 1) : s[i].kind \notin Down \cup {"ok"}
      <4> SUFFICES ASSUME NEW i \in 1..(Min(Downs) - 1) PROVE s[i].kind \notin Down /\ ~Ok(s, i)
        BY DEF Ok
      <4> DEFINE m == Min(Downs)
      <4>1. m \in 1..k /\ i \in 1..k /\ i < m
        BY <3>2
      <4> QED
        BY <2>2, <3>2, <4>1
    <3>4. \A i \in (Min(Downs) + 1)..k : ~Ok(s, i)
      BY <2>2, <3>2
    <3> QED
      BY <1>1, <3>2, <3>3, <3>4
  <2> QED
    BY <2>1, <2>2
<1>3. PICK b \in DOMAIN s : /\ k <= b /\ \A i \in k..(b - 1) : ~Ok(s, i)
                            /\ Ok(s, b) \/ b = Len(s)
  <2> DEFINE Oks == {i \in k..Len(s) : Ok(s, i)}
  <2>1. CASE Oks # {}
    <3>1. Oks \in SUBSET Nat
      BY <1>1
    <3>2. Min(Oks) \in Oks /\ \A y \in Oks : Min(Oks) <= y
      BY <2>1, <3>1, FirstOf
    <3> DEFINE m == Min(Oks)
    <3>3. m \in k..Len(s) /\ Ok(s, m)
      BY <3>2
    <3>4. \A y \in Oks : m <= y
      BY <3>2
    <3> HIDE DEF m
    <3>5. \A i \in k..(m - 1) : ~Ok(s, i)
      BY <1>1, <3>3, <3>4
    <3> QED
      BY <1>1, <3>3, <3>5
  <2>2. CASE Oks = {}
    <3>1. Len(s) \in DOMAIN s /\ k <= Len(s) /\ \A i \in k..(Len(s) - 1) : ~Ok(s, i)
      BY <1>1, <2>2
    <3> QED
      BY <3>1
  <2> QED
    BY <2>1, <2>2
<1>4. \A i \in (a + 1)..(b - 1) : ~Ok(s, i)
  BY <1>1, <1>2, <1>3
<1>5. Stretch(s, a, b)
  BY <1>1, <1>2, <1>3, <1>4 DEF Stretch, Harmed
<1> QED
  BY <1>2, <1>3, <1>5

(* A stretch of one window is part of a stretch of the run.                *)
LEMMA PartsAreShorter ==
  ASSUME NEW s \in Seq(Records), NEW w, Ordered(s), w.from \in Int, w.to \in Int
  PROVE  LET part == Among(s, Inside(w, s))
         IN  LongestContiguousOutage(part) <= LongestContiguousOutage(s)
<1> DEFINE I == Inside(w, s)
           part == Among(s, I)
<1>0. /\ Len(s) \in Nat /\ DOMAIN s = 1..Len(s) /\ \A i : ~(Ok(s, i) /\ s[i].kind \in Down)
      /\ \A i \in 1..Len(s) : s[i].t \in Nat
  <2>1. \A r \in Records : r.t \in Nat
    BY RunnerAssumption DEF Records, Time
  <2>2. Len(s) \in Nat /\ DOMAIN s = 1..Len(s) /\ \A i : ~(Ok(s, i) /\ s[i].kind \in Down)
    BY DEF Ok, Down
  <2> QED
    BY <2>1, <2>2
<1>1. PICK h : part \in Seq(Records) /\ Picked(s, I, Len(s), part, h)
  BY AmongPicks
<1>2. ASSUME NEW i \in I, NEW k \in I, NEW j \in 1..Len(s), i <= j, j <= k PROVE j \in I
  <2>1. i \in 1..Len(s) /\ k \in 1..Len(s) /\ w.from <= s[i].t /\ s[k].t < w.to
    BY <1>0 DEF Inside
  <2>2. s[i].t <= s[j].t /\ s[j].t <= s[k].t
    BY <1>0, <1>2, <2>1 DEF Ordered
  <2> DEFINE p == s[i].t
             q == s[j].t
             r == s[k].t
  <2>3. p \in Nat /\ q \in Nat /\ r \in Nat /\ w.from <= p /\ p <= q /\ q <= r /\ r < w.to
    BY <1>0, <2>1, <2>2
  <2> HIDE DEF p, q, r
  <2>4. w.from <= q /\ q < w.to
    BY <2>3
  <2> QED
    BY <1>0, <2>4 DEF Inside, q
<1> HIDE DEF I, part
<1>3. /\ Len(part) \in Nat /\ DOMAIN part = 1..Len(part)
      /\ \A i \in 1..Len(part) : h[i] \in 1..Len(s) /\ h[i] \in I /\ part[i] = s[h[i]]
      /\ \A i, j \in 1..Len(part) : i < j => h[i] < h[j]
      /\ \A m \in 1..Len(s) : m \in I => \E i \in 1..Len(part) : h[i] = m
  BY <1>1 DEF Picked
<1>4. \A i, j \in 1..Len(part) : i <= j => h[i] <= h[j]
  BY <1>3
<1>5. \A i, j \in 1..Len(part) : h[i] < h[j] => i < j
  BY <1>3, <1>4
<1>6. Ordered(part)
  <2> SUFFICES ASSUME NEW i \in 1..Len(part), NEW j \in 1..Len(part), i <= j
               PROVE  part[i].t <= part[j].t
    BY <1>3 DEF Ordered
  <2>1. /\ part[i] = s[h[i]] /\ part[j] = s[h[j]] /\ h[i] <= h[j]
        /\ h[i] \in DOMAIN s /\ h[j] \in DOMAIN s
    BY <1>0, <1>3, <1>4
  <2> QED
    BY <2>1 DEF Ordered
<1>7. ASSUME NEW i \in 1..Len(part), NEW j \in 1..Len(part), Stretch(part, i, j)
      PROVE  part[j].t - part[i].t <= LongestContiguousOutage(s)
  <2>1. PICK k \in i..j : part[k].kind \in Down
    BY <1>7 DEF Stretch, Harmed
  <2>2. /\ k \in 1..Len(part) /\ h[k] \in DOMAIN s /\ s[h[k]].kind \in Down
        /\ h[i] <= h[k] /\ h[k] <= h[j] /\ i <= j
    BY <1>0, <1>3, <1>4, <2>1
  <2>3. PICK a, b \in DOMAIN s : Stretch(s, a, b) /\ a <= h[k] /\ h[k] <= b
    BY <2>2, StretchAround
  <2>4. \A m \in (i + 1)..(j - 1) : ~Ok(s, h[m])
    <3> TAKE m \in (i + 1)..(j - 1)
    <3>1. ~Ok(part, m)
      BY <1>7 DEF Stretch, Harmed
    <3>2. part[m] = s[h[m]]
      BY <1>3
    <3> QED
      BY <3>1, <3>2 DEF Ok
  <2>5. a <= h[i]
    <3> SUFFICES ASSUME h[i] < a PROVE FALSE
      BY <1>0, <1>3
    <3>1. CASE Ok(s, a)
      <4>1. a \in I
        BY <1>0, <1>2, <1>3, <2>2, <2>3
      <4>2. PICK m \in 1..Len(part) : h[m] = a
        BY <1>0, <1>3, <4>1
      <4>3. a # h[k] /\ a < h[k]
        BY <1>0, <2>2, <2>3, <3>1
      <4>4. i < m /\ m < k
        BY <1>5, <2>2, <4>2, <4>3
      <4> QED
        BY <2>1, <2>4, <3>1, <4>2, <4>4
    <3>2. CASE \A m \in 1..(a - 1) : s[m].kind \notin Down \cup {"ok"}
      <4>1. part[i].kind \in Down \cup {"ok"}
        BY <1>7 DEF Stretch, Harmed, Ok
      <4>2. h[i] \in 1..(a - 1) /\ s[h[i]].kind \in Down \cup {"ok"}
        BY <1>0, <1>3, <4>1
      <4> QED
        BY <3>2, <4>2
    <3> QED
      BY <2>3, <3>1, <3>2 DEF Stretch, Harmed
  <2>6. h[j] <= b
    <3> SUFFICES ASSUME b < h[j] PROVE FALSE
      BY <1>0, <1>3
    <3>1. Ok(s, b)
      BY <1>0, <1>3, <2>3 DEF Stretch
    <3>2. b \in I
      BY <1>0, <1>2, <1>3, <2>2, <2>3
    <3>3. PICK m \in 1..Len(part) : h[m] = b
      BY <1>0, <1>3, <3>2
    <3>4. b # h[k] /\ h[k] < b
      BY <1>0, <2>2, <2>3, <3>1
    <3>5. k < m /\ m < j
      BY <1>5, <2>2, <3>3, <3>4
    <3> QED
      BY <2>1, <2>4, <3>1, <3>3, <3>5
  <2>7. /\ s[a].t <= s[h[i]].t /\ s[h[j]].t <= s[b].t
        /\ s[a].t \in Nat /\ s[b].t \in Nat /\ s[h[i]].t \in Nat /\ s[h[j]].t \in Nat
    BY <1>0, <1>3, <2>5, <2>6 DEF Ordered
  <2>8. s[b].t - s[a].t <= LongestContiguousOutage(s) /\ LongestContiguousOutage(s) \in Nat
    BY <2>3, OutageIsLongest DEF IsLongest
  <2>9. part[j].t = s[h[j]].t /\ part[i].t = s[h[i]].t
    BY <1>3
  <2> DEFINE p == s[a].t
             q == s[h[i]].t
             r == s[h[j]].t
             u == s[b].t
             v == LongestContiguousOutage(s)
  <2>10. /\ p \in Nat /\ q \in Nat /\ r \in Nat /\ u \in Nat /\ v \in Nat
         /\ p <= q /\ r <= u /\ u - p <= v
    BY <2>7, <2>8
  <2> HIDE DEF p, q, r, u, v
  <2>11. r - q <= v
    BY <2>10
  <2> QED
    BY <2>9, <2>11 DEF q, r, v
<1>8. IsLongest(part, LongestContiguousOutage(part)) /\ LongestContiguousOutage(s) \in Nat
  BY <1>1, <1>6, OutageIsLongest DEF IsLongest
<1>9. LongestContiguousOutage(part) <= LongestContiguousOutage(s)
  BY <1>3, <1>7, <1>8 DEF IsLongest
<1> QED
  BY <1>9 DEF part, I

(* A selection of what was picked is no larger than the same of the whole. *)
LEMMA PartsAreFewer ==
  ASSUME NEW S, NEW s \in Seq(S), NEW I, NEW part \in Seq(S), NEW h, Picked(s, I, Len(s), part, h),
         NEW T \in SUBSET DOMAIN part, NEW U \in SUBSET DOMAIN s, \A i \in T : h[i] \in U
  PROVE  Cardinality(T) <= Cardinality(U)
<1> DEFINE f == [i \in T |-> h[i]]
<1>1. \A i, j \in T : f[i] = f[j] => i = j
  <2> SUFFICES ASSUME NEW i \in T, NEW j \in T, h[i] = h[j] PROVE i = j
    OBVIOUS
  <2>1. /\ i \in 1..Len(part) /\ j \in 1..Len(part) /\ h[i] \in 1..Len(s) /\ h[j] \in 1..Len(s)
    BY DEF Picked
  <2>2. ~(i < j) /\ ~(j < i)
    BY <2>1 DEF Picked
  <2> QED
    BY <2>1, <2>2
<1>2. f \in [T -> U]
  OBVIOUS
<1>3. f \in Injection(T, U)
  BY <1>1, <1>2, Fun_IsInj
<1>4. IsFiniteSet(U)
  BY PositionsAreFinite
<1> QED
  BY <1>3, <1>4, FS_Injection

Harm(s)      == {i \in DOMAIN s : s[i].kind \in Down}
Bucket(s, i) == {j \in Harm(s) : s[j].t \div Second = s[i].t \div Second}

LEMMA BusiestBucket ==
  ASSUME NEW S, NEW s \in Seq(S)
  PROVE  /\ WorstSecondBucket(s) \in Nat
         /\ \A i \in Harm(s) : Cardinality(Bucket(s, i)) <= WorstSecondBucket(s)
         /\ \A n \in Nat : (\A i \in Harm(s) : Cardinality(Bucket(s, i)) <= n) => WorstSecondBucket(s) <= n
<1> DEFINE Counts == {0} \cup {Cardinality(Bucket(s, i)) : i \in Harm(s)}
<1>1. WorstSecondBucket(s) = Max(Counts)
  BY Zenon DEF WorstSecondBucket, Bucket, Harm
<1>2. \A i \in Harm(s) : Cardinality(Bucket(s, i)) \in 0..Len(s)
  <2> SUFFICES ASSUME NEW i \in Harm(s) PROVE Cardinality(Bucket(s, i)) \in 0..Len(s)
    OBVIOUS
  <2>1. Bucket(s, i) \in SUBSET DOMAIN s
    BY DEF Bucket, Harm
  <2> QED
    BY <2>1, PositionsAreFinite
<1>3. Len(s) \in Nat /\ Counts \in SUBSET (0..Len(s)) /\ Counts # {}
  BY <1>2
<1>4. Max(Counts) \in Counts /\ \A y \in Counts : y <= Max(Counts)
  <2> HIDE DEF Counts
  <2> QED
    BY <1>3, BoundedMax
<1> DEFINE m == Max(Counts)
<1>5. m \in Counts /\ (\A y \in Counts : y <= m)
  BY <1>4
<1> HIDE DEF m
<1>6. m \in Nat
  <2> HIDE DEF Counts
  <2> QED
    BY <1>3, <1>5
<1>7. \A i \in Harm(s) : Cardinality(Bucket(s, i)) <= m
  BY <1>5
<1>8. ASSUME NEW n \in Nat, \A i \in Harm(s) : Cardinality(Bucket(s, i)) <= n PROVE m <= n
  <2>1. CASE m = 0
    BY <2>1
  <2>2. ASSUME NEW i \in Harm(s), m = Cardinality(Bucket(s, i)) PROVE m <= n
    BY <1>8, <2>2
  <2> QED
    BY <1>5, <2>1, <2>2
<1> QED
  BY <1>1, <1>6, <1>7, <1>8 DEF m

(* No part of a timeline scores worse than the whole.                      *)
LEMMA PartsAreNoWorse ==
  ASSUME NEW s \in Seq(Records), NEW w, Ordered(s), w.from \in Int, w.to \in Int
  PROVE  LET part == Among(s, Inside(w, s))
         IN  /\ LongestContiguousOutage(part) <= LongestContiguousOutage(s)
             /\ WorstSecondBucket(part) <= WorstSecondBucket(s)
             /\ Cardinality(Failing(part)) <= Cardinality(Failing(s))
<1> DEFINE part == Among(s, Inside(w, s))
<1>1. LongestContiguousOutage(part) <= LongestContiguousOutage(s)
  BY PartsAreShorter
<1>2. PICK h : part \in Seq(Records) /\ Picked(s, Inside(w, s), Len(s), part, h)
  BY AmongPicks
<1> HIDE DEF part
<1>3. DOMAIN part = 1..Len(part) /\ \A i \in DOMAIN part : h[i] \in DOMAIN s /\ part[i] = s[h[i]]
  BY <1>2 DEF Picked
<1>4. Cardinality(Failing(part)) <= Cardinality(Failing(s))
  <2>1. /\ Failing(part) \in SUBSET DOMAIN part /\ Failing(s) \in SUBSET DOMAIN s
        /\ \A i \in Failing(part) : h[i] \in Failing(s)
    BY <1>3 DEF Failing
  <2> QED
    BY <1>2, <2>1, PartsAreFewer
<1>5. WorstSecondBucket(part) <= WorstSecondBucket(s)
  <2>1. ASSUME NEW i \in Harm(part) PROVE Cardinality(Bucket(part, i)) <= WorstSecondBucket(s)
    <3>1. h[i] \in Harm(s) /\ i \in DOMAIN part
      BY <1>3 DEF Harm
    <3>2. /\ Bucket(part, i) \in SUBSET DOMAIN part /\ Bucket(s, h[i]) \in SUBSET DOMAIN s
          /\ \A j \in Bucket(part, i) : h[j] \in Bucket(s, h[i])
      BY <1>3, <3>1 DEF Bucket, Harm
    <3>3. Cardinality(Bucket(part, i)) <= Cardinality(Bucket(s, h[i]))
      BY <1>2, <3>2, PartsAreFewer
    <3>4. Cardinality(Bucket(s, h[i])) <= WorstSecondBucket(s)
      BY <3>1, BusiestBucket
    <3>5. /\ Cardinality(Bucket(part, i)) \in Int /\ Cardinality(Bucket(s, h[i])) \in Int
          /\ WorstSecondBucket(s) \in Nat
      BY <1>2, <3>2, PositionsAreFinite, BusiestBucket
    <3> QED
      BY <3>3, <3>4, <3>5
  <2>2. WorstSecondBucket(s) \in Nat
    BY BusiestBucket
  <2> QED
    BY <1>2, <2>1, <2>2, BusiestBucket
<1> QED
  BY <1>1, <1>4, <1>5 DEF part

(* A failure is counted in a window it is inside.                          *)
LEMMA FailuresAreCounted ==
  ASSUME NEW s \in Seq(Records), NEW w, NEW f \in Failing(s), f \in Inside(w, s)
  PROVE  ScoreWindow(w, s).byKind[s[f].kind] > 0
<1> DEFINE part == Among(s, Inside(w, s))
           kind == s[f].kind
           T == {i \in DOMAIN part : part[i].kind = kind}
<1>1. PICK h : part \in Seq(Records) /\ Picked(s, Inside(w, s), Len(s), part, h)
  BY AmongPicks
<1>2. kind \in FailureKind /\ f \in 1..Len(s)
  <2>1. f \in 1..Len(s) /\ s[f] \in Records /\ kind # "ok"
    BY DEF Failing
  <2> QED
    BY <2>1 DEF Records, Outcome
<1>3. ScoreWindow(w, s).byKind[kind] = Cardinality(T)
  BY <1>2 DEF ScoreWindow
<1> HIDE DEF part
<1>4. PICK i \in 1..Len(part) : h[i] = f
  BY <1>1, <1>2 DEF Picked
<1>5. i \in T
  BY <1>1, <1>4 DEF Picked
<1>6. T \in SUBSET DOMAIN part
  OBVIOUS
<1> HIDE DEF T
<1>7. Cardinality(T) \in 0..Len(part) /\ Cardinality(T) # 0
  BY <1>1, <1>5, <1>6, PositionsAreFinite
<1>8. Cardinality(T) > 0
  BY <1>1, <1>7
<1> QED
  BY <1>3, <1>8

(* A success before an outage, a failure in it and a success after it.     *)
LEMMA OutageIsSeen ==
  ASSUME NEW s \in Seq(Records), Ordered(s), NEW down \in Nat, NEW up \in Nat,
         \A i \in DOMAIN s : s[i].kind \in Down \/ s[i].t <= down \/ up <= s[i].t,
         NEW x \in DOMAIN s, s[x].kind = "ok", s[x].t <= down,
         NEW d \in DOMAIN s, s[d].kind \in Down, down < s[d].t, s[d].t < up,
         NEW y \in DOMAIN s, s[y].kind = "ok", s[y].t >= up
  PROVE  LongestContiguousOutage(s) >= up - down
<1>1. /\ Len(s) \in Nat /\ DOMAIN s = 1..Len(s) /\ \A i : ~(Ok(s, i) /\ s[i].kind \in Down)
      /\ \A i \in DOMAIN s : s[i].t \in Nat
      /\ Ok(s, x) /\ Ok(s, y)
  <2>1. \A r \in Records : r.t \in Nat
    BY RunnerAssumption DEF Records, Time
  <2>2. Len(s) \in Nat /\ DOMAIN s = 1..Len(s) /\ \A i : ~(Ok(s, i) /\ s[i].kind \in Down)
    BY DEF Ok, Down
  <2> QED
    BY <2>1, <2>2 DEF Ok
<1>2. PICK a, b \in DOMAIN s : Stretch(s, a, b) /\ a <= d /\ d <= b
  BY StretchAround
<1>3. x < d /\ d < y
  <2>1. ~(d <= x)
    BY <1>1 DEF Ordered
  <2>2. ~(y <= d)
    BY <1>1 DEF Ordered
  <2> QED
    BY <1>1, <2>1, <2>2
<1>4. a <= b /\ \A k \in (a + 1)..(b - 1) : ~Ok(s, k)
  BY <1>2 DEF Stretch, Harmed
<1>5. Ok(s, a) /\ x <= a
  <2>1. Ok(s, a)
    <3> SUFFICES ASSUME ~Ok(s, a) PROVE FALSE
      OBVIOUS
    <3>1. \A k \in 1..(a - 1) : ~Ok(s, k)
      BY <1>2 DEF Stretch, Harmed, Ok
    <3>2. x \in 1..(a - 1) \/ x = a \/ x \in (a + 1)..(b - 1)
      BY <1>1, <1>2, <1>3
    <3> QED
      BY <1>1, <1>4, <3>1, <3>2
  <2>2. ~(a < x)
    <3> SUFFICES ASSUME a < x PROVE FALSE
      OBVIOUS
    <3>1. x \in (a + 1)..(b - 1)
      BY <1>1, <1>2, <1>3
    <3> QED
      BY <1>1, <1>4, <3>1
  <2> QED
    BY <1>1, <2>1, <2>2
<1>6. Ok(s, b) /\ d < b
  <2>1. ~(y < b)
    <3> SUFFICES ASSUME y < b PROVE FALSE
      OBVIOUS
    <3>1. y \in (a + 1)..(b - 1)
      BY <1>1, <1>2, <1>3
    <3> QED
      BY <1>1, <1>4, <3>1
  <2>2. Ok(s, b)
    <3>1. Ok(s, b) \/ b = Len(s)
      BY <1>2 DEF Stretch
    <3>2. b = Len(s) => y = b
      BY <1>1, <2>1
    <3> QED
      BY <1>1, <3>1, <3>2
  <2>3. d # b
    BY <1>1, <2>2
  <2> QED
    BY <1>1, <1>2, <2>2, <2>3
<1>7. a < d
  <2>1. a # d
    BY <1>1, <1>5
  <2> QED
    BY <1>1, <1>2, <2>1
<1>8. s[a].t <= down
  <2>1. s[a].t <= s[d].t
    BY <1>7 DEF Ordered
  <2>2. s[a].t <= down \/ up <= s[a].t
    BY <1>1, <1>5
  <2> DEFINE p == s[a].t
             q == s[d].t
  <2>3. p \in Nat /\ q \in Nat /\ p <= q /\ q < up /\ (p <= down \/ up <= p)
    BY <1>1, <2>1, <2>2
  <2> HIDE DEF p, q
  <2>4. p <= down
    BY <2>3
  <2> QED
    BY <2>4 DEF p
<1>9. up <= s[b].t
  <2>1. s[d].t <= s[b].t
    BY <1>6 DEF Ordered
  <2>2. s[b].t <= down \/ up <= s[b].t
    BY <1>1, <1>6
  <2> DEFINE p == s[b].t
             q == s[d].t
  <2>3. p \in Nat /\ q \in Nat /\ q <= p /\ down < q /\ (p <= down \/ up <= p)
    BY <1>1, <2>1, <2>2
  <2> HIDE DEF p, q
  <2>4. up <= p
    BY <2>3
  <2> QED
    BY <2>4 DEF p
<1> DEFINE p == s[a].t
           q == s[b].t
           v == LongestContiguousOutage(s)
<1>10. p \in Nat /\ q \in Nat /\ v \in Nat /\ q - p <= v /\ p <= down /\ up <= q
  BY <1>1, <1>2, <1>8, <1>9, OutageIsLongest DEF IsLongest
<1> HIDE DEF p, q, v
<1>11. v >= up - down
  BY <1>10
<1> QED
  BY <1>11 DEF v

-----------------------------------------------------------------------------
(* deriveWindows() (windows.ts:23-67).                                     *)

Window == [kind : {"quiet", "action"}, of : Action \cup {"run"}, from : Nat, to : Nat]
Tiling == [windows : Seq(Window), cursor : Nat]
In(w, t) == w.from <= t /\ t < w.to

(* The windows up to a cursor: they leave no gap, and nothing else is in a *)
(* quiet one.                                                              *)
Tiles(ws, cursor) ==
  /\ ws \in Seq(Window) /\ cursor \in Nat
  /\ \A i \in DOMAIN ws : ws[i].to <= cursor
  /\ \A t \in Nat : t < cursor => \E i \in DOMAIN ws : In(ws[i], t)
  /\ \A t \in Nat : \A i, j \in DOMAIN ws : ws[i].kind = "quiet" /\ In(ws[i], t) /\ In(ws[j], t) => i = j

QuietBefore(ws, t) == \A i \in DOMAIN ws : ws[i].kind = "quiet" => ws[i].to <= t

LEMMA WindowTimes == \A w \in Window : w.from \in Nat /\ w.to \in Nat
<1> QED
  BY DEF Window

(* One more window, up to a new cursor.                                    *)
LEMMA AppendTile ==
  ASSUME NEW ws, NEW c, Tiles(ws, c), NEW w \in Window, w.from <= w.to, w.from <= c,
         w.kind = "quiet" => w.from = c, QuietBefore(ws, w.from),
         NEW d \in Nat, d = IF c >= w.to THEN c ELSE w.to
  PROVE  Tiles(Append(ws, w), d)
<1> DEFINE new == Append(ws, w)
           n == Len(ws)
<1>1. ws \in Seq(Window) /\ c \in Nat /\ w.from \in Nat /\ w.to \in Nat
  BY DEF Tiles, Window
<1>2. /\ n \in Nat /\ DOMAIN ws = 1..n /\ DOMAIN new = 1..(n + 1) /\ new \in Seq(Window)
      /\ \A i \in 1..n : new[i] = ws[i]
      /\ new[n + 1] = w
  BY <1>1, AppendProperties
<1>3. \A i \in 1..n : ws[i] \in Window /\ ws[i].from \in Nat /\ ws[i].to \in Nat
  BY <1>1, <1>2, WindowTimes
<1> HIDE DEF new, n
<1>4. \A i \in DOMAIN new : (i \in 1..n /\ new[i] = ws[i]) \/ (i = n + 1 /\ new[i] = w)
  BY <1>2
<1>5. \A i \in DOMAIN new : new[i].to <= d
  <2>1. ASSUME NEW i \in 1..n PROVE ws[i].to <= d
    <3>1. ws[i].to <= c /\ ws[i].to \in Nat
      BY <1>2, <1>3 DEF Tiles
    <3> QED
      BY <1>1, <3>1
  <2>2. w.to <= d
    BY <1>1
  <2> QED
    BY <1>4, <2>1, <2>2
<1>6. ASSUME NEW t \in Nat, t < d PROVE \E i \in DOMAIN new : In(new[i], t)
  <2>1. CASE t < c
    <3>1. PICK i \in 1..n : In(ws[i], t)
      BY <1>2, <2>1 DEF Tiles
    <3> QED
      BY <1>2, <3>1
  <2>2. CASE c <= t
    <3>1. In(w, t) /\ n + 1 \in DOMAIN new
      BY <1>1, <1>2, <1>6, <2>2 DEF In
    <3> QED
      BY <1>2, <3>1
  <2> QED
    BY <1>1, <2>1, <2>2
<1>7. ASSUME NEW t \in Nat, NEW i \in DOMAIN new, NEW j \in DOMAIN new,
             new[i].kind = "quiet", In(new[i], t), In(new[j], t)
      PROVE  i = j
  <2>1. CASE i \in 1..n /\ j \in 1..n
    BY <1>2, <1>7, <2>1 DEF Tiles
  <2>2. CASE i \in 1..n /\ j = n + 1
    <3>1. ws[i].to <= w.from /\ t < ws[i].to /\ w.from <= t
      BY <1>2, <1>7, <2>2 DEF QuietBefore, In
    <3> QED
      BY <1>1, <1>3, <2>2, <3>1
  <2>3. CASE i = n + 1 /\ j \in 1..n
    <3>1. w.from = c /\ ws[j].to <= c /\ t < ws[j].to /\ w.from <= t
      BY <1>2, <1>7, <2>3 DEF Tiles, In
    <3> QED
      BY <1>1, <1>3, <2>3, <3>1
  <2> QED
    BY <1>4, <2>1, <2>2, <2>3
<1> QED
  BY <1>2, <1>5, <1>6, <1>7 DEF Tiles, new

LEMMA QuietStays ==
  ASSUME NEW ws \in Seq(Window), NEW w \in Window, NEW t, QuietBefore(ws, t),
         w.kind = "quiet" => w.to <= t
  PROVE  QuietBefore(Append(ws, w), t)
<1>1. \A i \in DOMAIN Append(ws, w) :
        (i \in DOMAIN ws /\ Append(ws, w)[i] = ws[i]) \/ Append(ws, w)[i] = w
  BY AppendProperties
<1> QED
  BY <1>1 DEF QuietBefore

LEMMA QuietTile ==
  ASSUME NEW ws, NEW c, Tiles(ws, c), NEW t \in Nat, c < t
  PROVE  LET new == Append(ws, Quiet(c, t))
         IN  Tiles(new, t) /\ QuietBefore(new, t)
<1> DEFINE w == Quiet(c, t)
<1>1. /\ ws \in Seq(Window) /\ c \in Nat
      /\ w \in Window /\ w.from = c /\ w.to = t /\ w.kind = "quiet"
  BY DEF Tiles, Window, Quiet
<1>2. QuietBefore(ws, c)
  BY DEF Tiles, QuietBefore
<1>3. QuietBefore(ws, t)
  <2>1. \A i \in DOMAIN ws : ws[i].to \in Nat
    BY <1>1, WindowTimes
  <2> QED
    BY <1>1, <1>2, <2>1 DEF QuietBefore
<1> HIDE DEF w
<1>4. Tiles(Append(ws, w), t)
  <2>1. t = IF c >= w.to THEN c ELSE w.to
    BY <1>1
  <2> QED
    BY <1>1, <1>2, <2>1, AppendTile
<1>5. QuietBefore(Append(ws, w), t)
  BY <1>1, <1>3, QuietStays
<1> QED
  BY <1>4, <1>5 DEF w

(* One more action.                                                        *)
LEMMA AddActionTiles ==
  ASSUME NEW x \in Tiling, Tiles(x.windows, x.cursor),
         NEW a \in Window, a.kind = "action", a.from <= a.to, QuietBefore(x.windows, a.from)
  PROVE  LET y == AddAction(x, a)
         IN  /\ y \in Tiling /\ Tiles(y.windows, y.cursor)
             /\ QuietBefore(y.windows, a.from)
             /\ y.cursor = IF x.cursor >= a.to THEN x.cursor ELSE a.to
<1> DEFINE y == AddAction(x, a)
           c == x.cursor
           ws == IF a.from > c THEN Append(x.windows, Quiet(c, a.from)) ELSE x.windows
           m == IF a.from > c THEN a.from ELSE c
<1>1. a.from \in Nat /\ a.to \in Nat /\ c \in Nat /\ x.windows \in Seq(Window)
  BY DEF Window, Tiling
<1>2. Tiles(ws, m) /\ QuietBefore(ws, a.from) /\ m \in Nat /\ a.from <= m
  <2>1. CASE a.from > c
    BY <1>1, <2>1, QuietTile
  <2>2. CASE ~(a.from > c)
    BY <1>1, <2>2
  <2> QED
    BY <2>1, <2>2
<1>3. y.windows = ws \o <<a>> /\ y.cursor = Max({c, a.to}) /\ y = [windows |-> y.windows, cursor |-> y.cursor]
  BY DEF AddAction
<1>4. y.cursor = (IF c >= a.to THEN c ELSE a.to) /\ y.cursor = IF m >= a.to THEN m ELSE a.to
  BY <1>1, <1>3, MaxOfTwo
<1> HIDE DEF y, ws, m, c
<1>5. ws \in Seq(Window)
  BY <1>2 DEF Tiles
<1>6. y.windows = Append(ws, a) /\ y.windows \in Seq(Window)
  BY <1>3, <1>5, AppendIsConcat, AppendProperties
<1>7. y.cursor \in Nat /\ y \in Tiling
  BY <1>1, <1>3, <1>4, <1>6 DEF Tiling
<1>8. Tiles(y.windows, y.cursor)
  BY <1>2, <1>4, <1>6, <1>7, AppendTile
<1>9. QuietBefore(y.windows, a.from)
  BY <1>2, <1>5, <1>6, QuietStays
<1> QED
  BY <1>4, <1>7, <1>8, <1>9 DEF y, c

LEMMA AddActionType ==
  ASSUME NEW x \in Tiling, NEW a \in Window
  PROVE  AddAction(x, a) \in Tiling
<1> DEFINE ws == IF a.from > x.cursor THEN Append(x.windows, Quiet(x.cursor, a.from)) ELSE x.windows
<1>1. /\ a.from \in Nat /\ a.to \in Nat /\ x.cursor \in Nat /\ x.windows \in Seq(Window)
      /\ Quiet(x.cursor, a.from) \in Window
  BY DEF Window, Tiling, Quiet
<1>2. ws \in Seq(Window)
  BY <1>1, AppendProperties
<1>3. Max({x.cursor, a.to}) \in Nat
  BY <1>1, MaxOfTwo
<1>4. AddAction(x, a) = [windows |-> ws \o <<a>>, cursor |-> Max({x.cursor, a.to})]
  BY DEF AddAction
<1> HIDE DEF ws
<1>5. ws \o <<a>> \in Seq(Window)
  BY <1>2
<1> QED
  BY <1>3, <1>4, <1>5 DEF Tiling

NoWindow == [windows |-> <<>>, cursor |-> 0]

LEMMA AddActionFold ==
  ASSUME NEW acts \in Seq(Window)
  PROVE  \E f : /\ f[0] = NoWindow
                /\ \A k \in 1..Len(acts) : f[k] = AddAction(f[k - 1], acts[k])
                /\ FoldLeft(AddAction, NoWindow, acts) = f[Len(acts)]
<1> DEFINE n == Len(acts)
           D == DOMAIN acts
           step == [p \in Tiling \X (1..n) |-> AddAction(p[1], acts[p[2]])]
           Fold(g) == [s \in SUBSET D |-> IF s = {} THEN NoWindow
                                          ELSE AddAction(g[s \ {Max(s)}], acts[Max(s)])]
<1>1. n \in Nat /\ D = 1..n /\ NoWindow \in Tiling
  BY DEF NoWindow, Tiling
<1>2. step \in [Tiling \X (1..n) -> Tiling]
  BY <1>1, AddActionType
<1>3. PICK g : Folds(g, Tiling, NoWindow, n, step)
  <2> HIDE DEF step, n
  <2> QED
    BY <1>1, <1>2, SetRecursion
<1>4. g = Fold(g)
  <2>1. ASSUME NEW s \in SUBSET (1..n), s # {}
        PROVE  g[s] = AddAction(g[s \ {Max(s)}], acts[Max(s)])
    <3>1. s \in SUBSET (0..n)
      OBVIOUS
    <3>2. Max(s) \in s
      BY <1>1, <2>1, <3>1, BoundedMax
    <3>3. Max(s) \in 1..n /\ s \ {Max(s)} \in SUBSET (1..n)
      BY <3>2
    <3> QED
      BY <2>1, <3>3, <1>3 DEF Folds
  <2> QED
    BY <2>1, <1>1, <1>3 DEF Folds
<1> DEFINE it == CHOOSE h : h = Fold(h)
<1>5. it = Fold(it)
  <2> HIDE DEF Fold
  <2> QED
    BY <1>4, Zenon
<1>6. FoldLeft(AddAction, NoWindow, acts) = it[D]
  BY Zenon DEF FoldLeft, MapThenFoldSet
<1> HIDE DEF it
<1> DEFINE f == [k \in 0..n |-> it[1..k]]
<1>7. f[0] = NoWindow /\ f[n] = it[D]
  BY <1>1, <1>5
<1>8. ASSUME NEW k \in 1..n PROVE f[k] = AddAction(f[k - 1], acts[k])
  <2>1. /\ 1..k \in SUBSET D /\ 1..k # {} /\ Max(1..k) = k /\ (1..k) \ {k} = 1..(k - 1)
        /\ k - 1 \in 0..n
    <3>1. n \in Nat /\ D = 1..n
      BY <1>1
    <3> HIDE DEF n, D, step, Fold, f
    <3>2. /\ Max(1..k) = k /\ (1..k) \ {Max(1..k)} = 1..(k - 1)
          /\ 1..k \in SUBSET (1..n) /\ 1..k # {}
      BY <3>1, Countdown
    <3>3. k - 1 \in 0..n
      BY <3>1
    <3> QED
      BY <3>1, <3>2, <3>3
  <2>2. it[1..k] = AddAction(it[1..(k - 1)], acts[k])
    BY <1>5, <2>1
  <2> QED
    BY <2>1, <2>2
<1> QED
  BY <1>6, <1>7, <1>8

(* An action's window ends no earlier than it begins, nor after the run.   *)
LEMMA ActionWindowType ==
  ASSUME NEW ms \in Seq(Markers), NEW time \in Nat, InOrder(ms, time),
         NEW s \in Markers, s.t \in 0..time, s.of # "run"
  PROVE  LET w == ActionWindow(s, ms, time)
         IN  /\ w \in Window /\ w.kind = "action" /\ w.from = s.t
             /\ w.from <= w.to /\ w.to <= time
<1> DEFINE ends == Terminators(s, ms)
           end == IF ends = {} THEN time ELSE ms[Min(ends)].t
<1>1. end \in Nat /\ s.t <= end /\ end <= time
  <2>1. CASE ends = {}
    BY <2>1
  <2>2. CASE ends # {}
    <3>1. ends \in SUBSET Nat
      BY DEF Terminators
    <3>2. Min(ends) \in ends
      BY <2>2, <3>1, FirstOf
    <3>3. Min(ends) \in DOMAIN ms /\ ms[Min(ends)].t >= s.t
      BY <3>2 DEF Terminators
    <3>4. ms[Min(ends)].t \in 0..time
      BY <3>3 DEF InOrder
    <3> QED
      BY <2>2, <3>3, <3>4
  <2> QED
    BY <2>1, <2>2
<1>2. ActionWindow(s, ms, time) = [kind |-> "action", of |-> s.of, from |-> s.t, to |-> end]
  BY DEF ActionWindow
<1>3. s.of \in Action \cup {"run"} /\ s.t \in Nat
  BY DEF Markers
<1> HIDE DEF end
<1> QED
  BY <1>1, <1>2, <1>3 DEF Window

LEMMA ActionsInOrder ==
  ASSUME NEW ms \in Seq(Markers), NEW time \in Nat, InOrder(ms, time)
  PROVE  LET acts == Actions(ms, time)
         IN  /\ acts \in Seq(Window)
             /\ \A i \in DOMAIN acts : /\ acts[i].kind = "action" /\ acts[i].from <= acts[i].to
                                       /\ acts[i].to <= time
             /\ \A i, j \in DOMAIN acts : i <= j => acts[i].from <= acts[j].from
<1> DEFINE starts == Among(ms, Starts(ms))
           acts == Actions(ms, time)
<1>1. PICK h : starts \in Seq(Markers) /\ Picked(ms, Starts(ms), Len(ms), starts, h)
  BY AmongPicks
<1>2. acts = [i \in DOMAIN starts |-> ActionWindow(starts[i], ms, time)]
  BY DEF Actions
<1> HIDE DEF starts, acts
<1>3. /\ Len(starts) \in Nat /\ DOMAIN starts = 1..Len(starts)
      /\ \A i \in 1..Len(starts) : h[i] \in 1..Len(ms) /\ h[i] \in Starts(ms) /\ starts[i] = ms[h[i]]
      /\ \A i, j \in 1..Len(starts) : i < j => h[i] < h[j]
  BY <1>1 DEF Picked
<1>4. ASSUME NEW i \in 1..Len(starts)
      PROVE  starts[i] \in Markers /\ starts[i].t \in 0..time /\ starts[i].of # "run"
  <2>1. h[i] \in DOMAIN ms /\ starts[i] = ms[h[i]] /\ h[i] \in Starts(ms)
    BY <1>3
  <2> QED
    BY <1>1, <1>3, <2>1 DEF InOrder, Starts
<1>5. \A i \in 1..Len(starts) :
        /\ acts[i] \in Window /\ acts[i].kind = "action" /\ acts[i].from = starts[i].t
        /\ acts[i].from <= acts[i].to /\ acts[i].to <= time
  BY <1>2, <1>3, <1>4, ActionWindowType
<1>6. acts \in Seq(Window) /\ DOMAIN acts = 1..Len(starts)
  BY <1>2, <1>3, <1>5
<1>7. ASSUME NEW i \in 1..Len(starts), NEW j \in 1..Len(starts), i <= j
      PROVE  starts[i].t <= starts[j].t
  <2>1. h[i] \in DOMAIN ms /\ h[j] \in DOMAIN ms /\ h[i] <= h[j]
    BY <1>3, <1>7
  <2> QED
    BY <1>3, <2>1 DEF InOrder
<1> QED
  BY <1>5, <1>6, <1>7 DEF acts

LEMMA WindowsTile ==
  ASSUME NEW ms \in Seq(Markers), NEW time \in Nat, InOrder(ms, time)
  PROVE  Tiles(DeriveWindows(ms, 0, time), time)
<1> DEFINE acts == Actions(ms, time)
           n == Len(acts)
           x == FoldLeft(AddAction, NoWindow, acts)
<1>1. /\ acts \in Seq(Window) /\ n \in Nat /\ DOMAIN acts = 1..n
      /\ \A i \in 1..n : acts[i] \in Window /\ acts[i].kind = "action"
                         /\ acts[i].from <= acts[i].to /\ acts[i].to <= time
      /\ \A i, j \in 1..n : i <= j => acts[i].from <= acts[j].from
  BY ActionsInOrder
<1> HIDE DEF acts
<1>2. PICK f : /\ f[0] = NoWindow
               /\ \A k \in 1..n : f[k] = AddAction(f[k - 1], acts[k])
               /\ x = f[n]
  BY <1>1, AddActionFold
<1> HIDE DEF x, n
<1> DEFINE Good(k) == /\ f[k] \in Tiling /\ Tiles(f[k].windows, f[k].cursor) /\ f[k].cursor <= time
                      /\ \A j \in (k + 1)..n : QuietBefore(f[k].windows, acts[j].from)
           E == {k \in Nat : k <= n => Good(k)}
<1>3. Good(0)
  <2>1. f[0].windows = <<>> /\ f[0].cursor = 0 /\ f[0] \in Tiling
    BY <1>2 DEF NoWindow, Tiling
  <2> QED
    BY <2>1 DEF Tiles, QuietBefore
<1>4. ASSUME NEW k \in Nat, k + 1 <= n, Good(k) PROVE Good(k + 1)
  <2> DEFINE a == acts[k + 1]
  <2>0. n \in Nat
    BY <1>1
  <2>1. k + 1 \in 1..n /\ (k + 1) - 1 = k /\ k + 1 \in (k + 1)..n
    <3> HIDE DEF Good
    <3> QED
      BY <1>4, <2>0
  <2>2. f[k + 1] = AddAction(f[k], a)
    BY <1>2, <2>1
  <2>3. /\ a \in Window /\ a.kind = "action" /\ a.from <= a.to /\ a.to <= time
        /\ QuietBefore(f[k].windows, a.from) /\ f[k] \in Tiling
        /\ Tiles(f[k].windows, f[k].cursor) /\ f[k].cursor <= time
    BY <1>1, <1>4, <2>1
  <2>4. /\ f[k + 1] \in Tiling /\ Tiles(f[k + 1].windows, f[k + 1].cursor)
        /\ QuietBefore(f[k + 1].windows, a.from)
        /\ f[k + 1].cursor = IF f[k].cursor >= a.to THEN f[k].cursor ELSE a.to
    <3> HIDE DEF a
    <3> QED
      BY <2>2, <2>3, AddActionTiles
  <2>5. ASSUME NEW j \in (k + 2)..n PROVE QuietBefore(f[k + 1].windows, acts[j].from)
    <3> DEFINE ws == f[k + 1].windows
    <3>1. /\ a.from <= acts[j].from /\ a.from \in Nat /\ acts[j].from \in Nat
      <4>1. j \in 1..n /\ k + 1 <= j
        BY <1>1
      <4>2. acts[j] \in Window /\ a \in Window /\ a.from <= acts[j].from
        BY <1>1, <2>1, <4>1
      <4> QED
        BY <4>2, WindowTimes
    <3>2. ws \in Seq(Window) /\ QuietBefore(ws, a.from)
      BY <2>4 DEF Tiles
    <3> HIDE DEF ws, a
    <3>3. \A i \in DOMAIN ws : ws[i].to \in Nat
      BY <3>2, WindowTimes
    <3>4. QuietBefore(ws, acts[j].from)
      BY <3>1, <3>2, <3>3 DEF QuietBefore
    <3> QED
      BY <3>4 DEF ws
  <2>6. f[k + 1].cursor <= time
    BY <2>3, <2>4
  <2>7. (k + 1) + 1 = k + 2
    OBVIOUS
  <2> QED
    BY <2>4, <2>5, <2>6, <2>7
<1>5. Good(n)
  <2> HIDE DEF Good
  <2>1. 0 \in E
    BY <1>3
  <2>2. ASSUME NEW k \in Nat, k \in E PROVE k + 1 \in E
    BY <1>1, <1>4, <2>2
  <2>3. n \in Nat
    BY <1>1 DEF n
  <2>4. n \in E
    <3> HIDE DEF E
    <3> QED
      BY <2>1, <2>2, <2>3, SetInduction
  <2> QED
    BY <2>3, <2>4
<1>6. x \in Tiling /\ Tiles(x.windows, x.cursor) /\ x.cursor <= time /\ x.cursor \in Nat
  BY <1>2, <1>5 DEF Tiling
<1>7. DeriveWindows(ms, 0, time) =
        IF time > x.cursor THEN Append(x.windows, Quiet(x.cursor, time)) ELSE x.windows
  BY DEF DeriveWindows, x, acts, NoWindow
<1>8. CASE time > x.cursor
  BY <1>6, <1>7, <1>8, QuietTile
<1>9. CASE ~(time > x.cursor)
  <2>1. x.cursor = time
    BY <1>6, <1>9
  <2> QED
    BY <1>6, <1>7, <1>9, <2>1
<1> QED
  BY <1>8, <1>9

-----------------------------------------------------------------------------
(* The theorems.                                                           *)

(* The timeline of a run, as the scans have it.                            *)
LEMMA TimelineIsOrdered ==
  ASSUME RunnerInv
  PROVE  /\ now \in Nat
         /\ records \in Seq(Records) /\ InOrder(records, now) /\ Ordered(records)
         /\ markers \in Seq(Markers) /\ InOrder(markers, now)
         /\ \A i \in DOMAIN records : records[i].t \in Time
<1>1. /\ now \in Nat /\ records \in Seq(Records) /\ markers \in Seq(Markers)
      /\ InOrder(records, now) /\ InOrder(markers, now)
  BY RunnerAssumption DEF RunnerInv, RunnerTypeOK, Records, Markers, What, Time
<1>2. \A r \in Records : r.t \in Time
  BY DEF Records
<1>3. \A i \in DOMAIN records : records[i].t \in Time
  BY <1>1, <1>2
<1> QED
  BY <1>1, <1>3 DEF Ordered, InOrder

(* Type correctness of a run.                                              *)
THEOREM RunnerTypeCorrect == Spec => []RunnerTypeOK
<1>1. RunnerInv => RunnerTypeOK
  BY DEF RunnerInv
<1> QED
  BY <1>1, RunnerInvariant, PTL

(* Records and markers are appended in the order of their times            *)
(* (timeline.ts:23-29, runner/index.ts:177-219), so that the sorts of      *)
(* scorecard.ts:115 and windows.ts:30 change nothing.                      *)
THEOREM TimelineIsSorted == Spec => [](InOrder(records, now) /\ InOrder(markers, now))
<1>1. RunnerInv => InOrder(records, now) /\ InOrder(markers, now)
  BY DEF RunnerInv
<1> QED
  BY <1>1, RunnerInvariant, PTL

(* What is scored is complete: the loops and the actions have been awaited *)
(* (runner/index.ts:238-242), so no step after the scoring appends.        *)
THEOREM ScoredTimelineIsFinal == Spec => TimelineIsFinal
<1>1. RunnerInv /\ [Next]_vars => [scored => UNCHANGED timeline]_vars
  <2> SUFFICES ASSUME RunnerInv, [Next]_vars, scored PROVE UNCHANGED timeline
    OBVIOUS
  <2>1. /\ stage = "scored" /\ \A p \in Probes : loop[p] = "ended"
        /\ \A a \in Action : action[a] = "settled"
    BY DEF RunnerInv, Awaited, scored
  <2> QED
    BY <2>1 DEF Next, HarnessStep, Ask, Answer, LoopEnds, Begin, TimerAfterStop, Settle, Stop,
       LoopsSettled, ActionsSettled, Tick, GoDown, ComeBack, vars, timeline
<1> QED
  BY <1>1, RunnerInvariant, PTL DEF Spec, TimelineIsFinal

(* The single pass of longestContiguousOutage() (scorecard.ts:114-146)     *)
(* computes what its comment promises (scorecard.ts:16-21), of a timeline  *)
(* of any length that any run leaves.                                      *)
THEOREM ScanFindsTheLongestStretch == Spec => []OutageIsTheLongestStretch
<1>1. RunnerInv => OutageIsTheLongestStretch
  <2> SUFFICES ASSUME RunnerInv
               PROVE  LongestContiguousOutage(records) = LongestStretch(records)
    BY DEF OutageIsTheLongestStretch
  <2>1. records \in Seq(Records) /\ IsLongest(records, LongestContiguousOutage(records))
    BY TimelineIsOrdered, OutageIsLongest
  <2> QED
    BY <2>1, StretchIsLongest
<1> QED
  BY <1>1, RunnerInvariant, PTL

(* However requests fall, the headline outage covers a real one that was   *)
(* seen and bracketed by successes (runner/index.ts:276, scorecard.ts:     *)
(* 16-21): no answer comes from a service that is down.                    *)
THEOREM HeadlineIsNotUnderstated == Spec => []OutageIsNotUnderstated
<1>1. RunnerInv => OutageIsNotUnderstated
  <2> SUFFICES ASSUME RunnerInv, upAt # None,
                      NEW x \in DOMAIN records, records[x].kind = "ok",
                      [t \in Time |-> t <= downAt][records[x].t],
                      NEW d \in DOMAIN records, records[d].kind \in Down,
                      [t \in Time |-> downAt < t /\ t < upAt][records[d].t],
                      NEW y \in DOMAIN records, records[y].kind = "ok",
                      [t \in Time |-> t >= upAt][records[y].t]
               PROVE  Run.outage >= upAt - downAt
    BY DEF OutageIsNotUnderstated
  <2>1. /\ now \in Nat /\ records \in Seq(Records) /\ Ordered(records) /\ InOrder(records, now)
        /\ \A i \in DOMAIN records : records[i].t \in Time
    BY TimelineIsOrdered
  <2>2. records[x].t <= downAt /\ downAt < records[d].t /\ records[d].t < upAt /\ records[y].t >= upAt
    BY <2>1
  <2>3. downAt \in Nat /\ upAt \in Nat
    BY RunnerAssumption DEF RunnerInv, RunnerTypeOK, ServiceHistory, Time
  <2>4. \A i \in DOMAIN records : \/ records[i].kind \in Down
                                  \/ records[i].t <= downAt
                                  \/ upAt <= records[i].t
    BY <2>3 DEF RunnerInv, Truthful, None
  <2>5. LongestContiguousOutage(records) >= upAt - downAt
    BY <2>1, <2>2, <2>3, <2>4, OutageIsSeen
  <2> QED
    BY <2>1, <2>5, HeadlineIsAll DEF Run
<1> QED
  BY <1>1, RunnerInvariant, PTL

(* A bar of the project (policies.ts:14-43) is passed by exactly the runs  *)
(* of which no request failed, the last to come back included, and whose   *)
(* events, subscriptions and cron are within it, for any that can be       *)
(* measured.                                                               *)
THEOREM PassIsExact == Spec => []PassMeansNothingFailed
<1>1. RunnerInv => PassMeansNothingFailed
  <2> SUFFICES ASSUME RunnerInv, NEW policy \in {StrictPolicy, ZeroDowntimePolicy},
                      NEW other \in Measured
               PROVE  Passes(policy, Run, other) <=>
                        Failing(records) = {} /\ Passes(policy, Overall(<<>>, 0, now), other)
    BY DEF PassMeansNothingFailed
  <2>1. PassesRequests(policy, Run) <=> Failing(records) = {}
    BY TimelineIsOrdered, PassIsSpotless DEF Run
  <2>2. PassesRequests(policy, Overall(<<>>, 0, now))
    <3>1. /\ <<>> \in Seq(Records) /\ DOMAIN <<>> = {} /\ now \in Nat
      BY TimelineIsOrdered
    <3>2. InOrder(<<>>, now) /\ Failing(<<>>) = {}
      BY <3>1 DEF InOrder, Failing
    <3> QED
      BY <3>1, <3>2, PassIsSpotless
  <2> QED
    BY <2>1, <2>2 DEF Passes
<1> QED
  BY <1>1, RunnerInvariant, PTL

(* deriveWindows() (windows.ts:23-67) leaves no gap and lets nothing into  *)
(* a quiet window, whatever overlaps, aborts, fails or never ends.         *)
THEOREM WindowsAreSound == Spec => []QuietIsQuiet
<1>1. RunnerInv => QuietIsQuiet
  <2> SUFFICES ASSUME RunnerInv, NEW t \in 0..(now - 1)
               PROVE  LET here  == {i \in DOMAIN Windows : Windows[i].from <= t /\ t < Windows[i].to}
                          quiet == {i \in here : Windows[i].kind = "quiet"}
                      IN  here # {} /\ (quiet # {} => Cardinality(here) = 1)
    BY DEF QuietIsQuiet
  <2> DEFINE here == {i \in DOMAIN Windows : Windows[i].from <= t /\ t < Windows[i].to}
  <2>1. now \in Nat /\ Tiles(Windows, now)
    BY TimelineIsOrdered, WindowsTile DEF Windows
  <2>2. t \in Nat /\ t < now
    BY <2>1
  <2>3. here # {}
    BY <2>1, <2>2 DEF Tiles, In
  <2>4. ASSUME NEW i \in here, Windows[i].kind = "quiet" PROVE Cardinality(here) = 1
    <3>1. \A j \in here : j = i
      BY <2>1, <2>2, <2>4 DEF Tiles, In
    <3>2. here = {i}
      BY <3>1
    <3> QED
      BY <3>2, FS_Singleton
  <2> QED
    BY <2>3, <2>4
<1> QED
  BY <1>1, RunnerInvariant, PTL

(* No window scores worse than the headline, and every failure before the  *)
(* last millisecond is counted in a window (windows.ts:19, scorecard.ts:   *)
(* 161-163).                                                               *)
THEOREM HeadlineIsTheWorst == Spec => []HeadlineCoversWindows
<1>1. RunnerInv => HeadlineCoversWindows
  <2> SUFFICES ASSUME RunnerInv PROVE HeadlineCoversWindows
    OBVIOUS
  <2>1. /\ now \in Nat /\ records \in Seq(Records) /\ Ordered(records) /\ InOrder(records, now)
        /\ Tiles(Windows, now) /\ Windows \in Seq(Window)
    BY TimelineIsOrdered, WindowsTile DEF Windows, Tiles
  <2>2. ASSUME NEW i \in DOMAIN Windows
        PROVE  LET score == ScoreWindow(Windows[i], records)
               IN  /\ score.outage <= Run.outage
                   /\ score.worstSecond <= Run.worstSecond
                   /\ score.failures <= Run.failures
    <3>1. Windows[i].from \in Int /\ Windows[i].to \in Int
      <4>1. Windows[i] \in Window
        BY <2>1
      <4> QED
        BY <4>1, WindowTimes
    <3> QED
      BY <2>1, <3>1, PartsAreNoWorse, HeadlineIsAll DEF ScoreWindow, Run
  <2>3. ASSUME NEW f \in Failing(records), records[f].t < now
        PROVE  \E i \in DOMAIN Windows :
                 /\ Windows[i].from <= records[f].t /\ records[f].t < Windows[i].to
                 /\ ScoreWindow(Windows[i], records).byKind[records[f].kind] > 0
    <3>1. f \in DOMAIN records /\ records[f].t \in Nat
      BY <2>1 DEF Failing, InOrder
    <3>2. PICK i \in DOMAIN Windows : In(Windows[i], records[f].t)
      BY <2>1, <2>3, <3>1 DEF Tiles
    <3>3. f \in Inside(Windows[i], records)
      BY <3>1, <3>2 DEF In, Inside
    <3>4. ScoreWindow(Windows[i], records).byKind[records[f].kind] > 0
      BY <2>1, <3>3, FailuresAreCounted
    <3> QED
      BY <3>2, <3>4 DEF In
  <2> QED
    BY <2>2, <2>3 DEF HeadlineCoversWindows
<1> QED
  BY <1>1, RunnerInvariant, PTL

=============================================================================
