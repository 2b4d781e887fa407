--------------------------- MODULE EntryGateProofs ---------------------------
(***************************************************************************)
(* Theorems about EntryGate, for any window, any set of portfolio values   *)
(* and any number of restarts.                                             *)
(***************************************************************************)
EXTENDS EntryGate, FleetState, FiniteSetTheorems, WellFoundedInduction, TLAPS

-----------------------------------------------------------------------------
(***************************************************************************)
(* Max and Min pick an element: the highest sample exists, and its age.    *)
(***************************************************************************)
LEMMA LeastExists ==
  ASSUME NEW S \in SUBSET Nat, S # {}
  PROVE  \E x \in S : \A y \in S : x <= y
<1>1. PICK x \in S : \A y \in S : <<y, x>> \notin OpToRel(<, Nat)
  BY WFMin, NatLessThanWellFounded
<1>2. \A y \in S : ~(y < x)
  BY <1>1 DEF OpToRel
<1> QED BY <1>2

LEMMA LeastPicked ==
  ASSUME NEW S \in SUBSET Nat, S # {}
  PROVE  Min(S) \in S
BY LeastExists DEF Min

LEMMA GreatestExists ==
  ASSUME NEW S \in SUBSET Nat, S # {}, IsFiniteSet(S)
  PROVE  \E x \in S : \A y \in S : x >= y
<1> DEFINE Above(x) == {y \in S : y > x}
           Sizes == {Cardinality(Above(x)) : x \in S}
<1>1. \A x \in S : IsFiniteSet(Above(x)) /\ Cardinality(Above(x)) \in Nat
  BY FS_Subset, FS_CardinalityType
<1>2. Sizes \in SUBSET Nat /\ Sizes # {}
  BY <1>1
<1>3. PICK n \in Sizes : \A m \in Sizes : n <= m
  <2> HIDE DEF Sizes
  <2> QED BY <1>2, LeastExists
<1>4. PICK x \in S : n = Cardinality(Above(x))
  BY <1>3
<1>5. SUFFICES ASSUME NEW y \in S, y > x PROVE FALSE
  BY <1>4
<1>6. Above(y) \subseteq Above(x) /\ y \in Above(x) /\ y \notin Above(y)
  <2>1. x \in Nat /\ y \in Nat
    OBVIOUS
  <2>2. \A z \in S : z \in Nat /\ (z > y => z > x)
    BY <1>5, <2>1
  <2>3. y \in Above(x) /\ y \notin Above(y)
    BY <1>5, <2>1
  <2> QED BY <2>2, <2>3
<1>7. Cardinality(Above(y)) <= Cardinality(Above(x)) /\ Above(y) # Above(x)
      /\ (Cardinality(Above(x)) = Cardinality(Above(y)) => Above(x) = Above(y))
  <2> HIDE DEF Above
  <2> QED BY <1>1, <1>6, FS_Subset
<1>8. Cardinality(Above(x)) <= Cardinality(Above(y))
  BY <1>3, <1>4
<1> QED BY <1>1, <1>7, <1>8

LEMMA GreatestPicked ==
  ASSUME NEW S \in SUBSET Nat, S # {}, IsFiniteSet(S)
  PROVE  Max(S) \in S /\ \A y \in S : Max(S) >= y
BY GreatestExists DEF Max
-----------------------------------------------------------------------------
(***************************************************************************)
(* The breaker.                                                            *)
(***************************************************************************)
LEMMA SamplesFinite ==
  ASSUME NEW s \in [Ages -> Levels]
  PROVE  /\ IsFiniteSet({s[a] : a \in Ages})
         /\ {s[a] : a \in Ages} \in SUBSET Nat
         /\ s[0] \in {s[a] : a \in Ages}
<1> DEFINE S == {s[a] : a \in Ages}
<1>1. 0 \in Ages /\ IsFiniteSet(Ages)
  BY DrawdownBounds, FS_Interval DEF Ages
<1>2. s \in [Ages -> S]
  OBVIOUS
<1>3. s \in Surjection(Ages, S)
  BY <1>2 DEF Surjection
<1>4. IsFiniteSet(S)
  <2> HIDE DEF S
  <2> QED BY <1>1, <1>3, FS_Surjection
<1> QED BY <1>1, <1>4, DrawdownBounds

LEMMA HighTyped ==
  ASSUME NEW s \in [Ages -> Levels]
  PROVE  High(s) \in Levels /\ \A a \in Ages : High(s) >= s[a]
<1> DEFINE S == {s[a] : a \in Ages}
<1>1. S \subseteq Levels /\ \A a \in Ages : s[a] \in S
  OBVIOUS
<1>2. S # {} /\ S \in SUBSET Nat
  BY SamplesFinite
<1>3. IsFiniteSet(S)
  BY SamplesFinite
<1>4. High(s) = Max(S)
  BY DEF High
<1> HIDE DEF S
<1> QED BY <1>1, <1>2, <1>3, <1>4, GreatestPicked

LEMMA HighIsSampled ==
  ASSUME NEW s \in [Ages -> Levels]
  PROVE  \E a \in Ages : s[a] = High(s)
<1> DEFINE S == {s[a] : a \in Ages}
<1>1. IsFiniteSet(S) /\ S \in SUBSET Nat /\ S # {}
  BY SamplesFinite
<1>2. High(s) = Max(S)
  BY DEF High
<1>3. High(s) \in S
  <2> HIDE DEF S
  <2> QED BY <1>1, <1>2, GreatestPicked
<1> QED BY <1>3

\* A legacy latch gets a basis or goes; a latch with a basis stays as it is.
LEMMA RebasedHasBasis ==
  ASSUME NEW s \in [Ages -> Levels], NEW l \in Latch
  PROVE  /\ Rebased(s, l) \in Latch
         /\ Rebased(s, l).on => HasBasis(Rebased(s, l))
         /\ l.on /\ HasBasis(l) => Rebased(s, l) = l
<1>1. High(s) \in Levels
  BY HighTyped
<1>2. NoLatch \in Latch /\ ~NoLatch.on
  BY DrawdownBounds DEF NoLatch, Latch
<1>3. PICK a \in Ages : s[a] = High(s)
  BY HighIsSampled
<1>4. Min({b \in Ages : s[b] = High(s)}) \in Ages
  <2> DEFINE T == {b \in Ages : s[b] = High(s)}
  <2>1. T \in SUBSET Nat /\ T # {} /\ T \subseteq Ages
    BY <1>3, DrawdownBounds DEF Ages
  <2> HIDE DEF T
  <2>2. Min(T) \in Ages
    BY <2>1, LeastPicked
  <2> QED BY <2>2 DEF T
<1> DEFINE based == [on |-> TRUE, high |-> High(s),
                     age |-> Min({b \in Ages : s[b] = High(s)})]
<1>5. based \in Latch /\ based.high = High(s)
  BY <1>1, <1>4, DrawdownBounds DEF Latch, Ages
<1> HIDE DEF based
<1>6. Rebased(s, l) = IF ~l.on \/ HasBasis(l) THEN l
                      ELSE IF High(s) < MinPort THEN NoLatch ELSE based
  BY DEF Rebased, based
<1>7. High(s) \in Nat /\ MinPort \in Nat
  BY <1>1, DrawdownBounds
<1> QED BY <1>2, <1>5, <1>6, <1>7 DEF HasBasis

\* A check leaves a latch with its basis, and ends one that has it only for
\* its age or for a recovery.
LEMMA DecideIsSound ==
  ASSUME NEW s \in [Ages -> Levels], NEW l \in Latch, NEW v \in Levels,
         l.on => HasBasis(l)
  PROVE  /\ Decide(s, l, v) \in Latch
         /\ Decide(s, l, v).on => HasBasis(Decide(s, l, v))
         /\ l.on /\ ~Decide(s, l, v).on => l.age > Window \/ Clears(v, l.high)
<1>1. High(s) \in Levels /\ High(s) \in Nat /\ MinPort \in Nat /\ Window \in Nat
  BY HighTyped, DrawdownBounds
<1>2. NoLatch \in Latch /\ ~NoLatch.on
  BY DrawdownBounds DEF NoLatch, Latch
<1> DEFINE new == [on |-> TRUE, high |-> High(s), age |-> 0]
<1>3. new \in Latch /\ new.high = High(s) /\ new.on
  BY <1>1, DrawdownBounds DEF Latch
<1> HIDE DEF new
<1>4. Rebased(s, l) = l
  BY RebasedHasBasis DEF Rebased
<1>5. Decide(s, l, v) = IF l.on
                        THEN IF l.age > Window \/ Clears(v, l.high) THEN NoLatch ELSE l
                        ELSE IF High(s) >= MinPort /\ v > 0 /\ Trips(v, High(s))
                             THEN new ELSE NoLatch
  BY <1>4 DEF Decide, new
<1> QED BY <1>1, <1>2, <1>3, <1>5 DEF HasBasis
\* What a load makes of a latch: one with its basis stays; one without gets
\* its basis or goes, and it goes only for what LegacyEnds names.
LEMMA LoadedIsSound ==
  ASSUME NEW s \in [Ages -> Levels], NEW l \in Latch, NEW v \in Levels
  PROVE  /\ Loaded(s, l, v) \in Latch
         /\ Loaded(s, l, v).on => HasBasis(Loaded(s, l, v))
         /\ l.on /\ HasBasis(l) => Loaded(s, l, v) = l
         /\ l.on /\ ~HasBasis(l) /\ ~Loaded(s, l, v).on
              => High(s) < MinPort \/ Clears(v, High(s))
<1>1. High(s) \in Levels /\ High(s) \in Nat /\ MinPort \in Nat /\ Window \in Nat
  BY HighTyped, DrawdownBounds
<1>2. NoLatch \in Latch /\ ~NoLatch.on
  BY DrawdownBounds DEF NoLatch, Latch
<1>3. CASE ~l.on \/ HasBasis(l)
  BY <1>3 DEF Loaded
<1>4. CASE l.on /\ ~HasBasis(l)
  <2> DEFINE r == Rebased(s, l)
             new == [on |-> TRUE, high |-> High(s), age |-> 0]
  <2>1. Loaded(s, l, v) = Decide(s, l, v)
    BY <1>4 DEF Loaded
  <2>2. r \in Latch /\ (r.on => HasBasis(r))
    BY RebasedHasBasis
  <2>3. new \in Latch /\ new.high = High(s) /\ new.on
    BY <1>1, DrawdownBounds DEF Latch
  <2>4. CASE High(s) < MinPort
    <3>1. r = NoLatch
      BY <1>4, <2>4 DEF Rebased
    <3>2. ~(High(s) >= MinPort)
      BY <1>1, <2>4
    <3>3. Decide(s, l, v) = NoLatch
      BY <1>2, <3>1, <3>2 DEF Decide
    <3> QED BY <1>2, <1>4, <2>1, <2>4, <3>3
  <2>5. CASE ~(High(s) < MinPort)
    <3>1. r.on /\ r.high = High(s) /\ r.age = Min({a \in Ages : s[a] = High(s)})
      BY <1>4, <2>5 DEF Rebased
    <3>2. r.age <= Window
      <4> DEFINE T == {b \in Ages : s[b] = High(s)}
      <4>1. T # {} /\ T \in SUBSET Nat /\ T \subseteq Ages
        BY HighIsSampled, DrawdownBounds DEF Ages
      <4>2. Min(T) \in Ages
        <5> HIDE DEF T
        <5> QED BY <4>1, LeastPicked
      <4>3. Min(T) <= Window
        <5> HIDE DEF T
        <5> QED BY <1>1, <4>2 DEF Ages
      <4>4. r.age = Min(T)
        BY <3>1
      <4> HIDE DEF T, r
      <4> QED BY <4>3, <4>4
    <3>3. ~(r.age > Window)
      <4>1. r.age \in Nat
        BY <1>1, <2>2 DEF Latch
      <4> QED BY <1>1, <3>2, <4>1
    <3> HIDE DEF r
    <3>4. Decide(s, l, v) = IF Clears(v, r.high) THEN NoLatch ELSE r
      BY <3>1, <3>3 DEF Decide, r
    <3> QED BY <1>2, <1>4, <2>1, <2>2, <3>1, <3>4
  <2> QED BY <2>4, <2>5
<1> QED BY <1>3, <1>4

LEMMA LastTyped ==
  ASSUME NEW s \in [Ages -> Levels]
  PROVE  LastSamples(s) \subseteq Levels /\ LastSamples(s) # {}
<1> DEFINE young == {a \in Ages : s[a] > 0}
<1>1. CASE young = {}
  BY <1>1, DrawdownBounds DEF LastSamples
<1>2. CASE young # {}
  <2>1. young \in SUBSET Nat /\ young \subseteq Ages
    BY DrawdownBounds DEF Ages
  <2>2. Min(young) \in young
    <3> HIDE DEF young
    <3> QED BY <1>2, <2>1, LeastPicked
  <2>3. s[Min(young)] > 0 /\ s[Min(young)] \in Levels /\ s[Min(young)] \in Nat
    BY <2>2, DrawdownBounds
  <2>4. LastSamples(s) = {v \in Levels : 0 < v /\ v <= s[Min(young)]}
    BY <1>2 DEF LastSamples
  <2> HIDE DEF young
  <2>5. s[Min(young)] \in LastSamples(s)
    BY <2>3, <2>4
  <2> QED BY <2>4, <2>5
<1> QED BY <1>1, <1>2

-----------------------------------------------------------------------------
(***************************************************************************)
(* The inductive invariant: what the cash, the cycle's place and the latch *)
(* say about the last account answer and the last check.                   *)
(***************************************************************************)
Based   == latch.on => HasBasis(latch) \/ cycle = "off"
Stopped == (~enabled => cash # "ok") /\ (cycle \in {"off", "read", "rest"} => enabled)
Trading == cash # "none" \/ engine # "idle" => checked
GateInv == TypeOK /\ Based /\ Stopped /\ Trading

LEMMA KeptTyped ==
  ASSUME NEW s \in [Ages -> Levels]
  PROVE  Kept(s) \in [Ages -> Levels]
BY DrawdownBounds DEF Kept, None

\* A check of the portfolio value v.
LEMMA CheckKeeps ==
  ASSUME TypeOK, Based, cycle = "read", NEW v \in Levels, DrawdownCheck(v)
  PROVE  /\ DrawdownTypeOK' /\ Based'
         /\ latch.on /\ ~latch'.on => latch.age > Window \/ Clears(v, latch.high)
<1>1. samples \in [Ages -> Levels] /\ latch \in Latch
  BY DEF TypeOK, DrawdownTypeOK
<1>2. Sampled(v) \in [Ages -> Levels]
  <2>1. {samples[0], v} \in SUBSET Nat /\ {samples[0], v} \subseteq Levels
    <3>1. 0 \in Ages
      BY DrawdownBounds DEF Ages
    <3>2. samples[0] \in Levels
      BY <1>1, <3>1
    <3> QED BY <3>2, DrawdownBounds
  <2>2. IsFiniteSet({samples[0], v})
    <3>1. {samples[0], v} = {samples[0]} \cup {v}
      OBVIOUS
    <3>2. IsFiniteSet({samples[0]})
      BY FS_Singleton
    <3>3. IsFiniteSet({samples[0]} \cup {v})
      BY <3>2, FS_AddElement
    <3> QED BY <3>1, <3>3
  <2>3. Max({samples[0], v}) \in Levels
    BY <2>1, <2>2, GreatestPicked
  <2> QED BY <1>1, <2>3 DEF Sampled
<1>3. samples' = Sampled(v) /\ latch' = Decide(Sampled(v), latch, v)
  BY DEF DrawdownCheck
<1> QED BY <1>1, <1>2, <1>3, DecideIsSound DEF DrawdownTypeOK, Based, HasBasis

LEMMA AgesKeep ==
  ASSUME TypeOK, Based, DrawdownAges, cycle' = cycle
  PROVE  DrawdownTypeOK' /\ Based' /\ latch'.on = latch.on
<1>1. samples \in [Ages -> Levels] /\ latch \in Latch
  BY DEF TypeOK, DrawdownTypeOK
<1>2. samples' \in [Ages -> Levels]
  BY <1>1, DrawdownBounds DEF DrawdownAges, Ages, None
<1>3. latch' \in Latch /\ latch'.on = latch.on /\ latch'.high = latch.high
  BY <1>1, DrawdownBounds DEF DrawdownAges, Older, Latch
<1> QED BY <1>2, <1>3 DEF DrawdownTypeOK, Based, HasBasis

\* The latch of a process that starts has a basis, and one that had it is
\* the one of the process before.
LEMMA LoadsKeep ==
  ASSUME TypeOK, DrawdownLoads
  PROVE  /\ DrawdownTypeOK' /\ (latch'.on => HasBasis(latch'))
         /\ latch.on /\ ~latch'.on => ~HasBasis(latch) /\ LegacyEnds
<1>1. samples \in [Ages -> Levels] /\ latch \in Latch
  BY DEF TypeOK, DrawdownTypeOK
<1>2. Kept(samples) \in [Ages -> Levels]
  BY <1>1, KeptTyped
<1>3. PICK v \in LastSamples(Kept(samples)) : latch' = Loaded(Kept(samples), latch, v)
  BY DEF DrawdownLoads
<1>4. v \in Levels
  BY <1>2, <1>3, LastTyped
<1>5. latch' \in Latch /\ (latch'.on => HasBasis(latch'))
      /\ (latch.on /\ ~latch'.on => ~HasBasis(latch)
           /\ (High(Kept(samples)) < MinPort \/ Clears(v, High(Kept(samples)))))
  BY <1>1, <1>2, <1>3, <1>4, LoadedIsSound
<1> QED BY <1>2, <1>3, <1>5 DEF DrawdownLoads, DrawdownTypeOK, LegacyEnds

LEMMA UnreadKeeps ==
  ASSUME DrawdownUnread
  PROVE  DrawdownTypeOK' /\ ~latch'.on
BY DrawdownBounds DEF DrawdownUnread, DrawdownTypeOK, NoLatch, Latch, None

LEMMA GateInit == Init => GateInv
<1> SUFFICES ASSUME Init PROVE GateInv
  OBVIOUS
<1>1. DrawdownTypeOK
  <2>1. NoLatch \in Latch /\ Legacy \in Latch
    BY DrawdownBounds DEF NoLatch, Legacy, Latch
  <2> QED BY <2>1 DEF Init, DrawdownTypeOK
<1>2. TypeOK
  <2>1. worth \in Levels /\ restarts \in 0..MaxRestarts
    BY GateBounds DEF Init
  <2>2. /\ cycle \in {"off", "account", "read", "rest"} /\ cash \in {"none", "ok", "short"}
        /\ engine \in {"idle", "pass", "order"}
    BY DEF Init
  <2>3. {copytrade, ddHalt, entriesHalt, sizing, enabled, checked, unread} \subseteq BOOLEAN
    BY DEF Init
  <2> QED BY <1>1, <2>1, <2>2, <2>3 DEF TypeOK
<1>3. Based /\ Stopped /\ Trading
  BY DEF Init, Based, Stopped, Trading
<1> QED BY <1>2, <1>3 DEF GateInv

LEMMA GateStep == GateInv /\ [Next]_vars => GateInv'
<1> SUFFICES ASSUME GateInv, [Next]_vars PROVE GateInv'
  OBVIOUS
<1> USE DEF GateInv
<1>1. CASE \E on, flag, halt, fleet \in BOOLEAN : Account(on, flag, halt, fleet)
  <2>1. PICK on, flag, halt, fleet \in BOOLEAN : Account(on, flag, halt, fleet)
    BY <1>1
  <2>2. TypeOK'
    BY <2>1 DEF Account, TypeOK, DrawdownTypeOK, ddVars, WantCopy, PausedCash
  <2>3. Based'
    BY <2>1 DEF Account, Based, ddVars, HasBasis
  <2>4. Stopped' /\ Trading'
    BY <2>1 DEF Account, Stopped, Trading, PausedCash
  <2> QED BY <2>2, <2>3, <2>4
<1>2. CASE \E c \in {"ok", "short"} : ReadPortfolio(c)
  <2>1. PICK c \in {"ok", "short"} : ReadPortfolio(c)
    BY <1>2
  <2>2. DrawdownCheck(worth) /\ worth \in Levels /\ cycle = "read"
    BY <2>1 DEF ReadPortfolio, TypeOK
  <2>3. DrawdownTypeOK' /\ Based'
    BY <2>2, CheckKeeps
  <2>4. latch'.on \in BOOLEAN
    BY <2>3 DEF DrawdownTypeOK, Latch
  <2>5. TypeOK'
    BY <2>1, <2>3, <2>4 DEF ReadPortfolio, TypeOK
  <2>6. Stopped' /\ Trading'
    BY <2>1 DEF ReadPortfolio, Stopped, Trading
  <2> QED BY <2>3, <2>5, <2>6
<1>3. CASE Tick
  <2>1. DrawdownTypeOK' /\ Based'
    BY <1>3, AgesKeep DEF Tick, gateVars
  <2> QED BY <1>3, <2>1 DEF Tick, TypeOK, Stopped, Trading, gateVars
<1>4. CASE Start
  <2>1. DrawdownTypeOK' /\ Based'
    BY <1>4, LoadsKeep, UnreadKeeps DEF Start, Based
  <2>2. TypeOK'
    BY <1>4, <2>1 DEF Start, TypeOK
  <2> QED BY <1>4, <2>1, <2>2 DEF Start, Stopped, Trading
<1>12. CASE Stops
  <2>1. TypeOK'
    <3>1. worth' \in Levels /\ restarts' \in 0..MaxRestarts /\ DrawdownTypeOK'
      BY <1>12, GateBounds DEF Stops, TypeOK, DrawdownTypeOK, ddVars
    <3>2. /\ cycle' \in {"off", "account", "read", "rest"}
          /\ cash' \in {"none", "ok", "short"} /\ engine' \in {"idle", "pass", "order"}
      BY <1>12 DEF Stops
    <3>3. {copytrade', ddHalt', entriesHalt', sizing', enabled', checked', unread'}
            \subseteq BOOLEAN
      BY <1>12 DEF Stops, TypeOK
    <3> QED BY <3>1, <3>2, <3>3 DEF TypeOK
  <2> QED BY <1>12, <2>1 DEF Stops, Based, Stopped, Trading
<1>5. CASE \E v \in Levels : Worth(v)
  BY <1>5 DEF Worth, TypeOK, DrawdownTypeOK, Based, Stopped, Trading, ddVars, gateVars,
              HasBasis
<1>6. CASE Rest
  BY <1>6 DEF Rest, SizingStep, TypeOK, DrawdownTypeOK, Based, Stopped, Trading, ddVars,
              HasBasis
<1>7. CASE CycleThrows
  BY <1>7 DEF CycleThrows, TypeOK, DrawdownTypeOK, Based, Stopped, Trading, ddVars, HasBasis
<1>8. CASE PassStarts \/ PassEnds
  BY <1>8 DEF PassStarts, PassEnds, TypeOK, DrawdownTypeOK, Based, Stopped, Trading, ddVars,
              HasBasis
<1>9. CASE OrderStarts
  BY <1>9 DEF OrderStarts, TypeOK, DrawdownTypeOK, Based, Stopped, Trading, ddVars, HasBasis
<1>10. CASE \E fleet \in BOOLEAN : OrderEnds(fleet)
  BY <1>10 DEF OrderEnds, TypeOK, DrawdownTypeOK, Based, Stopped, Trading, ddVars, HasBasis
<1>11. CASE UNCHANGED vars
  BY <1>11 DEF vars, TypeOK, DrawdownTypeOK, Based, Stopped, Trading, ddVars, gateVars,
               HasBasis
<1> QED BY <1>1, <1>2, <1>3, <1>4, <1>5, <1>6, <1>7, <1>8, <1>9, <1>10, <1>11, <1>12 DEF Next

LEMMA GateInvariance == Spec => []GateInv
BY GateInit, GateStep, PTL DEF Spec

-----------------------------------------------------------------------------
(***************************************************************************)
(* The theorems.                                                           *)
(***************************************************************************)
\* No engine is in a pass, or has an order out, before its process has run the
\* drawdown check (cash appears in qtState with that check, bot.mjs).
THEOREM NoEntryBeforeTheCheck == Spec => []EntriesFollowACheck
<1>1. GateInv => EntriesFollowACheck
  BY DEF GateInv, Trading, EntriesFollowACheck
<1> QED BY <1>1, GateInvariance, PTL

\* After a cycle saw the dashboard Stop no order is begun (bot.mjs:951-961).
THEOREM StopHolds == Spec => NoOrderAfterStop
<1>1. GateInv /\ [Next]_vars => [engine = "pass" /\ engine' = "order" => enabled]_vars
  <2> SUFFICES ASSUME GateInv, Next, engine = "pass", engine' = "order"
               PROVE  enabled
    OBVIOUS
  <2>1. OrderStarts
    BY DEF Next, Account, ReadPortfolio, Rest, SizingStep, CycleThrows, PassStarts, PassEnds,
           OrderEnds, Worth, Tick, Stops, Start, gateVars
  <2> QED BY <2>1 DEF OrderStarts, GateInv, Stopped, TypeOK
<1> QED BY <1>1, GateInvariance, PTL DEF Spec, NoOrderAfterStop

\* A latch with its basis ends by recovery or by age, at a check and never
\* because a process starts and can read it back; one of the first release may
\* also end at its load, for what LegacyEnds names (drawdown.mjs:41-47).
THEOREM LatchHolds == Spec => LatchSurvivesRestart
<1> DEFINE Ended == \/ cycle = "read" /\ (latch.age > Window \/ Clears(worth, latch.high))
                    \/ cycle = "off" /\ (unread' \/ (~HasBasis(latch) /\ LegacyEnds))
<1>1. GateInv /\ [Next]_vars => [latch.on /\ ~latch'.on => Ended]_vars
  <2> SUFFICES ASSUME GateInv, Next, latch.on, ~latch'.on
               PROVE  Ended
    OBVIOUS
  <2>1. CASE \E c \in {"ok", "short"} : ReadPortfolio(c)
    BY <2>1, CheckKeeps DEF GateInv, ReadPortfolio, TypeOK
  <2>2. CASE Tick
    BY <2>2, AgesKeep DEF GateInv, Tick, gateVars
  <2>3. CASE Start
    <3>1. CASE unread'
      BY <2>3, <3>1 DEF Start
    <3>2. CASE ~unread'
      BY <2>3, <3>2, LoadsKeep DEF Start, GateInv
    <3> QED BY <3>1, <3>2
  <2>4. CASE UNCHANGED latch
    BY <2>4
  <2> QED BY <2>1, <2>2, <2>3, <2>4
          DEF Next, Account, Rest, CycleThrows, PassStarts, OrderStarts, PassEnds, OrderEnds,
              Worth, Stops, ddVars
<1> QED BY <1>1, GateInvariance, PTL DEF Spec, LatchSurvivesRestart

(***************************************************************************)
(* The replay guard of the signed kill switch, for any number of mirrors,  *)
(* documents and restarts.                                                 *)
(***************************************************************************)
\* The timestamp on disk covers whatever was in force, and so does the state.
Guarded  == everHeld <= lastTs /\ state <= everHeld
FleetInv == FleetTypeOK /\ Guarded

LEMMA TriedIsAMirror ==
  ASSUME NEW r \in Mirrors, NEW i \in Nat
  PROVE  (r + i) % M \in Mirrors
BY FleetBounds DEF Mirrors

LEMMA FleetInvInit == FleetInit => FleetInv
BY FleetBounds DEF FleetInit, FleetInv, FleetTypeOK, Guarded, NoDoc

\* A document that is applied is not older than any that was in force.
LEMMA ApplyKeeps ==
  ASSUME FleetInv, NEW d \in 0..MaxTs, Apply(d)
  PROVE  /\ {state', lastTs', everHeld'} \subseteq 0..MaxTs /\ Guarded'
         /\ state' # state => state' >= everHeld
<1>1. CASE Accepted(d)
  BY <1>1, FleetBounds DEF Apply, Accepted, FleetInv, FleetTypeOK, Guarded
<1>2. CASE ~Accepted(d)
  BY <1>2 DEF Apply, FleetInv, FleetTypeOK, Guarded
<1> QED BY <1>1, <1>2

LEMMA PollKeeps ==
  ASSUME FleetInv, Poll
  PROVE  FleetInv' /\ (state' # state => state' >= everHeld)
<1>1. rot' \in Mirrors
  BY TriedIsAMirror DEF Poll, NextRot, FleetInv, FleetTypeOK
<1>2. CASE \A i \in Mirrors : mirror[i] = Down
  BY <1>1, <1>2 DEF Poll, FleetInv, FleetTypeOK, Guarded
<1>3. CASE ~\A i \in Mirrors : mirror[i] = Down
  <2>1. PICK i \in Mirrors : mirror[Tried(i)] # Down /\ Apply(mirror[Tried(i)])
    BY <1>3 DEF Poll
  <2>2. Tried(i) \in Mirrors
    BY TriedIsAMirror, FleetBounds DEF Tried, Mirrors, FleetInv, FleetTypeOK
  <2>3. mirror[Tried(i)] \in 0..MaxTs
    BY <2>1, <2>2, FleetBounds DEF FleetInv, FleetTypeOK, Down
  <2>4. /\ {state', lastTs', everHeld'} \subseteq 0..MaxTs /\ Guarded'
        /\ state' # state => state' >= everHeld
    BY <2>1, <2>3, ApplyKeeps
  <2> QED BY <1>1, <2>4 DEF Poll, FleetInv, FleetTypeOK
<1> QED BY <1>2, <1>3

LEMMA FleetStep ==
  ASSUME FleetInv, [FleetNext]_fleetVars
  PROVE  FleetInv' /\ (state' \notin {state, NoDoc} => state' >= everHeld)
<1>1. CASE Poll
  BY <1>1, PollKeeps
<1>2. CASE OwnerSigns
  BY <1>2, FleetBounds DEF OwnerSigns, FleetInv, FleetTypeOK, Guarded
<1>3. CASE \E i \in Mirrors : MirrorChanges(i)
  <2>1. PICK i \in Mirrors, d \in 0..signed \cup {Down} :
          mirror' = [mirror EXCEPT ![i] = d]
    BY <1>3 DEF MirrorChanges
  <2>2. d \in 0..MaxTs + 1
    BY FleetBounds DEF FleetInv, FleetTypeOK, Down
  <2>3. mirror' \in [Mirrors -> 0..MaxTs + 1]
    BY <2>1, <2>2 DEF FleetInv, FleetTypeOK
  <2> QED BY <1>3, <2>3 DEF MirrorChanges, FleetInv, FleetTypeOK, Guarded
<1>4. CASE FleetRestart
  BY <1>4, FleetBounds DEF FleetRestart, FleetInv, FleetTypeOK, Guarded, NoDoc
<1>5. CASE UNCHANGED fleetVars
  BY <1>5 DEF fleetVars, FleetInv, FleetTypeOK, Guarded
<1> QED BY <1>1, <1>2, <1>3, <1>4, <1>5 DEF FleetNext

\* No stale or hostile mirror rolls an account back, restarts included: a
\* document that comes into force is not older than any that ever was.
THEOREM NoRollback == FleetSpec => NeverRolledBack
<1>1. FleetInv => FleetTypeOK
  BY DEF FleetInv
<1>2. FleetInv /\ [FleetNext]_fleetVars => FleetInv'
  BY FleetStep
<1>3. FleetInv /\ [FleetNext]_fleetVars => [state' \notin {state, NoDoc} => state' >= everHeld]_fleetVars
  BY FleetStep
<1> QED BY <1>1, <1>2, <1>3, FleetInvInit, PTL DEF FleetSpec, NeverRolledBack
=============================================================================
