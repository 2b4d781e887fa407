------------------------ MODULE UpDownEngineProofs ------------------------
(***************************************************************************)
(* What an up/down engine promises for any candles, prices, caps and feed: *)
(* one answered fill a market and process, and no more fills of it than it *)
(* is tried, no order without a true move of the price since the candle    *)
(* opened, and no more answered fills in an hour than the cap, across      *)
(* restarts that find every mark of the hour.                              *)
(***************************************************************************)
EXTENDS UpDownEngine, SequenceTheorems, NaturalsInduction, WellFoundedInduction, TLAPS

Pass == [at : {"rest", "book", "order", "hung"}, todo : SUBSET Market, snap : SUBSET Market,
         now : 0..MaxTime, fresh : BOOLEAN, m : 0..Candles, spot : Prices \cup {None}]

Buying == {"book", "order"}

-----------------------------------------------------------------------------
(***************************************************************************)
(* The invariant: types, the references, and the pass under way.           *)
(***************************************************************************)
EngineTypes ==
  /\ clock \in 0..MaxTime /\ opening \in [Market -> Prices \cup {None}]
  /\ first \in [Market -> [at : {"none", "opening", "late"}, v : Prices \cup {None}]]
  /\ api \subseteq Market /\ spot \in Prices \cup {None} /\ price \in Prices
  /\ markets \subseteq Market /\ done \subseteq Market /\ file \subseteq Market
  /\ pass \in Pass /\ shots \in [Market -> 0..2]

\* What the engine takes for the opening price of a candle is that price.
Referenced ==
  /\ clock \in Market => opening[clock] = price
  /\ \A m \in Market : opening[m] # None => m <= clock
  /\ \A m \in Market : first[m].at = "opening" =>
       first[m].v = opening[m] /\ opening[m] # None
  /\ \A m \in api : opening[m] # None

\* A market with a fill is done, and the pass is never about to shoot at it.
ShotOnce ==
  /\ \A m \in Market : shots[m] \in 0..1 /\ (shots[m] = 1 => m \in done)
  /\ pass.at = "book" => pass.m \notin done
  /\ pass.at = "order" => shots[pass.m] = 0 /\ pass.m \in done

Aimed == pass.at \in Buying => pass.m \in Market

IInv == EngineTypes /\ Referenced /\ ShotOnce /\ Aimed /\ EdgeIsReal

-----------------------------------------------------------------------------
LEMMA Consts == Candles \in Nat /\ MaxTime \in Nat /\ MaxTime > Candles /\ Market = 1..Candles
BY EngineBounds DEF MaxTime, Market

\* The strike a displacement is measured from is the opening price.
LEMMA StrikeIsOpening ==
  ASSUME EngineTypes, Referenced, NEW m \in Market, strikeFor(m) # None
  PROVE  strikeFor(m) = opening[m] /\ opening[m] # None
<1>1. CASE refFor(m) # None
  BY <1>1 DEF strikeFor, refFor, Referenced
<1>2. CASE refFor(m) = None
  BY <1>2 DEF strikeFor, Referenced
<1> QED BY <1>1, <1>2

\* Where a walk over the markets leads: done only grows, and the pass rests,
\* or waits for the book of a market that is not done and whose price moved.
LEMMA WalkLeads ==
  ASSUME EngineTypes, Referenced, NEW p \in Pass, NEW mk \in SUBSET Market,
         NEW dn \in SUBSET Market, Walk(p, mk, dn)
  PROVE  /\ markets' \subseteq Market /\ dn \subseteq done' /\ done' \subseteq Market
         /\ pass' \in Pass
         /\ \/ pass'.at = "rest"
            \/ /\ pass'.at = "book" /\ pass'.m \in Market /\ pass'.m \notin done'
               /\ opening[pass'.m] # None /\ pass'.spot # opening[pass'.m]
<1>1. PICK X \in SUBSET p.todo :
        /\ markets' = mk \ {m \in X : p.now >= Ends(m) \/ (InWindow(p, m) /\ m \in p.snap \ dn)}
        /\ done' = dn \cup {m \in X \cap p.snap : InWindow(p, m)}
        /\ \/ \E m \in p.todo \ X :
                /\ Candidate(p, m, dn) /\ Displaced(p, m)
                /\ pass' = [p EXCEPT !.at = "book", !.todo = @ \ (X \cup {m}), !.m = m,
                                     !.spot = spot]
           \/ pass' = Rest
  BY DEF Walk
<1>2. p.todo \subseteq Market /\ X \subseteq Market
  BY DEF Pass
<1>3. markets' \subseteq Market /\ dn \subseteq done' /\ done' \subseteq Market
  BY <1>1, <1>2
<1>4. CASE pass' = Rest
  <2>1. Rest \in Pass /\ Rest.at = "rest"
    BY Consts DEF Rest, Pass
  <2> QED BY <1>3, <1>4, <2>1
<1>5. ASSUME NEW m \in p.todo \ X, Candidate(p, m, dn), Displaced(p, m),
             pass' = [p EXCEPT !.at = "book", !.todo = @ \ (X \cup {m}), !.m = m, !.spot = spot]
      PROVE  /\ pass' \in Pass /\ pass'.at = "book" /\ pass'.m \in Market /\ pass'.m \notin done'
             /\ opening[pass'.m] # None /\ pass'.spot # opening[pass'.m]
  <2>1. m \in Market /\ m \in 0..Candles
    BY <1>2, Consts
  <2>2. pass' \in Pass /\ pass'.at = "book" /\ pass'.m = m /\ pass'.spot = spot
    BY <1>2, <1>5, <2>1 DEF Pass, EngineTypes
  <2>3. m \notin done'
    BY <1>1, <1>5 DEF Candidate
  <2>4. opening[m] # None /\ spot # opening[m]
    BY <1>5, <2>1, StrikeIsOpening DEF Displaced
  <2> QED BY <2>1, <2>2, <2>3, <2>4
<1> QED BY <1>1, <1>3, <1>4, <1>5

\* A step that walks on keeps the invariant, if the markets with a fill are
\* among those done.
LEMMA WalkKeeps ==
  ASSUME EngineTypes, Referenced, NEW p \in Pass, NEW mk \in SUBSET Market,
         NEW dn \in SUBSET Market, Walk(p, mk, dn), UNCHANGED <<world, data>>,
         file' \subseteq Market, shots' \in [Market -> 0..2],
         \A m \in Market : shots'[m] \in 0..1 /\ (shots'[m] = 1 => m \in dn)
  PROVE  IInv'
<1>1. /\ markets' \subseteq Market /\ dn \subseteq done' /\ done' \subseteq Market
      /\ pass' \in Pass
      /\ \/ pass'.at = "rest"
         \/ /\ pass'.at = "book" /\ pass'.m \in Market /\ pass'.m \notin done'
            /\ opening[pass'.m] # None /\ pass'.spot # opening[pass'.m]
  BY WalkLeads
<1>2. EngineTypes'
  BY <1>1 DEF EngineTypes, world, data
<1>3. Referenced'
  BY DEF Referenced, world, data
<1>4. ShotOnce' /\ Aimed' /\ EdgeIsReal'
  BY <1>1 DEF ShotOnce, Aimed, EdgeIsReal, Buying, world
<1> QED BY <1>2, <1>3, <1>4 DEF IInv

LEMMA PassBeginsKeeps ==
  ASSUME IInv, PassBegins PROVE IInv'
<1> DEFINE p == [Rest EXCEPT !.todo = markets, !.snap = file, !.now = clock,
                             !.fresh = silence = "fresh"]
<1>1. p \in Pass
  <2>1. (silence = "fresh") \in BOOLEAN
    OBVIOUS
  <2>2. Rest \in Pass
    BY Consts DEF Rest, Pass
  <2> QED BY <2>1, <2>2 DEF Pass, IInv, EngineTypes
<1>2. Walk(p, markets, done) /\ UNCHANGED <<world, data, file, shots>>
  BY DEF PassBegins, hist
<1> HIDE DEF p
<1> QED BY <1>1, <1>2, WalkKeeps DEF IInv, EngineTypes, ShotOnce

LEMMA BookReadKeeps ==
  ASSUME IInv, NEW buy \in BOOLEAN, BookRead(buy) PROVE IInv'
<1>1. CASE Walk(pass, markets, done)
  BY <1>1, WalkKeeps DEF BookRead, IInv, EngineTypes, ShotOnce, hist
<1>2. CASE done' = done \cup {pass.m} /\ pass' = [pass EXCEPT !.at = "order"] /\ UNCHANGED markets
  <2>1. pass.at = "book" /\ pass.m \in Market /\ UNCHANGED <<world, data, file, shots>>
    BY DEF BookRead, IInv, Aimed, Buying, hist
  <2>2. pass' \in Pass /\ pass'.at = "order" /\ pass'.m = pass.m /\ pass'.spot = pass.spot
    BY <1>2 DEF IInv, EngineTypes, Pass
  <2>3. EngineTypes' /\ Referenced'
    BY <1>2, <2>1, <2>2 DEF IInv, EngineTypes, Referenced, world, data
  <2>4. ShotOnce' /\ Aimed' /\ EdgeIsReal'
    BY <1>2, <2>1, <2>2 DEF IInv, EngineTypes, ShotOnce, Aimed, EdgeIsReal, Buying, world
  <2> QED BY <2>3, <2>4 DEF IInv
<1> QED BY <1>1, <1>2 DEF BookRead

LEMMA OrderFillsKeeps ==
  ASSUME IInv, OrderFills PROVE IInv'
<1> DEFINE m == pass.m
           p == [pass EXCEPT !.snap = @ \cup {m}]
<1>1. pass.at = "order" /\ m \in Market /\ m \in done
  BY DEF OrderFills, IInv, Aimed, ShotOnce, Buying
<1>2. p \in Pass /\ pass.snap \cup {m} \subseteq Market
  BY <1>1 DEF IInv, EngineTypes, Pass
<1>3. /\ Walk(p, markets \ {m}, Kept(m)) /\ UNCHANGED <<world, data>>
      /\ file' = pass.snap \cup {m}
      /\ shots' = [shots EXCEPT ![m] = IF @ < 2 THEN @ + 1 ELSE @]
  BY DEF OrderFills
<1>4. shots[m] = 0
  BY <1>1 DEF IInv, ShotOnce
<1>5. shots' \in [Market -> 0..2] /\ file' \subseteq Market
  BY <1>1, <1>2, <1>3, <1>4 DEF IInv, EngineTypes
<1>6. \A x \in Market : shots'[x] \in 0..1 /\ (shots'[x] = 1 => x \in done)
  BY <1>1, <1>3, <1>4 DEF IInv, EngineTypes, ShotOnce
<1> HIDE DEF p, m
<1> QED BY <1>2, <1>3, <1>5, <1>6, WalkKeeps DEF Kept, IInv, EngineTypes

LEMMA OrderFailsKeeps ==
  ASSUME IInv, NEW c \in BOOLEAN, NEW f \in BOOLEAN, OrderFails(c, f) PROVE IInv'
<1> DEFINE m == pass.m
           mk == IF GivenUp(m, c) THEN markets \ {m} ELSE markets
           dn == IF GivenUp(m, c) THEN done ELSE done \ {m}
<1>1. pass.at = "order" /\ m \in Market /\ shots[m] = 0 /\ pass \in Pass
  BY DEF OrderFails, IInv, Aimed, ShotOnce, Buying, EngineTypes
<1>2. Walk(pass, mk, dn) /\ UNCHANGED <<world, data, file, shots>>
  BY DEF OrderFails, hist
<1>3. mk \subseteq Market /\ dn \subseteq Market
  BY DEF IInv, EngineTypes
<1>4. \A x \in Market : shots[x] \in 0..1 /\ (shots[x] = 1 => x \in dn)
  BY <1>1 DEF IInv, ShotOnce
<1> HIDE DEF mk, dn, m
<1> QED BY <1>1, <1>2, <1>3, <1>4, WalkKeeps DEF IInv, EngineTypes

\* A process ends: what it shot at is its own.
LEMMA StartsAfresh ==
  ASSUME IInv, Restart PROVE IInv'
<1>1. Rest \in Pass /\ Rest.at = "rest"
  BY Consts DEF Rest, Pass
<1>2. NoTick.at = "none" /\ NoTick \in [at : {"none", "opening", "late"}, v : Prices \cup {None}]
  BY DEF NoTick
<1>3. EngineTypes'
  BY <1>1, <1>2 DEF Restart, ProcessStarts, IInv, EngineTypes, world
<1>4. Referenced'
  BY <1>2 DEF Restart, ProcessStarts, IInv, Referenced, world
<1>5. ShotOnce' /\ Aimed' /\ EdgeIsReal'
  BY <1>1 DEF Restart, ProcessStarts, ShotOnce, Aimed, EdgeIsReal, Buying
<1> QED BY <1>3, <1>4, <1>5 DEF IInv

LEMMA HangsKeeps ==
  ASSUME IInv, Hangs PROVE IInv'
<1>1. pass' \in Pass /\ pass'.at = "hung"
  <2>1. Rest \in Pass
    BY Consts DEF Rest, Pass
  <2> QED BY <2>1 DEF Hangs, Pass
<1> QED BY <1>1 DEF Hangs, IInv, EngineTypes, Referenced, ShotOnce, Aimed, EdgeIsReal, Buying,
                    world, data, hist

\* A price opened a candle once and for all.
LEMMA TickKeeps ==
  ASSUME IInv, NEW q \in Prices, Tick(q) PROVE IInv'
<1> DEFINE t == IF clock < MaxTime THEN clock + 1 ELSE clock
<1>1. /\ clock' = t /\ price' = (IF clock < t THEN q ELSE price)
      /\ opening' = [m \in Market |-> IF m = t /\ clock < t THEN q ELSE opening[m]]
      /\ UNCHANGED <<first, api, spot, pass, shots, done, markets, file>>
  BY DEF Tick, Opens
<1>2. clock \in 0..MaxTime /\ t \in 0..MaxTime /\ (t = clock \/ t = clock + 1)
  BY Consts DEF IInv, EngineTypes
<1>3. CASE t = clock
  <2>1. opening' = opening /\ clock' = clock /\ price' = price
    BY <1>1, <1>2, <1>3 DEF IInv, EngineTypes
  <2> QED BY <1>1, <2>1 DEF IInv, EngineTypes, Referenced, ShotOnce, Aimed, EdgeIsReal
<1>4. CASE t = clock + 1
  <2>1. price' = q /\ opening' = [m \in Market |-> IF m = t THEN q ELSE opening[m]]
    BY <1>1, <1>2, <1>4
  <2>2. \A m \in Market : opening[m] # None => opening'[m] = opening[m]
    BY <1>2, <1>4, <2>1, Consts DEF IInv, Referenced
  <2>3. EngineTypes'
    BY <1>1, <1>2, <2>1 DEF IInv, EngineTypes
  <2>4. Referenced'
    <3>1. clock' \in Market => opening'[clock'] = price'
      BY <1>1, <2>1
    <3>2. \A m \in Market : opening'[m] # None => m <= clock'
      BY <1>1, <1>2, <1>4, <2>1, Consts DEF IInv, Referenced
    <3>3. \A m \in Market : first'[m].at = "opening" =>
            first'[m].v = opening'[m] /\ opening'[m] # None
      BY <1>1, <2>2 DEF IInv, Referenced
    <3>4. \A m \in api' : opening'[m] # None
      BY <1>1, <2>2 DEF IInv, Referenced, EngineTypes
    <3> QED BY <3>1, <3>2, <3>3, <3>4 DEF Referenced
  <2>5. EdgeIsReal'
    BY <1>1, <2>2 DEF IInv, EdgeIsReal, Aimed, Buying
  <2> QED BY <1>1, <2>3, <2>4, <2>5 DEF IInv, ShotOnce, Aimed
<1> QED BY <1>2, <1>3, <1>4

\* Only the tick that came with the opening is the reference.
LEMMA FeedTicksKeeps ==
  ASSUME IInv, FeedTicks PROVE IInv'
<1> DEFINE new(m) == [at |-> IF clock = m THEN "opening" ELSE "late", v |-> price]
<1>1. UNCHANGED <<clock, price, opening, api, markets, done, file, shots>> /\ spot' = price
  BY DEF FeedTicks, world, hist
<1>2. \A m \in Market : first'[m] = first[m] \/ first'[m] = new(m)
  BY DEF FeedTicks, Opens, Ends
<1>3. pass' \in Pass /\ pass'.at = pass.at /\ pass'.m = pass.m /\ pass'.spot = pass.spot
  <2>1. pass' = pass \/ pass' = [pass EXCEPT !.fresh = TRUE]
    BY DEF FeedTicks
  <2> QED BY <2>1 DEF IInv, EngineTypes, Pass
<1>4. EngineTypes'
  <2>1. \A m \in Market : new(m) \in [at : {"none", "opening", "late"}, v : Prices \cup {None}]
    BY DEF IInv, EngineTypes
  <2>2. first' \in [Market -> [at : {"none", "opening", "late"}, v : Prices \cup {None}]]
    <3>1. first' = [m \in Market |-> first'[m]]
      BY DEF FeedTicks
    <3>2. \A m \in Market : first'[m] \in [at : {"none", "opening", "late"}, v : Prices \cup {None}]
      BY <1>2, <2>1 DEF IInv, EngineTypes
    <3> QED BY <3>1, <3>2
  <2> QED BY <1>1, <1>3, <2>2 DEF IInv, EngineTypes
<1>5. Referenced'
  <2>1. \A m \in Market : new(m).at = "opening" => clock = m /\ new(m).v = price
    OBVIOUS
  <2>2. ASSUME NEW m \in Market, first'[m].at = "opening"
        PROVE  first'[m].v = opening[m] /\ opening[m] # None
    <3>1. CASE first'[m] = first[m]
      BY <2>2, <3>1 DEF IInv, Referenced
    <3>2. CASE first'[m] = new(m)
      <4>1. clock = m /\ first'[m].v = price
        BY <2>1, <2>2, <3>2
      <4>2. price = opening[m] /\ price # None
        BY <4>1, PricesAssumption DEF IInv, EngineTypes, Referenced
      <4> QED BY <4>1, <4>2
    <3> QED BY <1>2, <3>1, <3>2
  <2> QED BY <1>1, <2>2 DEF IInv, Referenced
<1>6. ShotOnce' /\ Aimed' /\ EdgeIsReal'
  BY <1>1, <1>3 DEF IInv, ShotOnce, Aimed, EdgeIsReal, Buying
<1> QED BY <1>4, <1>5, <1>6 DEF IInv

\* Steps of the feed's connection, the backfill of openings, the discovery and
\* the others' saves touch neither the pass nor what was filled.
LEMMA OthersKeep ==
  ASSUME IInv, UNCHANGED <<world, spot, first, pass, done, shots>>,
         markets' \subseteq Market, file' \subseteq Market, api' \subseteq Market,
         \A m \in api' : opening[m] # None
  PROVE  IInv'
BY DEF IInv, EngineTypes, Referenced, ShotOnce, Aimed, EdgeIsReal, world

-----------------------------------------------------------------------------
(***************************************************************************)
(* The hour's budget and the tries.  The ages are held oldest first, so    *)
(* what is shifted off their front is all that is too old; an order is     *)
(* under way only while there is room for its fill; and only a market that *)
(* can still fail is ordered, so the failures stay counted.                *)
(***************************************************************************)
\* The ages of the fills of an hour, at most n of them, the oldest first.
AgesUpTo(s, n) ==
  /\ Len(s) \in 0..n /\ s \in [1..Len(s) -> 0..(Hour - 1)]
  /\ \A i, j \in 1..Len(s) : i <= j => s[i] >= s[j]

Room == pass.at = "order" => Len(hourly) < MaxPerHour

\* A market that can still be ordered has tries left, of which the fills that
\* were taken for failures have used some.
Tries ==
  /\ fails \in [Market -> 0..MaxTries] /\ lost \in [Market -> 0..MaxFails]
  /\ \A m \in Market : shots[m] + lost[m] <= MaxFails
  /\ \A m \in Market : (m \notin done \/ (pass.at = "order" /\ m = pass.m)) =>
       fails[m] < MaxTries /\ lost[m] <= fails[m] /\ lost[m] < MaxFails

FeedTypes ==
  /\ feed \in {"down", "live", "half"} /\ silence \in {"never", "fresh", "silent"}
  /\ kicked \in BOOLEAN

\* The ages in memory, in the file and in the history, which is that of the
\* memory as long as no process began without a mark.
Hours ==
  /\ spoiled \in BOOLEAN /\ (~spoiled => booked = hourly)
  /\ AgesUpTo(hourly, MaxPerHour) /\ AgesUpTo(hourFile, MaxPerHour)
  /\ AgesUpTo(booked, MaxPerHour)

Budget == FeedTypes /\ Tries /\ Hours /\ Room

LEMMA Positive == /\ MaxPerHour \in Nat /\ MaxPerHour > 0 /\ Hour \in Nat /\ Hour > 0
                  /\ MaxFails \in Nat /\ MaxFails > 0 /\ MaxTries \in Nat /\ MaxTries > 0
BY EngineBounds

LEMMA NoAges == AgesUpTo(<< >>, MaxPerHour)
<1>1. Len(<< >>) = 0 /\ 0 \in 0..MaxPerHour
  BY Positive
<1>2. << >> \in [1..0 -> 0..(Hour - 1)] /\ 1..0 = {}
  OBVIOUS
<1> QED BY <1>1, <1>2 DEF AgesUpTo

\* Of some naturals, one is the least.
LEMMA HasLeast ==
  ASSUME NEW S \in SUBSET Nat, S # {}
  PROVE  \E n \in S : \A k \in S : n <= k
<1>1. IsWellFoundedOn(OpToRel(<, Nat), Nat)
  BY NatLessThanWellFounded
<1>2. PICK n \in S : \A k \in S : ~ (<<k, n>> \in OpToRel(<, Nat))
  BY <1>1, WFMin, Zenon
<1>3. ASSUME NEW k \in S
      PROVE  n <= k
  <2>1. n \in Nat /\ k \in Nat
    OBVIOUS
  <2>2. ~ (k < n)
    BY <1>2, <2>1 DEF OpToRel
  <2> QED BY <2>1, <2>2
<1> QED BY <1>3

\* What the walk over the front of the hour leaves: a tail of it, a unit older.
LEMMA OlderFacts ==
  ASSUME NEW s, AgesUpTo(s, MaxPerHour)
  PROVE  AgesUpTo(Older(s), MaxPerHour) /\ Len(Older(s)) <= Len(s)
<1> DEFINE n == Len(s)
           Stops(k) == /\ \A i \in 1..k : s[i] + 1 >= Hour
                       /\ k < n => s[k + 1] + 1 < Hour
           k0 == Expired(s)
           old == [i \in 1..(n - k0) |-> s[i + k0] + 1]
           S == {k \in 0..n : k < n => s[k + 1] + 1 < Hour}
<1>1. n \in Nat /\ n <= MaxPerHour /\ \A i \in 1..n : s[i] \in 0..(Hour - 1)
  BY Positive DEF AgesUpTo
<1>2. \E k \in 0..n : Stops(k)
  <2>1. S \subseteq Nat /\ n \in S
    BY <1>1
  <2> HIDE DEF n
  <2>2. PICK k \in S : \A j \in S : k <= j
    BY <2>1, HasLeast
  <2>3. k \in 0..n /\ (k < n => s[k + 1] + 1 < Hour)
    BY <2>2
  <2>4. ASSUME NEW i \in 1..k
        PROVE  s[i] + 1 >= Hour
    <3>1. i - 1 \in 0..n /\ i - 1 < n /\ i - 1 < k /\ (i - 1) + 1 = i /\ i \in 1..n
      BY <1>1, <2>3
    <3>2. i - 1 \notin S
      BY <2>2, <2>3, <3>1
    <3>3. ~ (s[i] + 1 < Hour)
      BY <3>1, <3>2
    <3> QED BY <1>1, <3>1, <3>3, Positive
  <2> QED BY <2>3, <2>4
<1>3. k0 \in 0..n /\ Stops(k0)
  BY <1>2 DEF Expired
<1> HIDE DEF k0, n
<1>4. ASSUME NEW i \in 1..(n - k0)
      PROVE  old[i] = s[i + k0] + 1 /\ old[i] \in 0..(Hour - 1)
  <2>1. k0 < n /\ k0 + 1 \in 1..n /\ i + k0 \in 1..n /\ k0 + 1 <= i + k0
    BY <1>1, <1>3
  <2>2. s[k0 + 1] + 1 < Hour /\ s[k0 + 1] >= s[i + k0]
    BY <1>3, <2>1 DEF AgesUpTo, n
  <2>3. s[k0 + 1] \in 0..(Hour - 1) /\ s[i + k0] \in 0..(Hour - 1)
    BY <1>1, <2>1
  <2>4. s[i + k0] + 1 \in 0..(Hour - 1)
    BY <2>2, <2>3, Positive
  <2> QED BY <2>4
<1>5. old \in [1..(n - k0) -> 0..(Hour - 1)] /\ n - k0 \in 0..MaxPerHour /\ n - k0 <= n
  <2>1. n - k0 \in 0..MaxPerHour /\ n - k0 <= n
    BY <1>1, <1>3, Positive
  <2> QED BY <1>4, <2>1
<1>6. Len(old) = n - k0
  BY <1>5
<1>7. ASSUME NEW i \in 1..(n - k0), NEW j \in 1..(n - k0), i <= j
      PROVE  old[i] >= old[j]
  <2>1. i + k0 \in 1..n /\ j + k0 \in 1..n /\ i + k0 <= j + k0
    BY <1>1, <1>3, <1>7
  <2>2. s[i + k0] >= s[j + k0]
    BY <2>1 DEF AgesUpTo, n
  <2>3. s[i + k0] \in Int /\ s[j + k0] \in Int
    BY <1>1, <2>1
  <2> QED BY <1>4, <2>2, <2>3
<1>8. Older(s) = old
  BY DEF Older, old, k0, n
<1> HIDE DEF old
<1>9. AgesUpTo(old, MaxPerHour)
  BY <1>1, <1>5, <1>6, <1>7 DEF AgesUpTo
<1> QED BY <1>5, <1>6, <1>8, <1>9 DEF n

\* A fill into an hour with room.
LEMMA AppendFacts ==
  ASSUME NEW s, AgesUpTo(s, MaxPerHour), Len(s) < MaxPerHour
  PROVE  AgesUpTo(Append(s, 0), MaxPerHour)
<1> DEFINE n == Len(s)
           t == Append(s, 0)
<1>1. n \in Nat /\ n + 1 <= MaxPerHour /\ s \in [1..n -> 0..(Hour - 1)]
      /\ 0 \in 0..(Hour - 1)
  BY Positive DEF AgesUpTo
<1>2. s \in Seq(0..(Hour - 1))
  BY <1>1, SeqDef
<1>3. Len(t) = n + 1 /\ \A i \in 1..(n + 1) : t[i] = IF i = n + 1 THEN 0 ELSE s[i]
  BY <1>1, <1>2, AppendProperties
<1>4. t \in [1..(n + 1) -> 0..(Hour - 1)]
  <2>1. t \in Seq(0..(Hour - 1))
    BY <1>1, <1>2, AppendProperties
  <2> QED BY <1>3, <2>1, LenProperties
<1>5. ASSUME NEW i \in 1..(n + 1), NEW j \in 1..(n + 1), i <= j
      PROVE  t[i] >= t[j]
  <2>1. CASE j = n + 1
    BY <1>1, <1>3, <1>4, <2>1
  <2>2. CASE j # n + 1
    <3>1. i \in 1..n /\ j \in 1..n
      BY <1>1, <1>5, <2>2
    <3> QED BY <1>1, <1>3, <1>5, <3>1 DEF AgesUpTo
  <2> QED BY <2>1, <2>2
<1> HIDE DEF t, n
<1> QED BY <1>1, <1>3, <1>4, <1>5 DEF AgesUpTo, t

\* A walk keeps the budget: a market given up is among those done.
LEMMA WalkSpends ==
  ASSUME IInv, NEW p \in Pass, NEW mk \in SUBSET Market, NEW dn \in SUBSET Market,
         Walk(p, mk, dn), FeedTypes', Hours',
         fails' \in [Market -> 0..MaxTries], lost' \in [Market -> 0..MaxFails],
         \A m \in Market : shots'[m] + lost'[m] <= MaxFails,
         \A m \in Market : m \notin dn =>
           fails'[m] < MaxTries /\ lost'[m] <= fails'[m] /\ lost'[m] < MaxFails
  PROVE  Budget'
<1>1. dn \subseteq done' /\ pass'.at # "order"
  BY WalkLeads DEF IInv
<1> QED BY <1>1 DEF Budget, Tries, Room

LEMMA PassBeginsSpends ==
  ASSUME IInv, Budget, PassBegins PROVE Budget'
<1> DEFINE p == [Rest EXCEPT !.todo = markets, !.snap = file, !.now = clock,
                             !.fresh = silence = "fresh"]
<1>1. p \in Pass
  <2>1. (silence = "fresh") \in BOOLEAN
    OBVIOUS
  <2>2. Rest \in Pass
    BY Consts DEF Rest, Pass
  <2> QED BY <2>1, <2>2 DEF Pass, IInv, EngineTypes
<1>2. Walk(p, markets, done) /\ UNCHANGED <<feed, silence, kicked, fails, hour, hist>>
  BY DEF PassBegins, data
<1>3. Hours' /\ FeedTypes' /\ UNCHANGED <<fails, lost, shots>>
  BY <1>2 DEF Budget, Hours, FeedTypes, hour, hist
<1> HIDE DEF p
<1> QED BY <1>1, <1>2, <1>3, WalkSpends DEF Budget, Tries, IInv, EngineTypes

LEMMA BookReadSpends ==
  ASSUME IInv, Budget, NEW buy \in BOOLEAN, BookRead(buy) PROVE Budget'
<1>1. UNCHANGED <<feed, silence, kicked, fails, lost, shots, hour, hist>> /\ pass.at = "book"
  BY DEF BookRead, data, hist
<1>4. Hours' /\ FeedTypes'
  BY <1>1 DEF Budget, Hours, FeedTypes, hour, hist
<1>2. CASE Walk(pass, markets, done)
  BY <1>1, <1>2, <1>4, WalkSpends DEF Budget, Tries, IInv, EngineTypes
<1>3. CASE ~HourlyCapped /\ done' = done \cup {pass.m} /\ pass' = [pass EXCEPT !.at = "order"]
  <2>1. pass.m \in Market /\ pass.m \notin done /\ pass'.m = pass.m
    BY <1>1, <1>3 DEF IInv, Aimed, Buying, ShotOnce, EngineTypes, Pass
  <2>2. Tries'
    BY <1>1, <1>3, <2>1 DEF Budget, Tries
  <2>3. Room'
    BY <1>1, <1>3, Positive DEF Budget, Hours, Room, HourlyCapped, AgesUpTo, hour
  <2> QED BY <1>4, <2>2, <2>3 DEF Budget
<1> QED BY <1>2, <1>3 DEF BookRead

LEMMA OrderFillsSpends ==
  ASSUME IInv, Budget, OrderFills PROVE Budget'
<1> DEFINE m == pass.m
           p == [pass EXCEPT !.snap = @ \cup {m}]
<1>1. pass.at = "order" /\ m \in Market /\ m \in done /\ shots[m] = 0
  BY DEF OrderFills, IInv, Aimed, Buying, ShotOnce
<1>2. p \in Pass
  BY <1>1 DEF IInv, EngineTypes, Pass
<1>3. /\ Walk(p, markets \ {m}, Kept(m)) /\ UNCHANGED <<feed, silence, kicked, fails, lost, spoiled>>
      /\ hourly' = Append(hourly, 0) /\ hourFile' \in {hourly', hourFile}
      /\ booked' = (IF spoiled THEN booked ELSE Append(booked, 0))
      /\ shots' = [shots EXCEPT ![m] = IF @ < 2 THEN @ + 1 ELSE @]
  BY DEF OrderFills, data
<1>4. AgesUpTo(hourly', MaxPerHour)
  BY <1>1, <1>3, AppendFacts DEF Budget, Hours, Room
<1>5. Hours'
  BY <1>3, <1>4 DEF Budget, Hours
<1>6. \A x \in Market : shots'[x] + lost'[x] <= MaxFails
  <2>1. shots' = [shots EXCEPT ![m] = 1] /\ shots \in [Market -> 0..2]
    BY <1>1, <1>3 DEF IInv, EngineTypes
  <2>2. lost[m] \in Nat /\ lost[m] < MaxFails
    BY <1>1 DEF Budget, Tries
  <2>3. 1 + lost[m] <= MaxFails
    BY <2>2, Positive
  <2>4. shots'[m] = 1 /\ \A x \in Market \ {m} : shots'[x] = shots[x]
    BY <1>1, <2>1
  <2> HIDE DEF m
  <2> QED BY <1>3, <2>3, <2>4 DEF Budget, Tries
<1>7. FeedTypes' /\ done \subseteq Market /\ markets \subseteq Market
  BY <1>3 DEF Budget, FeedTypes, IInv, EngineTypes
<1> HIDE DEF p, m
<1> QED BY <1>2, <1>3, <1>5, <1>6, <1>7, WalkSpends DEF Kept, Budget, Tries

LEMMA OrderFailsSpends ==
  ASSUME IInv, Budget, NEW c \in BOOLEAN, NEW f \in BOOLEAN, OrderFails(c, f) PROVE Budget'
<1> DEFINE m == pass.m
           mk == IF GivenUp(m, c) THEN markets \ {m} ELSE markets
           dn == IF GivenUp(m, c) THEN done ELSE done \ {m}
<1>1. pass.at = "order" /\ m \in Market /\ m \in done /\ shots[m] = 0 /\ pass \in Pass
  BY DEF OrderFails, IInv, Aimed, ShotOnce, Buying, EngineTypes
<1>2. /\ Walk(pass, mk, dn) /\ UNCHANGED <<feed, silence, kicked, hour, shots, booked, spoiled>>
      /\ (f => c) /\ fails' = [fails EXCEPT ![m] = @ + 1]
      /\ lost' = (IF f THEN [lost EXCEPT ![m] = @ + 1] ELSE lost)
  BY DEF OrderFails, data
<1>3. mk \subseteq Market /\ dn \subseteq Market
  BY DEF IInv, EngineTypes
<1>4. /\ fails \in [Market -> 0..MaxTries] /\ lost \in [Market -> 0..MaxFails]
      /\ fails[m] < MaxTries /\ lost[m] <= fails[m] /\ lost[m] < MaxFails
      /\ fails[m] \in Nat /\ lost[m] \in Nat
  BY <1>1 DEF Budget, Tries
<1>5. fails[m] + 1 \in 0..MaxTries /\ lost[m] + 1 \in 0..MaxFails
  BY <1>4, Positive
<1>6. fails' \in [Market -> 0..MaxTries] /\ lost' \in [Market -> 0..MaxFails]
  BY <1>1, <1>2, <1>4, <1>5
<1>7. /\ fails'[m] = fails[m] + 1 /\ lost'[m] = (IF f THEN lost[m] + 1 ELSE lost[m])
      /\ \A x \in Market \ {m} : fails'[x] = fails[x] /\ lost'[x] = lost[x]
  BY <1>1, <1>2, <1>4
<1>8. \A x \in Market : shots'[x] + lost'[x] <= MaxFails
  <2>1. shots'[m] + lost'[m] <= MaxFails
    BY <1>1, <1>2, <1>4, <1>5, <1>7
  <2> HIDE DEF m
  <2> QED BY <1>2, <1>7, <2>1 DEF Budget, Tries
<1>9. ~GivenUp(m, c) => fails'[m] < MaxTries /\ lost'[m] <= fails'[m] /\ lost'[m] < MaxFails
  <2>1. CASE c
    <3>1. ~GivenUp(m, c) => fails[m] + 1 < MaxTries /\ fails[m] + 1 < MaxFails
      BY <1>4, <2>1, Positive DEF GivenUp, Least
    <3> HIDE DEF m
    <3> QED BY <1>4, <1>7, <3>1, Positive
  <2>2. CASE ~c
    <3>1. ~GivenUp(m, c) => fails[m] + 1 < MaxTries
      BY <1>4, <2>2, Positive DEF GivenUp
    <3> HIDE DEF m
    <3> QED BY <1>2, <1>4, <1>7, <2>2, <3>1, Positive
  <2> QED BY <2>1, <2>2
<1>10. \A x \in Market : x \notin dn =>
         fails'[x] < MaxTries /\ lost'[x] <= fails'[x] /\ lost'[x] < MaxFails
  <2>1. ASSUME NEW x \in Market, x \notin dn, x # m
        PROVE  x \notin done
    BY <2>1
  <2>2. m \notin dn => ~GivenUp(m, c)
    BY <1>1
  <2> HIDE DEF m, dn
  <2> QED BY <1>7, <1>9, <2>1, <2>2 DEF Budget, Tries
<1>11. Hours' /\ FeedTypes'
  BY <1>2 DEF Budget, Hours, FeedTypes, hour
<1> HIDE DEF mk, dn, m
<1> QED BY <1>1, <1>2, <1>3, <1>6, <1>8, <1>10, <1>11, WalkSpends

\* A restart reads the hour back from the file; what it does not find there
\* is remembered as spoiled.
LEMMA RestartSpends ==
  ASSUME IInv, Budget, Restart PROVE Budget'
<1>1. Rest.at = "rest"
  BY DEF Rest
<1>2. 0 \in 0..MaxFails /\ 0 < MaxFails /\ 0 \in 0..MaxTries /\ 0 < MaxTries
      /\ 0 + 0 <= MaxFails /\ 0 <= 0
  BY Positive
<1>3. Tries' /\ FeedTypes' /\ Room'
  BY <1>1, <1>2 DEF Restart, ProcessStarts, Tries, FeedTypes, Room
<1>4. PICK f \in {hourFile, <<>>} :
        hourly' = f /\ hourFile' = f /\ spoiled' = (spoiled \/ f # hourly)
  BY DEF Restart, Reloaded
<1>5. AgesUpTo(f, MaxPerHour) /\ AgesUpTo(booked', MaxPerHour)
  BY <1>4, NoAges DEF Budget, Hours, Restart
<1>6. spoiled' \in BOOLEAN /\ (~spoiled' => booked' = hourly')
  BY <1>4 DEF Budget, Hours, Restart
<1> QED BY <1>3, <1>4, <1>5, <1>6 DEF Budget, Hours

LEMMA TickSpends ==
  ASSUME IInv, Budget, NEW q \in Prices, Tick(q) PROVE Budget'
<1>1. /\ hourly' = Older(hourly) /\ hourFile' = Older(hourFile) /\ booked' = Older(booked)
      /\ silence' = (IF silence = "fresh" THEN "silent" ELSE silence)
      /\ kicked' = FALSE /\ UNCHANGED <<feed, fails, pass, done, shots, lost, spoiled>>
  BY DEF Tick
<1>2. Hours' /\ Len(hourly') <= Len(hourly)
  BY <1>1, OlderFacts DEF Budget, Hours
<1>3. Room'
  BY <1>1, <1>2, Positive DEF Budget, Hours, Room, AgesUpTo
<1>4. FeedTypes' /\ Tries'
  BY <1>1 DEF Budget, FeedTypes, Tries
<1> QED BY <1>2, <1>3, <1>4 DEF Budget

\* The feed's steps, discovery and the others' saves spend nothing.
LEMMA OthersSpend ==
  ASSUME Budget, FeedTypes', UNCHANGED <<fails, done, hour, hist>>,
         pass'.at = "order" => pass.at = "order" /\ pass'.m = pass.m
  PROVE  Budget'
BY DEF Budget, Hours, Tries, Room, hour, hist

LEMMA FeedTicksSpends ==
  ASSUME IInv, Budget, FeedTicks PROVE Budget'
<1>1. pass'.at = pass.at /\ pass'.m = pass.m
  <2>1. pass' = pass \/ pass' = [pass EXCEPT !.fresh = TRUE]
    BY DEF FeedTicks
  <2> QED BY <2>1 DEF IInv, EngineTypes, Pass
<1>2. FeedTypes' /\ UNCHANGED <<fails, done, hour, hist>>
  BY DEF FeedTicks, Budget, FeedTypes
<1> QED BY <1>1, <1>2, OthersSpend

LEMMA HangsSpends ==
  ASSUME IInv, Budget, Hangs PROVE Budget'
<1>1. pass'.at = "hung" /\ UNCHANGED <<fails, done, hour, shots, booked, spoiled>> /\ FeedTypes'
  BY DEF Hangs, Rest, data, Budget, FeedTypes
<1>2. CASE UNCHANGED lost
  BY <1>1, <1>2, OthersSpend DEF hist
<1>3. CASE pass.at = "order" /\ lost' = [lost EXCEPT ![pass.m] = @ + 1]
  <2>1. pass.m \in Market /\ pass.m \in done /\ shots[pass.m] = 0
    BY <1>3 DEF IInv, Aimed, Buying, ShotOnce
  <2>2. lost \in [Market -> 0..MaxFails] /\ lost[pass.m] + 1 \in 0..MaxFails
        /\ shots[pass.m] + (lost[pass.m] + 1) <= MaxFails
    BY <1>3, <2>1, Positive DEF Budget, Tries
  <2>3. lost' \in [Market -> 0..MaxFails] /\ lost'[pass.m] = lost[pass.m] + 1
        /\ \A x \in Market \ {pass.m} : lost'[x] = lost[x]
    BY <1>3, <2>1, <2>2
  <2>4. Tries'
    BY <1>1, <2>1, <2>2, <2>3 DEF Budget, Tries
  <2>5. Hours' /\ Room'
    BY <1>1 DEF Budget, Hours, Room, hour
  <2> QED BY <1>1, <2>4, <2>5 DEF Budget
<1> QED BY <1>1, <1>2, <1>3 DEF Hangs

LEMMA Spends == IInv /\ Budget /\ [Next]_vars => Budget'
<1> SUFFICES ASSUME IInv, Budget, [Next]_vars PROVE Budget'
  OBVIOUS
<1> USE DEF world, data, hour, hist
<1>1. CASE HalfDies \/ Closes \/ Reconnects \/ Kick
  <2>1. FeedTypes' /\ UNCHANGED <<fails, done, hour, hist, pass>>
    BY <1>1 DEF HalfDies, Closes, Reconnects, Kick, Budget, FeedTypes
  <2> QED BY <2>1, OthersSpend
<1>2. ASSUME NEW m \in Market, BackfillRefs(m) \/ Discover(m) \/ OthersSave(m) PROVE Budget'
  <2>1. FeedTypes' /\ UNCHANGED <<fails, done, hour, hist, pass>>
    BY <1>2 DEF BackfillRefs, Discover, OthersSave, Budget, FeedTypes
  <2> QED BY <2>1, OthersSpend
<1>3. CASE Passes
  BY <1>3, PassBeginsSpends, BookReadSpends, OrderFillsSpends, OrderFailsSpends, RestartSpends
  DEF Passes, WedgeExit
<1>4. CASE UNCHANGED vars
  <2>1. FeedTypes' /\ UNCHANGED <<fails, done, hour, hist, pass>>
    BY <1>4 DEF vars, Budget, FeedTypes
  <2> QED BY <2>1, OthersSpend
<1> QED
  BY <1>1, <1>2, <1>3, <1>4, TickSpends, FeedTicksSpends, HangsSpends, RestartSpends DEF Next

LEMMA StartsUnspent == Init => Budget
<1> SUFFICES ASSUME Init PROVE Budget
  OBVIOUS
<1>1. Rest.at = "rest"
  BY DEF Rest
<1>2. 0 \in 0..MaxFails /\ 0 < MaxFails /\ 0 \in 0..MaxTries /\ 0 < MaxTries
      /\ 0 + 0 <= MaxFails /\ 0 <= 0
  BY Positive
<1> QED BY <1>1, <1>2, NoAges DEF Init, Budget, Hours, FeedTypes, Tries, Room

-----------------------------------------------------------------------------
(***************************************************************************)
(* The theorems.                                                           *)
(***************************************************************************)
LEMMA Starts == Init => IInv
<1> SUFFICES ASSUME Init PROVE IInv
  OBVIOUS
<1>1. Rest \in Pass /\ Rest.at = "rest"
  BY Consts DEF Rest, Pass
<1>2. NoTick.at = "none" /\ NoTick \in [at : {"none", "opening", "late"}, v : Prices \cup {None}]
  BY DEF NoTick
<1>3. FirstPrice \in Prices
  BY PricesAssumption DEF FirstPrice
<1>4. EngineTypes
  BY <1>1, <1>2, <1>3, Consts DEF Init, EngineTypes
<1>5. Referenced
  BY <1>2, Consts DEF Init, Referenced
<1>6. ShotOnce /\ Aimed /\ EdgeIsReal
  BY <1>1 DEF Init, ShotOnce, Aimed, EdgeIsReal, Buying
<1> QED BY <1>4, <1>5, <1>6 DEF IInv

LEMMA Keeps == IInv /\ [Next]_vars => IInv'
<1> SUFFICES ASSUME IInv, [Next]_vars PROVE IInv'
  OBVIOUS
<1> USE DEF world, data, hour, hist
<1>1. CASE HalfDies \/ Closes \/ Reconnects \/ Kick
  <2>1. UNCHANGED <<world, spot, first, pass, done, shots, markets, file, api>>
    BY <1>1 DEF HalfDies, Closes, Reconnects, Kick
  <2> QED BY <2>1, OthersKeep DEF IInv, EngineTypes, Referenced
<1>2. ASSUME NEW m \in Market, BackfillRefs(m) PROVE IInv'
  BY <1>2, OthersKeep DEF BackfillRefs, IInv, EngineTypes, Referenced
<1>3. ASSUME NEW m \in Market, Discover(m) PROVE IInv'
  BY <1>3, OthersKeep DEF Discover, IInv, EngineTypes, Referenced
<1>4. ASSUME NEW m \in Market, OthersSave(m) PROVE IInv'
  BY <1>4, OthersKeep DEF OthersSave, IInv, EngineTypes, Referenced
<1>5. CASE Passes
  BY <1>5, PassBeginsKeeps, BookReadKeeps, OrderFillsKeeps, OrderFailsKeeps, StartsAfresh
  DEF Passes, WedgeExit
<1>6. CASE UNCHANGED vars
  <2>1. UNCHANGED <<world, spot, first, pass, done, shots, markets, file, api>>
    BY <1>6 DEF vars
  <2> QED BY <2>1, OthersKeep DEF IInv, EngineTypes, Referenced
<1> QED
  BY <1>1, <1>2, <1>3, <1>4, <1>5, <1>6, TickKeeps, FeedTicksKeeps, HangsKeeps, StartsAfresh
  DEF Next

LEMMA Invariance == Spec => []IInv
BY Starts, Keeps, PTL DEF Spec

\* No order without a move from the price at which the candle opened: neither
\* a feed that came late nor one that died takes another tick for it
\* (qtable2.mjs 205-240).
THEOREM EdgeHolds == Spec => []EdgeIsReal
<1>1. IInv => EdgeIsReal
  BY DEF IInv
<1> QED BY <1>1, Invariance, PTL

LEMMA BudgetInvariance == Spec => []Budget
BY Invariance, StartsUnspent, Spends, PTL DEF Spec

\* A process is answered at most one fill of a market, and with the fills whose
\* answers it never read there are no more of them than it is tried, for any
\* number of candles, retries and discoveries, whatever the others save over
\* its records (the done set and the retries, qtable2.mjs 380-535).
THEOREM OneFillAMarket == Spec => []OneShot
<1>1. IInv /\ Budget => OneShot
  BY DEF IInv, Budget, ShotOnce, Tries, OneShot
<1> QED BY <1>1, Invariance, BudgetInvariance, PTL

\* No more answered fills in a rolling hour than the cap, whichever processes
\* booked them, for any cap, hour and number of failures, as long as each
\* process finds the marks of the one before (hourlyCapped and hourlyMark,
\* qtable2.mjs 151-161).
THEOREM HourlyCapHeld == Spec => []HourlyCapHolds
<1>1. IInv /\ Budget => HourlyCapHolds
  <2> SUFFICES ASSUME IInv, Budget PROVE HourlyCapHolds
    OBVIOUS
  <2>1. Len(booked) <= MaxPerHour
    BY Positive DEF Budget, Hours, AgesUpTo
  <2>2. {hourly, hourFile, booked} \subseteq Ages
    <3>1. ASSUME NEW s, AgesUpTo(s, MaxPerHour)
          PROVE  s \in Ages
      <4>1. Len(s) \in 0..(MaxPerHour + 1)
        BY <3>1, Positive DEF AgesUpTo
      <4> QED BY <3>1, <4>1 DEF Ages, AgesUpTo
    <3> QED BY <3>1 DEF Budget, Hours
  <2>3. TypeOK
    BY <2>2 DEF TypeOK, IInv, Budget, Hours, EngineTypes, FeedTypes, Tries, Pass
  <2> QED BY <2>1, <2>3 DEF HourlyCapHolds
<1> QED BY <1>1, Invariance, BudgetInvariance, PTL
=============================================================================
