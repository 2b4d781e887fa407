------------------------------ MODULE CopySizing ------------------------------
(***************************************************************************)
(* How much of a whale's position the copy engine takes, when, and at      *)
(* which prices (copytrade.mjs, tier-ladder.mjs, candle-sizing.mjs,        *)
(* tier-sizing.mjs, floor-guard.mjs): functions without state.  A          *)
(* portfolio is in dollars, an order in mills of a dollar, a percentage in *)
(* tenths, so that percentage * portfolio is an order; prices are in       *)
(* cents, times in minutes.                                                *)
(*                                                                         *)
(* A signal (sig): kind "new" or "adopt"; category; candle, its minutes or *)
(* 0; class for the clock; left, the minutes to its event, if timed; pair; *)
(* cost, shares and peak of his position; avg, his usual position; bands,  *)
(* his tier thresholds; anchor and median of his trades; tier, as the      *)
(* server resolved it; his, his average price or 0; maxEntry; who, his     *)
(* name; whales, one [name, avg, cost] for each that holds the side.       *)
(* A profile (c): the switches oneshot, v2, ladder, hc, candles, tiers,    *)
(* clock, and minPort, unit, reserve, what the server and the              *)
(* environment set for the account.                                        *)
(***************************************************************************)
EXTENDS Integers, Sequences
LOCAL INSTANCE FiniteSetsExt

Unknown == -1
NoBands == <<>>

Lesser(a, b)  == IF a < b THEN a ELSE b
Greater(a, b) == IF a > b THEN a ELSE b

MIN_ORDER_USD == 1000
V2_FLOOR_USD  == 2000
NC_PCTS_HOSTED == <<60, 50, 40>>
NC_PCTS_LEGACY == <<50, 40, 30>>
CANDLE_PCTS    == <<30, 20>>

(***************************************************************************)
(* The tier ladders.                                                       *)
(***************************************************************************)
\* The percentage of the first threshold his money reaches, 0 below them all.
pctFromBands(cost, t, pcts) ==
  LET hit == {i \in DOMAIN pcts : i \in DOMAIN t /\ cost >= t[i]} IN
  IF hit = {} THEN 0 ELSE pcts[CHOOSE i \in hit : \A k \in hit : i <= k]

\* The tier his position is in now against the one last processed; a position
\* from before the watermark is seeded.
whaleTierStep(watermark, newTier, seed) ==
  LET before == IF watermark # Unknown THEN watermark ELSE IF seed # Unknown THEN seed ELSE newTier IN
  IF newTier = Unknown THEN [watermark |-> watermark, crossing |-> FALSE]
  ELSE [watermark |-> newTier, crossing |-> newTier > before]

\* What brings a position of held up to its tier, never beyond the ceiling.
topUp(pct, port, held, ceilPct) ==
  Greater(0, Lesser(pct * port, ceilPct * port) - held)

LADDER_V2(c) == c.oneshot /\ c.ladder

v2Pct(sig, c) ==
  IF sig.bands = NoBands THEN Unknown
  ELSE IF sig.candle = 0
       THEN pctFromBands(sig.cost, sig.bands, IF LADDER_V2(c) THEN NC_PCTS_HOSTED ELSE NC_PCTS_LEGACY)
  ELSE IF sig.candle \in {15, 60} THEN pctFromBands(sig.cost, sig.bands, CANDLE_PCTS) ELSE 0

sportsAdoptPct(hisUsd, who) ==
  pctFromBands(hisUsd, IF who = "hot2trot" THEN <<250000, 160000, 80000, 30000>>
                                           ELSE <<180000, 120000, 70000, 30000>>,
               <<40, 30, 20, 10>>)

\* Candles: 30, 60 and 90 percent of his usual position, or one trigger.
targetPctForHolding(his, baseline, oneShot) ==
  IF his <= 0 \/ baseline <= 0 THEN 0
  ELSE IF oneShot THEN IF 2 * his >= baseline THEN 20 ELSE 0
  ELSE IF 10 * his >= 9 * baseline THEN 45 ELSE IF 10 * his >= 6 * baseline THEN 30
  ELSE IF 10 * his >= 3 * baseline THEN 15 ELSE 0

(***************************************************************************)
(* One order for the whole position: the floor lifts a small one, the cap  *)
(* of 7 percent wins over the floor, and an order below the venue's        *)
(* minimum is none.                                                        *)
(***************************************************************************)
Capped(want, floor, port) ==
  LET usd == Lesser(Greater(want, floor), 70 * port) IN IF usd < MIN_ORDER_USD THEN 0 ELSE usd

\* What he still holds of what he put in exceeds the median of his trades.
Conviction(sig) ==
  IF sig.peak > 0 THEN sig.cost * Lesser(sig.shares, sig.peak) > sig.median * sig.peak
  ELSE sig.cost > sig.median

Graded(sig, port) == Lesser(70 * port, (70 * sig.cost * port) \div sig.anchor)

oneShotTarget(sig, port) ==
  IF port <= 0 THEN 0
  ELSE IF sig.median > 0 THEN IF Conviction(sig) THEN Capped(30 * port, 4000, port) ELSE 0
  ELSE IF sig.cost > 0 /\ sig.anchor > 0 THEN Capped(Graded(sig, port), 4000, port)
  ELSE IF sig.tier >= 20 THEN Capped(30 * port, 5000, port) ELSE 0

\* Five beats, each of at least the minimum order, for every fifth of his
\* usual position.
Beat(c, port) == Greater(MIN_ORDER_USD, (c.unit * port) \div 5)

Beats(w) == IF w.avg > 0 /\ w.cost > 0 THEN (5 * w.cost) \div w.avg ELSE 0

beatTarget(sig, c, port) ==
  Lesser(MapThenSumSet(Beats, sig.whales) * Beat(c, port),
         Greater(5 * Beat(c, port), (c.unit + 5) * port))

\* An override that cannot be read is no override.
minPortfolioUsd(c) == IF c.minPort > 0 THEN c.minPort ELSE 55

UnderFloor(c, port) == c.oneshot /\ port < minPortfolioUsd(c)

targetUsd(sig, c, port) ==
  IF UnderFloor(c, port) THEN 0
  ELSE IF c.candles /\ sig.candle # 0 THEN targetPctForHolding(sig.cost, sig.avg, ~c.tiers) * port
  ELSE IF c.oneshot THEN oneShotTarget(sig, port)
  ELSE beatTarget(sig, c, port)

v2Target(sig, c, port) ==
  LET pct == IF v2Pct(sig, c) = Unknown THEN sig.tier ELSE v2Pct(sig, c) IN
  IF UnderFloor(c, port) \/ pct <= 0 THEN 0 ELSE Greater(V2_FLOOR_USD, pct * port)

sizeFor(sig, c, port) ==
  LET resolved == IF sig.tier # Unknown THEN sig.tier ELSE sportsAdoptPct(sig.cost, sig.who) IN
  IF c.v2 THEN v2Target(sig, c, port)
  ELSE IF c.oneshot THEN targetUsd(sig, c, port)
  ELSE IF sig.category = "SPORTS"
       THEN IF resolved <= 0 THEN 0 ELSE Greater(MIN_ORDER_USD, resolved * port)
  ELSE IF sig.kind = "adopt" THEN Greater(MIN_ORDER_USD, 10 * port)
  ELSE targetUsd(sig, c, port)

positionCeil(c, port) == Greater(MIN_ORDER_USD, (IF LADDER_V2(c) THEN 65 ELSE 50) * port)

addFloorUsd(c) == IF LADDER_V2(c) THEN V2_FLOOR_USD ELSE MIN_ORDER_USD

v2ReserveBlocked(sig, c, port, cash, usd) ==
  /\ c.v2 /\ sig.candle = 0 /\ port > 0
  /\ \/ c.reserve[1] > 0 /\ cash < c.reserve[1] * port
     \/ c.reserve[2] > 0 /\ cash - usd < c.reserve[2] * port

\* The sign gate's own view of the portfolio, from cash and marked positions;
\* what is not known, or old, refuses nothing.
floorGuardVerdict(cash, value, fresh, floor, margin) ==
  IF cash = Unknown \/ value = Unknown \/ ~fresh THEN "unknown"
  ELSE IF cash + value < floor - margin THEN "deny" ELSE "allow"

(***************************************************************************)
(* The time window of an opening.                                          *)
(***************************************************************************)
clockExt(sig, c) ==
  IF ~c.clock THEN 0 ELSE IF sig.class = "esports" THEN 240
  ELSE IF sig.class = "sports" THEN 120 ELSE 0

outsideV2Window(sig, c) ==
  /\ c.v2 /\ sig.candle = 0 /\ sig.timed
  /\ sig.left + clockExt(sig, c) \notin 15..180

tooLateV2(sig, c) ==
  c.v2 /\ sig.candle = 0 /\ sig.timed /\ sig.left + clockExt(sig, c) < 15

sportsWindowClosed(sig) == sig.category = "SPORTS" /\ sig.timed /\ sig.left < 10

(***************************************************************************)
(* The prices of an order.                                                 *)
(***************************************************************************)
\* An opening more than a fifth, and 5c, away from his average comes too late;
\* the second leg of a pair is never too late.
tooFarFromHisEntry(sig, px, sibling) ==
  /\ ~(sig.pair /\ sibling) /\ sig.his \in 1..99
  /\ 5 * (IF px > sig.his THEN px - sig.his ELSE sig.his - px) > Greater(sig.his, 25)

addCapFor(sig) ==
  IF sig.kind = "adopt" /\ sig.his > 0 THEN Lesser(97, sig.his + 20) ELSE 97

\* The profile high-capture keeps the ceiling and drops the bands of strategy.
Strategy(c) == ~c.hc

\* A game that has begun is copied near his average only.
inPlayBand(sig, c, b) ==
  IF c.oneshot /\ sig.candle = 0 /\ sig.timed /\ sig.left <= 0 /\ sig.his > 0
  THEN [cap |-> Lesser(b.cap, sig.his + 20), floor |-> Greater(b.floor, sig.his - 20)]
  ELSE b

entryBand(sig, c) ==
  LET sports == sig.category = "SPORTS"
      capMax == Lesser(IF c.v2 THEN 97 ELSE 99, IF sports THEN 99 ELSE 92)
      normal == IF sig.pair THEN [cap |-> Lesser(99, sig.maxEntry), floor |-> 1]
                ELSE [cap |-> Lesser(capMax, sig.maxEntry), floor |-> IF sports THEN 3 ELSE 10] IN
  IF Strategy(c) \/ sig.pair THEN inPlayBand(sig, c, normal) ELSE [cap |-> 97, floor |-> 1]

EntryPrice(sig, c, px, sibling) ==
  /\ px \in entryBand(sig, c).floor..entryBand(sig, c).cap
  /\ Strategy(c) /\ (c.oneshot \/ c.v2) => ~tooFarFromHisEntry(sig, px, sibling)

\* The limit of a top-up, and the prices it accepts.
AddCap(sig, c) == IF Strategy(c) THEN addCapFor(sig) ELSE 97

AddPrice(sig, c, px) == px \in (IF Strategy(c) THEN 5 ELSE 1)..AddCap(sig, c)

\* What an order for so many mills comes to at its limit: whole shares, and at
\* least as many as make a dollar.
orderUsd(usd, cents) == 10 * cents * Greater((99 + cents) \div cents, usd \div (10 * cents))
=============================================================================
