----------------------------- MODULE CycleRules -----------------------------
(***************************************************************************)
(* What the trading cycle (bot.mjs) decides from the numbers in front of   *)
(* it, without an await: what ends a position, and what an entry of the    *)
(* main feed costs.  Prices are cents, -1 is a price nobody answered;      *)
(* money is cents too, sizes and balances that come in are dollars; a      *)
(* setting that is not set is 0.                                           *)
(***************************************************************************)
EXTENDS Integers, Sequences

NoPrice == -1
Less(a, b) == IF a < b THEN a ELSE b
More(a, b) == IF a > b THEN a ELSE b

\* Curated by the platform: never burned for a price or for one refusal.
ENGINE_SOURCES == {"quant", "weather", "sports", "top5"}

(***************************************************************************)
(* Exits.                                                                  *)
(***************************************************************************)
oneShotCopy(src, c) == c.hosted /\ src = "copytrade"

tpCents(src, c) ==
  CASE oneShotCopy(src, c) -> IF c.v2 THEN 99 ELSE 98
    [] src \in {"quant", "qtable"} -> 99
    [] src = "weather" -> 98
    [] OTHER -> 97

\* The bid is read only near the edges, or when there is no midpoint.
bidRead(cur, bid) == IF cur >= 90 \/ cur <= 12 THEN bid ELSE NoPrice

\* TAKE_PROFIT looks at the midpoint or the bid, but what a sale would execute
\* at must clear the entry; STOP_LOSS is the salvage a one-shot does not have.
edgeExit(src, cur, bid, entry, c) ==
  LET exec == IF bid # NoPrice THEN bid ELSE cur IN
  CASE \/ cur >= tpCents(src, c) /\ exec >= entry + 1
       \/ bid >= tpCents(src, c) /\ bid >= entry + 1 -> "TAKE_PROFIT"
    [] /\ ~oneShotCopy(src, c)
       /\ \/ cur # NoPrice /\ cur <= 3
          \/ bid # NoPrice /\ bid <= 3 /\ cur <= 10 -> "STOP_LOSS"
    [] cur = NoPrice /\ bid = NoPrice -> "HOLD"
    [] OTHER -> "none"

\* A market: days to its end (0: no date), the side, and what it asks.
horizonVerdict(h, cur, entry) ==
  /\ h.days > 0
  /\ \/ h.no /\ h.deadline /\ h.days > 14
     \/ h.scheduled /\ h.days > 30
     \/ h.days > 90 /\ (cur = NoPrice \/ cur <= entry + 2)

\* The model's win probability in percent, minutes to the expiry, the bid.
quantStopFires(modelP, tau, bid) ==
  tau >= 15 /\ modelP < 30 /\ bid # NoPrice /\ bid >= modelP + 8

localTp(s, entry, cur) ==
  /\ cur > 0 /\ s.tp_value > 0
  /\ \/ s.tp_mode = "fixed" /\ cur >= s.tp_value
     \/ s.tp_mode = "percent" /\ (cur - entry) * 100 >= s.tp_value * entry

localSl(s, entry, cur) ==
  /\ cur > 0 /\ s.sl_value > 0
  /\ \/ s.sl_mode = "fixed" /\ cur <= s.sl_value
     \/ s.sl_mode = "percent" /\ (entry - cur) * 100 >= s.sl_value * entry

\* ai is the verdict of the cycle's one batch call, "none" when it failed:
\* then the side it decides holds.
decideExit(s, entry, cur, ai) ==
  CASE \/ s.tp_mode = "ai" /\ ai = "TAKE_PROFIT"
       \/ s.tp_mode # "ai" /\ localTp(s, entry, cur) -> "TAKE_PROFIT"
    [] \/ s.sl_mode = "ai" /\ ai = "STOP_LOSS"
       \/ s.sl_mode # "ai" /\ localSl(s, entry, cur) -> "STOP_LOSS"
    [] OTHER -> "HOLD"

\* After the edges: the sources with rules of their own hold, the horizon stop
\* comes before the account's settings.  "ask" is the sports server.
genericExit(src, edge, cur, entry, c, s, h, ai) ==
  CASE \/ edge = "HOLD"
       \/ src = "copytrade" /\ c.v2 -> "HOLD"
    [] edge # "none" -> edge
    [] src \in {"weather", "qtable", "copytrade"} -> "HOLD"
    [] horizonVerdict(h, cur, entry) -> "STOP_LOSS"
    [] src = "sports" -> "ask"
    [] OTHER -> decideExit(s, entry, cur, ai)

(***************************************************************************)
(* Entries.                                                                *)
(***************************************************************************)
DEFAULT_PCT == 5
MIN_TRADE_USD == 200      \* in cents, as every size below

FirstSet(s) == s[CHOOSE i \in DOMAIN s : s[i] > 0 /\ \A j \in 1..i-1 : s[j] <= 0]

pctOf(z) ==
  IF z.mode = "tiered" THEN FirstSet(<<z.platinum, z.gold, z.pct, DEFAULT_PCT>>)
  ELSE FirstSet(<<z.pct, z.platinum, z.gold, DEFAULT_PCT>>)

Cap(usd, limit) == IF limit > 0 THEN Less(usd, limit * 100) ELSE usd

sizeForSignal(z, weatherYes, portfolio, deployed) ==
  LET basis == IF z.accountSizeUsd > 0 THEN z.accountSizeUsd ELSE portfolio
      full  == IF z.mode = "fixed" THEN z.fixedUsd * 100 ELSE basis * pctOf(z)
      usd   == Cap(IF weatherYes THEN (3 * full) \div 4 ELSE full, z.maxPerTradeUsd) IN
  IF z.maxExposurePct > 0
  THEN Less(usd, More(0, basis * z.maxExposurePct - deployed * 100)) ELSE usd

\* The size an entry is tried with: lifted to the minimum when the exposure cap
\* has room for it, none when there is no room or no cash.
entryUsd(z, weatherYes, portfolio, deployed, remaining) ==
  LET usd  == sizeForSignal(z, weatherYes, portfolio, deployed)
      room == z.maxExposurePct = 0
              \/ portfolio * z.maxExposurePct - deployed * 100 >= MIN_TRADE_USD
      want == IF usd < MIN_TRADE_USD /\ room THEN MIN_TRADE_USD ELSE usd IN
  IF want < MIN_TRADE_USD \/ want > remaining * 100 THEN 0 ELSE want

\* A live price against the signal's cap and its alert: buy, come back later,
\* or never again.
entryVerdict(src, mid, sig) ==
  CASE mid > sig.max -> IF src \in ENGINE_SOURCES THEN "retry" ELSE "burn"
    [] \/ mid < 5
       \/ src \notin ENGINE_SOURCES /\ sig.alert > 0 /\ 10 * mid < 9 * sig.alert -> "retry"
    [] OTHER -> "buy"

buyPrice(mid, sig) == Less(Less(98, sig.max), mid + 3)

ceilDiv(a, b) == (a + b - 1) \div b
sharesFor(usd, price) == usd \div More(1, price)
sharesBought(usd, price) == More(ceilDiv(100, price), sharesFor(usd, price))

=============================================================================
