----------------------------- MODULE EntryGate ------------------------------
(***************************************************************************)
(* What stands between an engine and a BUY (bot.mjs): the account settings *)
(* read at the head of each cycle, the engine flags maybeStartEngines()    *)
(* derives from them, the signed kill switch and the drawdown breaker; the *)
(* cycle's later steps, which give the engines the cash and the sizing     *)
(* they cannot trade without; and one engine, whose pass over the signals  *)
(* reads the flag once at its start and its cash before every order.       *)
(***************************************************************************)
EXTENDS Drawdown

CONSTANTS MaxRestarts

ASSUME GateBounds == MaxRestarts \in Nat

VARIABLES
  worth,       \* what the account is worth now
  cycle,       \* "account", "read" or "rest": what the cycle does next;
               \* "off": no process runs
  copytrade,   \* the engine flag
  ddHalt,      \* the latch as the last check of this process reported it
  entriesHalt, \* the platform's entries-only halt
  cash,        \* "none", "ok", or "short" (no order fits it)
  sizing,      \* the sizing settings are there
  engine,      \* "idle", "pass" (over its signals) or "order" (being placed)
  enabled,     \* history: the last account answer had the bot enabled
  checked,     \* history: this process has run the drawdown check
  unread,      \* history: this process could not read its drawdown file
  restarts

gateVars == <<cycle, copytrade, ddHalt, entriesHalt, cash, sizing, engine,
              enabled, checked>>
vars == <<ddVars, gateVars, worth, unread, restarts>>

TypeOK ==
  /\ DrawdownTypeOK /\ worth \in Levels
  /\ cycle \in {"off", "account", "read", "rest"}
  /\ cash \in {"none", "ok", "short"} /\ engine \in {"idle", "pass", "order"}
  /\ {copytrade, ddHalt, entriesHalt, sizing, enabled, checked, unread} \subseteq BOOLEAN
  /\ restarts \in 0..MaxRestarts

\* An account without samples or with some, and a latch of the first release
\* or none: the file before the first process of this release.
Init ==
  /\ worth \in Levels /\ restarts = 0 /\ unread = FALSE
  /\ samples \in [Ages -> Levels] /\ latch \in {NoLatch, Legacy}
  /\ cycle = "off" /\ copytrade = FALSE /\ ddHalt = FALSE
  /\ entriesHalt = FALSE /\ cash = "none" /\ sizing = FALSE
  /\ engine = "idle" /\ enabled = TRUE /\ checked = FALSE

(***************************************************************************)
(* The cycle.                                                              *)
(***************************************************************************)
\* Mutant of PausedCash: a stop leaves the engines their last balance.
PausedCashKept == cash

PausedCash == "none"

WantCopy(on, flag, fleet) == flag /\ on /\ ~fleet /\ ~ddHalt

\* cosmos.account() answered: the flags, then the master stop, which ends
\* the cycle and takes cash and sizing away.  on and flag are the settings
\* bot_enabled and copytrade, halt entries_halt; fleet is the signed switch.
Account(on, flag, halt, fleet) ==
  /\ cycle = "account"
  /\ copytrade' = WantCopy(on, flag, fleet)
  /\ entriesHalt' = halt /\ enabled' = on
  /\ IF on THEN cycle' = "read" /\ UNCHANGED <<cash, sizing>>
     ELSE cash' = PausedCash /\ sizing' = FALSE /\ UNCHANGED cycle
  /\ UNCHANGED <<ddVars, worth, ddHalt, engine, checked, unread, restarts>>

\* The wallet was read: cash, then at once the breaker.
ReadPortfolio(c) ==
  /\ cycle = "read" /\ cycle' = "rest"
  /\ cash' = c
  /\ DrawdownCheck(worth)
  /\ ddHalt' = latch'.on /\ checked' = TRUE
  /\ UNCHANGED <<worth, copytrade, entriesHalt, sizing, engine, enabled,
                 unread, restarts>>

\* Mutant of SizingStep: the sizing is taken as soon as the account answers.
SizeEarly ==
  /\ cycle \in {"read", "rest"} /\ sizing' = TRUE
  /\ cycle' = IF cycle = "rest" THEN "account" ELSE "read"
  /\ cash' = IF cash = "none" THEN "ok" ELSE cash

SizingStep ==
  /\ cycle = "rest" /\ cycle' = "account"
  /\ sizing' = TRUE /\ UNCHANGED cash

Rest ==   \* exits, then the sizing and the end of the cycle
  /\ SizingStep
  /\ UNCHANGED <<ddVars, worth, copytrade, ddHalt, entriesHalt, engine,
                 enabled, checked, unread, restarts>>

\* Any await of the cycle may throw; the next cycle begins anew.
CycleThrows ==
  /\ cycle \in {"read", "rest"} /\ cycle' = "account"
  /\ UNCHANGED <<ddVars, worth, copytrade, ddHalt, entriesHalt, cash, sizing,
                 engine, enabled, checked, unread, restarts>>

(***************************************************************************)
(* An engine's pass and its orders (the tick of copytrade.mjs, buyLocked). *)
(***************************************************************************)
PassStarts ==
  /\ engine = "idle" /\ copytrade /\ cash # "none" /\ sizing
  /\ engine' = "pass"
  /\ UNCHANGED <<ddVars, worth, cycle, copytrade, ddHalt, entriesHalt, cash,
                 sizing, enabled, checked, unread, restarts>>

\* realUsd > (state.cash ?? 0) turns an order down.
OrderStarts ==
  /\ engine = "pass" /\ cash = "ok" /\ engine' = "order"
  /\ UNCHANGED <<ddVars, worth, cycle, copytrade, ddHalt, entriesHalt, cash,
                 sizing, enabled, checked, unread, restarts>>

\* placeWithRetry and placeOrder look at the two halts again; a fill is
\* subtracted from a cash that a stop may have taken away meanwhile (null
\* minus a fill is a negative number, which no order fits).
OrderEnds(fleet) ==
  /\ engine = "order" /\ engine' = "pass"
  /\ \/ cash' = cash
     \/ ~entriesHalt /\ ~fleet /\ cash' = (IF cash = "none" THEN "short" ELSE cash)
     \/ ~entriesHalt /\ ~fleet /\ cash' = "short"
  /\ UNCHANGED <<ddVars, worth, cycle, copytrade, ddHalt, entriesHalt, sizing,
                 enabled, checked, unread, restarts>>

PassEnds ==
  /\ engine = "pass" /\ engine' = "idle"
  /\ UNCHANGED <<ddVars, worth, cycle, copytrade, ddHalt, entriesHalt, cash,
                 sizing, enabled, checked, unread, restarts>>

(***************************************************************************)
(* The world.                                                              *)
(***************************************************************************)
Worth(v) ==      \* the market, a deposit or a withdrawal
  /\ worth' = v /\ UNCHANGED <<ddVars, gateVars, unread, restarts>>

Tick ==
  /\ DrawdownAges /\ UNCHANGED <<gateVars, worth, unread, restarts>>

\* An update, a crash, the cycle watchdog: what is left is the file, and
\* the locals are those of a process that just started.
Stops ==
  /\ cycle # "off" /\ cycle' = "off"
  /\ restarts < MaxRestarts /\ restarts' = restarts + 1
  /\ copytrade' = FALSE /\ ddHalt' = FALSE /\ entriesHalt' = FALSE
  /\ cash' = "none" /\ sizing' = FALSE /\ engine' = "idle"
  /\ enabled' = TRUE /\ checked' = FALSE
  /\ UNCHANGED <<ddVars, worth, unread>>

\* drawdown.mjs is imported, then the first cycle begins.
Start ==
  /\ cycle = "off" /\ cycle' = "account"
  /\ \/ DrawdownLoads /\ unread' = FALSE
     \/ DrawdownUnread /\ unread' = TRUE
  /\ UNCHANGED <<worth, copytrade, ddHalt, entriesHalt, cash, sizing, engine,
                 enabled, checked, restarts>>

Next ==
  \/ \E on, flag, halt, fleet \in BOOLEAN : Account(on, flag, halt, fleet)
  \/ \E c \in {"ok", "short"} : ReadPortfolio(c)
  \/ Rest \/ CycleThrows
  \/ PassStarts \/ OrderStarts \/ PassEnds
  \/ \E fleet \in BOOLEAN : OrderEnds(fleet)
  \/ \E v \in Levels : Worth(v)
  \/ Tick \/ Stops \/ Start

\* Time passes, and cycles come to read the portfolio again and again.
Fairness == WF_vars(Tick) /\ SF_vars(\E c \in {"ok", "short"} : ReadPortfolio(c))
            /\ WF_vars(\E flag, halt, fleet \in BOOLEAN :
                         Account(TRUE, flag, halt, fleet))
            /\ WF_vars(Rest) /\ WF_vars(Start)

Spec == Init /\ [][Next]_vars /\ Fairness

(***************************************************************************)
(* Properties.                                                             *)
(***************************************************************************)

\* After a cycle saw the dashboard Stop no order is begun, not even by the
\* pass over the signals that was under way: the stop takes the cash.
NoOrderAfterStop ==
  [][engine = "pass" /\ engine' = "order" => enabled]_vars

\* No engine trades in a process whose breaker has not yet looked at the
\* portfolio: a restart in the middle of a drawdown opens no window before
\* the first check.
EntriesFollowACheck == TypeOK /\ (engine # "idle" => checked)

\* A latch with its basis (drawdown-rule.mjs 41-46) ends by recovery or by
\* age, at a check of the portfolio and never because a process restarts and
\* reads it back, as long as the file can be read.  A latch of the first
\* release, which has no basis, may also end when it is loaded, for want of a
\* sample that reaches MIN_PORT or because the newest sample had recovered:
\* that one may be as old as the file (drawdown.mjs 41-47).
LatchSurvivesRestart ==
  [][latch.on /\ ~latch'.on =>
       \/ cycle = "read" /\ (latch.age > Window \/ Clears(worth, latch.high))
       \/ cycle = "off" /\ (unread' \/ (~HasBasis(latch) /\ LegacyEnds))]_vars

\* A flat account is not halted for ever: whatever it is worth, if it stays
\* so the latch goes (the accounts under MIN_PORT once had no way out).
FlatAccountsResume ==
  \A v \in Levels : <>[](worth = v) => []<>~latch.on
=============================================================================
