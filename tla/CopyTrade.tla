----------------------------- MODULE CopyTrade ------------------------------
(***************************************************************************)
(* The copy-trade entry engine of one bot (copytrade.mjs) and the file it  *)
(* shares; CopySizing has what an order is sized and priced by.            *)
(* Several evaluations run at once in one process: the polled tick, which  *)
(* walks its feed, and one fastOpen for every whale fill.  Each loads      *)
(* positions.json, awaits a price, perhaps a book, then the order, and     *)
(* writes ITS snapshot of the whole file back.  The trading cycle          *)
(* (bot.mjs) does the same: it reconciles the file with the wallet and     *)
(* sells.  seen holds the markets opened once, which are never reopened.   *)
(* A market here has one side.                                             *)
(***************************************************************************)
EXTENDS CopySizing, FiniteSets

CONSTANTS
  Markets, None,
  Fasts,          \* concurrent fastOpen calls
  Signals, Profiles, Portfolios,  \* see CopySizing
  Fills,          \* whale fills a top-up may be traced to
  MaxOrders, MaxRestarts

ASSUME CopyBounds ==
  /\ Portfolios \subseteq Nat
  /\ MaxOrders \in Nat /\ MaxRestarts \in Nat
  /\ IsFiniteSet(Fasts) /\ "tick" \notin Fasts /\ None \notin Fills

\* Whatever a signal, a profile and a portfolio hold, a size comes out.
ASSUME SizesAreNumbers ==
  \A sig \in Signals, c \in Profiles, port \in Portfolios : sizeFor(sig, c, port) \in Int

Buyers == Fasts \cup {"tick"}

VARIABLES
  file,      \* positions.json: None or [usd, own, done]
  held,      \* the wallet: what was paid for the shares it holds
  seen, seenFile,      \* markets opened once, in memory and on disk
  cooldown,  \* recentBuy entries still young
  inFlight,  \* inFlightBuys
  noBook,    \* noBookUntil memos
  paused,    \* Date.now() < budgetPausedUntil
  backoff,   \* Date.now() < venueBackoffUntil
  pc, job, snap, todo, \* each evaluation: step, order, snapshot, signals left
  cyc,       \* the cycle: its step, snapshot and the wallet it read
  orders, opens, restarts,  \* history: orders sent, open fills per market
  unheard    \* history: open fills per market that were taken for failures

shop == <<seen, seenFile, cooldown, inFlight, noBook, paused, backoff>>
local == <<pc, job, snap, todo>>
hist == <<orders, opens, restarts, unheard>>
vars == <<file, held, shop, local, cyc, hist>>

\* All a decision takes from a signal, under the profile and the portfolio of
\* the moment: the size, and the limit price of an opening and of a top-up, if
\* they find a price.  A one-shot never follows him up; the v2 strategy never
\* after an exit.
Quote(sig, c, port) ==
  [target |-> sizeFor(sig, c, port), ceil |-> positionCeil(c, port),
   floor  |-> addFloorUsd(c), ladder |-> LADDER_V2(c), rebuys |-> ~c.v2,
   opens  |-> {cents \in 1..99 : /\ cents = entryBand(sig, c).cap
                                 /\ c.oneshot \/ ~sportsWindowClosed(sig)
                                 /\ ~outsideV2Window(sig, c)
                                 /\ \E px \in 1..99 : EntryPrice(sig, c, px, FALSE)},
   adds   |-> {cents \in 1..99 : /\ cents = AddCap(sig, c)
                                 /\ c.oneshot \/ ~sportsWindowClosed(sig)
                                 /\ c.oneshot => c.v2
                                 /\ \E px \in 1..99 : AddPrice(sig, c, px)}]

Quotes == {Quote(sig, c, port) : sig \in Signals, c \in Profiles, port \in Portfolios}

Amounts == Nat
Position == [usd : Amounts, own : {"copytrade", "adopted"}, done : SUBSET Fills]
Files == [Markets -> Position \cup {None}]
Job == [m : Markets, kind : {"open", "add"}, usd : Nat \ {0}, src : Fills \cup {None}]

TypeOK ==
  /\ file \in Files /\ held \in [Markets -> Amounts]
  /\ {seen, seenFile, cooldown, inFlight, noBook} \subseteq SUBSET Markets
  /\ {paused, backoff} \subseteq BOOLEAN
  /\ pc \in [Buyers -> {"idle", "feed", "scan", "price", "book", "order", "filled"}]
  /\ \A b \in Buyers : /\ job[b] \in Job \cup {None}
                       /\ snap[b] \in Files \cup {None}
                       /\ todo[b] \subseteq Markets
  /\ cyc.at \in {"idle", "read", "exits"}
  /\ orders \in 0..MaxOrders
  /\ {opens, unheard} \subseteq [Markets -> 0..MaxOrders]
  /\ restarts \in 0..MaxRestarts

IdleCycle == [at |-> "idle", snap |-> None, wallet |-> None]

Init ==
  /\ file = [m \in Markets |-> None] /\ held = [m \in Markets |-> 0]
  /\ seen = {} /\ seenFile = {}
  /\ cooldown = {} /\ inFlight = {} /\ noBook = {} /\ paused = FALSE
  /\ backoff = FALSE
  /\ pc = [b \in Buyers |-> "idle"] /\ job = [b \in Buyers |-> None]
  /\ snap = [b \in Buyers |-> None] /\ todo = [b \in Buyers |-> {}]
  /\ cyc = IdleCycle
  /\ orders = 0 /\ restarts = 0
  /\ opens = [m \in Markets |-> 0] /\ unheard = [m \in Markets |-> 0]

(***************************************************************************)
(* What an evaluation decides from its snapshot, before any await.         *)
(***************************************************************************)
Sized(q) == Lesser(q.target, q.ceil)

\* Mutant of TopUp: every tier buys its whole size.
TopUpAdditive(q, p) == Sized(q)

TopUp(q, p) == Sized(q) - p.usd

\* The position a signal would top up: the tick only its own, the fast path
\* any position on the same side.
Mine(b, p) == p # None /\ (b = "tick" => p.own = "copytrade")

seenSource(p, src) == src \in p.done

\* The order a signal (its quote q, the fill src behind it, the ladder already
\* sold or not) leads to, from the snapshot s: its usd are those of the shares
\* it will ask for.  A skip is the empty set.
Decisions(b, m, s, q, src, sold) ==
  LET p == s[m] IN
  IF m \in cooldown \/ q.target < MIN_ORDER_USD THEN {}
  ELSE IF Mine(b, p)
  THEN {[m |-> m, kind |-> "add", usd |-> orderUsd(TopUp(q, p), cents), src |-> src] :
          cents \in {c \in q.adds : /\ (sold => q.rebuys) /\ TopUp(q, p) >= q.floor
                                    /\ src # None => q.ladder /\ ~seenSource(p, src)}}
  ELSE {[m |-> m, kind |-> "open", usd |-> orderUsd(Sized(q), cents), src |-> None] :
          cents \in {c \in q.opens : p = None /\ m \notin seen}}

\* The evaluation is over: the tick goes on with its snapshot, a fast path
\* returns.
Over(b) ==
  /\ pc' = [pc EXCEPT ![b] = IF b = "tick" THEN "scan" ELSE "idle"]
  /\ job' = [job EXCEPT ![b] = None]
  /\ snap' = [snap EXCEPT ![b] = IF b = "tick" THEN @ ELSE None]
  /\ UNCHANGED todo

(***************************************************************************)
(* The two entry paths, up to the await of the price.                      *)
(***************************************************************************)
FastOpen(b, m) ==
  /\ pc[b] = "idle" /\ ~paused
  /\ \E q \in Quotes, src \in Fills \cup {None}, sold \in BOOLEAN :
       \E j \in Decisions(b, m, file, q, src, sold) :
         /\ pc' = [pc EXCEPT ![b] = "price"] /\ job' = [job EXCEPT ![b] = j]
         /\ snap' = [snap EXCEPT ![b] = file] /\ UNCHANGED todo
  /\ UNCHANGED <<file, held, shop, cyc, hist>>

TickStarts ==    \* the switches, then the await of the feed and the roster
  /\ pc["tick"] = "idle" /\ ~paused
  /\ pc' = [pc EXCEPT !["tick"] = "feed"]
  /\ UNCHANGED <<file, held, shop, job, snap, todo, cyc, hist>>

TickLoads ==      \* a feed that lists a market or not: see the skips below
  /\ pc["tick"] = "feed"
  /\ pc' = [pc EXCEPT !["tick"] = "scan"]
  /\ snap' = [snap EXCEPT !["tick"] = file]
  /\ todo' = [todo EXCEPT !["tick"] = Markets]
  /\ UNCHANGED <<file, held, shop, job, cyc, hist>>

\* One signal of the loop: skipped by a filter (roster, hub, Stage 4 marker,
\* window, rate limit) or by the decision, or taken to its price.  A tier
\* crossing of a position already held is written down at once.
TickSignal(m) ==
  /\ pc["tick"] = "scan" /\ m \in todo["tick"]
  /\ todo' = [todo EXCEPT !["tick"] = @ \ {m}]
  /\ \/ /\ UNCHANGED <<pc, job>>
        /\ file' \in {file} \cup (IF Mine("tick", snap["tick"][m]) /\ m \notin cooldown
                                  THEN {snap["tick"]} ELSE {})
     \/ \E q \in Quotes, src \in Fills \cup {None}, sold \in BOOLEAN :
          \E j \in Decisions("tick", m, snap["tick"], q, src, sold) :
            /\ pc' = [pc EXCEPT !["tick"] = "price"]
            /\ job' = [job EXCEPT !["tick"] = j]
            /\ file' \in {file} \cup (IF j.kind = "add" THEN {snap["tick"]} ELSE {})
  /\ UNCHANGED <<held, shop, snap, cyc, hist>>

TickEnds ==
  /\ pc["tick"] = "scan" /\ todo["tick"] = {}
  /\ pc' = [pc EXCEPT !["tick"] = "idle"]
  /\ snap' = [snap EXCEPT !["tick"] = None]
  /\ UNCHANGED <<file, held, shop, job, todo, cyc, hist>>

(***************************************************************************)
(* buy() and buyLocked().                                                  *)
(***************************************************************************)
\* Mutant of Claimed: the lock is taken but never looked at.
ClaimedNever(m) == FALSE

Claimed(m) == m \in inFlight

\* The claim of the market and the order, without an await between them; or
\* a refusal: the market is claimed, the portfolio is under the local floor,
\* the cash does not do.
ClaimAndSend(b) ==
  LET m == job[b].m IN
  \/ /\ ~Claimed(m) /\ orders < MaxOrders
     /\ inFlight' = inFlight \cup {m} /\ cooldown' = cooldown \cup {m}
     /\ orders' = orders + 1
     /\ pc' = [pc EXCEPT ![b] = "order"]
     /\ UNCHANGED <<job, snap, todo>>
  \/ Over(b) /\ UNCHANGED <<inFlight, cooldown, orders>>

NoPrice(b) ==    \* no price in the band, the price gate, or the backoff
  /\ pc[b] = "price" /\ Over(b)
  /\ UNCHANGED <<file, held, shop, cyc, hist>>

Buy(b) ==
  /\ pc[b] = "price" /\ ~backoff
  /\ IF job[b].m \in noBook
     THEN pc' = [pc EXCEPT ![b] = "book"]
          /\ UNCHANGED <<job, snap, todo, inFlight, cooldown, orders>>
     ELSE ClaimAndSend(b)
  /\ UNCHANGED <<file, held, seen, seenFile, noBook, paused, backoff, cyc, opens, restarts,
                 unheard>>

BookRead(b, usable) ==
  /\ pc[b] = "book"
  /\ IF usable THEN noBook' = noBook \ {job[b].m} /\ ClaimAndSend(b)
     ELSE Over(b) /\ UNCHANGED <<noBook, inFlight, cooldown, orders>>
  /\ UNCHANGED <<file, held, seen, seenFile, paused, backoff,
                 cyc, opens, restarts, unheard>>

\* What the venue sold of the order of job j.
Taken(j, usd) ==
  /\ held' = [held EXCEPT ![j.m] = @ + usd]
  /\ opens' = [opens EXCEPT ![j.m] = IF usd > 0 /\ j.kind = "open" THEN @ + 1 ELSE @]

\* The venue fills the order, whole or all but a rest; the bot does not know yet.
VenueFills(b, rest) ==
  LET usd == job[b].usd - rest IN
  /\ pc[b] = "order" /\ usd > 0 /\ Taken(job[b], usd)
  /\ pc' = [pc EXCEPT ![b] = "filled"] /\ job' = [job EXCEPT ![b].usd = usd]
  /\ UNCHANGED <<file, shop, snap, todo, cyc, orders, restarts, unheard>>

\* The answer is ok and cannot be read: it is taken for a fill of the whole
\* order, and it may have been nothing.
Unreadable(b, filled) ==
  /\ pc[b] = "order" /\ Taken(job[b], IF filled THEN job[b].usd ELSE 0)
  /\ pc' = [pc EXCEPT ![b] = "filled"]
  /\ UNCHANGED <<file, shop, job, snap, todo, cyc, orders, restarts, unheard>>

\* Mutant of MarkSeen: an open does not close the market for later ones.
MarkSeenNever(ok, j) == UNCHANGED <<seen, seenFile>>

MarkSeen(ok, j) ==
  IF ok /\ j.kind = "open" THEN seen' = seen \cup {j.m} /\ seenFile' = seen'
  ELSE UNCHANGED <<seen, seenFile>>

rememberSource(done, src) == IF src = None THEN done ELSE done \cup {src}

\* The fill is reported: the snapshot with the fill in it becomes the file.
Booked(b) ==
  LET j == job[b] old == snap[b][j.m] IN
  [snap[b] EXCEPT ![j.m] =
     IF j.kind = "open" THEN [usd |-> j.usd, own |-> "copytrade", done |-> {}]
     ELSE [old EXCEPT !.usd = @ + j.usd,
                      !.done = rememberSource(@, j.src)]]

Filled(b) ==
  /\ pc[b] = "filled"
  /\ file' = Booked(b) /\ MarkSeen(TRUE, job[b])
  /\ inFlight' = inFlight \ {job[b].m}
  /\ pc' = [pc EXCEPT ![b] = IF b = "tick" THEN "scan" ELSE "idle"]
  /\ job' = [job EXCEPT ![b] = None]
  /\ snap' = [snap EXCEPT ![b] = IF b = "tick" THEN file' ELSE None]
  /\ UNCHANGED <<held, cooldown, noBook, paused, backoff, todo,
                 cyc, hist>>

Release(m) == inFlight \ {m}

\* The order filled and the answer was lost, or left it open: a failure like
\* any other, of which nothing is written down.
AnswerLost(b) ==
  LET m == job[b].m IN
  /\ pc[b] = "order" /\ Over(b) /\ Taken(job[b], job[b].usd)
  /\ unheard' = [unheard EXCEPT ![m] = IF job[b].kind = "open" THEN @ + 1 ELSE @]
  /\ inFlight' = Release(m)
  /\ MarkSeen(FALSE, job[b])
  /\ UNCHANGED <<file, cooldown, noBook, paused, backoff, cyc, orders, restarts>>

\* The order is refused, or fills nothing.  code is the sign gate's verdict
\* or "closed", the venue's trading-is-disabled.  The third unreadable account
\* in a row pauses the entries as a spent budget does; the third market that
\* is closed within the window makes the engine back off: how many came
\* before is not counted here, either may or may not be the one.
Refused(b, code) ==
  LET m == job[b].m IN
  /\ pc[b] = "order" /\ Over(b)
  /\ inFlight' = Release(m)
  /\ noBook' = IF code = "no_book" THEN noBook \cup {m} ELSE noBook
  /\ paused' \in (CASE code = "budget" -> {TRUE}
                    [] code = "unreadable" -> {paused, TRUE}
                    [] OTHER -> {paused})
  /\ backoff' \in {backoff} \cup (IF code = "closed" THEN {TRUE} ELSE {})
  /\ MarkSeen(FALSE, job[b])
  /\ UNCHANGED <<file, held, cooldown, cyc, hist>>

(***************************************************************************)
(* Timers.                                                                 *)
(***************************************************************************)
Cools(m) ==
  /\ m \in cooldown /\ cooldown' = cooldown \ {m}
  /\ UNCHANGED <<file, held, seen, seenFile, inFlight, noBook, paused, backoff,
                 local, cyc, hist>>

MemoExpires(m) ==
  /\ m \in noBook /\ noBook' = noBook \ {m}
  /\ UNCHANGED <<file, held, seen, seenFile, cooldown, inFlight, paused, backoff,
                 local, cyc, hist>>

BreakersExpire ==
  /\ paused \/ backoff
  /\ paused' = FALSE /\ backoff' = FALSE
  /\ UNCHANGED <<file, held, seen, seenFile, cooldown, inFlight, noBook, local,
                 cyc, hist>>

(***************************************************************************)
(* The trading cycle's use of the file (bot.mjs).                          *)
(***************************************************************************)
CycleLoads ==    \* and the await of the wallet's holdings
  /\ cyc.at = "idle"
  /\ cyc' = [at |-> "read", snap |-> file, wallet |-> held]
  /\ UNCHANGED <<file, held, shop, local, hist>>

\* Mutant of Adopted: holdings the file does not list stay unknown.
AdoptedNot(m) == None

Adopted(m) == [usd |-> cyc.wallet[m], own |-> "adopted", done |-> {}]

Reconciled ==
  [m \in Markets |-> IF cyc.wallet[m] = 0 THEN None
                     ELSE IF cyc.snap[m] = None THEN Adopted(m) ELSE cyc.snap[m]]

CycleReconciles ==
  /\ cyc.at = "read"
  /\ file' = Reconciled /\ cyc' = [at |-> "exits", snap |-> file', wallet |-> None]
  /\ UNCHANGED <<held, shop, local, hist>>

CycleHoldingsFail ==    \* a failed read deletes nothing
  /\ cyc.at = "read" /\ cyc' = [cyc EXCEPT !.at = "exits", !.wallet = None]
  /\ UNCHANGED <<file, held, shop, local, hist>>

\* An exit of the cycle sells a position whole and saves its snapshot.
CycleSells(m) ==
  /\ cyc.at = "exits" /\ cyc.snap[m] # None /\ held[m] > 0
  /\ held' = [held EXCEPT ![m] = 0]
  /\ cyc' = [cyc EXCEPT !.snap[m] = None] /\ file' = cyc'.snap
  /\ UNCHANGED <<shop, local, hist>>

CycleEnds ==
  /\ cyc.at = "exits" /\ cyc' = IdleCycle
  /\ UNCHANGED <<file, held, shop, local, hist>>

Restart ==    \* an update, a crash, the watchdog
  /\ restarts < MaxRestarts /\ restarts' = restarts + 1
  /\ seen' = seenFile
  /\ cooldown' = {} /\ inFlight' = {} /\ noBook' = {} /\ paused' = FALSE
  /\ backoff' = FALSE
  /\ pc' = [b \in Buyers |-> "idle"] /\ job' = [b \in Buyers |-> None]
  /\ snap' = [b \in Buyers |-> None] /\ todo' = [b \in Buyers |-> {}]
  /\ cyc' = IdleCycle
  /\ UNCHANGED <<file, held, seenFile, orders, opens, unheard>>

Codes == {"no_book", "budget", "unreadable", "closed", "other"}

Next ==
  \/ \E b \in Fasts, m \in Markets : FastOpen(b, m)
  \/ TickStarts \/ TickLoads \/ TickEnds
  \/ \E m \in Markets : TickSignal(m) \/ Cools(m) \/ MemoExpires(m) \/ CycleSells(m)
  \/ \E b \in Buyers : \/ NoPrice(b) \/ Buy(b) \/ Filled(b) \/ AnswerLost(b)
                       \/ \E filled \in BOOLEAN : Unreadable(b, filled)
                       \/ \E usable \in BOOLEAN : BookRead(b, usable)
                       \/ \E rest \in {0, V2_FLOOR_USD} : VenueFills(b, rest)
                       \/ \E code \in Codes : Refused(b, code)
  \/ BreakersExpire
  \/ CycleLoads \/ CycleReconciles \/ CycleHoldingsFail \/ CycleEnds
  \/ Restart

Fairness ==
  /\ WF_vars(CycleLoads) /\ SF_vars(CycleReconciles) /\ WF_vars(CycleEnds)
  /\ \A b \in Buyers : WF_vars(Filled(b) \/ VenueFills(b, 0))

Spec == Init /\ [][Next]_vars /\ Fairness

(***************************************************************************)
(* Properties.                                                             *)
(***************************************************************************)
Placing(b, m) == pc[b] \in {"order", "filled"} /\ job[b].m = m

\* The in-flight lock is exact: a market is claimed while one order for it
\* is out, never by two, and never left claimed after it.
OneOrderInFlight ==
  \A m \in Markets : Cardinality({b \in Buyers : Placing(b, m)})
                       = (IF m \in inFlight THEN 1 ELSE 0)

\* How often a market is opened, with sales and re-adoptions between: once
\* by each evaluation that had passed the check before the first fill, and
\* once more for an order a crash left unrecorded and for each that filled
\* while it was taken for a failure (copytrade.mjs 775-852: no mark).
OpensBounded ==
  \A m \in Markets : opens[m] <= Cardinality(Buyers) + restarts + unheard[m]

\* What the shares of one order may come to above its dollars: two at 99c for
\* one dollar.  No order of the hosted ladder is so small.
Lift(q) == IF q.floor >= V2_FLOOR_USD /\ q.ceil >= V2_FLOOR_USD THEN 0 ELSE 980

\* Whatever stale snapshots the evaluations and the cycle write over each
\* other, no version of the file puts more of the engine's own into a position
\* than the ceiling of the best profile and portfolio it was ever sized for,
\* and the lift to a dollar of one order where the profile has such small ones.
FileWithinCeiling == TypeOK /\
  \A m \in Markets : LET p == file[m] IN
    p # None /\ p.own = "copytrade" => \E q \in Quotes : p.usd <= q.ceil + Lift(q)

\* What copytrade.mjs 90-93 calls a hard ceiling, full stop: the lift breaks it
\* (line 741), so no run checks it.
HardCeiling ==
  \A m \in Markets : LET p == file[m] IN
    p # None /\ p.own = "copytrade" => \E q \in Quotes : p.usd <= q.ceil

\* The file and the wallet come to agree on every market again and again:
\* whatever stale snapshot wiped a position out, it is tracked once more.
FileFollowsWallet ==
  \A m \in Markets : []<>((file[m] # None) <=> (held[m] > 0))

=============================================================================
