# Verification of cosmos-bot

TLA+ models of cosmos-bot, the copy-trading bot and fleet runner for Polymarket, with TLC runs on small instances and TLAPS proofs.
Paths in this file and in the modules are relative to the repository's program, its `src/` directory; `PROJECT.json` names the same files with the repository's own directory in front (`src/src/...`, `src/test/...`).

## 1. The system

One **runner** process per machine keeps one **child** bot per account. The runner owns one chain socket and forwards logs to the children over IPC. Each child runs several loops over one `positions.json`: the trading cycle, a take-profit loop, the copy engine (a polled tick and a fast path driven by chain logs) and up/down engines. A web platform (the "server") serves rosters and signals, evaluates fills, signs orders and records results.

| Component | State it keeps | Operations | What is hard | What makes it correct | Model |
|---|---|---|---|---|---|
| Order placement (`polymarket.mjs`, the placing half of `bot.mjs`, `remote-signer.mjs`) | `delayedLocks`, `spendLog`, the sign context of a decision | `placeWithRetry`, `marketableSell`, `placeOrder`, `settlePlacement`, `awaitDelayedFill`, `closeOutCloudOrder` | lost answers, delayed orders, retries, two loops on one token, restart | one order per BUY decision; a booked verdict is the venue's; zero is only reported of a dead order; locks end | `OrderPlacement` |
| Entry gate (head of `cycle()`, `maybeStartEngines`) | `qtState`, engine flags | account read, balance, drawdown check, sizing | an engine's pass runs across the cycle's awaits; restarts | no entry before the first check of a process, nor after a stop | `EntryGate` |
| Drawdown breaker (`drawdown.mjs`, `drawdown-rule.mjs`) | samples and latch, on disk | check, load, legacy migration | restart, window edges, trimmed file | a latch with its basis ends by recovery or by age, never by a restart | `Drawdown` |
| Fleet kill switch (`fleetstate.mjs`) | state, timestamp on disk | poll mirrors, apply | stale or broken mirrors, restart | an accepted document is never rolled back | `FleetState` |
| Copy engine (`copytrade.mjs`, `tier-ladder.mjs`, sizing and guard files) | `positions.json`, `seen`, `inFlightBuys`, memos, breakers | polled tick, `fastOpen`, `buy` | snapshots of the file held across awaits; two paths per signal | one order of a market at a time; no position above its ceiling but for the lift to a dollar; the file follows the wallet | `CopyTrade`, `CopySizing` |
| Trading cycle and exits (`bot.mjs`) | `positions.json`, per-position ladder step | reconcile, exits per source, feed entries, TP-loop | two loops sell one position; partial, unreadable and lost answers; a lagging feed | a step is recorded only when the venue took an order for it; every step is followed; a market of the feed is not bought on top of itself | `TradingCycle`, `CycleRules` |
| Child watcher (`chainwatch.mjs`, `fills.mjs`) | dedupe set, transaction buffer, own socket | `handle`, `backfill`, hub mode, fallback, watchdog | duplicate and missing logs, silent hubs, dead sockets | each log handled once; the bot hears again | `ChildWatch` |
| Stage 4 child and authority (`s4-child.mjs`, `s4-authority.mjs`, `onFill`) | answers, waiters, decided markers | `awaitAnswer`, `markDecided`, `polledVerdict` | an answer racing its timeout, the old check and the tick | a decided state is not acted on again; a missed fill is recovered off the row | `ExecutionAuthority` |
| Up/down engines (`qtable2.mjs`, `cert15.mjs`) | markets, `done`, the rolling hour, price history | discover, tick, feed and its watchdog | hangs, silent feeds, lost answers, dust in slots, restart | one answered fill a market; the hour's cap; the engine does not freeze | `UpDownEngine` |
| Runner (`runner.mjs`, `liveness.mjs`) | `kids`, backoffs, wedge stamps | `reconcile`, `start`, `stop`, `restartWedged`, `reapOrphans`, `dieClean` | jittered starts, kills with grace periods, supervisor death | one live bot per account; supervised bots follow the roster; orphans end | `Supervisor`, `RosterContract` |
| Chain cursor (`chain-cursor.mjs`) | `lastHead`, `connected`, pending ranges | eight pure methods | streams out of step, ranges that overlap and split | nothing known to be missing is sealable | `ChainCursor` |
| Chain hub (`chainhub.mjs`) | socket, subscriptions, `lastBlock`, `closedThrough` | connect, deliver, `backfill()`, `resolveBlock` | an un-awaited backfill races live logs, drops and another backfill | `closedThrough` names complete blocks | `ChainHub` |
| Evaluation hub (`s4-hub.mjs`) | queue, slots, waiters, breaker | `onFills`, `evaluateNow`, `pump`, `settle` | hard timers free what still runs | ok is only said of a committed fill | `S4Hub` |
| Seal worker (`s4-seal.mjs`) | `lastSealed`, `pendingBlock`, budgets, the mutex | `boot`, `tick`, `reconcile`, supervisor | the mutex is taken from live ticks; seals are lost or refused; restart | sealed means complete; no block is passed silently | `SealWorker` |
| Store (`store.mjs`) | two JSON files | load, save | lost updates | - | inside `CopyTrade`, `TradingCycle` |
| Signal hub, admission and roster guards, venue reads, shadow comparison, metrics, traces, wizard | caches and counters | - | little of it is stateful and decisive | - | not modelled (reasons in `PROJECT.json`) |

The hazards of each part, at their lines, are in `PROJECT.json` under `hazards`, with the properties that cover them.

## 2. The modules

An action is one stretch of code between two awaits. Helper names are the source's. `MC*` modules give symmetry sets and the input sets that are not plain values; operators whose comment begins "Mutant of" are plausible bugs the properties are tested against, and no specification uses them.

**`OrderPlacement`** models one token's orders: trading *loops* each follow one decision through `placeWithRetry` or `marketableSell`, the checks of `placeOrder`, the signature, the post, its answer, the delayed-fill poll and the report. The venue is the environment: it may match at once or later, delay, kill, reject, fill without answering, and show trades and records late. `venue` holds the truth about each signed order, `ctx` and `post` what a decision believes, `booked` and `cloud` what it returned and reported; `locks` is `delayedLocks` and `ledger` the rolling risk-ledger.json. `Restart` clears the process and keeps the ledger, the venue and the platform's rows.

**`Drawdown`** and **`EntryGate`**. `Drawdown` is the rule with its file; the samples of one age are their maximum, which is all a check reads; the load also decides a latch of the first release by the newest sample (`Loaded`, `LastSamples`). `EntryGate` extends it with the cycle (`Account`, `ReadPortfolio`, `SizingStep`, `Rest`, `CycleThrows`) and one engine whose pass reads the flag at its start and the cash before every order (`PassStarts`, `OrderStarts`, ...). A process `Stops`, and `Start` reads the file or fails to; the first file may be one of the first release. The fleet halt is a parameter of its actions, any value at any time.

**`FleetState`**: the owner signs documents with rising timestamps, mirrors serve new, old, bad or no copies, `Poll` asks them in the rotating order of the code and stops at the first that answers.

**`CopySizing`** has the copy engine's arithmetic and guards as functions: the tier ladders, one-shot and beat targets, ceilings, top-ups, the clock and price windows, the floor guard, the reserve. **`CopyTrade`** extends it with the evaluations: the tick, each fast call and the trading cycle hold their own snapshot of `positions.json` (`snap`), and every save writes the snapshot whole. `inFlight`, `seen`, the memos and the breakers are the code's. Orders are in whole shares, at least a dollar's worth (`orderUsd`), so that what is booked is what the shares come to. What the venue filled is `held`; the code sees it through answers and holdings reads. An order that fills may be answered, answered unreadably (`Unreadable`: taken for a whole fill, perhaps nothing), or not answered (`AnswerLost`: taken for a failure, nothing written down; `unheard` counts the openings among these).

**`CycleRules`** has the cycle's decisions as functions (`edgeExit`, `horizonVerdict`, `quantStopFires`, local take-profit and stop, `genericExit`, entry sizes and the entry verdict). **`TradingCycle`** extends it with the two loops: the cycle walks the positions along the exits of their source and the TP-loop runs `copyExitStep` beside it; `feed` is the polled repetition of the whale's step, `ladder` the step the server knows, `wallet` what is really held; `buys`, `unsure`, `forgot` and `ladderTaken` are histories: fills, those whose answer was lost, marks dropped after thirty days, and the steps for which the venue took an order. A sale has two numbers: the answer `k` (shares, 0 for any failure, `Unread` for an accepted order whose answer says nothing) and the shares `n` that left, in all the attempts of `marketableSell`; only the last attempt's answer counts. A purchase may fill and be answered 400 or 409 (`EntryFails`), which the code counts and marks like a refusal.

**`ChildWatch`** is how one bot hears of fills; **`ExecutionAuthority`** is what happens to one when `onFill` has it: the stagger, the Stage 4 wait, the old check, the marker with its ratchet, and the polled tick that reads the production row.

**`UpDownEngine`** is the loop of `qtable2`; `cert15` is the same loop with other gates, and without the wedge backstop, which `qtable2` has only under the launcher (`COSMOS_LAUNCHER=1`): a hung pass of `cert15`, or of a bot started by hand, stays hung until somebody restarts it. Discovery, reference prices, slots, the rolling hour in memory and on disk (`hourly`, `hourFile`), the order with its lost answers (`lost`), dust, the feed and its watchdog, hangs. Vetoes of the probability tables are nondeterministic refusals.

**`Supervisor`** models the runner, its children as processes of the box, the platform's roster, kill timers, and the runner's own death and reboot. **`RosterContract`** is the abstract promise, the supervised bots are bots of the last roster; `FollowsRoster` states that `Supervisor` implements it, under the refinement `supervised <- {u : kids[u].child is a process or a failed spawn}`.

**`ChainCursor`** has no variables: a cursor is a record, each method an operator. **`ChainHub`** composes it with the socket, both subscriptions and the `backfill()` calls in flight; `wire` is what the node sent and the hub has not read, `got`, `base` and `known` are histories. **`S4Hub`** counts, per fill and phase, the jobs of the evaluation queue: queued, running, or *loose* (the slot was freed by the hard timer while `evalOne` goes on). **`SealWorker`** extends it with the worker; each *tick* is a process, because the supervisor may take the mutex from one that goes on later; `view` abstracts the cursor to what the worker reads.

Which modules compose: `EntryGate` = `Drawdown` + cycle + engine; `CopyTrade` = `CopySizing` + engine + cycle over one file; `TradingCycle` = `CycleRules` + cycle + TP-loop + an engine's purchases; `ChainHub` = `ChainCursor` + socket + backfills; `SealWorker` = `S4Hub` + worker; `Supervisor` implements `RosterContract`.

## 3. The runs

| Run | Distinct states | Shows |
|---|---|---|
| `order_core` | 1 944 717 | no BUY is reported zero unless the venue refused or killed it; booked verdicts are the venue's; one order per BUY decision; no orphaned pending lock; the cap is overshot by at most one post of the other loop |
| `order_copy` | 96 039 | behind `inFlightBuys`, nothing is issued while a delayed order is unresolved; locks are released |
| `entry_gate` | 436 336 | no entry before the first drawdown check of a process, none after a stop; a latch with its basis survives restarts and one without ends at the load only as its comment says; a flat account is not halted for ever |
| `fleet_switch` | 9 966 | no accepted document is rolled back, across restarts; one good mirror is enough |
| `copytrade` | 1 352 344 | one order of a market in flight; openings bounded by the evaluations under way, restarts and unheard fills; no position above its ceiling in a profile of the hosted ladder, nor by more than the lift of one order in another; the file comes to agree with the wallet |
| `cycle` | 233 088 | the venue took an order for each recorded step; a market of the feed is bought once in thirty days (plus lost answers) and never on top of a holding; each step of the whale is executed unless the file loses the copy; winners are sold |
| `watch` | 426 201 | each log is handled once; splits are not traded; a replay covers its gap; the bot hears again |
| `authority` | 267 586 | the tick does not act on a row the fast path decided; a missed fill is recovered off the row |
| `updown` | 1 306 086 | one answered fill a market, unanswered ones within the retries; the hour's cap over restarts that find their file; the edge is measured from the true opening price; the engine does not freeze |
| `supervisor` | 80 928 | one supervised bot per account; the refinement of `RosterContract`; orphans end; a listed account comes to have a bot |
| `hub_core` | 1 590 441 | known-missing blocks are not sealable; `closedThrough` names a complete block |
| `seal_core` | 223 538 | a sealed block's fill was committed, or the open breaker answered for it; every block passed is sealed, given up (with its record posted, or that post lost), or left behind by a tick that chose to work through a range above it |

Each module's type invariant is a conjunct of one of its properties, and proved with it; that of `OrderPlacement` is proved on its own (`TypeCorrect`) and is a conjunct of `IInv`.

**Bounds, and why they are enough to be interesting.** Every action and every disjunct of the next-state relations fires in these runs, and each property is broken by the bug `PROJECT.json` lists for it under the same bounds.

- `order_core`: two loops of different engines, both sides, two orders of two shares, one re-post, one restart; the smallest numbers at which its races exist. `HourCap` is one order's worth, so the second is over it. `order_copy`: three orders of one share, so a third is asked while one is delayed and another done.
- `entry_gate`: a window of two ticks with an older age kept or trimmed, values on both sides of the trip, of the recovery and of the dust limit; the file before the first process has any samples and no latch or one of the first release, and may fail to be read at either start; one restart. `fleet_switch`: three mirrors and three documents (halt, resume, halt), two restarts.
- `copytrade`: one market, the tick, one fast call and the cycle at once, six signals (in the second tier, a stub of what he sold, a small candle, an adoption without tiers, a match under way, a market far off), two hosted profiles, one portfolio, three orders, one restart. Sizes are those of the real constants at that portfolio. `UpDownEngine` and `TradingCycle` have the other engines' purchases.
- `cycle`: one position at a time, of each source, of two order minimums (so that a partial sale exists), a ladder of two steps, two books (the middle and a winner), three signals, one for each verdict, a hosted and an owner's account, two purchases, one mark that grows too old. Positions are entered at 50 cents throughout; whether a winner is sold at 99 depends on the entry only through the floor of the take-profit (one cent above it).
- `watch`: four blocks with two whale transactions, one of which may be a split, one block per request, one replay beside the live stream, a memory of two logs, so that it is cleared. `authority`: two fills of one side, one change of the canary list or restart, the fast path stands down after one failed check.
- `updown`: two overlapping candles, one slot, one order an hour, the hour two units, two failures after which a market is given up (three and five in the code). The unit is five minutes, the limit of both watchdogs. After the last candle only the dust and the hang keep `KeepsTrading` from being trivial.
- `supervisor`: one account and two process ids, the smallest number at which a bot can be doubled. Time is counted in reconcile passes. The mass limit, the ramp and the order in which a full machine admits accounts need several accounts: they are in the module and not exercised.
- `hub_core`: four blocks hold a gap, a chunk boundary and a block out of `MaxGap`'s reach; two backfills overlap; one drop and one failed connect. `seal_core`: four blocks, two ticks, so that the worker can lag by more than `MAX_BEHIND`; counters (breaker after one failure, two attempts, `MAX_BEHIND` 2, `BATCH` 2) only bring the same branches closer; two faults in a behaviour (`MaxFaults`), each a skipped header, a disconnect, a failed evaluation, fetch or post, a lost record, a deadline, a taken mutex or a crash: the smallest number at which a block is given up, or a second tick meets the failure of the first.

**Deadlock** is checked in `order_core`, `order_copy`, `copytrade` and `cycle`. It is off where the bounded environment really comes to rest: a chain at its last block, a fleet without new documents or restarts left, an account nobody changes.

**Environment.** The node registers both subscriptions of a hub's socket together and delivers each stream in order; a header of block n, or a replay through n, arrives after the streamed logs of blocks at or below n - HEAD_LAG (`InStep`): the bet the code states at `chain-cursor.mjs:15-17`, without which nothing can be said of sealing. `eth_blockNumber` may trail. Reorgs are not modelled. `SealWorker` takes its boot range as the cursor's start. In `supervisor` a spawn may fail by throwing; the failure that arrives as an event is the disagreement 9 of section 5.

**Fairness.** Only what the program schedules itself, and answers where a property could not hold without any.

- `order_copy`: the settling step of each poll loop (every read and the whole window have deadlines) and the expiry of a held lock. Nothing of the venue.
- `entry_gate`: the cycle's steps (a `while (true)` with a catch), the start of the process by its launcher, strong fairness of a balance read that works, and an account answer with the bot enabled. `fleet_switch`: the poll timer.
- `copytrade`: the cycle loads and ends, strong fairness of a holdings read that works, and an order that is out comes to an answer. `cycle`: the cycle's steps (not the TP-loop's, which only helps) and the age of the feed; strong fairness of a holdings read, of an ask the server answers, and of a sale that sells and is answered, if it is tried again and again.
- `watch`: timers (connect, confirmation, fallback), rpc answers, and strong fairness of a connection attempt that comes to an end and of a confirmation. `authority`: a fill in `onFill` moves on, the tick runs, the platform's cron or age brings the row.
- `updown`: passes, with the wedge exit of a launched `qtable2`, and the clock up to its bound, and nothing of the feed: without prices the engine waits with its slots free. `supervisor`: the pass timer, kill and start timers, the launcher, a closed channel or the watchdog in a bot whose loop turns, and strong fairness of a good roster answer.

## 4. The proofs

All assumptions are the named ones on the constants; nothing is assumed of the environment beyond its actions. Each theorem holds for every value of the constants. Every safety property the runs check, invariant or action property, is a theorem, and so is the refinement of `RosterContract`; what is left to the runs is liveness.

Five of the eight modules of proofs belong to one component; `FillPathProofs`, `EntryGateProofs` and `RunnerProofs` hold two that live side by side in one process. So that two components can be extended together, their specifications have names of their own: `WatchSpec` (`ChildWatch`), `FleetSpec` (`FleetState`), `HubSpec` (`ChainHub`).

**`OrderPlacementProofs`**: `TypeCorrect`, `Invariance`, and from it `BuyZeroReports`, `Verdicts`, `OneOrder`, `PendingLock`. The properties speak of orders the venue has taken and what some loop said of them, so none is inductive. `IInv` adds what ties the two: an order belongs to the decision that signed it; a loop past its post knows which order is in hand and how far the venue may have taken it; attempts and orders are numbered apart; a pending lock names the loop that polls.

`Governor`: the bound is a sum over the loops that are past the clamp, and sums over a set cannot be taken by induction here. `Fits` says the same with a cardinality: with what is in the window now, either every clamped loop may still add a whole post, or one of them, the one clamped last, no more than the size it was given. A clamp establishes the second form for itself, because it saw the room; a fill takes one loop out of the set and adds at most its size; an aged window only helps. `NoIssue` is stated for what its run has, the copy engine's BUYs (`ClaimsItsToken`: one side, a claim on the token before the first await), because without it the property is false (section 5, 2). Then at most one loop is under way (`OneUnderWay`), and a loop that goes from the check to the signature is not met by another's delayed order.

**`EntryGateProofs`**: `NoEntryBeforeTheCheck`, `StopHolds`, `LatchHolds`. `Trading` says that cash is known, or an engine at work, only after the check of this process; `Stopped` that no cash is left once a stop was read, though a pass goes on; `Based` that every latch of a process that runs has its basis, so that only the first load, of a file of the first release, can clear one, and that is the exception `LatchHolds` names. `NoRollback`, of the kill switch: the document in force is never newer than the timestamp on disk, and the disk is never older than anything ever in force.

**`FillPathProofs`**. `FillsHandledOnce`: `Once` says that a log waits in the buffer, or was acted on, only if it is remembered, and never both. `SplitsNotTraded` is the hard one: the legs of a split come over two channels and any number of replays, and a leg whose other half is missing looks like a purchase. `ChannelOK` describes what a channel may hold: logs in the order of the chain, never the second leg of a split without the first before it or already known, never the first without the second behind it; `SplitsWait` then says that a first leg waits in the buffer alone only while a channel that brought it still carries the second (`SplitOut`), so the flush, which the code runs when the transaction's logs are over, finds both. The exceptions are the model's histories: a socket that died between the legs (`torn`) and a memory cleared at its cap (`forgot`), which the code does in the middle of a chunk as well. `ReplayCovers`: a replay that was never refused remembers what lies behind its position (`ReplayOK`). `TickDefers`, of the Stage 4 authority: the marker covers every fill decided in this process (`Covered`), also when answers land out of order, because it is a maximum; and the tick between its read and its verdict (`Reading`) holds a row it compares with the marker as it is at the verdict.

**`RunnerProofs`**. `OneBot`: what makes a delayed start safe is that a pass asks for the roster only when no stopped child lives and no start timer of the pass before is pending (`PassSettled`), so a timer is armed only for an account with neither a record nor a process (`StartsAreFree`), and an unsignalled child is its record's (`Recorded`). `RunnerFollowsRoster` is the refinement, step by step (`StepImplements`): start timers and exits change the supervised set by one, a reboot empties it, and everything else stutters.
`MissedIsHeld` and `ClosedIsProven`, of the chain hub, rest on lemmas about each method of the cursor, which say what it keeps. A known-missing block is *barred*: inside a refused range, or inside a range skipped by the headers while its own header is past and unseen (`Covers`). No method removes such a range but the replay or the reconciliation of the block itself; a header could close a head-derived range, but the header of this block comes no more, since the stream brings each once, in order (`Passed`). And nothing at or above a pending range is sealable (`BarredNotSealable`). A replayed chunk gives the cursor several logs at once; `OnLogs` states the result in closed form, because a fold over the logs would need induction; that it equals `OnLog` applied block by block is an assumption of `MCChainHub` (`LogsInTurn`), which TLC evaluates for every head and every set of blocks of the run.

**`TradingCycleProofs`**: `NoStepIsBurned`, `BoughtOnce`, `NothingIsDoubled`. `Told` says that for a step recorded in any copy of a position, the file's or one of the loops' snapshots, the venue took an order (`ladderTaken`), which survives every order of saves because it holds of all copies at once. `Remembered` ties the purchases of a market to its mark, with two excuses (`Excused`): a fill whose answer was lost and a mark dropped for its age. `NothingIsDoubled` needs neither mark nor file: the cycle buys only what its own holdings request, answered in the same cycle, did not list. `EntryWithinCaps` and `OrdersAreWorthADollar` are about the arithmetic of an entry. The exposure cap of the former is that of the larger of portfolio and account size, because the code sizes by one and decides on the lift to the minimum by the other (`bot.mjs:246` and `:1340`).

**`SealWorkerProofs`**: `SealedCommitted`, `NoHole`. `S4Inv`: an answer of success stands for a fill that is in the ledger, or that the breaker passed over. `Fine`, of every tick whether or not it still holds the mutex: what it calls reconciled is kept, it posts only a block it reconciled, and every block below the one it works on is accounted for (`Clear`); the pending block and `lastSealed` have the same. All three only grow, so a tick that lost the mutex does no harm. `BootInv` says that a tick in `boot()` is alone, so that nobody relies on a resume point it changes. Trying to prove `NoHole` showed that its exception was too narrow when a through-block was noted at the seal: such a block may fail, become the pending one and be sealed by the ordinary path, so the choice is what is noted.

**`CopyTradeProofs`**: `LockIsExact`, `OpensAreBounded`. `LockExact` says that the market of an order that is out is claimed, by that evaluation alone. `OpensCounted` is the argument for the bound: a market nobody marked was opened once by each process that died before it could book, and once by an opening not yet booked, of which the lock allows one; once it is marked, only the evaluations that had passed the check (`Pending`) can open it, and the one that marked it is not among them. A fill whose answer was lost adds one to both sides. `CeilingHolds`: every save writes a whole snapshot, so the bound must hold of every copy at once: the file, the snapshots of the tick, the fast calls and the cycle (`Sound`), and, for an order that is out, of its snapshot with the order added (`JobSound`). The order was sized against that snapshot and its booking writes it, so the stale copy is within the ceiling although the wallet may hold more. The order is the clipped amount rounded down to shares, or lifted to the shares of a dollar; the lift is at most 980 mills and only where less than two dollars may be ordered, hence the allowance `Lift`. The assumption `SizesAreNumbers` says that sizes come out as integers, whatever a signal, a profile and a portfolio hold: the beats are a sum over the whales of a side, which only TLC can evaluate. Nothing is assumed of their values. Of the sizes themselves, `OneShotWithinCap` (the 7 percent cap wins over every floor), `TopUpWithinCeiling` (in dollars, before the rounding to shares) and `LadderRises` (more money of the whale never means a smaller percentage, for any bands), over all integers.

**`UpDownEngineProofs`**: `OneFillAMarket`, `EdgeHolds`, `HourlyCapHeld`. `ShotOnce`: a market with an answered fill is among the done ones, and the pass never waits on one that is. `Tries`: each fill taken for a failure has its place among the failures counted, and a failure that may be such a fill gives the market up at the third. `Referenced`: a candle's opening price is set once, and whatever the engine takes for it is it. `Budget` holds `Hours`: until a process begins without a mark of the one before (`spoiled`), the ages in memory are the true ones, oldest first, so that shifting old ones off the front leaves exactly the fills of the last hour; an order is under way only while there is room for its fill.

**Only model-checked**: liveness (`LocksAreReleased`, `FlatAccountsResume`, `OneGoodMirrorIsEnough`, `FileFollowsWallet`, `FollowsWhale`, `WinnersAreSold`, `HearsAgain`, `MissedFillRecovered`, `KeepsTrading`, `OrphanEnds`, `ManagedAgain`): each rests on weak or strong fairness, whose meaning needs ENABLED, out of the prover's reach. And of the functions of `CopySizing` and `CycleRules` only the sizes named above are proved about; the others are exercised by the runs at the values of their constants, and the theorems of the state machines hold whatever they return.

## 5. Known disagreements

What the code does against what one of its documents, comments or neighbours says. The formulas named here are in the modules; a run whose only property is one of them, with the constants given, shows the behaviour. None of them is a run of the project, which has one run for each question it expects to hold.

1. `SellZeroReportsAreTrue` (`OrderPlacement`, one SELL with retries). The attempts of one SELL share a sign context, and a refusal of a later one closes out the row of an earlier one whose outcome is unknown (`bot.mjs:555`, against `bot.mjs:160-161`).
2. `NoIssueWhileUnresolved` with `PerToken = FALSE`. The (token, side) lock is taken after the answer and deleted by key, so it does not hold across engines (`polymarket.mjs:437`, against `test/PROOF.md`).
3. `PartialBlockNotSealable` (`ChainHub`, two logs per block, no height lag). The backfill reads `lastBlock` after its await, and starts above a partly delivered block (`chainhub.mjs:178`).
4. `SocketReopens` (`ChainHub`, `FairHubSpec`). A connection that fails before `onopen` arms no timer, while the heartbeat keeps telling children all is well (`chainhub.mjs:259`). The child's own socket has the same branch (`chainwatch.mjs:363-368`), behind the ten-minute watchdog that `HearsAgain` relies on.
5. `SealedIsComplete` (`SealWorker`). An evaluation skipped by the open breaker resolves `undefined`, which `ok !== false` takes for success (`s4-hub.mjs:94`); `SealedIsCommitted` is the property with this exception.
6. `NothingIsJumped` (`SealWorker`, five blocks, a disconnect). While disconnected, the worker chooses a range above its cursor to reconcile through and leaves the blocks between behind (`s4-seal.mjs:239`); `NoSilentHole` has this exception.
7. `HaltOutlivesBlockedMirrors` (`FleetState`). "Blocking the URL must never be able to ... resume it either" (`fleetstate.mjs:91-92`): only the timestamp is on disk, so a restart while every mirror is unreachable forgets the halt.
8. A fill whose fast path gave up is marked decided although the next lines leave it to the slow path (`chainwatch.mjs:216-225` against `:229`): it is recovered like a missed one, as `MissedFillRecovered` says, but only once the marker has expired or the row has moved beyond it.
9. A spawn that fails by the `error` event leaves an entry in `kids` whose child never lived (`runner.mjs:302-310`): `ManagedAgain` fails with `SpawnFaults = {"error"}`.
10. "Buy once ever" (`copytrade.mjs:156-158`): the mark is made at the fill, so evaluations that passed the check before it may open again one after another; `OpensBounded` counts them.
11. The drawdown baseline on disk is the newest 800 samples, which at the default poll do not fill the window: after a restart the high is lower (`Drawdown`, `KeptAges`). The samples and the latch are written best-effort (`drawdown.mjs:37`); the model takes every write to succeed, and a load to find the file or not (`DrawdownUnread`).
12. `EveryGapIsRecorded` (`SealWorker`, the constants of `seal_core`). A block given up is "recorded as unreconciled ON ITS OWN" and a skipped range is "a KNOWN unreconciled gap" (`s4-seal.mjs:278-283`, `:243-244`), but the post of that record may fail unnoticed: `:245` ends in `.catch(() => {})`, `:286` does not look at the status, and the cursor moves on. The boot log says "the gap is recorded, not sealed" (`:135`) of blocks nothing is posted for. `NoSilentHole` counts such blocks apart (`unrecorded`).
13. A latch of the first release is decided upon at load by the newest sample (`drawdown.mjs:41-47`), however old that is: a stale sample that had recovered clears it, before the portfolio is read. A latch otherwise ends at a check only; `LatchSurvivesRestart` names the exception.
14. `HardCeiling` (`CopyTrade`, `copytrade.cfg` with `Signals <- MCGrowing` and `Profiles <- MCLadderless`). No market exceeds the share of the portfolio, "full stop - a hard ceiling" (`copytrade.mjs:90-93`), but an order is rounded to shares and lifted to a dollar's worth after the clip (`:741`). A position of 3.00 dollars at a ceiling of 4.05 is topped up by 1.05 dollars at a limit of 97 cents, which is two shares, 1.94 dollars: 4.94. Where every top-up is at least two dollars (the hosted ladder) it cannot happen. `FileWithinCeiling` has the lift as its allowance.
15. A BUY that filled and whose answer was lost is status 400, an ambiguous one 409 (`polymarket.mjs:1218`, `:1247-1261`), the classes of a refusal. In the cycle it counts as one, and burns the market of a source that is no engine (`bot.mjs:1412-1415`; `EntryFails`). In the copy engine it leaves no mark and no record, so the market may be opened again (`copytrade.mjs:775-852`, against "buy once ever"; `AnswerLost`, counted by `OpensBounded`). In the up/down engines it re-arms the market, which is ordered again a quarter of a second later with nothing in the file, up to three fills against "one shot per market" (`qtable2.mjs:457`, `:463-466`; `cert15.mjs:353-356`; `OneShot` bounds them), and it takes no slot of the hour (`qtable2.mjs:148`, `:472`).
16. "Steps fire exactly once via the server seq" (`bot.mjs:602`): `copy_seq` advances on any ok, and an accepted order whose answer says nothing is ok (`polymarket.mjs:1221-1222`, `:1246`), so a step may be recorded that sold nothing; and an attempt that sold while its answer was lost does not advance it, so the step may be sold twice. `StepsAreSold` has the first as its exception and does not speak of the second.
17. Seen marks are dropped after thirty days (`bot.mjs:1270-1271`), against "buy a market at most ONCE" (`:1268`): `FeedBuysOnce` counts the dropped marks. What still holds then is `NeverDoubles`.
18. The cycle loads `positions.json`, awaits the holdings and saves its snapshot (`bot.mjs:964-965`, `:1033`), over a copy opened meanwhile. The next cycle re-adopts it as `adopted` (`:1022-1027`) and no exit of its whale is followed any more; `FollowsWhale` excepts it.
19. The hour's file: a failed write is swallowed, and a file that cannot be read begins a fresh hour (`qtable2.mjs:152`, `:160`), against "a restart cannot reset the window" (`:147`). `HourlyCapHolds` holds until that happens (`spoiled`).

Seen while modelling, and outside the models: the deletion of dead dust is undone by re-adoption (`bot.mjs:988-1032`); a self-hosted v2 bot has no take-profit (`bot.mjs:608`, `:1242-1244`); the governor misses a BUY with an unreadable fill (`polymarket.mjs:1221`); `twentyTierTarget` is called and not imported (`copytrade.mjs:532`); polled top-ups apply the exposure cap to hosted bots and the fast path does not (`copytrade.mjs:1330`); `now` is read once per pass (`qtable2.mjs:382`); a coin that never ticked is never kicked (`qtable2.mjs:524`); a replayed answer of an earlier hub process resets `lastBoot` and `lastSeq` (`s4-child.mjs:108`); where the first slot of a market holds the other side, the marker does not suppress a row the fast path decided (`copytrade.mjs:1281`), and the opening under a key of its own does not ask it again (`:1339-1380`).

## 6. Not modelled, and why

Key handling and order payloads; the chain and data-API reads behind caches; the probability tables, volatility and persistence gates of the up/down engines, and `qtable` and `qtable-live`; metrics, traces, diagnostics, the shadow comparison, the install wizard and the launch scripts; the signal hub, a broadcast whose failure is silence.

Inside modelled parts: endpoint rotation, wording of logs, the broadcast ring of the evaluation hub and the child's gap detection on it; elapsed time in the seal worker (its guards on state are kept, the clock is nondeterministic); in the runner, shards, wallet unions and alerts; in the copy engine, a second side of one market, per-whale pauses, traces and copy reports; in the trading cycle, the sale of resolved winners, dead dust, manual trades, backlog purchases and end-date lookups. In `ChildWatch` a block holds one transaction; the engine is armed throughout. In `OrderPlacement` the rolling ledger does not age and the cap does not follow the portfolio while a run lasts (`polymarket.mjs:132`, `:148-149`); the ledger only gets shorter by ageing. Holdings reads, where they succeed, are exact, fresh and complete (`polymarket.mjs:1318-1320` may return some of the pages), and a holding is re-adopted in the cycle that finds it, although the code needs its token in a list it refreshes every ten minutes and at least one share (`bot.mjs:1002-1020`); in `CopyTrade` and `TradingCycle` a record is of one side, so the feed does not list a market twice. In `UpDownEngine` the price does not drift within a unit, hence not within the seconds a reference is trusted for (`qtable2.mjs:211`).

`wedgeDecisions` keeps a cooldown between restarts of one child; the cooldown is modelled and no property speaks of it, since what it prevents is load and not a wrong state.

## 7. What is left

Several accounts in `Supervisor`, where the mass limit and the ramp matter, by a coarser model of a child. The evaluation broadcast with its replays and gaps. Two sides of a market in `CopyTrade`. Abstract specifications of the seal worker (a cursor over a ledger) and of the store, with their refinements.
