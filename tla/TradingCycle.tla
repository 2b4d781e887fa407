---------------------------- MODULE TradingCycle ----------------------------
(***************************************************************************)
(* The trading cycle of a bot (bot.mjs); CycleRules has what it decides by.*)
(* The cycle reconciles positions.json with the wallet, walks the          *)
(* positions, each along the exits of its source, then buys from the main  *)
(* feed; beside it the TP-loop, on a timer of its own, runs the same       *)
(* copyExitStep over its own snapshot of the file.  Both save the whole    *)
(* snapshot.  A copied whale sells in steps (sell_seq, the ladder); the    *)
(* polled feed repeats his step to the bot, which then need not ask the    *)
(* server.  A sale is a marketableSell: several attempts, of which only    *)
(* the last one's answer counts; an attempt that was lost may have sold    *)
(* too, and an accepted order whose answer nobody could read counts as     *)
(* done.  A purchase is a placeWithRetry, one attempt (module              *)
(* OrderPlacement has the inside of both).                                 *)
(***************************************************************************)
EXTENDS CycleRules, FiniteSets

CONSTANTS
  Positions, None,
  Size,         \* shares bought, in order minimums
  MaxSeq,       \* the ladder's last step: the whale is out
  Books,        \* what the market may show: [mid, bid] in cents
  Signals,      \* what the feed may ask: [max, alert] in cents
  Settings, Horizons,  \* the account's tp and sl, the market's horizon
  Accounts,     \* the bots looked at: [hosted, v2]
  Entry,        \* the price positions are bought at
  RejectLimit,  \* ENTRY_4XX_LIMIT
  MaxBuys,
  MaxForgets    \* how often a market's mark gets older than thirty days

ASSUME CycleBounds ==
  /\ Size \in Nat \ {0} /\ MaxSeq \in Nat \ {0} /\ None \notin Positions
  /\ None \notin Nat /\ RejectLimit \in Nat \ {0}
  /\ MaxBuys \in Nat \ {0} /\ MaxForgets \in Nat

\* "wallets" stands for the sources of the main feed that are not engines of
\* the platform; qtable, cert15 and copytrade buy for themselves.
FeedSources == ENGINE_SOURCES \cup {"wallets"}
Sources == FeedSources \cup {"copytrade", "qtable", "cert15", "adopted"}
Loops == {"cycle", "tp"}

VARIABLES
  wallet,     \* shares really held
  file,       \* positions.json: None or [src, size, seq, part]
  ladder,     \* the whale's step, as the server knows it
  feed,       \* state.copySeq: the step the feed showed in the last 90 s
  book,       \* the market's prices
  loop,       \* each loop: its step, snapshot, position and order
  left,       \* positions, then markets of the feed, the cycle has yet to visit
  walletRead, \* what the cycle's holdings request answered, until it reconciles
  heldCids,   \* the markets it answered; None when it failed
  seen,       \* seen.json; a first run has not written it yet: None
  fails,      \* entryFails: refusals of an entry, in memory
  source, account,  \* which engine buys it; [hosted, v2] of the bot: constant
  buys, unsure, forgot,     \* history: fills, those whose answer was lost, marks
                            \* that grew too old
  ladderTaken               \* and the steps for which the venue took an order

feedvars == <<seen, fails>>
hist == <<source, account, buys, unsure, forgot, ladderTaken>>
reads == <<walletRead, heldCids>>
vars == <<wallet, file, ladder, feed, book, loop, left, reads, feedvars, hist>>

Shares == 0..Size * MaxBuys
Unread == -1                      \* accepted, with an answer nobody can read
Answers == Shares \cup {Unread}    \* the shares an answer says were sold
Steps == Positions \X (0..MaxSeq)
Record == [src : Sources, size : Shares \ {0}, seq : 0..MaxSeq, part : BOOLEAN]
ASSUME NoRecord == None \notin Record /\ \A P \in SUBSET Positions : P # None
Files == [Positions -> Record \cup {None}]
Idle == [at |-> "idle", snap |-> None, p |-> None, ask |-> 0, seq |-> 0]

TypeOK ==
  /\ source \in [Positions -> Sources]
  /\ wallet \in [Positions -> Shares] /\ file \in Files
  /\ ladder \in [Positions -> 0..MaxSeq]
  /\ feed \in [Positions -> 0..MaxSeq \cup {None}]
  /\ book \in [Positions -> Books]
  /\ \A l \in Loops :
       /\ loop[l].at \in {"idle", "held", "walk", "price", "take", "ask", "follow",
                          "edge", "sports", "sell", "entries", "buy"}
       /\ loop[l].snap \in Files \cup {None}
       /\ loop[l].p \in Positions \cup {None}
       /\ loop[l].ask \in Shares /\ loop[l].seq \in 0..MaxSeq
  /\ left \subseteq Positions
  /\ walletRead \in [Positions -> Shares] \cup {None}
  /\ heldCids \in (SUBSET Positions) \cup {None}
  /\ seen \in (SUBSET Positions) \cup {None}
  /\ fails \in [Positions -> 0..RejectLimit]
  /\ buys \in [Positions -> 0..MaxBuys] /\ unsure \in [Positions -> 0..MaxBuys]
  /\ forgot \in [Positions -> 0..MaxForgets]
  /\ ladderTaken \subseteq Steps

Init ==
  /\ account \in Accounts
  /\ source \in [Positions -> IF account.hosted \/ account.v2 THEN {"copytrade"}
                             ELSE Sources \ {"adopted"}]   \* v2 is about copies
  /\ wallet = [p \in Positions |-> 0] /\ file = [p \in Positions |-> None]
  /\ ladder = [p \in Positions |-> 0] /\ feed = [p \in Positions |-> None]
  /\ book \in [Positions -> Books]
  /\ loop = [l \in Loops |-> Idle] /\ left = {}
  /\ walletRead = None /\ heldCids = None
  /\ seen \in IF \E p \in Positions : source[p] \in FeedSources THEN {None, {}}
              ELSE {{}}                 \* a first run is about the feed's markets
  /\ fails = [p \in Positions |-> 0]
  /\ buys = [p \in Positions |-> 0] /\ unsure = buys /\ forgot = buys
  /\ ladderTaken = {}

Pos(l) == loop[l].p
Rec(l) == loop[l].snap[loop[l].p]

\* A loop is done with its position: the cycle walks on, the TP-loop stops.
Over(l, snap) ==
  loop' = [loop EXCEPT ![l] = IF l = "tp" THEN Idle
                              ELSE [Idle EXCEPT !.at = "walk", !.snap = snap]]

At(l, step) == loop' = [loop EXCEPT ![l].at = step]

(***************************************************************************)
(* The head of the cycle.                                                  *)
(***************************************************************************)
CycleBegins ==     \* load, and the await of the holdings
  /\ loop["cycle"].at = "idle"
  /\ loop' = [loop EXCEPT !["cycle"].at = "held", !["cycle"].snap = file]
  /\ walletRead' = wallet
  /\ UNCHANGED <<wallet, file, ladder, feed, book, left, heldCids, feedvars, hist>>

Adopted(p) == [src |-> "adopted", size |-> walletRead[p], seq |-> 0, part |-> FALSE]

Reconciled(snap) ==
  [p \in Positions |->
     IF walletRead[p] = 0 THEN None
     ELSE IF snap[p] = None THEN Adopted(p)
     ELSE [snap[p] EXCEPT !.size = walletRead[p]]]

CycleReconciles ==
  /\ loop["cycle"].at = "held"
  /\ file' = Reconciled(loop["cycle"].snap)
  /\ loop' = [loop EXCEPT !["cycle"].at = "walk", !["cycle"].snap = file']
  /\ left' = {p \in Positions : file'[p] # None}
  /\ heldCids' = {p \in Positions : walletRead[p] > 0} /\ walletRead' = None
  /\ UNCHANGED <<wallet, ladder, feed, book, feedvars, hist>>

CycleHoldingsFail ==
  /\ loop["cycle"].at = "held" /\ At("cycle", "walk")
  /\ left' = {p \in Positions : loop["cycle"].snap[p] # None}
  /\ walletRead' = None /\ UNCHANGED heldCids
  /\ UNCHANGED <<wallet, file, ladder, feed, book, feedvars, hist>>

Route(src) == CASE src = "copytrade" -> "price" [] src = "top5" -> "ask"
                [] OTHER -> "edge"

CycleVisits(p) ==
  /\ loop["cycle"].at = "walk" /\ p \in left /\ left' = left \ {p}
  /\ LET src == loop["cycle"].snap[p].src IN
     IF src = "cert15" THEN UNCHANGED loop
     ELSE loop' = [loop EXCEPT !["cycle"].at = Route(src), !["cycle"].p = p]
  /\ UNCHANGED <<wallet, file, ladder, feed, book, reads, feedvars, hist>>

\* The TP-loop found a copy position at 98c or more.
TpBegins(p) ==
  /\ loop["tp"].at = "idle" /\ file[p] # None /\ book[p].mid >= 98 /\ Entry + 1 <= 99
  /\ file[p].src = "copytrade"
  /\ loop' = [loop EXCEPT !["tp"] = [Idle EXCEPT !.at = "price", !.snap = file,
                                                 !.p = p]]
  /\ UNCHANGED <<wallet, file, ladder, feed, book, left, reads, feedvars, hist>>

(***************************************************************************)
(* copyExitStep: the take-profit first, then the whale's ladder.           *)
(***************************************************************************)
\* Mutant of FeedSaysHold: an old feed row is as good as a new one, and a
\* missing one reads as no step.
FeedSaysHoldAlways(l) == feed[Pos(l)] = None \/ feed[Pos(l)] <= Rec(l).seq

FeedSaysHold(l) == feed[Pos(l)] # None /\ feed[Pos(l)] <= Rec(l).seq

\* The position is not acted on: the cycle goes on to the other exits.
Declined(l) ==
  IF l = "cycle" THEN loop' = [loop EXCEPT ![l].at = "edge", ![l].ask = 0, ![l].seq = 0]
  ELSE Over(l, loop[l].snap)

Ladder(l) == IF FeedSaysHold(l) THEN Declined(l) ELSE At(l, "ask")

\* The 98c exit of a one-shot; a floor above 99c could not be reached.
TakesProfit(l) == account.hosted /\ book[Pos(l)].mid >= 98 /\ Entry + 1 <= 99

\* Mutant of ReadPrice: the feed is asked before the price.
ReadPriceLast(l) ==
  /\ loop[l].at = "price"
  /\ IF ~FeedSaysHold(l) /\ TakesProfit(l) THEN At(l, "take") ELSE Ladder(l)
  /\ UNCHANGED <<wallet, file, ladder, feed, book, left, reads, feedvars, hist>>

ReadPrice(l) ==
  /\ loop[l].at = "price"
  /\ IF TakesProfit(l) THEN At(l, "take") ELSE Ladder(l)
  /\ UNCHANGED <<wallet, file, ladder, feed, book, left, reads, feedvars, hist>>

\* n shares leave in the attempts of one exit; the venue refuses to sell more
\* than it holds.
Leave(p, asked, n) ==
  /\ n <= wallet[p] /\ (n > 0 => asked <= wallet[p])
  /\ wallet' = [wallet EXCEPT ![p] = @ - n]

\* The answer is that of the last attempt, which sold m: all the bot hears of.
Sells(p, asked, k, n) ==
  /\ Leave(p, asked, n)
  /\ k # 0 => \E m \in 0..Less(asked, n) :
                /\ k # Unread => m = k
                /\ asked <= wallet[p] - (n - m)

Took(l, k, n) ==   \* the whole position at 98c: done, or on to the ladder
  /\ loop[l].at = "take" /\ Sells(Pos(l), Rec(l).size, k, n)
  /\ IF k # 0 THEN file' = loop[l].snap /\ Over(l, loop[l].snap)
     ELSE UNCHANGED file /\ Ladder(l)
  /\ UNCHANGED <<ladder, feed, book, left, reads, feedvars, hist>>

\* The server compares the step the position executed with the whale's.
Chunk(l) ==
  LET steps == ladder[Pos(l)] - Rec(l).seq
      part == Less(Rec(l).size, (Size * steps) \div MaxSeq) IN
  IF ladder[Pos(l)] = MaxSeq \/ part = 0 THEN Rec(l).size ELSE part

Asked(l) ==
  /\ loop[l].at = "ask"
  /\ IF ladder[Pos(l)] > Rec(l).seq
     THEN loop' = [loop EXCEPT ![l].at = "follow", ![l].ask = Chunk(l),
                               ![l].seq = ladder[Pos(l)]]
     ELSE Declined(l)
  /\ UNCHANGED <<wallet, file, ladder, feed, book, left, reads, feedvars, hist>>

AskFails(l) ==
  /\ loop[l].at = "ask"
  /\ Declined(l)
  /\ UNCHANGED <<wallet, file, ladder, feed, book, left, reads, feedvars, hist>>

\* What the record loses: the answer's shares, or else those asked for; a top5
\* record always loses those.
Shrinks(l, k) ==
  IF k = Unread \/ Rec(l).src = "top5" THEN loop[l].ask ELSE k

\* Mutant of Stepped: the step counts as done whatever was answered.
SteppedAnyway(l, k) ==
  [loop[l].snap EXCEPT ![Pos(l)].seq = loop[l].seq,
                       ![Pos(l)].size = IF loop[l].ask < @ THEN @ - Shrinks(l, k) ELSE @]

Stepped(l, k) ==
  IF k = 0 THEN loop[l].snap
  ELSE [loop[l].snap EXCEPT ![Pos(l)].seq = loop[l].seq,
                            ![Pos(l)].size = IF loop[l].ask < @ THEN @ - Shrinks(l, k)
                                             ELSE @]

\* A step is followed: its chunk, or the whole position when the whale is out.
Followed(l, k, n) ==
  /\ loop[l].at = "follow" /\ Sells(Pos(l), loop[l].ask, k, n)
  /\ LET snap == Stepped(l, k)
         step == {<<Pos(l), loop[l].seq>>} IN
     /\ file' = (IF snap = loop[l].snap THEN file ELSE snap)
     /\ IF k = 0 THEN Declined(l) ELSE Over(l, snap)
     /\ ladderTaken' = IF n > 0 \/ k = Unread THEN ladderTaken \cup step
                       ELSE ladderTaken
  /\ UNCHANGED <<ladder, feed, book, left, reads, feedvars, source, account,
                 buys, unsure, forgot>>

(***************************************************************************)
(* The other exits.                                                        *)
(***************************************************************************)
\* edgeExit and what follows it.  The model stop of a quant position comes
\* first; it may fire whatever the book shows, or not.
Edge ==
  /\ loop["cycle"].at = "edge"
  /\ LET src == Rec("cycle").src
         mid == book[Pos("cycle")].mid
         bid == bidRead(mid, book[Pos("cycle")].bid)
         edge == edgeExit(src, mid, bid, Entry, account) IN
     \E s \in Settings, h \in Horizons, ai \in {"TAKE_PROFIT", "STOP_LOSS", "none"},
        modelP \in {20, 50} :
       LET exit == IF src = "quant" /\ quantStopFires(modelP, 15, book[Pos("cycle")].bid)
                   THEN "STOP_LOSS"
                   ELSE genericExit(src, edge, mid, Entry, account, s, h, ai) IN
       CASE exit = "HOLD" -> Over("cycle", loop["cycle"].snap)
         [] exit = "ask"  -> At("cycle", "sports")
         [] OTHER -> At("cycle", "sell")
  /\ UNCHANGED <<wallet, file, ladder, feed, book, left, reads, feedvars, hist>>

Sold(n) ==        \* whatever was answered, the next reconcile takes note
  /\ loop["cycle"].at = "sell" /\ Leave(Pos("cycle"), Rec("cycle").size, n)
  /\ Over("cycle", loop["cycle"].snap)
  /\ UNCHANGED <<file, ladder, feed, book, left, reads, feedvars, hist>>

\* sportsExitStep: hold, sell a part once, or sell all.
Sports(k, n) ==
  /\ loop["cycle"].at = "sports"
  /\ LET p == Pos("cycle") r == Rec("cycle") chunk == r.size \div 2
         part == [loop["cycle"].snap EXCEPT ![p].part = TRUE, ![p].size = @ - chunk] IN
     \/ UNCHANGED <<wallet, file>> /\ Over("cycle", loop["cycle"].snap)
     \/ /\ ~r.part /\ chunk > 0 /\ Sells(p, chunk, k, n)
        /\ IF k # 0 THEN file' = part /\ Over("cycle", part)
           ELSE UNCHANGED file /\ Over("cycle", loop["cycle"].snap)
     \/ Leave(p, r.size, n) /\ UNCHANGED file /\ Over("cycle", loop["cycle"].snap)
  /\ UNCHANGED <<ladder, feed, book, left, reads, feedvars, hist>>

(***************************************************************************)
(* Entries from the main feed.                                             *)
(***************************************************************************)
\* What a first run writes off unseen: a list that is stale by then.
Backlog(p) == source[p] \in FeedSources \ ENGINE_SOURCES

\* Mutant of HoldingsKnown: entries go on without the wallet's answer.
HoldingsKnownAlways == TRUE

HoldingsKnown == heldCids # None

\* The marks of more than thirty days are dropped; then the feed lists some of
\* the markets of its sources.
CycleEnters ==
  /\ loop["cycle"].at = "walk" /\ left = {}
  /\ \E listed \in SUBSET {p \in Positions : source[p] \in FeedSources},
        old \in SUBSET Positions :
       /\ old \subseteq (IF seen = None THEN {} ELSE seen)
       /\ \A p \in old : forgot[p] < MaxForgets
       /\ forgot' = [p \in Positions |-> IF p \in old THEN forgot[p] + 1 ELSE forgot[p]]
       /\ seen' = IF seen = None THEN {p \in listed : Backlog(p)} ELSE seen \ old
       /\ IF seen # None /\ HoldingsKnown
          THEN At("cycle", "entries") /\ left' = listed /\ UNCHANGED heldCids
          ELSE /\ loop' = [loop EXCEPT !["cycle"] = Idle]
               /\ heldCids' = None /\ UNCHANGED left
  /\ UNCHANGED <<wallet, file, ladder, feed, book, walletRead, fails, source, account,
                 buys, unsure, ladderTaken>>

Held(p) == heldCids # None /\ p \in heldCids

\* A signal: passed over, burned, or taken to its order.
EntryConsidered(p) ==
  /\ loop["cycle"].at = "entries" /\ p \in left /\ left' = left \ {p}
  /\ IF p \in seen \/ loop["cycle"].snap[p] # None \/ Held(p)
     THEN UNCHANGED <<loop, seen>>
     ELSE \E sig \in Signals :
            CASE entryVerdict(source[p], book[p].mid, sig) = "burn" ->
                   seen' = seen \cup {p} /\ UNCHANGED loop
              [] entryVerdict(source[p], book[p].mid, sig) = "buy" ->
                   /\ loop' = [loop EXCEPT !["cycle"].at = "buy", !["cycle"].p = p]
                   /\ UNCHANGED seen
              [] OTHER -> UNCHANGED <<loop, seen>>
  /\ UNCHANGED <<wallet, file, ladder, feed, book, reads, fails, hist>>

Bought(p, n) ==
  /\ buys[p] < MaxBuys /\ wallet' = [wallet EXCEPT ![p] = @ + n]
  /\ buys' = [buys EXCEPT ![p] = @ + 1]

\* Mutant of Marked: the position on file is mark enough.
MarkedNot(p) == seen

Marked(p) == seen \cup {p}

\* Accepted: n were filled, or an answer nobody can read hides that none were.
EntryFills(n) ==
  /\ loop["cycle"].at = "buy"
  /\ LET p == Pos("cycle")
         snap == [loop["cycle"].snap EXCEPT ![p] = [src |-> source[p], size |-> Size,
                                                    seq |-> 0, part |-> FALSE]] IN
     /\ IF n = 0 THEN UNCHANGED <<wallet, buys>> ELSE Bought(p, n)
     /\ seen' = Marked(p) /\ file' = snap
     /\ loop' = [loop EXCEPT !["cycle"] = [Idle EXCEPT !.at = "entries", !.snap = snap]]
  /\ UNCHANGED <<ladder, feed, book, left, reads, fails, source, account, unsure,
                 forgot, ladderTaken>>

BackToEntries ==
  loop' = [loop EXCEPT !["cycle"] = [Idle EXCEPT !.at = "entries",
                                            !.snap = loop["cycle"].snap]]

\* A 4xx: the venue refused the order or killed it, or its answer was lost
\* (400) or left open (409), and then n were filled.
EntryFails(n) ==
  /\ loop["cycle"].at = "buy" /\ BackToEntries
  /\ LET p == Pos("cycle") IN
     /\ fails' = [fails EXCEPT ![p] = Less(@ + 1, RejectLimit)]
     /\ seen' = IF source[p] \notin ENGINE_SOURCES \/ fails'[p] >= RejectLimit
                THEN seen \cup {p} ELSE seen
     /\ IF n = 0 THEN UNCHANGED <<wallet, buys, unsure>>
        ELSE Bought(p, n) /\ unsure' = [unsure EXCEPT ![p] = @ + 1]
  /\ UNCHANGED <<file, ladder, feed, book, left, reads, source, account, forgot, ladderTaken>>

\* Entries are halted, or the venue answered a 5xx: the market stays open.
EntryWaits ==
  /\ loop["cycle"].at = "buy" /\ BackToEntries
  /\ UNCHANGED <<wallet, file, ladder, feed, book, left, reads, feedvars, hist>>

\* After the list, or at a signal none after which can pass: slots, the
\* portfolio floor, the spend limit.
CycleEnds ==
  /\ loop["cycle"].at = "entries" /\ left' = {} /\ heldCids' = None
  /\ loop' = [loop EXCEPT !["cycle"] = Idle]
  /\ UNCHANGED <<wallet, file, ladder, feed, book, walletRead, feedvars, hist>>

(***************************************************************************)
(* The engine that buys, the whale, the feed and the market.               *)
(***************************************************************************)
\* An engine buys for itself, once here (CopyTrade, UpDownEngine have how); a
\* purchase it does not hear of does not reach the file.
EngineBuys(p) ==
  /\ source[p] \notin FeedSources /\ buys[p] = 0 /\ Bought(p, Size)
  /\ \E heard \in BOOLEAN :
       file' = IF heard THEN [file EXCEPT ![p] = [src |-> source[p], size |-> Size,
                                                  seq |-> 0, part |-> FALSE]]
               ELSE file
  /\ UNCHANGED <<ladder, feed, book, loop, left, reads, feedvars, source, account,
                 unsure, forgot, ladderTaken>>

WhaleSells(p) ==
  /\ buys[p] > 0 /\ ladder[p] < MaxSeq /\ source[p] \in {"copytrade", "top5"}
  /\ ladder' = [ladder EXCEPT ![p] = @ + 1]
  /\ UNCHANGED <<wallet, file, feed, book, loop, left, reads, feedvars, hist>>

\* A whale that is out has no row in the feed any more.
FeedPolled(p) ==
  /\ source[p] = "copytrade" /\ buys[p] > 0 /\ ladder[p] < MaxSeq
  /\ feed' = [feed EXCEPT ![p] = ladder[p]]
  /\ UNCHANGED <<wallet, file, ladder, book, loop, left, reads, feedvars, hist>>

FeedAges(p) ==
  /\ feed[p] # None /\ feed' = [feed EXCEPT ![p] = None]
  /\ UNCHANGED <<wallet, file, ladder, book, loop, left, reads, feedvars, hist>>

Quote(p) ==
  /\ book' \in [Positions -> Books] /\ \A q \in Positions \ {p} : book'[q] = book[q]
  /\ UNCHANGED <<wallet, file, ladder, feed, loop, left, reads, feedvars, hist>>

Selling(l) == loop[l].at \in {"take", "follow", "sell", "sports"}

CopyStep(l) ==
  \/ ReadPrice(l) \/ Asked(l) \/ AskFails(l)
  \/ Selling(l) /\ \E k \in Answers, n \in Shares : Took(l, k, n) \/ Followed(l, k, n)

CycleStep ==
  \/ CycleBegins \/ CycleReconciles \/ CycleHoldingsFail \/ Edge
  \/ \E p \in Positions : CycleVisits(p) \/ EntryConsidered(p)
  \/ CopyStep("cycle") \/ CycleEnters \/ CycleEnds \/ EntryWaits
  \/ Selling("cycle") /\ \E n \in Shares : Sold(n) \/ \E k \in Answers : Sports(k, n)
  \/ \E n \in 0..Size : EntryFills(n) \/ EntryFails(n)

Next ==
  \/ CycleStep \/ CopyStep("tp")
  \/ \E p \in Positions : \/ TpBegins(p) \/ EngineBuys(p) \/ WhaleSells(p)
                          \/ FeedPolled(p) \/ FeedAges(p) \/ Quote(p)

\* The cycle goes on, feed rows age, and the holdings, the server and the venue
\* do not fail for ever: a sale tried again and again sells and is answered.
Fairness ==
  /\ WF_vars(CycleStep)
  /\ \A p \in Positions : WF_vars(FeedAges(p))
  /\ SF_vars(CycleReconciles) /\ SF_vars(Asked("cycle"))
  /\ SF_vars(Selling("cycle") /\ \E n \in Shares \ {0} :
               \/ Sold(n)
               \/ \E k \in Answers \ {0} : Took("cycle", k, n) \/ Followed("cycle", k, n))

Spec == Init /\ [][Next]_vars /\ Fairness

(***************************************************************************)
(* Properties.                                                             *)
(***************************************************************************)

\* No step of the whale is burned: when the record of a position says that a
\* step was followed, shares were sold for that very step, or the venue took
\* the order for it and nobody could read its answer.
StepsAreSold == TypeOK /\
  \A p \in Positions : file[p] # None /\ file[p].seq > 0
    => <<p, file[p].seq>> \in ladderTaken

\* A market of the feed is bought once in thirty days, whatever happened to the
\* position since, but for the fills whose answer was lost.
FeedBuysOnce ==
  \A p \in Positions : source[p] \in FeedSources
    => buys[p] <= 1 + unsure[p] + forgot[p]

\* Even so no purchase of the feed adds to shares the wallet holds, though an
\* earlier one's answer was lost, its mark is gone or the file has lost it.
NeverDoubles ==
  [][\A p \in Positions : source[p] \in FeedSources /\ wallet'[p] > wallet[p]
                              => wallet[p] = 0]_vars

\* The whale's last word is followed: a copy on file comes to have executed
\* each step he has taken by then, or to be gone, whatever the feed shows and
\* whichever loop asks; but not if the file lost it meanwhile: it then comes
\* back as adopted and no longer follows him.
FollowsWhale ==
  \A p \in Positions :
    file[p] # None /\ file[p].src = "copytrade"
      ~> \/ wallet[p] = 0 \/ file[p] = None \/ file[p].src = "adopted"
         \/ file[p].seq >= ladder[p]

\* A winner does not stay: a position whose book stays at 99c is sold, also
\* one the file had lost for a while.  cert15 holds to the resolution; a bot
\* of its owner's under the v2 strategy has no take-profit on a copy.
WinnersAreSold ==
  \A p \in Positions :
    <>[](book[p].mid = 99 /\ book[p].bid = 99)
      => <>[](\/ wallet[p] = 0 \/ source[p] = "cert15"
              \/ source[p] = "copytrade" /\ account.v2 /\ ~account.hosted)

=============================================================================
