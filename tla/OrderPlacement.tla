--------------------------- MODULE OrderPlacement ---------------------------
(***************************************************************************)
(* The money path of one account on one token: placeWithRetry (BUY) and    *)
(* marketableSell (SELL) of src/bot.mjs, placeOrder, settlePlacement and   *)
(* awaitDelayedFill of src/polymarket.mjs, the sign context of             *)
(* src/remote-signer.mjs and the outcome report to the platform.           *)
(*                                                                         *)
(* Several decision loops (Callers) run concurrently in one process and    *)
(* interleave at every await: the platform signature, the post to the      *)
(* venue, each poll of a delayed order.  The venue is external: it may     *)
(* reject, kill, match or delay an order, its answer may be lost on the    *)
(* way back, and the trades of a match become visible one by one.          *)
(*                                                                         *)
(* Prices are left out: a share costs one unit.  Time is left out except   *)
(* for what expires: the deadline of a poll loop and the hold window of a  *)
(* lock are actions that may happen at any moment they are armed.          *)
(***************************************************************************)
EXTENDS Naturals, FiniteSets, Functions

CONSTANTS
  Callers,       \* decision loops that place orders on this token
  Sides,         \* the sides they trade, a subset of {"BUY", "SELL"}
  MaxOrders,     \* bound: orders signed in one behaviour
  Size,          \* shares a decision asks for
  Holding,       \* shares of the token held at the start
  MaxAttempts,   \* posts of one SELL decision (5 in marketableSellInner)
  MaxReposts,    \* re-posts after explicit rejections (2 in placeOrder)
  HourCap,       \* rolling buy-volume ceiling of riskClampBuy, in shares
  MaxHourBuys,   \* count backstop of riskClampBuy
  PerToken       \* TRUE: all BUYs pass copytrade's inFlightBuys

ASSUME CallersFinite == IsFiniteSet(Callers) /\ Callers # {}
ASSUME SidesKnown == Sides \subseteq {"BUY", "SELL"}
ASSUME BoundsAreNatural ==
  /\ MaxOrders \in Nat /\ Size \in Nat \ {0} /\ Holding \in Nat
  /\ MaxAttempts \in Nat \ {0} /\ MaxReposts \in Nat
  /\ HourCap \in Nat /\ MaxHourBuys \in Nat
ASSUME PerTokenIsBoolean == PerToken \in BOOLEAN

Orders == 1 .. MaxOrders
None == 0                        \* no order, no signed row
OrderOrNone == 0 .. MaxOrders
Trades == 1 .. Size              \* trade ids of one order, one share each

VARIABLES
  pc,        \* each decision loop: where it is
  ctx,       \* each decision loop: the decision and its sign context
  post,      \* each decision loop: the post in flight
  locks,     \* delayedLocks, per side
  order,     \* what was signed: side, size, and the decision it belongs to
  venue,     \* external: the venue's state of each order
  booked,    \* the verdict placeOrder returned on each order and its shares
  cloud,     \* the platform's cloud_orders row of each order
  ledger     \* risk-ledger.json: the buys recorded in the rolling window

vars == <<pc, ctx, post, locks, order, venue, booked, cloud, ledger>>

\* The decision and its sign context.
\*   attempt   post number inside the decision
\*   size      shares of the current post, after riskClampBuy
\*   reposts   re-posts placeOrder may still make after an explicit rejection
\*   decision  first order signed for the decision (its identity here)
\*   row       orderRowId of the sign context: the last order it signed
Context == [side: {"BUY", "SELL"}, attempt: 1 .. MaxAttempts, size: 0 .. Size,
            reposts: 0 .. MaxReposts, decision: OrderOrNone, row: OrderOrNone]
NoContext == [side |-> "BUY", attempt |-> 1, size |-> 0, reposts |-> 0,
              decision |-> None, row |-> None]

\* One post of the decision.
\*   cur       the order being posted or followed
\*   reply     the venue's answer on its way back
\*   legs      trades awaitDelayedFill attributed on its first read
\*   seen      size_matched of the last order record read
PostState == [cur: OrderOrNone,
              reply: {"none", "lost", "rejected", "zero", "fill", "unreadable",
                      "delayed", "noid"},
              legs: SUBSET Trades, seen: 0 .. Size]
NoPost == [cur |-> None, reply |-> "none", legs |-> {}, seen |-> 0]

NoLock == [order |-> None, held |-> FALSE]
Locked(s) == locks[s].order # None

Steps == {"idle", "place", "sign", "post", "reply", "settle", "confirm"}
LockState == [order: OrderOrNone, held: BOOLEAN]
OrderState == [side: {"none", "BUY", "SELL"}, size: 0 .. Size,
               decision: OrderOrNone]
VenueState == [stat: {"none", "rejected", "killed", "delayed", "matching",
                      "closed"},
               filled: 0 .. Size, visible: SUBSET Trades]
Verdict == [verdict: {"none", "filled", "killed", "ambiguous", "unknown"},
            shares: 0 .. Size]

LoopsTyped ==
  pc \in [Callers -> Steps] /\ ctx \in [Callers -> Context]
    /\ post \in [Callers -> PostState]

RecordsTyped ==
  /\ locks \in [{"BUY", "SELL"} -> LockState]
  /\ order \in [Orders -> OrderState]
  /\ booked \in [Orders -> Verdict]
  /\ cloud \in [Orders -> {"none", "open", "zero", "filled"}]
  /\ ledger \in [usd: Nat, buys: Nat]

TypeOK == LoopsTyped /\ RecordsTyped /\ venue \in [Orders -> VenueState]

Init ==
  /\ pc = [c \in Callers |-> "idle"]
  /\ ctx = [c \in Callers |-> NoContext]
  /\ post = [c \in Callers |-> NoPost]
  /\ locks = [s \in {"BUY", "SELL"} |-> NoLock]
  /\ order = [o \in Orders |-> [side |-> "none", size |-> 0, decision |-> None]]
  /\ venue = [o \in Orders |-> [stat |-> "none", filled |-> 0, visible |-> {}]]
  /\ booked = [o \in Orders |-> [verdict |-> "none", shares |-> 0]]
  /\ cloud = [o \in Orders |-> "none"]
  /\ ledger = [usd |-> 0, buys |-> 0]

-----------------------------------------------------------------------------
(***************************************************************************)
(* The decision: a loop starts placing a BUY or a SELL.                    *)
(***************************************************************************)
To(c, step) == pc' = [pc EXCEPT ![c] = step]

\* Mutant: the claim on the token is dropped.
AnyTokenIsFree(c) == TRUE

\* copytrade's buy() claims the token before its first await.
TokenFree(c) == \A d \in Callers : pc[d] # "idle" => ctx[d].side # "BUY"

Decide(c, s) ==
  /\ pc[c] = "idle"
  /\ PerToken /\ s = "BUY" => TokenFree(c)
  /\ To(c, "place")
  /\ ctx' = [ctx EXCEPT ![c].side = s]
  /\ UNCHANGED <<post, locks, order, venue, booked, cloud, ledger>>

\* closeOutCloudOrder: the outcome goes to the row of the SIGN CONTEXT,
\* whatever order the verdict is about; nothing was signed, nothing is sent.
CloseOut(c, outcome) ==
  cloud' = IF ctx[c].row = None THEN cloud
           ELSE [cloud EXCEPT ![ctx[c].row] = outcome]

\* The decision ends: its sign context is dropped.
Finish(c) ==
  /\ To(c, "idle")
  /\ ctx' = [ctx EXCEPT ![c] = NoContext]
  /\ post' = [post EXCEPT ![c] = NoPost]

\* Mutant: every failure is reported as zero.
AnyFailureIsZero(c, definitelyNothing) == Finish(c) /\ CloseOut(c, "zero")

\* A post that did not fill and is not definitive.  A BUY is never retried and
\* reports zero only for a definite zero; a SELL is posted again, re-priced,
\* in the same sign context, and reports after its last attempt.
AfterFailure(c, definitelyNothing) ==
  IF ctx[c].side = "SELL" /\ ctx[c].attempt < MaxAttempts
  THEN /\ To(c, "place")
       /\ ctx' = [ctx EXCEPT ![c].attempt = @ + 1]
       /\ post' = [post EXCEPT ![c] = NoPost]
       /\ UNCHANGED cloud
  ELSE /\ Finish(c)
       /\ IF definitelyNothing THEN CloseOut(c, "zero") ELSE UNCHANGED cloud

-----------------------------------------------------------------------------
(***************************************************************************)
(* placeOrder up to the post.                                              *)
(***************************************************************************)
\* riskClampBuy's room; below the floor of one share the buy is refused.
Room == IF ledger.buys >= MaxHourBuys \/ ledger.usd >= HourCap THEN 0
        ELSE HourCap - ledger.usd

\* A live lock on (token, side): 409 delayed_inflight, definitive.
PlaceLocked(c) ==
  /\ pc[c] = "place"
  /\ Locked(ctx[c].side)
  /\ CloseOut(c, "zero")
  /\ Finish(c)
  /\ UNCHANGED <<locks, order, venue, booked, ledger>>

\* fleet halt, risk cap or dust: a BUY that places nothing, meta.size = 0.
PlaceRefused(c) ==
  /\ pc[c] = "place"
  /\ ctx[c].side = "BUY"
  /\ ~Locked("BUY")
  /\ AfterFailure(c, TRUE)
  /\ UNCHANGED <<locks, order, venue, booked, ledger>>

\* marketableSellInner between attempts: no bid at the floor, or dust at the
\* bid: the position is held, nothing is reported.
SellHeld(c) ==
  /\ pc[c] = "place"
  /\ ctx[c].side = "SELL"
  /\ Finish(c)
  /\ UNCHANGED <<locks, order, venue, booked, cloud, ledger>>

\* Mutant: the room of the rolling window is not looked at.
AcceptWithoutRoom(c) ==
  /\ pc[c] = "place"
  /\ ~Locked(ctx[c].side)
  /\ To(c, "sign")
  /\ ctx' = [ctx EXCEPT ![c].size = Size]
  /\ UNCHANGED <<post, locks, order, venue, booked, cloud, ledger>>

\* The post goes ahead.  The rotation picks an affiliate client or not, and a
\* deposit-wallet account has not been recovered yet or has.
PlaceAccepted(c) ==
  /\ pc[c] = "place"
  /\ ~Locked(ctx[c].side)
  /\ ctx[c].side = "BUY" => Room > 0
  /\ To(c, "sign")
  /\ \E n \in 0 .. MaxReposts :
       ctx' = [ctx EXCEPT ![c].reposts = n,
                 ![c].size = IF ctx[c].side = "BUY" /\ Room < Size
                             THEN Room ELSE Size]
  /\ UNCHANGED <<post, locks, order, venue, booked, cloud, ledger>>

-----------------------------------------------------------------------------
(***************************************************************************)
(* attempt(): sign at the platform, post to the venue.                     *)
(***************************************************************************)
Fresh(o) == order[o].side = "none" /\ \A p \in 1 .. (o - 1) : order[p].side # "none"

\* The platform signs: one cloud_orders row, exposure counted in full.
SignGranted(c) ==
  /\ pc[c] = "sign"
  /\ \E o \in Orders :
       LET d == IF ctx[c].decision = None THEN o ELSE ctx[c].decision
       IN /\ Fresh(o)
          /\ To(c, "post")
          /\ ctx' = [ctx EXCEPT ![c].row = o, ![c].decision = d]
          /\ post' = [post EXCEPT ![c].cur = o]
          /\ order' = [order EXCEPT ![o] = [side |-> ctx[c].side,
                                   size |-> ctx[c].size, decision |-> d]]
          /\ cloud' = [cloud EXCEPT ![o] = "open"]
  /\ UNCHANGED <<locks, venue, booked, ledger>>

\* A definitive refusal (duplicate, signature cap, halt...) stops the loop.
SignRefused(c) ==
  /\ pc[c] = "sign"
  /\ CloseOut(c, "zero")
  /\ Finish(c)
  /\ UNCHANGED <<locks, order, venue, booked, ledger>>

\* A transient refusal or a timeout throws out of createAndPostOrder.
SignFailed(c) ==
  /\ pc[c] = "sign"
  /\ AfterFailure(c, FALSE)
  /\ UNCHANGED <<locks, order, venue, booked, ledger>>

\* External: the account cannot sell more shares than it holds.
SharesOf(s) == SumFunctionOnSet([o \in Orders |-> venue[o].filled],
                                {o \in Orders : order[o].side = s})
CanFill(o, k) ==
  /\ k <= order[o].size
  /\ order[o].side = "SELL" =>
       SharesOf("SELL") + k <= Holding + SharesOf("BUY")

\* External: the post is lost before the venue, or the venue takes it in one
\* step and its answer is delivered or lost.
Answer(c, o, stat, filled, answers) ==
  /\ venue' = [venue EXCEPT ![o].stat = stat, ![o].filled = filled]
  /\ To(c, "reply")
  /\ \E a \in answers \cup {"lost"} : post' = [post EXCEPT ![c].reply = a]
  /\ UNCHANGED <<ctx, locks, order, booked, cloud, ledger>>

PostLost(c) ==
  /\ pc[c] = "post"
  /\ To(c, "reply")
  /\ post' = [post EXCEPT ![c].reply = "lost"]
  /\ UNCHANGED <<ctx, locks, order, venue, booked, cloud, ledger>>

PostRejected(c) ==
  pc[c] = "post" /\ Answer(c, post[c].cur, "rejected", 0, {"rejected"})

PostKilled(c) ==
  pc[c] = "post" /\ Answer(c, post[c].cur, "killed", 0, {"zero"})

PostMatched(c) ==
  /\ pc[c] = "post"
  /\ \E k \in Trades :
       /\ CanFill(post[c].cur, k)
       /\ Answer(c, post[c].cur, "closed", k, {"fill", "unreadable"})

PostDelayed(c) ==
  pc[c] = "post" /\ Answer(c, post[c].cur, "delayed", 0, {"delayed", "noid"})

-----------------------------------------------------------------------------
(***************************************************************************)
(* attempt(): reading the venue's answer.                                  *)
(***************************************************************************)
Book(o, verdict, shares) ==
  booked' = [booked EXCEPT ![o] = [verdict |-> verdict, shares |-> shares]]

\* riskRecordBuy: only a readable fill of a BUY enters the rolling window.
RecordBuy(c, shares) ==
  ledger' = IF ctx[c].side = "SELL" THEN ledger
            ELSE [usd |-> ledger.usd + shares, buys |-> ledger.buys + 1]

\* ok:true with a fill: the outcome report carries the filled shares.
Filled(c, shares) ==
  /\ Book(post[c].cur, "filled", shares)
  /\ RecordBuy(c, shares)
  /\ CloseOut(c, "filled")
  /\ Finish(c)

\* A throw is transport-level: the order may be live.
ReplyLost(c) ==
  /\ pc[c] = "reply" /\ post[c].reply = "lost"
  /\ AfterFailure(c, FALSE)
  /\ UNCHANGED <<locks, order, venue, booked, ledger>>

\* Mutant: a lost answer is taken for a rejection and posted again.
RepostAfterLoss(c) ==
  /\ pc[c] = "reply" /\ post[c].reply \in {"rejected", "lost"}
  /\ ctx[c].reposts > 0
  /\ To(c, "sign")
  /\ ctx' = [ctx EXCEPT ![c].reposts = @ - 1]
  /\ post' = [post EXCEPT ![c] = NoPost]
  /\ UNCHANGED <<locks, order, venue, booked, cloud, ledger>>

\* An explicit rejection: re-posted with the recovered or the plain client.
ReplyRejectedRepost(c) ==
  /\ pc[c] = "reply" /\ post[c].reply = "rejected"
  /\ ctx[c].reposts > 0
  /\ To(c, "sign")
  /\ ctx' = [ctx EXCEPT ![c].reposts = @ - 1]
  /\ post' = [post EXCEPT ![c] = NoPost]
  /\ UNCHANGED <<locks, order, venue, booked, cloud, ledger>>

ReplyRejected(c) ==
  /\ pc[c] = "reply" /\ post[c].reply = "rejected"
  /\ ctx[c].reposts = 0
  /\ AfterFailure(c, TRUE)
  /\ UNCHANGED <<locks, order, venue, booked, ledger>>

\* "FAK killed: nothing filled".
ReplyZero(c) ==
  /\ pc[c] = "reply" /\ post[c].reply = "zero"
  /\ Book(post[c].cur, "killed", 0)
  /\ AfterFailure(c, TRUE)
  /\ UNCHANGED <<locks, order, venue, ledger>>

ReplyFill(c) ==
  /\ pc[c] = "reply" /\ post[c].reply = "fill"
  /\ Filled(c, venue[post[c].cur].filled)
  /\ UNCHANGED <<locks, order, venue>>

\* No readable fill info: ok:true, the request is reported, flagged fill_unknown.
ReplyUnreadable(c) ==
  /\ pc[c] = "reply" /\ post[c].reply = "unreadable"
  /\ Book(post[c].cur, "unknown", ctx[c].size)
  /\ CloseOut(c, "filled")
  /\ Finish(c)
  /\ UNCHANGED <<locks, order, venue, ledger>>

\* settlePlacement takes the (token, side) lock, whoever holds it.
ReplyDelayed(c) ==
  /\ pc[c] = "reply" /\ post[c].reply = "delayed"
  /\ locks' = [locks EXCEPT ![ctx[c].side] =
                 [order |-> post[c].cur, held |-> FALSE]]
  /\ To(c, "settle")
  /\ post' = [post EXCEPT ![c].reply = "none"]
  /\ UNCHANGED <<ctx, order, venue, booked, cloud, ledger>>

\* Delayed without an orderID: ambiguous, and no lock.
ReplyNoId(c) ==
  /\ pc[c] = "reply" /\ post[c].reply = "noid"
  /\ Book(post[c].cur, "ambiguous", 0)
  /\ AfterFailure(c, FALSE)
  /\ UNCHANGED <<locks, order, venue, ledger>>

-----------------------------------------------------------------------------
(***************************************************************************)
(* awaitDelayedFill and settlePlacement: following a delayed order.        *)
(***************************************************************************)
\* A terminal verdict deletes the lock BY KEY, not by owner.
Unlock(c) == locks' = [locks EXCEPT ![ctx[c].side] = NoLock]

\* Trades first: a read that finds trades naming our order is confirmed by a
\* second read.  A read that fails or finds none falls through to the record.
PollTrades(c) ==
  /\ pc[c] = "settle"
  /\ venue[post[c].cur].visible # {}
  /\ To(c, "confirm")
  /\ post' = [post EXCEPT ![c].legs = venue[post[c].cur].visible]
  /\ UNCHANGED <<ctx, locks, order, venue, booked, cloud, ledger>>

\* Mutant: the shares of the two reads are added up.
AddedLegs(c, again) == Cardinality(post[c].legs) + Cardinality(again)

\* The two reads are merged by trade id; the second may fail.
MergedLegs(c, again) == Cardinality(post[c].legs \cup again)

ConfirmTrades(c) ==
  /\ pc[c] = "confirm"
  /\ \E again \in {{}, venue[post[c].cur].visible} : Filled(c, MergedLegs(c, again))
  /\ Unlock(c)
  /\ UNCHANGED <<order, venue>>

\* The order record is terminal by status, or because all of it matched.
RecordTerminal(o) ==
  \/ venue[o].stat \in {"killed", "closed"}
  \/ venue[o].stat = "matching" /\ venue[o].filled >= order[o].size

PollRecordFilled(c) ==
  /\ pc[c] = "settle"
  /\ RecordTerminal(post[c].cur)
  /\ venue[post[c].cur].filled > 0
  /\ Filled(c, venue[post[c].cur].filled)
  /\ Unlock(c)
  /\ UNCHANGED <<order, venue>>

PollRecordKilled(c) ==
  /\ pc[c] = "settle"
  /\ RecordTerminal(post[c].cur)
  /\ venue[post[c].cur].filled = 0
  /\ Book(post[c].cur, "killed", 0)
  /\ Unlock(c)
  /\ AfterFailure(c, TRUE)
  /\ UNCHANGED <<order, venue, ledger>>

\* A live record: its size_matched is remembered for the deadline.
PollRecordLive(c) ==
  /\ pc[c] = "settle"
  /\ ~RecordTerminal(post[c].cur)
  /\ post[c].seen # venue[post[c].cur].filled
  /\ post' = [post EXCEPT ![c].seen = venue[post[c].cur].filled]
  /\ UNCHANGED <<pc, ctx, locks, order, venue, booked, cloud, ledger>>

\* The poll window ends: a partial already seen is final...
DeadlinePartial(c) ==
  /\ pc[c] = "settle"
  /\ post[c].seen > 0
  /\ Filled(c, post[c].seen)
  /\ Unlock(c)
  /\ UNCHANGED <<order, venue>>

\* Mutant: the hold window is not armed.
AmbiguousLeavesPending(c) ==
  /\ pc[c] = "settle"
  /\ post[c].seen = 0
  /\ Book(post[c].cur, "ambiguous", 0)
  /\ AfterFailure(c, FALSE)
  /\ UNCHANGED <<locks, order, venue, ledger>>

\* ...anything else is ambiguous: the lock is held for the hold window.
DeadlineAmbiguous(c) ==
  /\ pc[c] = "settle"
  /\ post[c].seen = 0
  /\ Book(post[c].cur, "ambiguous", 0)
  /\ locks' = [locks EXCEPT ![ctx[c].side] =
                 [order |-> post[c].cur, held |-> TRUE]]
  /\ AfterFailure(c, FALSE)
  /\ UNCHANGED <<order, venue, ledger>>

\* Mutant: a lock is dropped only by a verdict, never by its age.
ExpiresNever(s) == FALSE /\ UNCHANGED vars

\* delayedLockFor drops a lock whose hold window has passed.
LockExpires(s) ==
  /\ Locked(s) /\ locks[s].held
  /\ locks' = [locks EXCEPT ![s] = NoLock]
  /\ UNCHANGED <<pc, ctx, post, order, venue, booked, cloud, ledger>>

-----------------------------------------------------------------------------
(***************************************************************************)
(* External: the venue works on a delayed order.  It matches once, may     *)
(* close the unfilled rest a moment later, and shows the trades one by one. *)
(***************************************************************************)
VenueMatches(o) ==
  /\ venue[o].stat = "delayed"
  /\ \E k \in Trades :
       /\ CanFill(o, k)
       /\ venue' = [venue EXCEPT ![o].stat = "matching", ![o].filled = k]
  /\ UNCHANGED <<pc, ctx, post, locks, order, booked, cloud, ledger>>

VenueKills(o) ==
  /\ venue[o].stat = "delayed"
  /\ venue' = [venue EXCEPT ![o].stat = "killed"]
  /\ UNCHANGED <<pc, ctx, post, locks, order, booked, cloud, ledger>>

VenueCloses(o) ==
  /\ venue[o].stat = "matching"
  /\ venue' = [venue EXCEPT ![o].stat = "closed"]
  /\ UNCHANGED <<pc, ctx, post, locks, order, booked, cloud, ledger>>

VenueShows(o) ==
  /\ \E t \in (1 .. venue[o].filled) \ venue[o].visible :
       venue' = [venue EXCEPT ![o].visible = @ \cup {t}]
  /\ UNCHANGED <<pc, ctx, post, locks, order, booked, cloud, ledger>>

\* The process dies: locks and sign contexts are in memory, risk-ledger.json
\* is on disk.
Restart ==
  /\ \E c \in Callers : pc[c] # "idle"
  /\ pc' = [c \in Callers |-> "idle"]
  /\ ctx' = [c \in Callers |-> NoContext]
  /\ post' = [c \in Callers |-> NoPost]
  /\ locks' = [s \in {"BUY", "SELL"} |-> NoLock]
  /\ UNCHANGED <<order, venue, booked, cloud, ledger>>

-----------------------------------------------------------------------------
Place(c) == PlaceLocked(c) \/ PlaceRefused(c) \/ PlaceAccepted(c) \/ SellHeld(c)
Sign(c) == SignGranted(c) \/ SignRefused(c) \/ SignFailed(c)
Post(c) == \/ PostLost(c) \/ PostRejected(c) \/ PostKilled(c)
           \/ PostMatched(c) \/ PostDelayed(c)
Reply(c) == \/ ReplyLost(c) \/ ReplyRejectedRepost(c) \/ ReplyRejected(c)
            \/ ReplyZero(c) \/ ReplyFill(c) \/ ReplyUnreadable(c)
            \/ ReplyDelayed(c) \/ ReplyNoId(c)
Settle(c) == \/ PollTrades(c) \/ ConfirmTrades(c) \/ PollRecordFilled(c)
             \/ PollRecordKilled(c) \/ PollRecordLive(c)
             \/ DeadlinePartial(c) \/ DeadlineAmbiguous(c)
Venue(o) == VenueMatches(o) \/ VenueKills(o) \/ VenueCloses(o) \/ VenueShows(o)

Next ==
  \/ \E c \in Callers :
       \/ \E s \in Sides : Decide(c, s)
       \/ Place(c) \/ Sign(c) \/ Post(c) \/ Reply(c) \/ Settle(c)
  \/ \E s \in Sides : LockExpires(s)
  \/ \E o \in Orders : Venue(o)
  \/ Restart

Spec == Init /\ [][Next]_vars

\* The poll loop of awaitDelayedFill has a deadline on every read and on the
\* whole window, and a hold window passes; nothing else is assumed to happen.
Fairness ==
  /\ \A c \in Callers : WF_vars(Settle(c))
  /\ \A s \in Sides : WF_vars(LockExpires(s))
FairSpec == Spec /\ Fairness

-----------------------------------------------------------------------------
(***************************************************************************)
(* Properties.                                                             *)
(***************************************************************************)
\* Reporting zero to the platform hands the exposure back, so it must be true:
\* an order reported as zero was refused or killed by the venue and can never
\* fill (closeOutCloudOrder, placeWithRetry's definitelyNothing).
ZeroReportsAreTrue(s) ==
  \A o \in Orders : order[o].side = s /\ cloud[o] = "zero" =>
     venue[o].stat \in {"rejected", "killed"}

\* The BUY path keeps it: every unresolved or unreadable BUY stays counted.
BuyZeroReportsAreTrue == ZeroReportsAreTrue("BUY")

\* What bot.mjs says of every verdict, taken for the SELL path, whose attempts
\* share one sign context: an unresolved sell is never reported as zero.  False
\* (see the README).
SellZeroReportsAreTrue == ZeroReportsAreTrue("SELL")

\* The booked verdict is the venue's truth: a fill is booked for at most what
\* matched (each trade once, over two reads and a record), never for nothing,
\* and "killed" is said only of an order the venue killed empty.
VerdictsMatchVenue ==
  \A o \in Orders :
     /\ booked[o].verdict = "filled" => booked[o].shares \in 1 .. venue[o].filled
     /\ booked[o].verdict = "killed" => venue[o].stat = "killed"

\* One BUY decision, one order: whatever is lost, refused or re-posted with
\* another client, at most one order of the decision was taken by the venue.
OneOrderPerBuyDecision ==
  \A o, p \in Orders :
     /\ o # p
     /\ order[o].side = "BUY" /\ order[o].decision = order[p].decision
     => venue[o].stat \in {"none", "rejected"} \/ venue[p].stat \in {"none", "rejected"}

\* "A pending lock lives exactly as long as the settle loop that owns it": no
\* token is ever locked by an order that nobody follows any more.
Follows(c, s) == pc[c] \in {"settle", "confirm"} /\ ctx[c].side = s
PendingLockHasOwner ==
  \A s \in Sides : Locked(s) /\ ~locks[s].held =>
     \E c \in Callers : Follows(c, s) /\ post[c].cur = locks[s].order

\* PROOF.md's hard invariant: no order is issued on a (token, side) while a
\* delayed order of that side has neither a terminal nor an ambiguous verdict.
NoIssueWhileUnresolved ==
  [][\A c, d \in Callers :
       pc[c] = "place" /\ pc'[c] = "sign" => ~Follows(d, ctx[c].side)]_vars

\* Clamping before the post and recording after the fill lets concurrent loops
\* share the same room, but never by more than one post of every other loop.
GovernorOvershootBounded ==
  ledger.usd <= HourCap + (Cardinality(Callers) - 1) * Size

\* No lock is for ever: the owner's poll loop ends, a hold window passes.
LocksAreReleased == \A s \in Sides : Locked(s) ~> ~Locked(s)

-----------------------------------------------------------------------------
(***************************************************************************)
(* The inductive invariant behind the safety properties: what ties a loop  *)
(* to the orders it signed and to the venue's state of the order in hand.  *)
(***************************************************************************)
InFlight == {"post", "reply", "settle", "confirm"}
Working == {"delayed", "matching", "killed", "closed"}

\* An order nobody signed is blank, a signed one belongs to a signed decision.
OrdersCoherent ==
  \A o \in Orders :
     /\ order[o].side = "none" =>
          /\ order[o].decision = None
          /\ venue[o].stat = "none" /\ booked[o].verdict = "none"
          /\ cloud[o] = "none"
     /\ order[o].side # "none" =>
          order[o].decision \in {d \in Orders : order[d].side # "none"}

\* Only a matched order is filled, and it shows no trade beyond its fill.
VenueCoherent ==
  \A o \in Orders :
     /\ (venue[o].filled > 0) <=> (venue[o].stat \in {"matching", "closed"})
     /\ venue[o].visible \subseteq 1 .. venue[o].filled

\* The sign context names the last order of its decision, and the order in
\* hand is that order.
ContextCoherent(c) ==
  /\ (ctx[c].row = None) <=> (ctx[c].decision = None)
  /\ ctx[c].row # None => order[ctx[c].row].decision = ctx[c].decision
  /\ pc[c] = "idle" => ctx[c].row = None
  /\ pc[c] \in InFlight => post[c].cur = ctx[c].row /\ ctx[c].row # None
  /\ pc[c] \notin InFlight => post[c] = NoPost

\* All orders of a running decision have its side; two loops never share one.
DecisionIsPrivate(c) ==
  ctx[c].decision # None =>
    /\ \A o \in Orders : order[o].decision = ctx[c].decision =>
         order[o].side = ctx[c].side
    /\ \A d \in Callers \ {c} : ctx[d].decision # ctx[c].decision

\* A BUY posts again only after an explicit rejection: all the earlier orders
\* of its decision are rejected, and it never comes back to place.
EarlierBuysRejected(c) ==
  ctx[c].side = "BUY" /\ ctx[c].decision # None =>
    /\ pc[c] # "place"
    /\ \A o \in Orders :
         order[o].decision = ctx[c].decision /\ o # post[c].cur =>
           venue[o].stat = "rejected"

\* What the loop knows of the order in hand is true at the venue.
PostTrue(c) ==
  LET v == venue[post[c].cur]
  IN /\ pc[c] = "post" => v.stat = "none"
     /\ pc[c] \in {"post", "reply"} => post[c].seen = 0
     /\ pc[c] = "reply" =>
          /\ post[c].reply = "rejected" => v.stat = "rejected"
          /\ post[c].reply = "zero" => v.stat = "killed"
          /\ post[c].reply = "fill" => v.stat = "closed"
          /\ post[c].reply \in {"delayed", "noid"} => v.stat \in Working
     /\ pc[c] \in {"settle", "confirm"} =>
          v.stat \in Working /\ post[c].seen <= v.filled
     /\ pc[c] = "confirm" => post[c].legs # {} /\ post[c].legs \subseteq 1 .. v.filled

LoopsCoherent ==
  \A c \in Callers : /\ ContextCoherent(c) /\ DecisionIsPrivate(c)
                     /\ EarlierBuysRejected(c) /\ PostTrue(c)

IInv ==
  /\ TypeOK /\ OrdersCoherent /\ VenueCoherent /\ LoopsCoherent
  /\ BuyZeroReportsAreTrue /\ VerdictsMatchVenue /\ OneOrderPerBuyDecision
  /\ PendingLockHasOwner
=============================================================================
