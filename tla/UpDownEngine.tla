---------------------------- MODULE UpDownEngine ----------------------------
(***************************************************************************)
(* An up/down engine of one bot (qtable2.mjs; cert15.mjs is the same loop  *)
(* with other gates and no wedge backstop, which qtable2 has only under    *)
(* the launcher, COSMOS_LAUNCHER=1).  A pass every 250 ms walks the        *)
(* candle markets discovered, compares the spot price of its feed with the *)
(* price at the opening of the candle, and orders once a market where the  *)
(* two differ.  A watchdog kicks a feed that went silent on an open        *)
(* socket.  The unit of time is five minutes, the limit of both watchdogs  *)
(* and the trust in a reference is less than one; the price is constant in *)
(* a unit; candle m opens at m and is open for two.                        *)
(***************************************************************************)
EXTENDS Integers, Sequences, FiniteSets

CONSTANTS
  Candles,     \* bound: the markets are 1..Candles
  Prices,      \* prices that differ by more than the engine's minimum
  MaxOpen,     \* QTABLE2_MAX_OPEN
  MaxPerHour,  \* QTABLE2_MAX_PER_HOUR
  Hour,        \* the units of the rolling hour
  MaxFails,    \* failed orders after which a market is given up, the last a 4xx
  MaxTries     \* failed orders after which it is given up at all

ASSUME EngineBounds == {Candles, MaxOpen, MaxPerHour, Hour, MaxFails, MaxTries}
                          \subseteq Nat \ {0}

Market  == 1..Candles
Opens(m) == m
Ends(m) == m + 2
MaxTime == Candles + 3       \* all candles have long ended
None    == "none"
ASSUME PricesAssumption == Prices # {} /\ None \notin Prices
FirstPrice == CHOOSE p \in Prices : TRUE

VARIABLES
  clock, price,
  opening,  \* the price at which each candle opened
  feed,     \* "down", "live", or "half": open, its stream gone
  silence,  \* "never" ticked, "fresh", or "silent" for a unit or more
  kicked,   \* the feed was kicked less than a unit ago, and has not ticked since
  spot,     \* the last price of the feed
  first,    \* the buffered tick each candle is measured from: [at, v], which
            \* came with its opening, or late
  api,      \* candles whose opening price was backfilled
  markets, done, fails,
  file,     \* this engine's records in positions.json
  pass,     \* the pass under way: [at, todo, snap, now, fresh, m, spot]
  hourly,   \* ages of the fills of the rolling hour
  hourFile, \* the same on disk, as of the last write that succeeded
  shots,    \* history: fills this process was answered, by market
  lost,     \* history: fills of orders of this process that it took for failed
  booked,   \* history: ages of the answered fills of the hour, of all processes
  spoiled   \* history: a process began without a mark that one before it had made

world == <<clock, price, opening>>
data  == <<feed, silence, kicked, spot, first, api>>
hist  == <<shots, lost, booked, spoiled>>
hour  == <<hourly, hourFile>>
vars  == <<world, data, markets, done, fails, file, pass, hour, hist>>

NoTick == [at |-> "none", v |-> None]
Rest   == [at |-> "rest", todo |-> {}, snap |-> {}, now |-> 0, fresh |-> FALSE,
           m |-> 0, spot |-> None]
Ages   == UNION {[1..n -> 0..(Hour - 1)] : n \in 0..(MaxPerHour + 1)}

TypeOK ==
  /\ clock \in 0..MaxTime /\ price \in Prices /\ opening \in [Market -> Prices \cup {None}]
  /\ feed \in {"down", "live", "half"} /\ silence \in {"never", "fresh", "silent"}
  /\ kicked \in BOOLEAN /\ spot \in Prices \cup {None}
  /\ first \in [Market -> [at : {"none", "opening", "late"}, v : Prices \cup {None}]] /\ api \subseteq Market
  /\ markets \subseteq Market /\ done \subseteq Market /\ file \subseteq Market
  /\ fails \in [Market -> 0..MaxTries]
  /\ pass \in [at : {"rest", "book", "order", "hung"}, todo : SUBSET Market,
               snap : SUBSET Market, now : 0..MaxTime, fresh : BOOLEAN,
               m : 0..Candles, spot : Prices \cup {None}]
  /\ {hourly, hourFile, booked} \subseteq Ages /\ spoiled \in BOOLEAN
  /\ shots \in [Market -> 0..2] /\ lost \in [Market -> 0..MaxFails]

ProcessStarts ==     \* with the connection of the feed under way
  /\ feed' = "down" /\ silence' = "never" /\ kicked' = FALSE /\ spot' = None
  /\ first' = [m \in Market |-> NoTick] /\ api' = {}
  /\ markets' = {} /\ done' = {} /\ fails' = [m \in Market |-> 0] /\ pass' = Rest
  /\ shots' = [m \in Market |-> 0] /\ lost' = [m \in Market |-> 0]

Init ==
  /\ clock = 0 /\ price = FirstPrice /\ opening = [m \in Market |-> None]
  /\ feed = "down" /\ silence = "never" /\ kicked = FALSE /\ spot = None
  /\ first = [m \in Market |-> NoTick] /\ api = {}
  /\ markets = {} /\ done = {} /\ fails = [m \in Market |-> 0]
  /\ file = {} /\ pass = Rest /\ hourly = <<>> /\ hourFile = <<>>
  /\ shots = [m \in Market |-> 0] /\ lost = [m \in Market |-> 0]
  /\ booked = <<>> /\ spoiled = FALSE

(***************************************************************************)
(* Time passes and the market moves.                                       *)
(***************************************************************************)
\* What is an hour old is shifted off the front, up to the first that is not.
Expired(s) == CHOOSE n \in 0..Len(s) : /\ \A i \in 1..n : s[i] + 1 >= Hour
                                       /\ n < Len(s) => s[n + 1] + 1 < Hour

Older(s) == [i \in 1..(Len(s) - Expired(s)) |-> s[i + Expired(s)] + 1]

Tick(p) ==
  LET t == IF clock < MaxTime THEN clock + 1 ELSE clock IN
  /\ clock' = t /\ price' = IF clock < t THEN p ELSE price
  /\ opening' = [m \in Market |-> IF Opens(m) = t /\ clock < t THEN p ELSE opening[m]]
  /\ silence' = IF silence = "fresh" THEN "silent" ELSE silence
  /\ kicked' = FALSE
  /\ hourly' = Older(hourly) /\ hourFile' = Older(hourFile) /\ booked' = Older(booked)
  /\ UNCHANGED <<feed, spot, first, api, markets, done, fails, file, pass, shots, lost,
                 spoiled>>

(***************************************************************************)
(* The feed of prices and its watchdog.                                    *)
(***************************************************************************)
\* The buffer measures a candle from its first tick since the opening, if it
\* reaches back before it.
FeedTicks ==
  /\ feed = "live"
  /\ silence' = "fresh" /\ kicked' = FALSE /\ spot' = price
  /\ first' = [m \in Market |->
                 IF first[m] = NoTick /\ silence # "never" /\ clock \in Opens(m)..(Ends(m) - 1)
                 THEN [at |-> IF clock = Opens(m) THEN "opening" ELSE "late", v |-> price]
                 ELSE first[m]]
  /\ pass' = IF pass.at \in {"rest", "hung"} THEN pass ELSE [pass EXCEPT !.fresh = TRUE]
  /\ UNCHANGED <<world, feed, api, markets, done, fails, file, hour, hist>>

HalfDies ==
  /\ feed = "live" /\ feed' = "half"
  /\ UNCHANGED <<world, silence, kicked, spot, first, api, markets, done, fails, file,
                 pass, hour, hist>>

Closes ==
  /\ feed # "down" /\ feed' = "down"
  /\ UNCHANGED <<world, silence, kicked, spot, first, api, markets, done, fails, file,
                 pass, hour, hist>>

Reconnects ==      \* 1.5 s later; it subscribes to the whole topic
  /\ feed = "down" /\ feed' = "live"
  /\ UNCHANGED <<world, silence, kicked, spot, first, api, markets, done, fails, file,
                 pass, hour, hist>>

\* A feed that has ticked, and was not kicked just now.
SilentFeed == silence = "silent" /\ ~kicked

Kick ==
  /\ SilentFeed /\ feed' = "down" /\ kicked' = TRUE
  /\ UNCHANGED <<world, silence, spot, first, api, markets, done, fails, file, pass,
                 hour, hist>>

\* Mutant of refFor: the first tick counts, however late.
refForLate(m) == first[m].v

\* A tick is the reference of a candle only if it came with its opening.
refFor(m) == IF first[m].at = "opening" THEN first[m].v ELSE None

strikeFor(m) == IF refFor(m) # None THEN refFor(m) ELSE IF m \in api THEN opening[m] ELSE None

BackfillRefs(m) ==
  /\ m \in markets /\ opening[m] # None /\ clock < Ends(m)
  /\ refFor(m) = None /\ m \notin api /\ api' = api \cup {m}
  /\ UNCHANGED <<world, feed, silence, kicked, spot, first, markets, done, fails, file,
                 pass, hour, hist>>

Discover(m) ==     \* what is near, and not ended, comes back however often
  /\ clock < Ends(m) /\ Ends(m) - clock <= 4
  /\ markets' = {x \in markets : clock < Ends(x)} \cup {m}
  /\ markets' # markets
  /\ UNCHANGED <<world, data, done, fails, file, pass, hour, hist>>

(***************************************************************************)
(* A pass, from await to await.                                            *)
(***************************************************************************)
\* Mutant of Live: a position whose market is over goes on counting.
LiveForEver(P, t) == P

Live(P, t) == {m \in P : t <= Ends(m)}     \* and a grace of 15 minutes

Open(p) == Cardinality(Live(p.snap, p.now))

\* Measured on the clock of the pass, a market in its window, for the first time.
InWindow(p, m) == p.now \in Opens(m)..(Ends(m) - 1)
Candidate(p, m, dn) == InWindow(p, m) /\ m \notin dn \cup p.snap

Displaced(p, m) ==
  LET strike == strikeFor(m) IN strike # None /\ spot \notin {None, strike} /\ p.fresh

\* The pass goes on, with the markets mk and the done markets dn, past markets
\* that are over, held already, or for which the table, the persistence of the
\* move or the side say no: to the book of the next one, or to its end.  At
\* MaxOpen it ends at the first candidate.
Walk(p, mk, dn) ==
  \E X \in SUBSET p.todo :
    /\ markets' = mk \ {m \in X : p.now >= Ends(m) \/ (InWindow(p, m) /\ m \in p.snap \ dn)}
    /\ done' = dn \cup {m \in X \cap p.snap : InWindow(p, m)}
    /\ \/ \E m \in p.todo \ X :
            /\ Candidate(p, m, dn) /\ Displaced(p, m) /\ Open(p) < MaxOpen
            /\ pass' = [p EXCEPT !.at = "book", !.todo = @ \ (X \cup {m}), !.m = m, !.spot = spot]
       \/ /\ X = p.todo \/ \E m \in p.todo \ X : Candidate(p, m, dn) /\ Open(p) >= MaxOpen
          /\ pass' = Rest
    /\ Open(p) >= MaxOpen => \A m \in X : ~Candidate(p, m, dn)

PassBegins ==
  /\ pass.at = "rest" /\ markets # {}
  /\ Walk([Rest EXCEPT !.todo = markets, !.snap = file, !.now = clock,
                       !.fresh = silence = "fresh"], markets, done)
  /\ UNCHANGED <<world, data, fails, file, hour, hist>>

Least(a, b) == IF a < b THEN a ELSE b

HourlyCapped == Len(hourly) >= MaxPerHour

\* The order book answers: an order, the only one of this market, or no edge,
\* no room in the hour or in the cash.
BookRead(buy) ==
  /\ pass.at = "book"
  /\ IF buy /\ ~HourlyCapped
     THEN /\ done' = done \cup {pass.m} /\ pass' = [pass EXCEPT !.at = "order"]
          /\ UNCHANGED markets
     ELSE Walk(pass, markets, done)
  /\ UNCHANGED <<world, data, fails, file, hour, hist>>

\* Mutant of Kept: a market is tried again after a fill as after a failure.
KeptNot(m) == done \ {m}

Kept(m) == done

\* An answer ok: a fill, or a reply that cannot be read.  The mark is made
\* and its file written, or not: a failed write is swallowed.
OrderFills ==
  LET m == pass.m IN
  /\ pass.at = "order"
  /\ file' = pass.snap \cup {m}
  /\ hourly' = Append(hourly, 0) /\ hourFile' \in {hourly', hourFile}
  /\ booked' = IF spoiled THEN booked ELSE Append(booked, 0)
  /\ shots' = [shots EXCEPT ![m] = IF @ < 2 THEN @ + 1 ELSE @]
  /\ Walk([pass EXCEPT !.snap = @ \cup {m}], markets \ {m}, Kept(m))
  /\ UNCHANGED <<world, data, fails, lost, spoiled>>

GivenUp(m, is4xx) == fails[m] + 1 >= IF is4xx THEN Least(MaxFails, MaxTries) ELSE MaxTries

\* A failure: given up after so many, else free to try again.  A 4xx may be
\* an order whose answer was lost, and which filled.
OrderFails(is4xx, filled) ==
  LET m == pass.m IN
  /\ pass.at = "order" /\ (filled => is4xx)
  /\ fails' = [fails EXCEPT ![m] = @ + 1]
  /\ lost' = IF filled THEN [lost EXCEPT ![m] = @ + 1] ELSE lost
  /\ Walk(pass, IF GivenUp(m, is4xx) THEN markets \ {m} ELSE markets,
                IF GivenUp(m, is4xx) THEN done ELSE done \ {m})
  /\ UNCHANGED <<world, data, file, hour, shots, booked, spoiled>>

(***************************************************************************)
(* What can go wrong around a pass.                                        *)
(***************************************************************************)
\* An await that never settles: the pass is not seen again.  An order under
\* way may have filled.
Hangs ==
  /\ pass.at \in {"book", "order"} /\ pass' = [Rest EXCEPT !.at = "hung"]
  /\ \/ UNCHANGED lost
     \/ pass.at = "order" /\ lost' = [lost EXCEPT ![pass.m] = @ + 1]
  /\ UNCHANGED <<world, data, markets, done, fails, file, hour, shots, booked, spoiled>>

\* Mutant of Reloaded: the hour is forgotten.
ReloadedEmpty(f) == <<>>

Reloaded(f) == f

\* The file of the hour as it is, or not to be read: then the hour is fresh.
Restart ==
  /\ ProcessStarts
  /\ \E f \in {hourFile, <<>>} :
       /\ hourly' = Reloaded(f) /\ hourFile' = f
       /\ spoiled' = (spoiled \/ f # hourly)
  /\ booked' = IF spoiled' THEN <<>> ELSE booked
  /\ UNCHANGED <<world, file>>

WedgeExit == pass.at = "hung" /\ Restart    \* exit(1), and the launcher

\* The cycle and the other engines save a positions.json of their own: a
\* record is gone, sold or overwritten.
OthersSave(m) ==
  /\ m \in file /\ file' = file \ {m}
  /\ UNCHANGED <<world, data, markets, done, fails, pass, hour, hist>>

Passes ==
  \/ PassBegins \/ OrderFills \/ WedgeExit
  \/ \E buy \in BOOLEAN : BookRead(buy)
  \/ \E is4xx, filled \in BOOLEAN : OrderFails(is4xx, filled)

Next ==
  \/ \E p \in Prices : Tick(p)
  \/ FeedTicks \/ HalfDies \/ Closes \/ Reconnects \/ Kick
  \/ \E m \in Market : BackfillRefs(m) \/ Discover(m) \/ OthersSave(m)
  \/ Passes \/ Hangs \/ Restart

\* The loop goes on, its requests have timeouts, and time passes, up to the
\* bound.  Nothing is assumed of the feed: without prices the engine waits
\* with its slots free.
Fairness ==
  WF_vars(Passes) /\ WF_clock(clock < MaxTime /\ \E p \in Prices : Tick(p))

Spec == Init /\ [][Next]_vars /\ Fairness

(***************************************************************************)
(* Properties.                                                             *)
(***************************************************************************)

\* One shot a market: whatever becomes of its record in positions.json, and
\* however often the market is discovered again, a process is answered at most
\* one fill of it.  Only fills whose answers were lost, which it takes for
\* failures, can come on top (qtable2.mjs 463-466), and the retries end them.
OneShot == \A m \in Market : shots[m] <= 1 /\ shots[m] + lost[m] <= MaxFails

\* The hour's budget survives restarts: no more answered fills in a rolling
\* hour than the cap, whichever processes booked them, until a process begins
\* that cannot read the file or finds a mark missing whose write had failed
\* (qtable2.mjs 152, 160).  Fills that nobody was answered take no slot.
HourlyCapHolds == TypeOK /\ (~spoiled => Len(booked) <= MaxPerHour)

\* An order goes out only where the price had left the true opening price of
\* the candle: a late first tick is not taken for it.
EdgeIsReal ==
  pass.at \in {"book", "order"} => opening[pass.m] # None /\ pass.spot # opening[pass.m]

\* The engine does not freeze: again and again a pass has ended and the
\* positions that are still live leave room for another, whatever dust lies
\* in the file and whatever request hung.
KeepsTrading == []<>(pass.at = "rest" /\ Cardinality(Live(file, clock)) < MaxOpen)
=============================================================================
