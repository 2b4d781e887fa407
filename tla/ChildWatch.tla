----------------------------- MODULE ChildWatch -----------------------------
(***************************************************************************)
(* How one bot hears of its whales' fills (chainwatch.mjs): the runner's   *)
(* hub forwards the logs while it beats; a bot on its own, or one whose    *)
(* hub went silent, opens a socket, subscribes, and replays the blocks it  *)
(* missed.  Every log goes through handle(), which knows the logs it has   *)
(* seen, and waits in a buffer until its transaction is complete, so that  *)
(* a split, which mints both sides of a market, is not taken for a trade.  *)
(* A block holds at most one transaction of a whale.  The engine is armed  *)
(* throughout: a disarmed bot only does not fall back and is not watched.  *)
(***************************************************************************)
EXTENDS Integers, Sequences, FiniteSets

CONSTANTS
  MaxBlock,   \* bound: the height of the chain
  MaxTxs,     \* bound: blocks with a transaction of a whale
  MaxSplits,  \* bound: those among them that are a split
  MaxGap,     \* blocks a replay goes back
  Chunk,      \* blocks per eth_getLogs
  DoneCap,    \* logs remembered before the memory is cleared
  Replays     \* bound: replays under way at once

ASSUME WatchBounds == {MaxBlock, MaxTxs, MaxSplits, MaxGap, Chunk, DoneCap} \subseteq Nat \ {0}

Blocks == 1..MaxBlock
Logs   == Blocks \X {1, 2}          \* <<block, leg>>

VARIABLES
  kind,      \* the mined blocks: "none", "fill" or "split"
  hub,       \* "none" (own sockets only), "up" or "mute"
  fellBack,  \* the hub was given up
  conn,      \* "none", "opening", "open", "unheard" (open, the subscription
             \* lost), "live", "retry", or "dead": failed before it was
             \* open, with no timer behind it
  wire, ipc, \* logs on the socket and from the hub, not yet handled
  lastBlock, done, buf,
  bf,        \* the replays: backfill() between its awaits
  acted,     \* history: how often a log was handed to onFill
  torn,      \* history: splits of which a drop took one leg
  forgot     \* history: logs that were cleared from done

sock == <<hub, fellBack, conn, wire, ipc>>
book == <<lastBlock, done, buf>>
hist == <<acted, torn, forgot>>
watchVars == <<kind, sock, book, bf, hist>>

Top == Len(kind)
LogsOf(b) == CASE kind[b] = "fill" -> {<<b, 1>>} [] kind[b] = "split" -> {b} \X {1, 2}
               [] OTHER -> {}

Idle == [at |-> "idle", a |-> 0, to |-> 0, base |-> 0, whole |-> TRUE]
Replay == [at : {"idle", "height", "logs"}, a : 0..MaxBlock, to : 0..MaxBlock,
           base : 0..MaxBlock, whole : BOOLEAN]

WatchTypeOK ==
  /\ kind \in Seq({"none", "fill", "split"}) /\ Top <= MaxBlock
  /\ fellBack \in BOOLEAN /\ hub \in {"none", "up", "mute"}
  /\ conn \in {"none", "opening", "open", "unheard", "live", "retry", "dead"}
  /\ wire \in Seq(Logs) /\ ipc \in Seq(Logs)
  /\ lastBlock \in 0..MaxBlock /\ done \subseteq Logs /\ Cardinality(done) <= DoneCap
  /\ buf \in [Blocks -> SUBSET {1, 2}] /\ bf \in [Replays -> Replay]
  /\ acted \in [Logs -> 0..2] /\ torn \subseteq Blocks
  /\ forgot \subseteq Logs

WatchInit ==
  /\ kind = <<"none">> /\ fellBack = FALSE
  /\ \/ hub = "up" /\ conn = "none"
     \/ hub = "none" /\ conn = "opening"
  /\ wire = <<>> /\ ipc = <<>> /\ lastBlock = 0 /\ done = {}
  /\ buf = [b \in Blocks |-> {}] /\ bf = [r \in Replays |-> Idle]
  /\ acted = [l \in Logs |-> 0] /\ torn = {} /\ forgot = {}

(***************************************************************************)
(* The chain and the hub.                                                  *)
(***************************************************************************)
Sent(b, k) == CASE k = "fill" -> << <<b, 1>> >>
                [] k = "split" -> << <<b, 1>>, <<b, 2>> >> [] OTHER -> <<>>

Mine(k) ==
  /\ Top < MaxBlock
  /\ k # "none" => Cardinality({b \in 1..Top : kind[b] # "none"}) < MaxTxs
  /\ k = "split" => Cardinality({b \in 1..Top : kind[b] = "split"}) < MaxSplits
  /\ kind' = Append(kind, k)
  /\ wire' = IF conn = "live" THEN wire \o Sent(Top + 1, k) ELSE wire
  /\ ipc'  = IF hub = "up" THEN ipc \o Sent(Top + 1, k) ELSE ipc
  /\ UNCHANGED <<hub, fellBack, conn, book, bf, hist>>

HubChanges ==      \* it stops to beat, or beats again
  /\ hub # "none" /\ hub' = IF hub = "up" THEN "mute" ELSE "up"
  /\ UNCHANGED <<kind, fellBack, conn, wire, ipc, book, bf, hist>>

(***************************************************************************)
(* handle(): the logs L, of which some may be known, and the flush of a    *)
(* transaction 350 ms after its first log: its logs come in one burst on   *)
(* each channel, so that a burst that has begun is complete by then.       *)
(***************************************************************************)
\* Mutant of New: the memory of handled logs is not asked.
NewAlways(L) == L

Room == DoneCap - Cardinality(done)
Earlier(l, m) == 2 * l[1] + l[2] < 2 * m[1] + m[2]

\* The log that takes the memory past its cap clears it, itself included: the
\* logs of L behind that one are all new again.
Overflows(L) == Cardinality(L \ done) > Room
Behind(L) == {l \in L : Cardinality({m \in L \ done : Earlier(m, l)}) > Room}

New(L) == (L \ done) \cup Behind(L)

Remembered(L) ==
  IF ~Overflows(L) THEN done \cup L
  ELSE LET rest == Cardinality(Behind(L)) % (DoneCap + 1)   \* since the last clear
       IN {l \in Behind(L) : Cardinality({m \in Behind(L) : Earlier(l, m)}) < rest}

Highest(L) == LET bs == {lastBlock} \cup {l[1] : l \in New(L)}
              IN CHOOSE b \in bs : \A c \in bs : c <= b

Handle(L) ==
  /\ done' = Remembered(L)
  /\ forgot' = IF Overflows(L) THEN forgot \cup done \cup (L \ done') ELSE forgot
  /\ buf' = [b \in Blocks |-> buf[b] \cup {l[2] : l \in {m \in New(L) : m[1] = b}}]

Deliver ==
  /\ wire # <<>> /\ wire' = Tail(wire)
  /\ Handle({Head(wire)}) /\ lastBlock' = Highest({Head(wire)})
  /\ UNCHANGED <<kind, hub, fellBack, conn, ipc, bf, acted, torn>>

HubDelivers ==
  /\ ipc # <<>> /\ ipc' = Tail(ipc)
  /\ Handle({Head(ipc)}) /\ lastBlock' = Highest({Head(ipc)})
  /\ UNCHANGED <<kind, hub, fellBack, conn, wire, bf, acted, torn>>

OnWires(b) == \E q \in {wire, ipc} : \E i \in DOMAIN q : q[i][1] = b

\* Mutant of Traded: every buffered log is a fill.
TradedAll(b) == buf[b]

Traded(b) == IF buf[b] = {1, 2} THEN {} ELSE buf[b]    \* equal legs: a split

Flush(b) ==
  /\ buf[b] # {} /\ ~OnWires(b)
  /\ acted' = [l \in Logs |-> IF l[1] = b /\ l[2] \in Traded(b) /\ acted[l] < 2
                              THEN acted[l] + 1 ELSE acted[l]]
  /\ buf' = [buf EXCEPT ![b] = {}]
  /\ UNCHANGED <<kind, sock, lastBlock, done, bf, torn, forgot>>

(***************************************************************************)
(* The socket.                                                             *)
(***************************************************************************)
\* down(): only a socket that was open has a reconnect behind it.
Down(c) == IF c \in {"open", "unheard", "live"} THEN "retry" ELSE "dead"

Cut == {b \in Blocks : (\E i \in DOMAIN wire : wire[i] = <<b, 2>>)
                       /\ ~\E i \in DOMAIN wire : wire[i] = <<b, 1>>}

Closes ==
  /\ conn' = Down(conn) /\ wire' = <<>> /\ torn' = torn \cup Cut
  /\ UNCHANGED <<kind, hub, fellBack, ipc, book, bf, acted, forgot>>

Connect ==         \* the timer of down(): the next node of the list
  /\ conn = "retry" /\ conn' = "opening"
  /\ UNCHANGED <<kind, hub, fellBack, wire, ipc, book, bf, hist>>

OpenOk(c) ==
  /\ conn = "opening" /\ conn' = c
  /\ UNCHANGED <<kind, hub, fellBack, wire, ipc, book, bf, hist>>

OpenFails == conn = "opening" /\ Closes

Drop == conn \in {"open", "unheard", "live"} /\ Closes

\* The node refused the subscription, or did not confirm it within 10 s.
Unconfirmed == conn \in {"open", "unheard"} /\ Closes

SubAck(r) ==       \* and backfill() asks for the height
  /\ conn = "open" /\ conn' = "live"
  /\ bf[r].at = "idle" /\ bf' = [bf EXCEPT ![r] = [Idle EXCEPT !.at = "height",
                                                          !.base = lastBlock]]
  /\ UNCHANGED <<kind, hub, fellBack, wire, ipc, book, hist>>

\* The roster changed, or the watchdog found the bot not subscribed: the
\* socket is closed, whatever it is doing.
RosterChanges == conn \in {"opening", "open", "unheard", "live"} /\ Closes

Watchdog ==
  /\ (hub = "none" \/ fellBack)
  /\ conn \in {"opening", "open", "unheard"} /\ Closes

\* Mutant of HubSilent: the silence of the hub is not noticed.
HubSilentNever == FALSE

HubSilent == hub = "mute"

FallBack ==        \* two minutes without a beat
  /\ HubSilent /\ ~fellBack
  /\ fellBack' = TRUE /\ conn' = "opening"
  /\ UNCHANGED <<kind, hub, wire, ipc, book, bf, hist>>

(***************************************************************************)
(* backfill(): the height, then the logs chunk by chunk.                   *)
(***************************************************************************)
\* Mutant of ReplayFrom: one block too few of a long gap.
ReplayFromNext(h) == IF h - lastBlock - 1 > MaxGap THEN h - MaxGap + 1 ELSE lastBlock + 1

ReplayFrom(h) == IF h - lastBlock - 1 > MaxGap THEN h - MaxGap ELSE lastBlock + 1

HeightReply(r, ok) ==
  /\ bf[r].at = "height"
  /\ IF ~ok \/ (lastBlock > 0 /\ lastBlock >= Top)
     THEN bf' = [bf EXCEPT ![r] = Idle] /\ UNCHANGED lastBlock
     ELSE IF lastBlock = 0
     THEN bf' = [bf EXCEPT ![r] = Idle] /\ lastBlock' = Top
     ELSE /\ bf' = [bf EXCEPT ![r].at = "logs", ![r].a = ReplayFrom(Top), ![r].to = Top,
                               ![r].whole = lastBlock = bf[r].base]
          /\ UNCHANGED lastBlock
  /\ UNCHANGED <<kind, sock, done, buf, hist>>

ChunkEnd(x) == IF x.a + Chunk - 1 < x.to THEN x.a + Chunk - 1 ELSE x.to

\* A chunk that is refused is left out and the replay goes on.
ChunkReply(r, ok) ==
  LET x == bf[r] b == ChunkEnd(x) IN
  /\ x.at = "logs"
  /\ IF ok THEN Handle(UNION {LogsOf(c) : c \in x.a..b}) ELSE UNCHANGED <<done, buf, forgot>>
  /\ IF b = x.to THEN /\ lastBlock' = x.to
                      /\ bf' = [bf EXCEPT ![r] = [Idle EXCEPT !.whole = x.whole /\ ok]]
     ELSE /\ bf' = [bf EXCEPT ![r].a = b + 1, ![r].whole = @ /\ ok]
          /\ lastBlock' = IF ok THEN Highest(UNION {LogsOf(c) : c \in x.a..b}) ELSE lastBlock
  /\ UNCHANGED <<kind, sock, acted, torn>>

WatchNext ==
  \/ \E k \in {"none", "fill", "split"} : Mine(k)
  \/ HubChanges \/ Deliver \/ HubDelivers \/ \E b \in Blocks : Flush(b)
  \/ Connect \/ (\E c \in {"open", "unheard"} : OpenOk(c)) \/ OpenFails
  \/ Drop \/ Unconfirmed \/ RosterChanges \/ Watchdog \/ FallBack
  \/ \E r \in Replays : SubAck(r)
  \/ \E r \in Replays, ok \in BOOLEAN : HeightReply(r, ok) \/ ChunkReply(r, ok)

\* Timers fire, and a node that is asked again and again answers at last.
WatchFairness ==
  /\ WF_watchVars(Connect \/ Unconfirmed \/ FallBack)
  /\ WF_watchVars(\E r \in Replays, ok \in BOOLEAN : HeightReply(r, ok) \/ ChunkReply(r, ok))
  /\ SF_watchVars(OpenOk("open") \/ OpenFails)
  /\ SF_watchVars(\E r \in Replays : SubAck(r))

WatchSpec == WatchInit /\ [][WatchNext]_watchVars /\ WatchFairness

(***************************************************************************)
(* Properties.                                                             *)
(***************************************************************************)

\* A log that the hub, the socket and a replay all bring leads to one
\* evaluation: no fill is handed to onFill twice, as long as its log is
\* remembered.
HandledOnce == WatchTypeOK /\ \A l \in Logs : acted[l] <= 1 \/ l \in forgot

\* A split is not traded, in whichever way its two legs reach the bot, except
\* when a socket dies between the two or the memory of logs is cleared.
SplitsAreNotTraded ==
  \A b \in 1..Top : kind[b] = "split" /\ b \notin torn /\ LogsOf(b) \cap forgot = {}
    => acted[<<b, 1>>] + acted[<<b, 2>>] = 0

\* A replay that no rpc cut short brings every fill since the block that was
\* last seen when the subscription stood, as far back as MaxGap: unless a live
\* log came before the height did, and moved that block.
ReplayCoversGap ==
  [][\A r \in Replays :
       LET x == bf[r] IN
       x.at = "logs" /\ bf'[r] = Idle
         => \A b \in (x.base + 1)..x.to :
              b >= x.to - MaxGap => LogsOf(b) \subseteq done' \cup forgot']_watchVars

\* An armed bot hears of fills again and again, through the hub or
\* a subscription, unless its socket died before it was ever open.
Hears == conn = "live" \/ hub = "up"
HearsAgain == []<>(Hears \/ conn = "dead")
=============================================================================
