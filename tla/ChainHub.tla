------------------------------ MODULE ChainHub ------------------------------
(***************************************************************************)
(* The runner's one chain subscription (src/chainhub.mjs) over the         *)
(* cursor of ChainCursor: the socket and its two subscriptions, the        *)
(* un-awaited backfill each subscription starts, and the seal worker's     *)
(* resolveBlock.  The chain, the node and the wire are the environment.    *)
(*                                                                         *)
(* The wallet filter is one fixed non-empty union; a debounced union       *)
(* change closes the socket, which is Drop while it is open and OpenFails  *)
(* while it is connecting.                                                 *)
(***************************************************************************)
EXTENDS ChainCursor

CONSTANTS
  Busy,        \* the blocks that hold logs of watched wallets
  LogsPerBlock,
  Backfills,   \* slots for backfill() calls in flight at once
  Chunk,       \* COSMOS_HUB_BACKFILL_CHUNK
  MaxGap,      \* COPY_BACKFILL_BLOCKS
  HeightLag,   \* how far the endpoint of eth_blockNumber may trail the chain
  MaxDrops,    \* bound: sockets lost
  MaxOpenFails \* bound: connections that fail before they open

ASSUME HubAssumption ==
  /\ Busy \subseteq Blocks
  /\ {LogsPerBlock, Chunk} \subseteq Nat \ {0}
  /\ {MaxGap, HeightLag, MaxDrops, MaxOpenFails} \subseteq Nat
  /\ IsFiniteSet(Backfills)

VARIABLES
  head,          \* the chain's height
  sock,          \* "wait": the connect timer is armed; "dead": nothing is
  subs,          \* the two subscriptions of the open socket
  wire,          \* notifications the node sent and the hub has not read
  cursor,
  lastBlock,     \* highest block a log was observed from
  closedThrough, \* highest block a backfill proved complete
  fill,          \* backfill() calls: where each one awaits
  drops, fails,
  got,           \* history: the logs handed to onLog or reconciled
  base,          \* history: the first block the cursor took for its head
  known          \* history: blocks the hub ever learned it had missed: a header
                 \* skipped, a chunk refused or out of MaxGap's reach

env     == <<head, wire>>
conn    == <<sock, subs, drops, fails>>
hubVars == <<cursor, lastBlock, closedThrough>>
history == <<got, base, known>>
allVars == <<env, conn, hubVars, fill, history>>

LogsOf(n) == {<<n, i>> : i \in IF n \in Busy THEN 1..LogsPerBlock ELSE {}}
Logs      == UNION {LogsOf(n) : n \in Blocks}
Complete(n) == LogsOf(n) \subseteq got
Before(k, l) == k[1] < l[1] \/ (k[1] = l[1] /\ k[2] <= l[2])

Idle == [at |-> "idle", from |-> 0, to |-> 0]
SubStates == {"off", "registered", "live", "refused"}

HubTypeOK ==
  /\ head \in Blocks
  /\ sock \in {"wait", "connecting", "open", "dead"}
  /\ subs \in [logs : SubStates, heads : SubStates]
  /\ wire \in [logs : SUBSET Logs, heads : SUBSET Blocks]
  /\ cursor \in Cursors
  /\ lastBlock \in 0..LastBlock /\ closedThrough \in 0..LastBlock
  /\ fill \in [Backfills -> [at : {"idle", "height", "chunk"}, from : 0..LastBlock,
                             to : 0..LastBlock]]
  /\ drops \in 0..MaxDrops /\ fails \in 0..MaxOpenFails
  /\ got \subseteq Logs /\ base \in 0..LastBlock /\ known \subseteq Blocks

NoSubs   == [logs |-> "off", heads |-> "off"]
EmptyWire == [logs |-> {}, heads |-> {}]

HubInit ==
  /\ head = 1
  /\ sock = "wait" /\ subs = NoSubs /\ wire = EmptyWire
  /\ cursor = NewCursor /\ lastBlock = 0 /\ closedThrough = 0
  /\ fill = [s \in Backfills |-> Idle]
  /\ drops = 0 /\ fails = 0
  /\ got = {} /\ base = 0 /\ known = {}

(* ------------------------- chain, node and wire ------------------------ *)

Streaming(s) == s \in {"registered", "live"}

\* A block is produced; the node announces its header and its matching logs.
Mine ==
  /\ head < LastBlock
  /\ head' = head + 1
  /\ wire' = [logs  |-> IF Streaming(subs.logs) THEN wire.logs \cup LogsOf(head + 1) ELSE {},
              heads |-> IF Streaming(subs.heads) THEN wire.heads \cup {head + 1} ELSE {}]
  /\ UNCHANGED <<conn, hubVars, fill, history>>

\* The node registers both subscriptions, possibly when part of the current
\* block is already out.  They were sent in one tick (223-224).
NodeSubscribes ==
  /\ sock = "open" /\ subs = NoSubs
  /\ subs' = [logs |-> "registered", heads |-> "registered"]
  /\ \E first \in 1..LogsPerBlock + 1, H \in SUBSET {head} :
       wire' = [logs |-> {l \in LogsOf(head) : first <= l[2]}, heads |-> H]
  /\ UNCHANGED <<head, sock, drops, fails, hubVars, fill, history>>

(* ------------------------------ the socket ----------------------------- *)

Connect ==
  /\ sock = "wait"
  /\ sock' = "connecting"
  /\ UNCHANGED <<env, subs, drops, fails, hubVars, fill, history>>

OpenOk ==
  /\ sock = "connecting"
  /\ sock' = "open"
  /\ UNCHANGED <<env, subs, drops, fails, hubVars, fill, history>>

\* The socket closes before onopen: `alive` is false, so down() returns at
\* 259 before it arms the reconnect timer.
OpenFails ==
  /\ sock = "connecting"
  /\ fails < MaxOpenFails
  /\ fails' = fails + 1
  /\ sock' = "dead"
  /\ UNCHANGED <<env, subs, drops, hubVars, fill, history>>

\* An open socket closes: a network loss, a refused or unconfirmed log
\* subscription, or a changed wallet union.
Drop ==
  /\ sock = "open"
  /\ drops < MaxDrops
  /\ drops' = drops + 1
  /\ sock' = "wait"
  /\ subs' = NoSubs /\ wire' = EmptyWire
  /\ cursor' = OnDisconnect(cursor)
  /\ UNCHANGED <<head, fails, lastBlock, closedThrough, fill, history>>

(* --------------------------- live deliveries --------------------------- *)

Resume == IF lastBlock > closedThrough THEN lastBlock ELSE 0

\* The answer to id 1.  backfill() runs to its first await and is not awaited.
LogSubAck ==
  /\ subs.logs = "registered"
  /\ subs' = [subs EXCEPT !.logs = "live"]
  /\ cursor' = OnReconnect(cursor, Resume)
  /\ \E s \in Backfills :
       /\ fill[s].at = "idle"
       /\ fill' = [fill EXCEPT ![s] = [Idle EXCEPT !.at = "height"]]
  /\ UNCHANGED <<env, sock, drops, fails, lastBlock, closedThrough, history>>

\* The answer to id 2; a refusal only warns.
HeadSubAck ==
  /\ subs.heads = "registered"
  /\ \/ subs' = [subs EXCEPT !.heads = "live"] /\ UNCHANGED wire
     \/ subs' = [subs EXCEPT !.heads = "refused"] /\ wire' = [wire EXCEPT !.heads = {}]
  /\ UNCHANGED <<head, sock, drops, fails, hubVars, fill, history>>

\* What HEAD_LAG bets on: news of block n (its header, or a replay through it)
\* arrives after the streamed logs of the blocks HeadLag and more below it.
InStep(n) == \A l \in wire.logs : l[1] > n - HeadLag

\* The first news anchors the cursor; nothing below it is promised.
Anchor == base' = IF base = 0 THEN cursor'.lastHead ELSE base

\* Each stream is delivered in order; the two interleave.
DeliverHead ==
  /\ subs.heads = "live"
  /\ \E n \in wire.heads :
       /\ \A k \in wire.heads : n <= k
       /\ InStep(n)
       /\ wire' = [wire EXCEPT !.heads = @ \ {n}]
       /\ cursor' = OnHead(cursor, n)
       /\ known' = known \cup IF cursor.lastHead > 0 THEN cursor.lastHead + 1..n - 1 ELSE {}
       /\ Anchor
  /\ UNCHANGED <<head, conn, lastBlock, closedThrough, fill, got>>

DeliverLog ==
  /\ subs.logs = "live"
  /\ \E l \in wire.logs :
       /\ \A k \in wire.logs : Before(l, k)
       /\ wire' = [wire EXCEPT !.logs = @ \ {l}]
       /\ lastBlock' = Upper(lastBlock, l[1])
       /\ cursor' = OnLog(cursor, l[1])
       /\ Anchor
       /\ got' = got \cup {l}
  /\ UNCHANGED <<head, conn, closedThrough, fill, known>>

(* ------------------------------- backfill ------------------------------ *)

ChunkEnd(a, to) == IF a + Chunk - 1 < to THEN a + Chunk - 1 ELSE to

\* Slot s calls eth_getLogs for the chunk at a, having made the cursor c.
StartChunk(s, c, a, to) ==
  /\ cursor' = OnBackfillStart(c, a, ChunkEnd(a, to))
  /\ fill' = [fill EXCEPT ![s] = [at |-> "chunk", from |-> a, to |-> to]]

\* eth_blockNumber answers (0: no endpoint did); lastBlock is read only now.
HeightReply(s, h) ==
  LET last == IF lastBlock = 0 THEN h ELSE lastBlock
      from == IF last > closedThrough THEN last ELSE last + 1
      skip == h - MaxGap - 1
  IN
  /\ fill[s].at = "height"
  /\ UNCHANGED <<env, conn, closedThrough, got, base>>
  /\ lastBlock' = last
  /\ \/ /\ h = 0 \/ from > h
        /\ fill' = [fill EXCEPT ![s] = Idle]
        /\ UNCHANGED <<cursor, known>>
     \/ /\ h > 0 /\ from <= h /\ h - from <= MaxGap
        /\ StartChunk(s, cursor, from, h)
        /\ UNCHANGED known
     \/ /\ h > 0 /\ h - from > MaxGap
        /\ StartChunk(s, OnBackfillDone(OnBackfillStart(cursor, from, skip), from, skip, FALSE),
                      h - MaxGap, h)
        /\ known' = known \cup from..skip

\* Mutant of AfterChunk: a refused last chunk closes the head too.
AfterChunkClosesAll(s, c, ok) ==
  LET to == fill[s].to
      b == ChunkEnd(fill[s].from, to)
  IN
  \/ b < to /\ StartChunk(s, c, b + 1, to) /\ UNCHANGED closedThrough
  \/ /\ b = to /\ cursor' = c
     /\ fill' = [fill EXCEPT ![s] = Idle]
     /\ closedThrough' = to

\* The next chunk, or the end of backfill().
AfterChunk(s, c, ok) ==
  LET to == fill[s].to
      b == ChunkEnd(fill[s].from, to)
  IN
  \/ /\ b < to
     /\ StartChunk(s, c, b + 1, to)
     /\ UNCHANGED closedThrough
  \/ /\ b = to
     /\ cursor' = c
     /\ fill' = [fill EXCEPT ![s] = Idle]
     /\ closedThrough' = IF ok THEN to ELSE closedThrough

ChunkReplayed(s) ==
  LET a == fill[s].from
      b == ChunkEnd(a, fill[s].to)
      found == {n \in a..b : n \in Busy}
      c == OnLogs(cursor, found)
  IN
  /\ fill[s].at = "chunk" /\ InStep(b)
  /\ got' = got \cup UNION {LogsOf(n) : n \in found}
  /\ lastBlock' = IF b = fill[s].to THEN b ELSE Max(found \cup {lastBlock})
  /\ AfterChunk(s, OnBackfillDone(c, a, b, TRUE), TRUE)
  /\ Anchor
  /\ UNCHANGED <<env, conn, known>>

ChunkRefused(s) ==
  LET a == fill[s].from
      b == ChunkEnd(a, fill[s].to)
  IN
  /\ fill[s].at = "chunk"
  /\ lastBlock' = IF b = fill[s].to THEN b ELSE lastBlock
  /\ known' = known \cup a..b
  /\ UNCHANGED <<env, conn, got, base>>
  /\ AfterChunk(s, OnBackfillDone(cursor, a, b, FALSE), FALSE)

\* The seal worker reconciled pending block n against the node.
ResolveBlock(n) ==
  /\ n <= head /\ PendingAt(cursor, n)
  /\ cursor' = Resolve(cursor, n, n)
  /\ got' = got \cup LogsOf(n)
  /\ UNCHANGED <<env, conn, lastBlock, closedThrough, fill, base, known>>

(* -------------------------------- Next --------------------------------- *)

HubNext ==
  \/ Mine \/ NodeSubscribes
  \/ Connect \/ OpenOk \/ OpenFails \/ Drop
  \/ LogSubAck \/ HeadSubAck \/ DeliverHead \/ DeliverLog
  \/ \E s \in Backfills :
       \/ \E h \in {0} \cup Upper(1, head - HeightLag)..head : HeightReply(s, h)
       \/ ChunkReplayed(s) \/ ChunkRefused(s)
  \/ \E n \in Blocks : ResolveBlock(n)

HubSpec == HubInit /\ [][HubNext]_allVars

\* The connect timer fires and a connection attempt comes to an end.
FairHubSpec == HubSpec /\ WF_allVars(Connect) /\ WF_allVars(OpenOk \/ OpenFails)

(* ------------------------------ properties ----------------------------- *)

\* A block the hub has recorded as missed (a skipped header, a refused or
\* unreachable part of a backfill) is sealable only once all its logs were
\* replayed or reconciled, whatever later headers, logs, reconnects and
\* overlapping backfills do to the cursor (chain-cursor.mjs:15).
KnownMissingNotSealable == \A n \in known : n <= Sealable(cursor) => Complete(n)

\* closedThrough names a block whose every log was handed on: resuming the
\* replay one block above it loses nothing (chainhub.mjs:139-142, 178, 202).
ClosedThroughProven == HubTypeOK /\ (closedThrough > 0 => Complete(closedThrough))

\* A block of which the hub has seen some logs and not all is not sealable
\* (chain-cursor.mjs:49-52).  False: the replay starts at lastBlock as it is
\* after the answer to eth_blockNumber, and its first chunk removes the
\* reconnect range that held the block.
PartialBlockNotSealable ==
  base > 0 => \A n \in (base + 1)..Sealable(cursor) :
    Complete(n) \/ LogsOf(n) \cap got = {}

\* A hub without an open socket gets one (chainhub.mjs:17-19, 258-263).
\* False: a connection that fails before it opens arms no timer.
SocketReopens == sock # "open" ~> sock = "open"
=============================================================================
