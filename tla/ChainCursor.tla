---------------------------- MODULE ChainCursor ----------------------------
(***************************************************************************)
(* The gap-aware cursor of src/chain-cursor.mjs: a pure value and one      *)
(* operator per method.  A cursor is a record of                           *)
(*   lastHead   the highest header seen or proven by a backfill            *)
(*   connected  whether the log subscription is confirmed                  *)
(*   pending    the block ranges whose logs are not proven processed       *)
(*   seen       the headers seen, which close head-derived ranges          *)
(* Left out: gapSince and `at` (reporting only), inFlight (a function of   *)
(* `why`), and the pruning of seenHeads, which starts at 4096 headers.     *)
(***************************************************************************)
EXTENDS Integers, FiniteSets
INSTANCE FiniteSetsExt

CONSTANTS
  LastBlock,   \* bound: the highest block number
  HeadLag      \* COSMOS_SEAL_HEAD_LAG

ASSUME CursorAssumption == LastBlock \in Nat \ {0} /\ HeadLag \in Nat

Blocks  == 1..LastBlock
Forever == LastBlock + 1             \* Number.MAX_SAFE_INTEGER
HeadWhys == {"head gap", "log ahead of heads"}
Whys     == HeadWhys \cup {"reconnect", "backfill", "backfill refused"}
Ranges   == [from : Blocks \cup {Forever}, to : Blocks \cup {Forever}, why : Whys]
Cursors  == [lastHead : 0..LastBlock, connected : BOOLEAN,
             pending : SUBSET Ranges, seen : SUBSET Blocks]

NewCursor == [lastHead |-> 0, connected |-> FALSE, pending |-> {}, seen |-> {}]

Gap(a, b, w) == [from |-> a, to |-> b, why |-> w]
Upper(a, b)    == IF a > b THEN a ELSE b
Holds(r, n)    == r.from <= n /\ n <= r.to
Within(r, a, b) == a <= r.from /\ r.to <= b

\* norm: an inverted range is no range.
WithPending(c, S) == [c EXCEPT !.pending = {r \in S : r.from <= r.to}]

\* What a header or log above lastHead + 1 leaves unproven.
Skipped(c, n, w) ==
  IF c.lastHead > 0 /\ n > c.lastHead + 1 THEN {Gap(c.lastHead + 1, n - 1, w)} ELSE {}

\* Head-derived ranges close once every header inside them was seen.
HeadResolved(S, seen) == {r \in S : r.why \in HeadWhys => ~ (r.from..r.to \subseteq seen)}

OnHead(c, n) ==
  WithPending([c EXCEPT !.lastHead = Upper(c.lastHead, n), !.seen = @ \cup {n}],
              HeadResolved(c.pending \cup Skipped(c, n, "head gap"), c.seen \cup {n}))

OnLog(c, n) ==
  WithPending([c EXCEPT !.lastHead = Upper(c.lastHead, n)],
              c.pending \cup Skipped(c, n, "log ahead of heads"))

\* The logs of the blocks S, in order: OnLog of each.  A block is held against
\* the head as the ones below it left it.
OnLogs(c, S) ==
  LET top(n) == Max({c.lastHead} \cup {k \in S : k < n})
  IN WithPending([c EXCEPT !.lastHead = Max({@} \cup S)],
                 c.pending \cup UNION {Skipped([c EXCEPT !.lastHead = top(n)], n, "log ahead of heads") :
                                         n \in S})

OnDisconnect(c) == [c EXCEPT !.connected = FALSE]

\* inclusiveFrom is 0 where the hub passes undefined.
OnReconnect(c, inclusiveFrom) ==
  LET next == c.lastHead + 1
      from == IF inclusiveFrom > 0 /\ inclusiveFrom < next THEN inclusiveFrom ELSE next
      open == c.lastHead > 0 /\ \A r \in c.pending : r.why # "reconnect"
  IN WithPending([c EXCEPT !.connected = TRUE],
                 c.pending \cup (IF open THEN {Gap(from, Forever, "reconnect")} ELSE {}))

OnBackfillStart(c, a, b) ==
  WithPending(c, {r \in c.pending : r.why # "reconnect"} \cup {Gap(a, b, "backfill")})

\* Mutant of OnBackfillDone: a refused chunk is over like any other.
OnBackfillOver(c, a, b, ok) ==
  WithPending([c EXCEPT !.lastHead = Upper(c.lastHead, b)],
              c.pending \ {Gap(a, b, "backfill")})

OnBackfillDone(c, a, b, ok) ==
  LET rest == c.pending \ {Gap(a, b, "backfill")}
  IN IF ok
     THEN WithPending([c EXCEPT !.lastHead = Upper(c.lastHead, b), !.seen = @ \cup a..b],
                      {r \in rest : ~ Within(r, a, b)})
     ELSE WithPending(c, rest \cup {Gap(a, b, "backfill refused")})

\* Ranges inside [a, b] disappear; ranges that overlap it are trimmed or split.
Resolve(c, a, b) ==
  WithPending(c,
    {r \in c.pending : r.to < a \/ b < r.from}
    \cup {[r EXCEPT !.to = a - 1]   : r \in {q \in c.pending : q.from < a /\ a <= q.to}}
    \cup {[r EXCEPT !.from = b + 1] : r \in {q \in c.pending : b < q.to /\ q.from <= b}})

PendingAt(c, n) == \E r \in c.pending : Holds(r, n)

\* The highest block that may be sealed now, or 0.
Sealable(c) ==
  IF ~ c.connected \/ c.lastHead = 0 THEN 0
  ELSE Upper(0, Min({c.lastHead} \cup {r.from - 1 : r \in c.pending}) - HeadLag)
=============================================================================
