------------------------- MODULE ExecutionAuthority -------------------------
(***************************************************************************)
(* Who decides a canary whale's fill in one bot.  The chain watcher        *)
(* (onFill of chainwatch.mjs) waits for the shared Stage 4 evaluation      *)
(* while its own copy-check runs beside it and writes the production row;  *)
(* the polled tick (copytrade.mjs) acts on that row unless the marker of   *)
(* s4-authority.mjs says the state it shows has been decided.  One market  *)
(* side, whose row is the number of the last fill it accounts for: his     *)
(* cost and shares only grow.                                              *)
(***************************************************************************)
EXTENDS Integers, FiniteSets

CONSTANTS
  Fills,        \* bound: the whale's fills are 1..Fills
  StandAfter,   \* failed checks in a row before the fast path stands down
  MaxChanges    \* bound: changes of the canary list and restarts

ASSUME AuthorityBounds == {Fills, StandAfter} \subseteq Nat \ {0} /\ MaxChanges \in Nat

Fill == 1..Fills

VARIABLES
  pc,        \* a fill in onFill: "none", "stagger", "wait", "old", "plain"
             \* (not a canary's), "decided", or over without a decision: "missed", "gaveup", "lost"
  old,       \* its copy-check: "none", "asked", "wrote", "ok", "no", "failed"
  oldRow,    \* the row that copy-check left
  neutral,   \* its shared evaluation: "none", "pair" (not for execution),
             \* "row" or "bare" (without a ledger row)
  row,       \* the production row; 0: none yet
  marker,    \* the state decided last; 0: no marker
  canary,    \* the whale is on the canary list
  fails, standDown,
  tick,      \* the polled tick: [at |-> "idle", "read" or "buys", row]
  changes,
  owned,     \* history: the states decided since the marker was lost
  polled     \* history: the rows the polled tick bought off

fill == <<pc, old, oldRow, neutral>>
env  == <<canary, changes>>
brk  == <<fails, standDown>>
vars == <<fill, row, marker, env, brk, tick, owned, polled>>

TypeOK ==
  /\ pc \in [Fill -> {"none", "stagger", "wait", "old", "plain", "decided", "missed", "gaveup", "lost"}]
  /\ old \in [Fill -> {"none", "asked", "wrote", "ok", "no", "failed"}]
  /\ oldRow \in [Fill -> 0..Fills]
  /\ neutral \in [Fill -> {"none", "pair", "row", "bare"}]
  /\ row \in 0..Fills /\ marker \in 0..Fills
  /\ {canary, standDown} \subseteq BOOLEAN
  /\ fails \in 0..StandAfter /\ changes \in 0..MaxChanges
  /\ tick \in [at : {"idle", "read", "buys"}, row : 0..Fills]
  /\ owned \subseteq Fill /\ polled \subseteq Fill

Init ==
  /\ pc = [f \in Fill |-> "none"] /\ old = [f \in Fill |-> "none"]
  /\ oldRow = [f \in Fill |-> 0] /\ neutral = [f \in Fill |-> "none"]
  /\ row = 0 /\ marker = 0 /\ canary = TRUE
  /\ fails = 0 /\ standDown = FALSE /\ changes = 0
  /\ tick = [at |-> "idle", row |-> 0] /\ owned = {} /\ polled = {}

Later(a, b) == IF a < b THEN b ELSE a

(***************************************************************************)
(* The marker: markDecided() and polledVerdict() of s4-authority.mjs.      *)
(***************************************************************************)
\* Mutant of Ratchet: the last report counts, however small.
RatchetLast(s) == s

\* Fields only ever ratchet up.
Ratchet(s) == Later(marker, s)

Suppressed(r) == canary /\ r <= marker

\* The states S of a decision are reported, in whatever order they came.
Mark(S) ==
  LET s == IF S = {} THEN 0 ELSE CHOOSE x \in S : \A y \in S : y <= x
  IN /\ marker' = IF s = 0 THEN marker ELSE Ratchet(s)
     /\ owned' = owned \cup (S \ {0})

(***************************************************************************)
(* A fill reaches the bot, or is lost in a gap of its watcher, or is left  *)
(* to the slow path while the server is struggling.                        *)
(***************************************************************************)
Arrived(f) == pc[f] # "none"

Lands(f, heard) ==
  /\ pc[f] = "none" /\ \A g \in 1..(f - 1) : Arrived(g)
  /\ pc' = [pc EXCEPT ![f] = IF ~heard THEN "missed" ELSE IF standDown THEN "gaveup" ELSE "stagger"]
  /\ UNCHANGED <<old, oldRow, neutral, row, marker, env, brk, tick, owned, polled>>

\* The stagger is over: the copy-check starts.  For a canary whale the shared
\* evaluation is awaited, or not, if the versioned roster is missing, stale,
\* without him or without an execution mode.
Stagger(f, usable) ==
  /\ pc[f] = "stagger"
  /\ old' = [old EXCEPT ![f] = "asked"]
  /\ pc' = [pc EXCEPT ![f] = IF ~canary THEN "plain" ELSE IF usable THEN "wait" ELSE "old"]
  /\ UNCHANGED <<oldRow, neutral, row, marker, env, brk, tick, owned, polled>>

\* accept(): only a canary whale's evaluation is kept for execution.  One that
\* comes when the fill is over, or is not a canary's, is read by nobody.
Neutral(f, n) ==
  /\ pc[f] \in {"stagger", "wait", "old"} /\ neutral[f] = "none"
  /\ neutral' = [neutral EXCEPT ![f] = IF canary THEN n ELSE "pair"]
  /\ UNCHANGED <<pc, old, oldRow, row, marker, env, brk, tick, owned, polled>>

Answers == {"ok", "no", "failed"}

HasAnswer(f) == neutral[f] \in {"row", "bare"}

\* What a decision reports: the row of its signal, else that of the shared
\* evaluation, and the row of a copy-check that approved.
Reported(f, ok, o) ==
  LET n == HasAnswer(f) IN
  IF ~ok /\ ~n THEN {}
  ELSE {IF ok \/ neutral[f] = "row" THEN f ELSE 0} \cup (IF o = "ok" THEN {oldRow[f]} ELSE {})

\* The fill is over: nobody reads its evaluation again, nor a copy-check that
\* has answered.
Ends(f, p, o) ==
  /\ pc' = [pc EXCEPT ![f] = p] /\ neutral' = [neutral EXCEPT ![f] = "none"]
  /\ old' = [old EXCEPT ![f] = IF o \in Answers THEN "none" ELSE o]
  /\ oldRow' = [oldRow EXCEPT ![f] = IF o \in Answers THEN 0 ELSE @]

\* Stage 4 answers the waiting fill: buy or no buy.
StageFour(f, ok) ==
  /\ pc[f] = "wait" /\ HasAnswer(f)
  /\ Ends(f, "decided", old[f]) /\ Mark(Reported(f, ok, old[f]))
  /\ UNCHANGED <<row, env, brk, tick, polled>>

WaitOver(f) == pc[f] = "wait" /\ ~HasAnswer(f)

Old(f) == old[f] \in Answers

\* The bounded wait is over: the copy-check decides, now if it has answered.
Timeout(f) ==
  /\ WaitOver(f)
  /\ IF Old(f)
     THEN /\ Ends(f, IF old[f] = "failed" THEN "gaveup" ELSE "decided", old[f])
          /\ Mark(Reported(f, old[f] = "ok", old[f]))
     ELSE /\ pc' = [pc EXCEPT ![f] = "old"]
          /\ UNCHANGED <<old, oldRow, neutral, marker, owned>>
  /\ UNCHANGED <<row, env, brk, tick, polled>>

(***************************************************************************)
(* The copy-check: the server writes the row, then its answer arrives, or  *)
(* all three attempts failed.                                              *)
(***************************************************************************)
OldWrites(f) ==
  /\ old[f] = "asked" /\ old' = [old EXCEPT ![f] = "wrote"]
  /\ row' = Later(row, f) /\ oldRow' = [oldRow EXCEPT ![f] = Later(row, f)]
  /\ UNCHANGED <<pc, neutral, marker, env, brk, tick, owned, polled>>

OldResult(f, a) ==
  /\ IF pc[f] = "wait"
     THEN old' = [old EXCEPT ![f] = a] /\ UNCHANGED <<pc, neutral, oldRow>>
     ELSE Ends(f, IF pc[f] \notin {"old", "plain"} THEN pc[f]
                  ELSE IF a = "failed" THEN "gaveup" ELSE "decided", a)
  /\ Mark(CASE pc[f] = "old"     -> Reported(f, a = "ok", a)
            [] pc[f] = "decided" -> IF a = "ok" THEN {oldRow[f]} ELSE {}
            [] OTHER             -> {})
  /\ UNCHANGED <<row, env, tick, polled>>

OldAnswers(f, a) ==
  /\ old[f] = "wrote" /\ fails' = 0 /\ UNCHANGED standDown /\ OldResult(f, a)

OldFails(f) ==
  /\ old[f] \in {"asked", "wrote"}
  /\ fails' = IF fails < StandAfter THEN fails + 1 ELSE fails
  /\ standDown' = (standDown \/ fails + 1 >= StandAfter)
  /\ OldResult(f, "failed")

StandUp ==      \* after a minute
  /\ standDown /\ standDown' = FALSE
  /\ UNCHANGED <<fill, row, marker, env, fails, tick, owned, polled>>

(***************************************************************************)
(* The slow path: the server's cron accounts for every fill, and the       *)
(* polled tick walks the rows: the request, the verdict, the order.        *)
(***************************************************************************)
Cron ==
  /\ \E f \in Fill : Arrived(f) /\ f > row /\ row' = f
  /\ UNCHANGED <<fill, marker, env, brk, tick, owned, polled>>

TickReads ==
  /\ tick.at = "idle" /\ row > 0
  /\ tick' = [at |-> "read", row |-> row]
  /\ UNCHANGED <<fill, row, marker, env, brk, owned, polled>>

TickVerdict ==
  /\ tick.at = "read"
  /\ tick' = [tick EXCEPT !.at = IF Suppressed(tick.row) THEN "idle" ELSE "buys"]
  /\ UNCHANGED <<fill, row, marker, env, brk, owned, polled>>

TickBuys ==
  /\ tick.at = "buys" /\ tick' = [tick EXCEPT !.at = "idle"]
  /\ polled' = polled \cup {tick.row}
  /\ UNCHANGED <<fill, row, marker, env, brk, owned>>

(***************************************************************************)
(* The canary list changes, the marker ages out, the bot restarts.         *)
(***************************************************************************)
Change == changes < MaxChanges /\ changes' = changes + 1

CanaryList ==
  /\ Change /\ canary' = ~canary
  /\ UNCHANGED <<fill, row, marker, brk, tick, owned, polled>>

\* Mutant of Aged: a marker is kept for good.
AgedNever == FALSE

Aged == marker > 0      \* the TTL bounds a stale marker

AgesOut ==
  /\ Aged /\ marker' = 0 /\ owned' = {}
  /\ UNCHANGED <<fill, row, env, brk, tick, polled>>

\* Every pending fill and answer is lost; the canary list and the roster are
\* sent again.
Restart ==
  /\ Change /\ marker' = 0 /\ owned' = {}
  /\ pc' = [f \in Fill |-> IF pc[f] \in {"stagger", "wait", "old", "plain"} THEN "lost" ELSE pc[f]]
  /\ old' = [f \in Fill |-> "none"] /\ oldRow' = [f \in Fill |-> 0]
  /\ neutral' = [f \in Fill |-> "none"]
  /\ fails' = 0 /\ standDown' = FALSE
  /\ tick' = [at |-> "idle", row |-> 0]
  /\ UNCHANGED <<row, canary, polled>>

Handles(f) ==
  \/ \E usable \in BOOLEAN : Stagger(f, usable)
  \/ Timeout(f) \/ OldWrites(f) \/ OldFails(f)
  \/ \E ok \in BOOLEAN : StageFour(f, ok)
  \/ \E a \in {"ok", "no"} : OldAnswers(f, a)

Tick == TickReads \/ TickVerdict \/ TickBuys

Next ==
  \/ \E f \in Fill : \/ Handles(f)
                     \/ \E heard \in BOOLEAN : Lands(f, heard)
                     \/ \E n \in {"row", "bare"} : Neutral(f, n)
  \/ StandUp \/ Cron \/ Tick
  \/ CanaryList \/ AgesOut \/ Restart

\* Timers fire, a request ends or times out, the poll and the cron go on.
Fairness ==
  /\ WF_vars(\E f \in Fill : Handles(f))
  /\ WF_vars(Tick) /\ WF_vars(Cron \/ AgesOut)

Spec == Init /\ [][Next]_vars /\ Fairness

(***************************************************************************)
(* Properties.                                                             *)
(***************************************************************************)

\* For a canary whale the polled tick goes on only with a row newer than
\* every state the fast path reported as decided, in whichever order the
\* answers of Stage 4 and of the copy-checks came.
PolledDefers ==
  []TypeOK /\ [][tick.at = "read" /\ tick'.at = "buys" /\ canary
       => \A s \in owned : s < tick.row]_vars

\* A fill that the fast path missed, gave up or lost is recovered: it, or a
\* later fill whose row accounts for it, is decided or bought off the row, if
\* a marker stands in the way then when it has aged out.
MissedFillRecovered ==
  []<>\A f \in Fill : Arrived(f) =>
        \E g \in f..Fills : g \in polled \/ pc[g] = "decided"
=============================================================================
