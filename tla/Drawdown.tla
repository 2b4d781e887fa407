------------------------------ MODULE Drawdown ------------------------------
(***************************************************************************)
(* The per-account drawdown breaker: drawdown.mjs (samples and latch, on   *)
(* disk at every check) and the decision of drawdown-rule.mjs.  Time is a  *)
(* small number of ticks in the rolling window; of the samples of one tick *)
(* only the highest matters, so samples is a function of the age in ticks. *)
(* The file keeps the newest 800 samples, which at the default poll do not *)
(* fill the window: a restart reads back the ages below KeptAges.  While   *)
(* no process runs, samples and latch are what the file holds; every save  *)
(* is taken to succeed (48: best-effort), a load may find no file to read. *)
(***************************************************************************)
EXTENDS Naturals, FiniteSetsExt

CONSTANTS
  Window,    \* WINDOW_MS in ticks
  KeptAges,  \* ages whose samples slice(-800) keeps
  Levels,    \* portfolio values, 0 among them
  MinPort    \* MIN_PORT: dust below it

ASSUME DrawdownBounds ==
  /\ {Window, KeptAges, MinPort} \subseteq Nat /\ KeptAges <= Window + 1
  /\ Levels \subseteq Nat /\ 0 \in Levels

Ages  == 0..Window
None  == 0                     \* no sample of that age
Latch == [on : BOOLEAN, high : Levels, age : 0..Window + 1]
NoLatch == [on |-> FALSE, high |-> 0, age |-> 0]
Legacy  == [on |-> TRUE, high |-> 0, age |-> 0]   \* a file without its basis

VARIABLES samples, latch
ddVars == <<samples, latch>>

DrawdownTypeOK == samples \in [Ages -> Levels] /\ latch \in Latch

High(s)      == Max({s[a] : a \in Ages})
Trips(v, h)  == v * 10 < h * 7           \* more than 30 % below
Clears(v, h) == v * 100 >= h * 85        \* DD_CLEAR
HasBasis(l)  == l.high >= MinPort

\* The latch a legacy file gets: its basis is the highest sample, if any
\* reaches MinPort.
Rebased(s, l) ==
  IF ~l.on \/ HasBasis(l) THEN l
  ELSE IF High(s) < MinPort THEN NoLatch
  ELSE [on |-> TRUE, high |-> High(s), age |-> Min({a \in Ages : s[a] = High(s)})]

\* Mutant of Decide: a latch is only left by recovering.
DecideForEver(s, l0, v) ==
  LET l == Rebased(s, l0)
  IN IF l.on THEN (IF Clears(v, l.high) THEN NoLatch ELSE l)
     ELSE IF High(s) >= MinPort /\ v > 0 /\ Trips(v, High(s))
          THEN [on |-> TRUE, high |-> High(s), age |-> 0]
          ELSE NoLatch

\* decide(): the latch after a check that read the portfolio value v.
Decide(s, l0, v) ==
  LET l == Rebased(s, l0)
  IN IF l.on
     THEN IF l.age > Window \/ Clears(v, l.high) THEN NoLatch ELSE l
     ELSE IF High(s) >= MinPort /\ v > 0 /\ Trips(v, High(s))
          THEN [on |-> TRUE, high |-> High(s), age |-> 0]
          ELSE NoLatch

\* drawdownCheck(): the value is sampled, the decision made and both saved.
Sampled(v) == [samples EXCEPT ![0] = Max({@, v})]
DrawdownCheck(v) ==
  /\ samples' = Sampled(v)
  /\ latch' = Decide(Sampled(v), latch, v)

\* A latch older than the window is as good as any older one.
Older(l) == [l EXCEPT !.age = IF l.on /\ @ <= Window THEN @ + 1 ELSE @]

\* One tick passes for the samples and for the latch.
DrawdownAges ==
  /\ samples' = [a \in Ages |-> IF a = 0 THEN None ELSE samples[a - 1]]
  /\ latch' = Older(latch)

Kept(s) == [a \in Ages |-> IF a < KeptAges THEN s[a] ELSE None]

\* What the newest sample may hold: of its tick only the highest is known.
LastSamples(s) ==
  LET young == {a \in Ages : s[a] > 0}
  IN IF young = {} THEN {0} ELSE {v \in Levels : 0 < v /\ v <= s[Min(young)]}

\* Mutant of Loaded: the latch is not read back.
LoadedWithoutLatch(s, l, v) == NoLatch

\* A new process reads the latch back; one without its basis is decided
\* upon at once, with the value v of the newest sample for the portfolio.
Loaded(s, l, v) == IF ~l.on \/ HasBasis(l) THEN l ELSE Decide(s, l, v)

DrawdownLoads ==
  /\ samples' = Kept(samples)
  /\ \E v \in LastSamples(Kept(samples)) : latch' = Loaded(Kept(samples), latch, v)

\* There is no file, or it does not parse: fresh.
DrawdownUnread == samples' = [a \in Ages |-> None] /\ latch' = NoLatch

\* What ends a latch of the first release when it is loaded.
LegacyEnds ==
  LET s == Kept(samples)
  IN High(s) < MinPort \/ \E v \in LastSamples(s) : Clears(v, High(s))
=============================================================================
