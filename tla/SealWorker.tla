---------------------------- MODULE SealWorker -----------------------------
(***************************************************************************)
(* Sealing by block reconciliation: the worker of src/s4-seal.mjs over     *)
(* the evaluation client of S4Hub, the view the chain cursor gives it and  *)
(* the platform's record of sealed blocks.  Block b holds the fill b when  *)
(* b is in Fills.                                                          *)
(*                                                                         *)
(* A tick is a process: the supervisor takes the `running` mutex from a    *)
(* tick that takes too long, and that tick goes on when its await settles. *)
(* Time is left out: a range may be stuck, the node may be behind, and the *)
(* wall-clock budget of a pending block may be spent, whenever the code    *)
(* asks.  `attempts` stops at Attempts, which stands for any larger count. *)
(***************************************************************************)
EXTENDS S4Hub
INSTANCE FiniteSetsExt

CONSTANTS
  LastBlock,  \* bound: the chain's blocks are 1..LastBlock
  HeadLag,    \* COSMOS_SEAL_HEAD_LAG
  Batch,      \* COSMOS_S4_RECON_BATCH
  MaxBehind,  \* COSMOS_S4_RECON_MAX_BEHIND
  Attempts,   \* COSMOS_S4_BLOCK_ATTEMPTS
  MaxFaults   \* bound: faults (Fault) in a behaviour

ASSUME SealAssumption ==
  /\ {LastBlock, HeadLag, Batch, MaxBehind, Attempts} \subseteq Nat \ {0}
  /\ MaxFaults \in Nat
  /\ Fills \subseteq 1..LastBlock

VARIABLES
  view,         \* the cursor: its head, whether connected, its pending blocks
  db,           \* the platform: sealed blocks, persisted cursor
  lastSealed, pendingBlock, attempts, running, started,
  tick,         \* per tick: where it awaits and what it works on
  recon,        \* per tick and block: how its reconcile() stands
  faults,       \* faults so far
  abandoned,    \* history: blocks this process gave up and recorded as unreconciled
  unrecorded,   \* history: blocks it gave up where the post of that record failed
  jumped,       \* history: blocks it left behind when it chose one above to work through
  bootAt        \* history: where the worker of this process resumed

worker   == <<lastSealed, pendingBlock, attempts, running, started, bootAt>>
givenUp  == <<abandoned, unrecorded>>
sealVars == <<view, db, worker, tick, recon, faults, givenUp, jumped>>
vars     == <<s4Vars, sealVars>>

Blocks == 1..LastBlock
Idle   == [at |-> "idle", from |-> 0, to |-> 0, mode |-> "single"]
NoRecon == [b \in Blocks |-> "none"]
Settled == {"ok", "bad", "behind"}
Modes   == {"single", "through", "batch", "advancing"} \* advancing: a batch that sealed a block

TypeOK ==
  /\ S4TypeOK
  /\ view \in [top : 0..LastBlock, up : BOOLEAN, gap : SUBSET Blocks]
  /\ db \in [sealed : SUBSET Blocks, cursor : 0..LastBlock]
  /\ lastSealed \in 0..LastBlock /\ pendingBlock \in 0..LastBlock
  /\ attempts \in 0..Attempts /\ running \in BOOLEAN /\ started \in BOOLEAN
  /\ tick \in [Callers -> [at : {"idle", "boot", "skip", "work", "post", "abandon", "leave"},
                           from : 0..LastBlock, to : 0..LastBlock, mode : Modes]]
  /\ recon \in [Callers -> [Blocks -> {"none", "fetch", "eval"} \cup Settled]]
  /\ faults \in 0..MaxFaults
  /\ {abandoned, unrecorded, jumped} \subseteq SUBSET Blocks /\ bootAt \in 0..LastBlock

Init ==
  /\ S4Init
  /\ view = [top |-> 0, up |-> FALSE, gap |-> {}]
  /\ db = [sealed |-> {}, cursor |-> 0]
  /\ lastSealed = 0 /\ pendingBlock = 0 /\ attempts = 0
  /\ running = FALSE /\ started = FALSE
  /\ tick = [t \in Callers |-> Idle] /\ recon = [t \in Callers |-> NoRecon]
  /\ faults = 0
  /\ abandoned = {} /\ unrecorded = {} /\ jumped = {} /\ bootAt = 0

(* ------------------- what the cursor shows the worker ------------------ *)

Sealable ==
  LET n == Min({view.top} \cup {g - 1 : g \in view.gap}) - HeadLag
  IN IF view.up /\ n > 0 THEN n ELSE 0

\* A skipped header, a disconnect, a failed evaluation, fetch or post, a
\* deadline, a mutex taken or a crash: one more of MaxFaults.
Fault == faults < MaxFaults /\ faults' = faults + 1

\* A header; the ones it skipped are pending.
HeadSeen(n) ==
  LET missed == IF view.top > 0 THEN view.top + 1..n - 1 ELSE {}
  IN /\ view.up /\ n > view.top
     /\ IF missed = {} THEN UNCHANGED faults ELSE Fault
     /\ view' = [view EXCEPT !.top = n, !.gap = @ \cup missed]
     /\ UNCHANGED <<s4Vars, db, worker, tick, recon, givenUp, jumped>>

HubDown ==
  /\ view.up
  /\ Fault
  /\ view' = [view EXCEPT !.up = FALSE]
  /\ UNCHANGED <<s4Vars, db, worker, tick, recon, givenUp, jumped>>

\* The reconnect range runs from the head to Forever.
HubUp ==
  /\ ~ view.up
  /\ view' = [view EXCEPT !.up = TRUE,
                !.gap = @ \cup IF view.top > 0 THEN view.top + 1..LastBlock ELSE {}]
  /\ UNCHANGED <<s4Vars, db, worker, tick, recon, faults, givenUp, jumped>>

\* A backfill through block n replaces the reconnect range.
Backfilled(n) ==
  /\ view.top > 0 /\ LastBlock \in view.gap /\ n >= view.top
  /\ \/ view' = [view EXCEPT !.top = n, !.gap = @ \ (view.top + 1..LastBlock)]
     \/ view' = [view EXCEPT !.gap = @ \ (n + 1..LastBlock)]
  /\ UNCHANGED <<s4Vars, db, worker, tick, recon, faults, givenUp, jumped>>

\* The stream, or a backfill once it had a head, delivers the fill of block f.
FillArrives(f) ==
  /\ view.up \/ view.top > 0
  /\ OnFill(f)
  /\ UNCHANGED sealVars

CursorStep == HubDown \/ HubUp \/ \E n \in Blocks : HeadSeen(n) \/ Backfilled(n)

(* ------------------------- where a tick begins ------------------------- *)

Higher(a, b) == IF a > b THEN a ELSE b
Lower(a, b)  == IF a < b THEN a ELSE b
NextWanted(last) == IF pendingBlock > 0 THEN pendingBlock ELSE last + 1

SetTick(t, at, a, b, mode) ==
  tick' = [tick EXCEPT ![t] = [at |-> at, from |-> a, to |-> b, mode |-> mode]]

\* The tick's work is over; what is left is a report, a backoff and finally.
Leaves(t) ==
  /\ tick' = [tick EXCEPT ![t] = [Idle EXCEPT !.at = "leave"]]
  /\ recon' = [recon EXCEPT ![t] = NoRecon]

\* The tick awaits reconcile() of the blocks a..b.
Reconcile(t, a, b, mode) ==
  /\ b <= LastBlock
  /\ SetTick(t, "work", a, b, mode)
  /\ recon' = [recon EXCEPT ![t] = [n \in Blocks |-> IF n \in a..b THEN "fetch" ELSE "none"]]

\* The block wanted cannot be sealed yet: the blocks a tick may reconcile
\* through a range that is stuck, next to that block or the lowest of all.
ThroughAt(last) ==
  LET n == NextWanted(last)
      held == view.gap \cap n..n + 2
      lowest == Min(view.gap)
  IN (IF held # {} THEN {n} ELSE {})
     \cup (IF view.gap # {} /\ (held = {} \/ lowest < n) THEN {lowest} ELSE {})

\* Walk forward from lastSealed = last through sealable = s: a batch, or the
\* one block that is pending or next.
WalkTo(t, s, last, pending) ==
  IF pending = 0 /\ s - last >= 2 /\ Batch > 1
  THEN Reconcile(t, last + 1, Lower(s, last + Batch), "batch")
  ELSE LET n == IF pending > 0 THEN pending ELSE last + 1 IN Reconcile(t, n, n, "single")

\* A tick from reading the cursor to its first await (214-274).
Plan(t, last) ==
  LET s == Sealable
      blocked == s <= last \/ NextWanted(last) > s
  IN
  \/ blocked /\ Leaves(t) /\ UNCHANGED jumped
  \/ /\ blocked
     /\ \E b \in ThroughAt(last) : /\ Reconcile(t, b, b, "through")
                                   /\ jumped' = jumped \cup NextWanted(last)..b - 1
  \/ /\ ~ blocked /\ s - last > MaxBehind      \* losing ground
     /\ pendingBlock > 0 => attempts = Attempts
     /\ SetTick(t, "skip", last + 1, s, "single") /\ UNCHANGED <<recon, jumped>>
  \/ ~ blocked /\ WalkTo(t, s, last, pendingBlock) /\ UNCHANGED jumped

Free(t) == tick[t].at = "idle" /\ ~ running

Begin(t) ==
  /\ Free(t) /\ started
  /\ running' = TRUE
  /\ Plan(t, lastSealed)
  /\ UNCHANGED <<s4Vars, view, db, lastSealed, pendingBlock, attempts, started, bootAt,
                 faults, givenUp>>

\* boot() waits for an anchored cursor, then reads the persisted one.
BeginBoot(t) ==
  /\ Free(t) /\ ~ started /\ Sealable > 0
  /\ running' = TRUE
  /\ SetTick(t, "boot", 0, Sealable, "single")
  /\ UNCHANGED <<s4Vars, view, db, lastSealed, pendingBlock, attempts, started, bootAt,
                 recon, faults, givenUp, jumped>>

\* The persisted cursor, but never more than MAX_BEHIND behind.
ResumeAt(s, cur) == IF s - cur > MaxBehind THEN s - MaxBehind ELSE cur

\* cur is 0 where the read failed.
BootReply(t, cur) ==
  LET last == ResumeAt(tick[t].to, cur) IN
  /\ tick[t].at = "boot"
  /\ lastSealed' = last /\ bootAt' = last /\ started' = TRUE
  /\ Plan(t, last)
  /\ UNCHANGED <<s4Vars, view, db, pendingBlock, attempts, running, faults, givenUp>>

\* Whether the platform has the record of the blocks s or not: neither post
\* of such a record looks at what became of it (245, 286).
Recorded(s) ==
  \/ abandoned' = abandoned \cup s /\ UNCHANGED <<unrecorded, faults>>
  \/ Fault /\ unrecorded' = unrecorded \cup s /\ UNCHANGED abandoned

\* The post of a skipped range returns, or fails; lastSealed is set either way.
SkipReply(t) ==
  LET to == tick[t].to - MaxBehind IN
  /\ tick[t].at = "skip"
  /\ Recorded(tick[t].from..to)
  /\ lastSealed' = to /\ pendingBlock' = 0 /\ attempts' = 0
  /\ WalkTo(t, tick[t].to, to, 0)
  /\ UNCHANGED <<s4Vars, view, db, running, started, bootAt, jumped>>

(* ------------------------------ reconcile ------------------------------ *)

SetRecon(t, n, to) == recon' = [recon EXCEPT ![t][n] = to]
Rest == <<view, db, worker, tick, givenUp, jumped>>

\* Header and pinned logs arrived; a fill the hub has not evaluated is.
LogsReply(t, n) ==
  /\ tick[t].at = "work" /\ recon[t][n] = "fetch"
  /\ IF n \in Fills \ evaluated
     THEN EvaluateNow(t, n) /\ SetRecon(t, n, "eval")
     ELSE SetRecon(t, n, "ok") /\ UNCHANGED s4Vars
  /\ UNCHANGED <<Rest, faults>>

\* The node is behind, or refuses, answers late or names another hash.
FetchFails(t, n) ==
  /\ tick[t].at = "work" /\ recon[t][n] = "fetch" /\ Fault
  /\ \E r \in {"bad", "behind"} : SetRecon(t, n, r)
  /\ UNCHANGED <<s4Vars, Rest>>

\* Mutant of EvalAnswered: any answer will do.
EvalSettled(t, n) ==
  /\ tick[t].at = "work" /\ recon[t][n] = "eval" /\ call[t][n] \in {"ok", "failed"}
  /\ SetRecon(t, n, "ok")
  /\ call' = [call EXCEPT ![t][n] = "none"]
  /\ UNCHANGED <<jobs, queued, evaluated, ledger, failures, breaker, passedOver, Rest, faults>>

EvalAnswered(t, n) ==
  /\ tick[t].at = "work" /\ recon[t][n] = "eval" /\ call[t][n] \in {"ok", "failed"}
  /\ SetRecon(t, n, IF call[t][n] = "ok" THEN "ok" ELSE "bad")
  /\ call' = [call EXCEPT ![t][n] = "none"]
  /\ UNCHANGED <<jobs, queued, evaluated, ledger, failures, breaker, passedOver, Rest, faults>>

EvalDeadline(t, n) ==
  /\ tick[t].at = "work" /\ recon[t][n] = "eval" /\ Fault
  /\ SetRecon(t, n, "bad")
  /\ call' = [call EXCEPT ![t][n] = "none"]
  /\ UNCHANGED <<jobs, queued, evaluated, ledger, failures, breaker, passedOver, Rest>>

(* ------------------------ sealing strictly in order -------------------- *)

Worked(t) ==
  /\ tick[t].at = "work"
  /\ \A n \in tick[t].from..tick[t].to : recon[t][n] \in Settled

InBatch(t) == tick[t].mode \in {"batch", "advancing"}
OneMore    == Lower(attempts + 1, Attempts)
\* A batch starts the count of its first failure, or clears it (261, 271).
AfterFailure(t) ==
  CASE tick[t].mode = "batch"     -> 1
    [] tick[t].mode = "advancing" -> 0
    [] OTHER -> OneMore

\* The first block is reconciled: its seal is posted.
PostSeal(t) ==
  /\ Worked(t) /\ recon[t][tick[t].from] = "ok"
  /\ tick' = [tick EXCEPT ![t].at = "post"]
  /\ UNCHANGED <<s4Vars, view, db, worker, recon, faults, givenUp, jumped>>

\* A single block out of attempts, or pending for too long.
Spent(t) ==
  /\ ~ InBatch(t) /\ recon[t][tick[t].from] = "bad"
  /\ OneMore >= Attempts \/ pendingBlock = tick[t].from

\* A block that did not reconcile becomes the pending one; nothing after it
\* is sealed in this pass.
Stop(t) ==
  /\ Worked(t) /\ recon[t][tick[t].from] # "ok"
  /\ Spent(t) => OneMore < Attempts
  /\ pendingBlock' = tick[t].from
  /\ attempts' = AfterFailure(t)
  /\ Leaves(t)
  /\ UNCHANGED <<s4Vars, view, db, lastSealed, running, started, bootAt,
                 faults, givenUp, jumped>>

\* The block is recorded as unreconciled on its own.
GiveUp(t) ==
  /\ Worked(t) /\ Spent(t)
  /\ pendingBlock' = tick[t].from
  /\ attempts' = OneMore
  /\ tick' = [tick EXCEPT ![t].at = "abandon"]
  /\ UNCHANGED <<s4Vars, view, db, lastSealed, running, started, bootAt,
                 recon, faults, givenUp, jumped>>

\* Mutant of Advance: to the end of the batch.
AdvanceToEnd(t) == lastSealed' = Higher(lastSealed, tick[t].to)

\* lastSealed never walks backwards here.
Advance(t) == lastSealed' = Higher(lastSealed, tick[t].from)

\* The post returned, whatever its status: the worker moves past the block.
GiveUpReply(t) ==
  /\ tick[t].at = "abandon"
  /\ Recorded({tick[t].from})
  /\ Advance(t)
  /\ pendingBlock' = 0 /\ attempts' = 0
  /\ Leaves(t)
  /\ UNCHANGED <<s4Vars, view, db, running, started, bootAt, jumped>>

\* The platform seals block n, advances its cursor and answers ok.
Sealed(n) == [sealed |-> db.sealed \cup {n}, cursor |-> Higher(db.cursor, n)]

SealReply(t) ==
  LET n == tick[t].from IN
  /\ tick[t].at = "post"
  /\ db' = Sealed(n)
  /\ Advance(t)
  /\ attempts' = 0
  /\ IF InBatch(t)
     THEN /\ \/ /\ n < tick[t].to
                /\ SetTick(t, "work", n + 1, tick[t].to, "advancing")
                /\ UNCHANGED recon
             \/ n = tick[t].to /\ Leaves(t)
          /\ UNCHANGED <<pendingBlock, view>>
     ELSE /\ Leaves(t)
          /\ pendingBlock' = 0
          /\ view' = IF tick[t].mode = "through" THEN [view EXCEPT !.gap = @ \ {n}] ELSE view
  /\ UNCHANGED <<s4Vars, running, started, bootAt, faults, givenUp, jumped>>

\* A status that is not ok: the block is pending.  The platform may have
\* sealed it before it failed.
SealRefused(t) ==
  /\ Fault
  /\ tick[t].at = "post"
  /\ db' \in {db, Sealed(tick[t].from)}
  /\ pendingBlock' = tick[t].from
  /\ attempts' = AfterFailure(t)
  /\ Leaves(t)
  /\ UNCHANGED <<s4Vars, view, lastSealed, running, started, bootAt,
                 givenUp, jumped>>

\* A post that throws (its abort timer, the network) ends the tick at 297.
PostThrows(t) ==
  /\ Fault
  /\ \/ tick[t].at = "post" /\ db' \in {db, Sealed(tick[t].from)}
     \/ tick[t].at = "abandon" /\ UNCHANGED db
  /\ attempts' = OneMore
  /\ Leaves(t)
  /\ UNCHANGED <<s4Vars, view, lastSealed, pendingBlock, running, started, bootAt,
                 givenUp, jumped>>

(* -------------------- the mutex, the supervisor, crashes --------------- *)

\* finally: after the reports and the backoff, whoever holds the mutex now.
Leave(t) ==
  /\ tick[t].at = "leave"
  /\ running' = FALSE
  /\ tick' = [tick EXCEPT ![t] = Idle]
  /\ UNCHANGED <<s4Vars, view, db, lastSealed, pendingBlock, attempts, started, bootAt,
                 recon, faults, givenUp, jumped>>

\* The mutex is taken from a tick that holds it for TICK_HARD_MS.  The one
\* await of boot() has a shorter deadline.
Supervise ==
  /\ running
  /\ Fault
  /\ \A t \in Callers : tick[t].at # "boot"
  /\ running' = FALSE
  /\ attempts' = OneMore
  /\ UNCHANGED <<s4Vars, view, db, lastSealed, pendingBlock, started, bootAt,
                 tick, recon, givenUp, jumped>>

\* The runner dies and is started again; a seal in flight may be committed.
Crash ==
  /\ Fault
  /\ S4Fresh
  /\ db' \in {db} \cup {Sealed(tick[t].from) : t \in {u \in Callers : tick[u].at = "post"}}
  /\ view' = [top |-> 0, up |-> FALSE, gap |-> {}]
  /\ lastSealed' = 0 /\ pendingBlock' = 0 /\ attempts' = 0
  /\ running' = FALSE /\ started' = FALSE /\ bootAt' = 0
  /\ tick' = [t \in Callers |-> Idle] /\ recon' = [t \in Callers |-> NoRecon]
  /\ abandoned' = {} /\ unrecorded' = {} /\ jumped' = {}

Next ==
  \/ \E f \in Fills : FillArrives(f)
  \/ S4Works /\ UNCHANGED sealVars
  \/ S4Fails /\ Fault /\ UNCHANGED <<view, db, worker, tick, recon, givenUp, jumped>>
  \/ CursorStep
  \/ \E t \in Callers :
       \/ Begin(t) \/ BeginBoot(t) \/ SkipReply(t)
       \/ \E cur \in {0, db.cursor} : BootReply(t, cur)
       \/ \E n \in Blocks :
            LogsReply(t, n) \/ FetchFails(t, n) \/ EvalAnswered(t, n) \/ EvalDeadline(t, n)
       \/ PostSeal(t) \/ Stop(t) \/ GiveUp(t) \/ GiveUpReply(t)
       \/ SealReply(t) \/ SealRefused(t) \/ PostThrows(t)
       \/ Leave(t)
  \/ Supervise \/ Crash

Spec == Init /\ [][Next]_vars

(* ------------------------------ properties ----------------------------- *)

\* A sealed block's fill is in the platform's ledger: whatever a hung, loose
\* or late evaluation answers, whichever tick asked, and however often the
\* mutex is taken, tick() (s4-seal.mjs 209-299) posts a seal only behind a
\* committed evaluation - except where an open breaker answered it.
SealedIsCommitted == TypeOK /\ \A b \in db.sealed \cap Fills : b \in ledger \/ b \in passedOver

\* The promise of s4-seal.mjs 12-16 as it is written: a fill the hub has not
\* evaluated is evaluated and awaited before its block is sealed.  evalOne
\* under an open breaker (s4-hub.mjs 94) breaks it.
SealedIsComplete == \A b \in db.sealed \cap Fills : b \in ledger

\* A block the worker's cursor passed, from where this process resumed, was
\* sealed or given up in a post to the platform that names it (the post of
\* the record may fail: s4-seal.mjs 245, 286), unless a tick chose to work
\* through a range above it while it was not sealable (221-242): batches that
\* stop, seals that fail or throw, ranges skipped and ticks that lost the
\* mutex leave no other hole.
NoSilentHole ==
  started => \A b \in bootAt + 1..lastSealed :
    b \in db.sealed \cup abandoned \cup unrecorded \cup jumped

\* What s4-seal.mjs 243-244 and 278-283 say of a block given up: it is
\* recorded as unreconciled, a known gap.  A record whose post failed breaks it.
EveryGapIsRecorded ==
  started => \A b \in bootAt + 1..lastSealed : b \in db.sealed \cup abandoned \cup jumped

\* The promise of s4-seal.mjs 17-18 and 231-235 as it is written: nothing above
\* a pending block seals, and the blocks of a through-range are below the cursor.
NothingIsJumped ==
  started => \A b \in bootAt + 1..lastSealed :
    b \in db.sealed \cup abandoned \cup unrecorded
=============================================================================
