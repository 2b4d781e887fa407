-------------------------- MODULE SealWorkerProofs --------------------------
(***************************************************************************)
(* What the seal worker promises, for any blocks, fills, ticks, batches    *)
(* and faults: a sealed block's fill was committed, or an open breaker     *)
(* answered for it, and no block is passed in silence.                     *)
(***************************************************************************)
EXTENDS SealWorker, WellFoundedInduction, TLAPS

-----------------------------------------------------------------------------
(***************************************************************************)
(* The evaluation client: an answer of success stands for a fill that is   *)
(* in the ledger, or that the breaker passed over.                         *)
(***************************************************************************)
Answers == {"none", "waiting", "ok", "failed"}
Vouched(f) == f \in ledger \cup passedOver

S4Inv ==
  /\ S4TypeOK
  /\ \A t \in Callers, f \in Fills : call[t][f] = "ok" => Vouched(f)

S4Grows == ledger \subseteq ledger' /\ passedOver \subseteq passedOver'

LEMMA SettleAnswers ==
  ASSUME S4Inv, NEW f \in Fills, NEW a \in {"ok", "failed"}, Settle(f, a), S4Grows,
         a = "ok" => f \in ledger' \cup passedOver'
  PROVE  /\ queued' \subseteq Fills
         /\ call' \in [Callers -> [Fills -> Answers]]
         /\ \A t \in Callers, g \in Fills : call'[t][g] = "ok" => g \in ledger' \cup passedOver'
<1> USE DEF Answers
<1>1. queued' \subseteq Fills
  BY DEF Settle, S4Inv, S4TypeOK
<1>2. \A t \in Callers : call'[t] = [call[t] EXCEPT ![f] = IF @ = "waiting" THEN a ELSE @]
  BY DEF Settle
<1>3. \A t \in Callers : call[t] \in [Fills -> Answers]
  BY DEF S4Inv, S4TypeOK
<1>4. \A t \in Callers : call'[t] \in [Fills -> Answers]
  <2> SUFFICES ASSUME NEW t \in Callers PROVE call'[t] \in [Fills -> Answers]
    OBVIOUS
  <2> DEFINE v == IF call[t][f] = "waiting" THEN a ELSE call[t][f]
  <2>1. call[t] \in [Fills -> Answers] /\ call'[t] = [call[t] EXCEPT ![f] = v]
    BY <1>2, <1>3
  <2>2. v \in Answers
    BY <2>1
  <2> HIDE DEF v
  <2> QED BY <2>1, <2>2
<1>5. call' \in [Callers -> [Fills -> Answers]]
  BY <1>4 DEF Settle
<1>6. ASSUME NEW t \in Callers, NEW g \in Fills, call'[t][g] = "ok"
      PROVE  g \in ledger' \cup passedOver'
  <2>1. CASE g = f /\ call[t][f] = "waiting"
    BY <1>2, <1>3, <1>6, <2>1
  <2>2. CASE ~(g = f /\ call[t][f] = "waiting")
    <3>1. call[t][g] = "ok"
      BY <1>2, <1>3, <1>6, <2>2
    <3> QED BY <3>1 DEF S4Inv, Vouched, S4Grows
  <2> QED BY <2>1, <2>2
<1> QED BY <1>1, <1>5, <1>6

JobsOK == jobs \in [Fills -> [Phases -> 0..MaxJobs]]

LEMMA JobsStep ==
  ASSUME JobsOK, NEW f \in Fills, NEW p \in Phases, NEW q \in Phases
  PROVE  /\ jobs[f][p] > 0 /\ Ends(f, p) => JobsOK'
         /\ p # q /\ jobs[f][p] > 0 /\ jobs[f][q] < MaxJobs /\ Moves(f, p, q) => JobsOK'
         /\ jobs[f]["queued"] < MaxJobs /\ Push(f) => JobsOK'
<1>0. MaxJobs \in Nat
  BY S4HubAssumption
<1>1. jobs[f] \in [Phases -> 0..MaxJobs]
  BY DEF JobsOK
<1>2. ASSUME jobs[f][p] > 0, Ends(f, p) PROVE JobsOK'
  <2>1. jobs[f][p] - 1 \in 0..MaxJobs
    BY <1>0, <1>1, <1>2
  <2> QED BY <1>1, <1>2, <2>1 DEF Ends, JobsOK
<1>3. ASSUME p # q, jobs[f][p] > 0, jobs[f][q] < MaxJobs, Moves(f, p, q) PROVE JobsOK'
  <2>1. jobs[f][p] - 1 \in 0..MaxJobs /\ jobs[f][q] + 1 \in 0..MaxJobs
    BY <1>0, <1>1, <1>3
  <2> QED BY <1>1, <1>3, <2>1 DEF Moves, JobsOK
<1>4. ASSUME jobs[f]["queued"] < MaxJobs, Push(f) PROVE JobsOK'
  <2>1. jobs[f]["queued"] + 1 \in 0..MaxJobs
    BY <1>0, <1>1, <1>4 DEF Phases
  <2> QED BY <1>1, <1>4, <2>1 DEF Push, JobsOK
<1> QED BY <1>2, <1>3, <1>4

LEMMA S4OnFill ==
  ASSUME S4Inv, NEW f \in Fills, OnFill(f)
  PROVE  S4Inv' /\ S4Grows
<1>1. JobsOK'
  <2>1. "queued" \in Phases
    BY DEF Phases
  <2> QED BY <2>1, JobsStep DEF OnFill, Push, S4Inv, S4TypeOK, JobsOK
<1> QED BY <1>1 DEF OnFill, Push, S4Inv, S4TypeOK, JobsOK, Vouched, S4Grows

LEMMA S4EvaluateNow ==
  ASSUME S4Inv, NEW t \in Callers, NEW f \in Fills, EvaluateNow(t, f)
  PROVE  S4Inv' /\ S4Grows
<1>1. JobsOK' /\ queued' \subseteq Fills
  <2>1. "queued" \in Phases
    BY DEF Phases
  <2> QED BY <2>1, JobsStep DEF EvaluateNow, Push, S4Inv, S4TypeOK, JobsOK
<1>2. /\ call' \in [Callers -> [Fills -> Answers]]
      /\ \A u \in Callers, g \in Fills : call'[u][g] = "ok" => call[u][g] = "ok"
  BY DEF EvaluateNow, S4Inv, S4TypeOK, Answers
<1> QED BY <1>1, <1>2 DEF EvaluateNow, S4Inv, S4TypeOK, JobsOK, Vouched, S4Grows, Answers

LEMMA S4Settles ==     \* a job of phase p ends and its fill is settled
  ASSUME S4Inv, NEW f \in Fills, NEW p \in Phases, NEW a \in {"ok", "failed"},
         jobs[f][p] > 0, Ends(f, p), Settle(f, a), S4Grows,
         a = "ok" => f \in ledger' \cup passedOver'
  PROVE  /\ JobsOK' /\ queued' \subseteq Fills
         /\ call' \in [Callers -> [Fills -> Answers]]
         /\ \A t \in Callers, g \in Fills : call'[t][g] = "ok" => g \in ledger' \cup passedOver'
<1>1. JobsOK'
  BY JobsStep DEF S4Inv, S4TypeOK, JobsOK
<1> QED BY <1>1, SettleAnswers

LEMMA S4WorksKeeps ==
  ASSUME S4Inv, S4Works PROVE S4Inv' /\ S4Grows
<1> USE DEF S4Inv, S4TypeOK, JobsOK, Vouched, S4Grows, Answers
<1>0. {"queued", "running", "loose"} \subseteq Phases /\ 0 \in 0..BreakerAfter
  BY S4HubAssumption DEF Phases
<1>1. ASSUME NEW f \in Fills, Start(f) PROVE S4Inv' /\ S4Grows
  <2>1. JobsOK'
    BY <1>0, <1>1, JobsStep DEF Start
  <2> QED BY <1>1, <2>1 DEF Start
<1>2. ASSUME NEW f \in Fills, StartUnderBreaker(f) PROVE S4Inv' /\ S4Grows
  <2>1. S4Grows /\ f \in passedOver' /\ passedOver' \subseteq Fills
    BY <1>2 DEF StartUnderBreaker
  <2>2. /\ JobsOK' /\ queued' \subseteq Fills /\ call' \in [Callers -> [Fills -> Answers]]
        /\ \A t \in Callers, g \in Fills : call'[t][g] = "ok" => g \in ledger' \cup passedOver'
    BY <1>0, <1>2, <2>1, S4Settles DEF StartUnderBreaker
  <2> QED BY <1>2, <2>1, <2>2 DEF StartUnderBreaker
<1>3. ASSUME NEW f \in Fills, NEW p \in {"running", "loose"}, Committed(f, p)
      PROVE  S4Inv' /\ S4Grows
  <2>1. S4Grows /\ f \in ledger' /\ ledger' \subseteq Fills /\ evaluated' \subseteq ledger'
    BY <1>3 DEF Committed
  <2>2. /\ JobsOK' /\ queued' \subseteq Fills /\ call' \in [Callers -> [Fills -> Answers]]
        /\ \A t \in Callers, g \in Fills : call'[t][g] = "ok" => g \in ledger' \cup passedOver'
    BY <1>0, <1>3, <2>1, S4Settles DEF Committed
  <2> QED BY <1>0, <1>3, <2>1, <2>2 DEF Committed
<1>4. ASSUME BreakerCloses PROVE S4Inv' /\ S4Grows
  BY <1>4 DEF BreakerCloses
<1> QED BY <1>1, <1>2, <1>3, <1>4 DEF S4Works

LEMMA S4FailsKeeps ==
  ASSUME S4Inv, S4Fails PROVE S4Inv' /\ S4Grows
<1> USE DEF S4Inv, S4TypeOK, JobsOK, Vouched, S4Grows, Answers
<1>0. {"queued", "running", "loose"} \subseteq Phases
  BY DEF Phases
<1>1. ASSUME NEW f \in Fills, Expire(f) PROVE S4Inv' /\ S4Grows
  <2>1. /\ JobsOK' /\ queued' \subseteq Fills /\ call' \in [Callers -> [Fills -> Answers]]
        /\ \A t \in Callers, g \in Fills : call'[t][g] = "ok" => g \in ledger' \cup passedOver'
    BY <1>0, <1>1, S4Settles DEF Expire
  <2> QED BY <1>1, <2>1 DEF Expire
<1>2. ASSUME NEW f \in Fills, Hang(f) PROVE S4Inv' /\ S4Grows
  <2>1. JobsOK'
    BY <1>0, <1>2, JobsStep DEF Hang
  <2>2. /\ queued' \subseteq Fills /\ call' \in [Callers -> [Fills -> Answers]]
        /\ \A t \in Callers, g \in Fills : call'[t][g] = "ok" => g \in ledger' \cup passedOver'
    BY <1>2, SettleAnswers DEF Hang
  <2> QED BY <1>2, <2>1, <2>2 DEF Hang
<1>3. ASSUME NEW f \in Fills, NEW p \in {"running", "loose"}, Refused(f, p)
      PROVE  S4Inv' /\ S4Grows
  <2>1. /\ JobsOK' /\ queued' \subseteq Fills /\ call' \in [Callers -> [Fills -> Answers]]
        /\ \A t \in Callers, g \in Fills : call'[t][g] = "ok" => g \in ledger' \cup passedOver'
    BY <1>0, <1>3, S4Settles DEF Refused
  <2> QED BY <1>3, <2>1 DEF Refused
<1>4. ASSUME NEW f \in Fills, NEW p \in {"running", "loose"}, Failed(f, p)
      PROVE  S4Inv' /\ S4Grows
  <2>1. S4Grows /\ ledger' \subseteq Fills /\ evaluated' \subseteq ledger'
    BY <1>4 DEF Failed
  <2>2. /\ JobsOK' /\ queued' \subseteq Fills /\ call' \in [Callers -> [Fills -> Answers]]
        /\ \A t \in Callers, g \in Fills : call'[t][g] = "ok" => g \in ledger' \cup passedOver'
    BY <1>0, <1>4, <2>1, S4Settles DEF Failed
  <2>3. failures' \in 0..BreakerAfter /\ breaker' \in BOOLEAN
    <3>1. failures' \in 0..BreakerAfter
      BY <1>4, S4HubAssumption DEF Failed
    <3> QED BY <1>4, <3>1 DEF Failed
  <2> QED BY <1>4, <2>1, <2>2, <2>3 DEF Failed
<1> QED BY <1>1, <1>2, <1>3, <1>4 DEF S4Fails

\* A caller's promise is read, or given up.
LEMMA S4Unwaits ==
  ASSUME S4Inv, NEW t \in Callers, NEW f, call' = [call EXCEPT ![t][f] = "none"],
         UNCHANGED <<jobs, queued, evaluated, ledger, failures, breaker, passedOver>>
  PROVE  S4Inv' /\ S4Grows
<1>1. /\ call' \in [Callers -> [Fills -> Answers]]
      /\ \A u \in Callers, g \in Fills : call'[u][g] = "ok" => call[u][g] = "ok"
  BY DEF S4Inv, S4TypeOK, Answers
<1> QED BY <1>1 DEF S4Inv, S4TypeOK, Vouched, S4Grows, Answers

LEMMA S4Restarts ==
  ASSUME S4Inv, S4Fresh PROVE S4Inv' /\ S4Grows
<1>1. JobsOK'
  BY S4HubAssumption DEF S4Fresh, JobsOK
<1>2. call' \in [Callers -> [Fills -> Answers]] /\ \A t \in Callers, g \in Fills : call'[t][g] = "none"
  BY DEF S4Fresh, NoCalls, Answers
<1>3. failures' \in 0..BreakerAfter /\ breaker' \in BOOLEAN
  <2>1. failures' \in 0..BreakerAfter
    BY S4HubAssumption DEF S4Fresh
  <2>2. breaker' \in BOOLEAN
    BY DEF S4Fresh
  <2> QED BY <2>1, <2>2
<1>4. S4Grows /\ ledger' \subseteq Fills /\ passedOver' \subseteq Fills
      /\ queued' = {} /\ evaluated' = {}
  <2>1. PICK S \in SUBSET {f \in Fills : jobs[f]["running"] + jobs[f]["loose"] > 0} :
              ledger' = ledger \cup S
    BY DEF S4Fresh
  <2> QED BY <2>1 DEF S4Fresh, S4Grows, S4Inv, S4TypeOK
<1>5. \A t \in Callers, g \in Fills : call'[t][g] # "ok"
  BY <1>2
<1>6. S4TypeOK'
  BY <1>1, <1>2, <1>3, <1>4 DEF S4TypeOK, JobsOK, Answers
<1> QED BY <1>4, <1>5, <1>6 DEF S4Inv

LEMMA S4Starts == S4Init => S4Inv
<1> SUFFICES ASSUME S4Init PROVE S4Inv
  OBVIOUS
<1>1. JobsOK
  BY S4HubAssumption DEF S4Init, JobsOK
<1>2. call \in [Callers -> [Fills -> Answers]] /\ \A t \in Callers, g \in Fills : call[t][g] = "none"
  BY DEF S4Init, NoCalls, Answers
<1>3. failures \in 0..BreakerAfter /\ breaker \in BOOLEAN
  <2>1. failures \in 0..BreakerAfter
    BY S4HubAssumption DEF S4Init
  <2>2. breaker \in BOOLEAN
    BY DEF S4Init
  <2> QED BY <2>1, <2>2
<1>4. queued = {} /\ evaluated = {} /\ ledger = {} /\ passedOver = {}
  BY DEF S4Init
<1>5. \A t \in Callers, g \in Fills : call[t][g] # "ok"
  BY <1>2
<1>6. S4TypeOK
  BY <1>1, <1>2, <1>3, <1>4 DEF S4TypeOK, JobsOK, Answers
<1> QED BY <1>5, <1>6 DEF S4Inv

-----------------------------------------------------------------------------
(***************************************************************************)
(* Where the worker may walk: the smallest of a set of blocks is one of    *)
(* them, and nothing above the head's seal lag is sealable.                *)
(***************************************************************************)
Less == OpToRel(<, Nat)

LEMMA Smallest ==
  ASSUME NEW S, S \subseteq Nat, S # {}
  PROVE  Min(S) \in S /\ \A y \in S : Min(S) <= y
<1>1. IsWellFoundedOn(Less, Nat)
  BY NatLessThanWellFounded DEF Less
<1>2. PICK x \in S : \A y \in S : ~ (<<y, x>> \in Less)
  BY <1>1, WFMin, Zenon
<1>3. \A y \in S : x <= y
  <2> SUFFICES ASSUME NEW y \in S PROVE x <= y
    OBVIOUS
  <2>1. ~ (y < x)
    BY <1>2 DEF Less, OpToRel
  <2>2. x \in Nat /\ y \in Nat
    OBVIOUS
  <2> QED BY <2>1, <2>2
<1> QED BY <1>3 DEF Min

Views == [top : 0..LastBlock, up : BOOLEAN, gap : SUBSET Blocks]

LEMMA SealableBlock ==
  ASSUME view \in Views
  PROVE  Sealable \in 0..LastBlock
<1> DEFINE S == {view.top} \cup {g - 1 : g \in view.gap}
<1>0. LastBlock \in Nat /\ HeadLag \in Nat
  BY SealAssumption
<1>1. view.top \in 0..LastBlock /\ view.gap \subseteq 1..LastBlock
  BY DEF Views, Blocks
<1>2. S \subseteq Nat /\ view.top \in S
  BY <1>0, <1>1
<1>3. Min(S) \in Nat /\ Min(S) <= view.top
  BY <1>2, Smallest
<1>4. Sealable = IF view.up /\ Min(S) - HeadLag > 0 THEN Min(S) - HeadLag ELSE 0
  BY DEF Sealable
<1> HIDE DEF S
<1> QED BY <1>0, <1>1, <1>3, <1>4

-----------------------------------------------------------------------------
(***************************************************************************)
(* The invariant.  Clear: no block above where the process resumed and     *)
(* below n is missing from C, the blocks that are accounted for.           *)
(***************************************************************************)
Kept    == ledger \cup passedOver
Covered == db.sealed \cup abandoned \cup unrecorded \cup jumped
Clear(n, C, from) == \A b \in Blocks : from < b /\ b < n => b \in C

Ticks == [at : {"idle", "boot", "skip", "work", "post", "abandon", "leave"},
          from : 0..LastBlock, to : 0..LastBlock, mode : Modes]
Rows  == [Blocks -> {"none", "fetch", "eval"} \cup Settled]
Aiming == {"skip", "work", "post", "abandon"}

\* A tick w whose reconciles stand as in r: what it calls reconciled is kept,
\* and the block it works on is next to what is accounted for.
Fine(w, r, K, C, from) ==
  /\ w \in Ticks /\ r \in Rows
  /\ \A n \in Fills : r[n] = "ok" => n \in K
  /\ w.at \in Aiming => w.from \in Blocks /\ Clear(w.from, C, from)
  /\ w.at = "post" => r[w.from] = "ok"
  /\ w.at = "skip" => w.to - MaxBehind >= w.from

TicksInv ==
  /\ tick \in [Callers -> Ticks] /\ recon \in [Callers -> Rows]
  /\ \A t \in Callers : Fine(tick[t], recon[t], Kept, Covered, bootAt)

RecordInv ==
  /\ db \in [sealed : SUBSET Blocks, cursor : 0..LastBlock]
  /\ {abandoned, unrecorded, jumped} \subseteq SUBSET Blocks
  /\ db.sealed \cap Fills \subseteq Kept

CursorInv ==
  /\ lastSealed \in 0..LastBlock /\ pendingBlock \in 0..LastBlock /\ bootAt \in 0..LastBlock
  /\ attempts \in 0..Attempts /\ running \in BOOLEAN /\ started \in BOOLEAN
  /\ started => Clear(lastSealed + 1, Covered, bootAt)
  /\ pendingBlock > 0 => Clear(pendingBlock, Covered, bootAt)

BootInv ==
  /\ \A t \in Callers : tick[t].at = "boot" =>
       running /\ ~ started /\ \A u \in Callers \ {t} : tick[u].at = "idle"
  /\ ~ started => pendingBlock = 0 /\ \A t \in Callers : tick[t].at \in {"idle", "boot"}

OutsideInv == view \in Views /\ faults \in 0..MaxFaults

IInv == S4Inv /\ OutsideInv /\ TicksInv /\ RecordInv /\ CursorInv /\ BootInv

LEMMA TypesHold == IInv => TypeOK
BY DEF IInv, S4Inv, OutsideInv, TicksInv, RecordInv, CursorInv, TypeOK, Views, Ticks, Rows

LEMMA FineGrows ==
  ASSUME NEW w, NEW r, NEW K, NEW L, NEW C, NEW D, NEW a, Fine(w, r, K, C, a),
         K \subseteq L, C \subseteq D
  PROVE  Fine(w, r, L, D, a)
BY DEF Fine, Clear

\* A step in which one tick, if any, moves to w and r.
LEMMA OneTick ==
  ASSUME TicksInv, NEW t \in Callers, NEW w, NEW r,
         tick' = [tick EXCEPT ![t] = w], recon' = [recon EXCEPT ![t] = r],
         Kept \subseteq Kept', Covered \subseteq Covered', bootAt' = bootAt,
         Fine(w, r, Kept', Covered', bootAt)
  PROVE  TicksInv'
<1>1. tick' \in [Callers -> Ticks] /\ recon' \in [Callers -> Rows]
  BY DEF TicksInv, Fine
<1>2. ASSUME NEW u \in Callers PROVE Fine(tick'[u], recon'[u], Kept', Covered', bootAt')
  <2>1. CASE u = t
    BY <2>1 DEF TicksInv
  <2>2. CASE u # t
    <3>1. tick'[u] = tick[u] /\ recon'[u] = recon[u]
      BY <2>2 DEF TicksInv
    <3> QED BY <3>1, FineGrows DEF TicksInv
  <2> QED BY <2>1, <2>2
<1> QED BY <1>1, <1>2 DEF TicksInv

LEMMA NoTick ==
  ASSUME TicksInv, UNCHANGED <<tick, recon, bootAt>>,
         Kept \subseteq Kept', Covered \subseteq Covered'
  PROVE  TicksInv'
BY FineGrows DEF TicksInv

\* A worker that has started has no tick in boot(), and never has again.
LEMMA StartedStays ==
  ASSUME BootInv, TicksInv, NEW t \in Callers, started, started', NEW w, w.at # "boot",
         tick' = [tick EXCEPT ![t] = w]
  PROVE  BootInv'
BY DEF BootInv, TicksInv

LEMMA StartedByNow ==
  ASSUME BootInv, NEW t \in Callers, tick[t].at \notin {"idle", "boot"}
  PROVE  started
BY DEF BootInv

LEMMA KeptGrows == S4Grows => Kept \subseteq Kept'
BY DEF S4Grows, Kept

-----------------------------------------------------------------------------
(***************************************************************************)
(* Where a tick begins.                                                    *)
(***************************************************************************)
TickRow(t, w, r) ==
  /\ tick' = [tick EXCEPT ![t] = w]
  /\ recon' = [recon EXCEPT ![t] = r]

Left == [Idle EXCEPT !.at = "leave"]

LEMMA LeavesFine ==
  ASSUME NEW t \in Callers, Leaves(t), NEW K, NEW C, NEW a
  PROVE  TickRow(t, Left, NoRecon) /\ Left.at = "leave" /\ Fine(Left, NoRecon, K, C, a)
<1>1. LastBlock \in Nat
  BY SealAssumption
<1>2. Left \in Ticks /\ Left.at = "leave"
  BY <1>1 DEF Left, Idle, Ticks, Modes
<1>3. NoRecon \in Rows /\ \A n \in Fills : NoRecon[n] # "ok"
  BY SealAssumption DEF NoRecon, Rows, Blocks
<1> QED BY <1>2, <1>3 DEF Leaves, TickRow, Fine, Aiming, Left

LEMMA ReconcileFine ==
  ASSUME NEW t \in Callers, NEW a \in Blocks, NEW b \in Nat, NEW mode \in Modes,
         Reconcile(t, a, b, mode), NEW K, NEW C, NEW from, Clear(a, C, from)
  PROVE  \E w \in Ticks, r \in Rows :
           TickRow(t, w, r) /\ w.at = "work" /\ Fine(w, r, K, C, from)
<1> DEFINE w == [at |-> "work", from |-> a, to |-> b, mode |-> mode]
           r == [n \in Blocks |-> IF n \in a..b THEN "fetch" ELSE "none"]
<1>1. LastBlock \in Nat /\ b <= LastBlock
  BY SealAssumption DEF Reconcile
<1>2. w \in Ticks
  BY <1>1 DEF Ticks, Blocks
<1>3. r \in Rows /\ \A n \in Fills : r[n] # "ok"
  BY SealAssumption DEF Rows, Blocks
<1>4. TickRow(t, w, r)
  BY DEF Reconcile, SetTick, TickRow
<1>5. Fine(w, r, K, C, from)
  BY <1>2, <1>3 DEF Fine, Aiming
<1>6. w.at = "work"
  OBVIOUS
<1> HIDE DEF w, r
<1> QED BY <1>2, <1>3, <1>4, <1>5, <1>6

LEMMA WalkFine ==
  ASSUME NEW t \in Callers, NEW s \in 0..LastBlock, NEW last \in 0..LastBlock,
         NEW pending \in 0..LastBlock, WalkTo(t, s, last, pending), NEW K, NEW C, NEW from,
         Clear(last + 1, C, from), pending > 0 => Clear(pending, C, from)
  PROVE  \E w \in Ticks, r \in Rows :
           TickRow(t, w, r) /\ w.at = "work" /\ Fine(w, r, K, C, from)
<1>0. LastBlock \in Nat /\ Batch \in Nat \ {0} /\ {"batch", "single"} \subseteq Modes
  BY SealAssumption DEF Modes
<1>1. CASE pending = 0 /\ s - last >= 2 /\ Batch > 1
  <2>1. Reconcile(t, last + 1, Lower(s, last + Batch), "batch")
    BY <1>1 DEF WalkTo
  <2>2. last + 1 \in Blocks /\ Lower(s, last + Batch) \in Nat
    BY <1>0, <1>1 DEF Blocks, Lower
  <2> QED BY <1>0, <2>1, <2>2, ReconcileFine
<1>2. CASE ~ (pending = 0 /\ s - last >= 2 /\ Batch > 1)
  <2> DEFINE n == IF pending > 0 THEN pending ELSE last + 1
  <2>1. Reconcile(t, n, n, "single")
    BY <1>2 DEF WalkTo
  <2>2. n \in Nat /\ n > 0 /\ Clear(n, C, from)
    BY <1>0
  <2>3. n \in Blocks
    <3>1. n <= LastBlock
      BY <2>1 DEF Reconcile
    <3> QED BY <1>0, <2>2, <3>1 DEF Blocks
  <2> HIDE DEF n
  <2> QED BY <1>0, <2>1, <2>2, <2>3, ReconcileFine
<1> QED BY <1>1, <1>2

LEMMA PlanFine ==
  ASSUME OutsideInv, TicksInv, RecordInv, pendingBlock \in 0..LastBlock,
         NEW t \in Callers, NEW last \in 0..LastBlock, Plan(t, last), NEW from,
         Clear(last + 1, Covered, from), pendingBlock > 0 => Clear(pendingBlock, Covered, from),
         Fine(tick[t], recon[t], Kept, Covered, from)
  PROVE  /\ jumped' \subseteq Blocks /\ jumped \subseteq jumped'
         /\ \E w \in Ticks, r \in Rows :
              /\ TickRow(t, w, r) /\ w.at \in {"leave", "work", "skip"}
              /\ Fine(w, r, Kept, db.sealed \cup abandoned \cup unrecorded \cup jumped', from)
<1> DEFINE s == Sealable
           n == NextWanted(last)
           C == db.sealed \cup abandoned \cup unrecorded \cup jumped'
<1>0. LastBlock \in Nat /\ MaxBehind \in Nat /\ "single" \in Modes /\ "through" \in Modes
  BY SealAssumption DEF Modes
<1>1. s \in 0..LastBlock
  BY SealableBlock DEF OutsideInv
<1>2. n \in Nat /\ n > 0 /\ Clear(n, Covered, from)
  BY <1>0 DEF NextWanted
<1>3. jumped \subseteq Blocks
  BY DEF RecordInv
<1> HIDE DEF s, n
<1>4. CASE Leaves(t) /\ UNCHANGED jumped
  <2>1. TickRow(t, Left, NoRecon) /\ Left.at = "leave" /\ Fine(Left, NoRecon, Kept, C, from)
    BY <1>4, LeavesFine
  <2>2. Left \in Ticks /\ NoRecon \in Rows
    BY <2>1 DEF Fine
  <2> QED BY <1>3, <1>4, <2>1, <2>2
<1>5. ASSUME NEW b \in ThroughAt(last), Reconcile(t, b, b, "through"),
             jumped' = jumped \cup n..b - 1
      PROVE  /\ jumped' \subseteq Blocks /\ jumped \subseteq jumped'
             /\ \E w \in Ticks, r \in Rows :
                  TickRow(t, w, r) /\ w.at = "work" /\ Fine(w, r, Kept, C, from)
  <2>1. b \in Blocks
    <3>1. view.gap \subseteq Nat /\ view.gap \subseteq Blocks
      BY DEF OutsideInv, Views, Blocks
    <3>2. view.gap # {} => Min(view.gap) \in view.gap
      BY <3>1, Smallest
    <3>3. b = n \/ (view.gap # {} /\ b = Min(view.gap))
      BY DEF ThroughAt, n
    <3>4. b = n => b \in Blocks
      <4>1. b <= LastBlock
        BY <1>5 DEF Reconcile
      <4> QED BY <1>0, <1>2, <4>1 DEF Blocks
    <3> QED BY <3>1, <3>2, <3>3, <3>4
  <2>2. b \in Nat /\ b <= LastBlock
    BY <1>0, <2>1 DEF Blocks
  <2>3. n..b - 1 \subseteq Blocks
    BY <1>0, <1>2, <2>2 DEF Blocks
  <2>4. Clear(b, C, from)
    <3> SUFFICES ASSUME NEW x \in Blocks, from < x, x < b PROVE x \in C
      BY DEF Clear
    <3>1. x \in Nat
      BY DEF Blocks
    <3>2. CASE x < n
      BY <1>2, <1>5, <3>2 DEF Clear, Covered
    <3>3. CASE ~ (x < n)
      BY <1>2, <1>5, <2>2, <3>1, <3>3
    <3> QED BY <3>2, <3>3
  <2> HIDE DEF C
  <2>5. \E w \in Ticks, r \in Rows :
          TickRow(t, w, r) /\ w.at = "work" /\ Fine(w, r, Kept, C, from)
    BY <1>0, <1>5, <2>1, <2>2, <2>4, ReconcileFine
  <2> QED BY <1>3, <1>5, <2>3, <2>5
<1>6. CASE /\ s - last > MaxBehind
           /\ SetTick(t, "skip", last + 1, s, "single") /\ UNCHANGED <<recon, jumped>>
  <2> DEFINE w == [at |-> "skip", from |-> last + 1, to |-> s, mode |-> "single"]
  <2>1. last + 1 \in Blocks /\ s - MaxBehind >= last + 1
    BY <1>0, <1>1, <1>6 DEF Blocks
  <2>2. w \in Ticks
    BY <1>0, <1>1, <2>1 DEF Ticks, Blocks
  <2>3. Fine(w, recon[t], Kept, C, from)
    BY <1>6, <2>1, <2>2 DEF Fine, Aiming, Covered
  <2>4. TickRow(t, w, recon[t]) /\ recon[t] \in Rows
    BY <1>6 DEF SetTick, TickRow, TicksInv
  <2>5. w.at = "skip"
    OBVIOUS
  <2> HIDE DEF w, C
  <2> QED BY <1>3, <1>6, <2>2, <2>3, <2>4, <2>5 DEF C
<1>7. CASE WalkTo(t, s, last, pendingBlock) /\ UNCHANGED jumped
  <2>1. C = Covered
    BY <1>7 DEF Covered
  <2> HIDE DEF C
  <2>2. \E w \in Ticks, r \in Rows :
          TickRow(t, w, r) /\ w.at = "work" /\ Fine(w, r, Kept, C, from)
    BY <1>1, <1>7, <2>1, WalkFine
  <2> QED BY <1>3, <1>7, <2>2 DEF C
<1>8. \/ Leaves(t) /\ UNCHANGED jumped
      \/ \E b \in ThroughAt(last) : Reconcile(t, b, b, "through") /\ jumped' = jumped \cup n..b - 1
      \/ /\ s - last > MaxBehind
         /\ SetTick(t, "skip", last + 1, s, "single") /\ UNCHANGED <<recon, jumped>>
      \/ WalkTo(t, s, last, pendingBlock) /\ UNCHANGED jumped
  BY DEF Plan, s, n
<1>9. CASE \E b \in ThroughAt(last) :
             Reconcile(t, b, b, "through") /\ jumped' = jumped \cup n..b - 1
  BY <1>5, <1>9
<1> QED BY <1>4, <1>6, <1>7, <1>8, <1>9

-----------------------------------------------------------------------------
(***************************************************************************)
(* The steps.                                                              *)
(***************************************************************************)
LEMMA S4Idles == S4Inv /\ UNCHANGED s4Vars => S4Inv' /\ S4Grows
BY DEF S4Inv, S4TypeOK, s4Vars, Vouched, S4Grows

LEMMA Faulted == OutsideInv /\ Fault => faults' \in 0..MaxFaults
BY SealAssumption DEF OutsideInv, Fault

\* What every step of a process that has not crashed keeps.
Forward == S4Grows /\ Covered \subseteq Covered' /\ bootAt' = bootAt

LEMMA RecordIdles ==
  ASSUME RecordInv, S4Grows, UNCHANGED <<db, givenUp, jumped>>
  PROVE  RecordInv'
BY DEF RecordInv, S4Grows, Kept, givenUp

\* The blocks s given up, whatever became of the post of their record.
LEMMA RecordGrows ==
  ASSUME OutsideInv, RecordInv, NEW s \in SUBSET Blocks, Recorded(s), UNCHANGED <<db, jumped>>,
         S4Grows
  PROVE  /\ faults' \in 0..MaxFaults /\ RecordInv'
         /\ Covered' = Covered \cup s
<1>1. faults' \in 0..MaxFaults
  BY Faulted DEF Recorded, OutsideInv
<1>2. {abandoned', unrecorded', jumped'} \subseteq SUBSET Blocks /\ Covered' = Covered \cup s
  BY DEF Recorded, RecordInv, Covered
<1>3. db'.sealed \cap Fills \subseteq Kept'
  BY DEF RecordInv, S4Grows, Kept
<1> QED BY <1>1, <1>2, <1>3 DEF RecordInv

LEMMA CursorIdles ==
  ASSUME CursorInv, Covered \subseteq Covered',
         UNCHANGED <<lastSealed, pendingBlock, bootAt, started>>,
         attempts' \in 0..Attempts, running' \in BOOLEAN
  PROVE  CursorInv'
BY DEF CursorInv, Clear

LEMMA TickLeft ==
  ASSUME IInv, NEW t \in Callers, Leaves(t), Forward, tick[t].at \notin {"idle", "boot"},
         started' = started
  PROVE  TicksInv' /\ BootInv'
<1>1. TickRow(t, Left, NoRecon) /\ Left.at = "leave" /\ Fine(Left, NoRecon, Kept', Covered', bootAt)
  BY LeavesFine
<1>2. TicksInv'
  BY <1>1, OneTick, KeptGrows DEF IInv, Forward, TickRow
<1>3. BootInv'
  BY <1>1, StartedByNow, StartedStays DEF IInv, TickRow
<1> QED BY <1>2, <1>3

LEMMA StepTick ==      \* tick t, past boot(), moves to w and r
  ASSUME IInv, NEW t \in Callers, NEW w, NEW r, TickRow(t, w, r), Forward,
         Fine(w, r, Kept', Covered', bootAt), w.at # "boot",
         tick[t].at \notin {"idle", "boot"}, started' = started
  PROVE  TicksInv' /\ BootInv'
<1>1. TicksInv'
  BY OneTick, KeptGrows DEF IInv, Forward, TickRow
<1>2. BootInv'
  BY StartedByNow, StartedStays DEF IInv, TickRow
<1> QED BY <1>1, <1>2

LEMMA CountsAttempts ==
  ASSUME CursorInv
  PROVE  OneMore \in 0..Attempts /\ \A t \in Callers : AfterFailure(t) \in 0..Attempts
<1>1. Attempts \in Nat /\ Attempts > 0 /\ attempts \in 0..Attempts
  BY SealAssumption DEF CursorInv
<1>2. OneMore \in 0..Attempts
  BY <1>1 DEF OneMore, Lower
<1> QED BY <1>1, <1>2 DEF AfterFailure

\* The head, the connection and the gaps may change at any time.
LEMMA CursorSteps ==
  ASSUME IInv, CursorStep PROVE IInv'
<1> USE DEF IInv
<1>0. LastBlock \in Nat
  BY SealAssumption
<1>1. /\ view' \in Views /\ faults' \in 0..MaxFaults
      /\ UNCHANGED <<s4Vars, db, worker, tick, recon, givenUp, jumped>>
  <2>1. CASE HubDown
    BY <2>1, Faulted DEF HubDown, OutsideInv, Views
  <2>2. CASE HubUp
    <3>1. view.top + 1..LastBlock \subseteq Blocks
      BY <1>0 DEF Blocks, OutsideInv, Views
    <3>2. view.gap \cup (IF view.top > 0 THEN view.top + 1..LastBlock ELSE {}) \in SUBSET Blocks
      BY <3>1 DEF OutsideInv, Views
    <3> QED BY <2>2, <3>2 DEF HubUp, OutsideInv, Views
  <2>3. ASSUME NEW n \in Blocks, HeadSeen(n)
        PROVE  /\ view' \in Views /\ faults' \in 0..MaxFaults
               /\ UNCHANGED <<s4Vars, db, worker, tick, recon, givenUp, jumped>>
    <3>1. faults' \in 0..MaxFaults
      BY <2>3, Faulted DEF HeadSeen, OutsideInv
    <3>2. n \in 0..LastBlock /\ view.top + 1..n - 1 \subseteq Blocks
      BY <1>0 DEF Blocks, OutsideInv, Views
    <3> QED BY <2>3, <3>1, <3>2 DEF HeadSeen, OutsideInv, Views
  <2>4. ASSUME NEW n \in Blocks, Backfilled(n)
        PROVE  /\ view' \in Views /\ faults' \in 0..MaxFaults
               /\ UNCHANGED <<s4Vars, db, worker, tick, recon, givenUp, jumped>>
    <3>1. n \in 0..LastBlock
      BY <1>0 DEF Blocks
    <3>2. /\ view.gap \ (view.top + 1..LastBlock) \in SUBSET Blocks
          /\ view.gap \ (n + 1..LastBlock) \in SUBSET Blocks
      BY DEF OutsideInv, Views
    <3>3. view' \in Views
      <4>1. CASE view' = [view EXCEPT !.top = n, !.gap = @ \ (view.top + 1..LastBlock)]
        BY <3>1, <3>2, <4>1 DEF OutsideInv, Views
      <4>2. CASE view' = [view EXCEPT !.gap = @ \ (n + 1..LastBlock)]
        BY <3>2, <4>2 DEF OutsideInv, Views
      <4> QED BY <2>4, <4>1, <4>2 DEF Backfilled
    <3> QED BY <2>4, <3>3 DEF Backfilled, OutsideInv
  <2> QED BY <2>1, <2>2, <2>3, <2>4 DEF CursorStep
<1>2. S4Inv' /\ S4Grows
  BY <1>1, S4Idles
<1>3. RecordInv' /\ Covered' = Covered
  BY <1>1, <1>2, RecordIdles DEF Covered, givenUp
<1>4. TicksInv'
  BY <1>1, <1>2, <1>3, NoTick, KeptGrows DEF worker
<1>5. CursorInv'
  BY <1>1, <1>3, CursorIdles DEF worker, CursorInv
<1>6. BootInv'
  BY <1>1 DEF worker, BootInv
<1> QED BY <1>1, <1>2, <1>3, <1>4, <1>5, <1>6 DEF OutsideInv

\* A step of the evaluation client, under the same worker.
LEMMA S4Steps ==
  ASSUME IInv, S4Inv', S4Grows, OutsideInv',
         UNCHANGED <<db, worker, tick, recon, givenUp, jumped>>
  PROVE  IInv'
<1> USE DEF IInv
<1>1. RecordInv' /\ Covered' = Covered
  BY RecordIdles DEF Covered, givenUp
<1>2. TicksInv'
  BY <1>1, NoTick, KeptGrows DEF worker
<1>3. CursorInv'
  BY <1>1, CursorIdles DEF worker, CursorInv
<1>4. BootInv'
  BY DEF worker, BootInv
<1> QED BY <1>1, <1>2, <1>3, <1>4

LEMMA BeginKeeps ==
  ASSUME IInv, NEW t \in Callers, Begin(t) PROVE IInv'
<1> USE DEF IInv
<1>1. S4Inv' /\ S4Grows /\ OutsideInv'
  BY S4Idles DEF Begin, OutsideInv
<1>2. started /\ bootAt' = bootAt /\ db' = db /\ givenUp' = givenUp
  BY DEF Begin
<1>3. /\ jumped' \subseteq Blocks /\ jumped \subseteq jumped'
      /\ \E w \in Ticks, r \in Rows :
           /\ TickRow(t, w, r) /\ w.at \in {"leave", "work", "skip"}
           /\ Fine(w, r, Kept, db.sealed \cup abandoned \cup unrecorded \cup jumped', bootAt)
  BY <1>2, PlanFine DEF Begin, CursorInv, TicksInv
<1>4. PICK w \in Ticks, r \in Rows :
        /\ TickRow(t, w, r) /\ w.at \in {"leave", "work", "skip"}
        /\ Fine(w, r, Kept, Covered', bootAt)
  BY <1>2, <1>3 DEF Covered, givenUp
<1>5. Covered \subseteq Covered' /\ Kept \subseteq Kept' /\ RecordInv'
  BY <1>1, <1>2, <1>3, KeptGrows DEF Covered, givenUp, RecordInv
<1>6. TicksInv'
  <2>1. Fine(w, r, Kept', Covered', bootAt)
    BY <1>4, <1>5, FineGrows
  <2> QED BY <1>2, <1>4, <1>5, <2>1, OneTick DEF TickRow
<1>7. BootInv'
  BY <1>2, <1>4, StartedStays DEF Begin, TickRow
<1>8. CursorInv'
  BY <1>5, CursorIdles DEF Begin, CursorInv
<1> QED BY <1>1, <1>5, <1>6, <1>7, <1>8

LEMMA BeginBootKeeps ==
  ASSUME IInv, NEW t \in Callers, BeginBoot(t) PROVE IInv'
<1> USE DEF IInv
<1>1. S4Inv' /\ S4Grows /\ OutsideInv'
  BY S4Idles DEF BeginBoot, OutsideInv
<1>2. RecordInv' /\ Covered' = Covered
  BY <1>1, RecordIdles DEF BeginBoot, Covered, givenUp
<1> DEFINE w == [at |-> "boot", from |-> 0, to |-> Sealable, mode |-> "single"]
<1>3. w \in Ticks /\ tick' = [tick EXCEPT ![t] = w] /\ w.at = "boot"
  BY SealAssumption, SealableBlock DEF BeginBoot, SetTick, Ticks, Modes, OutsideInv
<1>4. Fine(w, recon[t], Kept, Covered, bootAt)
  BY <1>3 DEF Fine, TicksInv, Aiming
<1> HIDE DEF w
<1>5. TicksInv'
  <2>1. recon' = [recon EXCEPT ![t] = recon[t]] /\ bootAt' = bootAt
    BY DEF BeginBoot, TicksInv
  <2>2. Fine(w, recon[t], Kept', Covered', bootAt)
    BY <1>1, <1>2, <1>4, FineGrows, KeptGrows
  <2> QED BY <1>1, <1>2, <1>3, <2>1, <2>2, OneTick, KeptGrows
<1>6. BootInv'
  BY <1>3 DEF BeginBoot, Free, BootInv, TicksInv
<1>7. CursorInv'
  BY <1>2, CursorIdles DEF BeginBoot, CursorInv
<1> QED BY <1>1, <1>2, <1>5, <1>6, <1>7

\* boot() ends: the tick is the only one, and nothing is owed yet.
LEMMA BootReplyKeeps ==
  ASSUME IInv, NEW t \in Callers, NEW cur \in 0..LastBlock, BootReply(t, cur) PROVE IInv'
<1> USE DEF IInv
<1> DEFINE last == ResumeAt(tick[t].to, cur)
<1>0. LastBlock \in Nat /\ MaxBehind \in Nat
  BY SealAssumption
<1>1. S4Inv' /\ S4Grows /\ OutsideInv'
  BY S4Idles DEF BootReply, OutsideInv
<1>2. last \in 0..LastBlock
  BY <1>0 DEF ResumeAt, TicksInv, Ticks
<1>3. ~ started /\ pendingBlock = 0 /\ \A u \in Callers \ {t} : tick[u].at = "idle"
  BY DEF BootReply, BootInv
<1>4. Clear(last + 1, Covered, last)
  BY <1>2 DEF Clear, Blocks
<1>5. Fine(tick[t], recon[t], Kept, Covered, last)
  BY DEF BootReply, TicksInv, Fine, Aiming
<1>6. lastSealed' = last /\ bootAt' = last /\ started' = TRUE /\ Plan(t, last)
      /\ UNCHANGED <<db, givenUp, pendingBlock, attempts, running>>
  BY DEF BootReply
<1> HIDE DEF last
<1>7. /\ jumped' \subseteq Blocks /\ jumped \subseteq jumped'
      /\ \E w \in Ticks, r \in Rows :
           /\ TickRow(t, w, r) /\ w.at \in {"leave", "work", "skip"}
           /\ Fine(w, r, Kept, db.sealed \cup abandoned \cup unrecorded \cup jumped', last)
  <2>1. pendingBlock \in 0..LastBlock /\ (pendingBlock > 0 => Clear(pendingBlock, Covered, last))
    BY <1>3 DEF CursorInv
  <2> QED BY <1>2, <1>4, <1>5, <1>6, <2>1, PlanFine
<1>8. PICK w \in Ticks, r \in Rows :
        /\ TickRow(t, w, r) /\ w.at \in {"leave", "work", "skip"}
        /\ Fine(w, r, Kept, Covered', last)
  BY <1>6, <1>7 DEF Covered, givenUp
<1>9. Covered \subseteq Covered' /\ Kept \subseteq Kept' /\ RecordInv'
  BY <1>1, <1>6, <1>7, KeptGrows DEF Covered, givenUp, RecordInv
<1>10. TicksInv'
  <2>1. tick' \in [Callers -> Ticks] /\ recon' \in [Callers -> Rows]
    BY <1>8 DEF TickRow, TicksInv
  <2>2. ASSUME NEW u \in Callers PROVE Fine(tick'[u], recon'[u], Kept', Covered', bootAt')
    <3>1. CASE u = t
      <4>1. tick'[u] = w /\ recon'[u] = r
        BY <1>8, <3>1 DEF TickRow, TicksInv
      <4> QED BY <1>6, <1>8, <1>9, <4>1, FineGrows
    <3>2. CASE u # t
      <4>1. tick'[u] = tick[u] /\ recon'[u] = recon[u] /\ tick[u].at = "idle"
        BY <1>3, <1>8, <3>2 DEF TickRow, TicksInv
      <4> QED BY <1>9, <4>1 DEF TicksInv, Fine, Aiming
    <3> QED BY <3>1, <3>2
  <2> QED BY <2>1, <2>2 DEF TicksInv
<1>11. BootInv'
  BY <1>3, <1>6, <1>8 DEF TickRow, TicksInv, BootInv
<1>12. CursorInv'
  <2>1. Clear(last + 1, Covered', last)
    BY <1>4, <1>9 DEF Clear
  <2> QED BY <1>2, <1>3, <1>6, <2>1 DEF CursorInv
<1> QED BY <1>1, <1>9, <1>10, <1>11, <1>12

LEMMA SkipReplyKeeps ==
  ASSUME IInv, NEW t \in Callers, SkipReply(t) PROVE IInv'
<1> USE DEF IInv
<1> DEFINE to == tick[t].to - MaxBehind
           from == tick[t].from
<1>0. LastBlock \in Nat /\ MaxBehind \in Nat
  BY SealAssumption
<1>1. S4Inv' /\ S4Grows
  BY S4Idles DEF SkipReply
<1>2. /\ tick[t].to \in 0..LastBlock /\ from \in Blocks /\ to >= from
      /\ Clear(from, Covered, bootAt)
  BY DEF SkipReply, TicksInv, Fine, Aiming, Ticks
<1>3. /\ Recorded(from..to) /\ lastSealed' = to /\ pendingBlock' = 0
      /\ attempts' = 0 /\ WalkTo(t, tick[t].to, to, 0) /\ tick[t].at = "skip"
      /\ UNCHANGED <<view, db, running, started, bootAt, jumped>>
  BY DEF SkipReply
<1> HIDE DEF to, from
<1>4. to \in 0..LastBlock /\ from..to \subseteq Blocks
  BY <1>0, <1>2 DEF Blocks, to
<1>5. Covered' = Covered \cup from..to /\ RecordInv' /\ OutsideInv' /\ Kept \subseteq Kept'
  <2>1. from..to \in SUBSET Blocks
    BY <1>4
  <2> QED BY <1>1, <1>3, <2>1, RecordGrows, KeptGrows DEF OutsideInv
<1>6. Clear(to + 1, Covered', bootAt)
  <2> SUFFICES ASSUME NEW x \in Blocks, bootAt < x, x < to + 1 PROVE x \in Covered'
    BY DEF Clear
  <2>1. x \in Nat /\ from \in Nat
    BY <1>2 DEF Blocks
  <2>2. x < from \/ x \in from..to
    BY <1>4, <2>1
  <2> QED BY <1>2, <1>5, <2>2 DEF Clear
<1>7. PICK w \in Ticks, r \in Rows :
        TickRow(t, w, r) /\ w.at = "work" /\ Fine(w, r, Kept', Covered', bootAt)
  BY <1>0, <1>2, <1>3, <1>4, <1>6, WalkFine
<1>8. TicksInv' /\ BootInv'
  BY <1>1, <1>3, <1>5, <1>7, StepTick DEF Forward
<1>9. CursorInv'
  BY <1>0, <1>3, <1>4, <1>6, SealAssumption DEF CursorInv
<1> QED BY <1>1, <1>5, <1>8, <1>9

LEMMA ReconcileSteps ==
  ASSUME IInv, NEW t \in Callers, NEW n \in Blocks,
         LogsReply(t, n) \/ FetchFails(t, n) \/ EvalAnswered(t, n) \/ EvalDeadline(t, n)
  PROVE  IInv'
<1> USE DEF IInv
<1> DEFINE to(a) == [recon[t] EXCEPT ![n] = a]
<1>1. tick[t].at = "work" /\ UNCHANGED Rest
  BY DEF LogsReply, FetchFails, EvalAnswered, EvalDeadline
<1>2. /\ S4Inv' /\ S4Grows /\ faults' \in 0..MaxFaults
      /\ \E a \in {"eval", "ok", "bad", "behind"} :
           SetRecon(t, n, a) /\ (a = "ok" /\ n \in Fills => n \in Kept')
  <2>1. CASE LogsReply(t, n)
    <3>1. CASE n \in Fills \ evaluated
      BY <2>1, <3>1, S4EvaluateNow DEF LogsReply, OutsideInv
    <3>2. CASE n \notin Fills \ evaluated
      <4>1. S4Inv' /\ S4Grows /\ SetRecon(t, n, "ok") /\ faults' = faults
        BY <2>1, <3>2, S4Idles DEF LogsReply
      <4>2. n \in Fills => n \in Kept'
        BY <3>2, <4>1, KeptGrows DEF S4Inv, S4TypeOK, Kept
      <4> QED BY <4>1, <4>2 DEF OutsideInv
    <3> QED BY <3>1, <3>2
  <2>2. CASE FetchFails(t, n)
    BY <2>2, S4Idles, Faulted DEF FetchFails
  <2>3. CASE EvalAnswered(t, n)
    <3>1. S4Inv' /\ S4Grows
      BY <2>3, S4Unwaits DEF EvalAnswered
    <3>2. call[t][n] = "ok" /\ n \in Fills => n \in Kept'
      BY <3>1, KeptGrows DEF S4Inv, Vouched, Kept
    <3> QED BY <2>3, <3>1, <3>2 DEF EvalAnswered, OutsideInv
  <2>4. CASE EvalDeadline(t, n)
    BY <2>4, S4Unwaits, Faulted DEF EvalDeadline
  <2> QED BY <2>1, <2>2, <2>3, <2>4
<1>3. PICK a \in {"eval", "ok", "bad", "behind"} :
        SetRecon(t, n, a) /\ (a = "ok" /\ n \in Fills => n \in Kept')
  BY <1>2
<1>4. RecordInv' /\ Covered' = Covered /\ Kept \subseteq Kept'
  BY <1>1, <1>2, RecordIdles, KeptGrows DEF Rest, Covered, givenUp
<1>5. Fine(tick[t], to(a), Kept', Covered', bootAt)
  <2>1. Fine(tick[t], recon[t], Kept', Covered', bootAt)
    BY <1>4, FineGrows DEF TicksInv
  <2>2. to(a) \in Rows /\ \A m \in Fills : to(a)[m] = "ok" => m \in Kept'
    BY <1>3, <2>1 DEF Fine, Rows, Settled
  <2> QED BY <1>1, <2>1, <2>2 DEF Fine
<1>6. TickRow(t, tick[t], to(a))
  BY <1>1, <1>3 DEF Rest, SetRecon, TickRow, TicksInv
<1> HIDE DEF to
<1>7. TicksInv' /\ BootInv'
  BY <1>1, <1>2, <1>4, <1>5, <1>6, StepTick DEF Rest, worker, Forward
<1>8. CursorInv' /\ OutsideInv'
  BY <1>1, <1>2, <1>4, CursorIdles DEF Rest, worker, CursorInv, OutsideInv
<1> QED BY <1>2, <1>4, <1>7, <1>8

\* The first block is reconciled: only such a block is ever posted.
LEMMA PostSealKeeps ==
  ASSUME IInv, NEW t \in Callers, PostSeal(t) PROVE IInv'
<1> USE DEF IInv
<1> DEFINE w == [tick[t] EXCEPT !.at = "post"]
<1>1. S4Inv' /\ S4Grows /\ OutsideInv'
  BY S4Idles DEF PostSeal, OutsideInv
<1>2. RecordInv' /\ Covered' = Covered /\ Kept \subseteq Kept'
  BY <1>1, RecordIdles, KeptGrows DEF PostSeal, Covered, givenUp
<1>3. tick[t].at = "work" /\ recon[t][tick[t].from] = "ok"
  BY DEF PostSeal, Worked
<1>4. w \in Ticks /\ w.at = "post" /\ w.from = tick[t].from
  BY DEF TicksInv, Ticks
<1>5. TickRow(t, w, recon[t])
  BY DEF PostSeal, TickRow, TicksInv
<1> HIDE DEF w
<1>6. Fine(w, recon[t], Kept', Covered', bootAt)
  <2>1. Fine(tick[t], recon[t], Kept', Covered', bootAt)
    BY <1>2, FineGrows DEF TicksInv
  <2> QED BY <1>3, <1>4, <2>1 DEF Fine, Aiming
<1>7. bootAt' = bootAt /\ started' = started
  BY DEF PostSeal, worker
<1>8. TicksInv' /\ BootInv'
  BY <1>1, <1>2, <1>3, <1>4, <1>5, <1>6, <1>7, StepTick DEF Forward
<1>9. CursorInv'
  BY <1>2, CursorIdles DEF PostSeal, worker, CursorInv
<1> QED BY <1>1, <1>2, <1>8, <1>9

\* A tick works on a block that is next to what is accounted for.
LEMMA Aims ==
  ASSUME TicksInv, NEW t \in Callers, tick[t].at \in Aiming
  PROVE  tick[t].from \in Blocks /\ tick[t].from \in 0..LastBlock
         /\ Clear(tick[t].from, Covered, bootAt)
BY DEF TicksInv, Fine, Ticks

\* The block of tick t becomes the pending one.
LEMMA BecomesPending ==
  ASSUME CursorInv, TicksInv, NEW t \in Callers, tick[t].at \in Aiming,
         Covered \subseteq Covered', pendingBlock' = tick[t].from, attempts' \in 0..Attempts,
         UNCHANGED <<lastSealed, running, started, bootAt>>
  PROVE  CursorInv'
<1>1. tick[t].from \in 0..LastBlock /\ Clear(tick[t].from, Covered, bootAt)
  BY Aims
<1> QED BY <1>1 DEF CursorInv, Clear

LEMMA StopKeeps ==
  ASSUME IInv, NEW t \in Callers, Stop(t) PROVE IInv'
<1> USE DEF IInv
<1>1. S4Inv' /\ S4Grows /\ OutsideInv'
  BY S4Idles DEF Stop, OutsideInv
<1>2. RecordInv' /\ Covered' = Covered
  BY <1>1, RecordIdles DEF Stop, Covered, givenUp
<1>3. tick[t].at = "work"
  BY DEF Stop, Worked
<1>4. TicksInv' /\ BootInv'
  BY <1>1, <1>2, <1>3, TickLeft DEF Stop, Forward
<1>5. CursorInv'
  BY <1>2, <1>3, BecomesPending, CountsAttempts DEF Stop, Aiming
<1> QED BY <1>1, <1>2, <1>4, <1>5

LEMMA GiveUpKeeps ==
  ASSUME IInv, NEW t \in Callers, GiveUp(t) PROVE IInv'
<1> USE DEF IInv
<1> DEFINE w == [tick[t] EXCEPT !.at = "abandon"]
<1>1. S4Inv' /\ S4Grows /\ OutsideInv'
  BY S4Idles DEF GiveUp, OutsideInv
<1>2. RecordInv' /\ Covered' = Covered /\ Kept \subseteq Kept'
  BY <1>1, RecordIdles, KeptGrows DEF GiveUp, Covered, givenUp
<1>3. tick[t].at = "work"
  BY DEF GiveUp, Worked
<1>4. w \in Ticks /\ w.at = "abandon" /\ w.from = tick[t].from
  BY DEF TicksInv, Ticks
<1>5. TickRow(t, w, recon[t])
  BY DEF GiveUp, TickRow, TicksInv
<1> HIDE DEF w
<1>6. Fine(w, recon[t], Kept', Covered', bootAt)
  <2>1. Fine(tick[t], recon[t], Kept', Covered', bootAt)
    BY <1>2, FineGrows DEF TicksInv
  <2> QED BY <1>3, <1>4, <2>1 DEF Fine, Aiming
<1>7. bootAt' = bootAt /\ started' = started
  BY DEF GiveUp
<1>8. TicksInv' /\ BootInv'
  BY <1>1, <1>2, <1>3, <1>4, <1>5, <1>6, <1>7, StepTick DEF Forward
<1>9. CursorInv'
  BY <1>2, <1>3, BecomesPending, CountsAttempts DEF GiveUp, Aiming
<1> QED BY <1>1, <1>2, <1>8, <1>9

\* The cursor moves past the block of tick t, which is accounted for.
LEMMA MovesPast ==
  ASSUME CursorInv, TicksInv, NEW t \in Callers, tick[t].at \in Aiming, Advance(t),
         Covered \subseteq Covered', tick[t].from \in Covered',
         pendingBlock' \in {0, pendingBlock}, attempts' \in 0..Attempts,
         UNCHANGED <<running, started, bootAt>>
  PROVE  CursorInv'
<1> DEFINE n == tick[t].from
<1>1. n \in Blocks /\ n \in 0..LastBlock /\ Clear(n, Covered, bootAt)
  BY Aims
<1>2. lastSealed' = Higher(lastSealed, n) /\ n \in Covered'
  BY DEF Advance
<1> HIDE DEF n
<1>3. Clear(n + 1, Covered', bootAt)
  <2> SUFFICES ASSUME NEW x \in Blocks, bootAt < x, x < n + 1 PROVE x \in Covered'
    BY DEF Clear
  <2>1. x \in Nat /\ n \in Nat
    BY <1>1 DEF Blocks
  <2>2. x < n \/ x = n
    BY <2>1
  <2> QED BY <1>1, <1>2, <2>2 DEF Clear
<1>4. lastSealed' = lastSealed \/ lastSealed' = n
  BY <1>2 DEF Higher
<1>5. started' => Clear(lastSealed' + 1, Covered', bootAt')
  BY <1>3, <1>4 DEF CursorInv, Clear
<1>6. pendingBlock' > 0 => Clear(pendingBlock', Covered', bootAt')
  BY DEF CursorInv, Clear
<1>7. lastSealed' \in 0..LastBlock /\ pendingBlock' \in 0..LastBlock
  BY <1>1, <1>4, SealAssumption DEF CursorInv
<1> QED BY <1>5, <1>6, <1>7 DEF CursorInv

LEMMA GiveUpReplyKeeps ==
  ASSUME IInv, NEW t \in Callers, GiveUpReply(t) PROVE IInv'
<1> USE DEF IInv
<1>1. S4Inv' /\ S4Grows
  BY S4Idles DEF GiveUpReply
<1>2. tick[t].at = "abandon" /\ tick[t].from \in Blocks
  BY Aims DEF GiveUpReply, Aiming
<1>3. Covered' = Covered \cup {tick[t].from} /\ RecordInv' /\ OutsideInv'
  <2>1. {tick[t].from} \in SUBSET Blocks
    BY <1>2
  <2> QED BY <1>1, <2>1, RecordGrows DEF GiveUpReply, OutsideInv
<1>4. TicksInv' /\ BootInv'
  BY <1>1, <1>2, <1>3, TickLeft DEF GiveUpReply, Forward
<1>5. CursorInv'
  <2>1. attempts' \in 0..Attempts
    BY SealAssumption DEF GiveUpReply
  <2> QED BY <1>2, <1>3, <2>1, MovesPast DEF GiveUpReply, Aiming
<1> QED BY <1>1, <1>3, <1>4, <1>5

\* The platform seals block n; its fill, if it holds one, is kept.
LEMMA SealRecorded ==
  ASSUME RecordInv, S4Grows, NEW n \in Blocks, n \in Fills => n \in Kept,
         db' \in {db, Sealed(n)}, UNCHANGED <<givenUp, jumped>>
  PROVE  RecordInv' /\ Covered \subseteq Covered' /\ (db' = Sealed(n) => n \in Covered')
<1>1. n \in 0..LastBlock
  BY SealAssumption DEF Blocks
<1>2. CASE db' = db
  <2>1. RecordInv' /\ Covered' = Covered
    BY <1>2, RecordIdles DEF Covered, givenUp
  <2>2. db = Sealed(n) => n \in Covered
    BY DEF Sealed, Covered, givenUp
  <2> QED BY <1>2, <2>1, <2>2
<1>3. CASE db' = Sealed(n)
  <2>1. Sealed(n).sealed = db.sealed \cup {n} /\ Sealed(n).cursor = Higher(db.cursor, n)
    BY DEF Sealed
  <2>2. db' \in [sealed : SUBSET Blocks, cursor : 0..LastBlock]
    BY <1>1, <1>3 DEF Sealed, RecordInv, Higher
  <2>3. db'.sealed \cap Fills \subseteq Kept'
    BY <1>3, <2>1, KeptGrows DEF RecordInv, givenUp
  <2>4. Covered' = Covered \cup {n}
    BY <1>3, <2>1 DEF Covered, givenUp
  <2> QED BY <2>2, <2>3, <2>4 DEF RecordInv, givenUp
<1> QED BY <1>2, <1>3

LEMMA PostedIsKept ==
  ASSUME TicksInv, NEW t \in Callers, tick[t].at = "post", tick[t].from \in Fills
  PROVE  tick[t].from \in Kept
BY DEF TicksInv, Fine

LEMMA SealReplyKeeps ==
  ASSUME IInv, NEW t \in Callers, SealReply(t) PROVE IInv'
<1> USE DEF IInv
<1> DEFINE n == tick[t].from
<1>0. LastBlock \in Nat /\ "advancing" \in Modes
  BY SealAssumption DEF Modes
<1>1. S4Inv' /\ S4Grows /\ OutsideInv'
  <2>1. view' \in Views
    BY DEF SealReply, OutsideInv, Views
  <2> QED BY <2>1, S4Idles DEF SealReply, OutsideInv
<1>2. tick[t].at = "post" /\ n \in Blocks /\ Clear(n, Covered, bootAt)
      /\ tick[t].to \in 0..LastBlock
  BY Aims DEF SealReply, Aiming, TicksInv, Ticks
<1>3. db' = Sealed(n) /\ UNCHANGED <<givenUp, jumped, running, started, bootAt>>
  BY DEF SealReply
<1>4. RecordInv' /\ Covered \subseteq Covered' /\ n \in Covered' /\ Kept \subseteq Kept'
  BY <1>1, <1>2, <1>3, SealRecorded, PostedIsKept, KeptGrows
<1>5. CursorInv'
  <2>1. attempts' \in 0..Attempts /\ pendingBlock' \in {0, pendingBlock}
    BY SealAssumption DEF SealReply
  <2>2. Advance(t)
    BY DEF SealReply
  <2> QED BY <1>2, <1>3, <1>4, <2>1, <2>2, MovesPast DEF Aiming
<1>6. CASE Leaves(t)
  BY <1>1, <1>2, <1>3, <1>4, <1>5, <1>6, TickLeft DEF Forward
<1>7. CASE n < tick[t].to /\ SetTick(t, "work", n + 1, tick[t].to, "advancing") /\ UNCHANGED recon
  <2> DEFINE w == [at |-> "work", from |-> n + 1, to |-> tick[t].to, mode |-> "advancing"]
  <2>1. n + 1 \in Blocks
    BY <1>0, <1>2, <1>7 DEF Blocks
  <2>2. w \in Ticks /\ w.at = "work" /\ w.from = n + 1
    BY <1>0, <1>2, <2>1 DEF Ticks, Blocks
  <2>3. TickRow(t, w, recon[t])
    BY <1>7 DEF SetTick, TickRow, TicksInv
  <2>4. Clear(n + 1, Covered', bootAt)
    <3> SUFFICES ASSUME NEW x \in Blocks, bootAt < x, x < n + 1 PROVE x \in Covered'
      BY DEF Clear
    <3>1. x < n \/ x = n
      BY <1>2 DEF Blocks
    <3> QED BY <1>2, <1>4, <3>1 DEF Clear
  <2> HIDE DEF w, n
  <2>5. Fine(w, recon[t], Kept', Covered', bootAt)
    <3>1. Fine(tick[t], recon[t], Kept', Covered', bootAt)
      BY <1>4, FineGrows DEF TicksInv
    <3> QED BY <2>1, <2>2, <2>4, <3>1 DEF Fine, Aiming
  <2>6. TicksInv' /\ BootInv'
    BY <1>1, <1>2, <1>3, <1>4, <2>2, <2>3, <2>5, StepTick DEF Forward
  <2> QED BY <1>1, <1>4, <1>5, <2>6
<1> QED BY <1>6, <1>7 DEF SealReply

LEMMA SealRefusedKeeps ==
  ASSUME IInv, NEW t \in Callers, SealRefused(t) PROVE IInv'
<1> USE DEF IInv
<1>1. S4Inv' /\ S4Grows /\ OutsideInv'
  BY S4Idles, Faulted DEF SealRefused, OutsideInv
<1>2. tick[t].at = "post" /\ tick[t].from \in Blocks
  BY Aims DEF SealRefused, Aiming
<1>3. RecordInv' /\ Covered \subseteq Covered'
  BY <1>1, <1>2, SealRecorded, PostedIsKept DEF SealRefused
<1>4. TicksInv' /\ BootInv'
  BY <1>1, <1>2, <1>3, TickLeft DEF SealRefused, Forward
<1>5. CursorInv'
  BY <1>2, <1>3, BecomesPending, CountsAttempts DEF SealRefused, Aiming
<1> QED BY <1>1, <1>3, <1>4, <1>5

LEMMA PostThrowsKeeps ==
  ASSUME IInv, NEW t \in Callers, PostThrows(t) PROVE IInv'
<1> USE DEF IInv
<1>1. S4Inv' /\ S4Grows /\ OutsideInv'
  BY S4Idles, Faulted DEF PostThrows, OutsideInv
<1>2. tick[t].at \in {"post", "abandon"} /\ tick[t].from \in Blocks
  BY Aims DEF PostThrows, Aiming
<1>3. RecordInv' /\ Covered \subseteq Covered'
  <2>1. CASE tick[t].at = "post" /\ db' \in {db, Sealed(tick[t].from)}
    BY <1>1, <1>2, <2>1, SealRecorded, PostedIsKept DEF PostThrows
  <2>2. CASE UNCHANGED db
    BY <1>1, <2>2, RecordIdles DEF PostThrows, Covered, givenUp
  <2> QED BY <2>1, <2>2 DEF PostThrows
<1>4. TicksInv' /\ BootInv'
  BY <1>1, <1>2, <1>3, TickLeft DEF PostThrows, Forward
<1>5. CursorInv'
  BY <1>3, CursorIdles, CountsAttempts DEF PostThrows, CursorInv
<1> QED BY <1>1, <1>3, <1>4, <1>5

LEMMA LeaveKeeps ==
  ASSUME IInv, NEW t \in Callers, Leave(t) PROVE IInv'
<1> USE DEF IInv
<1>1. S4Inv' /\ S4Grows /\ OutsideInv'
  BY S4Idles DEF Leave, OutsideInv
<1>2. RecordInv' /\ Covered' = Covered
  BY <1>1, RecordIdles DEF Leave, Covered, givenUp
<1>3. Idle \in Ticks /\ Idle.at = "idle" /\ TickRow(t, Idle, recon[t])
  BY SealAssumption DEF Leave, Idle, Ticks, Modes, TickRow, TicksInv
<1>4. Fine(Idle, recon[t], Kept', Covered', bootAt)
  <2>1. Fine(tick[t], recon[t], Kept', Covered', bootAt)
    BY <1>1, <1>2, FineGrows, KeptGrows DEF TicksInv
  <2> QED BY <1>3, <2>1 DEF Fine, Aiming
<1>5. tick[t].at = "leave" /\ bootAt' = bootAt /\ started' = started
  BY DEF Leave
<1>6. TicksInv' /\ BootInv'
  BY <1>1, <1>2, <1>3, <1>4, <1>5, StepTick DEF Forward
<1>7. CursorInv'
  BY <1>2, CursorIdles DEF Leave, CursorInv
<1> QED BY <1>1, <1>2, <1>6, <1>7

\* The supervisor takes the mutex; the tick it took it from stays.
LEMMA SuperviseKeeps ==
  ASSUME IInv, Supervise PROVE IInv'
<1> USE DEF IInv
<1>1. S4Inv' /\ S4Grows /\ OutsideInv'
  BY S4Idles, Faulted DEF Supervise, OutsideInv
<1>2. RecordInv' /\ Covered' = Covered
  BY <1>1, RecordIdles DEF Supervise, Covered, givenUp
<1>3. TicksInv'
  BY <1>1, <1>2, NoTick, KeptGrows DEF Supervise
<1>4. BootInv'
  BY DEF Supervise, BootInv
<1>5. CursorInv'
  BY <1>2, CursorIdles, CountsAttempts DEF Supervise, CursorInv
<1> QED BY <1>1, <1>2, <1>3, <1>4, <1>5

\* A fresh worker: nothing is owed, and nothing of a tick is left.
LEMMA FreshTicks ==
  ASSUME NEW K, NEW C, NEW a, NEW t \in Callers
  PROVE  Fine(Idle, NoRecon, K, C, a) /\ Idle.at = "idle"
<1>1. Idle \in Ticks /\ Idle.at = "idle"
  BY SealAssumption DEF Idle, Ticks, Modes
<1>2. NoRecon \in Rows /\ \A n \in Fills : NoRecon[n] # "ok"
  BY SealAssumption DEF NoRecon, Rows, Blocks
<1> QED BY <1>1, <1>2 DEF Fine, Aiming

LEMMA CrashKeeps ==
  ASSUME IInv, Crash PROVE IInv'
<1> USE DEF IInv
<1>0. LastBlock \in Nat /\ Attempts \in Nat
  BY SealAssumption
<1>1. S4Inv' /\ S4Grows
  BY S4Restarts DEF Crash
<1>2. OutsideInv'
  <2>1. [top |-> 0, up |-> FALSE, gap |-> {}] \in Views
    BY <1>0 DEF Views
  <2> QED BY <2>1, Faulted DEF Crash, OutsideInv
<1>3. /\ db' \in [sealed : SUBSET Blocks, cursor : 0..LastBlock]
      /\ db'.sealed \cap Fills \subseteq Kept'
  <2>1. CASE db' = db
    BY <1>1, <2>1, KeptGrows DEF RecordInv, givenUp
  <2>2. ASSUME NEW t \in Callers, tick[t].at = "post", db' = Sealed(tick[t].from)
        PROVE  /\ db' \in [sealed : SUBSET Blocks, cursor : 0..LastBlock]
               /\ db'.sealed \cap Fills \subseteq Kept'
    <3>1. tick[t].from \in Blocks /\ tick[t].from \in 0..LastBlock
      BY <2>2, Aims DEF Aiming
    <3>2. db'.sealed = db.sealed \cup {tick[t].from}
      BY <2>2 DEF Sealed
    <3>3. db' \in [sealed : SUBSET Blocks, cursor : 0..LastBlock]
      BY <2>2, <3>1 DEF Sealed, RecordInv, Higher
    <3> QED BY <1>1, <2>2, <3>2, <3>3, PostedIsKept, KeptGrows DEF RecordInv, givenUp
  <2> QED BY <2>1, <2>2 DEF Crash
<1>4. RecordInv'
  BY <1>3 DEF Crash, RecordInv
<1>5. TicksInv'
  <2>1. tick' = [t \in Callers |-> Idle] /\ recon' = [t \in Callers |-> NoRecon]
    BY DEF Crash
  <2>2. \A t \in Callers : Fine(Idle, NoRecon, Kept', Covered', bootAt')
    BY FreshTicks
  <2>3. \A t \in Callers : Idle \in Ticks /\ NoRecon \in Rows
    BY <2>2 DEF Fine
  <2> QED BY <2>1, <2>2, <2>3 DEF TicksInv
<1>6. BootInv'
  BY DEF Crash, BootInv, Idle
<1>7. CursorInv'
  <2>1. /\ lastSealed' = 0 /\ pendingBlock' = 0 /\ attempts' = 0 /\ bootAt' = 0
        /\ ~ running' /\ ~ started' /\ running' \in BOOLEAN /\ started' \in BOOLEAN
    BY DEF Crash
  <2>2. 0 \in 0..LastBlock /\ 0 \in 0..Attempts /\ ~ (0 > 0)
    BY <1>0
  <2> QED BY <2>1, <2>2, Zenon DEF CursorInv
<1> QED BY <1>1, <1>2, <1>4, <1>5, <1>6, <1>7

-----------------------------------------------------------------------------
(***************************************************************************)
(* The theorems.                                                           *)
(***************************************************************************)
LEMMA Starts == Init => IInv
<1> SUFFICES ASSUME Init PROVE IInv
  OBVIOUS
<1>0. {LastBlock, Attempts, MaxFaults} \subseteq Nat
  BY SealAssumption
<1>1. S4Inv
  BY S4Starts DEF Init
<1>2. OutsideInv
  <2>1. [top |-> 0, up |-> FALSE, gap |-> {}] \in Views
    BY <1>0 DEF Views
  <2> QED BY <1>0, <2>1 DEF Init, OutsideInv
<1>3. RecordInv
  <2>1. db.sealed = {} /\ db.cursor = 0 /\ db \in [sealed : SUBSET Blocks, cursor : 0..LastBlock]
    BY <1>0 DEF Init
  <2> QED BY <2>1 DEF Init, RecordInv
<1>4. TicksInv
  <2>1. \A t \in Callers : Fine(Idle, NoRecon, Kept, Covered, bootAt)
    BY FreshTicks
  <2>2. \A t \in Callers : Idle \in Ticks /\ NoRecon \in Rows
    BY <2>1 DEF Fine
  <2> QED BY <2>1, <2>2 DEF Init, TicksInv
<1>5. BootInv
  BY DEF Init, BootInv, Idle
<1>6. CursorInv
  <2>1. /\ lastSealed = 0 /\ pendingBlock = 0 /\ attempts = 0 /\ bootAt = 0
        /\ ~ running /\ ~ started /\ running \in BOOLEAN /\ started \in BOOLEAN
    BY DEF Init
  <2>2. 0 \in 0..LastBlock /\ 0 \in 0..Attempts /\ ~ (0 > 0)
    BY <1>0
  <2> QED BY <2>1, <2>2, Zenon DEF CursorInv
<1> QED BY <1>1, <1>2, <1>3, <1>4, <1>5, <1>6 DEF IInv

LEMMA Keeps == IInv /\ [Next]_vars => IInv'
<1> SUFFICES ASSUME IInv, [Next]_vars PROVE IInv'
  OBVIOUS
<1>1. ASSUME NEW f \in Fills, FillArrives(f) PROVE IInv'
  <2>1. S4Inv' /\ S4Grows /\ OutsideInv'
    BY <1>1, S4OnFill DEF FillArrives, sealVars, IInv, OutsideInv
  <2> QED BY <1>1, <2>1, S4Steps DEF FillArrives, sealVars
<1>2. CASE S4Works /\ UNCHANGED sealVars
  <2>1. S4Inv' /\ S4Grows /\ OutsideInv'
    BY <1>2, S4WorksKeeps DEF sealVars, IInv, OutsideInv
  <2> QED BY <1>2, <2>1, S4Steps DEF sealVars
<1>3. CASE S4Fails /\ Fault /\ UNCHANGED <<view, db, worker, tick, recon, givenUp, jumped>>
  <2>1. S4Inv' /\ S4Grows /\ OutsideInv'
    BY <1>3, S4FailsKeeps, Faulted DEF IInv, OutsideInv
  <2> QED BY <1>3, <2>1, S4Steps
<1>4. CASE CursorStep
  BY <1>4, CursorSteps
<1>5. ASSUME NEW t \in Callers, NEW cur \in {0, db.cursor}, BootReply(t, cur) PROVE IInv'
  <2>1. cur \in 0..LastBlock
    BY SealAssumption DEF IInv, RecordInv
  <2> QED BY <1>5, <2>1, BootReplyKeeps
<1>6. CASE UNCHANGED vars
  <2>1. S4Inv' /\ S4Grows /\ OutsideInv'
    BY <1>6, S4Idles DEF vars, sealVars, IInv, OutsideInv
  <2> QED BY <1>6, <2>1, S4Steps DEF vars, sealVars
<1> QED
  BY <1>1, <1>2, <1>3, <1>4, <1>5, <1>6, BeginKeeps, BeginBootKeeps, SkipReplyKeeps,
     ReconcileSteps, PostSealKeeps, StopKeeps, GiveUpKeeps, GiveUpReplyKeeps, SealReplyKeeps,
     SealRefusedKeeps, PostThrowsKeeps, LeaveKeeps, SuperviseKeeps, CrashKeeps
  DEF Next

LEMMA Invariance == Spec => []IInv
BY Starts, Keeps, PTL DEF Spec

\* A sealed block's fill is in the platform's ledger, or an open breaker
\* answered for it: tick() (s4-seal.mjs 209-299) never posts a seal on the word
\* of a failed, late or missing evaluation, for any number of ticks and faults.
THEOREM SealedCommitted == Spec => []SealedIsCommitted
<1>1. IInv => SealedIsCommitted
  BY TypesHold DEF IInv, RecordInv, Kept, SealedIsCommitted
<1> QED BY <1>1, Invariance, PTL

\* The worker's cursor passes no block that is neither sealed nor recorded as
\* unreconciled, but for blocks a tick chose to leave behind (s4-seal.mjs
\* 209-299), for any batch, head lag, attempts and restarts.
THEOREM NoHole == Spec => []NoSilentHole
<1>1. IInv => NoSilentHole
  <2> SUFFICES ASSUME IInv, started, NEW b \in bootAt + 1..lastSealed
               PROVE  b \in Covered
    BY DEF NoSilentHole, Covered, givenUp
  <2>1. lastSealed \in 0..LastBlock /\ bootAt \in 0..LastBlock /\ LastBlock \in Nat
    BY SealAssumption DEF IInv, CursorInv
  <2>2. b \in Blocks /\ bootAt < b /\ b < lastSealed + 1
    BY <2>1 DEF Blocks
  <2> QED BY <2>2 DEF IInv, CursorInv, Clear
<1> QED BY <1>1, Invariance, PTL
=============================================================================
