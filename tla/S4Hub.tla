------------------------------- MODULE S4Hub -------------------------------
(***************************************************************************)
(* The evaluation client of src/s4-hub.mjs: fills are queued, started      *)
(* when a slot is free and posted to fill-eval; every settle answers the   *)
(* callers of evaluateNow that wait on that fill.                          *)
(*                                                                         *)
(* A job is one pushed queue item.  Jobs of one fill in one phase are      *)
(* alike, so each phase holds a count; a "loose" job is an evalOne whose   *)
(* slot the hard timer released while it still awaits its answer.          *)
(* Left out: the ring, replays, samples and metrics; the order of the      *)
(* queue (evaluations of any fills run concurrently).                      *)
(***************************************************************************)
EXTENDS Integers, FiniteSets
LOCAL INSTANCE FiniteSetsExt

CONSTANTS
  Fills,        \* fills that qualify
  Callers,      \* callers of evaluateNow
  Conc,         \* COSMOS_S4_CONCURRENCY
  Depth,        \* COSMOS_S4_QUEUE_DEPTH
  BreakerAfter, \* consecutive failures that open the breaker (3 in the code)
  MaxJobs       \* bound: jobs of one fill in one phase

ASSUME S4HubAssumption ==
  /\ IsFiniteSet(Fills) /\ IsFiniteSet(Callers)
  /\ {Conc, Depth, BreakerAfter, MaxJobs} \subseteq Nat \ {0}

VARIABLES
  jobs,         \* per fill: how many are queued, running and loose
  queued,       \* fills marked queued or in flight
  evaluated,    \* fills the hub knows to be committed
  ledger,       \* fills the platform committed
  failures,     \* consecutiveFails, up to BreakerAfter
  breaker,      \* Date.now() < breakerUntil
  call,         \* per caller and fill: the promise evaluateNow returned
  passedOver    \* history: fills the open breaker settled as ok

s4Vars == <<jobs, queued, evaluated, ledger, failures, breaker, call, passedOver>>

Phases == {"queued", "running", "loose"}

S4TypeOK ==
  /\ jobs \in [Fills -> [Phases -> 0..MaxJobs]]
  /\ queued \subseteq Fills /\ evaluated \subseteq ledger
  /\ ledger \subseteq Fills /\ passedOver \subseteq Fills
  /\ failures \in 0..BreakerAfter /\ breaker \in BOOLEAN
  /\ call \in [Callers -> [Fills -> {"none", "waiting", "ok", "failed"}]]

NoCalls == [t \in Callers |-> [f \in Fills |-> "none"]]

\* A fresh process; posts that were in flight may still be committed.
S4Fresh ==
  /\ jobs' = [f \in Fills |-> [p \in Phases |-> 0]]
  /\ queued' = {} /\ evaluated' = {}
  /\ failures' = 0 /\ breaker' = FALSE
  /\ call' = NoCalls
  /\ \E S \in SUBSET {f \in Fills : jobs[f]["running"] + jobs[f]["loose"] > 0} :
       ledger' = ledger \cup S
  /\ UNCHANGED passedOver

S4Init ==
  /\ jobs = [f \in Fills |-> [p \in Phases |-> 0]]
  /\ queued = {} /\ evaluated = {} /\ ledger = {}
  /\ failures = 0 /\ breaker = FALSE
  /\ call = NoCalls /\ passedOver = {}

InPhase(p) == MapThenSumSet(LAMBDA f : jobs[f][p], Fills)

Push(f) ==
  /\ jobs[f]["queued"] < MaxJobs
  /\ queued' = queued \cup {f}
  /\ jobs' = [jobs EXCEPT ![f]["queued"] = @ + 1]

\* The receipt dedupe, then the queue's limit (a fill it cannot take is lost).
OnFill(f) ==
  /\ f \notin evaluated \cup queued
  /\ InPhase("queued") < Depth
  /\ Push(f)
  /\ UNCHANGED <<evaluated, ledger, failures, breaker, call, passedOver>>

\* settle(): the marker of f is cleared and every waiter on f is answered,
\* whichever job of f settles.
Settle(f, answer) ==
  /\ queued' = queued \ {f}
  /\ call' = [t \in Callers |->
       [call[t] EXCEPT ![f] = IF @ = "waiting" THEN answer ELSE @]]

\* evaluateNow for one fill, by caller t; f is not evaluated.
EvaluateNow(t, f) ==
  /\ call' = [call EXCEPT ![t][f] = "waiting"]
  /\ IF f \in queued THEN UNCHANGED <<queued, jobs>> ELSE Push(f)
  /\ UNCHANGED <<evaluated, ledger, failures, breaker, passedOver>>

Ends(f, p)    == jobs' = [jobs EXCEPT ![f][p] = @ - 1]
Moves(f, p, q) == jobs' = [jobs EXCEPT ![f][p] = @ - 1, ![f][q] = @ + 1]

\* pump: the item is older than MAX_AGE_MS.
Expire(f) ==
  /\ jobs[f]["queued"] > 0 /\ InPhase("running") < Conc
  /\ Ends(f, "queued") /\ Settle(f, "failed")
  /\ UNCHANGED <<evaluated, ledger, failures, breaker, passedOver>>

Start(f) ==
  /\ jobs[f]["queued"] > 0 /\ InPhase("running") < Conc
  /\ jobs[f]["running"] < MaxJobs /\ ~ breaker
  /\ Moves(f, "queued", "running")
  /\ UNCHANGED <<queued, evaluated, ledger, failures, breaker, call, passedOver>>

\* evalOne under an open breaker returns undefined (94), which is not false (78).
StartUnderBreaker(f) ==
  /\ jobs[f]["queued"] > 0 /\ InPhase("running") < Conc /\ breaker
  /\ Ends(f, "queued") /\ Settle(f, "ok")
  /\ passedOver' = passedOver \cup {f}
  /\ UNCHANGED <<evaluated, ledger, failures, breaker>>

\* The hard timer frees the slot and settles; evalOne itself goes on.
Hang(f) ==
  /\ jobs[f]["running"] > 0 /\ jobs[f]["loose"] < MaxJobs
  /\ Moves(f, "running", "loose") /\ Settle(f, "failed")
  /\ UNCHANGED <<evaluated, ledger, failures, breaker, passedOver>>

Committed(f, p) ==
  /\ jobs[f][p] > 0
  /\ Ends(f, p) /\ Settle(f, "ok")
  /\ evaluated' = evaluated \cup {f} /\ ledger' = ledger \cup {f}
  /\ failures' = 0
  /\ UNCHANGED <<breaker, passedOver>>

\* A 4xx answer.
Refused(f, p) ==
  /\ jobs[f][p] > 0
  /\ Ends(f, p) /\ Settle(f, "failed")
  /\ UNCHANGED <<evaluated, ledger, failures, breaker, passedOver>>

\* Both attempts end in a 5xx or a timeout; either may have been committed.
Failed(f, p) ==
  /\ jobs[f][p] > 0
  /\ Ends(f, p) /\ Settle(f, "failed")
  /\ ledger' \in {ledger, ledger \cup {f}}
  /\ failures' = IF failures < BreakerAfter THEN failures + 1 ELSE failures
  /\ breaker' = (breaker \/ failures' = BreakerAfter)
  /\ UNCHANGED <<evaluated, passedOver>>

BreakerCloses ==
  /\ breaker
  /\ breaker' = FALSE
  /\ UNCHANGED <<jobs, queued, evaluated, ledger, failures, call, passedOver>>

\* Every step but the arrival of a fill: one that goes well, one that fails.
S4Works ==
  \/ \E f \in Fills : \/ Start(f) \/ StartUnderBreaker(f)
                     \/ \E p \in {"running", "loose"} : Committed(f, p)
  \/ BreakerCloses

S4Fails ==
  \E f \in Fills : \/ Expire(f) \/ Hang(f)
                  \/ \E p \in {"running", "loose"} : Refused(f, p) \/ Failed(f, p)
=============================================================================
