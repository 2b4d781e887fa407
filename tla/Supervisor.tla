----------------------------- MODULE Supervisor -----------------------------
(***************************************************************************)
(* The hosted-runner supervisor (runner.mjs): one bot process per account  *)
(* of the platform's roster.  Once a minute reconcile() reaps the orphans  *)
(* of a dead supervisor, asks for the roster, and against the answer stops,*)
(* restarts and starts children.  The rules for wedged children are those  *)
(* of liveness.mjs, and the child's side is the part of bot.mjs that makes *)
(* it exit: its IPC channel closing, and its own cycle watchdog.           *)
(*                                                                         *)
(* Time is counted in reconcile passes.  Timers shorter than a pass (the   *)
(* start jitter of at most 4 s, the SIGKILL 10 s after a SIGTERM) fire     *)
(* before the next pass, and are free in their order otherwise; the exits  *)
(* 2 s and 11.5 s after a shutdown began fire before and after a SIGKILL   *)
(* armed with it.                                                          *)
(***************************************************************************)
EXTENDS Integers, FiniteSets

CONSTANTS
  N,           \* accounts are 1..N, in the order the roster lists them
  Slots,       \* 1..Slots: process ids, reused
  MaxBots,     \* the admission cap MAX
  Ramp,        \* starts per pass
  MinMass,     \* wedgeDecisions: this many stale children are not a mass
  MaxPerPass,  \* wedge restarts per pass
  ChildStale,  \* passes without a completed cycle after which a bot exits
  RunnerStale, \* ... after which the runner restarts it
  BootGrace,   \* ... when it has never completed one
  Cooldown,    \* passes between two wedge restarts of an account
  BackoffCap,  \* longest crash backoff, in passes
  OrphanAge,   \* a process is reaped when older than this
  QuickLimit,  \* quick deaths that make a crash storm
  NetLimit,    \* passes without any answer before the runner recycles itself
  SpawnFaults, \* subset of {"throw", "error"}: how spawn() may fail
  MaxFaults    \* bound: bots that wedge or crash, and signals to the runner

ASSUME BoundsOK ==
  /\ {N, Slots, MaxBots, Ramp, MaxPerPass, BackoffCap, QuickLimit,
      NetLimit} \subseteq Nat \ {0}
  /\ {MinMass, ChildStale, RunnerStale, BootGrace, Cooldown, OrphanAge,
      MaxFaults} \subseteq Nat
  /\ ChildStale < RunnerStale /\ RunnerStale <= BootGrace
  /\ SpawnFaults \subseteq {"throw", "error"}

Accounts == 1..N
Procs    == 1..Slots
NoProc   == 0            \* a record whose child has exited
Ghost    == -1           \* a child object whose spawn failed with 'error'

VARIABLES
  listed,   \* the accounts the platform would list now
  sup,      \* "up", "dying" (dieClean), "signalled", or "down"
  asked,    \* a reconcile waits for the roster
  want,     \* the last roster answered to this supervisor
  kids,     \* userId -> record, or NoKid: the Map of runner.mjs
  jitter,   \* the accounts with a start timer pending
  procs,    \* the bot processes of the box
  quick,    \* quickDeaths
  silent,   \* passes since any roster answer
  faults    \* faults so far

vars == <<listed, sup, asked, want, kids, jitter, procs, quick, silent, faults>>

NoKid == [child |-> NoProc, known |-> FALSE]
Kid == [known : {TRUE}, child : Procs \cup {NoProc, Ghost}, ok : BOOLEAN,
        since : 0..BootGrace + 1, backoff : 1..BackoffCap,
        retry : 0..BackoffCap, wedged : 0..Cooldown]
Dead == [acct |-> 0]
Process == [acct : Accounts, mode : {"good", "failing", "hung"},
            orphan : BOOLEAN, kill : {"none", "armed", "late"},
            age : 0..OrphanAge + 1]

Alive(p)    == procs[p] # Dead
Tracked     == {u \in Accounts : kids[u].known}
Supervised  == {u \in Accounts : kids[u].child # NoProc}

TypeOK ==
  /\ listed \subseteq Accounts /\ want \subseteq Accounts
  /\ jitter \subseteq Accounts
  /\ sup \in {"up", "dying", "signalled", "down"} /\ asked \in BOOLEAN
  /\ kids \in [Accounts -> {NoKid} \cup Kid]
  /\ procs \in [Procs -> {Dead} \cup Process]
  /\ quick \in 0..QuickLimit /\ silent \in 0..NetLimit + 1
  /\ faults \in 0..MaxFaults

Init ==
  /\ listed \in SUBSET Accounts
  /\ sup = "up" /\ asked = FALSE /\ want = {} /\ jitter = {}
  /\ kids = [u \in Accounts |-> NoKid]
  /\ procs = [p \in Procs |-> Dead]
  /\ quick = 0 /\ silent = 0 /\ faults = 0

Bump(x, cap) == IF x < cap THEN x + 1 ELSE cap
Least(x, y)  == IF x < y THEN x ELSE y

(***************************************************************************)
(* stop() and the SIGTERM / SIGKILL pair.  stop() forgets the record at    *)
(* once; restartWedged() keeps it, so that the exit handler sets the crash *)
(* backoff and the next pass respawns the bot.                             *)
(***************************************************************************)
Terminate(S, how) ==     \* SIGTERM now, a SIGKILL timer behind it
  [p \in Procs |-> IF p \in S /\ procs[p].kill = "none"
                   THEN [procs[p] EXCEPT !.kill = how] ELSE procs[p]]

ChildrenOf(U) == {kids[u].child : u \in U} \cap Procs
Forget(U)     == [u \in Accounts |-> IF u \in U THEN NoKid ELSE kids[u]]

\* dieClean(): stop everybody, exit 11.5 s later.  Also when already dying.
DieCleanEffect(ks, ps) ==
  /\ kids' = [u \in Accounts |-> NoKid]
  /\ procs' = [p \in Procs |->
       IF \E u \in Accounts : ks[u].child = p /\ ps[p] # Dead
                              /\ ps[p].kill = "none"
       THEN [ps[p] EXCEPT !.kill = "armed"] ELSE ps[p]]
  /\ sup' = IF sup = "signalled" THEN sup ELSE "dying"

(***************************************************************************)
(* A bot process ends: the exit handler runs in its own supervisor.  A bot *)
(* younger than 10 s counts towards the crash storm (noteChildExit), and a *)
(* bot older than a minute clears the count.  The handler belongs to the   *)
(* record the process was started with, which stop() may have dropped.     *)
(***************************************************************************)
Gone(p, isQuick) ==
  LET u  == procs[p].acct
      ps == [procs EXCEPT ![p] = Dead]
      k  == kids[u]
      b  == IF procs[p].age > OrphanAge THEN 1
            ELSE Least(k.backoff * 2, BackoffCap)
      ks == IF k.child = p
            THEN [kids EXCEPT ![u] = [k EXCEPT !.child = NoProc,
                                               !.backoff = b, !.retry = b]]
            ELSE kids
      n  == IF isQuick THEN Bump(quick, QuickLimit)
            ELSE IF procs[p].age > 0 THEN 0 ELSE quick
  IN IF procs[p].orphan
     THEN procs' = ps /\ UNCHANGED <<kids, quick, sup>>
     ELSE /\ quick' = n
          /\ IF isQuick /\ n = QuickLimit THEN DieCleanEffect(ks, ps)
             ELSE kids' = ks /\ procs' = ps /\ UNCHANGED sup

Exits(p, isQuick) ==
  /\ Alive(p) /\ (isQuick => procs[p].age = 0)
  /\ Gone(p, isQuick)
  /\ UNCHANGED <<listed, asked, want, jitter, silent>>

\* The SIGTERM works on a bot whose loop runs, and may on one that hangs.
TermKills(p) ==
  /\ Alive(p) /\ procs[p].kill # "none"
  /\ \E q \in BOOLEAN : Exits(p, q)
  /\ UNCHANGED faults

\* The SIGKILL timer lives in the supervisor: it dies with it.
KillFires(p) ==
  /\ Alive(p) /\ procs[p].kill # "none" /\ ~procs[p].orphan
  /\ \E q \in BOOLEAN : Exits(p, q)
  /\ UNCHANGED faults

Crash(p) ==
  /\ faults < MaxFaults /\ faults' = faults + 1
  /\ \E q \in BOOLEAN : Exits(p, q)

\* bot.mjs: "disconnect" on the IPC channel exits, if the loop still turns.
Disconnected(p) ==
  /\ Alive(p) /\ procs[p].orphan /\ procs[p].mode # "hung"
  /\ Exits(p, FALSE) /\ UNCHANGED faults

\* bot.mjs: no normally completed cycle for 10 minutes, exit code 3.
SelfExit(p) ==
  /\ Alive(p) /\ procs[p].mode = "failing"
  /\ kids[procs[p].acct].child = p
  /\ kids[procs[p].acct].since > ChildStale
  /\ Exits(p, FALSE) /\ UNCHANGED faults

\* A completed cycle, and its heartbeat to the record of this process.
CycleOk(p) ==
  /\ Alive(p) /\ procs[p].mode = "good"
  /\ LET u == procs[p].acct IN
       /\ kids[u].child = p
       /\ ~(kids[u].ok /\ kids[u].since = 0)
       /\ kids' = [kids EXCEPT ![u] = [@ EXCEPT !.ok = TRUE, !.since = 0]]
  /\ UNCHANGED <<listed, sup, asked, want, jitter, procs, quick, silent, faults>>

\* A bot's cycles start to throw, or its event loop stops turning.
Wedges(p) ==
  /\ faults < MaxFaults /\ faults' = faults + 1
  /\ Alive(p) /\ procs[p].mode = "good"
  /\ \E m \in {"failing", "hung"} : procs' = [procs EXCEPT ![p].mode = m]
  /\ UNCHANGED <<listed, sup, asked, want, kids, jitter, quick, silent>>

Recovers(p) ==
  /\ Alive(p) /\ procs[p].mode = "failing"
  /\ procs' = [procs EXCEPT ![p].mode = "good"]
  /\ UNCHANGED <<listed, sup, asked, want, kids, jitter, quick, silent, faults>>

(***************************************************************************)
(* reconcile(), first half: the orphans are reaped before the roster is    *)
(* asked for, so that a box recovers with the platform down.  An orphan is *)
(* a bot whose parent is init and that is old enough.                      *)
(***************************************************************************)
\* Mutant of Reapable: only what turned its back on SIGTERM is reaped.
ReapableKilled(p) == Alive(p) /\ procs[p].orphan /\ procs[p].kill = "armed"

Reapable(p) == Alive(p) /\ procs[p].orphan /\ procs[p].age > OrphanAge

\* Every clock of the box advances by one pass.
Aged(q) == IF q = Dead THEN Dead
           ELSE [q EXCEPT !.age = Bump(@, OrphanAge + 1)]
KidAged(k) == IF ~k.known THEN k
              ELSE [k EXCEPT !.since = Bump(@, BootGrace + 1),
                             !.retry = IF @ > 0 THEN @ - 1 ELSE 0,
                             !.wedged = IF @ > 0 THEN @ - 1 ELSE 0]

Pass ==
  /\ sup # "down" /\ ~asked
  /\ sup # "signalled"                          \* it exits within 2 s
  /\ jitter = {}
  /\ \A p \in Procs : Alive(p) /\ procs[p].kill # "none"
                        => procs[p].orphan \/ sup = "dying"
  /\ procs' = [p \in Procs |-> IF Reapable(p) THEN Dead ELSE Aged(procs[p])]
  /\ kids' = [u \in Accounts |-> KidAged(kids[u])]
  /\ silent' = Bump(silent, NetLimit + 1)
  /\ asked' = TRUE
  /\ UNCHANGED <<listed, sup, want, jitter, quick, faults>>

\* No roster (timeout, an error status, no list): the children are left alone.
\* Any HTTP answer proves the sockets work.
NoRoster ==
  /\ asked /\ asked' = FALSE
  /\ silent' \in {0, silent}
  /\ UNCHANGED <<listed, sup, want, kids, jitter, procs, quick,
                 faults>>

(***************************************************************************)
(* liveness.mjs, wedgeDecisions(): who of the records ks is stale, and who *)
(* is restarted, most stale first, at most MaxPerPass, nobody within the   *)
(* cooldown, and nobody at all when the stale set is large.                *)
(***************************************************************************)
StaleKids(ks) ==
  {u \in Accounts : /\ ks[u].child # NoProc
                    /\ ks[u].since > (IF ks[u].ok THEN RunnerStale
                                      ELSE BootGrace)}
MassLimit(ks) ==   \* max(minMass, 10 % of the running, rounded up)
  LET running == Cardinality({u \in Accounts : ks[u].child # NoProc})
      tenth   == (running + 9) \div 10
  IN IF tenth > MinMass THEN tenth ELSE MinMass

WedgeDecisions(ks, R) ==
  LET due == {u \in StaleKids(ks) : ks[u].wedged = 0}
  IN /\ R \subseteq due
     /\ IF Cardinality(StaleKids(ks)) > MassLimit(ks) THEN R = {}
        ELSE /\ Cardinality(R) = Least(MaxPerPass, Cardinality(due))
             /\ \A u \in R, v \in due \ R : ks[u].since >= ks[v].since

(***************************************************************************)
(* reconcile(), second half, in one step: nothing in it awaits.            *)
(***************************************************************************)
\* Mutant of ToStart: an account with a record is taken for a running one.
ToStartUnknown(ks, L) ==
  LET room == MaxBots - Cardinality({u \in Accounts : ks[u].child # NoProc})
      free == {u \in L : ~ks[u].known}
  IN {u \in free : Cardinality({v \in free : v < u})
                     < Least(Ramp, IF room > 0 THEN room ELSE 0)}

\* The accounts to start: in roster order, no running child, no crash
\* backoff, up to the cap and to the ramp.
ToStart(ks, L) ==
  LET free == {u \in L : ks[u].child = NoProc
                         /\ (ks[u].known => ks[u].retry = 0)}
      room == MaxBots - Cardinality({u \in Accounts : ks[u].child # NoProc})
  IN {u \in free : Cardinality({v \in free : v < u})
                     < Least(Ramp, IF room > 0 THEN room ELSE 0)}

\* Mutant of Roster: a wedged child is stopped, not restarted in place, so
\* its replacement need not wait for it to be gone.
RosterForgetsWedged ==
  /\ asked /\ asked' = FALSE /\ silent' = 0
  /\ want' = listed
  /\ LET unlisted == Tracked \ listed
         kept == Forget(unlisted)
     IN \E R \in SUBSET (Tracked \ unlisted) :
          /\ WedgeDecisions(kept, R)
          /\ kids' = [u \in Accounts |-> IF u \in R THEN NoKid ELSE kept[u]]
          /\ procs' = Terminate(ChildrenOf(unlisted \cup R),
                                IF sup = "up" THEN "armed" ELSE "late")
          /\ jitter' = jitter \cup ToStart(kids', listed)
  /\ UNCHANGED <<listed, sup, quick, faults>>

\* Mutant of Roster: an answer starts bots and never stops one.
RosterNeverStops ==
  /\ asked /\ asked' = FALSE /\ silent' = 0
  /\ want' = listed
  /\ jitter' = jitter \cup ToStart(kids, listed)
  /\ UNCHANGED <<listed, sup, quick, faults, procs, kids>>

Roster ==
  /\ asked /\ asked' = FALSE /\ silent' = 0
  /\ want' = listed
  /\ LET unlisted == Tracked \ listed
         kept == Forget(unlisted)
     IN \E R \in SUBSET (Tracked \ unlisted) :
          /\ WedgeDecisions(kept, R)
          /\ kids' = [u \in Accounts |->
                        IF u \in R THEN [kept[u] EXCEPT !.wedged = Cooldown]
                        ELSE kept[u]]
          /\ procs' = Terminate(ChildrenOf(unlisted \cup R),
                                IF sup = "up" THEN "armed" ELSE "late")
          /\ jitter' = jitter \cup ToStart(kids', listed)
  /\ UNCHANGED <<listed, sup, quick, faults>>

(***************************************************************************)
(* The jittered start.  It looks again for a running child, and at nothing *)
(* else.  The backoff and the wedge stamp of an old record are carried.    *)
(***************************************************************************)
NewKid(u, c) ==
  [known |-> TRUE, child |-> c, ok |-> FALSE, since |-> 0, retry |-> 0,
   backoff |-> IF kids[u].known THEN kids[u].backoff ELSE 1,
   wedged  |-> IF kids[u].known THEN kids[u].wedged ELSE 0]

Spawned(u) ==
  LET p == CHOOSE q \in Procs : ~Alive(q)
  IN /\ \E q \in Procs : ~Alive(q)
     /\ procs' = [procs EXCEPT ![p] =
          [acct |-> u, mode |-> "good", orphan |-> FALSE, kill |-> "none",
           age |-> 0]]
     /\ kids' = [kids EXCEPT ![u] = NewKid(u, p)]

JitterFires(u) ==
  /\ u \in jitter /\ sup # "down"
  /\ jitter' = jitter \ {u}
  /\ IF kids[u].child # NoProc THEN UNCHANGED <<kids, procs>>
     ELSE Spawned(u)
  /\ UNCHANGED <<listed, sup, asked, want, quick, silent, faults>>

\* spawn() throws: the next pass tries again.  Or it reports an 'error' and
\* no 'exit': the record keeps a child that never lived.
SpawnFails(u) ==
  /\ u \in jitter /\ sup # "down" /\ kids[u].child = NoProc
  /\ faults < MaxFaults /\ faults' = faults + 1
  /\ jitter' = jitter \ {u}
  /\ \/ "throw" \in SpawnFaults /\ UNCHANGED kids
     \/ "error" \in SpawnFaults /\ kids' = [kids EXCEPT ![u] = NewKid(u, Ghost)]
  /\ UNCHANGED <<listed, sup, asked, want, procs, quick, silent>>

(***************************************************************************)
(* The end of a supervisor and its successor.                              *)
(***************************************************************************)
NetWatchdog ==   \* no answer in 10 minutes
  /\ sup = "up" /\ silent > NetLimit
  /\ DieCleanEffect(kids, procs)
  /\ UNCHANGED <<listed, asked, want, jitter, quick, silent,
                 faults>>

Signal ==        \* SIGTERM to the runner: stop everybody, exit in 2 s
  /\ sup \in {"up", "dying"} /\ faults < MaxFaults /\ faults' = faults + 1
  /\ kids' = [u \in Accounts |-> NoKid]
  /\ procs' = Terminate(ChildrenOf(Tracked), "late")
  /\ sup' = "signalled"
  /\ UNCHANGED <<listed, asked, want, jitter, quick, silent>>

\* process.exit: pending timers are lost, what still lives goes to init.
Exit ==
  /\ \/ sup = "signalled"
     \/ sup = "dying" /\ \A p \in Procs :
                           Alive(p) /\ procs[p].kill = "armed"
                             => procs[p].orphan
  /\ sup' = "down" /\ asked' = FALSE /\ want' = {} /\ jitter' = {}
  /\ kids' = [u \in Accounts |-> NoKid]
  /\ procs' = [p \in Procs |-> IF Alive(p)
                               THEN [procs[p] EXCEPT !.orphan = TRUE] ELSE Dead]
  /\ quick' = 0 /\ silent' = 0
  /\ UNCHANGED <<listed, faults>>

Boot ==
  /\ sup = "down" /\ sup' = "up"
  /\ UNCHANGED <<listed, asked, want, kids, jitter, procs, quick, silent, faults>>

\* The owner halts or enables an account, or its wallets change.
Relist(u) ==
  /\ listed' = IF u \in listed THEN listed \ {u} ELSE listed \cup {u}
  /\ UNCHANGED <<sup, asked, want, kids, jitter, procs, quick, silent, faults>>

Next ==
  \/ \E p \in Procs : \/ TermKills(p) \/ KillFires(p) \/ Crash(p)
                      \/ Disconnected(p) \/ SelfExit(p) \/ CycleOk(p)
                      \/ Wedges(p) \/ Recovers(p)
  \/ \E u \in Accounts : JitterFires(u) \/ SpawnFails(u) \/ Relist(u)
  \/ Pass \/ NoRoster \/ Roster \/ NetWatchdog \/ Signal \/ Exit \/ Boot

(***************************************************************************)
(* The platform answers again and again, timers fire, signals arrive, the  *)
(* launcher boots a new runner, and a bot with a turning loop acts on its  *)
(* closed channel, its SIGTERM and its own watchdog.                       *)
(***************************************************************************)
Fairness ==
  /\ WF_vars(Pass) /\ SF_vars(sup = "up" /\ Roster)
  /\ WF_vars(NoRoster \/ Roster)
  /\ WF_vars(Exit) /\ WF_vars(Boot)
  /\ \A u \in Accounts : WF_vars(JitterFires(u))
  /\ \A p \in Procs : WF_vars(KillFires(p)) /\ WF_vars(Disconnected(p))
                      /\ WF_vars(SelfExit(p))

Spec == Init /\ [][Next]_vars /\ Fairness

(***************************************************************************)
(* Properties.                                                             *)
(***************************************************************************)

\* Two processes trade one account only when one of them is the orphan of a
\* dead supervisor, or the supervisor is going down: no stop, restart,
\* crash or jittered start of normal running ever doubles a bot.
OneBotPerAccount == TypeOK /\
  \A p, q \in Procs :
    Alive(p) /\ Alive(q) /\ p # q /\ procs[p].acct = procs[q].acct
      => procs[p].orphan \/ procs[q].orphan \/ sup # "up"

\* The supervised bots follow the roster (runner.mjs implements the promise).
Contract == INSTANCE RosterContract WITH supervised <- Supervised
FollowsRoster == Contract!Spec

\* A bot that outlived its supervisor ends, by itself or reaped.
OrphanEnds ==
  \A p \in Procs : (Alive(p) /\ procs[p].orphan) ~> ~(Alive(p) /\ procs[p].orphan)

\* An account on the roster comes to have a live bot, or leaves the roster.
Managed(u) == \E p \in Procs : Alive(p) /\ procs[p].acct = u
                               /\ ~procs[p].orphan
ManagedAgain ==
  \A u \in Accounts : u \in listed ~> (u \notin listed \/ Managed(u))
=============================================================================
