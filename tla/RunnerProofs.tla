---------------------------- MODULE RunnerProofs ----------------------------
(***************************************************************************)
(* The two state machines of the runner process: the supervisor (one bot   *)
(* per account, and the roster refinement) for any number of accounts,     *)
(* process ids, faults and limits; and the chain hub it runs (no block     *)
(* known to be missed is sealable, closedThrough is proven) for any chain, *)
(* any number of backfills at once and any chunk, gap and lag.             *)
(***************************************************************************)
EXTENDS Supervisor, ChainHub, WellFoundedInduction, TLAPS

Ours(p) == Alive(p) /\ ~procs[p].orphan   \* p is a child of this supervisor

(***************************************************************************)
(* The inductive invariant.                                                *)
(***************************************************************************)
\* A child nobody has signalled is the child of its account's record.
Recorded ==
  \A p \in Procs : Ours(p) /\ procs[p].kill = "none"
                     => kids[procs[p].acct].child = p

\* What a pass saw, that no stopped child still lives, holds until the roster
\* arrives: no timer of the pass before is pending, and nobody is stopped.
PassSettled ==
  asked => /\ jitter = {}
           /\ sup = "up" => \A p \in Procs : Ours(p) => procs[p].kill = "none"

\* A start timer is armed only for an account of the last roster that has no
\* child in its record and, while the supervisor runs, none on the box.
StartsAreFree ==
  /\ jitter \subseteq want
  /\ \A u \in jitter : kids[u].child = NoProc
  /\ sup = "up" => \A p \in Procs : Ours(p) => procs[p].acct \notin jitter

NoTwins ==
  sup = "up" => \A p, q \in Procs :
    Ours(p) /\ Ours(q) /\ p # q => procs[p].acct # procs[q].acct

\* Between two supervisors nobody is supervised.
Between ==
  sup = "down" => /\ ~asked /\ jitter = {}
                  /\ \A u \in Accounts : kids[u] = NoKid
                  /\ \A p \in Procs : ~Ours(p)

SupInv == TypeOK /\ Recorded /\ PassSettled /\ StartsAreFree /\ NoTwins /\ Between

(***************************************************************************)
(* Records of children and of processes.                                   *)
(***************************************************************************)
KidsOK(ks)  == ks \in [Accounts -> {NoKid} \cup Kid]
ProcsOK(ps) == ps \in [Procs -> {Dead} \cup Process]

LEMMA Bounds ==
  /\ BootGrace \in Nat /\ Cooldown \in Nat /\ OrphanAge \in Nat /\ MaxFaults \in Nat
  /\ BackoffCap \in Nat /\ BackoffCap >= 1 /\ QuickLimit \in Nat /\ QuickLimit >= 1
  /\ NetLimit \in Nat /\ N \in Nat /\ Slots \in Nat
BY BoundsOK

LEMMA ProcessFields ==
  ASSUME NEW r \in Process
  PROVE  /\ r # Dead /\ r.acct \in Accounts /\ r.orphan \in BOOLEAN
         /\ r.kill \in {"none", "armed", "late"} /\ r.age \in Nat
BY Bounds DEF Process, Dead, Accounts

LEMMA KidFields ==
  ASSUME NEW k \in Kid
  PROVE  k # NoKid /\ k.known = TRUE /\ k.child \in Procs \cup {NoProc, Ghost}
<1>1. k.known = TRUE /\ k.child \in Procs \cup {NoProc, Ghost}
  BY DEF Kid
<1>2. NoKid.known = FALSE
  BY DEF NoKid
<1> QED BY <1>1, <1>2

\* What a signal, a mode, the end of the supervisor and the clock do to a process.
LEMMA Marked ==
  ASSUME NEW r \in Process, NEW how \in {"armed", "late"}
  PROVE  /\ [r EXCEPT !.kill = how] \in Process
         /\ [r EXCEPT !.kill = how].acct = r.acct
         /\ [r EXCEPT !.kill = how].orphan = r.orphan
         /\ [r EXCEPT !.kill = how].kill = how
BY DEF Process

LEMMA Moded ==
  ASSUME NEW r \in Process, NEW m \in {"good", "failing", "hung"}
  PROVE  /\ [r EXCEPT !.mode = m] \in Process
         /\ [r EXCEPT !.mode = m].acct = r.acct
         /\ [r EXCEPT !.mode = m].orphan = r.orphan
         /\ [r EXCEPT !.mode = m].kill = r.kill
BY DEF Process

LEMMA Orphaned ==
  ASSUME NEW r \in Process
  PROVE  [r EXCEPT !.orphan = TRUE] \in Process /\ [r EXCEPT !.orphan = TRUE].orphan = TRUE
BY DEF Process

LEMMA AgedProcess ==
  ASSUME NEW r \in Process
  PROVE  /\ Aged(r) \in Process
         /\ Aged(r).acct = r.acct /\ Aged(r).orphan = r.orphan /\ Aged(r).kill = r.kill
<1>1. r # Dead /\ r.age \in 0..OrphanAge + 1
  BY ProcessFields DEF Process
<1>2. Bump(r.age, OrphanAge + 1) \in 0..OrphanAge + 1
  BY <1>1, Bounds DEF Bump
<1> QED BY <1>1, <1>2 DEF Aged, Process

LEMMA AgedKid ==
  ASSUME NEW k \in {NoKid} \cup Kid
  PROVE  KidAged(k) \in {NoKid} \cup Kid /\ KidAged(k).child = k.child
<1>1. CASE k = NoKid
  BY <1>1 DEF KidAged, NoKid
<1>2. CASE k \in Kid
  <2>1. /\ k.known /\ k.since \in 0..BootGrace + 1 /\ k.retry \in 0..BackoffCap
        /\ k.wedged \in 0..Cooldown
    BY <1>2 DEF Kid
  <2>2. Bump(k.since, BootGrace + 1) \in 0..BootGrace + 1
    BY <2>1, Bounds DEF Bump
  <2>3. (IF k.retry > 0 THEN k.retry - 1 ELSE 0) \in 0..BackoffCap
    BY <2>1, Bounds
  <2>4. (IF k.wedged > 0 THEN k.wedged - 1 ELSE 0) \in 0..Cooldown
    BY <2>1, Bounds
  <2> QED BY <1>2, <2>1, <2>2, <2>3, <2>4 DEF KidAged, Kid
<1> QED BY <1>1, <1>2

\* The record of a child that ended, and of one the pass restarts.
LEMMA EndedKid ==
  ASSUME NEW k \in Kid, NEW b \in 1..BackoffCap
  PROVE  /\ [k EXCEPT !.child = NoProc, !.backoff = b, !.retry = b] \in Kid
         /\ [k EXCEPT !.child = NoProc, !.backoff = b, !.retry = b].child = NoProc
         /\ [k EXCEPT !.wedged = Cooldown] \in Kid
         /\ [k EXCEPT !.wedged = Cooldown].child = k.child
         /\ [k EXCEPT !.ok = TRUE, !.since = 0] \in Kid
         /\ [k EXCEPT !.ok = TRUE, !.since = 0].child = k.child
<1>0. /\ k.known = TRUE /\ k.ok \in BOOLEAN /\ k.since \in 0..BootGrace + 1
      /\ k.backoff \in 1..BackoffCap /\ k.retry \in 0..BackoffCap
      /\ k.wedged \in 0..Cooldown /\ k.child \in Procs \cup {NoProc, Ghost}
  BY DEF Kid
<1>b. /\ Cooldown \in 0..Cooldown /\ 0 \in 0..BootGrace + 1 /\ b \in 0..BackoffCap
      /\ NoProc \in Procs \cup {NoProc, Ghost} /\ TRUE \in BOOLEAN
  BY Bounds
<1>1. [k EXCEPT !.child = NoProc, !.backoff = b, !.retry = b] \in Kid
  BY <1>0, <1>b DEF Kid
<1>2. [k EXCEPT !.wedged = Cooldown] \in Kid
  BY <1>0, <1>b DEF Kid
<1>3. [k EXCEPT !.ok = TRUE, !.since = 0] \in Kid
  BY <1>0, <1>b DEF Kid
<1>4. /\ [k EXCEPT !.child = NoProc, !.backoff = b, !.retry = b].child = NoProc
      /\ [k EXCEPT !.wedged = Cooldown].child = k.child
      /\ [k EXCEPT !.ok = TRUE, !.since = 0].child = k.child
  BY DEF Kid
<1> QED BY <1>1, <1>2, <1>3, <1>4

LEMMA StartedKid ==
  ASSUME TypeOK, NEW u \in Accounts, NEW c \in Procs \cup {Ghost}
  PROVE  NewKid(u, c) \in Kid /\ NewKid(u, c).child = c
<1>1. kids[u] = NoKid \/ kids[u] \in Kid
  BY DEF TypeOK
<1>2. /\ 0 \in 0..BootGrace + 1 /\ 0 \in 0..BackoffCap /\ 0 \in 0..Cooldown
      /\ 1 \in 1..BackoffCap
  BY Bounds
<1>3. /\ (IF kids[u].known THEN kids[u].backoff ELSE 1) \in 1..BackoffCap
      /\ (IF kids[u].known THEN kids[u].wedged ELSE 0) \in 0..Cooldown
  <2>1. CASE kids[u] = NoKid
    BY <2>1, <1>2 DEF NoKid
  <2>2. CASE kids[u] \in Kid
    BY <2>2, KidFields DEF Kid
  <2> QED BY <1>1, <2>1, <2>2
<1> QED BY <1>2, <1>3 DEF NewKid, Kid

LEMMA SupInit == Init => SupInv
<1> SUFFICES ASSUME Init PROVE SupInv
  OBVIOUS
<1>0. /\ 0 \in 0..QuickLimit /\ 0 \in 0..NetLimit + 1 /\ 0 \in 0..MaxFaults
  BY Bounds
<1>1. TypeOK
  BY <1>0 DEF Init, TypeOK
<1>2. \A p \in Procs : procs[p] = Dead
  BY DEF Init
<1> QED BY <1>1, <1>2
        DEF Init, SupInv, Recorded, PassSettled, StartsAreFree, NoTwins, Between, Ours, Alive

(***************************************************************************)
(* A step in which processes only end, are signalled or are orphaned.      *)
(***************************************************************************)
Shrinks ==
  \A x \in Procs : Ours(x)' => Ours(x) /\ procs'[x].acct = procs[x].acct

LEMMA ShrinkKeeps ==
  ASSUME SupInv, TypeOK', Shrinks, jitter' \subseteq jitter \cap want',
         sup' = "up" => sup = "up",
         \A u \in jitter' : kids'[u].child \in {kids[u].child, NoProc},
         Recorded', PassSettled', Between'
  PROVE  SupInv'
<1>1. NoTwins'
  BY DEF Shrinks, SupInv, NoTwins
<1>2. StartsAreFree'
  BY DEF Shrinks, SupInv, StartsAreFree
<1> QED BY <1>1, <1>2 DEF SupInv

\* The same, when nothing is stopped under a running supervisor.
LEMMA QuietKeeps ==
  ASSUME SupInv, TypeOK', Shrinks, jitter' = jitter, want' = want, asked' = asked,
         sup' = "up" => sup = "up",
         sup' = "up" => \A x \in Procs : Ours(x)' => procs'[x].kill = procs[x].kill,
         \A u \in Accounts : kids'[u].child \in {kids[u].child, NoProc},
         Recorded', Between'
  PROVE  SupInv'
<1>1. PassSettled'
  BY DEF Shrinks, SupInv, PassSettled
<1>2. jitter' \subseteq jitter \cap want' /\ jitter' \subseteq Accounts
  BY DEF SupInv, StartsAreFree, TypeOK
<1> QED BY <1>1, <1>2, ShrinkKeeps

LEMMA DieCleanFacts ==
  ASSUME NEW ks, NEW ps, ProcsOK(ps), DieCleanEffect(ks, ps)
  PROVE  /\ kids' = [u \in Accounts |-> NoKid] /\ ProcsOK(procs')
         /\ sup' \in {"signalled", "dying"}
         /\ \A x \in Procs : procs'[x] # Dead =>
              /\ ps[x] # Dead /\ procs'[x].acct = ps[x].acct
              /\ procs'[x].orphan = ps[x].orphan
              /\ procs'[x].kill = "none" =>
                   ps[x].kill = "none" /\ \A u \in Accounts : ks[u].child # x
<1> DEFINE hit(x) == \E u \in Accounts : ks[u].child = x /\ ps[x] # Dead
                                         /\ ps[x].kill = "none"
<1>1. \A x \in Procs : procs'[x] = IF hit(x) THEN [ps[x] EXCEPT !.kill = "armed"] ELSE ps[x]
  BY DEF DieCleanEffect
<1>2. \A x \in Procs : ps[x] = Dead \/ ps[x] \in Process
  BY DEF ProcsOK
<1>3. ASSUME NEW x \in Procs
      PROVE  /\ procs'[x] \in {Dead} \cup Process
             /\ procs'[x] # Dead =>
                  /\ ps[x] # Dead /\ procs'[x].acct = ps[x].acct
                  /\ procs'[x].orphan = ps[x].orphan
                  /\ procs'[x].kill = "none" =>
                       ps[x].kill = "none" /\ \A u \in Accounts : ks[u].child # x
  <2>1. CASE hit(x)
    <3>1. ps[x] \in Process /\ ps[x] # Dead
      BY <1>2, <2>1
    <3>2. procs'[x] = [ps[x] EXCEPT !.kill = "armed"]
      BY <1>1, <2>1
    <3> HIDE DEF hit
    <3> DEFINE q == [ps[x] EXCEPT !.kill = "armed"]
    <3>3. q \in Process /\ q.acct = ps[x].acct /\ q.orphan = ps[x].orphan /\ q.kill = "armed"
      BY <3>1, Marked
    <3> HIDE DEF q
    <3>4. procs'[x] = q
      BY <3>2 DEF q
    <3> QED BY <3>1, <3>3, <3>4
  <2>2. CASE ~hit(x)
    <3>1. procs'[x] = ps[x]
      BY <1>1, <2>2
    <3>2. ps[x] # Dead /\ ps[x].kill = "none" => \A u \in Accounts : ks[u].child # x
      BY <2>2
    <3> HIDE DEF hit
    <3> QED BY <1>2, <3>1, <3>2
  <2> QED BY <2>1, <2>2
<1>4. ProcsOK(procs')
  <2>1. procs' = [x \in Procs |-> procs'[x]]
    BY DEF DieCleanEffect
  <2> QED BY <1>3, <2>1 DEF ProcsOK
<1>5. kids' = [u \in Accounts |-> NoKid] /\ sup' \in {"signalled", "dying"}
  BY DEF DieCleanEffect
<1> QED BY <1>3, <1>4, <1>5

(***************************************************************************)
(* A process ends.                                                         *)
(***************************************************************************)
LEMMA GoneFacts ==
  ASSUME SupInv, NEW p \in Procs, Alive(p), NEW isQuick \in BOOLEAN, Gone(p, isQuick)
  PROVE  /\ KidsOK(kids') /\ ProcsOK(procs') /\ quick' \in 0..QuickLimit
         /\ sup' = sup \/ (sup # "down" /\ sup' \in {"signalled", "dying"})
         /\ Shrinks /\ Recorded'
         /\ sup' = "up" => \A x \in Procs : Ours(x)' => procs'[x].kill = procs[x].kill
         /\ \A u \in Accounts : kids'[u].child \in {kids[u].child, NoProc}
         /\ \A u \in Accounts : kids[u] = NoKid => kids'[u] = NoKid
<1> DEFINE u  == procs[p].acct
           ps == [procs EXCEPT ![p] = Dead]
           k  == kids[u]
           b  == IF procs[p].age > OrphanAge THEN 1
                 ELSE Least(k.backoff * 2, BackoffCap)
           ks == IF k.child = p
                 THEN [kids EXCEPT ![u] = [k EXCEPT !.child = NoProc,
                                                    !.backoff = b, !.retry = b]]
                 ELSE kids
           n  == IF isQuick THEN Bump(quick, QuickLimit)
                 ELSE IF procs[p].age > 0 THEN 0 ELSE quick
<1>1. /\ procs \in [Procs -> {Dead} \cup Process] /\ kids \in [Accounts -> {NoKid} \cup Kid]
      /\ quick \in 0..QuickLimit
  BY DEF SupInv, TypeOK
<1>2. procs[p] \in Process /\ u \in Accounts
  BY <1>1, ProcessFields DEF Alive
<1>3. ProcsOK(ps) /\ ps[p] = Dead /\ \A x \in Procs : x # p => ps[x] = procs[x]
  BY <1>1 DEF ProcsOK
<1>4. n \in 0..QuickLimit
  BY <1>1, Bounds DEF Bump
<1>5. /\ KidsOK(ks)
      /\ \A v \in Accounts : ks[v] = kids[v] \/ (kids[v].child = p /\ ks[v].child = NoProc)
  <2>1. CASE k.child = p
    <3>1. k \in Kid
      <4>1. NoProc # p
        BY Bounds DEF NoProc, Procs
      <4> QED BY <1>1, <1>2, <2>1, <4>1 DEF NoKid
    <3>2. b \in 1..BackoffCap
      <4>1. k.backoff \in 1..BackoffCap
        BY <3>1 DEF Kid
      <4> QED BY <4>1, Bounds DEF Least
    <3> DEFINE k2 == [k EXCEPT !.child = NoProc, !.backoff = b, !.retry = b]
    <3>3. k2 \in Kid /\ k2.child = NoProc
      BY <3>1, <3>2, EndedKid
    <3>4. ks = [kids EXCEPT ![u] = k2]
      BY <2>1
    <3> HIDE DEF k2, ks, b
    <3> QED BY <1>1, <1>2, <2>1, <3>3, <3>4 DEF KidsOK
  <2>2. CASE k.child # p
    BY <1>1, <2>2 DEF KidsOK
  <2> QED BY <2>1, <2>2
<1>6. \/ procs[p].orphan /\ procs' = ps /\ UNCHANGED <<kids, quick, sup>>
      \/ ~procs[p].orphan /\ quick' = n /\ DieCleanEffect(ks, ps)
      \/ ~procs[p].orphan /\ quick' = n /\ kids' = ks /\ procs' = ps /\ UNCHANGED sup
  BY DEF Gone
<1>7. ASSUME NEW v \in Accounts, kids[v] = NoKid
      PROVE  ks[v] = NoKid
  <2>1. kids[v].child # p
    BY <1>7, Bounds DEF NoKid, NoProc, Procs
  <2> QED BY <1>5, <1>7, <2>1
<1>8. \A x \in Procs : Ours(x) /\ procs[x].kill = "none" => kids[procs[x].acct].child = x
  BY DEF SupInv, Recorded
<1>9. \A x \in Procs : procs[x] # Dead => procs[x] \in Process /\ procs[x].acct \in Accounts
  BY <1>1, ProcessFields
<1> HIDE DEF ps, ks, n, u, k, b
<1>10. CASE procs[p].orphan /\ procs' = ps /\ UNCHANGED <<kids, quick, sup>>
  <2>1. Shrinks /\ \A x \in Procs : Ours(x)' => procs'[x].kill = procs[x].kill
    BY <1>3, <1>10 DEF Shrinks, Ours, Alive
  <2>2. Recorded'
    BY <1>3, <1>8, <1>10 DEF Recorded, Ours, Alive
  <2> QED BY <1>1, <1>3, <1>10, <2>1, <2>2 DEF KidsOK
<1>11. CASE ~procs[p].orphan /\ quick' = n /\ kids' = ks /\ procs' = ps /\ UNCHANGED sup
  <2>1. Shrinks /\ \A x \in Procs : Ours(x)' => procs'[x].kill = procs[x].kill
    BY <1>3, <1>11 DEF Shrinks, Ours, Alive
  <2>2. Recorded'
    BY <1>3, <1>5, <1>8, <1>9, <1>11 DEF Recorded, Ours, Alive
  <2> QED BY <1>3, <1>4, <1>5, <1>7, <1>11, <2>1, <2>2
<1>12. CASE ~procs[p].orphan /\ quick' = n /\ DieCleanEffect(ks, ps)
  <2>1. /\ kids' = [v \in Accounts |-> NoKid] /\ ProcsOK(procs')
        /\ sup' \in {"signalled", "dying"}
        /\ \A x \in Procs : procs'[x] # Dead =>
             /\ ps[x] # Dead /\ procs'[x].acct = ps[x].acct
             /\ procs'[x].orphan = ps[x].orphan
             /\ procs'[x].kill = "none" =>
                  ps[x].kill = "none" /\ \A v \in Accounts : ks[v].child # x
    BY <1>3, <1>12, DieCleanFacts
  <2>2. \A v \in Accounts : kids'[v] = NoKid /\ kids'[v].child = NoProc
    BY <2>1 DEF NoKid
  <2>3. Shrinks
    BY <1>3, <2>1 DEF Shrinks, Ours, Alive
  <2>4. Recorded'
    BY <1>3, <1>5, <1>8, <1>9, <2>1 DEF Recorded, Ours, Alive
  <2>5. sup # "down"
    BY <1>12 DEF SupInv, Between, Ours
  <2>6. KidsOK(kids')
    BY <2>1 DEF KidsOK
  <2> QED BY <1>4, <1>12, <2>1, <2>2, <2>3, <2>4, <2>5, <2>6
<1> QED BY <1>6, <1>10, <1>11, <1>12

LEMMA ExitsKeeps ==
  ASSUME SupInv, NEW p \in Procs, NEW isQuick \in BOOLEAN, Exits(p, isQuick),
         faults' \in 0..MaxFaults
  PROVE  SupInv'
<1>1. Alive(p) /\ Gone(p, isQuick) /\ UNCHANGED <<listed, asked, want, jitter, silent>>
  BY DEF Exits
<1>2. /\ KidsOK(kids') /\ ProcsOK(procs') /\ quick' \in 0..QuickLimit
      /\ sup' = sup \/ (sup # "down" /\ sup' \in {"signalled", "dying"})
      /\ Shrinks /\ Recorded'
      /\ sup' = "up" => \A x \in Procs : Ours(x)' => procs'[x].kill = procs[x].kill
      /\ \A u \in Accounts : kids'[u].child \in {kids[u].child, NoProc}
      /\ \A u \in Accounts : kids[u] = NoKid => kids'[u] = NoKid
  BY <1>1, GoneFacts
<1>3. TypeOK'
  BY <1>1, <1>2 DEF SupInv, TypeOK, KidsOK, ProcsOK
<1>4. Between'
  BY <1>1, <1>2 DEF SupInv, Between, Shrinks
<1> QED BY <1>1, <1>2, <1>3, <1>4, QuietKeeps

(***************************************************************************)
(* The other steps of a bot.                                               *)
(***************************************************************************)
LEMMA CycleOkKeeps ==
  ASSUME SupInv, NEW p \in Procs, CycleOk(p)
  PROVE  SupInv'
<1> DEFINE u  == procs[p].acct
           k2 == [kids[u] EXCEPT !.ok = TRUE, !.since = 0]
<1>1. /\ Alive(p) /\ kids[u].child = p /\ kids' = [kids EXCEPT ![u] = k2]
      /\ UNCHANGED <<listed, sup, asked, want, jitter, procs, quick, silent, faults>>
  BY DEF CycleOk
<1>2. /\ kids \in [Accounts -> {NoKid} \cup Kid] /\ u \in Accounts
  BY <1>1, ProcessFields DEF SupInv, TypeOK, Alive
<1>3. kids[u] \in Kid
  <2>1. p # NoProc
    BY Bounds DEF NoProc, Procs
  <2> QED BY <1>1, <1>2, <2>1 DEF NoKid
<1>4. k2 \in Kid /\ k2.child = kids[u].child
  <2>1. 1 \in 1..BackoffCap
    BY Bounds
  <2> QED BY <1>3, <2>1, EndedKid
<1> HIDE DEF k2, u
<1>5. KidsOK(kids') /\ \A v \in Accounts : kids'[v].child = kids[v].child
  BY <1>1, <1>2, <1>4 DEF KidsOK
<1>6. TypeOK'
  BY <1>1, <1>5 DEF SupInv, TypeOK, KidsOK
<1>7. \A x \in Procs : Ours(x)' <=> Ours(x)
  BY <1>1 DEF Ours, Alive
<1>8. Recorded'
  <2>1. \A x \in Procs : Ours(x) => procs[x].acct \in Accounts
    BY ProcessFields DEF SupInv, TypeOK, Ours, Alive
  <2> QED BY <1>1, <1>5, <1>7, <2>1 DEF SupInv, Recorded
<1>9. sup # "down"
  BY <1>1, <1>2, <1>3, KidFields DEF SupInv, Between
<1>10. Between'
  BY <1>1, <1>9 DEF Between
<1> QED BY <1>1, <1>5, <1>6, <1>7, <1>8, <1>10, QuietKeeps DEF Shrinks

LEMMA ModeKeeps ==
  ASSUME SupInv, NEW p \in Procs, Alive(p), NEW m \in {"good", "failing", "hung"},
         procs' = [procs EXCEPT ![p].mode = m], faults' \in 0..MaxFaults,
         UNCHANGED <<listed, sup, asked, want, kids, jitter, quick, silent>>
  PROVE  SupInv'
<1> DEFINE r == [procs[p] EXCEPT !.mode = m]
<1>1. procs \in [Procs -> {Dead} \cup Process] /\ procs[p] \in Process
  BY DEF SupInv, TypeOK, Alive
<1>2. r \in Process /\ r.acct = procs[p].acct /\ r.orphan = procs[p].orphan
      /\ r.kill = procs[p].kill /\ r # Dead
  BY <1>1, Moded, ProcessFields
<1>3. procs' = [procs EXCEPT ![p] = r]
  OBVIOUS
<1> HIDE DEF r
<1>4. ProcsOK(procs') /\ \A x \in Procs :
         /\ procs'[x] # Dead <=> procs[x] # Dead
         /\ procs[x] # Dead => /\ procs'[x].acct = procs[x].acct
                               /\ procs'[x].orphan = procs[x].orphan
                               /\ procs'[x].kill = procs[x].kill
  BY <1>1, <1>2, <1>3 DEF ProcsOK, Alive
<1>5. TypeOK'
  BY <1>4 DEF SupInv, TypeOK, ProcsOK
<1>6. Shrinks /\ Recorded' /\ Between'
      /\ \A x \in Procs : Ours(x)' => procs'[x].kill = procs[x].kill
  BY <1>4 DEF SupInv, Shrinks, Recorded, Between, Ours, Alive
<1> QED BY <1>5, <1>6, QuietKeeps

LEMMA BotKeeps ==
  ASSUME SupInv, NEW p \in Procs,
         \/ TermKills(p) \/ KillFires(p) \/ Crash(p) \/ Disconnected(p)
         \/ SelfExit(p) \/ CycleOk(p) \/ Wedges(p) \/ Recovers(p)
  PROVE  SupInv'
<1>1. faults \in 0..MaxFaults /\ (faults < MaxFaults => faults + 1 \in 0..MaxFaults)
  BY Bounds DEF SupInv, TypeOK
<1>2. CASE TermKills(p) \/ KillFires(p) \/ Crash(p) \/ Disconnected(p) \/ SelfExit(p)
  <2>1. PICK q \in BOOLEAN : Exits(p, q)
    BY <1>2 DEF TermKills, KillFires, Crash, Disconnected, SelfExit
  <2>2. faults' \in 0..MaxFaults
    BY <1>1, <1>2 DEF TermKills, KillFires, Crash, Disconnected, SelfExit
  <2> QED BY <2>1, <2>2, ExitsKeeps
<1>3. CASE CycleOk(p)
  BY <1>3, CycleOkKeeps
<1>4. CASE Wedges(p)
  BY <1>1, <1>4, ModeKeeps DEF Wedges
<1>5. CASE Recovers(p)
  BY <1>1, <1>5, ModeKeeps DEF Recovers
<1> QED BY <1>2, <1>3, <1>4, <1>5

(***************************************************************************)
(* The passes of the supervisor.                                           *)
(***************************************************************************)
LEMMA PassKeeps ==
  ASSUME SupInv, Pass
  PROVE  SupInv'
<1>1. /\ procs \in [Procs -> {Dead} \cup Process] /\ kids \in [Accounts -> {NoKid} \cup Kid]
      /\ silent \in 0..NetLimit + 1
  BY DEF SupInv, TypeOK
<1>2. ASSUME NEW x \in Procs
      PROVE  /\ procs'[x] \in {Dead} \cup Process
             /\ procs'[x] # Dead => /\ procs[x] # Dead /\ procs'[x].acct = procs[x].acct
                                    /\ procs'[x].orphan = procs[x].orphan
                                    /\ procs'[x].kill = procs[x].kill
  <2>1. procs'[x] = IF Reapable(x) THEN Dead ELSE Aged(procs[x])
    BY DEF Pass
  <2>2. CASE procs[x] = Dead
    BY <2>1, <2>2 DEF Aged
  <2>3. CASE procs[x] \in Process
    BY <2>1, <2>3, AgedProcess, ProcessFields
  <2> QED BY <1>1, <2>2, <2>3
<1>3. ASSUME NEW v \in Accounts
      PROVE  /\ kids'[v] \in {NoKid} \cup Kid /\ kids'[v].child = kids[v].child
  BY <1>1, AgedKid DEF Pass
<1>4. TypeOK'
  <2>1. ProcsOK(procs')
    <3>1. procs' = [x \in Procs |-> procs'[x]]
      BY DEF Pass
    <3> QED BY <1>2, <3>1 DEF ProcsOK
  <2>2. KidsOK(kids')
    <3>1. kids' = [v \in Accounts |-> kids'[v]]
      BY DEF Pass
    <3> QED BY <1>3, <3>1 DEF KidsOK
  <2>3. silent' \in 0..NetLimit + 1
    BY <1>1, Bounds DEF Pass, Bump
  <2> QED BY <2>1, <2>2, <2>3 DEF Pass, SupInv, TypeOK, ProcsOK, KidsOK
<1>5. Shrinks
  BY <1>2 DEF Shrinks, Ours, Alive
<1>6. Recorded'
  <2>1. \A x \in Procs : Ours(x) => procs[x].acct \in Accounts
    BY <1>1, ProcessFields DEF Ours, Alive
  <2> QED BY <1>2, <1>3, <2>1 DEF SupInv, Recorded, Ours, Alive
<1>7. PassSettled'
  <2>1. sup = "up" => \A x \in Procs : Ours(x) => procs[x].kill = "none"
    BY DEF Pass, Ours
  <2>2. jitter' = {} /\ sup' = sup
    BY DEF Pass
  <2> QED BY <1>2, <2>1, <2>2 DEF PassSettled, Ours, Alive
<1>8. /\ jitter' \subseteq jitter \cap want' /\ sup' = sup /\ sup' # "down"
      /\ \A v \in jitter' : kids'[v].child \in {kids[v].child, NoProc}
  BY DEF Pass
<1>9. Between'
  BY <1>8 DEF Between
<1> QED BY <1>4, <1>5, <1>6, <1>7, <1>8, <1>9, ShrinkKeeps

LEMMA NoRosterKeeps ==
  ASSUME SupInv, NoRoster
  PROVE  SupInv'
<1>0. 0 \in 0..NetLimit + 1
  BY Bounds
<1>1. TypeOK'
  BY <1>0 DEF NoRoster, SupInv, TypeOK
<1>2. Shrinks /\ Recorded' /\ Between' /\ PassSettled'
  BY DEF NoRoster, SupInv, Shrinks, Recorded, Between, PassSettled, Ours, Alive
<1>3. /\ jitter' \subseteq jitter \cap want' /\ sup' = sup
      /\ \A v \in jitter' : kids'[v].child \in {kids[v].child, NoProc}
  BY DEF NoRoster, SupInv, StartsAreFree
<1> QED BY <1>1, <1>2, <1>3, ShrinkKeeps

LEMMA TerminateFacts ==
  ASSUME ProcsOK(procs), NEW S, NEW how \in {"armed", "late"}
  PROVE  /\ ProcsOK(Terminate(S, how))
         /\ \A x \in Procs : Terminate(S, how)[x] # Dead =>
              /\ procs[x] # Dead /\ Terminate(S, how)[x].acct = procs[x].acct
              /\ Terminate(S, how)[x].orphan = procs[x].orphan
              /\ Terminate(S, how)[x].kill = "none" => procs[x].kill = "none" /\ x \notin S
<1> DEFINE T == Terminate(S, how)
<1>1. T = [x \in Procs |-> IF x \in S /\ procs[x].kill = "none"
                           THEN [procs[x] EXCEPT !.kill = how] ELSE procs[x]]
  BY DEF Terminate
<1>2. [Dead EXCEPT !.kill = how] = Dead
  BY DEF Dead
<1>3. ASSUME NEW x \in Procs
      PROVE  /\ T[x] \in {Dead} \cup Process
             /\ T[x] # Dead =>
                  /\ procs[x] # Dead /\ T[x].acct = procs[x].acct
                  /\ T[x].orphan = procs[x].orphan
                  /\ T[x].kill = "none" => procs[x].kill = "none" /\ x \notin S
  <2>0. T[x] = IF x \in S /\ procs[x].kill = "none"
               THEN [procs[x] EXCEPT !.kill = how] ELSE procs[x]
    BY <1>1
  <2> HIDE DEF T
  <2>1. CASE procs[x] = Dead
    BY <1>2, <2>0, <2>1
  <2>2. CASE procs[x] \in Process /\ x \in S /\ procs[x].kill = "none"
    <3>1. T[x] = [procs[x] EXCEPT !.kill = how]
      BY <2>0, <2>2
    <3>2. procs[x] # Dead
      BY <2>2, ProcessFields
    <3>3. ASSUME NEW r \in Process
          PROVE  LET k == [r EXCEPT !.kill = how]
                 IN k \in Process /\ k.acct = r.acct /\ k.orphan = r.orphan /\ k.kill = how
      BY Marked
    <3>4. T[x] \in Process /\ T[x].acct = procs[x].acct /\ T[x].orphan = procs[x].orphan
          /\ T[x].kill = how
      BY <2>2, <3>1, <3>3
    <3> QED BY <3>2, <3>4
  <2>3. CASE procs[x] \in Process /\ ~(x \in S /\ procs[x].kill = "none")
    BY <2>0, <2>3, ProcessFields
  <2> QED BY <2>1, <2>2, <2>3 DEF ProcsOK
<1> HIDE DEF T
<1>4. ProcsOK(T)
  BY <1>1, <1>3 DEF ProcsOK
<1> QED BY <1>3, <1>4 DEF T

\* The accounts a pass starts are on the roster and have no child.
LEMMA ToStartFree ==
  ASSUME NEW ks, NEW L, NEW u \in ToStart(ks, L)
  PROVE  u \in L /\ ks[u].child = NoProc
BY DEF ToStart

LEMMA RosterFacts ==
  ASSUME SupInv, Roster
  PROVE  /\ asked /\ ~asked' /\ jitter = {} /\ want' = listed
         /\ KidsOK(kids') /\ ProcsOK(procs') /\ jitter' \subseteq listed
         /\ \A x \in Procs : procs'[x] # Dead =>
              /\ procs[x] # Dead /\ procs'[x].acct = procs[x].acct
              /\ procs'[x].orphan = procs[x].orphan
              /\ procs'[x].kill = "none" => procs[x].kill = "none"
         /\ \A u \in jitter' : kids[u].child = NoProc /\ kids'[u].child = NoProc
         /\ \A u \in Accounts :
              \/ kids'[u].child = kids[u].child /\ (kids[u].child # NoProc => u \in listed)
              \/ kids'[u].child = NoProc /\ u \notin listed /\ kids[u].known = TRUE
         /\ \A x \in Procs : procs'[x] # Dead /\ procs'[x].kill = "none"
              => \A u \in Accounts : kids[u].child = x => kids'[u].child = x
<1> DEFINE unlisted == Tracked \ listed
           kept == Forget(unlisted)
           how == IF sup = "up" THEN "armed" ELSE "late"
<1>1. PICK R \in SUBSET (Tracked \ unlisted) :
        /\ kids' = [u \in Accounts |-> IF u \in R THEN [kept[u] EXCEPT !.wedged = Cooldown]
                                       ELSE kept[u]]
        /\ procs' = Terminate(ChildrenOf(unlisted \cup R), how)
        /\ jitter' = jitter \cup ToStart(kids', listed)
  BY DEF Roster
<1>2. /\ kids \in [Accounts -> {NoKid} \cup Kid] /\ ProcsOK(procs) /\ how \in {"armed", "late"}
  BY DEF SupInv, TypeOK, ProcsOK
<1>3. ASSUME NEW u \in Accounts
      PROVE  /\ kids[u] = NoKid => kids[u].known = FALSE /\ kids[u].child = NoProc
             /\ kids[u] # NoKid => kids[u] \in Kid /\ kids[u].known = TRUE
             /\ u \in Tracked => kids[u] \in Kid
             /\ u \notin Tracked => kids[u] = NoKid
  <2>1. CASE kids[u] = NoKid
    <3>1. kids[u].known = FALSE /\ kids[u].child = NoProc
      BY <2>1 DEF NoKid
    <3>2. u \notin Tracked
      BY <3>1 DEF Tracked
    <3> QED BY <2>1, <3>1, <3>2
  <2>2. CASE kids[u] \in Kid
    <3>1. kids[u].known = TRUE /\ kids[u] # NoKid
      BY <2>2, KidFields
    <3>2. u \in Tracked
      BY <3>1 DEF Tracked
    <3> QED BY <2>2, <3>1, <3>2
  <2> QED BY <1>2, <2>1, <2>2
<1>4. ASSUME NEW u \in Accounts
      PROVE  /\ kids'[u] \in {NoKid} \cup Kid
             /\ u \in unlisted => kids'[u] = NoKid
             /\ u \notin unlisted => kids'[u].child = kids[u].child
  <2>1. kept[u] = IF u \in unlisted THEN NoKid ELSE kids[u]
    BY DEF Forget
  <2>2. kids'[u] = IF u \in R THEN [kept[u] EXCEPT !.wedged = Cooldown] ELSE kept[u]
    BY <1>1
  <2>3. CASE u \in R
    <3>1. kept[u] = kids[u] /\ kids[u] \in Kid /\ u \notin unlisted
      BY <1>3, <2>1, <2>3
    <3>2. 1 \in 1..BackoffCap
      BY Bounds
    <3>3. /\ [kids[u] EXCEPT !.wedged = Cooldown] \in Kid
          /\ [kids[u] EXCEPT !.wedged = Cooldown].child = kids[u].child
      BY <3>1, <3>2, EndedKid
    <3> QED BY <2>2, <2>3, <3>1, <3>3
  <2>4. CASE u \notin R
    BY <1>2, <2>1, <2>2, <2>4
  <2> QED BY <2>3, <2>4
<1>5. KidsOK(kids')
  <2>1. kids' = [u \in Accounts |-> kids'[u]]
    BY <1>1
  <2> QED BY <1>4, <2>1 DEF KidsOK
<1>6. /\ ProcsOK(procs')
      /\ \A x \in Procs : procs'[x] # Dead =>
           /\ procs[x] # Dead /\ procs'[x].acct = procs[x].acct
           /\ procs'[x].orphan = procs[x].orphan
           /\ procs'[x].kill = "none" =>
                procs[x].kill = "none" /\ x \notin ChildrenOf(unlisted \cup R)
  <2> HIDE DEF unlisted, how
  <2> QED BY <1>1, <1>2, TerminateFacts
<1>7. asked /\ ~asked' /\ jitter = {} /\ want' = listed
  BY DEF Roster, SupInv, PassSettled
<1>8. ASSUME NEW u \in jitter'
      PROVE  u \in listed /\ kids'[u].child = NoProc /\ u \in Accounts
  <2>1. u \in ToStart(kids', listed)
    BY <1>1, <1>7
  <2>2. listed \subseteq Accounts
    BY DEF SupInv, TypeOK
  <2> QED BY <2>1, <2>2, ToStartFree
<1>9. ASSUME NEW x \in Procs, procs'[x] # Dead, procs'[x].kill = "none",
             NEW u \in Accounts, kids[u].child = x
      PROVE  kids'[u].child = x
  <2>1. x \notin ChildrenOf(unlisted \cup R)
    BY <1>6, <1>9
  <2>2. u \notin unlisted
    BY <1>9, <2>1 DEF ChildrenOf
  <2> QED BY <1>4, <1>9, <2>2
<1>10. NoKid.child = NoProc
  BY DEF NoKid
<1>11. ASSUME NEW u \in Accounts
       PROVE  \/ kids'[u].child = kids[u].child /\ (kids[u].child # NoProc => u \in listed)
              \/ /\ kids'[u].child = NoProc /\ u \notin listed /\ kids[u].known = TRUE
  BY <1>3, <1>4, <1>10
<1>12. \A u \in jitter' : kids[u].child = NoProc
  BY <1>8, <1>11
<1> HIDE DEF unlisted, kept, how
<1> QED BY <1>5, <1>6, <1>7, <1>8, <1>9, <1>11, <1>12

LEMMA RosterKeeps ==
  ASSUME SupInv, Roster
  PROVE  SupInv'
<1>1. /\ asked /\ ~asked' /\ jitter = {} /\ want' = listed
      /\ KidsOK(kids') /\ ProcsOK(procs') /\ jitter' \subseteq listed
      /\ \A x \in Procs : procs'[x] # Dead =>
           /\ procs[x] # Dead /\ procs'[x].acct = procs[x].acct
           /\ procs'[x].orphan = procs[x].orphan
           /\ procs'[x].kill = "none" => procs[x].kill = "none"
      /\ \A u \in jitter' : kids[u].child = NoProc /\ kids'[u].child = NoProc
      /\ \A x \in Procs : procs'[x] # Dead /\ procs'[x].kill = "none"
              => \A u \in Accounts : kids[u].child = x => kids'[u].child = x
  BY RosterFacts
<1>2. /\ UNCHANGED <<listed, sup, quick, faults>> /\ silent' = 0 /\ asked' = FALSE
  BY DEF Roster
<1>3. TypeOK'
  <2>1. 0 \in 0..NetLimit + 1
    BY Bounds
  <2> QED BY <1>1, <1>2, <2>1 DEF SupInv, TypeOK, KidsOK, ProcsOK
<1>4. \A x \in Procs : Ours(x) => procs[x].acct \in Accounts
  BY ProcessFields DEF SupInv, TypeOK, Ours, Alive
<1>5. Shrinks
  BY <1>1 DEF Shrinks, Ours, Alive
<1>6. Recorded'
  BY <1>1, <1>4 DEF SupInv, Recorded, Ours, Alive
<1>7. \* an account whose record is free has no unsignalled child, and none is signalled
      ASSUME sup = "up", NEW x \in Procs, Ours(x)'
      PROVE  procs'[x].acct \notin jitter'
  <2>1. Ours(x) /\ procs'[x].acct = procs[x].acct
    BY <1>5, <1>7 DEF Shrinks
  <2>2. kids[procs[x].acct].child = x
    BY <1>1, <1>7, <2>1 DEF SupInv, Recorded, PassSettled
  <2>3. x # NoProc
    BY Bounds DEF Procs, NoProc
  <2> QED BY <1>1, <2>1, <2>2, <2>3
<1>8. StartsAreFree'
  BY <1>1, <1>2, <1>7 DEF StartsAreFree
<1>9. NoTwins' /\ PassSettled' /\ Between'
  <2>1. sup # "down"
    BY <1>1 DEF SupInv, Between
  <2> QED BY <1>1, <1>2, <1>5, <2>1 DEF SupInv, NoTwins, PassSettled, Between, Shrinks
<1> QED BY <1>3, <1>6, <1>8, <1>9 DEF SupInv

(***************************************************************************)
(* Start timers.                                                           *)
(***************************************************************************)
\* A record gets a child c: a new process, or the ghost of a failed spawn.
LEMMA RecordStarted ==
  ASSUME SupInv, NEW u \in Accounts, NEW c \in Procs \cup {Ghost},
         kids' = [kids EXCEPT ![u] = NewKid(u, c)]
  PROVE  /\ KidsOK(kids') /\ kids'[u].child = c
         /\ \A v \in Accounts : v # u => kids'[v] = kids[v]
<1> DEFINE k2 == NewKid(u, c)
<1>1. k2 \in Kid /\ k2.child = c
  BY StartedKid DEF SupInv
<1>2. kids \in [Accounts -> {NoKid} \cup Kid] /\ kids' = [kids EXCEPT ![u] = k2]
  BY DEF SupInv, TypeOK
<1> HIDE DEF k2
<1> QED BY <1>1, <1>2 DEF KidsOK

LEMMA StartKeeps ==
  ASSUME SupInv, NEW u \in jitter, sup # "down", kids[u].child = NoProc, Spawned(u),
         jitter' = jitter \ {u},
         UNCHANGED <<listed, sup, asked, want, quick, silent, faults>>
  PROVE  SupInv'
<1> DEFINE p == CHOOSE q \in Procs : ~Alive(q)
           r == [acct |-> u, mode |-> "good", orphan |-> FALSE, kill |-> "none", age |-> 0]
<1>1. p \in Procs /\ ~Alive(p)
  BY DEF Spawned
<1>2. procs' = [procs EXCEPT ![p] = r] /\ kids' = [kids EXCEPT ![u] = NewKid(u, p)]
  BY DEF Spawned
<1>3. u \in Accounts /\ procs \in [Procs -> {Dead} \cup Process]
  BY DEF SupInv, TypeOK
<1>4. r \in Process /\ r # Dead /\ r.acct = u /\ r.orphan = FALSE /\ r.kill = "none"
  <2>1. 0 \in 0..OrphanAge + 1
    BY Bounds
  <2>2. r \in Process
    BY <1>3, <2>1 DEF Process
  <2> QED BY <2>2, ProcessFields
<1> HIDE DEF p, r
<1>5. /\ KidsOK(kids') /\ kids'[u].child = p
      /\ \A v \in Accounts : v # u => kids'[v] = kids[v]
  BY <1>1, <1>2, <1>3, RecordStarted
<1>6. /\ ProcsOK(procs') /\ procs'[p] = r
      /\ \A x \in Procs : x # p => procs'[x] = procs[x]
  BY <1>1, <1>2, <1>3, <1>4 DEF ProcsOK
<1>7. TypeOK'
  BY <1>5, <1>6 DEF SupInv, TypeOK, KidsOK, ProcsOK
<1>8. \A x \in Procs : Ours(x) => procs[x].acct \in Accounts
  BY ProcessFields DEF SupInv, TypeOK, Ours, Alive
<1>9. Recorded'
  <2> SUFFICES ASSUME NEW x \in Procs, Ours(x)', procs'[x].kill = "none"
               PROVE  kids'[procs'[x].acct].child = x
    BY DEF Recorded
  <2>1. CASE x = p
    BY <1>4, <1>5, <1>6, <2>1
  <2>2. CASE x # p
    <3>1. Ours(x) /\ procs'[x] = procs[x]
      BY <1>6, <2>2 DEF Ours, Alive
    <3>2. kids[procs[x].acct].child = x
      BY <3>1 DEF SupInv, Recorded
    <3>3. procs[x].acct # u
      BY <3>2, Bounds DEF NoProc, Procs
    <3> QED BY <1>5, <1>8, <3>1, <3>2, <3>3
  <2> QED BY <2>1, <2>2
<1>10. ~asked /\ sup' # "down" /\ ~asked'
  BY DEF SupInv, PassSettled
<1>11. ASSUME sup = "up", NEW x \in Procs, x # p, Ours(x)'
       PROVE  Ours(x) /\ procs'[x] = procs[x] /\ procs[x].acct \notin jitter
  BY <1>6, <1>11 DEF SupInv, StartsAreFree, Ours, Alive
<1>12. ASSUME sup = "up", NEW x \in Procs, Ours(x)'
       PROVE  procs'[x].acct \notin jitter'
  <2>1. CASE x = p
    BY <1>4, <1>6, <2>1
  <2>2. CASE x # p
    BY <1>11, <1>12, <2>2
  <2> QED BY <2>1, <2>2
<1>13. StartsAreFree'
  <2>1. jitter \subseteq Accounts
    BY DEF SupInv, TypeOK
  <2> QED BY <1>5, <1>12, <2>1 DEF SupInv, StartsAreFree
<1>14. NoTwins'
  <2> SUFFICES ASSUME sup = "up", NEW x \in Procs, NEW y \in Procs,
                      Ours(x)', Ours(y)', x # y
               PROVE  procs'[x].acct # procs'[y].acct
    BY DEF NoTwins
  <2>1. CASE x # p /\ y # p
    BY <1>11, <2>1 DEF SupInv, NoTwins
  <2>2. CASE x = p
    BY <1>4, <1>6, <1>11, <2>2
  <2>3. CASE y = p
    BY <1>4, <1>6, <1>11, <2>3
  <2> QED BY <2>1, <2>2, <2>3
<1> QED BY <1>7, <1>9, <1>10, <1>13, <1>14 DEF SupInv, PassSettled, Between

LEMMA JitterKeeps ==
  ASSUME SupInv, NEW u \in Accounts, JitterFires(u)
  PROVE  SupInv'
<1>1. /\ u \in jitter /\ sup # "down" /\ jitter' = jitter \ {u}
      /\ kids[u].child = NoProc
      /\ UNCHANGED <<listed, sup, asked, want, quick, silent, faults>>
  BY DEF JitterFires, SupInv, StartsAreFree
<1>2. Spawned(u)
  BY <1>1 DEF JitterFires
<1> QED BY <1>1, <1>2, StartKeeps

LEMMA SpawnFailsKeeps ==
  ASSUME SupInv, NEW u \in Accounts, SpawnFails(u)
  PROVE  SupInv'
<1>1. /\ u \in jitter /\ sup # "down" /\ kids[u].child = NoProc /\ jitter' = jitter \ {u}
      /\ UNCHANGED <<listed, sup, asked, want, procs, quick, silent>>
      /\ kids' = kids \/ kids' = [kids EXCEPT ![u] = NewKid(u, Ghost)]
  BY DEF SpawnFails
<1>2. faults' \in 0..MaxFaults
  BY Bounds DEF SpawnFails, SupInv, TypeOK
<1>3. KidsOK(kids') /\ \A v \in Accounts : v # u => kids'[v] = kids[v]
  <2>1. CASE kids' = kids
    BY <2>1 DEF SupInv, TypeOK, KidsOK
  <2>2. CASE kids' = [kids EXCEPT ![u] = NewKid(u, Ghost)]
    BY <2>2, RecordStarted
  <2> QED BY <1>1, <2>1, <2>2
<1>4. TypeOK'
  BY <1>1, <1>2, <1>3 DEF SupInv, TypeOK, KidsOK
<1>5. \A x \in Procs : Ours(x)' <=> Ours(x)
  BY <1>1 DEF Ours, Alive
<1>6. Shrinks
  BY <1>1, <1>5 DEF Shrinks
<1>7. Recorded'
  <2>1. \A x \in Procs : Ours(x) => procs[x].acct \in Accounts
    BY ProcessFields DEF SupInv, TypeOK, Ours, Alive
  <2>2. \A x \in Procs : kids[u].child # x
    BY <1>1, Bounds DEF NoProc, Procs
  <2> QED BY <1>1, <1>3, <1>5, <2>1, <2>2 DEF SupInv, Recorded
<1>8. PassSettled' /\ Between'
  BY <1>1 DEF SupInv, PassSettled, Between
<1>9. jitter' \subseteq jitter \cap want' /\ jitter' \subseteq Accounts
  BY <1>1 DEF SupInv, TypeOK, StartsAreFree
<1>10. \A v \in jitter' : kids'[v].child \in {kids[v].child, NoProc}
  BY <1>1, <1>3, <1>9
<1> QED BY <1>1, <1>4, <1>6, <1>7, <1>8, <1>9, <1>10, ShrinkKeeps

(***************************************************************************)
(* The end of a supervisor and its successor.                              *)
(***************************************************************************)
LEMMA StoppingKeeps ==   \* everybody is stopped, by a signal or by itself
  ASSUME SupInv, sup # "down", sup' \in {"dying", "signalled"}, ProcsOK(procs'),
         faults' \in 0..MaxFaults, kids' = [u \in Accounts |-> NoKid],
         \A x \in Procs : procs'[x] # Dead =>
           /\ procs[x] # Dead /\ procs'[x].acct = procs[x].acct
           /\ procs'[x].orphan = procs[x].orphan
           /\ procs'[x].kill = "none" =>
                procs[x].kill = "none" /\ \A u \in Accounts : kids[u].child # x,
         UNCHANGED <<listed, asked, want, jitter, quick, silent>>
  PROVE  SupInv'
<1>1. TypeOK'
  BY DEF SupInv, TypeOK, ProcsOK
<1>2. \A x \in Procs : Ours(x) => procs[x].acct \in Accounts
  BY ProcessFields DEF SupInv, TypeOK, Ours, Alive
<1>3. Shrinks
  BY DEF Shrinks, Ours, Alive
<1>4. Recorded'
  BY <1>2 DEF SupInv, Recorded, Ours, Alive
<1>5. \A u \in Accounts : kids'[u].child = NoProc
  BY DEF NoKid
<1> QED BY <1>1, <1>3, <1>4, <1>5, QuietKeeps DEF Between

LEMMA NetWatchdogKeeps ==
  ASSUME SupInv, NetWatchdog
  PROVE  SupInv'
<1>1. /\ sup = "up" /\ DieCleanEffect(kids, procs) /\ ProcsOK(procs)
      /\ UNCHANGED <<listed, asked, want, jitter, quick, silent, faults>>
      /\ faults \in 0..MaxFaults
  BY DEF NetWatchdog, SupInv, TypeOK, ProcsOK
<1>2. /\ kids' = [u \in Accounts |-> NoKid] /\ ProcsOK(procs')
      /\ sup' \in {"signalled", "dying"}
      /\ \A x \in Procs : procs'[x] # Dead =>
           /\ procs[x] # Dead /\ procs'[x].acct = procs[x].acct
           /\ procs'[x].orphan = procs[x].orphan
           /\ procs'[x].kill = "none" =>
                procs[x].kill = "none" /\ \A u \in Accounts : kids[u].child # x
  BY <1>1, DieCleanFacts
<1> QED BY <1>1, <1>2, StoppingKeeps

LEMMA SignalKeeps ==
  ASSUME SupInv, Signal
  PROVE  SupInv'
<1>1. /\ sup # "down" /\ sup' = "signalled" /\ kids' = [u \in Accounts |-> NoKid]
      /\ procs' = Terminate(ChildrenOf(Tracked), "late") /\ ProcsOK(procs)
      /\ UNCHANGED <<listed, asked, want, jitter, quick, silent>>
  BY DEF Signal, SupInv, TypeOK, ProcsOK
<1>2. faults' \in 0..MaxFaults
  BY Bounds DEF Signal, SupInv, TypeOK
<1>3. /\ ProcsOK(procs')
      /\ \A x \in Procs : procs'[x] # Dead =>
           /\ procs[x] # Dead /\ procs'[x].acct = procs[x].acct
           /\ procs'[x].orphan = procs[x].orphan
           /\ procs'[x].kill = "none" => procs[x].kill = "none" /\ x \notin ChildrenOf(Tracked)
  BY <1>1, TerminateFacts
<1>4. ASSUME NEW x \in Procs, x \notin ChildrenOf(Tracked), NEW u \in Accounts
      PROVE  kids[u].child # x
  <2>1. CASE u \in Tracked
    BY <1>4, <2>1 DEF ChildrenOf
  <2>2. CASE u \notin Tracked
    <3>1. kids[u] = NoKid
      BY <2>2, KidFields DEF Tracked, SupInv, TypeOK
    <3> QED BY <3>1, Bounds DEF NoKid, NoProc, Procs
  <2> QED BY <2>1, <2>2
<1> QED BY <1>1, <1>2, <1>3, <1>4, StoppingKeeps

LEMMA ExitKeeps ==
  ASSUME SupInv, Exit
  PROVE  SupInv'
<1>1. /\ sup' = "down" /\ asked' = FALSE /\ want' = {} /\ jitter' = {}
      /\ kids' = [u \in Accounts |-> NoKid] /\ quick' = 0 /\ silent' = 0
      /\ procs' = [p \in Procs |-> IF Alive(p)
                                   THEN [procs[p] EXCEPT !.orphan = TRUE] ELSE Dead]
      /\ UNCHANGED <<listed, faults>>
  BY DEF Exit
<1>2. ASSUME NEW x \in Procs
      PROVE  procs'[x] \in {Dead} \cup Process /\ ~Ours(x)'
  <2>1. procs[x] = Dead \/ (procs[x] \in Process /\ Alive(x))
    BY ProcessFields DEF SupInv, TypeOK, Alive
  <2>2. procs'[x] = IF Alive(x) THEN [procs[x] EXCEPT !.orphan = TRUE] ELSE Dead
    BY <1>1
  <2>3. CASE procs[x] = Dead
    BY <2>2, <2>3 DEF Ours, Alive
  <2>4. CASE procs[x] \in Process /\ Alive(x)
    BY <2>2, <2>4, Orphaned DEF Ours
  <2> QED BY <2>1, <2>3, <2>4
<1>3. TypeOK'
  <2>1. ProcsOK(procs')
    BY <1>1, <1>2 DEF ProcsOK
  <2>2. 0 \in 0..QuickLimit /\ 0 \in 0..NetLimit + 1
    BY Bounds
  <2> QED BY <1>1, <2>1, <2>2 DEF SupInv, TypeOK, ProcsOK
<1> QED BY <1>1, <1>2, <1>3
        DEF SupInv, Recorded, PassSettled, StartsAreFree, NoTwins, Between

LEMMA BootKeeps ==
  ASSUME SupInv, Boot
  PROVE  SupInv'
BY DEF Boot, SupInv, TypeOK, Recorded, PassSettled, StartsAreFree, NoTwins, Between, Ours, Alive

LEMMA SupStep ==
  ASSUME SupInv, [Next]_vars
  PROVE  SupInv'
<1>1. CASE \E p \in Procs : \/ TermKills(p) \/ KillFires(p) \/ Crash(p) \/ Disconnected(p)
                            \/ SelfExit(p) \/ CycleOk(p) \/ Wedges(p) \/ Recovers(p)
  BY <1>1, BotKeeps
<1>2. CASE \E u \in Accounts : JitterFires(u)
  BY <1>2, JitterKeeps
<1>3. CASE \E u \in Accounts : SpawnFails(u)
  BY <1>3, SpawnFailsKeeps
<1>4. CASE (\E u \in Accounts : Relist(u)) \/ UNCHANGED vars
  BY <1>4 DEF Relist, vars, SupInv, TypeOK, Recorded, PassSettled, StartsAreFree, NoTwins,
              Between, Ours, Alive
<1>5. CASE Pass \/ NoRoster \/ Roster
  BY <1>5, PassKeeps, NoRosterKeeps, RosterKeeps
<1>6. CASE NetWatchdog \/ Signal \/ Exit \/ Boot
  BY <1>6, NetWatchdogKeeps, SignalKeeps, ExitKeeps, BootKeeps
<1> QED BY <1>1, <1>2, <1>3, <1>4, <1>5, <1>6 DEF Next

\* Under a running supervisor no two of its bots trade one account, whatever
\* the restarts, crashes, crash storms, lost rosters and failed spawns.
THEOREM OneBot == Spec => []OneBotPerAccount
<1>1. SupInv => OneBotPerAccount
  BY DEF SupInv, NoTwins, OneBotPerAccount, Ours
<1> QED BY <1>1, SupInit, SupStep, PTL DEF Spec

(***************************************************************************)
(* Refinement: every step of the supervisor is a step of RosterContract on *)
(* the last roster and the accounts whose record has a child, or stutters. *)
(***************************************************************************)
ContractStep == [Contract!Next]_<<want, Supervised>>

\* Bots are only lost, and the roster stays: an abstract Leave.
LEMMA LeaveStep ==
  ASSUME \A u \in Accounts : kids'[u].child \in {kids[u].child, NoProc}, want' = want
  PROVE  ContractStep
<1>1. Supervised' \subseteq Supervised
  BY DEF Supervised
<1> QED BY <1>1 DEF ContractStep, Contract!Next, Contract!Leave

LEMMA ExitsImplements ==
  ASSUME SupInv, NEW p \in Procs, NEW isQuick \in BOOLEAN, Exits(p, isQuick)
  PROVE  ContractStep
BY GoneFacts, LeaveStep DEF Exits

LEMMA BotImplements ==
  ASSUME SupInv, NEW p \in Procs,
         \/ TermKills(p) \/ KillFires(p) \/ Crash(p) \/ Disconnected(p)
         \/ SelfExit(p) \/ CycleOk(p) \/ Wedges(p) \/ Recovers(p)
  PROVE  ContractStep
<1>1. CASE TermKills(p) \/ KillFires(p) \/ Crash(p) \/ Disconnected(p) \/ SelfExit(p)
  <2>1. PICK q \in BOOLEAN : Exits(p, q)
    BY <1>1 DEF TermKills, KillFires, Crash, Disconnected, SelfExit
  <2> QED BY <2>1, ExitsImplements
<1>2. CASE CycleOk(p)
  <2> DEFINE u == procs[p].acct
  <2>1. kids' = [kids EXCEPT ![u] = [kids[u] EXCEPT !.ok = TRUE, !.since = 0]] /\ want' = want
    BY <1>2 DEF CycleOk
  <2>2. \A v \in Accounts : kids[v] \in {NoKid} \cup Kid /\ v \in DOMAIN kids
    BY DEF SupInv, TypeOK
  <2>3. [kids[u] EXCEPT !.ok = TRUE, !.since = 0].child = kids[u].child
    OBVIOUS
  <2> HIDE DEF u
  <2>4. \A v \in Accounts : kids'[v].child = kids[v].child
    BY <2>1, <2>2, <2>3
  <2> QED BY <2>1, <2>4, LeaveStep
<1>3. CASE Wedges(p) \/ Recovers(p)
  BY <1>3, LeaveStep DEF Wedges, Recovers
<1> QED BY <1>1, <1>2, <1>3

LEMMA RosterImplements ==
  ASSUME SupInv, Roster
  PROVE  ContractStep
<1>1. \A u \in Accounts : \/ /\ kids'[u].child = kids[u].child
                             /\ (kids[u].child # NoProc => u \in listed)
                          \/ /\ kids'[u].child = NoProc /\ u \notin listed
                             /\ kids[u].known = TRUE
  BY RosterFacts
<1>2. want' = listed /\ listed \subseteq Accounts
  BY DEF Roster, SupInv, TypeOK
<1>3. Supervised' \subseteq Supervised \cap want'
  BY <1>1, <1>2 DEF Supervised
<1> QED BY <1>2, <1>3 DEF ContractStep, Contract!Next, Contract!Answer

\* A start timer that fires is an abstract Start, of an account of the roster.
LEMMA StartStep ==
  ASSUME SupInv, NEW u \in jitter, NEW c \in Procs \cup {Ghost},
         kids' = [kids EXCEPT ![u] = NewKid(u, c)], want' = want
  PROVE  ContractStep
<1>1. u \in Accounts /\ u \in want /\ kids[u].child = NoProc
  BY DEF SupInv, TypeOK, StartsAreFree
<1>2. kids'[u].child = c /\ \A v \in Accounts : v # u => kids'[v] = kids[v]
  BY <1>1, RecordStarted
<1>3. c # NoProc
  BY Bounds DEF Procs, NoProc, Ghost
<1>4. u \in want \ Supervised /\ Supervised' = Supervised \cup {u}
  BY <1>1, <1>2, <1>3 DEF Supervised
<1> QED BY <1>4 DEF ContractStep, Contract!Next, Contract!Start

LEMMA JitterImplements ==
  ASSUME SupInv, NEW u \in Accounts, JitterFires(u) \/ SpawnFails(u)
  PROVE  ContractStep
<1>1. CASE JitterFires(u)
  <2>1. u \in jitter /\ kids[u].child = NoProc /\ want' = want
    BY <1>1 DEF JitterFires, SupInv, StartsAreFree
  <2>2. PICK p \in Procs : kids' = [kids EXCEPT ![u] = NewKid(u, p)]
    BY <1>1, <2>1 DEF JitterFires, Spawned
  <2> QED BY <2>1, <2>2, StartStep
<1>2. CASE SpawnFails(u)
  <2>1. /\ u \in jitter /\ want' = want
        /\ kids' = kids \/ kids' = [kids EXCEPT ![u] = NewKid(u, Ghost)]
    BY <1>2 DEF SpawnFails
  <2>2. CASE kids' = kids
    BY <2>1, <2>2, LeaveStep
  <2>3. CASE kids' = [kids EXCEPT ![u] = NewKid(u, Ghost)]
    BY <2>1, <2>3, StartStep
  <2> QED BY <2>1, <2>2, <2>3
<1> QED BY <1>1, <1>2

LEMMA EndImplements ==
  ASSUME SupInv, NetWatchdog \/ Signal \/ Exit \/ Boot
  PROVE  ContractStep
<1>1. CASE NetWatchdog \/ Signal \/ Exit
  <2>1. kids' = [u \in Accounts |-> NoKid]
    BY <1>1 DEF NetWatchdog, DieCleanEffect, Signal, Exit
  <2>2. \A u \in Accounts : kids'[u].child = NoProc
    BY <2>1 DEF NoKid
  <2>3. CASE want' = want
    BY <2>2, <2>3, LeaveStep
  <2>4. CASE want' # want
    <3>1. want' = {} /\ Supervised' = {}
      BY <1>1, <2>2, <2>4 DEF NetWatchdog, Signal, Exit, Supervised
    <3> QED BY <3>1 DEF ContractStep, Contract!Next, Contract!Restart
  <2> QED BY <2>3, <2>4
<1>2. CASE Boot
  BY <1>2, LeaveStep DEF Boot
<1> QED BY <1>1, <1>2

LEMMA StepImplements ==
  ASSUME SupInv, [Next]_vars
  PROVE  ContractStep
<1>1. CASE \E p \in Procs : \/ TermKills(p) \/ KillFires(p) \/ Crash(p) \/ Disconnected(p)
                            \/ SelfExit(p) \/ CycleOk(p) \/ Wedges(p) \/ Recovers(p)
  BY <1>1, BotImplements
<1>2. CASE \E u \in Accounts : JitterFires(u) \/ SpawnFails(u)
  BY <1>2, JitterImplements
<1>3. CASE (\E u \in Accounts : Relist(u)) \/ NoRoster \/ UNCHANGED vars
  BY <1>3, LeaveStep DEF Relist, NoRoster, vars
<1>4. CASE Pass
  <2>1. \A u \in Accounts : kids'[u].child = kids[u].child
    BY <1>4, AgedKid DEF Pass, SupInv, TypeOK
  <2> QED BY <1>4, <2>1, LeaveStep DEF Pass
<1>5. CASE Roster
  BY <1>5, RosterImplements
<1>6. CASE NetWatchdog \/ Signal \/ Exit \/ Boot
  BY <1>6, EndImplements
<1> QED BY <1>1, <1>2, <1>3, <1>4, <1>5, <1>6 DEF Next

LEMMA InitImplements == Init => Contract!Init
BY DEF Init, Contract!Init, Supervised, NoKid

\* The runner implements RosterContract: who is supervised comes only from
\* the last roster, and an answer ends at once whoever it does not list.
THEOREM RunnerFollowsRoster == Spec => FollowsRoster
<1>1. SupInv /\ [Next]_vars => [Contract!Next]_<<want, Supervised>>
  BY StepImplements DEF ContractStep
<1> QED BY <1>1, SupInit, SupStep, InitImplements, PTL DEF Spec, FollowsRoster, Contract!Spec

-----------------------------------------------------------------------------
(***************************************************************************)
(* The chain hub.  A block that is known to be missed is held back by a    *)
(* range nothing but its recovery removes: a refused one, or one that      *)
(* waits for a header that comes no more.                                  *)
(***************************************************************************)
\* The range r of the cursor c holds block k back; p: its header is past.
Covers(c, p, r, k) ==
  /\ Holds(r, k)
  /\ \/ r.why = "backfill refused"
     \/ r.why \in HeadWhys /\ k \notin c.seen /\ p

Barred(c, p, k) == \E r \in c.pending : Covers(c, p, r, k)

CursorOK(c) == c \in Cursors /\ \A k \in c.seen : k <= c.lastHead

Passed(k) == k < head /\ \A h \in wire.heads : k < h

EnvOK ==
  /\ head \in Blocks
  /\ sock \in {"wait", "connecting", "open", "dead"}
  /\ subs \in [logs : SubStates, heads : SubStates]
  /\ wire \in [logs : SUBSET Logs, heads : SUBSET Blocks]
  /\ drops \in 0..MaxDrops /\ fails \in 0..MaxOpenFails
  /\ \A h \in wire.heads : h <= head

\* A replay under way is inside the chain.
FillsOK(f) ==
  /\ f \in [Backfills -> [at : {"idle", "height", "chunk"}, from : 0..LastBlock, to : 0..LastBlock]]
  /\ \A s \in Backfills : f[s].at = "chunk" => 1 <= f[s].from /\ f[s].from <= f[s].to

MarksOK ==
  /\ lastBlock \in 0..LastBlock /\ closedThrough \in 0..LastBlock
  /\ got \subseteq Logs /\ base \in 0..LastBlock /\ known \subseteq Blocks

KnownHeld == \A k \in known : Complete(k) \/ Barred(cursor, Passed(k), k)

HubInv ==
  /\ EnvOK /\ CursorOK(cursor) /\ FillsOK(fill) /\ MarksOK
  /\ closedThrough > 0 => Complete(closedThrough)
  /\ KnownHeld

-----------------------------------------------------------------------------
Less == OpToRel(<, Nat)

LEMMA Smallest ==
  ASSUME NEW S, S \subseteq Nat, S # {}
  PROVE  Min(S) \in S /\ \A y \in S : Min(S) <= y
<1>1. IsWellFoundedOn(Less, Nat)
  BY NatLessThanWellFounded DEF Less
<1>2. PICK x \in S : \A y \in S : ~ (<<y, x>> \in Less)
  BY <1>1, WFMin, Zenon
<1>3. \A y \in S : x <= y
  <2> SUFFICES ASSUME NEW y \in S PROVE x <= y
    OBVIOUS
  <2>1. ~ (y < x)
    BY <1>2 DEF Less, OpToRel
  <2>2. x \in Nat /\ y \in Nat
    OBVIOUS
  <2> QED BY <2>1, <2>2
<1> QED BY <1>3 DEF Min

LEMMA Largest ==
  ASSUME NEW S, S \subseteq 0..LastBlock, S # {}
  PROVE  Max(S) \in S /\ Max(S) \in 0..LastBlock /\ \A y \in S : y <= Max(S)
<1>0. LastBlock \in Nat
  BY CursorAssumption
<1> DEFINE T == {LastBlock - x : x \in S}
<1>1. \A x \in S : x \in Int /\ LastBlock - x \in Nat
  BY <1>0
<1>2. T \subseteq Nat /\ T # {}
  BY <1>1
<1>3. Min(T) \in T /\ \A y \in S : Min(T) <= LastBlock - y
  BY <1>2, Smallest
<1>4. PICK x \in S : Min(T) = LastBlock - x
  BY <1>3
<1>5. \A y \in S : x >= y
  BY <1>0, <1>1, <1>3, <1>4
<1>6. Max(S) \in S /\ \A y \in S : Max(S) >= y
  BY <1>5 DEF Max
<1> QED BY <1>0, <1>1, <1>6

LEMMA CursorBounds ==
  /\ LastBlock \in Nat /\ LastBlock > 0 /\ HeadLag \in Nat
  /\ Blocks = 1..LastBlock /\ Forever = LastBlock + 1 /\ Forever \in Int
BY CursorAssumption DEF Blocks, Forever

LEMMA CursorFields ==
  ASSUME NEW c \in Cursors
  PROVE  /\ c.lastHead \in 0..LastBlock /\ c.connected \in BOOLEAN
         /\ c.pending \subseteq Ranges /\ c.seen \subseteq Blocks
         /\ c = [lastHead |-> c.lastHead, connected |-> c.connected,
                 pending |-> c.pending, seen |-> c.seen]
BY DEF Cursors

LEMMA RangeFields ==
  ASSUME NEW r \in Ranges
  PROVE  r.from \in Int /\ r.from >= 1 /\ r.from <= Forever
         /\ r.to \in Int /\ r.to >= 1 /\ r.to <= Forever /\ r.why \in Whys
BY CursorBounds DEF Ranges

LEMMA GapFacts ==
  ASSUME NEW a \in 1..Forever, NEW b \in 1..Forever, NEW w \in Whys
  PROVE  /\ Gap(a, b, w) \in Ranges /\ Gap(a, b, w).from = a /\ Gap(a, b, w).to = b
         /\ Gap(a, b, w).why = w
<1>1. a \in Blocks \cup {Forever} /\ b \in Blocks \cup {Forever}
  BY CursorBounds
<1> QED BY <1>1 DEF Gap, Ranges

\* Where the pending ranges become those of S that are not inverted.
LEMMA PendingFacts ==
  ASSUME NEW c \in Cursors, NEW S
  PROVE  /\ WithPending(c, S).pending = {r \in S : r.from <= r.to}
         /\ WithPending(c, S).lastHead = c.lastHead
         /\ WithPending(c, S).seen = c.seen
         /\ WithPending(c, S).connected = c.connected
         /\ S \subseteq Ranges => WithPending(c, S) \in Cursors
<1>1. WithPending(c, S) = [lastHead |-> c.lastHead, connected |-> c.connected,
                           pending |-> {r \in S : r.from <= r.to}, seen |-> c.seen]
  BY DEF WithPending, Cursors
<1> QED BY <1>1, CursorFields DEF Cursors

LEMMA WhysFacts ==
  /\ "head gap" \in HeadWhys /\ "log ahead of heads" \in HeadWhys
  /\ "head gap" \in Whys /\ "log ahead of heads" \in Whys /\ "reconnect" \in Whys
  /\ "backfill" \in Whys /\ "backfill refused" \in Whys
  /\ "reconnect" \notin HeadWhys /\ "backfill" \notin HeadWhys
BY DEF HeadWhys, Whys

\* A skipped stretch is a range of blocks above the head.
LEMMA SkippedFacts ==
  ASSUME NEW c, c.lastHead \in 0..LastBlock, NEW n \in Blocks, NEW w \in Whys
  PROVE  /\ Skipped(c, n, w) \subseteq Ranges
         /\ \A r \in Skipped(c, n, w) : r.why = w
         /\ c.lastHead > 0 => \A k \in c.lastHead + 1..n - 1 : \E r \in Skipped(c, n, w) :
                                Holds(r, k) /\ r.from <= r.to
<1>1. CASE c.lastHead > 0 /\ n > c.lastHead + 1
  <2>1. c.lastHead + 1 \in 1..Forever /\ n - 1 \in 1..Forever
    BY <1>1, CursorBounds
  <2> DEFINE g == Gap(c.lastHead + 1, n - 1, w)
  <2>2. g \in Ranges /\ g.from = c.lastHead + 1 /\ g.to = n - 1 /\ g.why = w
    BY <2>1, GapFacts
  <2>3. Skipped(c, n, w) = {g}
    BY <1>1 DEF Skipped
  <2> HIDE DEF g
  <2> QED BY <1>1, <2>1, <2>2, <2>3 DEF Holds
<1>2. CASE ~ (c.lastHead > 0 /\ n > c.lastHead + 1)
  <2>1. Skipped(c, n, w) = {}
    BY <1>2 DEF Skipped
  <2> QED BY <1>2, <2>1, CursorBounds
<1> QED BY <1>1, <1>2

-----------------------------------------------------------------------------
\* What the methods of the cursor keep: its type, and the ranges that hold a
\* block back, as long as the block is not theirs to clear.
LEMMA BarKept ==
  ASSUME NEW c, NEW e, NEW k, NEW p, Barred(c, p, k),
         \A r \in c.pending : Covers(c, p, r, k) =>
            \E q \in e.pending : Holds(q, k) /\ q.why = r.why,
         p /\ k \in e.seen => k \in c.seen
  PROVE  Barred(e, p, k)
<1>1. PICK r \in c.pending : Covers(c, p, r, k)
  BY DEF Barred
<1>2. PICK q \in e.pending : Holds(q, k) /\ q.why = r.why
  BY <1>1
<1>3. Covers(e, p, q, k)
  BY <1>1, <1>2 DEF Covers
<1> QED BY <1>2, <1>3 DEF Barred

LEMMA HeldIsRange ==
  ASSUME NEW r \in Ranges, NEW k \in Blocks, Holds(r, k)
  PROVE  r.from <= r.to /\ k \in r.from..r.to
BY RangeFields, CursorBounds DEF Holds

LEMMA HeadFacts ==
  ASSUME NEW c, CursorOK(c), NEW n \in Blocks
  PROVE  /\ CursorOK(OnHead(c, n))
         /\ \A k \in Blocks, p \in BOOLEAN :
              (p => k # n) /\ Barred(c, p, k) => Barred(OnHead(c, n), p, k)
         /\ c.lastHead > 0 => \A k \in c.lastHead + 1..n - 1 : Barred(OnHead(c, n), TRUE, k)
<1> DEFINE d == [c EXCEPT !.lastHead = Upper(c.lastHead, n), !.seen = @ \cup {n}]
           skip == Skipped(c, n, "head gap")
           all == c.pending \cup skip
           kept == HeadResolved(all, c.seen \cup {n})
           e == OnHead(c, n)
<1>1. c \in Cursors /\ c.lastHead \in 0..LastBlock /\ c.seen \subseteq Blocks
      /\ c.pending \subseteq Ranges /\ n \in 1..LastBlock /\ \A k \in c.seen : k <= c.lastHead
  BY CursorFields, CursorBounds DEF CursorOK
<1>2. Upper(c.lastHead, n) \in 0..LastBlock /\ Upper(c.lastHead, n) >= n
      /\ Upper(c.lastHead, n) >= c.lastHead
  BY <1>1, CursorBounds DEF Upper
<1>3. d \in Cursors /\ d.lastHead = Upper(c.lastHead, n) /\ d.seen = c.seen \cup {n}
  BY <1>1, <1>2 DEF Cursors
<1>4. skip \subseteq Ranges /\ (\A r \in skip : r.why = "head gap")
      /\ (c.lastHead > 0 => \A k \in c.lastHead + 1..n - 1 : \E r \in skip :
                                Holds(r, k) /\ r.from <= r.to)
  BY <1>1, SkippedFacts, WhysFacts
<1>5. e = WithPending(d, kept)
  BY DEF OnHead
<1> HIDE DEF skip, d, e
<1>6. kept \subseteq Ranges
  BY <1>1, <1>4 DEF HeadResolved
<1> HIDE DEF kept
<1>7. e \in Cursors /\ e.lastHead = Upper(c.lastHead, n) /\ e.seen = c.seen \cup {n}
      /\ e.pending = {r \in kept : r.from <= r.to}
  BY <1>3, <1>5, <1>6, PendingFacts
<1>8. CursorOK(e)
  <2>1. \A k \in c.seen : k \in Int /\ k <= c.lastHead
    BY <1>1, CursorBounds
  <2> QED BY <1>1, <1>2, <1>7, <2>1, CursorBounds DEF CursorOK
<1>9. ASSUME NEW r \in all, NEW k \in Blocks, Holds(r, k),
             r.why \in HeadWhys => k \notin c.seen /\ k # n
      PROVE  r \in e.pending
  <2>1. r \in Ranges /\ r.from <= r.to /\ k \in r.from..r.to
    BY <1>1, <1>4, <1>9, HeldIsRange
  <2>2. r \in kept
    BY <1>9, <2>1 DEF kept, HeadResolved
  <2> QED BY <1>7, <2>1, <2>2
<1>10. ASSUME NEW k \in Blocks, NEW p \in BOOLEAN, p => k # n, Barred(c, p, k)
       PROVE  Barred(e, p, k)
  <2>1. ASSUME NEW r \in c.pending, Covers(c, p, r, k)
        PROVE  Holds(r, k) /\ (r.why \in HeadWhys => k \notin c.seen /\ k # n)
    BY <1>10, <2>1, WhysFacts DEF Covers, HeadWhys
  <2>2. \A r \in c.pending : Covers(c, p, r, k) => r \in e.pending /\ Holds(r, k)
    BY <1>9, <2>1
  <2>3. p /\ k \in e.seen => k \in c.seen
    BY <1>7, <1>10
  <2> QED BY <1>10, <2>2, <2>3, BarKept
<1>11. ASSUME c.lastHead > 0, NEW k \in c.lastHead + 1..n - 1 PROVE Barred(e, TRUE, k)
  <2>1. k \in Blocks /\ k # n /\ k \notin c.seen
    BY <1>1, <1>11, CursorBounds
  <2>2. PICK r \in skip : Holds(r, k) /\ r.why = "head gap"
    BY <1>4, <1>11
  <2>3. r \in e.pending
    BY <1>9, <2>1, <2>2
  <2>4. k \notin e.seen
    BY <1>7, <2>1
  <2> QED BY <2>2, <2>3, <2>4, WhysFacts DEF Barred, Covers
<1> QED BY <1>8, <1>10, <1>11 DEF e

\* A log raises the head over what it skips; so do the logs of a replay.
LEMMA LogsFacts ==
  ASSUME NEW c, CursorOK(c), NEW S, S \subseteq Blocks
  PROVE  /\ CursorOK(OnLogs(c, S))
         /\ \A k \in Blocks, p \in BOOLEAN : Barred(c, p, k) => Barred(OnLogs(c, S), p, k)
<1> DEFINE top(n) == Max({c.lastHead} \cup {k \in S : k < n})
           d == [c EXCEPT !.lastHead = Max({c.lastHead} \cup S)]
           gaps(n) == Skipped([c EXCEPT !.lastHead = top(n)], n, "log ahead of heads")
           all == c.pending \cup UNION {gaps(n) : n \in S}
           e == OnLogs(c, S)
<1>1. c \in Cursors /\ c.lastHead \in 0..LastBlock /\ c.seen \subseteq Blocks
      /\ c.pending \subseteq Ranges /\ S \subseteq Blocks /\ \A k \in c.seen : k <= c.lastHead
  BY CursorFields DEF CursorOK
<1>0. \A n \in S : n \in 0..LastBlock
  BY CursorBounds
<1>2. Max({c.lastHead} \cup S) \in 0..LastBlock /\ c.lastHead <= Max({c.lastHead} \cup S)
  <2> DEFINE T == {c.lastHead} \cup S
  <2>1. T \subseteq 0..LastBlock /\ T # {} /\ c.lastHead \in T
    BY <1>0, <1>1
  <2> HIDE DEF T
  <2>2. Max(T) \in 0..LastBlock /\ c.lastHead <= Max(T)
    BY <2>1, Largest
  <2> QED BY <2>2 DEF T
<1>3. d \in Cursors /\ d.lastHead = Max({c.lastHead} \cup S) /\ d.seen = c.seen
  BY <1>1, <1>2 DEF Cursors
<1>4. ASSUME NEW n \in S PROVE gaps(n) \subseteq Ranges
  <2>1. top(n) \in 0..LastBlock
    <3> DEFINE T == {c.lastHead} \cup {k \in S : k < n}
    <3>1. T \subseteq 0..LastBlock /\ T # {}
      BY <1>0, <1>1
    <3> HIDE DEF T
    <3>2. Max(T) \in 0..LastBlock
      BY <3>1, Largest
    <3> QED BY <3>2 DEF T
  <2> HIDE DEF top
  <2> DEFINE at == [c EXCEPT !.lastHead = top(n)]
  <2>2. at.lastHead \in 0..LastBlock
    BY <1>1, <2>1 DEF Cursors
  <2>3. n \in Blocks /\ "log ahead of heads" \in Whys
    BY WhysFacts
  <2> HIDE DEF at
  <2>4. Skipped(at, n, "log ahead of heads") \subseteq Ranges
    BY <2>2, <2>3, SkippedFacts
  <2> QED BY <2>4 DEF at
<1>5. e = WithPending(d, all)
  BY <1>1, CursorFields DEF OnLogs
<1> HIDE DEF gaps, d, e
<1>6. all \subseteq Ranges
  BY <1>1, <1>4
<1>7. e \in Cursors /\ e.lastHead = Max({c.lastHead} \cup S) /\ e.seen = c.seen
      /\ e.pending = {r \in all : r.from <= r.to}
  BY <1>3, <1>5, <1>6, PendingFacts
<1>8. CursorOK(e)
  BY <1>1, <1>2, <1>7, CursorBounds DEF CursorOK
<1>9. ASSUME NEW k \in Blocks, NEW p \in BOOLEAN, Barred(c, p, k) PROVE Barred(e, p, k)
  <2>1. \A r \in c.pending : Holds(r, k) => r \in e.pending
    BY <1>1, <1>7, HeldIsRange
  <2> QED BY <1>7, <1>9, <2>1, BarKept DEF Covers
<1> QED BY <1>8, <1>9 DEF e

LEMMA LogFacts ==
  ASSUME NEW c, CursorOK(c), NEW n \in Blocks
  PROVE  /\ CursorOK(OnLog(c, n))
         /\ \A k \in Blocks, p \in BOOLEAN : Barred(c, p, k) => Barred(OnLog(c, n), p, k)
<1> DEFINE d == [c EXCEPT !.lastHead = Upper(c.lastHead, n)]
           all == c.pending \cup Skipped(c, n, "log ahead of heads")
           e == OnLog(c, n)
<1>1. c \in Cursors /\ c.lastHead \in 0..LastBlock /\ c.seen \subseteq Blocks
      /\ c.pending \subseteq Ranges /\ n \in 1..LastBlock /\ \A k \in c.seen : k <= c.lastHead
  BY CursorFields, CursorBounds DEF CursorOK
<1>2. Upper(c.lastHead, n) \in 0..LastBlock /\ c.lastHead <= Upper(c.lastHead, n)
  BY <1>1, CursorBounds DEF Upper
<1>3. d \in Cursors /\ d.lastHead = Upper(c.lastHead, n) /\ d.seen = c.seen
  BY <1>1, <1>2 DEF Cursors
<1>4. all \subseteq Ranges
  BY <1>1, SkippedFacts, WhysFacts
<1>5. e = WithPending(d, all)
  BY DEF OnLog
<1> HIDE DEF d, all, e
<1>6. e \in Cursors /\ e.lastHead = Upper(c.lastHead, n) /\ e.seen = c.seen
      /\ e.pending = {r \in all : r.from <= r.to}
  BY <1>3, <1>4, <1>5, PendingFacts
<1>7. CursorOK(e)
  BY <1>1, <1>2, <1>6, CursorBounds DEF CursorOK
<1>8. ASSUME NEW k \in Blocks, NEW p \in BOOLEAN, Barred(c, p, k) PROVE Barred(e, p, k)
  <2>1. \A r \in c.pending : Holds(r, k) => r \in e.pending
    BY <1>1, <1>6, HeldIsRange DEF all
  <2> QED BY <1>6, <1>8, <2>1, BarKept DEF Covers
<1> QED BY <1>7, <1>8 DEF e

LEMMA ConnectFacts ==
  ASSUME NEW c, CursorOK(c), NEW from \in 0..LastBlock
  PROVE  /\ CursorOK(OnReconnect(c, from)) /\ CursorOK(OnDisconnect(c))
         /\ \A k \in Blocks, p \in BOOLEAN :
              Barred(c, p, k) => Barred(OnReconnect(c, from), p, k) /\ Barred(OnDisconnect(c), p, k)
<1>1. c \in Cursors /\ c.lastHead \in 0..LastBlock /\ c.seen \subseteq Blocks
      /\ c.pending \subseteq Ranges /\ \A k \in c.seen : k <= c.lastHead
  BY CursorFields, CursorBounds DEF CursorOK
<1>2. OnDisconnect(c) \in Cursors /\ OnDisconnect(c).lastHead = c.lastHead
      /\ OnDisconnect(c).seen = c.seen /\ OnDisconnect(c).pending = c.pending
  BY <1>1 DEF OnDisconnect, Cursors
<1> DEFINE d == [c EXCEPT !.connected = TRUE]
           next == c.lastHead + 1
           start == IF from > 0 /\ from < next THEN from ELSE next
           open == c.lastHead > 0 /\ \A r \in c.pending : r.why # "reconnect"
           all == c.pending \cup (IF open THEN {Gap(start, Forever, "reconnect")} ELSE {})
           e == OnReconnect(c, from)
<1>3. d \in Cursors /\ d.lastHead = c.lastHead /\ d.seen = c.seen
  BY <1>1 DEF Cursors
<1>4. all \subseteq Ranges
  <2>1. start \in 1..Forever /\ Forever \in 1..Forever
    BY <1>1, CursorBounds
  <2> HIDE DEF start
  <2>2. Gap(start, Forever, "reconnect") \in Ranges
    BY <2>1, GapFacts, WhysFacts
  <2> QED BY <1>1, <2>2
<1>5. e = WithPending(d, all)
  BY DEF OnReconnect
<1> HIDE DEF d, all, e
<1>6. e \in Cursors /\ e.lastHead = c.lastHead /\ e.seen = c.seen
      /\ e.pending = {r \in all : r.from <= r.to}
  BY <1>3, <1>4, <1>5, PendingFacts
<1>7. ASSUME NEW k \in Blocks, NEW p \in BOOLEAN, Barred(c, p, k)
      PROVE  Barred(e, p, k) /\ Barred(OnDisconnect(c), p, k)
  <2>1. \A r \in c.pending : Holds(r, k) => r \in e.pending
    BY <1>1, <1>6, HeldIsRange DEF all
  <2>2. Barred(e, p, k)
    BY <1>6, <1>7, <2>1, BarKept DEF Covers
  <2>3. Barred(OnDisconnect(c), p, k)
    BY <1>2, <1>7, BarKept DEF Covers
  <2> QED BY <2>2, <2>3
<1>8. CursorOK(e) /\ CursorOK(OnDisconnect(c))
  BY <1>1, <1>2, <1>6 DEF CursorOK
<1> QED BY <1>7, <1>8 DEF e

LEMMA BackfillStartFacts ==
  ASSUME NEW c, CursorOK(c), NEW a \in Blocks, NEW b \in Blocks
  PROVE  /\ CursorOK(OnBackfillStart(c, a, b))
         /\ \A k \in Blocks, p \in BOOLEAN :
              Barred(c, p, k) => Barred(OnBackfillStart(c, a, b), p, k)
<1>1. c \in Cursors /\ c.seen \subseteq Blocks /\ c.pending \subseteq Ranges
      /\ \A k \in c.seen : k <= c.lastHead
  BY CursorFields DEF CursorOK
<1> DEFINE all == {r \in c.pending : r.why # "reconnect"} \cup {Gap(a, b, "backfill")}
           e == OnBackfillStart(c, a, b)
<1>2. all \subseteq Ranges
  <2>1. a \in 1..Forever /\ b \in 1..Forever
    BY CursorBounds
  <2>2. Gap(a, b, "backfill") \in Ranges
    BY <2>1, GapFacts, WhysFacts
  <2> QED BY <1>1, <2>2
<1>3. e = WithPending(c, all)
  BY DEF OnBackfillStart
<1> HIDE DEF all, e
<1>4. e \in Cursors /\ e.lastHead = c.lastHead /\ e.seen = c.seen
      /\ e.pending = {r \in all : r.from <= r.to}
  BY <1>1, <1>2, <1>3, PendingFacts
<1>5. ASSUME NEW k \in Blocks, NEW p \in BOOLEAN, Barred(c, p, k) PROVE Barred(e, p, k)
  <2>1. \A r \in c.pending : Covers(c, p, r, k) => r.why # "reconnect" /\ Holds(r, k)
    BY WhysFacts DEF Covers
  <2>2. \A r \in c.pending : Covers(c, p, r, k) => r \in e.pending /\ Holds(r, k)
    BY <1>1, <1>4, <2>1, HeldIsRange DEF all
  <2> QED BY <1>4, <1>5, <2>2, BarKept
<1>6. CursorOK(e)
  BY <1>1, <1>4 DEF CursorOK
<1> QED BY <1>5, <1>6 DEF e

\* A chunk that succeeded clears what is inside it; a refused one is barred.
LEMMA BackfillOkFacts ==
  ASSUME NEW c, CursorOK(c), NEW a \in Blocks, NEW b \in Blocks
  PROVE  /\ CursorOK(OnBackfillDone(c, a, b, TRUE))
         /\ \A k \in Blocks \ (a..b), p \in BOOLEAN :
              Barred(c, p, k) => Barred(OnBackfillDone(c, a, b, TRUE), p, k)
<1>1. c \in Cursors /\ c.lastHead \in 0..LastBlock /\ c.seen \subseteq Blocks
      /\ c.pending \subseteq Ranges /\ (\A k \in c.seen : k <= c.lastHead)
      /\ a \in 1..LastBlock /\ b \in 1..LastBlock /\ c.lastHead \in Int
  BY CursorFields, CursorBounds DEF CursorOK
<1> DEFINE d == [c EXCEPT !.lastHead = Upper(c.lastHead, b), !.seen = @ \cup a..b]
           rest == c.pending \ {Gap(a, b, "backfill")}
           all == {r \in rest : ~ Within(r, a, b)}
           e == OnBackfillDone(c, a, b, TRUE)
<1>2. Upper(c.lastHead, b) \in 0..LastBlock /\ c.lastHead <= Upper(c.lastHead, b)
      /\ b <= Upper(c.lastHead, b)
  BY <1>1, CursorBounds DEF Upper
<1>3. c.seen \cup a..b \subseteq Blocks
  BY <1>1, CursorBounds
<1>4. d \in Cursors /\ d.lastHead = Upper(c.lastHead, b) /\ d.seen = c.seen \cup a..b
  BY <1>1, <1>2, <1>3 DEF Cursors
<1>5. e = WithPending(d, all)
  BY DEF OnBackfillDone
<1>6. all \subseteq Ranges
  BY <1>1
<1> HIDE DEF d, all, e
<1>7. e \in Cursors /\ e.lastHead = Upper(c.lastHead, b) /\ e.seen = c.seen \cup a..b
      /\ e.pending = {r \in all : r.from <= r.to}
  BY <1>4, <1>5, <1>6, PendingFacts
<1>8. CursorOK(e)
  <2>1. \A k \in a..b : k <= b /\ k \in Int
    BY <1>1
  <2>2. \A k \in c.seen : k \in Int
    BY <1>1, CursorBounds
  <2> QED BY <1>1, <1>2, <1>7, <2>1, <2>2 DEF CursorOK
<1>9. ASSUME NEW k \in Blocks \ (a..b), NEW p \in BOOLEAN, Barred(c, p, k) PROVE Barred(e, p, k)
  <2>1. ASSUME NEW r \in c.pending, Covers(c, p, r, k) PROVE r \in e.pending /\ Holds(r, k)
    <3>1. r \in Ranges /\ r.from <= r.to /\ k \in r.from..r.to /\ r.why # "backfill"
      BY <1>1, <2>1, HeldIsRange, WhysFacts DEF Covers
    <3>2. r # Gap(a, b, "backfill")
      BY <3>1 DEF Gap
    <3>3. ~ Within(r, a, b)
      BY <1>1, <1>9, <3>1, RangeFields DEF Within
    <3> QED BY <1>7, <2>1, <3>1, <3>2, <3>3 DEF all, Covers
  <2>2. p /\ k \in e.seen => k \in c.seen
    BY <1>7, <1>9
  <2> QED BY <1>9, <2>1, <2>2, BarKept
<1> QED BY <1>8, <1>9 DEF e

LEMMA BackfillRefusedFacts ==
  ASSUME NEW c, CursorOK(c), NEW a \in Blocks, NEW b \in Blocks
  PROVE  /\ CursorOK(OnBackfillDone(c, a, b, FALSE))
         /\ \A k \in Blocks, p \in BOOLEAN :
              Barred(c, p, k) \/ k \in a..b => Barred(OnBackfillDone(c, a, b, FALSE), p, k)
<1>1. c \in Cursors /\ c.seen \subseteq Blocks /\ c.pending \subseteq Ranges
      /\ (\A k \in c.seen : k <= c.lastHead) /\ a \in 1..LastBlock /\ b \in 1..LastBlock
  BY CursorFields, CursorBounds DEF CursorOK
<1> DEFINE g == Gap(a, b, "backfill refused")
           all == (c.pending \ {Gap(a, b, "backfill")}) \cup {g}
           e == OnBackfillDone(c, a, b, FALSE)
<1>2. g \in Ranges /\ g.from = a /\ g.to = b /\ g.why = "backfill refused"
  <2>1. a \in 1..Forever /\ b \in 1..Forever
    BY CursorBounds
  <2>2. "backfill refused" \in Whys
    BY WhysFacts
  <2>3. g \in Ranges
    BY <2>1, <2>2, GapFacts
  <2> QED BY <2>3 DEF Gap
<1>3. all \subseteq Ranges
  BY <1>1, <1>2
<1>4. e = WithPending(c, all)
  BY DEF OnBackfillDone
<1> HIDE DEF g, all, e
<1>5. e \in Cursors /\ e.lastHead = c.lastHead /\ e.seen = c.seen
      /\ e.pending = {r \in all : r.from <= r.to}
  BY <1>1, <1>3, <1>4, PendingFacts
<1>6. CursorOK(e)
  BY <1>1, <1>5 DEF CursorOK
<1>7. ASSUME NEW k \in Blocks, NEW p \in BOOLEAN, Barred(c, p, k) PROVE Barred(e, p, k)
  <2>1. ASSUME NEW r \in c.pending, Covers(c, p, r, k) PROVE r \in e.pending /\ Holds(r, k)
    <3>1. r \in Ranges /\ r.from <= r.to /\ r.why # "backfill" /\ Holds(r, k)
      BY <1>1, <2>1, HeldIsRange, WhysFacts DEF Covers
    <3>2. r # Gap(a, b, "backfill")
      BY <3>1 DEF Gap
    <3> QED BY <1>5, <2>1, <3>1, <3>2 DEF all
  <2> QED BY <1>5, <1>7, <2>1, BarKept
<1>8. ASSUME NEW k \in a..b, NEW p \in BOOLEAN PROVE Barred(e, p, k)
  <2>1. a \in Int /\ b \in Int /\ a <= k /\ k <= b /\ a <= b
    BY <1>1
  <2>2. g \in e.pending /\ Holds(g, k)
    BY <1>2, <1>5, <2>1 DEF all, Holds
  <2> QED BY <1>2, <2>2 DEF Barred, Covers
<1> QED BY <1>6, <1>7, <1>8 DEF e

\* One block reconciled: the others of a range stay pending.
LEMMA ResolveFacts ==
  ASSUME NEW c, CursorOK(c), NEW n \in Blocks
  PROVE  /\ CursorOK(Resolve(c, n, n))
         /\ \A k \in Blocks \ {n}, p \in BOOLEAN : Barred(c, p, k) => Barred(Resolve(c, n, n), p, k)
<1>1. c \in Cursors /\ c.seen \subseteq Blocks /\ c.pending \subseteq Ranges
      /\ (\A k \in c.seen : k <= c.lastHead) /\ n \in 1..LastBlock
  BY CursorFields, CursorBounds DEF CursorOK
<1> DEFINE away == {r \in c.pending : r.to < n \/ n < r.from}
           low(r) == [r EXCEPT !.to = n - 1]
           high(r) == [r EXCEPT !.from = n + 1]
           lows == {low(r) : r \in {q \in c.pending : q.from < n /\ n <= q.to}}
           highs == {high(r) : r \in {q \in c.pending : n < q.to /\ q.from <= n}}
           all == away \cup lows \cup highs
           e == Resolve(c, n, n)
<1>2. ASSUME NEW r \in c.pending
      PROVE  /\ r.from < n => low(r) \in Ranges /\ low(r).from = r.from /\ low(r).to = n - 1
                              /\ low(r).why = r.why
             /\ n < r.to => high(r) \in Ranges /\ high(r).from = n + 1 /\ high(r).to = r.to
                            /\ high(r).why = r.why
  <2>1. r \in Ranges /\ r.from \in Int /\ r.from >= 1 /\ r.to \in Int /\ r.to <= Forever
    BY <1>1, RangeFields
  <2>2. (r.from < n => n - 1 \in Blocks) /\ (n < r.to => n + 1 \in Blocks \cup {Forever})
    BY <1>1, <2>1, CursorBounds
  <2> QED BY <2>1, <2>2 DEF Ranges
<1>3. e = WithPending(c, all)
  BY DEF Resolve
<1> HIDE DEF low, high, e
<1>4. all \subseteq Ranges
  BY <1>1, <1>2
<1>5. e \in Cursors /\ e.lastHead = c.lastHead /\ e.seen = c.seen
      /\ e.pending = {r \in all : r.from <= r.to}
  BY <1>1, <1>3, <1>4, PendingFacts
<1>6. CursorOK(e)
  BY <1>1, <1>5 DEF CursorOK
<1>7. ASSUME NEW k \in Blocks \ {n}, NEW p \in BOOLEAN, Barred(c, p, k) PROVE Barred(e, p, k)
  <2>0. k \in Int /\ n \in Int
    BY <1>1, <1>7, CursorBounds
  <2>1. ASSUME NEW r \in c.pending, Covers(c, p, r, k)
        PROVE  \E q \in e.pending : Holds(q, k) /\ q.why = r.why
    <3>1. r \in Ranges /\ r.from \in Int /\ r.to \in Int /\ r.from <= k /\ k <= r.to
      BY <1>1, <1>7, <2>1, RangeFields DEF Covers, Holds
    <3>2. CASE r \in away
      <4>1. r \in e.pending
        BY <1>5, <2>0, <3>1, <3>2
      <4> QED BY <3>1, <4>1 DEF Holds
    <3>3. CASE r.from <= n /\ n <= r.to /\ k < n
      <4>1. r.from < n /\ low(r) \in lows
        BY <2>0, <3>1, <3>3
      <4>2. low(r).from <= k /\ k <= low(r).to /\ low(r).from <= low(r).to /\ low(r).why = r.why
        BY <1>2, <2>0, <3>1, <3>3, <4>1
      <4> QED BY <1>5, <4>1, <4>2 DEF Holds
    <3>4. CASE r.from <= n /\ n <= r.to /\ n < k
      <4>1. n < r.to /\ high(r) \in highs
        BY <2>0, <3>1, <3>4
      <4>2. high(r).from <= k /\ k <= high(r).to /\ high(r).from <= high(r).to /\ high(r).why = r.why
        BY <1>2, <2>0, <3>1, <3>4, <4>1
      <4> QED BY <1>5, <4>1, <4>2 DEF Holds
    <3> QED BY <1>7, <2>0, <3>1, <3>2, <3>3, <3>4
  <2> QED BY <1>5, <1>7, <2>1, BarKept
<1> QED BY <1>6, <1>7 DEF e

\* Nothing at or above a pending range is sealable.
LEMMA BarredNotSealable ==
  ASSUME NEW c, CursorOK(c), NEW k \in Blocks, NEW p, Barred(c, p, k)
  PROVE  ~ (k <= Sealable(c))
<1>1. c.pending \subseteq Ranges /\ c.lastHead \in 0..LastBlock /\ k \in Int /\ k >= 1
  BY CursorFields, CursorBounds DEF CursorOK
<1>2. PICK r \in c.pending : Holds(r, k)
  BY DEF Barred, Covers
<1> DEFINE S == {c.lastHead} \cup {q.from - 1 : q \in c.pending}
<1>3. S \subseteq Nat
  BY <1>1, RangeFields, CursorBounds
<1>4. r.from - 1 \in S /\ r.from - 1 < k /\ r.from \in Int
  BY <1>1, <1>2, RangeFields DEF Holds
<1> HIDE DEF S
<1>5. Min(S) \in Nat /\ Min(S) <= r.from - 1
  BY <1>3, <1>4, Smallest
<1>6. Sealable(c) = 0 \/ Sealable(c) = Upper(0, Min(S) - HeadLag)
  BY DEF Sealable, S
<1> QED BY <1>1, <1>4, <1>5, <1>6, CursorBounds DEF Upper

-----------------------------------------------------------------------------
\* The environment's part of every step.
LEMMA HubBounds ==
  /\ Chunk \in Nat /\ Chunk > 0 /\ MaxGap \in Nat /\ HeightLag \in Nat
  /\ MaxDrops \in Nat /\ MaxOpenFails \in Nat
BY HubAssumption

LEMMA LogFields ==
  /\ \A n \in Blocks : LogsOf(n) \subseteq Logs
  /\ \A l \in Logs : l[1] \in Blocks
BY DEF Logs, LogsOf

LEMMA WireFields ==
  ASSUME EnvOK
  PROVE  /\ wire.logs \subseteq Logs /\ wire.heads \subseteq Blocks
         /\ wire = [logs |-> wire.logs, heads |-> wire.heads]
         /\ subs.logs \in SubStates /\ subs.heads \in SubStates
         /\ subs = [logs |-> subs.logs, heads |-> subs.heads]
         /\ head \in 1..LastBlock
BY CursorBounds DEF EnvOK

\* What changes on the wire: no header comes back, none is ahead of the chain.
LEMMA WireStep ==
  ASSUME EnvOK, head' \in Blocks, head <= head',
         wire' = [logs |-> wire'.logs, heads |-> wire'.heads],
         wire'.logs \subseteq Logs, wire'.heads \subseteq Blocks,
         \A h \in wire'.heads : h <= head' /\ (h \in wire.heads \/ head <= h),
         subs' \in [logs : SubStates, heads : SubStates],
         sock' \in {"wait", "connecting", "open", "dead"},
         drops' \in 0..MaxDrops, fails' \in 0..MaxOpenFails
  PROVE  EnvOK' /\ \A k \in Blocks : Passed(k) => Passed(k)'
<1>1. EnvOK'
  BY DEF EnvOK
<1>2. ASSUME NEW k \in Blocks, Passed(k) PROVE Passed(k)'
  BY <1>2, CursorBounds DEF Passed, EnvOK
<1> QED BY <1>1, <1>2

LEMMA EnvStays ==
  ASSUME EnvOK, UNCHANGED <<env, conn>>
  PROVE  EnvOK' /\ \A k \in Blocks : Passed(k) => Passed(k)'
BY DEF EnvOK, Passed, env, conn

\* A block that was held stays held, by its logs or by its range.
LEMMA HeldStays ==
  ASSUME NEW k \in Blocks, got \subseteq got', Passed(k) => Passed(k)',
         \A p \in BOOLEAN : Barred(cursor, p, k) => Complete(k)' \/ Barred(cursor', p, k),
         Complete(k) \/ Barred(cursor, Passed(k), k)
  PROVE  Complete(k)' \/ Barred(cursor', Passed(k)', k)
<1>1. CASE Complete(k)
  BY <1>1 DEF Complete, LogsOf
<1>2. CASE Barred(cursor, Passed(k), k)
  <2>1. Passed(k) \in BOOLEAN
    BY DEF Passed
  <2>2. Complete(k)' \/ Barred(cursor', Passed(k), k)
    BY <1>2, <2>1
  <2>3. Barred(cursor', Passed(k), k) => Barred(cursor', Passed(k)', k)
    BY DEF Barred, Covers
  <2> QED BY <2>2, <2>3
<1> QED BY <1>1, <1>2

\* The steps that leave the hub's own state alone.
LEMMA EnvKeeps ==
  ASSUME HubInv, EnvOK', \A k \in Blocks : Passed(k) => Passed(k)',
         UNCHANGED <<cursor, lastBlock, closedThrough, fill, got, base, known>>
  PROVE  HubInv'
<1>1. \A k \in known : k \in Blocks
  BY DEF HubInv, MarksOK
<1>2. \A k \in known : Complete(k)' \/ Barred(cursor', Passed(k)', k)
  BY <1>1, HeldStays DEF HubInv, KnownHeld
<1>3. MarksOK' /\ (closedThrough' > 0 => Complete(closedThrough)')
  BY DEF HubInv, MarksOK, Complete
<1> QED BY <1>2, <1>3 DEF HubInv, KnownHeld

LEMMA MineKeeps == ASSUME HubInv, Mine PROVE HubInv'
<1>1. EnvOK /\ head \in 1..LastBlock /\ head < LastBlock /\ head' = head + 1
      /\ UNCHANGED <<sock, subs, drops, fails>>
  BY WireFields DEF HubInv, Mine, conn
<1>2. head' \in Blocks /\ head <= head'
  BY <1>1, CursorBounds
<1>3. wire' = [logs  |-> IF Streaming(subs.logs) THEN wire.logs \cup LogsOf(head') ELSE {},
               heads |-> IF Streaming(subs.heads) THEN wire.heads \cup {head'} ELSE {}]
  BY <1>1 DEF Mine
<1>4. wire'.logs \subseteq Logs /\ wire'.heads \subseteq Blocks
      /\ \A h \in wire'.heads : h <= head' /\ (h \in wire.heads \/ head <= h)
  BY <1>1, <1>2, <1>3, WireFields, LogFields, CursorBounds DEF EnvOK
<1>5. EnvOK' /\ \A k \in Blocks : Passed(k) => Passed(k)'
  BY <1>1, <1>2, <1>3, <1>4, WireStep DEF EnvOK
<1>6. UNCHANGED <<cursor, lastBlock, closedThrough, fill, got, base, known>>
  BY DEF Mine, hubVars, history
<1> QED BY <1>5, <1>6, EnvKeeps

LEMMA SubscribesKeeps == ASSUME HubInv, NodeSubscribes PROVE HubInv'
<1>1. EnvOK /\ head \in Blocks /\ UNCHANGED <<head, sock, drops, fails>>
      /\ subs' = [logs |-> "registered", heads |-> "registered"]
  BY DEF HubInv, EnvOK, NodeSubscribes
<1>2. PICK first \in 1..LogsPerBlock + 1, H \in SUBSET {head} :
        wire' = [logs |-> {l \in LogsOf(head) : first <= l[2]}, heads |-> H]
  BY DEF NodeSubscribes
<1>3. wire' = [logs |-> wire'.logs, heads |-> wire'.heads]
      /\ wire'.logs \subseteq Logs /\ wire'.heads \subseteq {head}
  BY <1>1, <1>2, LogFields
<1>4. \A h \in wire'.heads : h <= head' /\ (h \in wire.heads \/ head <= h)
  BY <1>1, <1>3, WireFields
<1>5. EnvOK' /\ \A k \in Blocks : Passed(k) => Passed(k)'
  BY <1>1, <1>3, <1>4, WireStep, WireFields DEF EnvOK, SubStates
<1>6. UNCHANGED <<cursor, lastBlock, closedThrough, fill, got, base, known>>
  BY DEF NodeSubscribes, hubVars, history
<1> QED BY <1>5, <1>6, EnvKeeps

LEMMA SocketKeeps == ASSUME HubInv, Connect \/ OpenOk \/ OpenFails \/ HeadSubAck PROVE HubInv'
<1>1. EnvOK /\ head \in 1..LastBlock
  BY WireFields DEF HubInv
<1>2. UNCHANGED <<cursor, lastBlock, closedThrough, fill, got, base, known>>
  BY DEF Connect, OpenOk, OpenFails, HeadSubAck, hubVars, history
<1>3. UNCHANGED <<head, drops>> /\ wire'.logs = wire.logs /\ wire'.heads \subseteq wire.heads
      /\ wire' = [logs |-> wire'.logs, heads |-> wire'.heads]
  BY <1>1, WireFields DEF Connect, OpenOk, OpenFails, HeadSubAck, env
<1>4. subs' \in [logs : SubStates, heads : SubStates]
  BY <1>1, WireFields DEF Connect, OpenOk, OpenFails, HeadSubAck, SubStates
<1>5. sock' \in {"wait", "connecting", "open", "dead"}
  BY <1>1 DEF Connect, OpenOk, OpenFails, HeadSubAck, EnvOK
<1>6. fails' \in 0..MaxOpenFails
  BY <1>1, HubBounds DEF Connect, OpenOk, OpenFails, HeadSubAck, EnvOK
<1>7. \A h \in wire'.heads : h <= head' /\ (h \in wire.heads \/ head <= h)
  BY <1>1, <1>3 DEF EnvOK
<1>8. EnvOK' /\ \A k \in Blocks : Passed(k) => Passed(k)'
  BY <1>1, <1>3, <1>4, <1>5, <1>6, <1>7, WireFields, WireStep DEF EnvOK
<1> QED BY <1>2, <1>8, EnvKeeps

\* Where only the cursor and the replays move, and the cursor keeps its bars.
LEMMA CursorKeeps ==
  ASSUME HubInv, EnvOK', \A k \in Blocks : Passed(k) => Passed(k)',
         CursorOK(cursor'), FillsOK(fill'),
         \A k \in Blocks, p \in BOOLEAN : Barred(cursor, p, k) => Barred(cursor', p, k),
         UNCHANGED <<closedThrough, known>>,
         lastBlock' \in 0..LastBlock, base' \in 0..LastBlock, got \subseteq got', got' \subseteq Logs
  PROVE  HubInv'
<1>1. \A k \in known : k \in Blocks
  BY DEF HubInv, MarksOK
<1>2. \A k \in known : Complete(k)' \/ Barred(cursor', Passed(k)', k)
  BY <1>1, HeldStays DEF HubInv, KnownHeld
<1>3. MarksOK'
  BY DEF HubInv, MarksOK
<1>4. closedThrough' > 0 => Complete(closedThrough)'
  BY DEF HubInv, Complete, LogsOf
<1> QED BY <1>2, <1>3, <1>4 DEF HubInv, KnownHeld

LEMMA DropKeeps == ASSUME HubInv, Drop PROVE HubInv'
<1>1. EnvOK /\ UNCHANGED <<head, fails>> /\ wire' = EmptyWire /\ subs' = NoSubs /\ sock' = "wait"
      /\ drops' \in 0..MaxDrops
  BY HubBounds DEF HubInv, EnvOK, Drop
<1>2. wire'.logs = {} /\ wire'.heads = {} /\ wire' = [logs |-> wire'.logs, heads |-> wire'.heads]
  BY <1>1 DEF EmptyWire
<1>3. EnvOK' /\ \A k \in Blocks : Passed(k) => Passed(k)'
  BY <1>1, <1>2, WireStep, WireFields DEF EnvOK, NoSubs, SubStates
<1>4. cursor' = OnDisconnect(cursor) /\ UNCHANGED <<lastBlock, closedThrough, fill, got, base, known>>
  BY DEF Drop, history
<1>5. CursorOK(cursor') /\ \A k \in Blocks, p \in BOOLEAN : Barred(cursor, p, k) => Barred(cursor', p, k)
  BY <1>4, ConnectFacts, CursorBounds DEF HubInv
<1>6. lastBlock' \in 0..LastBlock /\ base' \in 0..LastBlock /\ got' \subseteq Logs /\ FillsOK(fill')
  BY <1>4 DEF HubInv, MarksOK
<1> QED BY <1>3, <1>4, <1>5, <1>6, CursorKeeps

LEMMA LogSubAckKeeps == ASSUME HubInv, LogSubAck PROVE HubInv'
<1>1. EnvOK /\ UNCHANGED <<head, wire, sock, drops, fails>> /\ subs' = [subs EXCEPT !.logs = "live"]
  BY DEF HubInv, LogSubAck, env
<1>2. EnvOK'
  BY <1>1, WireFields DEF EnvOK, SubStates
<1>3. \A k \in Blocks : Passed(k) => Passed(k)'
  BY <1>1 DEF Passed
<1>4. Resume \in 0..LastBlock
  BY CursorBounds DEF Resume, HubInv, MarksOK
<1>5. CursorOK(cursor') /\ \A k \in Blocks, p \in BOOLEAN : Barred(cursor, p, k) => Barred(cursor', p, k)
  BY <1>4, ConnectFacts DEF HubInv, LogSubAck
<1>6. PICK s \in Backfills : fill' = [fill EXCEPT ![s] = [Idle EXCEPT !.at = "height"]]
  BY DEF LogSubAck
<1>7. FillsOK(fill')
  <2>1. [Idle EXCEPT !.at = "height"] = [at |-> "height", from |-> 0, to |-> 0] /\ 0 \in 0..LastBlock
    BY CursorBounds DEF Idle
  <2> QED BY <1>6, <2>1 DEF HubInv, FillsOK
<1>8. UNCHANGED <<lastBlock, closedThrough, got, base, known>>
  BY DEF LogSubAck, history
<1>9. lastBlock' \in 0..LastBlock /\ base' \in 0..LastBlock /\ got' \subseteq Logs
  BY <1>8 DEF HubInv, MarksOK
<1> QED BY <1>2, <1>3, <1>5, <1>7, <1>8, <1>9, CursorKeeps

LEMMA AnchorFacts ==
  ASSUME HubInv, CursorOK(cursor'), Anchor PROVE base' \in 0..LastBlock
BY CursorFields DEF HubInv, MarksOK, Anchor, CursorOK, Cursors

LEMMA DeliverLogKeeps == ASSUME HubInv, DeliverLog PROVE HubInv'
<1>1. PICK l \in wire.logs :
        /\ wire' = [wire EXCEPT !.logs = @ \ {l}]
        /\ lastBlock' = Upper(lastBlock, l[1]) /\ cursor' = OnLog(cursor, l[1])
        /\ Anchor /\ got' = got \cup {l}
  BY DEF DeliverLog
<1>2. EnvOK /\ wire.logs \subseteq Logs /\ UNCHANGED <<head, sock, subs, drops, fails, closedThrough, fill, known>>
  BY WireFields DEF HubInv, DeliverLog, conn
<1>3. wire' = [logs |-> wire.logs \ {l}, heads |-> wire.heads]
  BY <1>1, <1>2, WireFields
<1>4. EnvOK' /\ \A k \in Blocks : Passed(k) => Passed(k)'
  BY <1>2, <1>3, WireFields DEF EnvOK, Passed
<1>5. l \in Logs /\ l[1] \in Blocks
  BY <1>2, LogFields
<1>6. CursorOK(cursor') /\ \A k \in Blocks, p \in BOOLEAN : Barred(cursor, p, k) => Barred(cursor', p, k)
  BY <1>1, <1>5, LogFacts DEF HubInv
<1>7. lastBlock' \in 0..LastBlock
  BY <1>1, <1>5, CursorBounds DEF HubInv, MarksOK, Upper
<1>8. got \subseteq got' /\ got' \subseteq Logs
  BY <1>1, <1>5 DEF HubInv, MarksOK
<1>9. FillsOK(fill')
  BY <1>2 DEF HubInv
<1> QED BY <1>1, <1>2, <1>4, <1>6, <1>7, <1>8, <1>9, AnchorFacts, CursorKeeps

LEMMA DeliverHeadKeeps == ASSUME HubInv, DeliverHead PROVE HubInv'
<1>1. PICK n \in wire.heads :
        /\ \A k \in wire.heads : n <= k
        /\ wire' = [wire EXCEPT !.heads = @ \ {n}]
        /\ cursor' = OnHead(cursor, n)
        /\ known' = known \cup IF cursor.lastHead > 0 THEN cursor.lastHead + 1..n - 1 ELSE {}
        /\ Anchor
  BY DEF DeliverHead
<1>2. EnvOK /\ wire.heads \subseteq Blocks /\ CursorOK(cursor)
      /\ UNCHANGED <<head, sock, subs, drops, fails, lastBlock, closedThrough, fill, got>>
  BY WireFields DEF HubInv, DeliverHead, conn
<1>3. wire' = [logs |-> wire.logs, heads |-> wire.heads \ {n}]
  BY <1>1, <1>2, WireFields
<1>4. EnvOK' /\ \A k \in Blocks : Passed(k) => Passed(k)'
  BY <1>2, <1>3, WireFields DEF EnvOK, Passed
<1>5. n \in Blocks /\ n \in 1..LastBlock /\ n <= head /\ head \in 1..LastBlock
  BY <1>2, WireFields, CursorBounds DEF EnvOK
<1>6. /\ CursorOK(cursor')
      /\ \A k \in Blocks, p \in BOOLEAN : (p => k # n) /\ Barred(cursor, p, k) => Barred(cursor', p, k)
      /\ cursor.lastHead > 0 => \A k \in cursor.lastHead + 1..n - 1 : Barred(cursor', TRUE, k)
  BY <1>1, <1>2, <1>5, HeadFacts
<1>7. cursor.lastHead \in 0..LastBlock
  BY <1>2, CursorFields DEF CursorOK
<1>8. ASSUME NEW k \in known PROVE Complete(k)' \/ Barred(cursor', Passed(k)', k)
  <2>1. k \in Blocks /\ (Passed(k) => k # n) /\ Passed(k) \in BOOLEAN /\ (Passed(k) => Passed(k)')
    <3>1. k \in Blocks /\ k \in Int
      BY CursorBounds DEF HubInv, MarksOK
    <3>2. Passed(k) => k < n
      BY <1>1 DEF Passed
    <3>3. Passed(k) \in BOOLEAN
      BY DEF Passed
    <3> QED BY <1>4, <1>5, <3>1, <3>2, <3>3
  <2>2. CASE Complete(k)
    BY <1>2, <2>2 DEF Complete
  <2>3. CASE Barred(cursor, Passed(k), k)
    <3>1. Barred(cursor', Passed(k), k)
      BY <1>6, <2>1, <2>3
    <3> QED BY <2>1, <3>1 DEF Barred, Covers
  <2> QED BY <2>2, <2>3 DEF HubInv, KnownHeld
<1>9. ASSUME cursor.lastHead > 0, NEW k \in cursor.lastHead + 1..n - 1
      PROVE  k \in Blocks /\ Barred(cursor', Passed(k)', k)
  <2>1. k \in Blocks /\ k < n /\ k \in Int
    BY <1>5, <1>7, <1>9, CursorBounds
  <2>2. \A h \in wire.heads \ {n} : k < h
    <3> SUFFICES ASSUME NEW h \in wire.heads PROVE k < h
      OBVIOUS
    <3>1. n <= h /\ h \in Int
      BY <1>1, <1>2, CursorBounds
    <3> QED BY <1>5, <2>1, <3>1
  <2>3. Passed(k)'
    BY <1>2, <1>3, <1>5, <2>1, <2>2 DEF Passed
  <2>4. Barred(cursor', TRUE, k)
    BY <1>6, <1>9
  <2> QED BY <2>1, <2>3, <2>4 DEF Barred, Covers
<1>10. known' \subseteq Blocks /\ KnownHeld'
  BY <1>1, <1>8, <1>9 DEF KnownHeld, HubInv, MarksOK
<1>11. MarksOK' /\ (closedThrough' > 0 => Complete(closedThrough)')
  BY <1>1, <1>2, <1>6, <1>10, AnchorFacts DEF HubInv, MarksOK, Complete
<1>12. FillsOK(fill')
  BY <1>2 DEF HubInv
<1> QED BY <1>4, <1>6, <1>10, <1>11, <1>12 DEF HubInv

-----------------------------------------------------------------------------
\* The steps of a replay: what they owe the invariant.
LEMMA ReplayKeeps ==
  ASSUME HubInv, UNCHANGED <<env, conn>>, CursorOK(cursor'), FillsOK(fill'),
         got \subseteq got', got' \subseteq Logs, known' \subseteq Blocks,
         lastBlock' \in 0..LastBlock, base' \in 0..LastBlock,
         closedThrough' # closedThrough => closedThrough' \in Blocks /\ LogsOf(closedThrough') \subseteq got',
         \A k \in Blocks, p \in BOOLEAN :
            Barred(cursor, p, k) => LogsOf(k) \subseteq got' \/ Barred(cursor', p, k),
         \A k \in known', p \in BOOLEAN : k \notin known => Barred(cursor', p, k)
  PROVE  HubInv'
<1>1. EnvOK' /\ \A k \in Blocks : Passed(k) => Passed(k)'
  BY EnvStays DEF HubInv
<1>2. MarksOK'
  BY CursorBounds DEF HubInv, MarksOK
<1>3. closedThrough' > 0 => Complete(closedThrough)'
  BY DEF HubInv, Complete, LogsOf
<1>4. ASSUME NEW k \in known PROVE Complete(k)' \/ Barred(cursor', Passed(k)', k)
  <2>1. k \in Blocks
    BY DEF HubInv, MarksOK
  <2>2. Complete(k) \/ Barred(cursor, Passed(k), k)
    BY DEF HubInv, KnownHeld
  <2>3. \A p \in BOOLEAN : Barred(cursor, p, k) => Complete(k)' \/ Barred(cursor', p, k)
    BY <2>1 DEF Complete, LogsOf
  <2> QED BY <1>1, <2>1, <2>2, <2>3, HeldStays
<1>5. ASSUME NEW k \in known', k \notin known PROVE Barred(cursor', Passed(k)', k)
  <2>1. Passed(k)' \in BOOLEAN
    BY DEF Passed
  <2> QED BY <1>5, <2>1
<1>6. KnownHeld'
  BY <1>4, <1>5 DEF KnownHeld
<1> QED BY <1>1, <1>2, <1>3, <1>6 DEF HubInv

LEMMA ChunkEndFacts ==
  ASSUME NEW a \in Blocks, NEW to \in Blocks, a <= to
  PROVE  ChunkEnd(a, to) \in Blocks /\ a <= ChunkEnd(a, to) /\ ChunkEnd(a, to) <= to
BY CursorBounds, HubBounds DEF ChunkEnd

LEMMA StartFacts ==
  ASSUME FillsOK(fill), NEW s \in Backfills, NEW c, CursorOK(c), NEW a \in Blocks, NEW to \in Blocks,
         a <= to, StartChunk(s, c, a, to)
  PROVE  /\ CursorOK(cursor') /\ FillsOK(fill')
         /\ \A k \in Blocks, p \in BOOLEAN : Barred(c, p, k) => Barred(cursor', p, k)
<1>1. ChunkEnd(a, to) \in Blocks
  BY ChunkEndFacts
<1>2. cursor' = OnBackfillStart(c, a, ChunkEnd(a, to))
      /\ fill' = [fill EXCEPT ![s] = [at |-> "chunk", from |-> a, to |-> to]]
  BY DEF StartChunk
<1>3. a \in 0..LastBlock /\ to \in 0..LastBlock /\ 1 <= a
  BY CursorBounds
<1>4. FillsOK(fill')
  BY <1>2, <1>3 DEF FillsOK
<1> QED BY <1>1, <1>2, <1>4, BackfillStartFacts

\* A replay waiting for a chunk: the chunk is inside what it has to cover.
LEMMA ChunkFacts ==
  ASSUME FillsOK(fill), NEW s \in Backfills, fill[s].at = "chunk"
  PROVE  LET a == fill[s].from
             b == ChunkEnd(fill[s].from, fill[s].to)
         IN a \in Blocks /\ b \in Blocks /\ fill[s].to \in Blocks /\ a <= b /\ b <= fill[s].to
<1>1. fill[s].from \in Blocks /\ fill[s].to \in Blocks /\ fill[s].from <= fill[s].to
  BY CursorBounds DEF FillsOK
<1> QED BY <1>1, ChunkEndFacts

LEMMA AfterFacts ==
  ASSUME FillsOK(fill), NEW s \in Backfills, fill[s].at = "chunk", NEW c, CursorOK(c),
         NEW ok \in BOOLEAN, AfterChunk(s, c, ok)
  PROVE  /\ CursorOK(cursor') /\ FillsOK(fill')
         /\ \A k \in Blocks, p \in BOOLEAN : Barred(c, p, k) => Barred(cursor', p, k)
         /\ \/ closedThrough' = closedThrough
            \/ ok /\ closedThrough' = fill[s].to /\ ChunkEnd(fill[s].from, fill[s].to) = fill[s].to
<1> DEFINE to == fill[s].to
           b == ChunkEnd(fill[s].from, to)
<1>1. b \in Blocks /\ to \in Blocks /\ b \in Int /\ to \in Int
  BY ChunkFacts, CursorBounds
<1>2. CASE b < to /\ StartChunk(s, c, b + 1, to) /\ UNCHANGED closedThrough
  <2>1. b + 1 \in Blocks /\ b + 1 <= to
    BY <1>1, <1>2, CursorBounds
  <2> QED BY <1>1, <1>2, <2>1, StartFacts
<1>3. CASE /\ b = to /\ cursor' = c
           /\ fill' = [fill EXCEPT ![s] = Idle]
           /\ closedThrough' = IF ok THEN to ELSE closedThrough
  <2>1. Idle = [at |-> "idle", from |-> 0, to |-> 0] /\ 0 \in 0..LastBlock
    BY CursorBounds DEF Idle
  <2>2. FillsOK(fill')
    BY <1>3, <2>1 DEF FillsOK
  <2> QED BY <1>3, <2>2
<1> QED BY <1>2, <1>3 DEF AfterChunk

LEMMA ChunkRefusedKeeps == ASSUME HubInv, NEW s \in Backfills, ChunkRefused(s) PROVE HubInv'
<1> DEFINE a == fill[s].from
           b == ChunkEnd(a, fill[s].to)
           c == OnBackfillDone(cursor, a, b, FALSE)
<1>1. /\ fill[s].at = "chunk" /\ AfterChunk(s, c, FALSE)
      /\ lastBlock' = (IF b = fill[s].to THEN b ELSE lastBlock)
      /\ known' = known \cup a..b /\ UNCHANGED <<env, conn, got, base>>
  BY DEF ChunkRefused
<1>2. FillsOK(fill) /\ CursorOK(cursor) /\ MarksOK
  BY DEF HubInv
<1>3. a \in Blocks /\ b \in Blocks /\ a \in Int /\ b \in Int
  BY <1>1, <1>2, ChunkFacts, CursorBounds
<1>4. CursorOK(c) /\ \A k \in Blocks, p \in BOOLEAN :
                       Barred(cursor, p, k) \/ k \in a..b => Barred(c, p, k)
  BY <1>2, <1>3, BackfillRefusedFacts
<1> HIDE DEF c
<1>5. /\ CursorOK(cursor') /\ FillsOK(fill') /\ closedThrough' = closedThrough
      /\ \A k \in Blocks, p \in BOOLEAN : Barred(c, p, k) => Barred(cursor', p, k)
  BY <1>1, <1>2, <1>4, AfterFacts
<1>6. a..b \subseteq Blocks
  BY <1>3, CursorBounds
<1>7. known' \subseteq Blocks /\ lastBlock' \in 0..LastBlock
  <2>1. known' \subseteq Blocks
    BY <1>1, <1>2, <1>6 DEF MarksOK
  <2>2. lastBlock' \in 0..LastBlock
    BY <1>1, <1>2, <1>3, CursorBounds DEF MarksOK
  <2> QED BY <2>1, <2>2
<1>8. \A k \in known', p \in BOOLEAN : k \notin known => Barred(cursor', p, k)
  BY <1>1, <1>4, <1>5, <1>6
<1>9. \A k \in Blocks, p \in BOOLEAN : Barred(cursor, p, k) => Barred(cursor', p, k)
  BY <1>4, <1>5
<1>10. got \subseteq got' /\ got' \subseteq Logs /\ base' \in 0..LastBlock /\ UNCHANGED <<env, conn>>
  BY <1>1, <1>2 DEF MarksOK
<1> QED BY <1>5, <1>7, <1>8, <1>9, <1>10, ReplayKeeps

LEMMA ChunkReplayedKeeps == ASSUME HubInv, NEW s \in Backfills, ChunkReplayed(s) PROVE HubInv'
<1> DEFINE a == fill[s].from
           b == ChunkEnd(a, fill[s].to)
           found == {n \in a..b : n \in Busy}
           c == OnLogs(cursor, found)
           d == OnBackfillDone(c, a, b, TRUE)
<1>1. /\ fill[s].at = "chunk" /\ AfterChunk(s, d, TRUE)
      /\ got' = got \cup UNION {LogsOf(n) : n \in found}
      /\ lastBlock' = (IF b = fill[s].to THEN b ELSE Max(found \cup {lastBlock}))
      /\ Anchor /\ UNCHANGED <<env, conn, known>>
  BY DEF ChunkReplayed
<1>2. FillsOK(fill) /\ CursorOK(cursor) /\ MarksOK
  BY DEF HubInv
<1>3. a \in Blocks /\ b \in Blocks /\ a \in Int /\ b \in Int /\ fill[s].to \in Blocks /\ a <= b
  BY <1>1, <1>2, ChunkFacts, CursorBounds
<1>4. a..b \subseteq Blocks /\ found \subseteq Blocks /\ found \subseteq a..b
  BY <1>3, CursorBounds
<1>5. \A n \in a..b : LogsOf(n) \subseteq got'
  <2> SUFFICES ASSUME NEW n \in a..b PROVE LogsOf(n) \subseteq got'
    OBVIOUS
  <2>1. CASE n \in Busy
    BY <1>1, <2>1
  <2>2. CASE n \notin Busy
    BY <2>2 DEF LogsOf
  <2> QED BY <2>1, <2>2
<1>6. got \subseteq got' /\ got' \subseteq Logs
  BY <1>1, <1>2, <1>4, LogFields DEF MarksOK
<1> HIDE DEF found
<1>7. CursorOK(c) /\ \A k \in Blocks, p \in BOOLEAN : Barred(cursor, p, k) => Barred(c, p, k)
  BY <1>2, <1>4, LogsFacts
<1> HIDE DEF c
<1>8. CursorOK(d) /\ \A k \in Blocks \ (a..b), p \in BOOLEAN : Barred(c, p, k) => Barred(d, p, k)
  BY <1>3, <1>7, BackfillOkFacts
<1> HIDE DEF d
<1>9. /\ CursorOK(cursor') /\ FillsOK(fill')
      /\ closedThrough' # closedThrough => closedThrough' = fill[s].to /\ b = fill[s].to
      /\ \A k \in Blocks, p \in BOOLEAN : Barred(d, p, k) => Barred(cursor', p, k)
  BY <1>1, <1>2, <1>8, AfterFacts
<1>10. \A k \in Blocks, p \in BOOLEAN : Barred(cursor, p, k) => LogsOf(k) \subseteq got' \/ Barred(cursor', p, k)
  <2> SUFFICES ASSUME NEW k \in Blocks, NEW p \in BOOLEAN, Barred(cursor, p, k)
               PROVE  LogsOf(k) \subseteq got' \/ Barred(cursor', p, k)
    OBVIOUS
  <2>1. CASE k \in a..b
    BY <1>5, <2>1
  <2>2. CASE k \notin a..b
    BY <1>7, <1>8, <1>9, <2>2
  <2> QED BY <2>1, <2>2
<1>11. closedThrough' # closedThrough => closedThrough' \in Blocks /\ LogsOf(closedThrough') \subseteq got'
  <2>1. b \in a..b
    BY <1>3
  <2> QED BY <1>3, <1>5, <1>9, <2>1
<1>12. lastBlock' \in 0..LastBlock
  <2> DEFINE T == found \cup {lastBlock}
  <2>1. T \subseteq 0..LastBlock /\ T # {}
    <3>1. lastBlock \in 0..LastBlock
      BY <1>2 DEF MarksOK
    <3>2. \A n \in found : n \in 0..LastBlock
      BY <1>4, CursorBounds
    <3> QED BY <3>1, <3>2
  <2> HIDE DEF T
  <2>2. Max(T) \in 0..LastBlock
    BY <2>1, Largest
  <2> QED BY <1>1, <1>3, <2>2, CursorBounds DEF T
<1>13. base' \in 0..LastBlock
  BY <1>1, <1>9, AnchorFacts
<1>14. known' \subseteq Blocks /\ known' = known /\ UNCHANGED <<env, conn>>
  BY <1>1, <1>2 DEF MarksOK
<1> QED BY <1>6, <1>9, <1>10, <1>11, <1>12, <1>13, <1>14, ReplayKeeps

LEMMA ResolveKeeps == ASSUME HubInv, NEW n \in Blocks, ResolveBlock(n) PROVE HubInv'
<1>1. /\ cursor' = Resolve(cursor, n, n) /\ got' = got \cup LogsOf(n)
      /\ UNCHANGED <<env, conn, lastBlock, closedThrough, fill, base, known>>
  BY DEF ResolveBlock
<1>2. /\ CursorOK(cursor')
      /\ \A k \in Blocks \ {n}, p \in BOOLEAN : Barred(cursor, p, k) => Barred(cursor', p, k)
  BY <1>1, ResolveFacts DEF HubInv
<1>3. got \subseteq got' /\ got' \subseteq Logs
  BY <1>1, LogFields DEF HubInv, MarksOK
<1>4. \A k \in Blocks, p \in BOOLEAN : Barred(cursor, p, k) => LogsOf(k) \subseteq got' \/ Barred(cursor', p, k)
  <2>1. LogsOf(n) \subseteq got'
    BY <1>1
  <2> QED BY <1>2, <2>1
<1>5. /\ FillsOK(fill') /\ known' \subseteq Blocks /\ lastBlock' \in 0..LastBlock
      /\ base' \in 0..LastBlock /\ known' = known
  BY <1>1 DEF HubInv, MarksOK
<1> QED BY <1>1, <1>2, <1>3, <1>4, <1>5, ReplayKeeps

\* The answer to eth_blockNumber: what is out of reach is refused unread.
LEMMA HeightKeeps ==
  ASSUME HubInv, NEW s \in Backfills, NEW h \in {0} \cup Upper(1, head - HeightLag)..head,
         HeightReply(s, h)
  PROVE  HubInv'
<1> DEFINE last == IF lastBlock = 0 THEN h ELSE lastBlock
           from == IF last > closedThrough THEN last ELSE last + 1
           skip == h - MaxGap - 1
           c1 == OnBackfillStart(cursor, from, skip)
           c2 == OnBackfillDone(c1, from, skip, FALSE)
<1>1. FillsOK(fill) /\ CursorOK(cursor) /\ MarksOK /\ head \in 1..LastBlock
  BY WireFields DEF HubInv
<1>2. h \in 0..LastBlock
  BY <1>1, CursorBounds, HubBounds DEF Upper
<1>3. last \in 0..LastBlock /\ from \in Int /\ from >= 0 /\ skip \in Int
      /\ (from <= h => h - from \in Nat)
      /\ (h > 0 => from > 0)
  BY <1>1, <1>2, HubBounds, CursorBounds DEF MarksOK
<1>4. /\ lastBlock' = last /\ UNCHANGED <<env, conn, closedThrough, got, base>>
      /\ \/ fill' = [fill EXCEPT ![s] = Idle] /\ UNCHANGED <<cursor, known>>
         \/ /\ h > 0 /\ from <= h /\ StartChunk(s, cursor, from, h) /\ UNCHANGED known
         \/ /\ h > 0 /\ h - from > MaxGap /\ StartChunk(s, c2, h - MaxGap, h)
            /\ known' = known \cup from..skip
  BY DEF HeightReply
<1> HIDE DEF last, from, skip
<1>5. /\ lastBlock' \in 0..LastBlock /\ got \subseteq got' /\ got' \subseteq Logs
      /\ base' \in 0..LastBlock /\ UNCHANGED <<env, conn, closedThrough>> /\ known \subseteq Blocks
  BY <1>1, <1>3, <1>4 DEF MarksOK
<1>6. CASE fill' = [fill EXCEPT ![s] = Idle] /\ UNCHANGED <<cursor, known>>
  <2>1. Idle = [at |-> "idle", from |-> 0, to |-> 0] /\ 0 \in 0..LastBlock
    BY CursorBounds DEF Idle
  <2>2. FillsOK(fill')
    BY <1>1, <1>6, <2>1 DEF FillsOK
  <2> QED BY <1>1, <1>5, <1>6, <2>2, ReplayKeeps
<1>7. CASE h > 0 /\ from <= h /\ StartChunk(s, cursor, from, h) /\ UNCHANGED known
  <2>1. from \in Blocks /\ h \in Blocks
    BY <1>2, <1>3, <1>7, CursorBounds
  <2>2. /\ CursorOK(cursor') /\ FillsOK(fill')
        /\ \A k \in Blocks, p \in BOOLEAN : Barred(cursor, p, k) => Barred(cursor', p, k)
    BY <1>1, <1>7, <2>1, StartFacts
  <2> QED BY <1>5, <1>7, <2>2, ReplayKeeps
<1>8. CASE /\ h > 0 /\ h - from > MaxGap /\ StartChunk(s, c2, h - MaxGap, h)
           /\ known' = known \cup from..skip
  <2>1. from \in Blocks /\ skip \in Blocks /\ h - MaxGap \in Blocks /\ h \in Blocks
        /\ h - MaxGap <= h
    BY <1>2, <1>3, <1>8, CursorBounds, HubBounds DEF skip
  <2>2. CursorOK(c1) /\ \A k \in Blocks, p \in BOOLEAN : Barred(cursor, p, k) => Barred(c1, p, k)
    BY <1>1, <2>1, BackfillStartFacts
  <2> HIDE DEF c1
  <2>3. CursorOK(c2) /\ \A k \in Blocks, p \in BOOLEAN :
                          Barred(c1, p, k) \/ k \in from..skip => Barred(c2, p, k)
    BY <2>1, <2>2, BackfillRefusedFacts
  <2> HIDE DEF c2
  <2>4. /\ CursorOK(cursor') /\ FillsOK(fill')
        /\ \A k \in Blocks, p \in BOOLEAN : Barred(c2, p, k) => Barred(cursor', p, k)
    BY <1>1, <1>8, <2>1, <2>3, StartFacts
  <2>5. from..skip \subseteq Blocks
    BY <2>1, CursorBounds
  <2>6. known' \subseteq Blocks
        /\ \A k \in known', p \in BOOLEAN : k \notin known => Barred(cursor', p, k)
    BY <1>5, <1>8, <2>3, <2>4, <2>5
  <2>7. \A k \in Blocks, p \in BOOLEAN : Barred(cursor, p, k) => Barred(cursor', p, k)
    BY <2>2, <2>3, <2>4
  <2> QED BY <1>5, <2>4, <2>6, <2>7, ReplayKeeps
<1> QED BY <1>4, <1>6, <1>7, <1>8

-----------------------------------------------------------------------------
LEMMA HubStarts == ASSUME HubInit PROVE HubInv
<1>1. EnvOK
  BY CursorBounds, HubBounds DEF HubInit, EnvOK, NoSubs, EmptyWire, SubStates
<1>2. CursorOK(cursor)
  BY CursorBounds DEF HubInit, NewCursor, CursorOK, Cursors
<1>3. FillsOK(fill)
  BY CursorBounds DEF HubInit, FillsOK, Idle
<1>4. MarksOK /\ KnownHeld /\ closedThrough = 0
  BY CursorBounds DEF HubInit, MarksOK, KnownHeld
<1> QED BY <1>1, <1>2, <1>3, <1>4 DEF HubInv

LEMMA HubSteps == ASSUME HubInv, [HubNext]_allVars PROVE HubInv'
<1>1. CASE UNCHANGED allVars
  <2>1. UNCHANGED <<env, conn, cursor, lastBlock, closedThrough, fill, got, base, known>>
    BY <1>1 DEF allVars, hubVars, history
  <2> QED BY <2>1, EnvStays, EnvKeeps DEF HubInv
<1>2. ASSUME NEW s \in Backfills, NEW h \in {0} \cup Upper(1, head - HeightLag)..head, HeightReply(s, h)
      PROVE  HubInv'
  BY <1>2, HeightKeeps
<1>3. ASSUME NEW s \in Backfills, ChunkReplayed(s) \/ ChunkRefused(s) PROVE HubInv'
  BY <1>3, ChunkReplayedKeeps, ChunkRefusedKeeps
<1>4. ASSUME NEW n \in Blocks, ResolveBlock(n) PROVE HubInv'
  BY <1>4, ResolveKeeps
<1> QED BY <1>1, <1>2, <1>3, <1>4, MineKeeps, SubscribesKeeps, SocketKeeps, DropKeeps,
           LogSubAckKeeps, DeliverHeadKeeps, DeliverLogKeeps DEF HubNext

LEMMA HubInvariant == HubSpec => []HubInv
BY HubStarts, HubSteps, PTL DEF HubSpec

\* A block the hub has recorded as missed is sealable only once all its logs
\* were replayed or reconciled (chain-cursor.mjs:15).
THEOREM MissedIsHeld == HubSpec => []KnownMissingNotSealable
<1>1. HubInv => KnownMissingNotSealable
  <2> SUFFICES ASSUME HubInv, NEW n \in known, n <= Sealable(cursor) PROVE Complete(n)
    BY DEF KnownMissingNotSealable
  <2>1. n \in Blocks /\ CursorOK(cursor) /\ (Complete(n) \/ Barred(cursor, Passed(n), n))
    BY DEF HubInv, MarksOK, KnownHeld
  <2> QED BY <2>1, BarredNotSealable
<1> QED BY <1>1, HubInvariant, PTL

\* closedThrough names a block whose every log was handed on
\* (chainhub.mjs:139-142, 178, 202).
THEOREM ClosedIsProven == HubSpec => []ClosedThroughProven
<1>1. HubInv => ClosedThroughProven
  <2> SUFFICES ASSUME HubInv PROVE HubTypeOK /\ (closedThrough > 0 => Complete(closedThrough))
    BY DEF ClosedThroughProven
  <2> QED BY DEF HubInv, EnvOK, CursorOK, FillsOK, MarksOK, HubTypeOK
<1> QED BY <1>1, HubInvariant, PTL
=============================================================================
