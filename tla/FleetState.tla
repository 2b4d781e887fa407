----------------------------- MODULE FleetState -----------------------------
(***************************************************************************)
(* The signed fleet kill switch (fleetstate.mjs).  The owner signs         *)
(* documents with rising timestamps; mirrors outside the platform serve    *)
(* them, some stale, some with rubbish, some not at all.  Every poll asks  *)
(* the mirrors in a rotating order and stops at the first that answers,    *)
(* whether or not its document is accepted.  A document is accepted when   *)
(* its signature holds and it is not older than the newest one this        *)
(* account ever accepted: that timestamp is on disk, the state is not.     *)
(***************************************************************************)
EXTENDS Naturals

CONSTANTS
  M,           \* mirrors are 0..M-1
  Halting,     \* the timestamps of the documents that halt the fleet
  MaxTs,       \* bound: documents are 1..MaxTs
  MaxReboots   \* bound

ASSUME FleetBounds ==
  /\ M \in Nat \ {0} /\ {MaxTs, MaxReboots} \subseteq Nat
  /\ Halting \subseteq 1..MaxTs

Mirrors == 0..M-1
NoDoc   == 0          \* state.ts of a fresh process; a document of no value
Down    == MaxTs + 1  \* the fetch throws, or is not ok

VARIABLES
  signed,    \* timestamp of the newest document the owner signed
  mirror,    \* mirror -> timestamp served, NoDoc (a bad signature), or Down
  state,     \* state.ts: the document in force in this process
  lastTs,    \* fleetstate-ts.json
  rot,       \* rotation of the mirrors, per process
  reboots,
  everHeld   \* history: the newest document ever in force on this account

fleetVars == <<signed, mirror, state, lastTs, rot, reboots, everHeld>>

FleetTypeOK ==
  /\ signed \in 0..MaxTs /\ mirror \in [Mirrors -> 0..MaxTs + 1]
  /\ {state, lastTs, everHeld} \subseteq 0..MaxTs /\ rot \in Mirrors
  /\ reboots \in 0..MaxReboots

FleetInit ==
  /\ signed = 0 /\ mirror = [i \in Mirrors |-> NoDoc]
  /\ state = NoDoc /\ lastTs = 0 /\ rot \in Mirrors
  /\ reboots = 0 /\ everHeld = 0

fleetHalted == state \in Halting

(***************************************************************************)
(* The owner and the mirrors.                                              *)
(***************************************************************************)
OwnerSigns ==
  /\ signed < MaxTs /\ signed' = signed + 1
  /\ UNCHANGED <<mirror, state, lastTs, rot, reboots, everHeld>>

\* A mirror catches up, falls back to an older copy, breaks or goes down.
MirrorChanges(i) ==
  /\ \E d \in 0..signed \cup {Down} : mirror' = [mirror EXCEPT ![i] = d]
  /\ UNCHANGED <<signed, state, lastTs, rot, reboots, everHeld>>

(***************************************************************************)
(* apply() and the poll.                                                   *)
(***************************************************************************)
\* Mutant of Accepted: only what this process holds is protected.
AcceptedInProcess(d) == d # NoDoc /\ d >= state

Accepted(d) == d # NoDoc /\ d >= lastTs

Apply(d) ==
  IF Accepted(d)
  THEN /\ state' = d /\ lastTs' = d
       /\ everHeld' = IF d > everHeld THEN d ELSE everHeld
  ELSE UNCHANGED <<state, lastTs, everHeld>>

\* The i-th mirror of this poll.
Tried(i) == (rot + i) % M

\* Mutant of NextRot: every poll begins with the same mirror.
SameRot == rot

NextRot == (rot + 1) % M

Poll ==
  /\ rot' = NextRot
  /\ IF \A i \in Mirrors : mirror[i] = Down
     THEN UNCHANGED <<state, lastTs, everHeld>>      \* keep the last state
     ELSE \E i \in Mirrors :
            /\ mirror[Tried(i)] # Down
            /\ \A j \in Mirrors : j < i => mirror[Tried(j)] = Down
            /\ Apply(mirror[Tried(i)])
  /\ UNCHANGED <<signed, mirror, reboots>>

\* An update or a crash: only the timestamp is read back.
FleetRestart ==
  /\ reboots < MaxReboots /\ reboots' = reboots + 1
  /\ state' = NoDoc /\ rot' \in Mirrors
  /\ UNCHANGED <<signed, mirror, lastTs, everHeld>>

FleetNext ==
  \/ OwnerSigns \/ Poll \/ FleetRestart
  \/ \E i \in Mirrors : MirrorChanges(i)

\* The poll timer re-arms itself whatever the poll came to.
FleetSpec == FleetInit /\ [][FleetNext]_fleetVars /\ WF_fleetVars(Poll)

(***************************************************************************)
(* Properties.                                                             *)
(***************************************************************************)

\* No stale or hostile mirror rolls an account back: a document comes into
\* force only if none newer was ever in force on that account, restarts
\* included (the replay guard ts < lastTs, fleetstate.mjs).
NeverRolledBack ==
  []FleetTypeOK /\ [][state' \notin {state, NoDoc} => state' >= everHeld]_fleetVars

\* One honest mirror is enough: once a mirror serves the newest document and
\* the mirrors come to rest, that document comes into force, even though a
\* stale or broken mirror ends a poll just as a good one does.
OneGoodMirrorIsEnough ==
  \A d \in 1..MaxTs :
    (\E m \in [Mirrors -> 0..MaxTs + 1] :
       (\E i \in Mirrors : m[i] = d) /\ <>[](signed = d /\ mirror = m))
      => <>[](state = d)

\* A halt in force stays in force until the owner signs something newer:
\* "blocking the URL must never be able to freeze the fleet, and never able
\* to resume it either".  False: a restart forgets the halt (see the README).
HaltOutlivesBlockedMirrors ==
  [][fleetHalted /\ ~fleetHalted' => state' > state]_fleetVars
=============================================================================
