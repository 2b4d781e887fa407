--------------------------- MODULE RosterContract ---------------------------
(***************************************************************************)
(* What the hosted runner promises about who is run: the supervised bots   *)
(* are bots of the last roster it was given.  The roster changes only by a *)
(* good answer of the platform, and an answer stops at once, in the same   *)
(* step, every supervised bot it does not list.  A lost answer changes     *)
(* nothing.  runner.mjs is shown to implement this in Supervisor.tla.      *)
(***************************************************************************)
CONSTANT Accounts
VARIABLES want,       \* the accounts of the last roster answer
          supervised  \* the accounts with a bot under this supervisor

Init == want = {} /\ supervised = {}

\* A good roster answer: nobody outside it stays supervised.
Answer ==
  /\ want' \in SUBSET Accounts
  /\ supervised' \subseteq supervised \cap want'

\* A bot comes under supervision only for an account of the last roster.
Start ==
  /\ \E u \in want \ supervised : supervised' = supervised \cup {u}
  /\ UNCHANGED want

\* Bots crash, exit by themselves or are stopped.
Leave ==
  /\ supervised' \subseteq supervised
  /\ UNCHANGED want

\* A new supervisor knows no roster and supervises nobody.
Restart == want' = {} /\ supervised' = {}

Next == Answer \/ Start \/ Leave \/ Restart

Spec == Init /\ [][Next]_<<want, supervised>>
=============================================================================
