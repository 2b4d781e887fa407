---------------------------- MODULE MCSealWorker ----------------------------
(***************************************************************************)
(* Small instances of SealWorker for TLC.                                  *)
(***************************************************************************)
EXTENDS SealWorker, TLC

\* Ticks are interchangeable.
TickSymmetry == Permutations(Callers)
=============================================================================
