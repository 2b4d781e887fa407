-------------------------- MODULE MCOrderPlacement --------------------------
(***************************************************************************)
(* Small instances of OrderPlacement for TLC.                              *)
(***************************************************************************)
EXTENDS OrderPlacement, TLC

\* Decision loops are interchangeable in every safety property.
CallerSymmetry == Permutations(Callers)
=============================================================================
