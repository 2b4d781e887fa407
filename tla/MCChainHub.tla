----------------------------- MODULE MCChainHub -----------------------------
(***************************************************************************)
(* Small instances of ChainHub for TLC.                                    *)
(***************************************************************************)
EXTENDS ChainHub, TLC
LOCAL Sequence == INSTANCE SequencesExt

\* Slots for backfill() calls are interchangeable.
FillSymmetry == Permutations(Backfills)

\* OnLogs is OnLog of each block in turn, wherever the cursor's head is.  What
\* was pending before stays pending under both.
ASSUME LogsInTurn ==
  \A h \in 0..LastBlock, S \in SUBSET Blocks :
    LET c == [NewCursor EXCEPT !.lastHead = h]
    IN OnLogs(c, S) = Sequence!FoldLeft(OnLog, c, Sequence!SetToSortSeq(S, <))
=============================================================================
