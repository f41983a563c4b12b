--------------------------- MODULE MCReceiveMeta ---------------------------
(* ReceiveMeta for TLC.                                                    *)
EXTENDS ReceiveMeta, TLC

CONSTANTS h1, h2

\* In step with the monotonic clock, before 1970 at first, ahead.
MCOffsets == {-1, 0, 3}

MCSymmetry == Permutations(Handle)

=============================================================================
