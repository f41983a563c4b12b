-------------------------- MODULE MCSocketHandles --------------------------
(* SocketHandles for TLC.                                                  *)
EXTENDS SocketHandles, TLC

CONSTANTS h1, h2, h3, s1, s2, a1, a2

MCHandle == {h1, h2, h3}
MCTwoHandles == {h1, h2}
MCSock == {s1, s2}
MCAddr == {a1, a2}

\* Handles, sockets and addresses are only compared for equality.
MCSymmetry == Permutations(Handle) \cup Permutations(Sock) \cup Permutations(Addr)

=============================================================================
