----------------------------- MODULE MCReceive -----------------------------
(* Receive for TLC: sizes in bytes around the default capacity of 2048.    *)
EXTENDS Receive, TLC

CONSTANTS h1, h2

\* A runt, a reply just below the capacity, one of a type the parser does not
\* know, one of exactly the capacity, one above it.
MCPackets ==
  {[size |-> 4, known |-> TRUE], [size |-> 2047, known |-> TRUE], [size |-> 60, known |-> FALSE],
   [size |-> 2048, known |-> TRUE], [size |-> 2049, known |-> TRUE]}

MCOnePacket == {[size |-> 60, known |-> TRUE]}

MCSymmetry == Permutations(Handle)

=============================================================================
