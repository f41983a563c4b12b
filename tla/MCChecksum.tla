----------------------------- MODULE MCChecksum -----------------------------
(* Checksum for TLC.                                                       *)
EXTENDS Checksum

\* None, one that carries once, one that fills the u32 to the last.
MCAddressSums == {0, 15, 203}

=============================================================================
