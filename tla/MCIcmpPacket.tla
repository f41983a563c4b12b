---------------------------- MODULE MCIcmpPacket ----------------------------
(* Small instances of IcmpPacket.                                          *)
EXTENDS IcmpPacket

Repeat(byte, n) == [i \in 1 .. n |-> byte]

\* The boundary values of a 16-bit word, and one with two different bytes that a u8 can hold.
MCU16 == {0, 130, 65535}

\* Both sides of every limit on the code.
MCCode == {0, 1, 2, 5, 6, 7}

\* Empty, odd, and even with the first bytes of an IPv4 header.
MCPayload == {<<>>, <<255>>, <<0, 1, 254>>, <<69, 0>>}

MCStamps == {<<1, 2, 3, 4, 5, 6>>, <<65535, 65535, 0, 0, 65279, 256>>}

\* fe80::1 to ff02::1, word by word.
MCPseudoSum == 65152 + 1 + 65282 + 1

MCHeaderWords == {5, 6, 15}

\* Every type the parsers know, their neighbours, and a code no constructor has.
MCForeignHead ==
  [v \in BOOLEAN |->
     IF v THEN ({0, 1, 2, 3, 4, 5, 99, 100, 101, 128, 129, 130, 200, 201} \X {0}) \cup {<<1, 9>>}
     ELSE ((0 .. 18) \X {0}) \cup {<<3, 13>>}]

\* Lengths around the minimum of 8 and 20 bytes, and zeros for the two zeros
\* of one's complement.
MCForeignBody ==
  {Repeat(0, n) : n \in {3, 4, 16}}
    \cup {<<255, 242, 0, 0>>, <<1, 2, 3, 4, 5>>}
    \cup {[i \in 1 .. n |-> i] : n \in {15, 16, 18}}

=============================================================================
