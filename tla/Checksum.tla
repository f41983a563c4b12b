------------------------------ MODULE Checksum ------------------------------
(***************************************************************************)
(* calculate_checksum of ICMPv4 and ICMPv6 packets, one step per turn of   *)
(* its loops: sum_big_endian_words over the message, the pseudo header of  *)
(* ICMPv6, the carry loop (packet.rs).                                     *)
(*                                                                         *)
(* IcmpPacket has the same functions on real bytes; here bytes are digits  *)
(* of any base, so that small instances reach the limits of the u32 and    *)
(* the proofs cover all of them.  Base is 256 in the code, where a message *)
(* has fewer than 2^16 bytes, the 16 words of two addresses sum to less    *)
(* than 2^20 and NextHeader is 58: ChecksumAssumption holds.               *)
(***************************************************************************)
EXTENDS Naturals, Sequences

CONSTANTS
  Base,         \* a u8 is below Base, a u16 below Base^2, a u32 below Base^4
  MaxLen,       \* bound on the bytes of a message
  AddressSums,  \* what the words of source and destination may sum to
  NextHeader    \* the protocol number of ICMPv6

U16 == Base * Base
U32 == U16 * U16

MaxWords == (MaxLen + 1) \div 2

ASSUME ChecksumAssumption ==
  /\ Base \in Nat /\ Base >= 2
  /\ MaxLen \in Nat /\ NextHeader \in Nat /\ AddressSums \subseteq Nat
  /\ (U16 - 1) * MaxWords < U32
  /\ \A a \in AddressSums : a + NextHeader + MaxLen + (U16 - 1) * MaxWords < U32

Byte == 0 .. Base - 1
Message == UNION {[1 .. n -> Byte] : n \in 0 .. MaxLen}

VARIABLES
  message,   \* get_bytes(false); never changes
  header,    \* the sum of the pseudo header; never changes
  pc,        \* "words", "header", "carry", "done"
  pos,       \* bytes already removed from data
  sum,       \* the u32
  checksum,  \* the u16 returned
  total,     \* history: the sum without limit
  folds      \* history: turns of the carry loop

vars == <<message, header, pc, pos, sum, checksum, total, folds>>

\* Source, destination, next header and length; nothing in ICMPv4.
Headers(m) == {0} \cup {a + NextHeader + Len(m) : a \in AddressSums}

Init ==
  /\ message \in Message
  /\ header \in Headers(message)
  /\ pc = "words" /\ pos = 0 /\ sum = 0 /\ checksum = 0 /\ total = 0 /\ folds = 0

\* Mutant: the sum is kept in a u16.
AddU16(a, b) == (a + b) % U16

\* u32 addition; a build without overflow checks wraps.
Add(a, b) == (a + b) % U32

U16FromBe(hi, lo) == hi * Base + lo

-----------------------------------------------------------------------------

Adds(n) == sum' = Add(sum, n) /\ total' = total + n

\* while data.len() >= 2
SumWord ==
  /\ pc = "words" /\ pos + 2 <= Len(message)
  /\ Adds(U16FromBe(message[pos + 1], message[pos + 2]))
  /\ pos' = pos + 2
  /\ UNCHANGED <<message, header, pc, checksum, folds>>

\* If odd then checksum the last byte.
SumLast ==
  /\ pc = "words" /\ pos + 2 > Len(message)
  /\ IF Len(message) % 2 # 0 THEN Adds(message[pos + 1] * Base) ELSE UNCHANGED <<sum, total>>
  /\ pc' = "header" /\ UNCHANGED <<message, header, pos, checksum, folds>>

AddHeader ==
  /\ pc = "header" /\ Adds(header)
  /\ pc' = "carry" /\ UNCHANGED <<message, header, pos, checksum, folds>>

\* Mutant: the carry is cut off, not added.
CarryDropped(s) == s % U16

\* Mutant: the sum modulo 65535, which has one zero only.
CarryModulo(s) == s % (U16 - 1)

\* Mutant: one carry at a time.
CarrySlowly(s) == s - U16 + 1

\* (sum >> 16) + (sum & 0xFFFF)
Fold(s) == (s \div U16) + (s % U16)

\* while sum >> 16 != 0
Carry ==
  /\ pc = "carry" /\ sum \div U16 # 0
  /\ sum' = Fold(sum) /\ folds' = folds + 1
  /\ UNCHANGED <<message, header, pc, pos, checksum, total>>

\* Mutant: the complement is not cut to 16 bits.
ComplementU32(s) == U32 - 1 - s

\* !sum as u16
Complement(s) == U16 - 1 - (s % U16)

Finish ==
  /\ pc = "carry" /\ sum \div U16 = 0
  /\ checksum' = Complement(sum)
  /\ pc' = "done" /\ UNCHANGED <<message, header, pos, sum, total, folds>>

Next == SumWord \/ SumLast \/ AddHeader \/ Carry \/ Finish

Spec == Init /\ [][Next]_vars

-----------------------------------------------------------------------------
(* Properties.                                                             *)

\* Every variable has its type; the checksum fits its field.
TypeOK ==
  /\ message \in Message /\ header \in Headers(message)
  /\ pc \in {"words", "header", "carry", "done"}
  /\ pos \in 0 .. Len(message)
  /\ sum \in 0 .. U32 - 1 /\ checksum \in 0 .. U16 - 1
  /\ total \in Nat /\ folds \in Nat

\* "sum +=" never overflows its u32 for a message that fits an IP packet, all
\* bytes 0xFF and the pseudo header included (packet.rs:65, 72, 351).
NoOverflow == pc \in {"words", "header"} \/ folds = 0 => sum = total

\* The receiver's test succeeds: checksum and everything it covers sum to a
\* multiple of 0xFFFF other than 0 (packet.rs:354-357, 863-866).
ChecksumCompletes ==
  pc = "done" => total + checksum > 0 /\ (total + checksum) % (U16 - 1) = 0

\* Of the two zeros of one's complement the code always stores the same: 0xFFFF
\* for a packet of zeros only, 0 for every other multiple of 0xFFFF, so that
\* verify_checksum, which compares, agrees with with_checksum (packet.rs:878).
OneZero == pc = "done" => (checksum = U16 - 1 <=> total = 0)

\* "handle the carry": adding the carry may carry once more, but not again
\* (packet.rs:354, 863).
FoldsTwice == folds <= 2

=============================================================================
