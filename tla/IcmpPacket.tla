----------------------------- MODULE IcmpPacket -----------------------------
(***************************************************************************)
(* The packet types of icmp-socket2 (packet.rs), on bytes: a packet is     *)
(* built by a constructor, gets its checksum, is serialized, crosses the   *)
(* network, is parsed by the receiver and verified.  The network may put   *)
(* an IPv4 header in front (raw sockets, macOS ping sockets) and may flip  *)
(* a bit; packets of other hosts are of any type and length.               *)
(*                                                                         *)
(* A u32 is the pair of its 16-bit halves.  A parsed message is its shape, *)
(* its numeric fields in order, and the bytes that follow them.            *)
(***************************************************************************)
EXTENDS Integers, Sequences

CONSTANTS
  U16,          \* 16-bit field values (identifier, sequence, halves of u32)
  Code,         \* codes callers pass to constructors
  Payload,      \* byte strings callers pass as payload or invoking packet
  PseudoSum,    \* sum of the 16-bit words of source and destination address
  Stamps,       \* the three u32 timestamps, as six halves
  HeaderWords,  \* IHL values of the IPv4 headers on the way in
  ForeignHead,  \* per protocol, types and codes of the packets other hosts send
  ForeignBody   \* what follows the checksum in those packets

Byte == 0 .. 255
Word == 0 .. 65535

\* Minus zero in one's complement.
AllOnes == 65535

ASSUME PacketAssumption ==
  /\ U16 \subseteq Word /\ Code \subseteq Byte
  /\ Payload \cup ForeignBody \subseteq Seq(Byte)
  /\ Stamps \subseteq [1 .. 6 -> Word] /\ ForeignHead \in [BOOLEAN -> SUBSET (Byte \X Byte)]
  /\ PseudoSum \in Nat /\ HeaderWords \subseteq 5 .. 15

VARIABLES
  v6,       \* the protocol: TRUE for Icmpv6Packet, FALSE for Icmpv4Packet
  stage,    \* where the packet is: "new", "refused", "built", "sent", "arrived", "parsed"
  packet,   \* the packet the constructor built
  wire,     \* the bytes of the ICMP message on the network
  damaged,  \* one bit of it was changed on the way
  bytes,    \* what the receiver's system call returned
  seen      \* what the parser made of it

vars == <<v6, stage, packet, wire, damaged, bytes, seen>>

-----------------------------------------------------------------------------
(* Numbers and checksums.                                                  *)

U16FromBe(b) == 256 * b[1] + b[2]
U16ToBe(n) == <<n \div 256, n % 256>>

\* The 16-bit words of an even number of bytes, and back.
Halves(b) == [i \in 1 .. Len(b) \div 2 |-> U16FromBe(SubSeq(b, 2 * i - 1, 2 * i))]
HalvesToBe(w) == [i \in 1 .. 2 * Len(w) |-> U16ToBe(w[(i + 1) \div 2])[IF i % 2 = 1 THEN 1 ELSE 2]]

\* The loop of sum_big_endian_words over whole words.
SumWholeWords(bs) ==
  LET words[i \in 0 .. Len(bs) \div 2] ==
        IF i = 0 THEN 0 ELSE words[i - 1] + U16FromBe(SubSeq(bs, 2 * i - 1, 2 * i))
  IN  words[Len(bs) \div 2]

\* Mutants: the last byte of an odd message is not shifted; it is left out.
SumOddUnshifted(bs) == SumWholeWords(bs) + (IF Len(bs) % 2 = 1 THEN bs[Len(bs)] ELSE 0)
SumSkipsOdd(bs) == SumWholeWords(bs)

\* sum_big_endian_words; an odd last byte is the high byte of a word.
SumBigEndianWords(bs) ==
  SumWholeWords(bs) + (IF Len(bs) % 2 = 1 THEN 256 * bs[Len(bs)] ELSE 0)

\* while sum >> 16 != 0 { sum = (sum >> 16) + (sum & 0xFFFF) }
HandleCarry(sum) ==
  LET fold[s \in Nat] == IF s \div 65536 = 0 THEN s ELSE fold[(s \div 65536) + (s % 65536)]
  IN  fold[sum]

-----------------------------------------------------------------------------
(* Messages.                                                               *)

\* The match on typ in Icmpv6Packet::parse.
Shape6(typ) ==
  CASE typ \in {1, 2, 3, 4, 100, 101, 200, 201} -> "word"
    [] typ \in {128, 129} -> "echo"
    [] OTHER -> "unknown"

\* The match on typ in Icmpv4Packet::parse_icmp.
Shape4(typ) ==
  CASE typ \in {3, 4, 5, 11} -> "word"
    [] typ \in {0, 8} -> "echo"
    [] typ = 12 -> "pointer"
    [] typ \in {13, 14} -> "stamps"
    [] typ \in {15, 16} -> "bare"
    [] OTHER -> "unknown"

Shape(typ) == IF v6 THEN Shape6(typ) ELSE Shape4(typ)

\* Icmpv6Message::get_bytes: the fields in order, then the payload.
FieldBytes(m) == HalvesToBe(m.fields) \o m.rest

\* Icmpv4Message::get_bytes; the fields of a parameter problem are two bytes
\* and a u16.
MessageBytes(m) ==
  IF m.shape = "pointer" THEN <<m.fields[1], m.fields[2]>> \o U16ToBe(m.fields[3]) \o m.rest
  ELSE FieldBytes(m)

GetBytes(p, with_checksum) ==
  <<p.typ, p.code>> \o U16ToBe(IF with_checksum THEN p.checksum ELSE 0) \o MessageBytes(p.message)

\* The IPv6 sum starts with the pseudo header: addresses, next header 58, length.
UnfoldedSum(p) ==
  LET b == GetBytes(p, FALSE)
  IN  (IF v6 THEN PseudoSum + 58 + Len(b) ELSE 0) + SumBigEndianWords(b)

\* Mutant: the sum is stored as it is.
ChecksumUnfolded(p) == UnfoldedSum(p)

\* !sum as u16.
CalculateChecksum(p) == 65535 - (HandleCarry(UnfoldedSum(p)) % 65536)

WithChecksum(p) == [p EXCEPT !.checksum = CalculateChecksum(p)]

VerifyChecksum(p) == CalculateChecksum(p) = p.checksum

NoPacket == [ok |-> FALSE]

\* Mutant: the payload starts one byte late.
RestLate(shape, b) == IF shape \in {"stamps", "bare"} THEN <<>> ELSE SubSeq(b, 10, Len(b))

\* The payload, header or invoking packet: all from the ninth byte on.
Rest(shape, b) == IF shape \in {"stamps", "bare"} THEN <<>> ELSE SubSeq(b, 9, Len(b))

\* parse_icmp, Icmpv6Packet::parse: at least 8 bytes, 20 for timestamps; the
\* messages of fixed size ignore what follows them.
ParseIcmp(b) ==
  LET shape == Shape(b[1])
      fields == CASE shape = "pointer" -> <<b[5], b[6], U16FromBe(SubSeq(b, 7, 8))>>
                  [] shape = "stamps" -> Halves(SubSeq(b, 5, 20))
                  [] OTHER -> Halves(SubSeq(b, 5, 8))
  IN  IF Len(b) < 8 \/ shape = "unknown" \/ (shape = "stamps" /\ Len(b) < 20) THEN NoPacket
      ELSE [ok |-> TRUE,
            packet |-> [typ |-> b[1], code |-> b[2], checksum |-> U16FromBe(SubSeq(b, 3, 4)),
                        message |-> [shape |-> shape, fields |-> fields, rest |-> Rest(shape, b)]]]

HasIpv4Header(b) == Len(b) > 0 /\ b[1] \div 16 = 4 /\ b[1] % 16 >= 5

\* Mutant: the header is taken to be 20 bytes long.
ParseFixedHeader(b) ==
  IF Len(b) < 28 THEN NoPacket ELSE ParseIcmp(SubSeq(b, 21, Len(b)))

\* Icmpv4Packet::parse: skip a header of IHL words.
Parse(b) ==
  LET header_len == 4 * (b[1] % 16)
  IN  IF Len(b) < 20 \/ header_len < 20 \/ Len(b) < header_len + 8 THEN NoPacket
      ELSE ParseIcmp(SubSeq(b, header_len + 1, Len(b)))

\* parse_auto of the IPv4 sockets; IcmpSocket6 parses from the first byte.
ParseAuto(b) == IF ~v6 /\ HasIpv4Header(b) THEN Parse(b) ELSE ParseIcmp(b)

-----------------------------------------------------------------------------
(* Constructors.                                                           *)

Init ==
  /\ v6 \in BOOLEAN
  /\ stage = "new" /\ packet = NoPacket /\ wire = <<>> /\ damaged = FALSE
  /\ bytes = <<>> /\ seen = NoPacket

Build(typ, code, shape, fields, rest) ==
  /\ stage = "new" /\ stage' = "built"
  /\ packet' = [typ |-> typ, code |-> code, checksum |-> 0,
                message |-> [shape |-> shape, fields |-> fields, rest |-> rest]]
  /\ UNCHANGED <<v6, wire, damaged, bytes, seen>>

\* IcmpPacketBuildError::InvalidCode.
Refuse ==
  stage = "new" /\ stage' = "refused" /\ UNCHANGED <<v6, packet, wire, damaged, bytes, seen>>

WithEchoRequest(identifier, sequence, payload) ==
  Build(IF v6 THEN 128 ELSE 8, 0, "echo", <<identifier, sequence>>, payload)

WithEchoReply(identifier, sequence, payload) ==
  Build(IF v6 THEN 129 ELSE 0, 0, "echo", <<identifier, sequence>>, payload)

WithTimestampRequest(identifier, sequence, stamps) ==
  ~v6 /\ Build(13, 0, "stamps", <<identifier, sequence>> \o stamps, <<>>)

WithTimestampReply(identifier, sequence, stamps) ==
  ~v6 /\ Build(14, 0, "stamps", <<identifier, sequence>> \o stamps, <<>>)

WithUnreachable(code, invoking) ==
  LET last == IF v6 THEN 6 ELSE 5
  IN  \/ code > last /\ Refuse
      \/ code <= last /\ Build(IF v6 THEN 1 ELSE 3, code, "word", <<0, 0>>, invoking)

WithTimeExceeded(code, invoking) ==
  \/ code > 1 /\ Refuse
  \/ code <= 1 /\ Build(IF v6 THEN 3 ELSE 11, code, "word", <<0, 0>>, invoking)

\* The pointer is a u32 in ICMPv6, a u8 in ICMPv4.
WithParameterProblem(code, pointer, invoking) ==
  \/ code > (IF v6 THEN 1 ELSE 0) /\ Refuse
  \/ v6 /\ code <= 1 /\ Build(4, code, "word", pointer, invoking)
  \/ ~v6 /\ code = 0 /\ pointer[1] = 0 /\ pointer[2] < 256
         /\ Build(12, code, "pointer", <<pointer[2], 0, 0>>, invoking)

WithPacketTooBig(mtu, invoking) == v6 /\ Build(2, 0, "word", mtu, invoking)

-----------------------------------------------------------------------------
(* The way from sender to receiver.                                        *)

\* with_checksum().get_bytes(true) of send_to.
Send ==
  /\ stage = "built" /\ stage' = "sent"
  /\ wire' = GetBytes(WithChecksum(packet), TRUE)
  /\ UNCHANGED <<v6, packet, damaged, bytes, seen>>

\* The bytes of a message one by one, each at its place in a 16-bit word.
ByteSum(b) ==
  LET total[i \in 0 .. Len(b)] ==
        IF i = 0 THEN 0 ELSE total[i - 1] + b[i] * (IF i % 2 = 1 THEN 256 ELSE 1)
  IN  total[Len(b)]

\* RFC 1071, the reference: with its checksum, the words of a message (and of
\* the pseudo header) sum to minus zero in one's complement.
WordSum(b) == (IF v6 THEN PseudoSum + 58 + Len(b) ELSE 0) + ByteSum(b)

ValidOnWire(b) == WordSum(b) > 0 /\ WordSum(b) % AllOnes = 0

\* Another host sends a packet of its own with a valid checksum (external).
ForeignSend(head, body) ==
  /\ stage = "new" /\ stage' = "sent"
  /\ LET sum == WordSum(head \o <<0, 0>> \o body)
     IN  \E checksum \in {(AllOnes - (sum % AllOnes)) % AllOnes, AllOnes - (sum % AllOnes)} :
           wire' = head \o U16ToBe(checksum) \o body
  /\ ValidOnWire(wire')
  /\ UNCHANGED <<v6, packet, damaged, bytes, seen>>

Flip(byte, k) == IF (byte \div 2^k) % 2 = 1 THEN byte - 2^k ELSE byte + 2^k

\* One bit changes on the way (external).
Corrupt(i, k) ==
  /\ stage = "sent" /\ ~damaged /\ damaged' = TRUE
  /\ i \in DOMAIN wire /\ wire' = [wire EXCEPT ![i] = Flip(@, k)]
  /\ UNCHANGED <<v6, stage, packet, bytes, seen>>

\* The kernel hands the message over, behind an IPv4 header of the given
\* number of words where the platform keeps it (external).
Deliver(words) ==
  /\ stage = "sent" /\ stage' = "arrived"
  /\ bytes' = [i \in 1 .. 4 * words |-> IF i = 1 THEN 64 + words ELSE 0] \o wire
  /\ UNCHANGED <<v6, packet, wire, damaged, seen>>

\* The parse at the end of rcv_from.
Receive ==
  /\ stage = "arrived" /\ stage' = "parsed"
  /\ seen' = ParseAuto(bytes)
  /\ UNCHANGED <<v6, packet, wire, damaged, bytes>>

Construct ==
  \/ \E identifier, sequence \in U16, payload \in Payload :
       \/ WithEchoRequest(identifier, sequence, payload)
       \/ WithEchoReply(identifier, sequence, payload)
  \/ \E identifier, sequence \in U16, stamps \in Stamps :
       \/ WithTimestampRequest(identifier, sequence, stamps)
       \/ WithTimestampReply(identifier, sequence, stamps)
  \/ \E code \in Code, invoking \in Payload :
       \/ WithUnreachable(code, invoking)
       \/ WithTimeExceeded(code, invoking)
       \/ \E pointer \in U16 \X U16 : WithParameterProblem(code, pointer, invoking)
  \/ \E mtu \in U16 \X U16, invoking \in Payload : WithPacketTooBig(mtu, invoking)

Network ==
  \/ \E head \in ForeignHead[v6], body \in ForeignBody : ForeignSend(head, body)
  \/ \E i \in DOMAIN wire, k \in 0 .. 7 : Corrupt(i, k)
  \/ \E words \in {0} \cup (IF v6 THEN {} ELSE HeaderWords) : Deliver(words)

Next == Construct \/ Send \/ Network \/ Receive

Spec == Init /\ [][Next]_vars

-----------------------------------------------------------------------------
(* Properties.                                                             *)

\* Every byte and every checksum fits its width: the carry loop of
\* calculate_checksum leaves 16 bits, and fields are cut at byte boundaries.
TypeOK ==
  /\ stage \in {"new", "refused", "built", "sent", "arrived", "parsed"}
  /\ v6 \in BOOLEAN /\ damaged \in BOOLEAN
  /\ \A b \in {wire, bytes} : \A i \in DOMAIN b : b[i] \in Byte
  /\ seen.ok => seen.packet.checksum \in Word

\* The parser kept every byte of the message.
Whole == Len(GetBytes(seen.packet, TRUE)) = Len(wire)

\* What a constructor built and send_to put on the wire is what the receiver's
\* parser returns, and it verifies, whatever the length of the IPv4 header in
\* front of it and whether or not there is one (parse_auto, parse, parse_icmp).
RoundTrip ==
  stage = "parsed" /\ packet # NoPacket /\ ~damaged =>
    seen.ok /\ seen.packet = WithChecksum(packet) /\ VerifyChecksum(seen.packet)

\* verify_checksum rejects every packet one of whose bits was changed, as long
\* as the parser kept the whole message: no flip of a bit, the type and the
\* checksum included, gives a packet that parses and verifies.
FlipDetected == stage = "parsed" /\ damaged /\ seen.ok /\ Whole => ~VerifyChecksum(seen.packet)

\* verify_checksum, which computes the checksum again over the parsed fields,
\* agrees with RFC 1071's sum over the bytes received: what it accepts is valid,
\* and it refuses a valid packet only for the other zero, a stored 0xFFFF.
VerifyMatchesRfc ==
  stage = "parsed" /\ seen.ok /\ Whole =>
    /\ VerifyChecksum(seen.packet) => ValidOnWire(wire)
    /\ ValidOnWire(wire) /\ seen.packet.checksum # AllOnes => VerifyChecksum(seen.packet)

\* get_bytes of a parsed packet gives back the bytes received, and drops any
\* only of the IPv4 messages of fixed size (types 13 to 16), past their end.
ParseKeepsMessage ==
  stage = "parsed" /\ seen.ok /\ ~(~v6 /\ HasIpv4Header(wire)) =>
    LET kept == GetBytes(seen.packet, TRUE)
    IN  /\ Len(kept) <= Len(wire) /\ kept = SubSeq(wire, 1, Len(kept))
        /\ Whole \/ (~v6 /\ wire[1] \in 13 .. 16)

=============================================================================
