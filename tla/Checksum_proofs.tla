-------------------------- MODULE Checksum_proofs --------------------------
(***************************************************************************)
(* Theorems about Checksum, for every base, message length and pseudo      *)
(* header within ChecksumAssumption.                                       *)
(***************************************************************************)
EXTENDS Checksum, TLAPS

-----------------------------------------------------------------------------
(* Arithmetic.                                                             *)

\* u16 and u32 are what they are called: a u16 has at least four values, and a
\* u32 is a pair of them.
LEMMA Widths == U16 \in Nat /\ U16 >= 4 /\ U32 \in Nat /\ U32 = U16 * U16 /\ U16 <= U32
  <1>1. Base \in Nat /\ Base >= 2
    BY ChecksumAssumption
  <1>2. \A b \in Nat : b >= 2 => b * b \in Nat /\ b * b >= 2 * b
    BY SMT
  <1>3. U16 \in Nat /\ U16 >= 4
    BY <1>1, <1>2 DEF U16
  <1>4. \A m \in Nat : m >= 4 => m * m \in Nat /\ m <= m * m
    BY SMT
  <1> QED
    BY <1>3, <1>4 DEF U32

\* The values of the code satisfy ChecksumAssumption: two addresses of 0xFFFF words,
\* protocol 58 and 65535 bytes of 0xFF.
LEMMA CodeFits == 16 * 65535 + 58 + 65535 + 65535 * 32768 < 65536 * 65536
  BY SMT

\* Multiplication by a constant keeps the order.
LEMMA TimesMonotone ==
  ASSUME NEW d \in Nat, NEW a \in Nat, NEW b \in Nat, a <= b
  PROVE  d * a \in Nat /\ d * b \in Nat /\ d * a <= d * b
  <1>1. PICK c \in Nat : b = a + c
    <2> WITNESS b - a \in Nat
    <2> QED BY SMT
  <1>2. d * b = d * a + d * c /\ d * c \in Nat /\ d * a \in Nat
    BY <1>1, SMT
  <1> QED
    BY <1>2, SMT

\* One more factor.
LEMMA TimesPlus ==
  ASSUME NEW d \in Nat, NEW a \in Nat, NEW b \in Nat
  PROVE  d * (a + b) = d * a + d * b /\ d * a \in Nat /\ d * b \in Nat
  BY SMT

\* A multiple leaves no remainder.
LEMMA MultipleMod ==
  ASSUME NEW d \in Nat, d > 0, NEW k \in Nat
  PROVE  (d * k) % d = 0
  <1> DEFINE q == (d * k) \div d
  <1> DEFINE r == (d * k) % d
  <1>1. d * k \in Nat
    BY SMT
  <1>2. q \in Nat /\ r \in Nat /\ r < d /\ d * k = d * q + r
    BY <1>1, SMT
  <1> HIDE DEF q, r
  <1>3. CASE k = q
    BY <1>2, <1>3, SMT
  <1>4. CASE q + 1 <= k
    <2>1. d * (q + 1) <= d * k
      BY <1>2, <1>4, TimesMonotone
    <2>2. d * (q + 1) = d * q + d
      BY <1>2, SMT
    <2> QED
      BY <2>1, <2>2, <1>1, <1>2, SMT
  <1>5. CASE k + 1 <= q
    <2>1. d * (k + 1) <= d * q
      BY <1>2, <1>5, TimesMonotone
    <2>2. d * (k + 1) = d * k + d
      BY SMT
    <2> QED
      BY <2>1, <2>2, <1>1, <1>2, SMT
  <1>6. r = 0
    BY <1>2, <1>3, <1>4, <1>5, SMT
  <1> QED
    BY <1>6 DEF r

\* A word is a u16.
LEMMA WordFits ==
  ASSUME NEW hi \in Byte, NEW lo \in Byte
  PROVE  /\ U16FromBe(hi, lo) \in 0 .. U16 - 1
         /\ hi * Base \in 0 .. U16 - 1
  <1>1. Base \in Nat /\ Base >= 2 /\ hi \in Nat /\ hi <= Base - 1 /\ lo \in Nat /\ lo <= Base - 1
    BY ChecksumAssumption DEF Byte
  <1>2. Base * hi <= Base * (Base - 1) /\ Base * hi \in Nat
    BY <1>1, TimesMonotone
  <1>3. Base * (Base - 1) = Base * Base - Base /\ hi * Base = Base * hi
    BY <1>1, SMT
  <1> QED
    BY <1>1, <1>2, <1>3, SMT DEF U16FromBe, U16

\* One turn of the carry loop takes a multiple of 0xFFFF away, never all of it,
\* and less of the second half is left each time.
LEMMA FoldFacts ==
  ASSUME NEW s \in 0 .. U32 - 1, s \div U16 # 0
  PROVE  /\ \E q \in Nat : s = Fold(s) + (U16 - 1) * q
         /\ Fold(s) \in 1 .. 2 * U16 - 2
         /\ s <= 2 * U16 - 2 => Fold(s) < U16
  <1> DEFINE q == s \div U16
  <1> DEFINE r == s % U16
  <1>1. U16 \in Nat /\ U16 >= 4 /\ U32 = U16 * U16 /\ s \in Nat /\ s < U32
    BY Widths, SMT
  <1>2. q \in Nat /\ r \in Nat /\ r < U16 /\ s = U16 * q + r
    BY <1>1, SMT
  <1>3. q >= 1
    BY <1>2, SMT
  <1>4. Fold(s) = q + r
    BY DEF Fold
  <1> HIDE DEF q, r
  <1>5. q < U16
    <2>1. SUFFICES ASSUME U16 <= q PROVE FALSE
      BY <1>1, <1>2, SMT
    <2>2. U16 * U16 <= U16 * q
      BY <2>1, <1>1, <1>2, TimesMonotone
    <2> QED
      BY <2>2, <1>1, <1>2, SMT
  <1>6. U16 * q = (U16 - 1) * q + q /\ (U16 - 1) * q \in Nat
    BY <1>1, <1>2, SMT
  <1>7. s = Fold(s) + (U16 - 1) * q
    BY <1>1, <1>2, <1>4, <1>6, SMT
  <1>8. Fold(s) \in 1 .. 2 * U16 - 2
    BY <1>1, <1>2, <1>3, <1>4, <1>5, SMT
  <1>9. ASSUME s <= 2 * U16 - 2 PROVE Fold(s) < U16
    <2>1. q = 1
      <3>1. SUFFICES ASSUME q >= 2 PROVE FALSE
        BY <1>2, <1>3, SMT
      <3>2. U16 * 2 <= U16 * q
        BY <3>1, <1>1, <1>2, TimesMonotone
      <3> QED
        BY <3>2, <1>1, <1>2, <1>9, SMT
    <2> QED
      BY <2>1, <1>1, <1>2, <1>4, <1>9, SMT
  <1> QED
    BY <1>2, <1>7, <1>8, <1>9

\* There are messages of up to MaxLen bytes, and indexing one gives a byte.
LEMMA MessageFacts ==
  ASSUME NEW m \in Message
  PROVE  Len(m) \in 0 .. MaxLen /\ \A i \in 1 .. Len(m) : m[i] \in Byte
  <1>1. PICK n \in 0 .. MaxLen : m \in [1 .. n -> Byte]
    BY DEF Message
  <1>2. MaxLen \in Nat
    BY ChecksumAssumption
  <1>3. n \in Nat
    BY <1>1, <1>2, SMT
  <1>4. m \in Seq(Byte)
    BY <1>1, <1>3
  <1>5. Len(m) = n
    BY <1>1, <1>3, <1>4, SMT
  <1> QED
    BY <1>1, <1>5

-----------------------------------------------------------------------------
(* The inductive invariant.                                                *)

\* The sum of w words; while the words are summed no wrap has happened and each
\* added at most 0xFFFF.
SumBounded ==
  /\ pc = "words" => \E w \in Nat : pos = 2 * w /\ total <= (U16 - 1) * w
  /\ pc = "header" => total <= (U16 - 1) * MaxWords
  /\ pc \in {"words", "header"} => folds = 0

\* The carry loop has only taken multiples of 0xFFFF from the sum.
SumCongruent ==
  pc \in {"carry", "done"} =>
    /\ \E k \in Nat : total = sum + (U16 - 1) * k
    /\ sum = 0 <=> total = 0

\* How large the sum can be after each turn.
SumShrinks ==
  /\ folds = 1 => sum <= 2 * U16 - 2
  /\ folds = 2 => sum < U16
  /\ folds <= 2

\* What is returned.
Returned == pc = "done" => sum < U16 /\ checksum = U16 - 1 - sum

ChecksumInv == TypeOK /\ NoOverflow /\ SumBounded /\ SumCongruent /\ SumShrinks /\ Returned

\* The sum of a whole message and its header stays below the limit of the u32.
LEMMA Limits ==
  ASSUME TypeOK
  PROVE  /\ MaxWords \in Nat /\ (U16 - 1) * MaxWords \in Nat
         /\ header \in Nat /\ header + (U16 - 1) * MaxWords < U32
         /\ (U16 - 1) * MaxWords < U32
         /\ Len(message) \in Nat /\ (Len(message) + 1) \div 2 <= MaxWords
  <1>1. MaxLen \in Nat /\ NextHeader \in Nat /\ AddressSums \subseteq Nat
    BY ChecksumAssumption
  <1>2. MaxWords \in Nat
    BY <1>1, SMT DEF MaxWords
  <1>3. U16 - 1 \in Nat
    BY Widths, SMT
  <1>4. (U16 - 1) * MaxWords \in Nat
    BY <1>2, <1>3, TimesMonotone
  <1>5. Len(message) \in 0 .. MaxLen
    BY MessageFacts DEF TypeOK
  <1>6. (Len(message) + 1) \div 2 <= MaxWords
    BY <1>1, <1>5, SMT DEF MaxWords
  <1>7. (U16 - 1) * MaxWords < U32
    BY ChecksumAssumption
  <1>8. CASE header = 0
    BY <1>1, <1>2, <1>4, <1>5, <1>6, <1>7, <1>8, SMT
  <1>9. ASSUME NEW a \in AddressSums, header = a + NextHeader + Len(message)
        PROVE  header \in Nat /\ header + (U16 - 1) * MaxWords < U32
    <2>1. a \in Nat /\ a + NextHeader + MaxLen + (U16 - 1) * MaxWords < U32
      BY <1>1, <1>9, ChecksumAssumption
    <2>2. U32 \in Nat
      BY Widths
    <2> HIDE DEF U32, U16, MaxWords
    <2> QED
      BY <1>1, <1>4, <1>5, <1>9, <2>1, <2>2, SMT
  <1> QED
    BY <1>1, <1>2, <1>4, <1>5, <1>6, <1>7, <1>8, <1>9 DEF TypeOK, Headers

\* An addition whose true result is below the limit is exact.
LEMMA AddExact ==
  ASSUME NEW a \in Nat, NEW b \in Nat, a + b < U32
  PROVE  Add(a, b) = a + b
  BY Widths, SMT DEF Add

\* Before the first turn of a loop the invariant holds.
LEMMA InitInv == Init => ChecksumInv
  <1> SUFFICES ASSUME Init PROVE ChecksumInv
    OBVIOUS
  <1>1. U16 \in Nat /\ U16 >= 4 /\ U32 \in Nat /\ U16 <= U32
    BY Widths
  <1>2. Len(message) \in Nat
    BY MessageFacts, ChecksumAssumption, SMT DEF Init
  <1>3. TypeOK
    BY <1>1, <1>2, SMT DEF Init, TypeOK
  <1>4. SumBounded
    <2>1. 0 = 2 * 0 /\ 0 <= (U16 - 1) * 0
      BY <1>1, SMT
    <2> QED
      BY <2>1, SMT DEF Init, SumBounded
  <1> QED
    BY <1>3, <1>4, SMT DEF Init, ChecksumInv, NoOverflow, SumCongruent, SumShrinks, Returned

\* Summing the next word.
LEMMA SumWordStep ==
  ASSUME ChecksumInv, SumWord
  PROVE  ChecksumInv'
  <1> DEFINE n == U16FromBe(message[pos + 1], message[pos + 2])
  <1>1. U16 \in Nat /\ U16 >= 4 /\ U32 \in Nat /\ U16 <= U32
    BY Widths
  <1>2. pos \in Nat /\ Len(message) \in Nat /\ pos + 2 <= Len(message) /\ sum = total
        /\ total \in Nat /\ folds = 0 /\ pc = "words"
    BY Limits, SMT DEF ChecksumInv, TypeOK, SumWord, SumBounded, NoOverflow
  <1>3. n \in 0 .. U16 - 1
    <2>1. pos + 1 \in 1 .. Len(message) /\ pos + 2 \in 1 .. Len(message)
      BY <1>2, SMT
    <2>2. message[pos + 1] \in Byte /\ message[pos + 2] \in Byte
      BY <2>1, MessageFacts DEF ChecksumInv, TypeOK
    <2> QED
      BY <2>2, WordFits
  <1> HIDE DEF n
  <1>4. PICK w \in Nat : pos = 2 * w /\ total <= (U16 - 1) * w
    BY <1>2 DEF ChecksumInv, SumBounded
  <1>5. pos + 2 = 2 * (w + 1) /\ w + 1 \in Nat /\ w + 1 <= MaxWords
    BY <1>2, <1>4, Limits, SMT DEF ChecksumInv
  <1>6. total + n <= (U16 - 1) * (w + 1)
    <2>1. U16 - 1 \in Nat
      BY <1>1, SMT
    <2>2. (U16 - 1) * (w + 1) = (U16 - 1) * w + (U16 - 1) * 1 /\ (U16 - 1) * w \in Nat
      BY <2>1, TimesPlus
    <2>3. (U16 - 1) * 1 = U16 - 1
      BY <2>1, SMT
    <2> QED
      BY <1>1, <1>2, <1>3, <1>4, <2>2, <2>3, SMT
  <1>7. (U16 - 1) * (w + 1) <= (U16 - 1) * MaxWords /\ (U16 - 1) * (w + 1) \in Nat
    <2>1. U16 - 1 \in Nat /\ MaxWords \in Nat
      BY <1>1, Limits, SMT DEF ChecksumInv
    <2> QED
      BY <1>5, <2>1, TimesMonotone
  <1>8. total + n < U32
    BY <1>1, <1>2, <1>3, <1>6, <1>7, Limits, SMT DEF ChecksumInv
  <1>9. sum' = total + n /\ total' = total + n
    <2>1. Add(sum, n) = total + n
      BY <1>2, <1>3, <1>8, AddExact
    <2> QED
      BY <2>1 DEF SumWord, Adds, n
  <1>10. pos' = pos + 2 /\ UNCHANGED <<message, header, pc, checksum, folds>>
    BY DEF SumWord
  <1>11. TypeOK'
    BY <1>1, <1>2, <1>3, <1>8, <1>9, <1>10, SMT DEF ChecksumInv, TypeOK
  <1>12. SumBounded'
    BY <1>2, <1>5, <1>6, <1>9, <1>10 DEF SumBounded
  <1> QED
    BY <1>2, <1>9, <1>10, <1>11, <1>12, SMT
       DEF ChecksumInv, NoOverflow, SumCongruent, SumShrinks, Returned

\* Summing the last byte of an odd message.
LEMMA SumLastStep ==
  ASSUME ChecksumInv, SumLast
  PROVE  ChecksumInv'
  <1>1. U16 \in Nat /\ U16 >= 4 /\ U32 \in Nat /\ U16 <= U32
    BY Widths
  <1>2. pos \in Nat /\ Len(message) \in Nat /\ pos <= Len(message) /\ pos + 2 > Len(message)
        /\ sum = total /\ total \in Nat /\ folds = 0 /\ pc = "words"
    BY Limits, SMT DEF ChecksumInv, TypeOK, SumLast, SumBounded, NoOverflow
  <1>3. MaxWords \in Nat /\ U16 - 1 \in Nat /\ (U16 - 1) * MaxWords \in Nat
        /\ (U16 - 1) * MaxWords < U32 /\ (Len(message) + 1) \div 2 <= MaxWords
    BY <1>1, Limits, SMT DEF ChecksumInv
  <1>4. PICK w \in Nat : pos = 2 * w /\ total <= (U16 - 1) * w
    BY <1>2 DEF ChecksumInv, SumBounded
  <1>5. sum' = total' /\ total' \in Nat /\ total' <= (U16 - 1) * MaxWords
    <2>1. CASE Len(message) % 2 # 0
      <3> DEFINE n == message[pos + 1] * Base
      <3>1. pos + 1 \in 1 .. Len(message) /\ w + 1 \in Nat /\ w + 1 <= MaxWords
        BY <1>2, <1>3, <1>4, <2>1, SMT
      <3>2. message[pos + 1] \in Byte
        BY <3>1, MessageFacts DEF ChecksumInv, TypeOK
      <3>3. n \in 0 .. U16 - 1
        BY <3>2, WordFits
      <3> HIDE DEF n
      <3>4. (U16 - 1) * (w + 1) = (U16 - 1) * w + (U16 - 1) * 1 /\ (U16 - 1) * w \in Nat
        BY <1>3, TimesPlus
      <3>5. (U16 - 1) * 1 = U16 - 1
        BY <1>3, SMT
      <3>6. (U16 - 1) * (w + 1) <= (U16 - 1) * MaxWords
        BY <1>3, <3>1, TimesMonotone
      <3>7. total + n <= (U16 - 1) * MaxWords /\ total + n \in Nat /\ n \in Nat
        BY <1>1, <1>2, <1>3, <1>4, <3>3, <3>4, <3>5, <3>6, SMT
      <3>8. Add(sum, n) = total + n
        <4>1. total + n < U32
          BY <1>1, <1>3, <3>7, SMT
        <4> QED
          BY <1>2, <3>7, <4>1, AddExact
      <3>9. sum' = Add(sum, n) /\ total' = total + n
        BY <2>1 DEF SumLast, Adds, n
      <3> QED
        BY <3>7, <3>8, <3>9
    <2>2. CASE ~(Len(message) % 2 # 0)
      <3>1. w <= MaxWords
        BY <1>2, <1>3, <1>4, <2>2, SMT
      <3>2. (U16 - 1) * w <= (U16 - 1) * MaxWords /\ (U16 - 1) * w \in Nat
        BY <1>3, <3>1, TimesMonotone
      <3>3. sum' = sum /\ total' = total
        BY <2>2 DEF SumLast
      <3> QED
        BY <1>2, <1>3, <1>4, <3>2, <3>3, SMT
    <2> QED
      BY <2>1, <2>2
  <1>6. pc' = "header" /\ UNCHANGED <<message, header, pos, checksum, folds>>
    BY DEF SumLast
  <1>7. TypeOK'
    BY <1>1, <1>2, <1>3, <1>5, <1>6, SMT DEF ChecksumInv, TypeOK
  <1>8. SumBounded'
    BY <1>2, <1>5, <1>6 DEF SumBounded, MaxWords, U16
  <1> QED
    BY <1>2, <1>5, <1>6, <1>7, <1>8, SMT
       DEF ChecksumInv, NoOverflow, SumCongruent, SumShrinks, Returned

\* Adding the pseudo header.
LEMMA AddHeaderStep ==
  ASSUME ChecksumInv, AddHeader
  PROVE  ChecksumInv'
  <1>1. U16 \in Nat /\ U16 >= 4 /\ U32 \in Nat /\ U16 <= U32 /\ U16 - 1 \in Nat
    BY Widths, SMT
  <1>2. sum = total /\ total \in Nat /\ folds = 0 /\ pc = "header"
        /\ total <= (U16 - 1) * MaxWords
    BY DEF ChecksumInv, TypeOK, AddHeader, SumBounded, NoOverflow
  <1>3. header \in Nat /\ (U16 - 1) * MaxWords \in Nat /\ header + (U16 - 1) * MaxWords < U32
    BY Limits DEF ChecksumInv
  <1>4. total + header < U32
    BY <1>1, <1>2, <1>3, SMT
  <1>5. sum' = total + header /\ total' = total + header
    <2>1. Add(sum, header) = total + header
      BY <1>2, <1>3, <1>4, AddExact
    <2> QED
      BY <2>1 DEF AddHeader, Adds
  <1>6. pc' = "carry" /\ UNCHANGED <<message, header, pos, checksum, folds>>
    BY DEF AddHeader
  <1>7. TypeOK'
    BY <1>1, <1>2, <1>3, <1>4, <1>5, <1>6, SMT DEF ChecksumInv, TypeOK
  <1>8. SumCongruent'
    <2>1. total' = sum' + (U16 - 1) * 0
      BY <1>1, <1>2, <1>3, <1>5, SMT
    <2> QED
      BY <2>1, <1>5 DEF SumCongruent, U16
  <1> QED
    BY <1>2, <1>5, <1>6, <1>7, <1>8, SMT
       DEF ChecksumInv, NoOverflow, SumBounded, SumShrinks, Returned

\* One turn of the carry loop.
LEMMA CarryStep ==
  ASSUME ChecksumInv, Carry
  PROVE  ChecksumInv'
  <1>1. U16 \in Nat /\ U16 >= 4 /\ U32 \in Nat /\ U16 <= U32 /\ U16 - 1 \in Nat
        /\ U32 = U16 * U16
    BY Widths, SMT
  <1>2. sum \in 0 .. U32 - 1 /\ sum \div U16 # 0 /\ pc = "carry" /\ total \in Nat /\ folds \in Nat
    BY DEF ChecksumInv, TypeOK, Carry
  <1>3. sum' = Fold(sum) /\ folds' = folds + 1
        /\ UNCHANGED <<message, header, pc, pos, checksum, total>>
    BY DEF Carry
  <1>4. PICK q \in Nat : sum = sum' + (U16 - 1) * q
    BY <1>2, <1>3, FoldFacts
  <1>5. sum' \in 1 .. 2 * U16 - 2 /\ (sum <= 2 * U16 - 2 => sum' < U16)
    BY <1>2, <1>3, FoldFacts
  <1>6. PICK k \in Nat : total = sum + (U16 - 1) * k
    BY <1>2 DEF ChecksumInv, SumCongruent
  <1>7. total = sum' + (U16 - 1) * (k + q) /\ k + q \in Nat
    <2>1. (U16 - 1) * (k + q) = (U16 - 1) * k + (U16 - 1) * q
          /\ (U16 - 1) * k \in Nat /\ (U16 - 1) * q \in Nat
      BY <1>1, TimesPlus
    <2> QED
      BY <1>1, <1>2, <1>4, <1>5, <1>6, <2>1, SMT
  <1>8. SumCongruent'
    <2>1. total > 0 /\ sum' > 0
      <3> DEFINE x == (U16 - 1) * (k + q)
      <3>1. x \in Nat /\ total = sum' + x
        BY <1>1, <1>7, TimesMonotone
      <3> HIDE DEF x
      <3>2. sum' \in Nat /\ sum' > 0
        <4>1. U16 \in Nat
          BY <1>1
        <4> QED
          BY <1>5, <4>1, SMT
      <3>3. \A a, b \in Nat : a > 0 => a + b > 0
        BY SMT
      <3> QED
        BY <3>1, <3>2, <3>3
    <2>2. ~(sum' = 0) /\ ~(total' = 0)
      BY <2>1, <1>1, <1>2, <1>3, <1>5, SMT
    <2>3. \E j \in Nat : total' = sum' + (U16 - 1) * j
      BY <1>3, <1>7
    <2> QED
      BY <2>2, <2>3 DEF SumCongruent, U16
  <1>9. 2 * U16 - 2 <= U32 - 1
    <2>1. \A m \in Nat : m >= 4 => 2 * m - 2 <= m * m - 1
      BY SMT
    <2> QED
      BY <2>1, <1>1
  <1>10. TypeOK'
    BY <1>1, <1>2, <1>3, <1>5, <1>9, SMT DEF ChecksumInv, TypeOK
  <1>11. sum >= U16
    BY <1>1, <1>2, SMT
  <1>12. SumShrinks'
    BY <1>1, <1>2, <1>3, <1>5, <1>11, SMT DEF ChecksumInv, SumShrinks
  <1> QED
    BY <1>2, <1>3, <1>8, <1>10, <1>12, SMT DEF ChecksumInv, NoOverflow, SumBounded, Returned

\* Returning the complement.
LEMMA FinishStep ==
  ASSUME ChecksumInv, Finish
  PROVE  ChecksumInv'
  <1>1. U16 \in Nat /\ U16 >= 4 /\ U32 \in Nat /\ U16 <= U32
    BY Widths
  <1>2. sum \in 0 .. U32 - 1 /\ sum \div U16 = 0 /\ pc = "carry"
    BY DEF ChecksumInv, TypeOK, Finish
  <1>3. sum < U16 /\ sum % U16 = sum
    BY <1>1, <1>2, SMT
  <1>4. checksum' = U16 - 1 - sum /\ pc' = "done"
        /\ UNCHANGED <<message, header, pos, sum, total, folds>>
    BY <1>3 DEF Finish, Complement
  <1>5. TypeOK'
    BY <1>1, <1>2, <1>3, <1>4, SMT DEF ChecksumInv, TypeOK
  <1>6. SumCongruent'
    BY <1>2, <1>4 DEF ChecksumInv, SumCongruent, U16
  <1> QED
    BY <1>2, <1>3, <1>4, <1>5, <1>6, SMT DEF ChecksumInv, NoOverflow, SumBounded, SumShrinks, Returned

-----------------------------------------------------------------------------
(* Theorems.                                                               *)

\* The invariant of calculate_checksum holds in every state.
THEOREM ChecksumInvariant == Spec => []ChecksumInv
  <1>1. ChecksumInv /\ [Next]_vars => ChecksumInv'
    <2> SUFFICES ASSUME ChecksumInv, [Next]_vars PROVE ChecksumInv'
      OBVIOUS
    <2>1. CASE SumWord
      BY <2>1, SumWordStep
    <2>2. CASE SumLast
      BY <2>2, SumLastStep
    <2>3. CASE AddHeader
      BY <2>3, AddHeaderStep
    <2>4. CASE Carry
      BY <2>4, CarryStep
    <2>5. CASE Finish
      BY <2>5, FinishStep
    <2>6. CASE UNCHANGED vars
      BY <2>6 DEF vars, ChecksumInv, TypeOK, NoOverflow, SumBounded, SumCongruent, SumShrinks, Returned
    <2> QED
      BY <2>1, <2>2, <2>3, <2>4, <2>5, <2>6 DEF Next
  <1> QED
    BY <1>1, InitInv, PTL DEF Spec

\* All variables keep their types; the checksum fits its u16 field.
THEOREM ChecksumTypes == Spec => []TypeOK
  <1>1. ChecksumInv => TypeOK
    BY DEF ChecksumInv
  <1> QED
    BY <1>1, ChecksumInvariant, PTL

\* The u32 additions of sum_big_endian_words and calculate_checksum never
\* overflow, whatever the bytes and addresses.
THEOREM SumNeverOverflows == Spec => []NoOverflow
  <1>1. ChecksumInv => NoOverflow
    BY DEF ChecksumInv
  <1> QED
    BY <1>1, ChecksumInvariant, PTL

\* The carry loop runs at most twice.
THEOREM CarryLoopEnds == Spec => []FoldsTwice
  <1>1. ChecksumInv => FoldsTwice
    BY DEF ChecksumInv, SumShrinks, FoldsTwice
  <1> QED
    BY <1>1, ChecksumInvariant, PTL

\* The checksum returned makes the receiver's sum a multiple of 0xFFFF, not 0.
THEOREM ChecksumCorrect == Spec => []ChecksumCompletes
  <1>1. ChecksumInv => ChecksumCompletes
    <2> SUFFICES ASSUME ChecksumInv, pc = "done"
                 PROVE  total + checksum > 0 /\ (total + checksum) % (U16 - 1) = 0
      BY DEF ChecksumCompletes
    <2>1. U16 - 1 \in Nat /\ U16 - 1 > 0 /\ U16 \in Nat
      BY Widths, SMT
    <2>2. PICK k \in Nat : total = sum + (U16 - 1) * k
      BY DEF ChecksumInv, SumCongruent
    <2>3. sum \in Nat /\ checksum = U16 - 1 - sum /\ checksum \in Nat /\ total \in Nat
      BY <2>1, Widths, SMT DEF ChecksumInv, TypeOK, Returned
    <2>4. (U16 - 1) * (k + 1) = (U16 - 1) * k + (U16 - 1) * 1 /\ (U16 - 1) * k \in Nat
      BY <2>1, TimesPlus
    <2>5. (U16 - 1) * 1 = U16 - 1
      BY <2>1, SMT
    <2>6. total + checksum = (U16 - 1) * (k + 1)
      <3> DEFINE x == (U16 - 1) * k
      <3>1. x \in Nat /\ total = sum + x /\ (U16 - 1) * (k + 1) = x + (U16 - 1)
        BY <2>2, <2>4, <2>5
      <3> HIDE DEF x
      <3> QED
        BY <2>1, <2>3, <3>1, SMT
    <2>7. total + checksum > 0
      <3> DEFINE x == (U16 - 1) * k
      <3>1. x \in Nat /\ total = sum + x
        BY <2>2, <2>4
      <3> HIDE DEF x
      <3> QED
        BY <2>1, <2>3, <3>1, SMT
    <2>8. ((U16 - 1) * (k + 1)) % (U16 - 1) = 0
      <3>1. k + 1 \in Nat
        BY <2>2, SMT
      <3> QED
        BY <2>1, <3>1, MultipleMod
    <2> QED
      BY <2>6, <2>7, <2>8
  <1> QED
    BY <1>1, ChecksumInvariant, PTL

\* 0xFFFF is returned for a sum of zero and for no other.
THEOREM ZeroUnique == Spec => []OneZero
  <1>1. ChecksumInv => OneZero
    <2> SUFFICES ASSUME ChecksumInv, pc = "done"
                 PROVE  checksum = U16 - 1 <=> total = 0
      BY DEF OneZero
    <2>1. sum = 0 <=> total = 0
      BY DEF ChecksumInv, SumCongruent
    <2>2. sum \in Nat /\ U16 \in Nat /\ checksum = U16 - 1 - sum
      BY Widths, SMT DEF ChecksumInv, TypeOK, Returned
    <2>3. checksum = U16 - 1 <=> sum = 0
      BY <2>2, SMT
    <2> QED
      BY <2>1, <2>3
  <1> QED
    BY <1>1, ChecksumInvariant, PTL

=============================================================================
