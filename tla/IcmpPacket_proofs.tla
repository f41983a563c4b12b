-------------------------- MODULE IcmpPacket_proofs --------------------------
(***************************************************************************)
(* Proofs about IcmpPacket, for every payload, field value, address and    *)
(* header length: parsing gives back what a constructor built, and the     *)
(* verdict of verify_checksum is that of RFC 1071.                         *)
(*                                                                         *)
(* The sums are recursive functions.  LeastNatural gives induction over    *)
(* the naturals as a statement about sets, from which their equations and  *)
(* then their values follow.                                               *)
(***************************************************************************)
EXTENDS IcmpPacket, WellFoundedInduction, TLAPS

\* A byte as a number.
LEMMA ByteNat == \A x : x \in Byte <=> x \in Nat /\ x <= 255
BY DEF Byte

\* The length and the elements of a part of a sequence.
LEMMA SubSeqBytes ==
  ASSUME NEW S, NEW b \in Seq(S), NEW i \in 1 .. Len(b), NEW j \in i .. Len(b)
  PROVE  /\ SubSeq(b, i, j) \in Seq(S) /\ Len(SubSeq(b, i, j)) = j - i + 1
         /\ \A k \in 1 .. (j - i + 1) : SubSeq(b, i, j)[k] = b[i + k - 1]
OBVIOUS

\* Two adjacent bytes of a byte string, cut out.
LEMMA TwoBytes ==
  ASSUME NEW b \in Seq(Byte), NEW i \in 1 .. Len(b), i + 1 \in 1 .. Len(b)
  PROVE  /\ SubSeq(b, i, i + 1)[1] = b[i] /\ SubSeq(b, i, i + 1)[2] = b[i + 1]
         /\ U16FromBe(SubSeq(b, i, i + 1)) = 256 * b[i] + b[i + 1]
<1>1. SubSeq(b, i, i + 1)[1] = b[i] /\ SubSeq(b, i, i + 1)[2] = b[i + 1]
  OBVIOUS
<1> QED BY <1>1 DEF U16FromBe

-----------------------------------------------------------------------------
(* Induction.                                                              *)

\* Every nonempty set of naturals has a least element.
LEMMA LeastNatural ==
  ASSUME NEW T, T \subseteq Nat, T # {}
  PROVE  \E x \in T : \A y \in T : ~(y < x)
<1> DEFINE R == {ss \in Nat \X Nat : ss[1] < ss[2]}
<1>1. IsWellFoundedOn(R, Nat)
  BY NatLessThanWellFounded DEF OpToRel
<1>2. PICK x \in T : \A y \in T : ~(<<y, x>> \in R)
  <2> HIDE DEF R
  <2> QED BY Zenon, <1>1, WFMin
<1>3. ASSUME NEW y \in T, y < x PROVE FALSE
  <2>1. <<y, x>> \in Nat \X Nat
    OBVIOUS
  <2>2. <<y, x>>[1] < <<y, x>>[2]
    BY Zenon, <1>3
  <2>3. <<y, x>> \in R
    BY Zenon, <2>1, <2>2
  <2> QED BY Zenon, <1>2, <2>3
<1> QED BY Zenon, <1>3

\* A set of naturals that holds 0 and every successor holds them all.
LEMMA InductiveSet ==
  ASSUME NEW T, T \subseteq Nat, 0 \in T, \A n \in T : n + 1 \in T
  PROVE  \A n \in Nat : n \in T
<1> SUFFICES ASSUME Nat \ T # {} PROVE FALSE
  OBVIOUS
<1>1. PICK x \in Nat \ T : \A y \in Nat \ T : ~(y < x)
  <2> DEFINE U == Nat \ T
  <2>1. U \subseteq Nat /\ U # {}
    OBVIOUS
  <2> HIDE DEF U
  <2>2. PICK x \in U : \A y \in U : ~(y < x)
    BY Zenon, <2>1, LeastNatural
  <2> QED BY <2>2 DEF U
<1>2. x # 0 /\ x - 1 \in Nat /\ x - 1 < x /\ (x - 1) + 1 = x
  BY <1>1
<1>3. x - 1 \in T
  BY <1>1, <1>2
<1> QED BY <1>1, <1>2, <1>3

-----------------------------------------------------------------------------
(* Running sums: the recursive functions of SumWholeWords and ByteSum.     *)

\* g is the running sum of w up to n.
RunningSum(g, w, n) ==
  /\ g \in [0 .. n -> Nat] /\ g[0] = 0
  /\ \A i \in 1 .. n : g[i] = g[i - 1] + w[i]

\* The recursive definition has a solution.
LEMMA RunningSumExists ==
  ASSUME NEW n \in Nat, NEW w, \A i \in 1 .. n : w[i] \in Nat
  PROVE  \E g : RunningSum(g, w, n)
<1> DEFINE T == {k \in Nat : k <= n => \E g : RunningSum(g, w, k)}
<1>1. 0 \in T
  <2>1. RunningSum([i \in 0 .. 0 |-> 0], w, 0)
    BY DEF RunningSum
  <2> QED BY <2>1
<1>2. ASSUME NEW k \in T PROVE k + 1 \in T
  <2> SUFFICES ASSUME k + 1 <= n PROVE \E g : RunningSum(g, w, k + 1)
    OBVIOUS
  <2>1. PICK g : RunningSum(g, w, k)
    OBVIOUS
  <2> DEFINE h == [i \in 0 .. k + 1 |-> IF i = k + 1 THEN g[k] + w[k + 1] ELSE g[i]]
  <2>2. g[k] \in Nat /\ w[k + 1] \in Nat
    BY <2>1 DEF RunningSum
  <2>3. h \in [0 .. k + 1 -> Nat] /\ h[0] = 0
    BY <2>1, <2>2 DEF RunningSum
  <2>4. ASSUME NEW i \in 1 .. k + 1 PROVE h[i] = h[i - 1] + w[i]
    <3>1. CASE i = k + 1
      BY <3>1, <2>1, <2>2
    <3>2. CASE i \in 1 .. k
      BY <3>2, <2>1 DEF RunningSum
    <3> QED BY <3>1, <3>2
  <2>5. RunningSum(h, w, k + 1)
    BY <2>3, <2>4 DEF RunningSum
  <2> QED BY <2>5
<1>3. n \in T
  <2> HIDE DEF T
  <2>1. T \subseteq Nat
    BY DEF T
  <2> QED BY Zenon, <1>1, <1>2, <2>1, InductiveSet
<1> QED BY <1>3

\* Every function that solves the recursive definition is the running sum.
LEMMA RunningSumSolution ==
  ASSUME NEW n \in Nat, NEW w, \A i \in 1 .. n : w[i] \in Nat,
         NEW g, g = [i \in 0 .. n |-> IF i = 0 THEN 0 ELSE g[i - 1] + w[i]]
  PROVE  RunningSum(g, w, n)
<1>1. g[0] = 0 /\ \A i \in 1 .. n : g[i] = g[i - 1] + w[i]
  OBVIOUS
<1> DEFINE T == {k \in Nat : k <= n => g[k] \in Nat}
<1>2. 0 \in T
  BY <1>1
<1>3. ASSUME NEW k \in T PROVE k + 1 \in T
  BY <1>1
<1>4. \A k \in Nat : k \in T
  <2>1. T \subseteq Nat
    OBVIOUS
  <2> HIDE DEF T
  <2> QED BY Zenon, <1>2, <1>3, <2>1, InductiveSet
<1>5. \A k \in 0 .. n : g[k] \in Nat
  BY <1>4
<1> QED BY <1>1, <1>5 DEF RunningSum

\* The weight of byte i in its word, and the terms of the two sums.
Weight(i) == IF i % 2 = 1 THEN 256 ELSE 1
ByteTerms(b) == [i \in 1 .. Len(b) |-> b[i] * Weight(i)]
WordTerms(b) == [i \in 1 .. Len(b) \div 2 |-> U16FromBe(SubSeq(b, 2 * i - 1, 2 * i))]

\* Word i of a byte string is made of its bytes 2i - 1 and 2i.
LEMMA WordTerm ==
  ASSUME NEW b \in Seq(Byte), NEW i \in 1 .. Len(b) \div 2
  PROVE  /\ U16FromBe(SubSeq(b, 2 * i - 1, 2 * i)) = 256 * b[2 * i - 1] + b[2 * i]
         /\ U16FromBe(SubSeq(b, 2 * i - 1, 2 * i)) \in Nat
<1>1. 2 * i - 1 \in 1 .. Len(b) /\ 2 * i \in 1 .. Len(b)
  OBVIOUS
<1>2. PICK j \in 1 .. Len(b) : j = 2 * i - 1 /\ j + 1 = 2 * i
  BY <1>1
<1>3. b[2 * i - 1] \in Nat /\ b[2 * i] \in Nat
  BY <1>1, ByteNat
<1>4. U16FromBe(SubSeq(b, j, j + 1)) = 256 * b[j] + b[j + 1]
  BY <1>1, <1>2, TwoBytes
<1> QED BY <1>2, <1>3, <1>4

\* ByteSum is the last running sum of the weighted bytes.
LEMMA ByteSumRuns ==
  ASSUME NEW b \in Seq(Byte)
  PROVE  \E g : RunningSum(g, ByteTerms(b), Len(b)) /\ ByteSum(b) = g[Len(b)]
<1> DEFINE Solves(g) == g = [i \in 0 .. Len(b) |->
                               IF i = 0 THEN 0 ELSE g[i - 1] + b[i] * (IF i % 2 = 1 THEN 256 ELSE 1)]
<1> DEFINE Runs(g) == g = [i \in 0 .. Len(b) |-> IF i = 0 THEN 0 ELSE g[i - 1] + ByteTerms(b)[i]]
<1>1. \A i \in 1 .. Len(b) : ByteTerms(b)[i] \in Nat
  BY ByteNat DEF ByteTerms, Weight
<1>2. ASSUME NEW g PROVE Runs(g) <=> Solves(g)
  <2>1. \A i \in 0 .. Len(b) : (IF i = 0 THEN 0 ELSE g[i - 1] + ByteTerms(b)[i])
                             = (IF i = 0 THEN 0 ELSE g[i - 1] + b[i] * (IF i % 2 = 1 THEN 256 ELSE 1))
    BY DEF ByteTerms, Weight
  <2> QED BY Zenon, <2>1
<1>3. PICK h : RunningSum(h, ByteTerms(b), Len(b))
  BY <1>1, RunningSumExists
<1>4. Solves(h)
  <2>1. h = [i \in 0 .. Len(b) |-> h[i]]
    BY <1>3 DEF RunningSum
  <2>2. \A i \in 0 .. Len(b) : h[i] = IF i = 0 THEN 0 ELSE h[i - 1] + ByteTerms(b)[i]
    BY <1>3 DEF RunningSum
  <2> QED BY <2>1, <2>2, <1>2
<1> DEFINE g == CHOOSE g : Solves(g)
<1>5. Solves(g)
  <2> HIDE DEF Solves
  <2> QED BY Zenon, <1>4
<1>6. ByteSum(b) = g[Len(b)]
  BY Zenon DEF ByteSum
<1> HIDE DEF g
<1>7. Runs(g)
  BY Zenon, <1>2, <1>5
<1>8. RunningSum(g, ByteTerms(b), Len(b))
  <2>1. Len(b) \in Nat
    OBVIOUS
  <2> QED BY <2>1, <1>1, <1>7, RunningSumSolution
<1> QED BY Zenon, <1>6, <1>8

\* SumWholeWords is the last running sum of the whole words.
LEMMA SumWholeWordsRuns ==
  ASSUME NEW b \in Seq(Byte)
  PROVE  \E g : RunningSum(g, WordTerms(b), Len(b) \div 2) /\ SumWholeWords(b) = g[Len(b) \div 2]
<1> DEFINE n == Len(b) \div 2
<1> DEFINE Solves(g) == g = [i \in 0 .. Len(b) \div 2 |->
                               IF i = 0 THEN 0 ELSE g[i - 1] + U16FromBe(SubSeq(b, 2 * i - 1, 2 * i))]
<1> DEFINE Runs(g) == g = [i \in 0 .. n |-> IF i = 0 THEN 0 ELSE g[i - 1] + WordTerms(b)[i]]
<1>0. n \in Nat
  OBVIOUS
<1>1. \A i \in 1 .. n : WordTerms(b)[i] \in Nat
  BY WordTerm DEF WordTerms
<1>2. ASSUME NEW g PROVE Runs(g) <=> Solves(g)
  <2>1. \A i \in 0 .. n : (IF i = 0 THEN 0 ELSE g[i - 1] + WordTerms(b)[i])
                        = (IF i = 0 THEN 0 ELSE g[i - 1] + U16FromBe(SubSeq(b, 2 * i - 1, 2 * i)))
    BY DEF WordTerms
  <2> QED BY Zenon, <2>1
<1>3. PICK h : RunningSum(h, WordTerms(b), n)
  BY <1>0, <1>1, RunningSumExists
<1>4. Solves(h)
  <2>1. h = [i \in 0 .. n |-> h[i]]
    BY <1>3 DEF RunningSum
  <2>2. \A i \in 0 .. n : h[i] = IF i = 0 THEN 0 ELSE h[i - 1] + WordTerms(b)[i]
    BY <1>0, <1>3 DEF RunningSum
  <2>3. Runs(h)
    BY <2>1, <2>2
  <2> QED BY Zenon, <2>3, <1>2
<1> DEFINE g == CHOOSE g : Solves(g)
<1>5. Solves(g)
  <2> HIDE DEF Solves
  <2> QED BY Zenon, <1>4
<1>6. SumWholeWords(b) = g[Len(b) \div 2]
  BY Zenon DEF SumWholeWords
<1> HIDE DEF g
<1>7. Runs(g)
  BY Zenon, <1>2, <1>5
<1>8. RunningSum(g, WordTerms(b), n)
  BY <1>0, <1>1, <1>7, RunningSumSolution
<1> QED BY Zenon, <1>6, <1>8

\* Whole words or single bytes, the sum is the same: sum_big_endian_words
\* computes the sum of RFC 1071, an odd last byte included.
LEMMA SumsAgree ==
  ASSUME NEW b \in Seq(Byte)
  PROVE  SumBigEndianWords(b) = ByteSum(b) /\ ByteSum(b) \in Nat
<1> DEFINE n == Len(b) \div 2
<1>0. n \in Nat /\ Len(b) \in Nat /\ 2 * n <= Len(b) /\ (Len(b) % 2 = 0 \/ Len(b) % 2 = 1)
      /\ (Len(b) % 2 = 0 => Len(b) = 2 * n) /\ (Len(b) % 2 = 1 => Len(b) = 2 * n + 1)
  OBVIOUS
<1>1. PICK g : RunningSum(g, ByteTerms(b), Len(b)) /\ ByteSum(b) = g[Len(b)]
  BY ByteSumRuns
<1>2. PICK h : RunningSum(h, WordTerms(b), n) /\ SumWholeWords(b) = h[n]
  BY SumWholeWordsRuns
<1> HIDE DEF n
<1> DEFINE T == {k \in Nat : k <= n => h[k] = g[2 * k]}
<1>3. 0 \in T
  BY <1>1, <1>2 DEF RunningSum
<1>4. ASSUME NEW k \in T PROVE k + 1 \in T
  <2> SUFFICES ASSUME k + 1 <= n PROVE h[k + 1] = g[2 * (k + 1)]
    OBVIOUS
  <2>1. h[k] = g[2 * k] /\ g[2 * k] \in Nat
    BY <1>0, <1>1 DEF RunningSum
  <2>2. 2 * k + 1 \in 1 .. Len(b) /\ 2 * k + 2 \in 1 .. Len(b) /\ k + 1 \in 1 .. n
    BY <1>0
  <2>3. h[k + 1] = h[k] + WordTerms(b)[k + 1]
    BY <1>2, <2>2 DEF RunningSum
  <2>4. WordTerms(b)[k + 1] = 256 * b[2 * k + 1] + b[2 * k + 2]
    <3>1. k + 1 \in 1 .. Len(b) \div 2
      BY <2>2 DEF n
    <3>2. 2 * (k + 1) - 1 = 2 * k + 1 /\ 2 * (k + 1) = 2 * k + 2
      OBVIOUS
    <3>3. U16FromBe(SubSeq(b, 2 * (k + 1) - 1, 2 * (k + 1))) = 256 * b[2 * (k + 1) - 1] + b[2 * (k + 1)]
      BY <3>1, WordTerm
    <3> QED BY <3>1, <3>2, <3>3 DEF WordTerms
  <2>5. g[2 * k + 1] = g[2 * k] + ByteTerms(b)[2 * k + 1]
    BY <1>1, <2>2 DEF RunningSum
  <2>6. g[2 * k + 2] = g[2 * k + 1] + ByteTerms(b)[2 * k + 2]
    BY <1>1, <2>2 DEF RunningSum
  <2>7. ByteTerms(b)[2 * k + 1] = 256 * b[2 * k + 1] /\ ByteTerms(b)[2 * k + 2] = b[2 * k + 2]
    BY <2>2, ByteNat DEF ByteTerms, Weight
  <2>8. b[2 * k + 1] \in Nat /\ b[2 * k + 2] \in Nat
    BY <2>2, ByteNat
  <2> QED BY <2>1, <2>3, <2>4, <2>5, <2>6, <2>7, <2>8
<1>5. n \in T
  <2>1. T \subseteq Nat
    OBVIOUS
  <2> HIDE DEF T
  <2> QED BY Zenon, <1>0, <1>3, <1>4, <2>1, InductiveSet
<1>6. SumWholeWords(b) = g[2 * n] /\ g[2 * n] \in Nat /\ g[Len(b)] \in Nat
  BY <1>0, <1>1, <1>2, <1>5 DEF RunningSum
<1>7. CASE Len(b) % 2 = 0
  BY <1>0, <1>1, <1>6, <1>7 DEF SumBigEndianWords
<1>8. CASE Len(b) % 2 = 1
  <2>1. Len(b) \in 1 .. Len(b) /\ b[Len(b)] \in Nat /\ Len(b) - 1 = 2 * n
    BY <1>0, <1>8, ByteNat
  <2>2. g[Len(b)] = g[2 * n] + ByteTerms(b)[Len(b)]
    BY <1>1, <2>1 DEF RunningSum
  <2>3. ByteTerms(b)[Len(b)] = 256 * b[Len(b)]
    BY <1>8, <2>1 DEF ByteTerms, Weight
  <2> QED BY <1>1, <1>6, <1>8, <2>1, <2>2, <2>3 DEF SumBigEndianWords
<1> QED BY <1>0, <1>7, <1>8

\* A change of one byte changes the sum by the weighted difference.
LEMMA ByteSumChange ==
  ASSUME NEW b \in Seq(Byte), NEW c \in Seq(Byte), Len(b) = Len(c), NEW i \in 1 .. Len(b),
         \A j \in 1 .. Len(b) : j # i => b[j] = c[j]
  PROVE  ByteSum(c) = ByteSum(b) + (c[i] - b[i]) * Weight(i)
<1> DEFINE n == Len(b)
<1> DEFINE d == (c[i] - b[i]) * Weight(i)
<1>0. n \in Nat /\ i \in 1 .. n
  OBVIOUS
<1>1. PICK g : RunningSum(g, ByteTerms(b), n) /\ ByteSum(b) = g[n]
  BY ByteSumRuns
<1>2. PICK h : RunningSum(h, ByteTerms(c), n) /\ ByteSum(c) = h[n]
  BY ByteSumRuns
<1>3. b[i] \in Nat /\ c[i] \in Nat /\ Weight(i) \in Nat /\ d \in Int
      /\ c[i] * Weight(i) = b[i] * Weight(i) + d
  BY ByteNat DEF Weight
<1>4. \A j \in 1 .. n : /\ ByteTerms(b)[j] \in Nat
                        /\ ByteTerms(c)[j] = ByteTerms(b)[j] + (IF j = i THEN d ELSE 0)
  <2> TAKE j \in 1 .. n
  <2>1. b[j] \in Nat /\ Weight(j) \in Nat /\ b[j] * Weight(j) \in Nat
    BY ByteNat DEF Weight
  <2>2. ByteTerms(b)[j] = b[j] * Weight(j) /\ ByteTerms(c)[j] = c[j] * Weight(j)
    BY DEF ByteTerms
  <2> HIDE DEF d
  <2>3. CASE j = i
    BY <1>3, <2>1, <2>2, <2>3
  <2>4. CASE j # i
    <3>1. c[j] = b[j]
      BY <2>4
    <3> QED BY <2>1, <2>2, <2>4, <3>1
  <2> QED BY <2>3, <2>4
<1> HIDE DEF n, d
<1> DEFINE T == {k \in Nat : k <= n => h[k] = g[k] + (IF i <= k THEN d ELSE 0)}
<1>5. 0 \in T
  BY <1>0, <1>1, <1>2 DEF RunningSum
<1>6. ASSUME NEW k \in T PROVE k + 1 \in T
  <2> SUFFICES ASSUME k + 1 <= n PROVE h[k + 1] = g[k + 1] + (IF i <= k + 1 THEN d ELSE 0)
    OBVIOUS
  <2>1. h[k] = g[k] + (IF i <= k THEN d ELSE 0) /\ k + 1 \in 1 .. n /\ (k + 1) - 1 = k
    BY <1>0
  <2>2. g[k] \in Nat
    BY <1>0, <1>1 DEF RunningSum
  <2>3. g[k + 1] = g[k] + ByteTerms(b)[k + 1] /\ h[k + 1] = h[k] + ByteTerms(c)[k + 1]
    BY <1>1, <1>2, <2>1 DEF RunningSum
  <2>4. ByteTerms(b)[k + 1] \in Nat /\ ByteTerms(c)[k + 1] = ByteTerms(b)[k + 1] + (IF k + 1 = i THEN d ELSE 0)
    BY <1>4, <2>1
  <2> QED BY <1>0, <1>3, <2>1, <2>2, <2>3, <2>4
<1>7. n \in T
  <2>1. T \subseteq Nat
    OBVIOUS
  <2> HIDE DEF T
  <2> QED BY Zenon, <1>0, <1>5, <1>6, <2>1, InductiveSet
<1>8. h[n] = g[n] + d
  BY <1>0, <1>7
<1> QED BY <1>1, <1>2, <1>8 DEF d

-----------------------------------------------------------------------------
(* The carry loop.                                                         *)

\* What the loop leaves of a sum: its residue modulo 65535, with 65535 in
\* place of 0 unless the sum was 0.
Carry(s) == IF s = 0 THEN 0 ELSE ((s - 1) % 65535) + 1

\* A turn of the carry loop makes the sum smaller and leaves Carry as it is.
LEMMA CarryTurn ==
  ASSUME NEW s \in Nat
  PROVE  /\ s \div 65536 = 0 => Carry(s) = s
         /\ s \div 65536 # 0 => /\ (s \div 65536) + (s % 65536) \in Nat
                                /\ (s \div 65536) + (s % 65536) < s
                                /\ Carry((s \div 65536) + (s % 65536)) = Carry(s)
BY SMT DEF Carry

\* One turn of the loop, and the function that solves its equation.
CarryStep(s) == (s \div 65536) + (s % 65536)
CarryDone(s) == s \div 65536 = 0

\* The same, in terms the recursion of HandleCarry is stated in.
LEMMA CarryFacts ==
  ASSUME NEW s \in Nat
  PROVE  /\ CarryDone(s) => Carry(s) = s
         /\ ~CarryDone(s) => CarryStep(s) \in Nat /\ CarryStep(s) < s /\ Carry(CarryStep(s)) = Carry(s)
BY SMT, CarryTurn DEF CarryStep, CarryDone

\* The loop ends, with that residue.
LEMMA HandleCarryValue ==
  ASSUME NEW s \in Nat
  PROVE  HandleCarry(s) = Carry(s)
<1> DEFINE Solves(f) == f = [t \in Nat |-> IF CarryDone(t) THEN t ELSE f[CarryStep(t)]]
<1>1. \E f : Solves(f)
  <2> DEFINE f == [t \in Nat |-> Carry(t)]
  <2>1. ASSUME NEW t \in Nat PROVE Carry(t) = IF CarryDone(t) THEN t ELSE f[CarryStep(t)]
    BY Zenon, CarryFacts
  <2>2. Solves(f)
    BY Zenon, <2>1
  <2> HIDE DEF f, Solves
  <2> QED BY Zenon, <2>2
<1> DEFINE fold == CHOOSE f : Solves(f)
<1>2. Solves(fold)
  <2> HIDE DEF Solves
  <2> QED BY Zenon, <1>1
<1>3. HandleCarry(s) = fold[s]
  BY SMT DEF HandleCarry, CarryDone, CarryStep
<1> HIDE DEF fold
<1>4. \A t \in Nat : fold[t] = IF CarryDone(t) THEN t ELSE fold[CarryStep(t)]
  BY Zenon, <1>2
<1> DEFINE Wrong == {t \in Nat : fold[t] # Carry(t)}
<1>5. Wrong = {}
  <2> SUFFICES ASSUME Wrong # {} PROVE FALSE
    OBVIOUS
  <2>1. PICK t \in Wrong : \A u \in Wrong : ~(u < t)
    <3>1. Wrong \subseteq Nat
      BY Zenon
    <3> HIDE DEF Wrong
    <3> QED BY Zenon, <3>1, LeastNatural
  <2>2. t \in Nat /\ fold[t] # Carry(t)
    BY Zenon
  <2>3. ~CarryDone(t)
    BY Zenon, <1>4, <2>2, CarryFacts
  <2>4. CarryStep(t) \in Nat /\ CarryStep(t) < t /\ Carry(CarryStep(t)) = Carry(t)
    BY Zenon, <2>2, <2>3, CarryFacts
  <2>5. fold[CarryStep(t)] = Carry(CarryStep(t))
    BY Zenon, <2>1, <2>4
  <2> QED BY Zenon, <1>4, <2>2, <2>3, <2>4, <2>5
<1> QED BY Zenon, <1>3, <1>5

-----------------------------------------------------------------------------
(* Checksums as numbers.                                                   *)

Complement(s) == 65535 - (Carry(s) % 65536)
Balanced(n) == n > 0 /\ n % 65535 = 0

\* A 16-bit word as a number.
LEMMA WordNat == \A x : x \in Word <=> x \in Nat /\ x <= 65535
<1>1. PICK m \in Nat : m = 65535
  BY SMT
<1>2. \A x : x \in 0 .. m <=> x \in Nat /\ x <= m
  OBVIOUS
<1>3. Word = 0 .. m
  BY SMT, <1>1 DEF Word
<1>4. \A x : x \in Word <=> x \in Nat /\ x <= m
  BY Zenon, <1>2, <1>3
<1> QED BY SMT, <1>1, <1>4

\* The part of it most proofs need.
LEMMA WordIsNat == \A x \in Word : x \in Nat
BY SMT, WordNat

\* The complement without the carry loop: only a sum of 0 gives 0xFFFF.
LEMMA ComplementValue ==
  ASSUME NEW s \in Nat
  PROVE  Complement(s) = IF s = 0 THEN 65535 ELSE 65534 - ((s - 1) % 65535)
BY SMT DEF Complement, Carry

\* A checksum has 16 bits.
LEMMA ComplementWord ==
  ASSUME NEW s \in Nat
  PROVE  Complement(s) \in Word
<1>1. Complement(s) \in Nat /\ Complement(s) <= 65535
  BY SMT, ComplementValue
<1> QED BY SMT, <1>1, WordNat

\* Division by 65535 with remainder.
LEMMA DivideWord ==
  ASSUME NEW t \in Nat
  PROVE  t \div 65535 \in Nat /\ t % 65535 \in Nat /\ t % 65535 < 65535
         /\ t = 65535 * (t \div 65535) + (t % 65535)
BY SMT

\* The stored complement balances the sum.
LEMMA ComplementBalances ==
  ASSUME NEW s \in Nat
  PROVE  Balanced(s + Complement(s))
<1>1. CASE s = 0
  BY SMT, <1>1, ComplementValue DEF Balanced
<1>2. CASE s # 0
  <2>1. PICK t \in Nat : t = s - 1
    BY SMT, <1>2
  <2>2. PICK q \in Nat : q = t \div 65535
    BY SMT, DivideWord
  <2>3. s + Complement(s) = 65535 * (q + 1)
    BY SMT, <1>2, <2>1, <2>2, DivideWord, ComplementValue
  <2>4. (65535 * (q + 1)) % 65535 = 0 /\ 65535 * (q + 1) > 0
    BY SMT
  <2> QED BY SMT, <2>3, <2>4 DEF Balanced
<1> QED BY Zenon, <1>1, <1>2

\* No other value but 65535, the other zero, does.
LEMMA BalancedComplement ==
  ASSUME NEW s \in Nat, NEW c \in Word, c # AllOnes, Balanced(s + c)
  PROVE  c = Complement(s)
<1>0. c \in Nat /\ c < 65535
  BY SMT, WordNat DEF AllOnes
<1>1. PICK k \in Nat : s + c = 65535 * k /\ k > 0
  <2>1. (s + c) \div 65535 \in Nat /\ s + c = 65535 * ((s + c) \div 65535)
    BY SMT, <1>0 DEF Balanced
  <2> QED BY SMT, <1>0, <2>1 DEF Balanced
<1>2. s # 0 /\ s - 1 = 65535 * (k - 1) + (65534 - c) /\ 65534 - c \in Nat /\ k - 1 \in Nat
  BY SMT, <1>0, <1>1
<1>3. (s - 1) % 65535 = 65534 - c
  <2>1. PICK q \in Nat, r \in Nat : q = k - 1 /\ r = 65534 - c /\ r < 65535
    BY SMT, <1>0, <1>2
  <2>2. (65535 * q + r) % 65535 = r
    BY SMT, <2>1
  <2> QED BY SMT, <1>2, <2>1, <2>2
<1> QED BY SMT, <1>0, <1>2, <1>3, ComplementValue

\* The two bytes of a word, and back.
LEMMA WordBytes ==
  ASSUME NEW x \in Word
  PROVE  x \div 256 \in Byte /\ x % 256 \in Byte /\ 256 * (x \div 256) + (x % 256) = x
<1>1. x \in Nat /\ x <= 65535
  BY SMT, WordNat
<1>2. x \div 256 \in Nat /\ x \div 256 <= 255 /\ x % 256 \in Nat /\ x % 256 <= 255
  BY SMT, <1>1
<1>3. 256 * (x \div 256) + (x % 256) = x
  BY SMT, <1>1
<1> QED BY SMT, <1>2, <1>3, ByteNat

\* Two bytes make a word, which splits into them again.
LEMMA BytesWord ==
  ASSUME NEW x \in Byte, NEW y \in Byte
  PROVE  /\ 256 * x + y \in Word
         /\ (256 * x + y) \div 256 = x /\ (256 * x + y) % 256 = y
<1>1. x \in Nat /\ x <= 255 /\ y \in Nat /\ y <= 255
  BY SMT, ByteNat
<1>2. 256 * x + y \in Nat /\ 256 * x + y <= 65535
  BY SMT, <1>1
<1>3. (256 * x + y) \div 256 = x /\ (256 * x + y) % 256 = y
  BY SMT, <1>1
<1> QED BY SMT, <1>2, <1>3, WordNat

\* to_be_bytes of a word: its high byte and its low byte.
LEMMA U16ToBeBytes ==
  ASSUME NEW x \in Word
  PROVE  /\ U16ToBe(x) \in Seq(Byte) /\ Len(U16ToBe(x)) = 2
         /\ U16ToBe(x)[1] = x \div 256 /\ U16ToBe(x)[2] = x % 256
<1>1. PICK y \in Byte, z \in Byte : y = x \div 256 /\ z = x % 256
  BY WordBytes
<1>2. <<y, z>> \in Seq(Byte) /\ Len(<<y, z>>) = 2 /\ <<y, z>>[1] = y /\ <<y, z>>[2] = z
  OBVIOUS
<1> QED BY Zenon, <1>1, <1>2 DEF U16ToBe

\* The bytes of the fields, two for each.
LEMMA HalvesToBeBytes ==
  ASSUME NEW w \in Seq(Word)
  PROVE  /\ HalvesToBe(w) \in Seq(Byte) /\ Len(HalvesToBe(w)) = 2 * Len(w)
         /\ \A i \in 1 .. Len(w) : /\ HalvesToBe(w)[2 * i - 1] = w[i] \div 256
                                   /\ HalvesToBe(w)[2 * i] = w[i] % 256
<1> DEFINE n == 2 * Len(w)
<1> DEFINE At(i) == U16ToBe(w[(i + 1) \div 2])[IF i % 2 = 1 THEN 1 ELSE 2]
<1>1. ASSUME NEW i \in 1 .. n PROVE At(i) \in Byte
  <2>1. (i + 1) \div 2 \in 1 .. Len(w)
    OBVIOUS
  <2>2. PICK x \in Word : x = w[(i + 1) \div 2]
    BY <2>1
  <2>3. U16ToBe(x)[1] \in Byte /\ U16ToBe(x)[2] \in Byte
    BY U16ToBeBytes, WordBytes
  <2> QED BY <2>2, <2>3
<1>2. HalvesToBe(w) = [i \in 1 .. n |-> At(i)]
  BY Zenon DEF HalvesToBe
<1>3. HalvesToBe(w) \in [1 .. n -> Byte]
  <2> HIDE DEF At
  <2> QED BY <1>1, <1>2
<1>4. HalvesToBe(w) \in Seq(Byte) /\ Len(HalvesToBe(w)) = n
  BY <1>3
<1>5. ASSUME NEW i \in 1 .. Len(w)
      PROVE  HalvesToBe(w)[2 * i - 1] = w[i] \div 256 /\ HalvesToBe(w)[2 * i] = w[i] % 256
  <2>1. /\ 2 * i - 1 \in 1 .. n /\ ((2 * i - 1) + 1) \div 2 = i /\ (2 * i - 1) % 2 = 1
        /\ 2 * i \in 1 .. n /\ (2 * i + 1) \div 2 = i /\ (2 * i) % 2 # 1
    OBVIOUS
  <2>2. w[i] \in Word
    OBVIOUS
  <2>3. U16ToBe(w[i])[1] = w[i] \div 256 /\ U16ToBe(w[i])[2] = w[i] % 256
    BY Zenon, <2>2, U16ToBeBytes
  <2>4. HalvesToBe(w)[2 * i - 1] = At(2 * i - 1) /\ HalvesToBe(w)[2 * i] = At(2 * i)
    <3> HIDE DEF At
    <3> QED BY Zenon, <1>2, <2>1
  <2>5. At(2 * i - 1) = U16ToBe(w[i])[1] /\ At(2 * i) = U16ToBe(w[i])[2]
    BY <2>1
  <2> QED BY Zenon, <2>3, <2>4, <2>5
<1> QED BY Zenon, <1>4, <1>5

\* Reading the words of a byte string and writing them back.
LEMMA HalvesWords ==
  ASSUME NEW b \in Seq(Byte)
  PROVE  /\ Halves(b) \in Seq(Word) /\ Len(Halves(b)) = Len(b) \div 2
         /\ \A i \in 1 .. Len(b) \div 2 : /\ Halves(b)[i] = 256 * b[2 * i - 1] + b[2 * i]
                                          /\ Halves(b)[i] \div 256 = b[2 * i - 1]
                                          /\ Halves(b)[i] % 256 = b[2 * i]
<1> DEFINE n == Len(b) \div 2
<1> DEFINE At(i) == U16FromBe(SubSeq(b, 2 * i - 1, 2 * i))
<1>0. n \in Nat
  OBVIOUS
<1>1. ASSUME NEW i \in 1 .. n
      PROVE  At(i) = 256 * b[2 * i - 1] + b[2 * i] /\ b[2 * i - 1] \in Byte /\ b[2 * i] \in Byte
  <2>1. 2 * i - 1 \in 1 .. Len(b) /\ 2 * i \in 1 .. Len(b)
    OBVIOUS
  <2>2. b[2 * i - 1] \in Byte /\ b[2 * i] \in Byte
    BY <2>1
  <2> QED BY Zenon, <2>2, WordTerm
<1>2. Halves(b) = [i \in 1 .. n |-> At(i)]
  BY Zenon DEF Halves
<1> HIDE DEF At
<1>3. ASSUME NEW i \in 1 .. n
      PROVE  /\ Halves(b)[i] = 256 * b[2 * i - 1] + b[2 * i] /\ Halves(b)[i] \in Word
             /\ Halves(b)[i] \div 256 = b[2 * i - 1] /\ Halves(b)[i] % 256 = b[2 * i]
  <2>1. Halves(b)[i] = 256 * b[2 * i - 1] + b[2 * i]
    BY Zenon, <1>1, <1>2
  <2> QED BY SMT, <2>1, <1>1, BytesWord
<1>4. Halves(b) \in [1 .. n -> Word]
  <2>1. \A i \in 1 .. n : At(i) \in Word
    BY Zenon, <1>2, <1>3
  <2> HIDE DEF n
  <2> QED BY Zenon, <1>2, <2>1
<1>5. Halves(b) \in Seq(Word) /\ Len(Halves(b)) = n
  <2> HIDE DEF n
  <2> QED BY <1>0, <1>4
<1> QED BY Zenon, <1>3, <1>5

-----------------------------------------------------------------------------
(* Packets and their bytes.                                                *)

Message ==
  [shape : {"word", "echo", "pointer", "stamps", "bare"}, fields : Seq(Word), rest : Seq(Byte)]

\* A message with the fields its shape has.
MessageOK(m) ==
  /\ m \in Message
  /\ m.shape \in {"word", "echo", "bare"} => Len(m.fields) = 2
  /\ m.shape = "pointer" => Len(m.fields) = 3 /\ m.fields[1] \in Byte /\ m.fields[2] \in Byte
  /\ m.shape = "stamps" => Len(m.fields) = 8
  /\ m.shape \in {"stamps", "bare"} => m.rest = <<>>

Packet == [typ : Byte, code : Byte, checksum : Word, message : Message]

\* A packet whose message has the shape its type asks for.
PacketOK(p) == p \in Packet /\ MessageOK(p.message) /\ p.message.shape = Shape(p.typ)

\* The bytes of the fields, before the rest.
FieldPart(m) ==
  IF m.shape = "pointer" THEN <<m.fields[1], m.fields[2]>> \o U16ToBe(m.fields[3])
  ELSE HalvesToBe(m.fields)

FieldSize(shape) == IF shape = "stamps" THEN 16 ELSE 4

\* Two sequences in a row, the length of the first given.
LEMMA ConcatAt ==
  ASSUME NEW a \in Seq(Byte), NEW b \in Seq(Byte), NEW n \in Nat, Len(a) = n
  PROVE  /\ a \o b \in Seq(Byte) /\ Len(a \o b) = n + Len(b)
         /\ \A i \in 1 .. n : (a \o b)[i] = a[i]
         /\ \A i \in 1 .. Len(b) : (a \o b)[n + i] = b[i]
<1>1. a \o b \in Seq(Byte) /\ Len(a \o b) = n + Len(b)
  OBVIOUS
<1>2. \A i \in 1 .. n : (a \o b)[i] = a[i]
  OBVIOUS
<1>3. \A i \in 1 .. Len(b) : (a \o b)[n + i] = b[i]
  OBVIOUS
<1> QED BY Zenon, <1>1, <1>2, <1>3

\* Two pairs of bytes in a row.
LEMMA TwoAndTwo ==
  ASSUME NEW a \in Seq(Byte), NEW b \in Seq(Byte), Len(a) = 2, Len(b) = 2
  PROVE  /\ a \o b \in Seq(Byte) /\ Len(a \o b) = 4
         /\ (a \o b)[1] = a[1] /\ (a \o b)[2] = a[2] /\ (a \o b)[3] = b[1] /\ (a \o b)[4] = b[2]
<1>1. PICK n \in Nat : n = 2 /\ Len(a) = n
  OBVIOUS
<1>2. /\ a \o b \in Seq(Byte) /\ Len(a \o b) = n + Len(b)
      /\ \A i \in 1 .. n : (a \o b)[i] = a[i]
      /\ \A i \in 1 .. Len(b) : (a \o b)[n + i] = b[i]
  BY Zenon, <1>1, ConcatAt
<1>3. PICK c : c = a \o b
  OBVIOUS
<1>4. c[1] = a[1] /\ c[2] = a[2] /\ c[2 + 1] = b[1] /\ c[2 + 2] = b[2]
  BY <1>1, <1>2, <1>3
<1> QED BY <1>1, <1>2, <1>3, <1>4

\* The fields of a message take 16 bytes in a timestamp, else 4.
LEMMA FieldPartBytes ==
  ASSUME NEW m, MessageOK(m)
  PROVE  FieldPart(m) \in Seq(Byte) /\ Len(FieldPart(m)) = FieldSize(m.shape)
<1>0. m.fields \in Seq(Word) /\ m.shape \in {"word", "echo", "pointer", "stamps", "bare"}
  BY DEF MessageOK, Message
<1>1. CASE m.shape = "pointer"
  <2>1. Len(m.fields) = 3 /\ m.fields[1] \in Byte /\ m.fields[2] \in Byte /\ m.fields[3] \in Word
    BY <1>0, <1>1 DEF MessageOK
  <2>2. PICK x \in Byte, y \in Byte, z \in Word :
          x = m.fields[1] /\ y = m.fields[2] /\ z = m.fields[3]
    BY Zenon, <2>1
  <2>3. U16ToBe(z) \in Seq(Byte) /\ Len(U16ToBe(z)) = 2
    BY Zenon, U16ToBeBytes
  <2>4. <<x, y>> \in Seq(Byte) /\ Len(<<x, y>>) = 2
    OBVIOUS
  <2>5. <<x, y>> \o U16ToBe(z) \in Seq(Byte) /\ Len(<<x, y>> \o U16ToBe(z)) = 4
    BY <2>3, <2>4, TwoAndTwo
  <2>6. FieldPart(m) = <<x, y>> \o U16ToBe(z)
    BY Zenon, <1>1, <2>2 DEF FieldPart
  <2> QED BY <1>1, <2>5, <2>6 DEF FieldSize
<1>2. CASE m.shape # "pointer"
  <2>1. FieldPart(m) = HalvesToBe(m.fields)
    BY Zenon, <1>2 DEF FieldPart
  <2>2. HalvesToBe(m.fields) \in Seq(Byte) /\ Len(HalvesToBe(m.fields)) = 2 * Len(m.fields)
    BY Zenon, <1>0, HalvesToBeBytes
  <2>3. 2 * Len(m.fields) = FieldSize(m.shape)
    <3>1. CASE m.shape = "stamps"
      <4>1. Len(m.fields) = 8
        BY Zenon, <3>1 DEF MessageOK
      <4> QED BY <3>1, <4>1 DEF FieldSize
    <3>2. CASE m.shape # "stamps"
      <4>1. m.shape \in {"word", "echo", "bare"}
        BY Zenon, <1>0, <1>2, <3>2
      <4>2. Len(m.fields) = 2
        BY Zenon, <4>1 DEF MessageOK
      <4> QED BY <3>2, <4>2 DEF FieldSize
    <3> QED BY Zenon, <3>1, <3>2
  <2> QED BY Zenon, <2>1, <2>2, <2>3
<1> QED BY Zenon, <1>1, <1>2

\* Where the bytes of get_bytes come from.
LEMMA GetBytesLayout ==
  ASSUME NEW p, p \in Packet, MessageOK(p.message), NEW with_checksum \in BOOLEAN
  PROVE  LET b == GetBytes(p, with_checksum)
             m == p.message
             cs == IF with_checksum THEN p.checksum ELSE 0
         IN  /\ b \in Seq(Byte) /\ Len(b) = 4 + FieldSize(m.shape) + Len(m.rest)
             /\ b[1] = p.typ /\ b[2] = p.code /\ b[3] = cs \div 256 /\ b[4] = cs % 256
             /\ \A i \in 1 .. FieldSize(m.shape) : b[4 + i] = FieldPart(m)[i]
             /\ \A i \in 1 .. Len(m.rest) : b[4 + FieldSize(m.shape) + i] = m.rest[i]
<1> DEFINE b == GetBytes(p, with_checksum)
<1> DEFINE cs == IF with_checksum THEN p.checksum ELSE 0
<1>0. /\ p.typ \in Byte /\ p.code \in Byte /\ p.checksum \in Word
      /\ p.message.rest \in Seq(Byte)
  BY DEF Packet, MessageOK, Message
<1>1. PICK t \in Byte, c \in Byte, x \in Word, f \in Seq(Byte), r \in Seq(Byte), k \in Nat :
        t = p.typ /\ c = p.code /\ x = cs /\ f = FieldPart(p.message) /\ r = p.message.rest
        /\ k = FieldSize(p.message.shape)
  <2>1. 0 \in Word
    BY SMT, WordNat
  <2>2. cs \in Word
    BY Zenon, <1>0, <2>1
  <2>3. FieldSize(p.message.shape) \in Nat
    BY DEF FieldSize
  <2> HIDE DEF cs
  <2> QED BY Zenon, <1>0, <2>2, <2>3, FieldPartBytes
<1>2. MessageBytes(p.message) = f \o r
  BY Zenon, <1>1 DEF MessageBytes, FieldPart, FieldBytes
<1>3. b = <<t, c>> \o U16ToBe(x) \o (f \o r)
  BY Zenon, <1>1, <1>2 DEF GetBytes
<1>4. Len(f) = k
  BY Zenon, <1>1, FieldPartBytes
<1>5. U16ToBe(x) \in Seq(Byte) /\ Len(U16ToBe(x)) = 2 /\ U16ToBe(x)[1] = x \div 256 /\ U16ToBe(x)[2] = x % 256
  BY U16ToBeBytes
<1>6. PICK u \in Seq(Byte) : u = U16ToBe(x) /\ Len(u) = 2 /\ u[1] = x \div 256 /\ u[2] = x % 256
  BY Zenon, <1>5
<1>7. PICK v \in Seq(Byte) : v = <<t, c>> \o u /\ Len(v) = 4 /\ v[1] = t /\ v[2] = c /\ v[3] = u[1] /\ v[4] = u[2]
  <2>1. <<t, c>> \in Seq(Byte) /\ Len(<<t, c>>) = 2 /\ <<t, c>>[1] = t /\ <<t, c>>[2] = c
    OBVIOUS
  <2>2. PICK a \in Seq(Byte) : a = <<t, c>> /\ Len(a) = 2 /\ a[1] = t /\ a[2] = c
    BY Zenon, <2>1
  <2>3. /\ a \o u \in Seq(Byte) /\ Len(a \o u) = 4
        /\ (a \o u)[1] = t /\ (a \o u)[2] = c /\ (a \o u)[3] = u[1] /\ (a \o u)[4] = u[2]
    BY Zenon, <2>2, <1>6, TwoAndTwo
  <2> QED BY Zenon, <2>2, <2>3
<1>8. PICK g \in Seq(Byte) : /\ g = f \o r /\ Len(g) = k + Len(r)
                             /\ \A i \in 1 .. k : g[i] = f[i]
                             /\ \A i \in 1 .. Len(r) : g[k + i] = r[i]
  <2>1. /\ f \o r \in Seq(Byte) /\ Len(f \o r) = k + Len(r)
        /\ \A i \in 1 .. k : (f \o r)[i] = f[i]
        /\ \A i \in 1 .. Len(r) : (f \o r)[k + i] = r[i]
    BY Zenon, <1>4, ConcatAt
  <2> QED BY Zenon, <2>1
<1>9. b = v \o g
  BY Zenon, <1>3, <1>6, <1>7, <1>8
<1>10. /\ b \in Seq(Byte) /\ Len(b) = 4 + k + Len(r)
       /\ \A i \in 1 .. 4 : b[i] = v[i]
       /\ \A i \in 1 .. k + Len(r) : b[4 + i] = g[i]
  <2> HIDE DEF b
  <2>0. PICK n \in Nat : n = 4 /\ Len(v) = n
    BY <1>7
  <2>1. /\ v \o g \in Seq(Byte) /\ Len(v \o g) = n + Len(g)
        /\ \A i \in 1 .. n : (v \o g)[i] = v[i]
        /\ \A i \in 1 .. Len(g) : (v \o g)[n + i] = g[i]
    BY Zenon, <2>0, ConcatAt
  <2>2. Len(g) = k + Len(r) /\ n + Len(g) = 4 + k + Len(r)
    BY <1>8, <2>0
  <2> QED BY Zenon, <1>9, <2>0, <2>1, <2>2
<1> HIDE DEF b, cs
<1>11. b[1] = t /\ b[2] = c /\ b[3] = x \div 256 /\ b[4] = x % 256
  BY <1>6, <1>7, <1>10
<1>12. \A i \in 1 .. k : b[4 + i] = f[i]
  BY <1>8, <1>10
<1>13. \A i \in 1 .. Len(r) : b[4 + k + i] = r[i]
  <2> TAKE i \in 1 .. Len(r)
  <2>1. k + i \in 1 .. k + Len(r) /\ 4 + (k + i) = 4 + k + i
    OBVIOUS
  <2> QED BY <1>8, <1>10, <2>1
<1> QED BY Zenon, <1>1, <1>10, <1>11, <1>12, <1>13 DEF b, cs

-----------------------------------------------------------------------------
(* Parsing.                                                                *)

\* Byte strings of the same length and with the same bytes are equal.
LEMMA SameBytes ==
  ASSUME NEW S, NEW a \in Seq(S), NEW b \in Seq(S), Len(a) = Len(b),
         \A i \in 1 .. Len(a) : a[i] = b[i]
  PROVE  a = b
OBVIOUS

\* Writing the words of a byte string gives it back.
LEMMA HalvesToBeHalves ==
  ASSUME NEW c \in Seq(Byte), Len(c) % 2 = 0
  PROVE  HalvesToBe(Halves(c)) = c
<1>1. PICK w \in Seq(Word) : w = Halves(c)
  BY HalvesWords
<1>2. Len(w) = Len(c) \div 2 /\ \A i \in 1 .. Len(c) \div 2 : w[i] \div 256 = c[2 * i - 1] /\ w[i] % 256 = c[2 * i]
  BY Zenon, <1>1, HalvesWords
<1>3. PICK d \in Seq(Byte) : d = HalvesToBe(w)
  BY HalvesToBeBytes
<1>4. Len(d) = 2 * Len(w) /\ \A i \in 1 .. Len(w) : d[2 * i - 1] = w[i] \div 256 /\ d[2 * i] = w[i] % 256
  BY Zenon, <1>3, HalvesToBeBytes
<1>5. Len(d) = Len(c)
  BY <1>2, <1>4
<1>6. ASSUME NEW i \in 1 .. Len(d) PROVE d[i] = c[i]
  <2>1. CASE i % 2 = 1
    <3>1. PICK j \in 1 .. Len(w) : i = 2 * j - 1
      <4>0. PICK n \in Nat : n = Len(w) /\ i \in 1 .. 2 * n
        BY <1>4
      <4>1. (i + 1) \div 2 \in 1 .. Len(w) /\ i = 2 * ((i + 1) \div 2) - 1
        BY <2>1, <4>0
      <4> QED BY <4>1
    <3> QED BY <1>2, <1>4, <3>1
  <2>2. CASE i % 2 = 0
    <3>1. PICK j \in 1 .. Len(w) : i = 2 * j
      <4>1. i \div 2 \in 1 .. Len(w) /\ i = 2 * (i \div 2)
        BY <1>4, <2>2
      <4> QED BY <4>1
    <3> QED BY <1>2, <1>4, <3>1
  <2> QED BY <2>1, <2>2
<1>7. d = c
  BY Zenon, <1>5, <1>6, SameBytes
<1> QED BY Zenon, <1>1, <1>3, <1>7

\* Reading the words that were written gives them back.
LEMMA HalvesHalvesToBe ==
  ASSUME NEW w \in Seq(Word)
  PROVE  Halves(HalvesToBe(w)) = w
<1>1. PICK d \in Seq(Byte) : d = HalvesToBe(w)
  BY HalvesToBeBytes
<1>2. Len(d) = 2 * Len(w) /\ \A i \in 1 .. Len(w) : d[2 * i - 1] = w[i] \div 256 /\ d[2 * i] = w[i] % 256
  BY Zenon, <1>1, HalvesToBeBytes
<1>3. PICK u \in Seq(Word) : u = Halves(d)
  BY HalvesWords
<1>4. Len(u) = Len(d) \div 2 /\ \A i \in 1 .. Len(d) \div 2 : u[i] = 256 * d[2 * i - 1] + d[2 * i]
  BY <1>3, HalvesWords
<1>5. Len(u) = Len(w) /\ Len(d) \div 2 = Len(w)
  BY <1>2, <1>4
<1>6. ASSUME NEW i \in 1 .. Len(u) PROVE u[i] = w[i]
  <2>1. PICK x \in Word : x = w[i]
    BY <1>5
  <2>2. u[i] = 256 * (x \div 256) + (x % 256)
    BY <1>2, <1>4, <1>5, <2>1
  <2> QED BY <2>1, <2>2, WordBytes
<1>7. u = w
  BY Zenon, <1>5, <1>6, SameBytes
<1> QED BY Zenon, <1>1, <1>3, <1>7

\* What the parsers accept, and what they make of it.
Accepts(b) ==
  ~(Len(b) < 8 \/ Shape(b[1]) = "unknown" \/ (Shape(b[1]) = "stamps" /\ Len(b) < 20))

ParsedFields(shape, b) ==
  CASE shape = "pointer" -> <<b[5], b[6], U16FromBe(SubSeq(b, 7, 8))>>
    [] shape = "stamps" -> Halves(SubSeq(b, 5, 20))
    [] OTHER -> Halves(SubSeq(b, 5, 8))

ParsedMessage(shape, b) ==
  [shape |-> shape, fields |-> ParsedFields(shape, b), rest |-> Rest(shape, b)]

ParsedPacket(b) ==
  [typ |-> b[1], code |-> b[2], checksum |-> U16FromBe(SubSeq(b, 3, 4)),
   message |-> ParsedMessage(Shape(b[1]), b)]

\* parse_icmp, as acceptance and what is made of an accepted message.
LEMMA ParseIcmpCases ==
  ASSUME NEW b
  PROVE  /\ Accepts(b) => ParseIcmp(b) = [ok |-> TRUE, packet |-> ParsedPacket(b)]
         /\ ~Accepts(b) => ParseIcmp(b) = NoPacket
BY Zenon DEF Accepts, ParseIcmp, ParsedPacket, ParsedMessage, ParsedFields

\* Only IPv4 types 13 to 16 have messages of fixed size.
LEMMA ShapeValues ==
  ASSUME NEW t
  PROVE  /\ Shape(t) \in {"word", "echo", "pointer", "stamps", "bare", "unknown"}
         /\ Shape(t) \in {"stamps", "bare"} => ~v6 /\ t \in 13 .. 16
<1>1. v6 => Shape(t) \in {"word", "echo", "unknown"}
  BY Zenon DEF Shape, Shape6
<1>2. ~v6 => Shape(t) \in {"word", "echo", "pointer", "stamps", "bare", "unknown"}
  BY DEF Shape, Shape4
<1>3. ~v6 /\ Shape(t) = "stamps" => t \in {13, 14}
  BY DEF Shape, Shape4
<1>4. ~v6 /\ Shape(t) = "bare" => t \in {15, 16}
  BY DEF Shape, Shape4
<1> QED BY <1>1, <1>2, <1>3, <1>4

\* A byte string from byte k + 1 on, which may be empty.
LEMMA Suffix ==
  ASSUME NEW b \in Seq(Byte), NEW k \in Nat, k <= Len(b)
  PROVE  /\ SubSeq(b, k + 1, Len(b)) \in Seq(Byte) /\ Len(SubSeq(b, k + 1, Len(b))) = Len(b) - k
         /\ \A i \in 1 .. Len(b) - k : SubSeq(b, k + 1, Len(b))[i] = b[k + i]
OBVIOUS

\* The rest of a message whose shape has one.
LEMMA RestBytes ==
  ASSUME NEW b \in Seq(Byte), Len(b) >= 8, NEW shape
  PROVE  /\ Rest(shape, b) \in Seq(Byte)
         /\ shape \in {"stamps", "bare"} => Rest(shape, b) = <<>>
         /\ shape \notin {"stamps", "bare"} =>
              /\ Len(Rest(shape, b)) = Len(b) - 8
              /\ \A i \in 1 .. Len(b) - 8 : Rest(shape, b)[i] = b[8 + i]
<1>1. CASE shape \in {"stamps", "bare"}
  BY <1>1 DEF Rest
<1>2. CASE shape \notin {"stamps", "bare"}
  <2>1. Rest(shape, b) = SubSeq(b, 9, Len(b))
    BY Zenon, <1>2 DEF Rest
  <2>2. PICK k \in Nat : k = 8 /\ k <= Len(b) /\ k + 1 = 9
    OBVIOUS
  <2>3. /\ SubSeq(b, k + 1, Len(b)) \in Seq(Byte) /\ Len(SubSeq(b, k + 1, Len(b))) = Len(b) - k
        /\ \A i \in 1 .. Len(b) - k : SubSeq(b, k + 1, Len(b))[i] = b[k + i]
    BY Zenon, <2>2, Suffix
  <2>4. Rest(shape, b) = SubSeq(b, k + 1, Len(b))
    BY Zenon, <2>1, <2>2
  <2> QED BY Zenon, <1>2, <2>2, <2>3, <2>4
<1> QED BY Zenon, <1>1, <1>2

\* A parsed message has the fields of its shape, and they are the bytes read.
LEMMA ParsedMessageOK ==
  ASSUME NEW b \in Seq(Byte), Len(b) >= 8,
         NEW shape \in {"word", "echo", "pointer", "stamps", "bare"},
         shape = "stamps" => Len(b) >= 20
  PROVE  /\ MessageOK(ParsedMessage(shape, b))
         /\ \A i \in 1 .. FieldSize(shape) : FieldPart(ParsedMessage(shape, b))[i] = b[4 + i]
<1> DEFINE m == ParsedMessage(shape, b)
<1>0. /\ m.shape = shape /\ m.fields = ParsedFields(shape, b) /\ m.rest = Rest(shape, b)
      /\ m = [shape |-> m.shape, fields |-> m.fields, rest |-> m.rest]
  BY Zenon DEF ParsedMessage
<1> HIDE DEF m
<1>1. /\ m.rest \in Seq(Byte) /\ (shape \in {"stamps", "bare"} => m.rest = <<>>)
  <2>1. Rest(shape, b) \in Seq(Byte) /\ (shape \in {"stamps", "bare"} => Rest(shape, b) = <<>>)
    BY RestBytes
  <2> QED BY Zenon, <1>0, <2>1
<1>2. CASE shape = "pointer"
  <2>1. PICK x \in Byte, y \in Byte, p \in Byte, q \in Byte : x = b[5] /\ y = b[6] /\ p = b[7] /\ q = b[8]
    <3>1. b[5] \in Byte /\ b[6] \in Byte /\ b[7] \in Byte /\ b[8] \in Byte
      OBVIOUS
    <3> QED BY Zenon, <3>1
  <2>2. PICK z \in Word : z = U16FromBe(SubSeq(b, 7, 8)) /\ z \div 256 = p /\ z % 256 = q
    <3>1. PICK j \in 1 .. Len(b) : j = 7 /\ j + 1 = 8 /\ j + 1 \in 1 .. Len(b)
      OBVIOUS
    <3>2. U16FromBe(SubSeq(b, j, j + 1)) = 256 * b[j] + b[j + 1]
      BY <3>1, TwoBytes
    <3>3. U16FromBe(SubSeq(b, 7, 8)) = 256 * p + q
      BY <2>1, <3>1, <3>2
    <3> QED BY <3>3, BytesWord
  <2>3. m.fields = <<x, y, z>>
    BY Zenon, <1>0, <1>2, <2>1, <2>2 DEF ParsedFields
  <2>4. x \in Word /\ y \in Word
    BY SMT, ByteNat, WordNat
  <2>5. m.fields \in Seq(Word) /\ Len(m.fields) = 3 /\ m.fields[1] = x /\ m.fields[2] = y /\ m.fields[3] = z
    BY <2>3, <2>4
  <2>6. MessageOK(m)
    <3>1. m \in Message
      BY Zenon, <1>0, <1>1, <2>5 DEF Message
    <3>2. m.shape \notin {"word", "echo", "bare", "stamps"}
      BY Zenon, <1>0, <1>2
    <3> QED BY Zenon, <1>0, <1>1, <2>5, <3>1, <3>2 DEF MessageOK
  <2>7. PICK a \in Seq(Byte), u \in Seq(Byte) :
          /\ a = <<x, y>> /\ Len(a) = 2 /\ a[1] = x /\ a[2] = y
          /\ u = U16ToBe(z) /\ Len(u) = 2 /\ u[1] = p /\ u[2] = q
    <3>1. <<x, y>> \in Seq(Byte) /\ Len(<<x, y>>) = 2 /\ <<x, y>>[1] = x /\ <<x, y>>[2] = y
      OBVIOUS
    <3>2. U16ToBe(z) \in Seq(Byte) /\ Len(U16ToBe(z)) = 2 /\ U16ToBe(z)[1] = p /\ U16ToBe(z)[2] = q
      BY <2>2, U16ToBeBytes
    <3> QED BY Zenon, <3>1, <3>2
  <2>8. FieldPart(m) = a \o u
    BY Zenon, <1>0, <1>2, <2>5, <2>7 DEF FieldPart
  <2>9. (a \o u)[1] = x /\ (a \o u)[2] = y /\ (a \o u)[3] = p /\ (a \o u)[4] = q
    BY Zenon, <2>7, TwoAndTwo
  <2>10. PICK c : c = a \o u /\ c[1] = b[5] /\ c[2] = b[6] /\ c[3] = b[7] /\ c[4] = b[8]
    BY Zenon, <2>1, <2>9
  <2>11. \A i \in 1 .. 4 : c[i] = b[4 + i]
    <3>1. c[1] = b[4 + 1] /\ c[2] = b[4 + 2] /\ c[3] = b[4 + 3] /\ c[4] = b[4 + 4]
      BY <2>10
    <3>2. \A i \in 1 .. 4 : i = 1 \/ i = 2 \/ i = 3 \/ i = 4
      OBVIOUS
    <3> QED BY Zenon, <3>1, <3>2
  <2>12. FieldSize(shape) = 4
    BY <1>2 DEF FieldSize
  <2> QED BY Zenon, <2>6, <2>8, <2>10, <2>11, <2>12 DEF m
<1>3. CASE shape # "pointer"
  <2>1. PICK n \in Nat : n = FieldSize(shape) /\ 4 + n <= Len(b) /\ n \in {4, 16} /\ (n = 16 <=> shape = "stamps")
    BY DEF FieldSize
  <2>2. PICK c \in Seq(Byte) : c = SubSeq(b, 5, 4 + n) /\ Len(c) = n /\ \A i \in 1 .. n : c[i] = b[4 + i]
    <3>1. PICK i \in 1 .. Len(b), j \in 1 .. Len(b) : i = 5 /\ j = 4 + n /\ j \in i .. Len(b)
      BY <2>1
    <3>2. /\ SubSeq(b, i, j) \in Seq(Byte) /\ Len(SubSeq(b, i, j)) = n
          /\ \A k \in 1 .. n : SubSeq(b, i, j)[k] = b[4 + k]
      BY <2>1, <3>1
    <3> QED BY Zenon, <3>1, <3>2
  <2>3. m.fields = Halves(c)
    <3>1. CASE shape = "stamps"
      <4>1. 4 + n = 20
        BY <2>1, <3>1
      <4> QED BY Zenon, <1>0, <3>1, <2>2, <4>1 DEF ParsedFields
    <3>2. CASE shape # "stamps"
      <4>1. 4 + n = 8
        BY <2>1, <3>2
      <4> QED BY Zenon, <1>0, <1>3, <3>2, <2>2, <4>1 DEF ParsedFields
    <3> QED BY Zenon, <3>1, <3>2
  <2>4. m.fields \in Seq(Word) /\ Len(m.fields) = n \div 2
    BY Zenon, <2>2, <2>3, HalvesWords
  <2>5. (shape = "stamps" => Len(m.fields) = 8) /\ (shape # "stamps" => Len(m.fields) = 2)
    BY <2>1, <2>4
  <2>6. MessageOK(m)
    <3>1. m \in Message
      BY Zenon, <1>0, <1>1, <2>4 DEF Message
    <3> QED BY Zenon, <1>0, <1>1, <1>3, <2>5, <3>1 DEF MessageOK
  <2>7. FieldPart(m) = c
    <3>1. Len(c) % 2 = 0
      BY <2>1, <2>2
    <3>2. HalvesToBe(Halves(c)) = c
      BY Zenon, <3>1, HalvesToBeHalves
    <3> QED BY Zenon, <1>0, <1>3, <2>3, <3>2 DEF FieldPart
  <2> QED BY Zenon, <2>1, <2>2, <2>6, <2>7 DEF m
<1> QED BY Zenon, <1>2, <1>3

\* What is accepted has the shape of its type and enough bytes for it.
LEMMA AcceptsFacts ==
  ASSUME NEW b \in Seq(Byte), Accepts(b)
  PROVE  /\ Len(b) >= 8 /\ (Shape(b[1]) = "stamps" => Len(b) >= 20)
         /\ Shape(b[1]) \in {"word", "echo", "pointer", "stamps", "bare"}
<1>1. ~(Len(b) < 8) /\ Shape(b[1]) # "unknown" /\ (Shape(b[1]) = "stamps" => ~(Len(b) < 20))
  BY Zenon DEF Accepts
<1>2. Shape(b[1]) \in {"word", "echo", "pointer", "stamps", "bare", "unknown"}
  BY Zenon, ShapeValues
<1>3. Len(b) >= 8 /\ (Shape(b[1]) = "stamps" => Len(b) >= 20)
  BY <1>1
<1> QED BY Zenon, <1>1, <1>2, <1>3

\* The parser returns well-formed packets only.
LEMMA ParsedPacketOK ==
  ASSUME NEW b \in Seq(Byte), Accepts(b)
  PROVE  PacketOK(ParsedPacket(b))
<1> DEFINE q == ParsedPacket(b)
<1>1. /\ q.typ = b[1] /\ q.code = b[2] /\ q.checksum = U16FromBe(SubSeq(b, 3, 4))
      /\ q.message = ParsedMessage(Shape(b[1]), b)
      /\ q = [typ |-> q.typ, code |-> q.code, checksum |-> q.checksum, message |-> q.message]
  BY Zenon DEF ParsedPacket
<1> HIDE DEF q
<1>2. Len(b) >= 8
  BY AcceptsFacts
<1>3. b[1] \in Byte /\ b[2] \in Byte /\ b[3] \in Byte /\ b[4] \in Byte
  BY <1>2
<1>4. U16FromBe(SubSeq(b, 3, 4)) \in Word
  <2>1. PICK j \in 1 .. Len(b) : j = 3 /\ j + 1 = 4 /\ j + 1 \in 1 .. Len(b)
    BY <1>2
  <2>2. U16FromBe(SubSeq(b, j, j + 1)) = 256 * b[j] + b[j + 1]
    BY <2>1, TwoBytes
  <2> QED BY <1>3, <2>1, <2>2, BytesWord
<1>5. MessageOK(q.message)
  <2>1. MessageOK(ParsedMessage(Shape(b[1]), b))
    BY AcceptsFacts, ParsedMessageOK
  <2> QED BY Zenon, <1>1, <2>1
<1>6. q.message.shape = Shape(b[1])
  <2>1. ParsedMessage(Shape(b[1]), b).shape = Shape(b[1])
    BY Zenon DEF ParsedMessage
  <2> QED BY Zenon, <1>1, <2>1
<1>7. q \in Packet
  <2>1. q.message \in Message
    BY Zenon, <1>5 DEF MessageOK
  <2> QED BY Zenon, <1>1, <1>3, <1>4, <2>1 DEF Packet
<1> QED BY Zenon, <1>1, <1>5, <1>6, <1>7 DEF PacketOK, q

\* get_bytes of a parsed packet gives back the bytes parsed, and leaves bytes
\* out only behind an IPv4 message of fixed size.
LEMMA ParseIsPrefix ==
  ASSUME NEW b \in Seq(Byte), Accepts(b)
  PROVE  LET kept == GetBytes(ParsedPacket(b), TRUE)
         IN  /\ kept \in Seq(Byte) /\ Len(kept) <= Len(b)
             /\ \A i \in 1 .. Len(kept) : kept[i] = b[i]
             /\ Len(kept) = Len(b) \/ (~v6 /\ b[1] \in 13 .. 16)
<1> DEFINE q == ParsedPacket(b)
<1> DEFINE kept == GetBytes(q, TRUE)
<1>0. PICK shape \in {"word", "echo", "pointer", "stamps", "bare"} :
        /\ shape = Shape(b[1]) /\ Len(b) >= 8 /\ (shape = "stamps" => Len(b) >= 20)
  BY Zenon, AcceptsFacts
<1>1. PICK m : m = ParsedMessage(shape, b)
  OBVIOUS
<1>2. q \in Packet /\ MessageOK(q.message)
  BY Zenon, ParsedPacketOK DEF PacketOK
<1>3. q.typ = b[1] /\ q.code = b[2] /\ q.checksum = U16FromBe(SubSeq(b, 3, 4)) /\ q.message = m
  BY Zenon, <1>0, <1>1 DEF ParsedPacket
<1>4. m.shape = shape /\ m.rest = Rest(shape, b)
  BY Zenon, <1>1 DEF ParsedMessage
<1> HIDE DEF q
<1>5. PICK n \in Nat : n = FieldSize(shape) /\ (n = 16 <=> shape = "stamps") /\ n \in {4, 16}
  BY DEF FieldSize
<1>6. PICK r \in Seq(Byte) : r = m.rest
  BY Zenon, <1>0, <1>4, RestBytes
<1>7. /\ kept \in Seq(Byte) /\ Len(kept) = 4 + n + Len(r)
      /\ kept[1] = b[1] /\ kept[2] = b[2]
      /\ kept[3] = q.checksum \div 256 /\ kept[4] = q.checksum % 256
      /\ \A i \in 1 .. n : kept[4 + i] = FieldPart(m)[i]
      /\ \A i \in 1 .. Len(r) : kept[4 + n + i] = r[i]
  <2>1. LET cs == IF TRUE THEN q.checksum ELSE 0
        IN  /\ kept \in Seq(Byte) /\ Len(kept) = 4 + FieldSize(q.message.shape) + Len(q.message.rest)
            /\ kept[1] = q.typ /\ kept[2] = q.code /\ kept[3] = cs \div 256 /\ kept[4] = cs % 256
            /\ \A i \in 1 .. FieldSize(q.message.shape) : kept[4 + i] = FieldPart(q.message)[i]
            /\ \A i \in 1 .. Len(q.message.rest) :
                 kept[4 + FieldSize(q.message.shape) + i] = q.message.rest[i]
    BY Zenon, <1>2, GetBytesLayout
  <2> HIDE DEF kept
  <2>2. q.message = m /\ FieldSize(q.message.shape) = n /\ q.message.rest = r
    BY Zenon, <1>3, <1>4, <1>5, <1>6
  <2> QED BY Zenon, <1>3, <2>1, <2>2
<1> HIDE DEF kept
<1>8. kept[3] = b[3] /\ kept[4] = b[4]
  <2>1. PICK j \in 1 .. Len(b) : j = 3 /\ j + 1 = 4 /\ j + 1 \in 1 .. Len(b)
    BY <1>0
  <2>2. q.checksum = 256 * b[j] + b[j + 1]
    BY <1>3, <2>1, TwoBytes
  <2>3. PICK x \in Byte, y \in Byte : x = b[3] /\ y = b[4]
    <3>1. b[3] \in Byte /\ b[4] \in Byte
      BY <1>0
    <3> QED BY Zenon, <3>1
  <2>4. q.checksum = 256 * x + y
    BY <2>1, <2>2, <2>3
  <2> QED BY <1>7, <2>3, <2>4, BytesWord
<1>9. \A i \in 1 .. n : kept[4 + i] = b[4 + i]
  <2>1. \A i \in 1 .. n : FieldPart(m)[i] = b[4 + i]
    BY Zenon, <1>0, <1>1, <1>5, ParsedMessageOK
  <2> QED BY Zenon, <1>7, <2>1
<1>10. \A i \in 1 .. 4 : kept[i] = b[i]
  <2>1. \A i \in 1 .. 4 : i = 1 \/ i = 2 \/ i = 3 \/ i = 4
    OBVIOUS
  <2> QED BY Zenon, <1>7, <1>8, <2>1
<1>11. CASE shape \in {"stamps", "bare"}
  <2>1. Len(r) = 0 /\ Len(kept) = 4 + n /\ 4 + n <= Len(b)
    <3>1. r = <<>>
      BY Zenon, <1>0, <1>4, <1>6, <1>11, RestBytes
    <3>2. Len(r) = 0
      BY <3>1
    <3> QED BY <1>0, <1>5, <1>7, <3>2
  <2>2. \A i \in 1 .. Len(kept) : i \in 1 .. 4 \/ (i - 4 \in 1 .. n /\ 4 + (i - 4) = i)
    BY <2>1
  <2>3. ~v6 /\ b[1] \in 13 .. 16
    BY Zenon, <1>0, <1>11, ShapeValues
  <2>4. \A i \in 1 .. Len(kept) : kept[i] = b[i]
    BY Zenon, <1>9, <1>10, <2>2
  <2> QED BY Zenon, <1>7, <2>1, <2>3, <2>4 DEF kept, q
<1>12. CASE shape \notin {"stamps", "bare"}
  <2>1. n = 4 /\ Len(r) = Len(b) - 8 /\ \A i \in 1 .. Len(r) : r[i] = b[8 + i]
    <3>1. n = 4
      BY Zenon, <1>5, <1>12
    <3>2. Len(r) = Len(b) - 8 /\ \A i \in 1 .. Len(b) - 8 : r[i] = b[8 + i]
      <4>1. /\ Len(Rest(shape, b)) = Len(b) - 8
            /\ \A i \in 1 .. Len(b) - 8 : Rest(shape, b)[i] = b[8 + i]
        BY <1>0, <1>12, RestBytes
      <4> QED BY Zenon, <1>4, <1>6, <4>1
    <3> QED BY Zenon, <3>1, <3>2
  <2>2. Len(kept) = Len(b)
    BY <1>7, <2>1
  <2>3. \A i \in 1 .. Len(kept) : \/ i \in 1 .. 4
                                  \/ i - 4 \in 1 .. n /\ 4 + (i - 4) = i
                                  \/ i - 8 \in 1 .. Len(r) /\ 8 + (i - 8) = i /\ 4 + n + (i - 8) = i
    BY <2>1, <2>2
  <2>4. \A i \in 1 .. Len(kept) : kept[i] = b[i]
    <3> TAKE i \in 1 .. Len(kept)
    <3>1. CASE i \in 1 .. 4
      BY Zenon, <1>10, <3>1
    <3>2. CASE i - 4 \in 1 .. n /\ 4 + (i - 4) = i
      BY Zenon, <1>9, <3>2
    <3>3. CASE i - 8 \in 1 .. Len(r) /\ 8 + (i - 8) = i /\ 4 + n + (i - 8) = i
      <4>1. PICK j \in 1 .. Len(r) : 8 + j = i /\ 4 + n + j = i
        BY Zenon, <3>3
      <4>2. kept[4 + n + j] = r[j]
        BY Zenon, <1>7
      <4>3. r[j] = b[8 + j]
        BY Zenon, <2>1
      <4> QED BY Zenon, <4>1, <4>2, <4>3
    <3> QED BY Zenon, <2>3, <3>1, <3>2, <3>3
  <2>5. Len(kept) <= Len(b)
    BY <2>2
  <2> QED BY Zenon, <1>7, <2>2, <2>4, <2>5 DEF kept, q
<1> QED BY Zenon, <1>11, <1>12

\* The fields read back from the bytes of a packet.
LEMMA FieldsReadBack ==
  ASSUME NEW m, MessageOK(m), NEW b \in Seq(Byte), Len(b) = 4 + FieldSize(m.shape) + Len(m.rest),
         \A i \in 1 .. FieldSize(m.shape) : b[4 + i] = FieldPart(m)[i]
  PROVE  ParsedFields(m.shape, b) = m.fields
<1>0. /\ m.fields \in Seq(Word) /\ m.rest \in Seq(Byte)
      /\ m.shape \in {"word", "echo", "pointer", "stamps", "bare"}
  BY DEF MessageOK, Message
<1>1. PICK n \in Nat : /\ n = FieldSize(m.shape) /\ (n = 16 <=> m.shape = "stamps") /\ n \in {4, 16}
                       /\ 4 + n <= Len(b) /\ \A i \in 1 .. n : b[4 + i] = FieldPart(m)[i]
  <2>1. FieldSize(m.shape) \in {4, 16} /\ (FieldSize(m.shape) = 16 <=> m.shape = "stamps")
    BY DEF FieldSize
  <2>2. 4 + FieldSize(m.shape) <= Len(b)
    BY <1>0, <2>1
  <2> QED BY <2>1, <2>2
<1>2. CASE m.shape = "pointer"
  <2>1. Len(m.fields) = 3 /\ m.fields[1] \in Byte /\ m.fields[2] \in Byte /\ m.fields[3] \in Word
    BY <1>0, <1>2 DEF MessageOK
  <2>2. PICK x \in Byte, y \in Byte, z \in Word :
          x = m.fields[1] /\ y = m.fields[2] /\ z = m.fields[3]
    BY Zenon, <2>1
  <2>3. PICK a \in Seq(Byte), u \in Seq(Byte) :
          /\ a = <<x, y>> /\ Len(a) = 2 /\ a[1] = x /\ a[2] = y
          /\ u = U16ToBe(z) /\ Len(u) = 2 /\ u[1] = z \div 256 /\ u[2] = z % 256
    <3>1. <<x, y>> \in Seq(Byte) /\ Len(<<x, y>>) = 2 /\ <<x, y>>[1] = x /\ <<x, y>>[2] = y
      OBVIOUS
    <3>2. U16ToBe(z) \in Seq(Byte) /\ Len(U16ToBe(z)) = 2 /\ U16ToBe(z)[1] = z \div 256 /\ U16ToBe(z)[2] = z % 256
      BY U16ToBeBytes
    <3> QED BY Zenon, <3>1, <3>2
  <2>4. FieldPart(m) = a \o u
    BY Zenon, <1>2, <2>2, <2>3 DEF FieldPart
  <2>5. PICK c : c = a \o u /\ c[1] = x /\ c[2] = y /\ c[3] = z \div 256 /\ c[4] = z % 256
    <3>1. (a \o u)[1] = a[1] /\ (a \o u)[2] = a[2] /\ (a \o u)[3] = u[1] /\ (a \o u)[4] = u[2]
      BY Zenon, <2>3, TwoAndTwo
    <3> QED BY Zenon, <2>3, <3>1
  <2>6. \A i \in 1 .. 4 : b[4 + i] = c[i]
    BY Zenon, <1>1, <1>2, <2>4, <2>5 DEF FieldSize
  <2>7. b[5] = x /\ b[6] = y /\ b[7] = z \div 256 /\ b[8] = z % 256
    <3>1. \A d : (\A i \in 1 .. 4 : b[4 + i] = d[i]) => b[5] = d[1] /\ b[6] = d[2] /\ b[7] = d[3] /\ b[8] = d[4]
      OBVIOUS
    <3> QED BY Zenon, <2>5, <2>6, <3>1
  <2>8. U16FromBe(SubSeq(b, 7, 8)) = z
    <3>1. PICK j \in 1 .. Len(b) : j = 7 /\ j + 1 = 8 /\ j + 1 \in 1 .. Len(b)
      BY <1>1
    <3>2. U16FromBe(SubSeq(b, j, j + 1)) = 256 * b[j] + b[j + 1]
      BY <3>1, TwoBytes
    <3> QED BY <2>7, <3>1, <3>2, WordBytes
  <2>9. ParsedFields(m.shape, b) = <<x, y, z>>
    BY Zenon, <1>2, <2>7, <2>8 DEF ParsedFields
  <2>10. m.fields = <<x, y, z>>
    BY <1>0, <2>1, <2>2
  <2> QED BY Zenon, <2>9, <2>10
<1>3. CASE m.shape # "pointer"
  <2>1. PICK c \in Seq(Byte) : c = SubSeq(b, 5, 4 + n) /\ Len(c) = n /\ \A i \in 1 .. n : c[i] = b[4 + i]
    <3>1. PICK i \in 1 .. Len(b), j \in 1 .. Len(b) : i = 5 /\ j = 4 + n /\ j \in i .. Len(b)
      BY <1>1
    <3>2. /\ SubSeq(b, i, j) \in Seq(Byte) /\ Len(SubSeq(b, i, j)) = n
          /\ \A k \in 1 .. n : SubSeq(b, i, j)[k] = b[4 + k]
      BY <1>1, <3>1
    <3> QED BY Zenon, <3>1, <3>2
  <2>2. FieldPart(m) = HalvesToBe(m.fields)
    BY Zenon, <1>3 DEF FieldPart
  <2>3. PICK d \in Seq(Byte) : d = HalvesToBe(m.fields) /\ Len(d) = n
    BY Zenon, <1>1, <2>2, FieldPartBytes
  <2>4. \A i \in 1 .. n : c[i] = d[i]
    BY Zenon, <1>1, <2>1, <2>2, <2>3
  <2>5. c = d
    BY Zenon, <2>1, <2>3, <2>4, SameBytes
  <2>6. Halves(c) = m.fields
    BY Zenon, <1>0, <2>3, <2>5, HalvesHalvesToBe
  <2>7. CASE m.shape = "stamps"
    <3>1. 4 + n = 20
      BY <1>1, <2>7
    <3> QED BY Zenon, <2>1, <2>6, <2>7, <3>1 DEF ParsedFields
  <2>8. CASE m.shape # "stamps"
    <3>1. 4 + n = 8
      BY <1>1, <2>8
    <3> QED BY Zenon, <1>3, <2>1, <2>6, <2>8, <3>1 DEF ParsedFields
  <2> QED BY Zenon, <2>7, <2>8
<1> QED BY Zenon, <1>2, <1>3

\* The parser gives back every packet that get_bytes wrote.
LEMMA ParseOfGetBytes ==
  ASSUME NEW p, PacketOK(p)
  PROVE  ParseIcmp(GetBytes(p, TRUE)) = [ok |-> TRUE, packet |-> p]
<1>0. p \in Packet /\ MessageOK(p.message) /\ p.message.shape = Shape(p.typ)
  BY Zenon DEF PacketOK
<1>1. PICK m : m = p.message /\ MessageOK(m)
  BY Zenon, <1>0
<1>2. /\ p = [typ |-> p.typ, code |-> p.code, checksum |-> p.checksum, message |-> m]
      /\ p.checksum \in Word
  BY Zenon, <1>0, <1>1 DEF Packet
<1>3. /\ m = [shape |-> m.shape, fields |-> m.fields, rest |-> m.rest] /\ m.rest \in Seq(Byte)
      /\ m.shape \in {"word", "echo", "pointer", "stamps", "bare"}
  BY Zenon, <1>1 DEF MessageOK, Message
<1>4. PICK b \in Seq(Byte) :
        /\ b = GetBytes(p, TRUE) /\ Len(b) = 4 + FieldSize(m.shape) + Len(m.rest)
        /\ b[1] = p.typ /\ b[2] = p.code /\ b[3] = p.checksum \div 256 /\ b[4] = p.checksum % 256
        /\ \A i \in 1 .. FieldSize(m.shape) : b[4 + i] = FieldPart(m)[i]
        /\ \A i \in 1 .. Len(m.rest) : b[4 + FieldSize(m.shape) + i] = m.rest[i]
  <2> DEFINE c == GetBytes(p, TRUE)
  <2>1. LET cs == IF TRUE THEN p.checksum ELSE 0
        IN  /\ c \in Seq(Byte) /\ Len(c) = 4 + FieldSize(p.message.shape) + Len(p.message.rest)
            /\ c[1] = p.typ /\ c[2] = p.code /\ c[3] = cs \div 256 /\ c[4] = cs % 256
            /\ \A i \in 1 .. FieldSize(p.message.shape) : c[4 + i] = FieldPart(p.message)[i]
            /\ \A i \in 1 .. Len(p.message.rest) :
                 c[4 + FieldSize(p.message.shape) + i] = p.message.rest[i]
    BY Zenon, <1>0, GetBytesLayout
  <2> HIDE DEF c
  <2> QED BY Zenon, <1>1, <2>1 DEF c
<1>5. PICK n \in Nat : n = FieldSize(m.shape) /\ (n = 16 <=> m.shape = "stamps") /\ n \in {4, 16}
  BY DEF FieldSize
<1>6. Len(b) >= 8 /\ (m.shape = "stamps" => Len(b) >= 20)
  <2>1. PICK k \in Nat : k = Len(m.rest)
    BY <1>3
  <2>2. Len(b) = 4 + n + k
    BY Zenon, <1>4, <1>5, <2>1
  <2> QED BY <1>5, <2>2
<1>7. Shape(b[1]) = m.shape
  BY Zenon, <1>0, <1>1, <1>4
<1>8. Accepts(b)
  <2>1. m.shape # "unknown"
    BY Zenon, <1>3
  <2>2. ~(Len(b) < 8) /\ (m.shape = "stamps" => ~(Len(b) < 20))
    BY <1>6
  <2> QED BY Zenon, <1>7, <2>1, <2>2 DEF Accepts
<1>9. U16FromBe(SubSeq(b, 3, 4)) = p.checksum
  <2>1. PICK j \in 1 .. Len(b) : j = 3 /\ j + 1 = 4 /\ j + 1 \in 1 .. Len(b)
    BY <1>6
  <2>2. U16FromBe(SubSeq(b, j, j + 1)) = 256 * b[j] + b[j + 1]
    BY <2>1, TwoBytes
  <2>3. U16FromBe(SubSeq(b, 3, 4)) = 256 * b[3] + b[4]
    BY <2>1, <2>2
  <2>4. b[3] = p.checksum \div 256 /\ b[4] = p.checksum % 256
    BY Zenon, <1>4
  <2> QED BY <1>2, <2>3, <2>4, WordBytes
<1>10. ParsedFields(m.shape, b) = m.fields
  BY Zenon, <1>1, <1>4, FieldsReadBack
<1>11. Rest(m.shape, b) = m.rest
  <2>1. CASE m.shape \in {"stamps", "bare"}
    BY Zenon, <1>1, <2>1 DEF Rest, MessageOK
  <2>2. CASE m.shape \notin {"stamps", "bare"}
    <3>1. PICK r \in Seq(Byte), s \in Seq(Byte) : /\ r = Rest(m.shape, b) /\ s = m.rest
            /\ Len(r) = Len(b) - 8 /\ \A i \in 1 .. Len(b) - 8 : r[i] = b[8 + i]
      <4>1. /\ Rest(m.shape, b) \in Seq(Byte) /\ Len(Rest(m.shape, b)) = Len(b) - 8
            /\ \A i \in 1 .. Len(b) - 8 : Rest(m.shape, b)[i] = b[8 + i]
        BY <1>6, <2>2, RestBytes
      <4> QED BY Zenon, <1>3, <4>1
    <3>2. n = 4
      BY Zenon, <1>5, <2>2
    <3>3. Len(b) = 4 + n + Len(s) /\ \A i \in 1 .. Len(s) : b[4 + n + i] = s[i]
      <4>1. s = m.rest
        BY Zenon, <3>1
      <4>2. Len(b) = 4 + n + Len(s)
        BY Zenon, <1>4, <1>5, <4>1
      <4>3. ASSUME NEW i \in 1 .. Len(s) PROVE b[4 + n + i] = s[i]
        <5>1. i \in 1 .. Len(m.rest)
          BY Zenon, <4>1
        <5>2. \A j \in 1 .. Len(m.rest) : b[4 + FieldSize(m.shape) + j] = m.rest[j]
          BY Zenon, <1>4
        <5>3. b[4 + FieldSize(m.shape) + i] = m.rest[i]
          BY <5>1, <5>2
        <5> QED BY Zenon, <1>5, <4>1, <5>3
      <4> QED BY Zenon, <4>2, <4>3
    <3>4. Len(r) = Len(s)
      BY <3>1, <3>2, <3>3
    <3>5. \A i \in 1 .. Len(r) : r[i] = s[i]
      BY <3>1, <3>2, <3>3, <3>4
    <3> QED BY Zenon, <3>1, <3>4, <3>5, SameBytes
  <2> QED BY Zenon, <2>1, <2>2
<1>12. ParsedMessage(Shape(b[1]), b) = m
  BY Zenon, <1>3, <1>7, <1>10, <1>11 DEF ParsedMessage
<1>13. ParsedPacket(b) = p
  BY Zenon, <1>2, <1>4, <1>9, <1>12 DEF ParsedPacket
<1> QED BY Zenon, <1>4, <1>8, <1>13, ParseIcmpCases

-----------------------------------------------------------------------------
(* Checksums of packets.                                                   *)

\* The addresses of the pseudo header have a sum.
LEMMA PseudoSumNat == PseudoSum \in Nat
BY Zenon, PacketAssumption

\* The sum of a message is a natural number.
LEMMA WordSumNat ==
  ASSUME NEW b \in Seq(Byte)
  PROVE  WordSum(b) \in Nat
<1>1. ByteSum(b) \in Nat /\ Len(b) \in Nat
  BY SumsAgree
<1> QED BY <1>1, PseudoSumNat DEF WordSum

\* A message is valid when its sum is minus zero.
LEMMA ValidIsBalanced ==
  ASSUME NEW b
  PROVE  ValidOnWire(b) <=> Balanced(WordSum(b))
BY SMT DEF ValidOnWire, Balanced, AllOnes

\* The layout of get_bytes, with the checksum or zero in its place.
Layout(p, b, cs) ==
  /\ b \in Seq(Byte) /\ Len(b) = 4 + FieldSize(p.message.shape) + Len(p.message.rest)
  /\ b[1] = p.typ /\ b[2] = p.code /\ b[3] = cs \div 256 /\ b[4] = cs % 256
  /\ \A i \in 1 .. FieldSize(p.message.shape) : b[4 + i] = FieldPart(p.message)[i]
  /\ \A i \in 1 .. Len(p.message.rest) : b[4 + FieldSize(p.message.shape) + i] = p.message.rest[i]

\* get_bytes(true) and get_bytes(false) differ in the checksum field only.
LEMMA GetBytesBoth ==
  ASSUME NEW p, p \in Packet, MessageOK(p.message)
  PROVE  Layout(p, GetBytes(p, TRUE), p.checksum) /\ Layout(p, GetBytes(p, FALSE), 0)
<1>1. ASSUME NEW with_checksum \in BOOLEAN
      PROVE  Layout(p, GetBytes(p, with_checksum), IF with_checksum THEN p.checksum ELSE 0)
  BY Zenon, GetBytesLayout DEF Layout
<1>2. (IF TRUE THEN p.checksum ELSE 0) = p.checksum /\ (IF FALSE THEN p.checksum ELSE 0) = 0
  BY Zenon
<1>3. TRUE \in BOOLEAN /\ FALSE \in BOOLEAN
  BY Zenon
<1>4. /\ Layout(p, GetBytes(p, TRUE), IF TRUE THEN p.checksum ELSE 0)
      /\ Layout(p, GetBytes(p, FALSE), IF FALSE THEN p.checksum ELSE 0)
  BY Zenon, <1>1, <1>3
<1> QED BY Zenon, <1>2, <1>4

\* The checksum field adds its value to the sum of the message without it.
LEMMA ChecksumAdds ==
  ASSUME NEW p, p \in Packet, MessageOK(p.message)
  PROVE  /\ GetBytes(p, TRUE) \in Seq(Byte) /\ GetBytes(p, FALSE) \in Seq(Byte)
         /\ WordSum(GetBytes(p, TRUE)) = WordSum(GetBytes(p, FALSE)) + p.checksum
<1>0. PICK c \in Word : c = p.checksum
  BY Zenon DEF Packet
<1>1. PICK r \in Seq(Byte), f \in Seq(Byte) : r = p.message.rest /\ f = FieldPart(p.message)
  BY Zenon, FieldPartBytes DEF MessageOK, Message
<1>2. PICK n \in Nat : n = FieldSize(p.message.shape)
  BY DEF FieldSize
<1> DEFINE At(b, cs) ==
      /\ b \in Seq(Byte) /\ Len(b) = 4 + n + Len(r)
      /\ b[1] = p.typ /\ b[2] = p.code /\ b[3] = cs \div 256 /\ b[4] = cs % 256
      /\ \A i \in 1 .. n : b[4 + i] = f[i]
      /\ \A i \in 1 .. Len(r) : b[4 + n + i] = r[i]
<1>3. At(GetBytes(p, TRUE), c) /\ At(GetBytes(p, FALSE), 0)
  <2>1. ASSUME NEW b, NEW cs PROVE Layout(p, b, cs) => At(b, cs)
    BY Zenon, <1>1, <1>2 DEF Layout
  <2> HIDE DEF At
  <2> QED BY Zenon, <1>0, <2>1, GetBytesBoth
<1>4. PICK b \in Seq(Byte), d \in Seq(Byte) :
        b = GetBytes(p, TRUE) /\ d = GetBytes(p, FALSE) /\ At(b, c) /\ At(d, 0)
  BY Zenon, <1>3
<1>6. Len(b) = Len(d) /\ Len(d) >= 4 /\ Len(d) = 4 + n + Len(r)
  <2>1. Len(b) = 4 + n + Len(r) /\ Len(d) = 4 + n + Len(r)
    BY Zenon, <1>4
  <2> HIDE DEF At
  <2> QED BY <2>1
<1>7. /\ b[1] = d[1] /\ b[2] = d[2] /\ d[3] = 0 /\ d[4] = 0
      /\ b[3] = c \div 256 /\ b[4] = c % 256
  <2>1. d[3] = 0 \div 256 /\ d[4] = 0 % 256
    BY Zenon, <1>4
  <2>2. d[3] = 0 /\ d[4] = 0
    BY <2>1
  <2> QED BY Zenon, <1>4, <2>2
<1>8. ASSUME NEW i \in 5 .. Len(d) PROVE b[i] = d[i]
  <2>1. CASE i - 4 \in 1 .. n
    <3>1. PICK j \in 1 .. n : i = 4 + j
      BY <2>1
    <3>2. b[4 + j] = f[j] /\ d[4 + j] = f[j]
      BY Zenon, <1>4
    <3> QED BY Zenon, <3>1, <3>2
  <2>2. CASE i - (4 + n) \in 1 .. Len(r)
    <3>1. PICK j \in 1 .. Len(r) : i = 4 + n + j
      BY <2>2
    <3>2. b[4 + n + j] = r[j] /\ d[4 + n + j] = r[j]
      BY Zenon, <1>4
    <3> QED BY Zenon, <3>1, <3>2
  <2> QED BY <1>6, <2>1, <2>2
<1> HIDE DEF At
<1>9. c \in Nat /\ c \div 256 \in Byte /\ c % 256 \in Byte /\ 256 * (c \div 256) + (c % 256) = c
  BY WordBytes, WordIsNat
<1>10. PICK e \in Seq(Byte) : /\ Len(e) = Len(d) /\ e[3] = c \div 256
                              /\ \A j \in 1 .. Len(d) : j # 3 => d[j] = e[j]
  <2>1. PICK x \in Byte : x = c \div 256
    BY <1>9
  <2> DEFINE e == [d EXCEPT ![3] = x]
  <2>2. e \in Seq(Byte) /\ Len(e) = Len(d) /\ e[3] = x /\ \A j \in 1 .. Len(d) : j # 3 => d[j] = e[j]
    BY <1>6
  <2> HIDE DEF e
  <2> QED BY Zenon, <2>1, <2>2
<1>11. ByteSum(e) = ByteSum(d) + (e[3] - d[3]) * Weight(3)
  <2>1. PICK i \in 1 .. Len(d) : i = 3
    BY <1>6
  <2>2. Len(d) = Len(e) /\ \A j \in 1 .. Len(d) : j # i => d[j] = e[j]
    BY Zenon, <1>10, <2>1
  <2>3. ByteSum(e) = ByteSum(d) + (e[i] - d[i]) * Weight(i)
    BY Zenon, <2>2, ByteSumChange
  <2> QED BY Zenon, <2>1, <2>3
<1>12. ByteSum(b) = ByteSum(e) + (b[4] - e[4]) * Weight(4)
  <2>1. PICK i \in 1 .. Len(e) : i = 4
    BY <1>6, <1>10
  <2>2. ASSUME NEW j \in 1 .. Len(e), j # i PROVE e[j] = b[j]
    <3>1. j \in 1 .. Len(d) /\ (j = 1 \/ j = 2 \/ j = 3 \/ j \in 5 .. Len(d))
      BY <1>10, <2>1, <2>2
    <3>2. CASE j = 3
      BY Zenon, <1>7, <1>10, <3>2
    <3>3. CASE j # 3
      <4>1. e[j] = d[j]
        BY Zenon, <1>10, <3>1, <3>3
      <4>2. b[j] = d[j]
        BY Zenon, <1>7, <1>8, <3>1, <3>3
      <4> QED BY Zenon, <4>1, <4>2
    <3> QED BY Zenon, <3>2, <3>3
  <2>3. Len(e) = Len(b)
    BY Zenon, <1>6, <1>10
  <2>4. ByteSum(b) = ByteSum(e) + (b[i] - e[i]) * Weight(i)
    BY Zenon, <2>2, <2>3, ByteSumChange
  <2> QED BY Zenon, <2>1, <2>4
<1>13. e[4] = 0 /\ Weight(3) = 256 /\ Weight(4) = 1
  <2>1. d[4] = e[4]
    BY <1>6, <1>10
  <2> QED BY <1>7, <2>1 DEF Weight
<1>14. ByteSum(d) \in Nat
  BY SumsAgree
<1>15. ByteSum(b) = ByteSum(d) + c
  BY <1>7, <1>9, <1>10, <1>11, <1>12, <1>13, <1>14
<1>16. WordSum(b) = WordSum(d) + c
  BY <1>6, <1>9, <1>14, <1>15, PseudoSumNat DEF WordSum
<1> QED BY Zenon, <1>0, <1>4, <1>16

\* calculate_checksum stores the complement of RFC 1071's sum of the message
\* without its checksum.
LEMMA CalculateChecksumValue ==
  ASSUME NEW p, p \in Packet, MessageOK(p.message)
  PROVE  CalculateChecksum(p) = Complement(WordSum(GetBytes(p, FALSE)))
<1>1. PICK b \in Seq(Byte) : b = GetBytes(p, FALSE)
  BY Zenon, ChecksumAdds
<1>2. UnfoldedSum(p) = WordSum(b)
  <2>1. SumBigEndianWords(b) = ByteSum(b)
    BY SumsAgree
  <2> QED BY Zenon, <1>1, <2>1 DEF UnfoldedSum, WordSum
<1>3. PICK s \in Nat : s = WordSum(b)
  BY WordSumNat
<1>4. HandleCarry(UnfoldedSum(p)) = Carry(s)
  BY Zenon, <1>2, <1>3, HandleCarryValue
<1>5. CalculateChecksum(p) = Complement(s)
  BY SMT, <1>4 DEF CalculateChecksum, Complement
<1> QED BY Zenon, <1>1, <1>3, <1>5

\* verify_checksum agrees with RFC 1071 about the bytes of a packet, but for
\* the checksum 65535.
LEMMA VerifyIsRfc ==
  ASSUME NEW p, p \in Packet, MessageOK(p.message)
  PROVE  /\ VerifyChecksum(p) => ValidOnWire(GetBytes(p, TRUE))
         /\ ValidOnWire(GetBytes(p, TRUE)) /\ p.checksum # AllOnes => VerifyChecksum(p)
<1>1. PICK s \in Nat : s = WordSum(GetBytes(p, FALSE))
  BY Zenon, ChecksumAdds, WordSumNat
<1>2. PICK c \in Word : c = p.checksum
  BY Zenon DEF Packet
<1>3. WordSum(GetBytes(p, TRUE)) = s + c
  BY Zenon, <1>1, <1>2, ChecksumAdds
<1>4. VerifyChecksum(p) <=> Complement(s) = c
  BY Zenon, <1>1, <1>2, CalculateChecksumValue DEF VerifyChecksum
<1>5. ValidOnWire(GetBytes(p, TRUE)) <=> Balanced(s + c)
  BY Zenon, <1>3, ValidIsBalanced
<1>6. Balanced(s + Complement(s))
  BY Zenon, ComplementBalances
<1>7. Balanced(s + c) /\ c # AllOnes => c = Complement(s)
  BY Zenon, BalancedComplement
<1>8. VerifyChecksum(p) => ValidOnWire(GetBytes(p, TRUE))
  BY Zenon, <1>4, <1>5, <1>6
<1>9. ASSUME ValidOnWire(GetBytes(p, TRUE)), p.checksum # AllOnes
      PROVE  VerifyChecksum(p)
  <2>1. Balanced(s + c)
    BY Zenon, <1>5, <1>9
  <2>2. c = Complement(s)
    BY Zenon, <1>2, <1>7, <1>9, <2>1
  <2> QED BY Zenon, <1>4, <2>2
<1> QED BY Zenon, <1>8, <1>9

\* with_checksum changes nothing but the checksum, and what it stores verifies.
LEMMA WithChecksumOK ==
  ASSUME NEW p, PacketOK(p)
  PROVE  PacketOK(WithChecksum(p)) /\ VerifyChecksum(WithChecksum(p))
<1> DEFINE q == WithChecksum(p)
<1>0. p \in Packet /\ MessageOK(p.message) /\ p.message.shape = Shape(p.typ)
  BY Zenon DEF PacketOK
<1>1. PICK c \in Word : c = CalculateChecksum(p)
  BY Zenon, <1>0, ChecksumAdds, WordSumNat, CalculateChecksumValue, ComplementWord
<1>2. q = [p EXCEPT !.checksum = c]
  BY Zenon, <1>1 DEF WithChecksum
<1> HIDE DEF q
<1>3. q \in Packet
  BY Zenon, <1>0, <1>2 DEF Packet
<1>4. q.typ = p.typ /\ q.code = p.code /\ q.message = p.message /\ q.checksum = c
  BY Zenon, <1>0, <1>2 DEF Packet
<1>5. PacketOK(q)
  BY Zenon, <1>0, <1>3, <1>4 DEF PacketOK
<1>6. GetBytes(q, FALSE) = GetBytes(p, FALSE)
  BY Zenon, <1>4 DEF GetBytes
<1>7. CalculateChecksum(q) = CalculateChecksum(p)
  <2>1. MessageOK(q.message)
    BY Zenon, <1>0, <1>4
  <2> QED BY Zenon, <1>0, <1>3, <1>6, <2>1, CalculateChecksumValue
<1>8. VerifyChecksum(q)
  BY Zenon, <1>1, <1>4, <1>7 DEF VerifyChecksum
<1> QED BY Zenon, <1>5, <1>8 DEF q

\* One changed bit unbalances a balanced sum.
LEMMA FlipByte ==
  ASSUME NEW x \in Byte, NEW k \in 0 .. 7
  PROVE  /\ Flip(x, k) \in Byte
         /\ Flip(x, k) - x \in Int /\ Flip(x, k) # x
         /\ Flip(x, k) - x <= 128 /\ Flip(x, k) - x >= -128
<1>0. x \in Nat /\ x <= 255
  BY ByteNat
<1>1. PICK t \in {1, 2, 4, 8, 16, 32, 64, 128} : t = 2^k
  <2>1. k = 0 \/ k = 1 \/ k = 2 \/ k = 3 \/ k = 4 \/ k = 5 \/ k = 6 \/ k = 7
    OBVIOUS
  <2>2. /\ 2^0 = 1 /\ 2^1 = 2 /\ 2^2 = 4 /\ 2^3 = 8
        /\ 2^4 = 16 /\ 2^5 = 32 /\ 2^6 = 64 /\ 2^7 = 128
    OBVIOUS
  <2>3. PICK t : t = 2^k /\ (\/ t = 2^0 \/ t = 2^1 \/ t = 2^2 \/ t = 2^3
                              \/ t = 2^4 \/ t = 2^5 \/ t = 2^6 \/ t = 2^7)
    BY Zenon, <2>1
  <2>4. t \in {1, 2, 4, 8, 16, 32, 64, 128}
    BY <2>2, <2>3
  <2> QED BY Zenon, <2>3, <2>4
<1>2. Flip(x, k) = IF (x \div t) % 2 = 1 THEN x - t ELSE x + t
  BY Zenon, <1>1 DEF Flip
<1>3. \/ Flip(x, k) = x - t /\ x >= t
      \/ Flip(x, k) = x + t /\ x + t <= 255
  <2>1. CASE t = 1 BY <1>0, <1>2, <2>1
  <2>2. CASE t = 2 BY <1>0, <1>2, <2>2
  <2>3. CASE t = 4 BY <1>0, <1>2, <2>3
  <2>4. CASE t = 8 BY <1>0, <1>2, <2>4
  <2>5. CASE t = 16 BY <1>0, <1>2, <2>5
  <2>6. CASE t = 32 BY <1>0, <1>2, <2>6
  <2>7. CASE t = 64 BY <1>0, <1>2, <2>7
  <2>8. CASE t = 128 BY <1>0, <1>2, <2>8
  <2> QED BY Zenon, <2>1, <2>2, <2>3, <2>4, <2>5, <2>6, <2>7, <2>8
<1>4. t \in Nat /\ t > 0 /\ t <= 128
  BY <1>1
<1>5. Flip(x, k) \in Nat /\ Flip(x, k) <= 255
  BY <1>0, <1>3, <1>4
<1> QED BY <1>0, <1>3, <1>4, <1>5, ByteNat

\* A byte that changes by at most 128 moves the sum off every multiple of 0xFFFF.
LEMMA FlipUnbalances ==
  ASSUME NEW s \in Nat, Balanced(s), NEW d \in Int, d # 0, d <= 128, d >= -128, NEW i \in Nat,
         s + d * Weight(i) \in Nat
  PROVE  ~Balanced(s + d * Weight(i))
<1>1. PICK q \in Nat : s = 65535 * q
  <2>1. s \div 65535 \in Nat /\ s = 65535 * (s \div 65535)
    BY SMT DEF Balanced
  <2> QED BY SMT, <2>1
<1>2. PICK e \in Int : e = d * Weight(i) /\ e # 0 /\ e <= 32768 /\ e >= -32768
  <2>1. Weight(i) = 256 \/ Weight(i) = 1
    BY SMT DEF Weight
  <2> QED BY SMT, <2>1
<1>3. (s + e) % 65535 # 0
  <2>1. CASE e > 0
    <3>1. PICK r \in Nat : r = e /\ r < 65535 /\ r # 0
      BY SMT, <1>2, <2>1
    <3>2. (65535 * q + r) % 65535 = r
      BY SMT, <3>1
    <3> QED BY SMT, <1>1, <3>1, <3>2
  <2>2. CASE e < 0
    <3>1. PICK r \in Nat : r = 65535 + e /\ r < 65535 /\ r # 0
      BY SMT, <1>2, <2>2
    <3>2. PICK k \in Nat : k = q - 1
      BY SMT, <1>1, <1>2, <2>2
    <3>3. (65535 * k + r) % 65535 = r
      BY SMT, <3>1
    <3>4. s + e = 65535 * k + r
      BY SMT, <1>1, <3>1, <3>2
    <3> QED BY SMT, <3>1, <3>3, <3>4
  <2> QED BY SMT, <1>2, <2>1, <2>2
<1> QED BY SMT, <1>2, <1>3 DEF Balanced

-----------------------------------------------------------------------------
(* The inductive invariant.                                                *)

\* The IPv4 header of Deliver.
Header(words) == [i \in 1 .. 4 * words |-> IF i = 1 THEN 64 + words ELSE 0]
HeaderSizes == {0} \cup (IF v6 THEN {} ELSE HeaderWords)

PlainTypes ==
  /\ v6 \in BOOLEAN /\ damaged \in BOOLEAN
  /\ stage \in {"new", "refused", "built", "sent", "arrived", "parsed"}
  /\ wire \in Seq(Byte)

\* Before it is sent a packet is what a constructor made, if any did.
PacketInv ==
  /\ stage \in {"new", "refused"} => packet = NoPacket
  /\ stage = "built" => PacketOK(packet)
  /\ packet = NoPacket \/ PacketOK(packet)
  /\ stage \in {"new", "refused", "built"} => ~damaged

\* On the way, the sum of the message tells whether it was damaged.
WireInv ==
  stage \in {"sent", "arrived", "parsed"} =>
    /\ Balanced(WordSum(wire)) <=> ~damaged
    /\ packet # NoPacket /\ ~damaged => wire = GetBytes(WithChecksum(packet), TRUE)

\* The receiver has the message behind a header or none, and parses that.
ReceiveInv ==
  /\ IF stage \in {"arrived", "parsed"} THEN \E words \in HeaderSizes : bytes = Header(words) \o wire
     ELSE bytes = <<>>
  /\ seen = IF stage = "parsed" THEN ParseAuto(bytes) ELSE NoPacket

PathInv == PlainTypes /\ PacketInv /\ WireInv /\ ReceiveInv

\* What depends on the protocol only stays the same.
LEMMA SameProtocol ==
  ASSUME v6' = v6
  PROVE  /\ packet' = packet => /\ WithChecksum(packet)' = WithChecksum(packet)
                                /\ PacketOK(packet)' = PacketOK(packet)
         /\ wire' = wire => WordSum(wire)' = WordSum(wire)
         /\ bytes' = bytes => ParseAuto(bytes)' = ParseAuto(bytes)
         /\ HeaderSizes' = HeaderSizes
<1>1. packet' = packet => WithChecksum(packet)' = WithChecksum(packet)
  BY SMT DEF WithChecksum, CalculateChecksum, UnfoldedSum
<1>2. packet' = packet => PacketOK(packet)' = PacketOK(packet)
  BY Zenon DEF PacketOK, Shape
<1>3. wire' = wire => WordSum(wire)' = WordSum(wire)
  BY Zenon DEF WordSum
<1>4. bytes' = bytes => ParseAuto(bytes)' = ParseAuto(bytes)
  BY Zenon DEF ParseAuto, HasIpv4Header, Parse, ParseIcmp, Shape
<1>5. HeaderSizes' = HeaderSizes
  BY Zenon DEF HeaderSizes
<1> QED BY Zenon, <1>1, <1>2, <1>3, <1>4, <1>5

\* What a constructor passes to Build.
BuildOK(typ, code, shape, fields, rest) ==
  /\ typ \in Byte /\ code \in Byte /\ shape = Shape(typ)
  /\ MessageOK([shape |-> shape, fields |-> fields, rest |-> rest])

\* A constructor that passes well-formed parts to Build keeps the invariant.
LEMMA BuildStep ==
  ASSUME PathInv, NEW typ, NEW code, NEW shape, NEW fields, NEW rest,
         BuildOK(typ, code, shape, fields, rest), Build(typ, code, shape, fields, rest)
  PROVE  PathInv'
<1>0. /\ stage = "new" /\ stage' = "built"
      /\ packet' = [typ |-> typ, code |-> code, checksum |-> 0,
                    message |-> [shape |-> shape, fields |-> fields, rest |-> rest]]
      /\ v6' = v6 /\ wire' = wire /\ damaged' = damaged /\ bytes' = bytes /\ seen' = seen
  BY Zenon DEF Build
<1>1. PlainTypes'
  BY Zenon, <1>0 DEF PathInv, PlainTypes
<1>2. PacketInv'
  <2>1. 0 \in Word
    BY SMT, WordNat
  <2>2. packet' \in Packet
    <3>1. [shape |-> shape, fields |-> fields, rest |-> rest] \in Message
      BY Zenon DEF BuildOK, MessageOK
    <3> QED BY Zenon, <1>0, <2>1, <3>1 DEF BuildOK, Packet
  <2>3. /\ packet'.typ = typ /\ packet'.message = [shape |-> shape, fields |-> fields, rest |-> rest]
        /\ packet'.message.shape = shape
    BY Zenon, <1>0
  <2>4. PacketOK(packet)'
    BY Zenon, <1>0, <2>2, <2>3 DEF BuildOK, PacketOK, Shape
  <2> QED BY Zenon, <1>0, <2>4 DEF PathInv, PacketInv
<1>3. WireInv'
  BY Zenon, <1>0 DEF WireInv
<1>4. ReceiveInv'
  BY Zenon, <1>0 DEF PathInv, ReceiveInv
<1> QED BY Zenon, <1>1, <1>2, <1>3, <1>4 DEF PathInv

\* A refused code leaves no packet.
LEMMA RefuseStep ==
  ASSUME PathInv, Refuse
  PROVE  PathInv'
<1>0. /\ stage = "new" /\ stage' = "refused" /\ packet' = packet
      /\ v6' = v6 /\ wire' = wire /\ damaged' = damaged /\ bytes' = bytes /\ seen' = seen
  BY Zenon DEF Refuse
<1>1. PlainTypes'
  BY Zenon, <1>0 DEF PathInv, PlainTypes
<1>2. PacketInv'
  BY Zenon, <1>0 DEF PathInv, PacketInv
<1>3. WireInv'
  BY Zenon, <1>0 DEF WireInv
<1>4. ReceiveInv'
  BY Zenon, <1>0 DEF PathInv, ReceiveInv
<1> QED BY Zenon, <1>1, <1>2, <1>3, <1>4 DEF PathInv

\* What send_to puts on the wire balances, with_checksum having made it so.
LEMMA SendStep ==
  ASSUME PathInv, Send
  PROVE  PathInv'
<1>0. /\ stage = "built" /\ stage' = "sent" /\ wire' = GetBytes(WithChecksum(packet), TRUE)
      /\ v6' = v6 /\ packet' = packet /\ damaged' = damaged /\ bytes' = bytes /\ seen' = seen
  BY Zenon DEF Send
<1>1. PacketOK(packet) /\ ~damaged
  BY Zenon, <1>0 DEF PathInv, PacketInv
<1>2. PICK q : q = WithChecksum(packet) /\ q \in Packet /\ MessageOK(q.message) /\ VerifyChecksum(q)
  BY Zenon, <1>1, WithChecksumOK DEF PacketOK
<1>3. PICK w \in Seq(Byte) : w = GetBytes(q, TRUE)
  BY Zenon, <1>2, ChecksumAdds
<1>4. Balanced(WordSum(w))
  BY Zenon, <1>2, <1>3, VerifyIsRfc, ValidIsBalanced
<1>5. wire' = w
  BY Zenon, <1>0, <1>2, <1>3
<1>6. PlainTypes'
  BY Zenon, <1>0, <1>5 DEF PathInv, PlainTypes
<1>7. PacketInv'
  <2>1. PacketOK(packet)'
    BY Zenon, <1>0, <1>1, SameProtocol
  <2> QED BY Zenon, <1>0, <2>1 DEF PacketInv
<1>8. WireInv'
  <2>1. WordSum(wire)' = WordSum(w)
    BY Zenon, <1>0, <1>5 DEF WordSum
  <2>2. WithChecksum(packet)' = q
    BY Zenon, <1>0, <1>2, SameProtocol
  <2> QED BY Zenon, <1>0, <1>1, <1>3, <1>4, <1>5, <2>1, <2>2 DEF WireInv
<1>9. ReceiveInv'
  BY Zenon, <1>0 DEF PathInv, ReceiveInv
<1> QED BY Zenon, <1>6, <1>7, <1>8, <1>9 DEF PathInv

\* Both checksums another host may store fit their field.
LEMMA ForeignChecksum ==
  ASSUME NEW sum \in Nat,
         NEW checksum \in {(AllOnes - (sum % AllOnes)) % AllOnes, AllOnes - (sum % AllOnes)}
  PROVE  checksum \in Word
<1>1. sum % 65535 \in Nat /\ sum % 65535 < 65535
  BY SMT, DivideWord
<1>2. checksum \in Nat /\ checksum <= 65535
  BY SMT, <1>1 DEF AllOnes
<1> QED BY SMT, <1>2, WordNat

\* Other hosts put balanced messages on the wire, too.
LEMMA ForeignSendStep ==
  ASSUME PathInv, NEW head \in ForeignHead[v6], NEW body \in ForeignBody, ForeignSend(head, body)
  PROVE  PathInv'
<1>0. /\ stage = "new" /\ stage' = "sent" /\ ValidOnWire(wire')
      /\ v6' = v6 /\ packet' = packet /\ damaged' = damaged /\ bytes' = bytes /\ seen' = seen
  BY Zenon DEF ForeignSend
<1>1. head \in Byte \X Byte /\ body \in Seq(Byte) /\ v6 \in BOOLEAN
  BY Zenon, PacketAssumption DEF PathInv, PlainTypes
<1>2. PICK a \in Seq(Byte) : a = head /\ Len(a) = 2
  <2>1. PICK x \in Byte, y \in Byte : head = <<x, y>>
    BY <1>1
  <2>2. <<x, y>> \in Seq(Byte) /\ Len(<<x, y>>) = 2
    OBVIOUS
  <2> QED BY Zenon, <2>1, <2>2
<1>3. wire' \in Seq(Byte)
  <2>1. PICK z \in Seq(Byte) : z = <<0, 0>> /\ Len(z) = 2
    <3>1. 0 \in Byte
      BY ByteNat
    <3>2. <<0, 0>> \in Seq(Byte) /\ Len(<<0, 0>>) = 2
      BY <3>1
    <3> QED BY Zenon, <3>2
  <2>2. a \o z \o body \in Seq(Byte)
    BY <1>1, <2>1
  <2>3. PICK sum \in Nat : sum = WordSum(head \o <<0, 0>> \o body)
    BY Zenon, <1>2, <2>1, <2>2, WordSumNat
  <2>4. PICK checksum \in {(AllOnes - (sum % AllOnes)) % AllOnes, AllOnes - (sum % AllOnes)} :
          wire' = head \o U16ToBe(checksum) \o body
    BY Zenon, <2>3 DEF ForeignSend
  <2>5. checksum \in Word
    BY Zenon, ForeignChecksum
  <2>6. PICK u \in Seq(Byte) : u = U16ToBe(checksum)
    BY <2>5, U16ToBeBytes
  <2>7. a \o u \o body \in Seq(Byte)
    BY <1>1
  <2>8. wire' = a \o u \o body
    BY <1>2, <2>4, <2>6
  <2> QED BY <2>7, <2>8
<1>4. PICK w \in Seq(Byte) : w = wire'
  BY Zenon, <1>3
<1>5. Balanced(WordSum(w))
  BY Zenon, <1>0, <1>4, ValidIsBalanced
<1>6. packet = NoPacket /\ ~damaged
  BY Zenon, <1>0 DEF PathInv, PacketInv
<1>7. PlainTypes'
  BY Zenon, <1>0, <1>3 DEF PathInv, PlainTypes
<1>8. PacketInv'
  BY Zenon, <1>0, <1>6 DEF PacketInv, NoPacket
<1>9. WireInv'
  <2>1. WordSum(wire)' = WordSum(w)
    BY Zenon, <1>0, <1>4 DEF WordSum
  <2> QED BY Zenon, <1>0, <1>5, <1>6, <2>1 DEF WireInv, NoPacket
<1>10. ReceiveInv'
  BY Zenon, <1>0 DEF PathInv, ReceiveInv
<1> QED BY Zenon, <1>7, <1>8, <1>9, <1>10 DEF PathInv

\* A flipped bit unbalances the message.
LEMMA CorruptStep ==
  ASSUME PathInv, NEW i \in DOMAIN wire, NEW k \in 0 .. 7, Corrupt(i, k)
  PROVE  PathInv'
<1>0. /\ stage = "sent" /\ ~damaged /\ damaged' = TRUE /\ wire' = [wire EXCEPT ![i] = Flip(wire[i], k)]
      /\ v6' = v6 /\ stage' = stage /\ packet' = packet /\ bytes' = bytes /\ seen' = seen
  BY Zenon DEF Corrupt
<1>1. PICK b \in Seq(Byte) : b = wire
  BY Zenon DEF PathInv, PlainTypes
<1>2. i \in 1 .. Len(b) /\ b[i] \in Byte
  BY <1>1
<1>3. PICK x \in Byte, y \in Byte : x = b[i] /\ y = Flip(x, k)
  BY Zenon, <1>2, FlipByte
<1>4. PICK d \in Int : d = y - x /\ d # 0 /\ d <= 128 /\ d >= -128
  <2>1. y - x \in Int /\ y # x /\ y - x <= 128 /\ y - x >= -128
    BY <1>3, FlipByte
  <2> QED BY <2>1, ByteNat
<1>5. PICK c \in Seq(Byte) : /\ c = wire' /\ Len(b) = Len(c) /\ c[i] = y
                             /\ \A j \in 1 .. Len(b) : j # i => b[j] = c[j]
  <2>1. wire' = [b EXCEPT ![i] = y]
    BY Zenon, <1>0, <1>1, <1>3
  <2>2. /\ [b EXCEPT ![i] = y] \in Seq(Byte) /\ Len([b EXCEPT ![i] = y]) = Len(b)
        /\ [b EXCEPT ![i] = y][i] = y
        /\ \A j \in 1 .. Len(b) : j # i => b[j] = [b EXCEPT ![i] = y][j]
    BY <1>2
  <2> QED BY Zenon, <2>1, <2>2
<1>6. ByteSum(c) = ByteSum(b) + d * Weight(i)
  <2>1. ByteSum(c) = ByteSum(b) + (c[i] - b[i]) * Weight(i)
    BY Zenon, <1>2, <1>5, ByteSumChange
  <2> QED BY Zenon, <1>3, <1>4, <1>5, <2>1
<1>7. WordSum(c) = WordSum(b) + d * Weight(i)
  <2>1. PICK e \in Int : e = d * Weight(i)
    BY DEF Weight
  <2>2. ByteSum(b) \in Nat /\ ByteSum(c) = ByteSum(b) + e /\ Len(b) \in Nat
    BY <1>6, <2>1, SumsAgree
  <2>3. WordSum(c) = WordSum(b) + e
    BY <1>5, <2>2, PseudoSumNat DEF WordSum
  <2> QED BY Zenon, <2>1, <2>3
<1>8. Balanced(WordSum(b))
  BY Zenon, <1>0, <1>1 DEF PathInv, WireInv
<1>9. ~Balanced(WordSum(c))
  <2>1. PICK s \in Nat, t \in Nat : s = WordSum(b) /\ t = WordSum(c)
    BY Zenon, WordSumNat
  <2>2. i \in Nat /\ s + d * Weight(i) \in Nat
    BY <1>2, <1>7, <2>1
  <2>3. ~Balanced(s + d * Weight(i))
    BY Zenon, <1>4, <1>8, <2>1, <2>2, FlipUnbalances
  <2> QED BY Zenon, <1>7, <2>1, <2>3
<1>10. PlainTypes'
  BY Zenon, <1>0, <1>5 DEF PathInv, PlainTypes
<1>11. PacketInv'
  <2>1. PacketOK(packet)' = PacketOK(packet)
    BY Zenon, <1>0, SameProtocol
  <2> QED BY Zenon, <1>0, <2>1 DEF PathInv, PacketInv, NoPacket
<1>12. WireInv'
  <2>1. WordSum(wire)' = WordSum(c)
    BY Zenon, <1>0, <1>5 DEF WordSum
  <2> QED BY Zenon, <1>0, <1>9, <2>1 DEF WireInv
<1>13. ReceiveInv'
  BY Zenon, <1>0 DEF PathInv, ReceiveInv
<1> QED BY Zenon, <1>10, <1>11, <1>12, <1>13 DEF PathInv

\* Delivery puts a header in front, or none.
LEMMA DeliverStep ==
  ASSUME PathInv, NEW words \in HeaderSizes, Deliver(words)
  PROVE  PathInv'
<1>0. /\ stage = "sent" /\ stage' = "arrived" /\ bytes' = Header(words) \o wire
      /\ v6' = v6 /\ packet' = packet /\ wire' = wire /\ damaged' = damaged /\ seen' = seen
  BY Zenon DEF Deliver, Header
<1>1. /\ PacketOK(packet)' = PacketOK(packet) /\ WithChecksum(packet)' = WithChecksum(packet)
      /\ WordSum(wire)' = WordSum(wire) /\ HeaderSizes' = HeaderSizes
  BY Zenon, <1>0, SameProtocol
<1>2. PlainTypes'
  BY Zenon, <1>0 DEF PathInv, PlainTypes
<1>3. PacketInv'
  BY Zenon, <1>0, <1>1 DEF PathInv, PacketInv, NoPacket
<1>4. WireInv'
  BY Zenon, <1>0, <1>1 DEF PathInv, WireInv, NoPacket
<1>5. ReceiveInv'
  <2>1. \E n \in HeaderSizes' : bytes' = Header(n) \o wire'
    BY Zenon, <1>0, <1>1
  <2>2. seen' = NoPacket
    BY Zenon, <1>0 DEF PathInv, ReceiveInv
  <2> QED BY Zenon, <1>0, <2>1, <2>2 DEF ReceiveInv
<1> QED BY Zenon, <1>2, <1>3, <1>4, <1>5 DEF PathInv

\* The receive call stores what parse_auto makes of the bytes.
LEMMA ReceiveStep ==
  ASSUME PathInv, Receive
  PROVE  PathInv'
<1>0. /\ stage = "arrived" /\ stage' = "parsed" /\ seen' = ParseAuto(bytes)
      /\ v6' = v6 /\ packet' = packet /\ wire' = wire /\ damaged' = damaged /\ bytes' = bytes
  BY Zenon DEF Receive
<1>1. /\ PacketOK(packet)' = PacketOK(packet) /\ WithChecksum(packet)' = WithChecksum(packet)
      /\ WordSum(wire)' = WordSum(wire) /\ HeaderSizes' = HeaderSizes
      /\ ParseAuto(bytes)' = ParseAuto(bytes)
  BY Zenon, <1>0, SameProtocol
<1>2. PlainTypes'
  BY Zenon, <1>0 DEF PathInv, PlainTypes
<1>3. PacketInv'
  BY Zenon, <1>0, <1>1 DEF PathInv, PacketInv, NoPacket
<1>4. WireInv'
  BY Zenon, <1>0, <1>1 DEF PathInv, WireInv, NoPacket
<1>5. ReceiveInv'
  <2>1. \E n \in HeaderSizes' : bytes' = Header(n) \o wire'
    BY Zenon, <1>0, <1>1 DEF PathInv, ReceiveInv
  <2>2. seen' = ParseAuto(bytes)'
    BY Zenon, <1>0, <1>1
  <2> QED BY Zenon, <1>0, <2>1, <2>2 DEF ReceiveInv
<1> QED BY Zenon, <1>2, <1>3, <1>4, <1>5 DEF PathInv

\* A step that changes nothing keeps the invariant.
LEMMA StutterStep ==
  ASSUME PathInv, UNCHANGED vars
  PROVE  PathInv'
<1>0. /\ v6' = v6 /\ stage' = stage /\ packet' = packet /\ wire' = wire
      /\ damaged' = damaged /\ bytes' = bytes /\ seen' = seen
  BY Zenon DEF vars
<1>1. /\ PacketOK(packet)' = PacketOK(packet) /\ WithChecksum(packet)' = WithChecksum(packet)
      /\ WordSum(wire)' = WordSum(wire) /\ HeaderSizes' = HeaderSizes
      /\ ParseAuto(bytes)' = ParseAuto(bytes)
  BY Zenon, <1>0, SameProtocol
<1>2. PlainTypes'
  BY Zenon, <1>0 DEF PathInv, PlainTypes
<1>3. PacketInv'
  BY Zenon, <1>0, <1>1 DEF PathInv, PacketInv, NoPacket
<1>4. WireInv'
  BY Zenon, <1>0, <1>1 DEF PathInv, WireInv, NoPacket
<1>5. ReceiveInv'
  BY Zenon, <1>0, <1>1 DEF PathInv, ReceiveInv, NoPacket
<1> QED BY Zenon, <1>2, <1>3, <1>4, <1>5 DEF PathInv

-----------------------------------------------------------------------------
(* Constructors build packets of the shape their type asks for.            *)

\* The types of the constructors.
LEMMA ConstructorTypes ==
  ASSUME v6 \in BOOLEAN
  PROVE  /\ Shape(IF v6 THEN 128 ELSE 8) = "echo" /\ Shape(IF v6 THEN 129 ELSE 0) = "echo"
         /\ Shape(IF v6 THEN 1 ELSE 3) = "word" /\ Shape(IF v6 THEN 3 ELSE 11) = "word"
         /\ v6 => Shape(4) = "word" /\ Shape(2) = "word"
         /\ ~v6 => Shape(12) = "pointer" /\ Shape(13) = "stamps" /\ Shape(14) = "stamps"
<1>1. CASE v6 = TRUE
  BY <1>1 DEF Shape, Shape6
<1>2. CASE v6 = FALSE
  BY <1>2 DEF Shape, Shape4
<1> QED BY Zenon, <1>1, <1>2

\* The types and codes the constructors set themselves are bytes.
LEMMA ConstructorBytes ==
  /\ (IF v6 THEN 128 ELSE 8) \in Byte /\ (IF v6 THEN 129 ELSE 0) \in Byte
  /\ (IF v6 THEN 1 ELSE 3) \in Byte /\ (IF v6 THEN 3 ELSE 11) \in Byte
  /\ 0 \in Byte /\ 2 \in Byte /\ 4 \in Byte /\ 12 \in Byte /\ 13 \in Byte /\ 14 \in Byte
BY ByteNat

\* PacketAssumption, for the arguments of constructors and of the kernel.
LEMMA InputTypes ==
  /\ \A x \in U16 : x \in Word
  /\ \A x \in Code : x \in Byte
  /\ \A x \in Payload : x \in Seq(Byte)
  /\ \A x \in Stamps : x \in [1 .. 6 -> Word]
  /\ HeaderWords \subseteq 5 .. 15
BY Zenon, PacketAssumption

\* Two fields and a rest make an echo or a word message.
LEMMA TwoFields ==
  ASSUME NEW x \in Word, NEW y \in Word, NEW rest \in Seq(Byte), NEW shape \in {"word", "echo"}
  PROVE  MessageOK([shape |-> shape, fields |-> <<x, y>>, rest |-> rest])
<1>1. PICK f \in Seq(Word) : f = <<x, y>> /\ Len(f) = 2
  <2>1. <<x, y>> \in Seq(Word) /\ Len(<<x, y>>) = 2
    OBVIOUS
  <2> QED BY Zenon, <2>1
<1>2. PICK m : m = [shape |-> shape, fields |-> f, rest |-> rest]
  OBVIOUS
<1>3. m.shape = shape /\ m.fields = f /\ m.rest = rest /\ m \in Message
  BY Zenon, <1>2 DEF Message
<1>4. MessageOK(m)
  BY Zenon, <1>1, <1>3 DEF MessageOK
<1> QED BY Zenon, <1>1, <1>2, <1>4

\* Timestamps, given as a function, are a sequence.
LEMMA FunctionIsSequence ==
  ASSUME NEW n \in Nat, NEW f \in [1 .. n -> Word]
  PROVE  f \in Seq(Word) /\ Len(f) = n
OBVIOUS

\* Concatenated words are words.
LEMMA ConcatWords ==
  ASSUME NEW a \in Seq(Word), NEW c \in Seq(Word)
  PROVE  a \o c \in Seq(Word) /\ Len(a \o c) = Len(a) + Len(c)
OBVIOUS

\* The message of a timestamp request or reply is well formed.
LEMMA StampFields ==
  ASSUME NEW x \in Word, NEW y \in Word, NEW stamps \in [1 .. 6 -> Word]
  PROVE  MessageOK([shape |-> "stamps", fields |-> <<x, y>> \o stamps, rest |-> <<>>])
<1>1. PICK a \in Seq(Word), c \in Seq(Word) : a = <<x, y>> /\ Len(a) = 2 /\ c = stamps /\ Len(c) = 6
  <2>1. <<x, y>> \in Seq(Word) /\ Len(<<x, y>>) = 2
    OBVIOUS
  <2>2. PICK n \in Nat : n = 6 /\ stamps \in [1 .. n -> Word]
    OBVIOUS
  <2>3. stamps \in Seq(Word) /\ Len(stamps) = n
    BY Zenon, <2>2, FunctionIsSequence
  <2> QED BY Zenon, <2>1, <2>2, <2>3
<1>2. PICK f \in Seq(Word) : f = a \o c /\ Len(f) = 8
  <2>1. a \o c \in Seq(Word) /\ Len(a \o c) = Len(a) + Len(c)
    BY Zenon, ConcatWords
  <2>2. 2 + 6 = 8
    OBVIOUS
  <2> QED BY Zenon, <1>1, <2>1, <2>2
<1>3. PICK m : m = [shape |-> "stamps", fields |-> f, rest |-> <<>>]
  OBVIOUS
<1>4. m.shape = "stamps" /\ m.fields = f /\ m.rest = <<>>
  BY Zenon, <1>3
<1>5. m \in Message
  <2>1. <<>> \in Seq(Byte)
    OBVIOUS
  <2> QED BY Zenon, <1>3, <2>1 DEF Message
<1>6. MessageOK(m)
  BY Zenon, <1>2, <1>4, <1>5 DEF MessageOK
<1> QED BY Zenon, <1>1, <1>2, <1>3, <1>6

\* The message of an IPv4 parameter problem is well formed.
LEMMA PointerFields ==
  ASSUME NEW x \in Byte, NEW rest \in Seq(Byte)
  PROVE  MessageOK([shape |-> "pointer", fields |-> <<x, 0, 0>>, rest |-> rest])
<1>1. x \in Word /\ 0 \in Word /\ 0 \in Byte
  BY SMT, ByteNat, WordNat
<1>2. PICK f \in Seq(Word) : f = <<x, 0, 0>> /\ Len(f) = 3 /\ f[1] = x /\ f[2] = 0
  <2>1. <<x, 0, 0>> \in Seq(Word) /\ Len(<<x, 0, 0>>) = 3 /\ <<x, 0, 0>>[1] = x /\ <<x, 0, 0>>[2] = 0
    BY <1>1
  <2> QED BY Zenon, <2>1
<1>3. PICK m : m = [shape |-> "pointer", fields |-> f, rest |-> rest]
  OBVIOUS
<1>4. m.shape = "pointer" /\ m.fields = f /\ m.rest = rest /\ m \in Message
  BY Zenon, <1>3 DEF Message
<1>5. MessageOK(m)
  BY Zenon, <1>1, <1>2, <1>4 DEF MessageOK
<1> QED BY Zenon, <1>2, <1>3, <1>5

\* with_echo_request and with_echo_reply keep the invariant.
LEMMA EchoStep ==
  ASSUME PathInv, NEW identifier \in U16, NEW sequence \in U16, NEW payload \in Payload,
         \/ WithEchoRequest(identifier, sequence, payload)
         \/ WithEchoReply(identifier, sequence, payload)
  PROVE  PathInv'
<1>0. MessageOK([shape |-> "echo", fields |-> <<identifier, sequence>>, rest |-> payload])
  BY Zenon, InputTypes, TwoFields
<1>1. PICK request, reply : request = (IF v6 THEN 128 ELSE 8) /\ reply = (IF v6 THEN 129 ELSE 0)
  OBVIOUS
<1>2. request \in Byte /\ reply \in Byte /\ 0 \in Byte /\ Shape(request) = "echo" /\ Shape(reply) = "echo"
  BY Zenon, <1>1, ConstructorTypes, ConstructorBytes DEF PathInv, PlainTypes
<1>3. \/ Build(request, 0, "echo", <<identifier, sequence>>, payload)
      \/ Build(reply, 0, "echo", <<identifier, sequence>>, payload)
  BY Zenon, <1>1 DEF WithEchoRequest, WithEchoReply
<1>4. /\ BuildOK(request, 0, "echo", <<identifier, sequence>>, payload)
      /\ BuildOK(reply, 0, "echo", <<identifier, sequence>>, payload)
  BY Zenon, <1>0, <1>2 DEF BuildOK
<1> QED BY Zenon, <1>3, <1>4, BuildStep

\* with_timestamp_request and with_timestamp_reply keep the invariant.
LEMMA TimestampStep ==
  ASSUME PathInv, NEW identifier \in U16, NEW sequence \in U16, NEW stamps \in Stamps,
         \/ WithTimestampRequest(identifier, sequence, stamps)
         \/ WithTimestampReply(identifier, sequence, stamps)
  PROVE  PathInv'
<1>0. MessageOK([shape |-> "stamps", fields |-> <<identifier, sequence>> \o stamps, rest |-> <<>>])
  BY Zenon, InputTypes, StampFields
<1>1. PICK request, reply : request = 13 /\ reply = 14
  OBVIOUS
<1>2. /\ ~v6
      /\ \/ Build(request, 0, "stamps", <<identifier, sequence>> \o stamps, <<>>)
         \/ Build(reply, 0, "stamps", <<identifier, sequence>> \o stamps, <<>>)
  BY Zenon, <1>1 DEF WithTimestampRequest, WithTimestampReply
<1>3. request \in Byte /\ reply \in Byte /\ 0 \in Byte /\ Shape(request) = "stamps" /\ Shape(reply) = "stamps"
  BY Zenon, <1>1, <1>2, ConstructorTypes, ConstructorBytes DEF PathInv, PlainTypes
<1>4. /\ BuildOK(request, 0, "stamps", <<identifier, sequence>> \o stamps, <<>>)
      /\ BuildOK(reply, 0, "stamps", <<identifier, sequence>> \o stamps, <<>>)
  BY Zenon, <1>0, <1>3 DEF BuildOK
<1> QED BY Zenon, <1>2, <1>4, BuildStep

\* with_unreachable and with_time_exceeded keep the invariant, refusing or not.
LEMMA ErrorStep ==
  ASSUME PathInv, NEW code \in Code, NEW invoking \in Payload,
         WithUnreachable(code, invoking) \/ WithTimeExceeded(code, invoking)
  PROVE  PathInv'
<1>0. 0 \in Word
  BY SMT, WordNat
<1>1. MessageOK([shape |-> "word", fields |-> <<0, 0>>, rest |-> invoking])
  BY Zenon, <1>0, InputTypes, TwoFields
<1>2. PICK unreachable, exceeded : unreachable = (IF v6 THEN 1 ELSE 3) /\ exceeded = (IF v6 THEN 3 ELSE 11)
  OBVIOUS
<1>3. /\ unreachable \in Byte /\ exceeded \in Byte /\ code \in Byte
      /\ Shape(unreachable) = "word" /\ Shape(exceeded) = "word"
  BY Zenon, <1>2, ConstructorTypes, ConstructorBytes, InputTypes DEF PathInv, PlainTypes
<1>4. \/ Refuse \/ Build(unreachable, code, "word", <<0, 0>>, invoking)
      \/ Build(exceeded, code, "word", <<0, 0>>, invoking)
  BY Zenon, <1>2 DEF WithUnreachable, WithTimeExceeded
<1>5. /\ BuildOK(unreachable, code, "word", <<0, 0>>, invoking)
      /\ BuildOK(exceeded, code, "word", <<0, 0>>, invoking)
  BY Zenon, <1>1, <1>3 DEF BuildOK
<1> QED BY Zenon, <1>4, <1>5, BuildStep, RefuseStep

\* with_parameter_problem and with_packet_too_big keep the invariant.
LEMMA PointerStep ==
  ASSUME PathInv, NEW code \in Byte, NEW invoking \in Payload, NEW pointer \in U16 \X U16,
         WithParameterProblem(code, pointer, invoking) \/ WithPacketTooBig(pointer, invoking)
  PROVE  PathInv'
<1>0. PICK x \in Word, y \in Word : pointer = <<x, y>> /\ pointer[2] = y
  <2>1. pointer[1] \in U16 /\ pointer[2] \in U16 /\ pointer = <<pointer[1], pointer[2]>>
    OBVIOUS
  <2> QED BY Zenon, <2>1, InputTypes
<1>1. MessageOK([shape |-> "word", fields |-> pointer, rest |-> invoking])
  BY Zenon, <1>0, InputTypes, TwoFields
<1>2. PICK t, u, s : t = 4 /\ u = 2 /\ s = 12
  OBVIOUS
<1>3. \/ Refuse
      \/ v6 /\ Build(t, code, "word", pointer, invoking)
      \/ v6 /\ Build(u, 0, "word", pointer, invoking)
      \/ ~v6 /\ pointer[2] < 256 /\ Build(s, code, "pointer", <<pointer[2], 0, 0>>, invoking)
  BY Zenon, <1>2 DEF WithParameterProblem, WithPacketTooBig
<1>4. /\ code \in Byte /\ 0 \in Byte /\ t \in Byte /\ u \in Byte /\ s \in Byte
      /\ v6 => Shape(t) = "word" /\ Shape(u) = "word"
      /\ ~v6 => Shape(s) = "pointer"
  BY Zenon, <1>2, ConstructorTypes, ConstructorBytes, InputTypes DEF PathInv, PlainTypes
<1>5. CASE Refuse
  BY Zenon, <1>5, RefuseStep
<1>6. CASE v6 /\ Build(t, code, "word", pointer, invoking)
  <2>1. BuildOK(t, code, "word", pointer, invoking)
    BY Zenon, <1>1, <1>4, <1>6 DEF BuildOK
  <2> QED BY Zenon, <1>6, <2>1, BuildStep
<1>7. CASE v6 /\ Build(u, 0, "word", pointer, invoking)
  <2>1. BuildOK(u, 0, "word", pointer, invoking)
    BY Zenon, <1>1, <1>4, <1>7 DEF BuildOK
  <2> QED BY Zenon, <1>7, <2>1, BuildStep
<1>8. CASE ~v6 /\ pointer[2] < 256 /\ Build(s, code, "pointer", <<pointer[2], 0, 0>>, invoking)
  <2>1. y \in Byte
    <3>1. y \in Nat
      BY Zenon, WordIsNat
    <3> QED BY <1>0, <1>8, <3>1, ByteNat
  <2>2. MessageOK([shape |-> "pointer", fields |-> <<y, 0, 0>>, rest |-> invoking])
    BY Zenon, <2>1, InputTypes, PointerFields
  <2>3. BuildOK(s, code, "pointer", <<y, 0, 0>>, invoking)
    BY Zenon, <1>4, <1>8, <2>2 DEF BuildOK
  <2>4. Build(s, code, "pointer", <<y, 0, 0>>, invoking)
    BY Zenon, <1>0, <1>8
  <2> QED BY Zenon, <2>3, <2>4, BuildStep
<1> QED BY Zenon, <1>3, <1>5, <1>6, <1>7, <1>8

\* Before anything is built the invariant holds.
LEMMA InitPath == Init => PathInv
<1> SUFFICES ASSUME Init PROVE PathInv
  OBVIOUS
<1>0. /\ v6 \in BOOLEAN /\ stage = "new" /\ packet = NoPacket /\ wire = <<>> /\ damaged = FALSE
      /\ bytes = <<>> /\ seen = NoPacket
  BY Zenon DEF Init
<1>1. <<>> \in Seq(Byte)
  OBVIOUS
<1>2. PlainTypes
  BY Zenon, <1>0, <1>1 DEF PlainTypes
<1>3. PacketInv
  BY Zenon, <1>0 DEF PacketInv
<1>4. WireInv
  BY Zenon, <1>0 DEF WireInv
<1>5. ReceiveInv
  BY Zenon, <1>0 DEF ReceiveInv
<1> QED BY Zenon, <1>2, <1>3, <1>4, <1>5 DEF PathInv

\* Every constructor keeps the invariant.
LEMMA ConstructStep ==
  ASSUME PathInv, Construct
  PROVE  PathInv'
<1>1. CASE \E identifier, sequence \in U16, payload \in Payload :
             \/ WithEchoRequest(identifier, sequence, payload)
             \/ WithEchoReply(identifier, sequence, payload)
  BY Zenon, <1>1, EchoStep
<1>2. CASE \E identifier, sequence \in U16, stamps \in Stamps :
             \/ WithTimestampRequest(identifier, sequence, stamps)
             \/ WithTimestampReply(identifier, sequence, stamps)
  BY Zenon, <1>2, TimestampStep
<1>3. CASE \E code \in Code, invoking \in Payload :
             \/ WithUnreachable(code, invoking)
             \/ WithTimeExceeded(code, invoking)
             \/ \E pointer \in U16 \X U16 : WithParameterProblem(code, pointer, invoking)
  BY Zenon, <1>3, ErrorStep, PointerStep, InputTypes
<1>4. CASE \E mtu \in U16 \X U16, invoking \in Payload : WithPacketTooBig(mtu, invoking)
  BY Zenon, <1>4, PointerStep, ConstructorBytes
<1> QED BY Zenon, <1>1, <1>2, <1>3, <1>4 DEF Construct

\* PathInv holds on every path of a packet through sender, network and
\* receiver: it is what the properties below follow from.
THEOREM PathInvariant == Spec => []PathInv
<1>1. Init => PathInv
  BY InitPath
<1>2. PathInv /\ [Next]_vars => PathInv'
  <2> SUFFICES ASSUME PathInv, [Next]_vars PROVE PathInv'
    OBVIOUS
  <2>1. CASE Construct
    BY Zenon, <2>1, ConstructStep
  <2>2. CASE Send
    BY Zenon, <2>2, SendStep
  <2>3. CASE Network
    <3>1. CASE \E head \in ForeignHead[v6], body \in ForeignBody : ForeignSend(head, body)
      BY Zenon, <3>1, ForeignSendStep
    <3>2. CASE \E i \in DOMAIN wire, k \in 0 .. 7 : Corrupt(i, k)
      BY Zenon, <3>2, CorruptStep
    <3>3. CASE \E words \in {0} \cup (IF v6 THEN {} ELSE HeaderWords) : Deliver(words)
      BY Zenon, <3>3, DeliverStep DEF HeaderSizes
    <3> QED BY Zenon, <2>3, <3>1, <3>2, <3>3 DEF Network
  <2>4. CASE Receive
    BY Zenon, <2>4, ReceiveStep
  <2>5. CASE UNCHANGED vars
    BY Zenon, <2>5, StutterStep
  <2> QED BY Zenon, <2>1, <2>2, <2>3, <2>4, <2>5 DEF Next
<1> QED BY <1>1, <1>2, PTL DEF Spec

-----------------------------------------------------------------------------
(* What the receiver's parser is given.                                    *)

\* The header in front: its length, and its version and IHL in the first byte.
LEMMA HeaderBytes ==
  ASSUME NEW words \in 5 .. 15
  PROVE  /\ Header(words) \in Seq(Byte) /\ Len(Header(words)) = 4 * words
         /\ Header(words)[1] = 64 + words
<1>1. PICK n \in Nat : n = 4 * words /\ 1 \in 1 .. n
  OBVIOUS
<1>2. \A i \in 1 .. n : (IF i = 1 THEN 64 + words ELSE 0) \in Byte
  BY ByteNat
<1>3. PICK h : h = Header(words) /\ h = [i \in 1 .. n |-> IF i = 1 THEN 64 + words ELSE 0]
  BY Zenon, <1>1 DEF Header
<1>4. h \in [1 .. n -> Byte] /\ h[1] = 64 + words
  BY <1>1, <1>2, <1>3
<1>5. h \in Seq(Byte) /\ Len(h) = n
  BY <1>4
<1> QED BY Zenon, <1>1, <1>3, <1>4, <1>5

\* A header of no words is no header.
LEMMA NoHeader ==
  ASSUME NEW w \in Seq(Byte)
  PROVE  Header(0) \o w = w
<1>1. Header(0) = <<>>
  BY DEF Header
<1> QED BY <1>1

\* Behind a header, whatever its length, the parser finds the message.
LEMMA ParseBehindHeader ==
  ASSUME NEW w \in Seq(Byte), NEW words \in 5 .. 15, ~v6
  PROVE  ParseAuto(Header(words) \o w) = ParseIcmp(w)
<1>1. PICK h \in Seq(Byte), n \in Nat : h = Header(words) /\ n = 4 * words /\ Len(h) = n /\ h[1] = 64 + words
  <2>1. 4 * words \in Nat
    OBVIOUS
  <2> QED BY Zenon, <2>1, HeaderBytes
<1>2. PICK b \in Seq(Byte) : /\ b = h \o w /\ Len(b) = n + Len(w)
                             /\ \A i \in 1 .. n : b[i] = h[i]
                             /\ \A i \in 1 .. Len(w) : b[n + i] = w[i]
  <2>1. /\ h \o w \in Seq(Byte) /\ Len(h \o w) = n + Len(w)
        /\ \A i \in 1 .. n : (h \o w)[i] = h[i]
        /\ \A i \in 1 .. Len(w) : (h \o w)[n + i] = w[i]
    BY Zenon, <1>1, ConcatAt
  <2> QED BY Zenon, <2>1
<1>3. n >= 20 /\ 1 \in 1 .. n
  BY <1>1
<1>4. b[1] = 64 + words
  BY Zenon, <1>1, <1>2, <1>3
<1>5. b[1] \div 16 = 4 /\ b[1] % 16 = words
  BY <1>4
<1>6. Len(b) > 0 /\ words >= 5 /\ Len(w) \in Nat
  BY <1>2, <1>3
<1>7. HasIpv4Header(b)
  BY Zenon, <1>5, <1>6 DEF HasIpv4Header
<1>8. SubSeq(b, n + 1, Len(b)) = w
  <2>1. PICK c \in Seq(Byte) : /\ c = SubSeq(b, n + 1, Len(b)) /\ Len(c) = Len(b) - n
                               /\ \A i \in 1 .. Len(b) - n : c[i] = b[n + i]
    <3>1. n <= Len(b)
      BY <1>2
    <3> QED BY Zenon, <3>1, Suffix
  <2>2. Len(c) = Len(w)
    <3>1. Len(c) = Len(b) - n /\ Len(b) = n + Len(w)
      BY Zenon, <1>2, <2>1
    <3>2. PICK k \in Nat : k = Len(w)
      BY Zenon, <1>6
    <3> QED BY <3>1, <3>2
  <2>3. \A i \in 1 .. Len(c) : c[i] = w[i]
    BY Zenon, <1>2, <2>1, <2>2
  <2>4. c = w
    BY Zenon, <2>2, <2>3, SameBytes
  <2> QED BY Zenon, <2>1, <2>4
<1>9. Parse(b) = IF Len(w) < 8 THEN NoPacket ELSE ParseIcmp(w)
  <2>1. 4 * (b[1] % 16) = n
    BY Zenon, <1>1, <1>5
  <2>2. ~(Len(b) < 20) /\ ~(n < 20) /\ (Len(b) < n + 8 <=> Len(w) < 8)
    BY <1>2, <1>3
  <2> QED BY Zenon, <1>8, <2>1, <2>2 DEF Parse
<1>10. Len(w) < 8 => ParseIcmp(w) = NoPacket
  BY Zenon, ParseIcmpCases DEF Accepts
<1>11. ParseAuto(b) = Parse(b)
  BY Zenon, <1>7 DEF ParseAuto
<1> QED BY Zenon, <1>1, <1>2, <1>9, <1>10, <1>11

\* Without a header, a message that looks like one is cut.
LEMMA ParseCut ==
  ASSUME NEW w \in Seq(Byte), HasIpv4Header(w)
  PROVE  \/ Parse(w) = NoPacket
         \/ \E b \in Seq(Byte) : Len(b) < Len(w) /\ Parse(w) = ParseIcmp(b)
<1> DEFINE n == 4 * (w[1] % 16)
<1>0. w[1] % 16 >= 5 /\ Len(w) > 0
  BY Zenon DEF HasIpv4Header
<1>1. w[1] \in Nat
  <2>1. w[1] \in Byte
    BY <1>0
  <2> QED BY <2>1, ByteNat
<1>2. n \in Nat /\ n >= 20
  BY <1>0, <1>1
<1>3. CASE Len(w) < 20 \/ n < 20 \/ Len(w) < n + 8
  BY Zenon, <1>3 DEF Parse
<1>4. CASE ~(Len(w) < 20 \/ n < 20 \/ Len(w) < n + 8)
  <2>1. Parse(w) = ParseIcmp(SubSeq(w, n + 1, Len(w)))
    BY Zenon, <1>4 DEF Parse
  <2> HIDE DEF n
  <2>2. n <= Len(w)
    BY <1>2, <1>4
  <2>3. SubSeq(w, n + 1, Len(w)) \in Seq(Byte) /\ Len(SubSeq(w, n + 1, Len(w))) = Len(w) - n
    BY Zenon, <1>2, <2>2, Suffix
  <2>4. Len(w) - n < Len(w)
    BY <1>2
  <2> QED BY Zenon, <2>1, <2>3, <2>4
<1> QED BY Zenon, <1>3, <1>4

\* The receiver parses the message sent or, where its own first byte looks like
\* an IPv4 header, a shorter one; or nothing.
LEMMA WhatIsParsed ==
  ASSUME PathInv, stage = "parsed"
  PROVE  \/ seen = NoPacket
         \/ seen = ParseIcmp(wire)
         \/ /\ ~v6 /\ HasIpv4Header(wire)
            /\ \E b \in Seq(Byte) : Len(b) < Len(wire) /\ seen = ParseIcmp(b)
<1>1. wire \in Seq(Byte) /\ seen = ParseAuto(bytes)
  BY Zenon DEF PathInv, PlainTypes, ReceiveInv
<1>2. PICK words \in HeaderSizes : bytes = Header(words) \o wire
  BY Zenon DEF PathInv, ReceiveInv
<1>3. CASE words = 0
  <2>1. bytes = wire
    BY Zenon, <1>1, <1>2, <1>3, NoHeader
  <2>2. CASE ~v6 /\ HasIpv4Header(wire)
    BY Zenon, <1>1, <2>1, <2>2, ParseCut DEF ParseAuto
  <2>3. CASE ~(~v6 /\ HasIpv4Header(wire))
    BY Zenon, <1>1, <2>1, <2>3 DEF ParseAuto
  <2> QED BY Zenon, <2>2, <2>3
<1>4. CASE words # 0
  <2>1. ~v6 /\ words \in 5 .. 15
    BY Zenon, <1>4, InputTypes DEF HeaderSizes
  <2> QED BY Zenon, <1>1, <1>2, <2>1, ParseBehindHeader
<1> QED BY Zenon, <1>3, <1>4

\* A message that does not look like an IPv4 header is parsed as it is, behind
\* one or not.
LEMMA MessageIsParsed ==
  ASSUME PathInv, stage = "parsed", ~(~v6 /\ HasIpv4Header(wire))
  PROVE  seen = ParseIcmp(wire)
<1>1. wire \in Seq(Byte) /\ seen = ParseAuto(bytes)
  BY Zenon DEF PathInv, PlainTypes, ReceiveInv
<1>2. PICK words \in HeaderSizes : bytes = Header(words) \o wire
  BY Zenon DEF PathInv, ReceiveInv
<1>3. CASE words = 0
  BY Zenon, <1>1, <1>2, <1>3, NoHeader DEF ParseAuto
<1>4. CASE words # 0
  <2>1. ~v6 /\ words \in 5 .. 15
    BY Zenon, <1>4, InputTypes DEF HeaderSizes
  <2> QED BY Zenon, <1>1, <1>2, <2>1, ParseBehindHeader
<1> QED BY Zenon, <1>3, <1>4

\* What an accepted message is.
LEMMA AcceptedIs ==
  ASSUME NEW b, NEW s, s = ParseIcmp(b), s.ok
  PROVE  Accepts(b) /\ s.packet = ParsedPacket(b)
<1>1. ~NoPacket.ok
  BY DEF NoPacket
<1>2. Accepts(b)
  BY Zenon, <1>1, ParseIcmpCases
<1>3. PICK q : q = ParsedPacket(b) /\ s = [ok |-> TRUE, packet |-> q]
  BY Zenon, <1>2, ParseIcmpCases
<1>4. s.packet = q
  BY <1>3
<1> QED BY Zenon, <1>2, <1>3, <1>4

\* A packet the receiver returns is well formed.
LEMMA SeenOK ==
  ASSUME PathInv, stage = "parsed", seen.ok
  PROVE  PacketOK(seen.packet)
<1>1. ~NoPacket.ok
  BY DEF NoPacket
<1>2. wire \in Seq(Byte)
  BY Zenon DEF PathInv, PlainTypes
<1>3. PICK b \in Seq(Byte) : seen = ParseIcmp(b)
  BY Zenon, <1>1, <1>2, WhatIsParsed
<1> QED BY Zenon, <1>3, AcceptedIs, ParsedPacketOK

\* When no byte was dropped, get_bytes of the packet is the message sent.
LEMMA WholeIsWire ==
  ASSUME PathInv, stage = "parsed", seen.ok, Whole
  PROVE  GetBytes(seen.packet, TRUE) = wire
<1>0. Len(GetBytes(seen.packet, TRUE)) = Len(wire)
  BY Zenon DEF Whole
<1>1. ~NoPacket.ok
  BY DEF NoPacket
<1>2. wire \in Seq(Byte)
  BY Zenon DEF PathInv, PlainTypes
<1>3. ASSUME NEW b \in Seq(Byte), seen = ParseIcmp(b)
      PROVE  LET kept == GetBytes(seen.packet, TRUE)
             IN  /\ kept \in Seq(Byte) /\ Len(kept) <= Len(b)
                 /\ \A i \in 1 .. Len(kept) : kept[i] = b[i]
  <2>1. Accepts(b) /\ seen.packet = ParsedPacket(b)
    BY Zenon, <1>3, AcceptedIs
  <2>2. PICK k \in Seq(Byte) : /\ k = GetBytes(seen.packet, TRUE) /\ Len(k) <= Len(b)
                               /\ \A i \in 1 .. Len(k) : k[i] = b[i]
    BY Zenon, <2>1, ParseIsPrefix
  <2> QED BY Zenon, <2>2
<1>4. CASE seen = ParseIcmp(wire)
  <2>1. PICK kept \in Seq(Byte) : /\ kept = GetBytes(seen.packet, TRUE) /\ Len(kept) = Len(wire)
                                  /\ \A i \in 1 .. Len(kept) : kept[i] = wire[i]
    BY Zenon, <1>0, <1>2, <1>3, <1>4
  <2>2. kept = wire
    BY <1>2, <2>1, SameBytes
  <2> QED BY Zenon, <2>1, <2>2
<1>5. ASSUME NEW b \in Seq(Byte), Len(b) < Len(wire), seen = ParseIcmp(b)
      PROVE  FALSE
  <2>1. Len(wire) <= Len(b)
    BY Zenon, <1>0, <1>3, <1>5
  <2>2. Len(wire) \in Nat /\ Len(b) \in Nat
    BY <1>2
  <2>3. PICK x \in Nat, y \in Nat : x = Len(wire) /\ y = Len(b)
    BY Zenon, <2>2
  <2>4. x <= y /\ y < x
    BY Zenon, <1>5, <2>1, <2>3
  <2> QED BY SMT, <2>4
<1> QED BY Zenon, <1>1, <1>4, <1>5, WhatIsParsed

-----------------------------------------------------------------------------
(* The properties.                                                         *)

\* No step leaves a byte or a checksum out of its width: TypeOK holds in every
\* reachable state, for all packets, addresses and headers.
THEOREM TypesCorrect == Spec => []TypeOK
<1>1. PathInv => TypeOK
  <2> SUFFICES ASSUME PathInv PROVE TypeOK
    BY Zenon
  <2>1. /\ v6 \in BOOLEAN /\ damaged \in BOOLEAN /\ wire \in Seq(Byte)
        /\ stage \in {"new", "refused", "built", "sent", "arrived", "parsed"}
    BY Zenon DEF PathInv, PlainTypes
  <2>2. bytes \in Seq(Byte)
    <3>1. CASE stage \in {"arrived", "parsed"}
      <4>1. PICK words \in HeaderSizes : bytes = Header(words) \o wire
        BY Zenon, <3>1 DEF PathInv, ReceiveInv
      <4>2. CASE words = 0
        BY Zenon, <2>1, <4>1, <4>2, NoHeader
      <4>3. CASE words # 0
        <5>1. words \in 5 .. 15
          BY Zenon, <4>3, InputTypes DEF HeaderSizes
        <5>2. PICK h \in Seq(Byte) : h = Header(words)
          BY Zenon, <5>1, HeaderBytes
        <5>3. h \o wire \in Seq(Byte)
          BY <2>1
        <5> QED BY Zenon, <4>1, <5>2, <5>3
      <4> QED BY Zenon, <4>2, <4>3
    <3>2. CASE stage \notin {"arrived", "parsed"}
      <4>1. bytes = <<>>
        BY Zenon, <3>2 DEF PathInv, ReceiveInv
      <4> QED BY <4>1
    <3> QED BY Zenon, <3>1, <3>2
  <2>3. \A b \in Seq(Byte) : \A i \in DOMAIN b : b[i] \in Byte
    OBVIOUS
  <2>4. seen.ok => seen.packet.checksum \in Word
    <3>1. CASE stage = "parsed"
      <4>1. seen.ok => seen.packet \in Packet
        BY Zenon, <3>1, SeenOK DEF PacketOK
      <4> QED BY Zenon, <4>1 DEF Packet
    <3>2. CASE stage # "parsed"
      <4>1. seen = NoPacket
        BY Zenon, <3>2 DEF PathInv, ReceiveInv
      <4> QED BY <4>1 DEF NoPacket
    <3> QED BY Zenon, <3>1, <3>2
  <2> QED BY Zenon, <2>1, <2>2, <2>3, <2>4 DEF TypeOK
<1> QED BY <1>1, PathInvariant, PTL

\* A packet a constructor built has a type below 17 or is ICMPv6, so that its
\* first byte is never taken for the version and length of an IPv4 header.
LEMMA BuiltLooksLikeNoHeader ==
  ASSUME NEW p, PacketOK(p), NEW b \in Seq(Byte), b = GetBytes(p, TRUE)
  PROVE  ~(~v6 /\ HasIpv4Header(b))
<1>1. p \in Packet /\ MessageOK(p.message) /\ p.message.shape = Shape(p.typ)
  BY Zenon DEF PacketOK
<1>2. b[1] = p.typ
  BY Zenon, <1>1, GetBytesBoth DEF Layout
<1>3. p.message.shape # "unknown"
  <2>1. p.message.shape \in {"word", "echo", "pointer", "stamps", "bare"}
    BY Zenon, <1>1 DEF MessageOK, Message
  <2> QED BY <2>1
<1>4. ~v6 => p.typ \in {0, 3, 4, 5, 8, 11, 12, 13, 14, 15, 16}
  <2>1. ~v6 => Shape4(p.typ) # "unknown"
    BY Zenon, <1>1, <1>3 DEF Shape
  <2> QED BY <2>1 DEF Shape4
<1>5. ASSUME ~v6
      PROVE  b[1] \div 16 # 4
  <2>1. PICK t \in {0, 3, 4, 5, 8, 11, 12, 13, 14, 15, 16} : t = b[1]
    BY Zenon, <1>2, <1>4, <1>5
  <2>2. t \div 16 # 4
    BY SMT
  <2> QED BY Zenon, <2>1, <2>2
<1> QED BY Zenon, <1>5 DEF HasIpv4Header

\* Whatever a constructor built comes back from the receiver's parser field by
\* field and verifies, for every payload, identifier, code, address and header
\* length (with_checksum, get_bytes, parse_auto, parse, parse_icmp).
THEOREM RoundTripHolds == Spec => []RoundTrip
<1>1. PathInv => RoundTrip
  <2> SUFFICES ASSUME PathInv, stage = "parsed", packet # NoPacket, ~damaged
               PROVE  seen.ok /\ seen.packet = WithChecksum(packet) /\ VerifyChecksum(seen.packet)
    BY Zenon DEF RoundTrip
  <2>1. PacketOK(packet)
    BY Zenon DEF PathInv, PacketInv
  <2>2. PICK p : p = WithChecksum(packet) /\ PacketOK(p) /\ VerifyChecksum(p)
    BY Zenon, <2>1, WithChecksumOK
  <2>3. wire = GetBytes(p, TRUE) /\ wire \in Seq(Byte)
    BY Zenon, <2>2 DEF PathInv, WireInv, PlainTypes
  <2>4. seen = ParseIcmp(wire)
    BY Zenon, <2>2, <2>3, BuiltLooksLikeNoHeader, MessageIsParsed
  <2>5. seen = [ok |-> TRUE, packet |-> p]
    BY Zenon, <2>2, <2>3, <2>4, ParseOfGetBytes
  <2>6. seen.ok /\ seen.packet = p
    BY Zenon, <2>5
  <2> QED BY Zenon, <2>2, <2>6
<1> QED BY <1>1, PathInvariant, PTL

\* verify_checksum and RFC 1071's sum over the bytes received agree, but for
\* the stored 0xFFFF, on every message the parser keeps whole.
THEOREM VerifyMatchesRfcHolds == Spec => []VerifyMatchesRfc
<1>1. PathInv => VerifyMatchesRfc
  <2> SUFFICES ASSUME PathInv, stage = "parsed", seen.ok, Whole
               PROVE  /\ VerifyChecksum(seen.packet) => ValidOnWire(wire)
                      /\ ValidOnWire(wire) /\ seen.packet.checksum # AllOnes
                           => VerifyChecksum(seen.packet)
    BY Zenon DEF VerifyMatchesRfc
  <2>1. seen.packet \in Packet /\ MessageOK(seen.packet.message)
    BY Zenon, SeenOK DEF PacketOK
  <2>2. GetBytes(seen.packet, TRUE) = wire
    BY Zenon, WholeIsWire
  <2> QED BY Zenon, <2>1, <2>2, VerifyIsRfc
<1> QED BY <1>1, PathInvariant, PTL

\* No change of one bit, whichever, of any message, gives a packet that parses
\* whole and that verify_checksum accepts.
THEOREM FlipDetectedHolds == Spec => []FlipDetected
<1>1. PathInv => FlipDetected
  <2> SUFFICES ASSUME PathInv, stage = "parsed", damaged, seen.ok, Whole
               PROVE  ~VerifyChecksum(seen.packet)
    BY Zenon DEF FlipDetected
  <2>1. seen.packet \in Packet /\ MessageOK(seen.packet.message)
    BY Zenon, SeenOK DEF PacketOK
  <2>2. GetBytes(seen.packet, TRUE) = wire
    BY Zenon, WholeIsWire
  <2>3. ~Balanced(WordSum(wire))
    BY Zenon DEF PathInv, WireInv
  <2>4. ~ValidOnWire(wire)
    BY Zenon, <2>3, ValidIsBalanced
  <2> QED BY Zenon, <2>1, <2>2, <2>4, VerifyIsRfc
<1> QED BY <1>1, PathInvariant, PTL

\* get_bytes of a parsed packet is a prefix of the message received, and all of
\* it except for the IPv4 messages of fixed size, whatever the message.
THEOREM ParseKeepsMessageHolds == Spec => []ParseKeepsMessage
<1>1. PathInv => ParseKeepsMessage
  <2> SUFFICES ASSUME PathInv, stage = "parsed", seen.ok, ~(~v6 /\ HasIpv4Header(wire))
               PROVE  LET kept == GetBytes(seen.packet, TRUE)
                      IN  /\ Len(kept) <= Len(wire) /\ kept = SubSeq(wire, 1, Len(kept))
                          /\ Whole \/ (~v6 /\ wire[1] \in 13 .. 16)
    BY Zenon DEF ParseKeepsMessage
  <2>1. wire \in Seq(Byte)
    BY Zenon DEF PathInv, PlainTypes
  <2>2. Accepts(wire) /\ seen.packet = ParsedPacket(wire)
    BY Zenon, MessageIsParsed, AcceptedIs
  <2>3. PICK kept \in Seq(Byte) :
          /\ kept = GetBytes(seen.packet, TRUE) /\ Len(kept) <= Len(wire)
          /\ \A i \in 1 .. Len(kept) : kept[i] = wire[i]
          /\ Len(kept) = Len(wire) \/ (~v6 /\ wire[1] \in 13 .. 16)
    BY Zenon, <2>1, <2>2, ParseIsPrefix
  <2>4. kept = SubSeq(wire, 1, Len(kept))
    <3>0. Len(kept) \in Nat
      OBVIOUS
    <3>1. PICK n \in Nat : n = Len(kept) /\ n <= Len(wire)
      BY Zenon, <2>3, <3>0
    <3>2. /\ SubSeq(wire, 1, n) \in Seq(Byte) /\ Len(SubSeq(wire, 1, n)) = n
          /\ \A i \in 1 .. n : SubSeq(wire, 1, n)[i] = wire[i]
      BY <2>1, <3>1
    <3>3. PICK cut \in Seq(Byte) : /\ cut = SubSeq(wire, 1, n) /\ Len(cut) = n
                                  /\ \A i \in 1 .. n : cut[i] = wire[i]
      BY Zenon, <3>2
    <3>4. \A i \in 1 .. Len(kept) : kept[i] = cut[i]
      BY Zenon, <2>3, <3>1, <3>3
    <3>5. kept = cut
      BY <3>1, <3>3, <3>4, SameBytes
    <3> QED BY Zenon, <3>1, <3>3, <3>5
  <2> QED BY Zenon, <2>3, <2>4 DEF Whole
<1> QED BY <1>1, PathInvariant, PTL

=============================================================================
