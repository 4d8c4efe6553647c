--------------------------- MODULE ChecksumProof ----------------------------
(***************************************************************************)
(* Proofs about ip::Checksum for every buffer of up to 131072 bytes (the   *)
(* headers it is used for have 20 and 8).                                  *)
(***************************************************************************)
EXTENDS Checksum, TLAPS

\* A fold takes a multiple of 65535 out of the sum, and makes it smaller: the
\* second loop of Checksum keeps the sum's class and ends.
LEMMA FoldTakesOut ==
  ASSUME NEW s \in Nat
  PROVE  /\ Folded(s) \in Nat /\ s \div 65536 \in Nat
         /\ s = Folded(s) + 65535 * (s \div 65536)
         /\ s >= 65536 => Folded(s) < s
BY DEF Folded

\* 65535 divides the difference of what was added and what is left; the sum is
\* bounded by the bytes consumed.
ChecksumInv ==
  /\ buffer \in Seq(Byte) /\ Len(buffer) <= 131072 /\ FieldAt + 2 <= Len(buffer)
  /\ ptr \in Nat /\ count \in Nat /\ ptr + count = Len(buffer)
  /\ sum \in Nat /\ total \in Nat /\ carried \in Nat
  /\ pc \in {"add", "fold", "done"} /\ pass \in {1, 2}
  /\ total = sum + 65535 * carried
  /\ pc = "add" => 2 * sum <= 65535 * ptr
  /\ sum <= 65535 * 65536 + 255
  /\ pc = "done" => sum < 65536

LEMMA ChecksumInit == Init => ChecksumInv
BY ChecksumAssumption DEF Init, ChecksumInv

LEMMA ChecksumStep == ChecksumInv /\ [Next]_vars => ChecksumInv'
<1> SUFFICES ASSUME ChecksumInv, [Next]_vars PROVE ChecksumInv'
  OBVIOUS
<1>1. CASE AddWord
  <2>1. /\ ptr + 1 \in 1..Len(buffer) /\ ptr + 2 \in 1..Len(buffer)
    BY <1>1 DEF AddWord, ChecksumInv
  <2>2. buffer[ptr + 1] \in Byte /\ buffer[ptr + 2] \in Byte
    BY <2>1 DEF ChecksumInv
  <2>3. WordAt \in Nat /\ WordAt <= 65535
    BY <2>2 DEF WordAt, Byte
  <2> QED BY <1>1, <2>3 DEF AddWord, ChecksumInv
<1>2. CASE AddByte
  <2> DEFINE byte == IF count > 0 THEN buffer[ptr + 1] ELSE 0
  <2>1. byte \in Byte
    <3>1. CASE count > 0
      <4>1. ptr + 1 \in 1..Len(buffer)
        BY <3>1 DEF ChecksumInv
      <4> QED BY <3>1, <4>1 DEF ChecksumInv
    <3>2. CASE ~(count > 0)
      BY <3>2 DEF Byte
    <3> QED BY <3>1, <3>2
  <2>2. sum' = sum + byte /\ total' = total + byte
    BY <1>2 DEF AddByte
  <2> HIDE DEF byte
  <2> QED BY <1>2, <2>1, <2>2 DEF AddByte, ChecksumInv, Byte
<1>3. CASE Fold
  <2>1. /\ sum' = Folded(sum) /\ carried' = carried + (sum \div 65536)
        /\ sum >= 65536 /\ pc = "fold"
        /\ UNCHANGED <<buffer, ptr, count, pc, pass, total>>
    BY <1>3 DEF Fold
  <2>2. /\ Folded(sum) \in Nat /\ sum \div 65536 \in Nat
        /\ sum = Folded(sum) + 65535 * (sum \div 65536)
        /\ Folded(sum) < sum
    BY <2>1, FoldTakesOut DEF ChecksumInv
  <2> QED BY <2>1, <2>2 DEF ChecksumInv
<1>4. CASE Return
  BY <1>4 DEF Return, ChecksumInv
<1>5. CASE Store
  <2>1. Result \in Nat /\ Result < 65536
    BY <1>5 DEF Store, Result, ChecksumInv
  <2>2. Result % 256 \in Byte /\ Result \div 256 \in Byte
    BY <2>1 DEF Byte
  <2>3. buffer' \in Seq(Byte) /\ Len(buffer') = Len(buffer)
    BY <1>5, <2>2, ChecksumAssumption DEF Store, ChecksumInv
  <2> QED BY <1>5, <2>3 DEF Store, ChecksumInv
<1>6. CASE UNCHANGED vars
  BY <1>6 DEF vars, ChecksumInv
<1> QED BY <1>1, <1>2, <1>3, <1>4, <1>5, <1>6 DEF Next

LEMMA ChecksumInvariant == Spec => []ChecksumInv
<1>1. Init => ChecksumInv
  BY ChecksumInit
<1>2. ChecksumInv /\ [Next]_vars => ChecksumInv'
  BY ChecksumStep
<1> QED BY <1>1, <1>2, PTL DEF Spec

\* Checksum returns the ones' complement of the ones' complement sum of its
\* buffer (ResultCancels).
THEOREM ChecksumCancels == Spec => []ResultCancels
<1>1. ChecksumInv => ResultCancels
  <2> SUFFICES ASSUME ChecksumInv, pc = "done"
               PROVE  /\ Result \in Nat /\ Result < 65536
                      /\ (total + Result) % 65535 = 0
    BY DEF ResultCancels
  <2>1. Result \in Nat /\ Result < 65536 /\ total + Result = 65535 * (carried + 1)
    BY DEF ChecksumInv, Result
  <2>2. carried + 1 \in Nat
    BY DEF ChecksumInv
  <2>3. \A n \in Nat : (65535 * n) % 65535 = 0
    OBVIOUS
  <2> QED BY <2>1, <2>2, <2>3
<1> QED BY <1>1, ChecksumInvariant, PTL

\* The uint32_t sum of Checksum never wraps around (FitsWord32), so the model's
\* exact sum is the code's.
THEOREM SumFits == Spec => []FitsWord32
<1>1. ChecksumInv => FitsWord32
  BY DEF ChecksumInv, FitsWord32
<1> QED BY <1>1, ChecksumInvariant, PTL

-----------------------------------------------------------------------------
(* The check of a receiver. *)

\* Word i of b, counted from 0, as WordAt reads it.
Word(b, i) == b[2 * i + 1] + 256 * b[2 * i + 2]

\* How many words b has, which of them is the checksum, and the byte left over.
Words(b) == Len(b) \div 2

Field == FieldAt \div 2

Odd(b) == IF Len(b) % 2 = 1 THEN b[Len(b)] ELSE 0

\* f[i] is the sum of the first i words of b without the checksum, for i up to n.
PrefixSums(f, b, n) ==
  /\ f \in [Nat -> Nat]
  /\ f[0] = 0
  /\ \A i \in Nat : i < n => f[i + 1] = f[i] + IF i = Field THEN 0 ELSE Word(b, i)

LEMMA WordIndices ==
  ASSUME NEW b \in Seq(Byte), FieldAt + 2 <= Len(b)
  PROVE  /\ Field \in Nat /\ FieldAt = 2 * Field
         /\ Words(b) \in Nat /\ Field < Words(b)
         /\ 2 * Words(b) <= Len(b) /\ Len(b) <= 2 * Words(b) + 1
         /\ Odd(b) \in Nat
<1>1. FieldAt \in Nat /\ FieldAt % 2 = 0 /\ Len(b) \in Nat
  BY ChecksumAssumption
<1>2. Field \in Nat /\ FieldAt = 2 * Field
  BY <1>1 DEF Field
<1>3. Words(b) \in Nat /\ 2 * Words(b) <= Len(b) /\ Len(b) <= 2 * Words(b) + 1
  BY <1>1 DEF Words
<1>4. Field < Words(b)
  BY <1>1, <1>2, <1>3
<1>5. Odd(b) \in Nat
  <2>1. Len(b) % 2 = 1 => Len(b) \in 1..Len(b)
    BY <1>1
  <2> QED BY <2>1 DEF Odd, Byte
<1> QED BY <1>2, <1>3, <1>4, <1>5

LEMMA WordNat ==
  ASSUME NEW b \in Seq(Byte), NEW i \in Nat, i < Words(b)
  PROVE  /\ Word(b, i) \in Nat
         /\ 2 * i + 1 \in 1..Len(b) /\ 2 * i + 2 \in 1..Len(b)
<1>1. Len(b) \in Nat
  OBVIOUS
<1>2. 2 * i + 1 \in 1..Len(b) /\ 2 * i + 2 \in 1..Len(b)
  BY <1>1 DEF Words
<1>3. b[2 * i + 1] \in Nat /\ b[2 * i + 2] \in Nat
  BY <1>2 DEF Byte
<1> QED BY <1>2, <1>3 DEF Word

\* The prefix sums of the words read so far, extended by the next word.
LEMMA OneMoreWord ==
  ASSUME NEW b \in Seq(Byte), NEW n \in Nat, n < Words(b), NEW f, PrefixSums(f, b, n)
  PROVE  \E g : /\ PrefixSums(g, b, n + 1)
                /\ g[n + 1] = f[n] + IF n = Field THEN 0 ELSE Word(b, n)
<1> DEFINE w == IF n = Field THEN 0 ELSE Word(b, n)
<1>1. w \in Nat
  BY WordNat
<1>2. ASSUME NEW i \in Nat, i = n PROVE w = IF i = Field THEN 0 ELSE Word(b, i)
  BY <1>2
<1> HIDE DEF w
<1> DEFINE g == [f EXCEPT ![n + 1] = f[n] + w]
<1>3. f \in [Nat -> Nat] /\ f[0] = 0 /\ f[n] \in Nat
  BY DEF PrefixSums
<1>4. g \in [Nat -> Nat] /\ g[n + 1] = f[n] + w /\ \A i \in Nat : i # n + 1 => g[i] = f[i]
  BY <1>1, <1>3
<1> HIDE DEF g
<1>5. ASSUME NEW i \in Nat, i < n + 1
      PROVE  g[i + 1] = g[i] + IF i = Field THEN 0 ELSE Word(b, i)
  <2>1. g[i] = f[i]
    BY <1>4, <1>5
  <2>2. CASE i = n
    BY <1>2, <1>4, <2>1, <2>2, Zenon
  <2>3. CASE i < n
    <3>1. f[i + 1] = f[i] + IF i = Field THEN 0 ELSE Word(b, i)
      BY <2>3 DEF PrefixSums
    <3>2. i + 1 \in Nat /\ i + 1 # n + 1
      BY <2>3
    <3>3. g[i + 1] = f[i + 1]
      BY <1>4, <3>2, Zenon
    <3> QED BY <2>1, <3>1, <3>3, Zenon
  <2> QED BY <1>5, <2>2, <2>3
<1>6. g[0] = 0
  BY <1>3, <1>4
<1>7. PrefixSums(g, b, n + 1)
  BY <1>4, <1>5, <1>6, Zenon DEF PrefixSums
<1>8. g[n + 1] = f[n] + IF n = Field THEN 0 ELSE Word(b, n)
  BY <1>2, <1>4, Zenon
<1> QED BY <1>7, <1>8, Zenon

LEMMA OtherWordsSame ==
  ASSUME NEW b, NEW c, NEW f, NEW n, PrefixSums(f, b, n),
         \A i \in Nat : i < n /\ i # Field => Word(c, i) = Word(b, i)
  PROVE  PrefixSums(f, c, n)
<1>1. ASSUME NEW i \in Nat, i < n
      PROVE  f[i + 1] = f[i] + IF i = Field THEN 0 ELSE Word(c, i)
  <2>1. f[i + 1] = f[i] + IF i = Field THEN 0 ELSE Word(b, i)
    BY <1>1, Zenon DEF PrefixSums
  <2>2. CASE i = Field
    BY <2>1, <2>2, Zenon
  <2>3. CASE i # Field
    BY <1>1, <2>1, <2>3, Zenon
  <2> QED BY <2>2, <2>3
<1> QED BY <1>1, Zenon DEF PrefixSums

\* Storing a checksum changes the word Field only.
LEMMA StoreWord ==
  ASSUME NEW b \in Seq(Byte), FieldAt + 2 <= Len(b),
         NEW c \in Seq(Byte), Len(c) = Len(b),
         \A i \in 1..Len(b) : i # FieldAt + 1 /\ i # FieldAt + 2 => c[i] = b[i]
  PROVE  /\ Words(c) = Words(b) /\ Odd(c) = Odd(b)
         /\ Word(c, Field) = c[FieldAt + 1] + 256 * c[FieldAt + 2]
         /\ \A i \in Nat : i < Words(b) /\ i # Field => Word(c, i) = Word(b, i)
<1>2. /\ Field \in Nat /\ FieldAt = 2 * Field
      /\ Words(b) \in Nat /\ Field < Words(b) /\ Len(b) \in Nat
      /\ 2 * Words(b) <= Len(b) /\ Len(b) <= 2 * Words(b) + 1
  BY WordIndices
<1>3. Words(c) = Words(b)
  BY Zenon DEF Words
<1>4. Odd(c) = Odd(b)
  <2>1. Len(b) % 2 = 1 => Len(b) = 2 * Words(b) + 1
    BY <1>2 DEF Words
  <2>2. Len(b) % 2 = 1 => Len(b) \in 1..Len(b) /\ Len(b) # FieldAt + 1 /\ Len(b) # FieldAt + 2
    BY <1>2, <2>1
  <2> QED BY <2>2, Zenon DEF Odd
<1>5. Word(c, Field) = c[FieldAt + 1] + 256 * c[FieldAt + 2]
  BY <1>2, Zenon DEF Word
<1>6. ASSUME NEW i \in Nat, i < Words(b), i # Field PROVE Word(c, i) = Word(b, i)
  <2>1. 2 * i + 1 \in 1..Len(b) /\ 2 * i + 2 \in 1..Len(b)
    BY <1>6, WordNat
  <2>2. /\ 2 * i + 1 # FieldAt + 1 /\ 2 * i + 1 # FieldAt + 2
        /\ 2 * i + 2 # FieldAt + 1 /\ 2 * i + 2 # FieldAt + 2
    BY <1>2, <1>6
  <2>3. c[2 * i + 1] = b[2 * i + 1] /\ c[2 * i + 2] = b[2 * i + 2]
    BY <2>1, <2>2, Zenon
  <2> QED BY <2>3, Zenon DEF Word
<1> QED BY <1>3, <1>4, <1>5, <1>6, Zenon

\* A multiple of 65535 other than 0.
Cancels(n) == \E k \in Nat \ {0} : n = 65535 * k

LEMMA CancelsOf ==
  ASSUME NEW k \in Nat, NEW n, n = 65535 * (k + 1)
  PROVE  Cancels(n)
<1>1. k + 1 \in Nat \ {0}
  OBVIOUS
<1> QED BY <1>1, SMT DEF Cancels

\* The total of the words before n, if f has their prefix sums.
TotalAt(f, n) == f[n] + IF n > Field THEN Word(buffer, Field) ELSE 0

\* What the two passes add up.  The prefix sums that the first pass builds are
\* those of the second one too, and with the checksum they cancel out.
SumsAre(f, n) ==
  /\ ptr = 2 * n /\ n <= Words(buffer)
  /\ pc # "add" => n = Words(buffer)
  /\ PrefixSums(f, buffer, IF pass = 1 THEN n ELSE Words(buffer))
  /\ total = TotalAt(f, n) + IF pc = "add" THEN 0 ELSE Odd(buffer)
  /\ pass = 2 => Cancels(f[Words(buffer)] + Word(buffer, Field) + Odd(buffer))

SumsInv ==
  /\ total > 0 => sum > 0
  /\ pass = 1 => Word(buffer, Field) = 0
  /\ \E f : \E n \in Nat : SumsAre(f, n)

LEMMA SumsInit == Init => SumsInv
<1> SUFFICES ASSUME Init PROVE SumsInv
  OBVIOUS
<1>1. /\ buffer \in Seq(Byte) /\ FieldAt + 2 <= Len(buffer)
      /\ buffer[FieldAt + 1] = 0 /\ buffer[FieldAt + 2] = 0
  BY ChecksumAssumption DEF Init
<1>2. Field \in Nat /\ FieldAt = 2 * Field /\ Words(buffer) \in Nat
  BY <1>1, WordIndices
<1>3. Word(buffer, Field) = 0
  BY <1>1, <1>2 DEF Word
<1> DEFINE f == [i \in Nat |-> 0]
<1>4. PrefixSums(f, buffer, 0) /\ f[0] = 0
  BY DEF PrefixSums
<1> HIDE DEF f
<1>5. TotalAt(f, 0) = 0
  BY <1>2, <1>4 DEF TotalAt
<1>6. SumsAre(f, 0)
  BY <1>2, <1>4, <1>5 DEF Init, SumsAre
<1> QED BY <1>3, <1>6 DEF Init, SumsInv

LEMMA SumsAddWord == ChecksumInv /\ SumsInv /\ AddWord => SumsInv'
<1> SUFFICES ASSUME ChecksumInv, SumsInv, AddWord PROVE SumsInv'
  OBVIOUS
<1>1. /\ buffer \in Seq(Byte) /\ FieldAt + 2 <= Len(buffer) /\ ptr + count = Len(buffer)
      /\ ptr \in Nat /\ count \in Nat /\ total \in Nat /\ sum \in Nat /\ pass \in {1, 2}
  BY DEF ChecksumInv
<1>2. /\ pc = "add" /\ count > 1 /\ pc' = pc /\ pass' = pass /\ buffer' = buffer
      /\ ptr' = ptr + 2 /\ total' = total + WordAt /\ sum' = sum + WordAt
  BY DEF AddWord
<1>3. /\ Field \in Nat /\ Words(buffer) \in Nat /\ Field < Words(buffer)
      /\ Len(buffer) <= 2 * Words(buffer) + 1
  BY <1>1, WordIndices
<1>4. PICK f : \E n \in Nat : SumsAre(f, n)
  BY DEF SumsInv
<1>5. PICK n \in Nat : SumsAre(f, n)
  BY <1>4
<1>6. ptr = 2 * n /\ n < Words(buffer) /\ n + 1 <= Words(buffer)
  BY <1>1, <1>2, <1>3, <1>5 DEF SumsAre
<1> DEFINE w == Word(buffer, n)
           v == Word(buffer, Field)
<1>7. w \in Nat /\ v \in Nat /\ WordAt = w
  <2>1. w \in Nat /\ v \in Nat
    BY <1>1, <1>3, <1>6, WordNat, Zenon
  <2>2. WordAt = w
    BY <1>6, Zenon DEF WordAt, Word
  <2> QED BY <2>1, <2>2, Zenon
<1>8. PICK g : /\ PrefixSums(g, buffer, IF pass = 1 THEN n + 1 ELSE Words(buffer))
               /\ g[n + 1] = f[n] + (IF n = Field THEN 0 ELSE w)
               /\ pass = 2 => g = f
  <2>1. CASE pass = 1
    BY <1>1, <1>5, <1>6, <2>1, OneMoreWord DEF SumsAre
  <2>2. CASE pass = 2
    <3>1. PrefixSums(f, buffer, Words(buffer))
      BY <1>5, <2>2 DEF SumsAre
    <3>2. f[n + 1] = f[n] + IF n = Field THEN 0 ELSE w
      BY <1>6, <3>1 DEF PrefixSums
    <3> QED BY <2>2, <3>1, <3>2
  <2> QED BY <1>1, <2>1, <2>2
<1>9. total = TotalAt(f, n) /\ f[n] \in Nat
  <2>1. f[n] \in Nat
    BY <1>5 DEF SumsAre, PrefixSums
  <2>2. TotalAt(f, n) \in Nat
    BY <1>3, <1>7, <2>1 DEF TotalAt
  <2> QED BY <1>2, <1>5, <2>1, <2>2 DEF SumsAre
<1>10. n = Field => w = v
  OBVIOUS
<1> HIDE DEF w, v
<1>11. total' = TotalAt(g, n + 1)
  <2>1. TotalAt(f, n) = f[n] + IF n > Field THEN v ELSE 0
    BY DEF TotalAt, v
  <2>2. TotalAt(g, n + 1) = g[n + 1] + IF n + 1 > Field THEN v ELSE 0
    BY DEF TotalAt, v
  <2>3. total' = total + w
    BY <1>2, <1>7
  <2>4. CASE n = Field
    BY <1>3, <1>7, <1>8, <1>9, <1>10, <2>1, <2>2, <2>3, <2>4
  <2>5. CASE n # Field
    BY <1>3, <1>7, <1>8, <1>9, <2>1, <2>2, <2>3, <2>5
  <2> QED BY <2>4, <2>5
<1>12. TotalAt(g, n + 1) \in Nat /\ TotalAt(g, n + 1)' = TotalAt(g, n + 1)
  <2>1. total' \in Nat
    BY <1>1, <1>2, <1>7
  <2> QED BY <1>2, <1>11, <2>1 DEF TotalAt
<1>13. SumsAre(g, n + 1)'
  <2>1. total' = TotalAt(g, n + 1)' + 0
    BY <1>11, <1>12
  <2>2. ptr' = 2 * (n + 1)
    BY <1>2, <1>6
  <2>3. pass = 2 => Cancels(g[Words(buffer)] + Word(buffer, Field) + Odd(buffer))
    BY <1>5, <1>8 DEF SumsAre
  <2> QED BY <1>2, <1>6, <1>8, <2>1, <2>2, <2>3 DEF SumsAre
<1>14. total' > 0 => sum' > 0
  BY <1>1, <1>2, <1>7 DEF SumsInv
<1>15. n + 1 \in Nat
  OBVIOUS
<1> QED BY <1>2, <1>13, <1>14, <1>15 DEF SumsInv

LEMMA SumsAddByte == ChecksumInv /\ SumsInv /\ AddByte => SumsInv'
<1> SUFFICES ASSUME ChecksumInv, SumsInv, AddByte PROVE SumsInv'
  OBVIOUS
<1>1. /\ buffer \in Seq(Byte) /\ FieldAt + 2 <= Len(buffer) /\ ptr + count = Len(buffer)
      /\ ptr \in Nat /\ count \in Nat /\ total \in Nat /\ sum \in Nat
  BY DEF ChecksumInv
<1>2. /\ Field \in Nat /\ Words(buffer) \in Nat /\ Field < Words(buffer)
      /\ 2 * Words(buffer) <= Len(buffer) /\ Len(buffer) <= 2 * Words(buffer) + 1
      /\ Odd(buffer) \in Nat
  BY <1>1, WordIndices
<1>3. PICK f : \E n \in Nat : SumsAre(f, n)
  BY DEF SumsInv
<1>4. PICK n \in Nat : SumsAre(f, n)
  BY <1>3
<1>5. n = Words(buffer) /\ ptr = 2 * n
  BY <1>1, <1>2, <1>4 DEF SumsAre, AddByte
<1>6. Odd(buffer) = IF count > 0 THEN buffer[ptr + 1] ELSE 0
  <2>1. count > 0 <=> Len(buffer) % 2 = 1
    BY <1>1, <1>2, <1>5 DEF Words
  <2>2. count > 0 => Len(buffer) = ptr + 1
    <3> DEFINE L == Len(buffer)
               W == Words(buffer)
    <3>1. /\ ptr + count = L /\ count \in Nat /\ n \in Nat
          /\ L <= 2 * W + 1 /\ n = W /\ ptr = 2 * n
      BY <1>1, <1>2, <1>5, Zenon
    <3> HIDE DEF L, W
    <3>2. count > 0 => L = ptr + 1
      BY <3>1
    <3> QED BY <3>2, Zenon DEF L
  <2> QED BY <2>1, <2>2 DEF Odd
<1>7. /\ pc = "add" /\ pc' = "fold" /\ pass' = pass /\ buffer' = buffer /\ ptr' = ptr
      /\ total' = total + Odd(buffer) /\ sum' = sum + Odd(buffer)
  BY <1>6 DEF AddByte
<1>8. total' = TotalAt(f, n) + Odd(buffer)
  <2>1. f[n] \in Nat
    BY <1>4 DEF SumsAre, PrefixSums
  <2>2. Word(buffer, Field) \in Nat
    BY <1>1, <1>2, WordNat
  <2>3. TotalAt(f, n) \in Nat
    BY <1>2, <2>1, <2>2 DEF TotalAt
  <2> QED BY <1>4, <1>7, <2>3 DEF SumsAre
<1>9. TotalAt(f, n)' = TotalAt(f, n)
  BY <1>7 DEF TotalAt
<1>10. SumsAre(f, n)'
  BY <1>4, <1>5, <1>7, <1>8, <1>9 DEF SumsAre
<1>11. total' > 0 => sum' > 0
  BY <1>1, <1>2, <1>7 DEF SumsInv
<1> QED BY <1>7, <1>10, <1>11 DEF SumsInv

LEMMA SumsStore == ChecksumInv /\ SumsInv /\ Store => SumsInv'
<1> SUFFICES ASSUME ChecksumInv, SumsInv, Store PROVE SumsInv'
  OBVIOUS
<1>1. /\ buffer \in Seq(Byte) /\ FieldAt + 2 <= Len(buffer) /\ FieldAt \in Nat
      /\ total \in Nat /\ carried \in Nat
  BY ChecksumAssumption DEF ChecksumInv
<1>2. /\ pc = "done" /\ pass = 1 /\ pass' = 2 /\ ptr' = 0 /\ pc' = "add" /\ total' = 0
      /\ buffer' = [buffer EXCEPT ![FieldAt + 1] = Result % 256, ![FieldAt + 2] = Result \div 256]
  BY DEF Store
<1>3. /\ Result \in Nat /\ Result < 65536 /\ total + Result = 65535 * (carried + 1)
  BY <1>1, <1>2 DEF ChecksumInv, Result
<1>4. /\ Result % 256 \in Byte /\ Result \div 256 \in Byte
      /\ Result = (Result % 256) + 256 * (Result \div 256)
  BY <1>3 DEF Byte
<1>5. /\ buffer' \in Seq(Byte) /\ Len(buffer') = Len(buffer)
      /\ buffer'[FieldAt + 1] = Result % 256 /\ buffer'[FieldAt + 2] = Result \div 256
      /\ \A i \in 1..Len(buffer) :
           i # FieldAt + 1 /\ i # FieldAt + 2 => buffer'[i] = buffer[i]
  BY <1>1, <1>2, <1>4
<1>6. /\ Words(buffer') = Words(buffer) /\ Odd(buffer') = Odd(buffer)
      /\ Word(buffer', Field) = buffer'[FieldAt + 1] + 256 * buffer'[FieldAt + 2]
      /\ \A i \in Nat : i < Words(buffer) /\ i # Field => Word(buffer', i) = Word(buffer, i)
  BY <1>1, <1>5, StoreWord
<1>7. Word(buffer', Field) = Result
  BY <1>4, <1>5, <1>6
<1>8. Field \in Nat /\ Words(buffer) \in Nat /\ Field < Words(buffer) /\ Odd(buffer) \in Nat
  BY <1>1, WordIndices
<1>9. PICK f : \E n \in Nat : SumsAre(f, n)
  BY DEF SumsInv
<1>10. PICK n \in Nat : SumsAre(f, n)
  BY <1>9
<1>11. n = Words(buffer) /\ PrefixSums(f, buffer, n) /\ Word(buffer, Field) = 0
  BY <1>2, <1>10 DEF SumsAre, SumsInv
<1>12. f \in [Nat -> Nat] /\ f[0] = 0 /\ f[n] \in Nat
  BY <1>11 DEF PrefixSums
<1>13. total = f[n] + Odd(buffer)
  <2>1. TotalAt(f, n) = f[n] + 0
    BY <1>8, <1>11 DEF TotalAt
  <2>2. total = TotalAt(f, n) + Odd(buffer)
    BY <1>2, <1>10 DEF SumsAre
  <2> QED BY <1>12, <2>1, <2>2
<1>14. f[n] + Result + Odd(buffer) = 65535 * (carried + 1)
  BY <1>3, <1>8, <1>12, <1>13
<1>15. Cancels(f[n] + Result + Odd(buffer))
  BY <1>1, <1>14, CancelsOf, SMT
<1>16. PrefixSums(f, buffer', Words(buffer))
  BY <1>6, <1>11, OtherWordsSame, Zenon
<1>17. TotalAt(f, 0)' = 0
  BY <1>8, <1>12 DEF TotalAt
<1>18. SumsAre(f, 0)'
  BY <1>2, <1>6, <1>7, <1>8, <1>11, <1>15, <1>16, <1>17 DEF SumsAre
<1> QED BY <1>2, <1>18 DEF SumsInv

LEMMA SumsStep == ChecksumInv /\ SumsInv /\ [Next]_vars => SumsInv'
<1> SUFFICES ASSUME ChecksumInv, SumsInv, [Next]_vars PROVE SumsInv'
  OBVIOUS
<1>1. CASE AddWord
  BY <1>1, SumsAddWord
<1>2. CASE AddByte
  BY <1>2, SumsAddByte
<1>3. CASE Fold
  <2>1. sum' > 0
    BY <1>3 DEF Fold, Folded, ChecksumInv
  <2>2. UNCHANGED <<buffer, ptr, pc, pass, total>>
    BY <1>3 DEF Fold
  <2> QED BY <2>1, <2>2, Zenon DEF SumsInv, SumsAre, TotalAt
<1>4. CASE Return
  <2>1. pc # "add" /\ pc' # "add" /\ UNCHANGED <<buffer, ptr, sum, pass, total>>
    BY <1>4 DEF Return
  <2> QED BY <2>1, Zenon DEF SumsInv, SumsAre, TotalAt
<1>5. CASE Store
  BY <1>5, SumsStore
<1>6. CASE UNCHANGED vars
  BY <1>6, Zenon DEF vars, SumsInv, SumsAre, TotalAt
<1> QED BY <1>1, <1>2, <1>3, <1>4, <1>5, <1>6 DEF Next

\* A receiver finds right what Checksum filled in: over a buffer that holds its
\* own checksum the function returns 0 (VerifiesToZero).
THEOREM ChecksumVerifies == Spec => []VerifiesToZero
<1>1. ChecksumInv /\ SumsInv => VerifiesToZero
  <2> SUFFICES ASSUME ChecksumInv, SumsInv, pc = "done", pass = 2 PROVE Result = 0
    BY DEF VerifiesToZero
  <2>1. /\ buffer \in Seq(Byte) /\ FieldAt + 2 <= Len(buffer) /\ total \in Nat
        /\ sum \in Nat /\ sum < 65536 /\ carried \in Nat /\ total = sum + 65535 * carried
    BY DEF ChecksumInv
  <2>2. Field \in Nat /\ Words(buffer) \in Nat /\ Field < Words(buffer)
    BY <2>1, WordIndices
  <2>3. PICK f : \E n \in Nat : SumsAre(f, n)
    BY DEF SumsInv
  <2>4. SumsAre(f, Words(buffer))
    BY <2>3 DEF SumsAre
  <2>5. TotalAt(f, Words(buffer)) = f[Words(buffer)] + Word(buffer, Field)
    BY <2>2 DEF TotalAt
  <2>6. Cancels(total)
    BY <2>4, <2>5 DEF SumsAre
  <2>7. PICK k \in Nat \ {0} : total = 65535 * k
    BY <2>6 DEF Cancels
  <2>8. sum > 0
    BY <2>7 DEF SumsInv
  <2>9. sum = 65535
    BY <2>1, <2>7, <2>8
  <2> QED BY <2>9 DEF Result
<1>2. Init => SumsInv
  BY SumsInit
<1>3. ChecksumInv /\ SumsInv /\ [Next]_vars => SumsInv'
  BY SumsStep
<1> QED BY <1>1, <1>2, <1>3, ChecksumInvariant, PTL DEF Spec

=============================================================================
